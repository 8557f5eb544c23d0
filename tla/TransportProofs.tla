-------------------------- MODULE TransportProofs --------------------------
(***************************************************************************)
(* Proofs about Transport, for any set of indices and names and any bounds.*)
(***************************************************************************)
EXTENDS Transport, TLAPS

(* Lemmas about the notifications in a queue. *)

\* An empty queue ends nothing.
LEMMA KillsEmpty ==
  ASSUME NEW i
  PROVE  ~Kills(<<>>, i)
  BY DEF Kills

\* Appending a notification.
LEMMA KillsAppend ==
  ASSUME NEW s \in Seq(Notification), NEW m \in Notification, NEW i
  PROVE  Kills(Append(s, m), i) <=> Kills(s, i) \/ Ends(m, i)
  <1>1. /\ DOMAIN s = 1..Len(s) /\ Len(s) \in Nat
        /\ DOMAIN Append(s, m) = 1..(Len(s) + 1)
        /\ Append(s, m)[Len(s) + 1] = m
        /\ \A k \in 1..Len(s) : Append(s, m)[k] = s[k]
    OBVIOUS
  <1>2. Kills(s, i) \/ Ends(m, i) => Kills(Append(s, m), i)
    <2>1. Len(s) + 1 \in DOMAIN Append(s, m)
      BY <1>1
    <2> QED BY <1>1, <2>1 DEF Kills
  <1>3. Kills(Append(s, m), i) => Kills(s, i) \/ Ends(m, i)
    BY <1>1 DEF Kills
  <1> QED BY <1>2, <1>3

\* Taking the first notification off.
LEMMA KillsTail ==
  ASSUME NEW s \in Seq(Notification), s # <<>>, NEW i
  PROVE  /\ Head(s) \in Notification /\ Tail(s) \in Seq(Notification)
         /\ Kills(<<Head(s)>>, i) <=> Ends(Head(s), i)
         /\ Kills(s, i) <=> Ends(Head(s), i) \/ Kills(Tail(s), i)
  <1>1. /\ DOMAIN s = 1..Len(s) /\ Len(s) \in Nat \ {0}
        /\ DOMAIN Tail(s) = 1..(Len(s) - 1)
        /\ Head(s) = s[1]
        /\ \A k \in 1..(Len(s) - 1) : Tail(s)[k] = s[k + 1]
    OBVIOUS
  <1>2. Head(s) \in Notification /\ Tail(s) \in Seq(Notification)
    OBVIOUS
  <1>3. Kills(<<Head(s)>>, i) <=> Ends(Head(s), i)
    BY DEF Kills
  <1>4. ASSUME NEW k \in DOMAIN s, Ends(s[k], i), ~Ends(Head(s), i)
        PROVE  Kills(Tail(s), i)
    <2>1. k - 1 \in DOMAIN Tail(s) /\ Tail(s)[k - 1] = s[k]
      BY <1>1, <1>4
    <2> QED BY <1>4, <2>1 DEF Kills
  <1>5. ASSUME NEW k \in DOMAIN Tail(s), Ends(Tail(s)[k], i)
        PROVE  Kills(s, i)
    <2>1. k + 1 \in DOMAIN s /\ s[k + 1] = Tail(s)[k]
      BY <1>1
    <2> QED BY <1>5, <2>1 DEF Kills
  <1>6. Ends(Head(s), i) => Kills(s, i)
    BY <1>1 DEF Kills
  <1>7. Kills(s, i) => Ends(Head(s), i) \/ Kills(Tail(s), i)
    BY <1>4 DEF Kills
  <1>8. Kills(Tail(s), i) => Kills(s, i)
    <2> HAVE Kills(Tail(s), i)
    <2>1. PICK k \in DOMAIN Tail(s) : Ends(Tail(s)[k], i)
      BY DEF Kills
    <2> QED BY <1>5, <2>1
  <1> QED BY <1>2, <1>3, <1>6, <1>7, <1>8

\* An overrun put in front ends every token.
LEMMA KillsOverrun ==
  ASSUME NEW s \in Seq(Notification), NEW n \in 0..Len(s), NEW i
  PROVE  /\ <<Overrun>> \o s \in Seq(Notification)
         /\ Len(<<Overrun>> \o s) = Len(s) + 1
         /\ Kills(<<Overrun>> \o s, i)
         /\ KillsUpTo(<<Overrun>> \o s, n + 1, i)
  <1>1. /\ Overrun \in Notification /\ Ends(Overrun, i)
    BY DEF Notification, Ends
  <1>2. /\ <<Overrun>> \o s \in Seq(Notification)
        /\ Len(<<Overrun>> \o s) = Len(s) + 1
        /\ (<<Overrun>> \o s)[1] = Overrun
        /\ DOMAIN (<<Overrun>> \o s) = 1..(Len(s) + 1)
        /\ Len(s) \in Nat
    BY <1>1
  <1>3. 1 \in 1..(n + 1) /\ 1 \in DOMAIN (<<Overrun>> \o s)
    BY <1>2
  <1> QED BY <1>1, <1>2, <1>3 DEF KillsUpTo, Kills

\* The part of a queue ahead of a reply.
LEMMA KillsPrefix ==
  ASSUME NEW s \in Seq(Notification), NEW i
  PROVE  /\ ~KillsUpTo(s, 0, i)
         /\ KillsUpTo(s, Len(s), i) <=> Kills(s, i)
         /\ \A n \in 0..Len(s) : KillsUpTo(s, n, i) => Kills(s, i)
  <1>1. DOMAIN s = 1..Len(s) /\ Len(s) \in Nat
    OBVIOUS
  <1> QED BY <1>1 DEF KillsUpTo, Kills

\* What comes after the reply does not matter to it.
LEMMA KillsPrefixAppend ==
  ASSUME NEW s \in Seq(Notification), NEW m \in Notification,
         NEW n \in 0..Len(s), NEW i
  PROVE  KillsUpTo(Append(s, m), n, i) <=> KillsUpTo(s, n, i)
  <1>1. /\ DOMAIN s = 1..Len(s) /\ Len(s) \in Nat
        /\ DOMAIN Append(s, m) = 1..(Len(s) + 1)
        /\ \A k \in 1..Len(s) : Append(s, m)[k] = s[k]
    OBVIOUS
  <1>2. \A k \in 1..n : k \in DOMAIN s /\ k \in DOMAIN Append(s, m)
                        /\ Append(s, m)[k] = s[k]
    BY <1>1
  <1> QED BY <1>2 DEF KillsUpTo

\* Forwarding the first notification moves the reply one place up.
LEMMA KillsForward ==
  ASSUME NEW s \in Seq(Notification), s # <<>>, NEW n \in 1..Len(s), NEW i,
         KillsUpTo(s, n, i)
  PROVE  Ends(Head(s), i) \/ KillsUpTo(Tail(s), n - 1, i)
  <1>1. /\ DOMAIN s = 1..Len(s) /\ Len(s) \in Nat \ {0}
        /\ DOMAIN Tail(s) = 1..(Len(s) - 1)
        /\ Head(s) = s[1]
        /\ \A k \in 1..(Len(s) - 1) : Tail(s)[k] = s[k + 1]
    OBVIOUS
  <1>2. PICK k \in 1..n : Ends(s[k], i)
    BY DEF KillsUpTo
  <1>3. CASE k = 1
    BY <1>1, <1>2, <1>3
  <1>4. CASE k # 1
    <2>1. /\ k - 1 \in 1..(n - 1) /\ k - 1 \in DOMAIN Tail(s)
          /\ Tail(s)[k - 1] = s[k]
      BY <1>1, <1>4
    <2> QED BY <1>2, <2>1 DEF KillsUpTo
  <1> QED BY <1>3, <1>4

\* Where the end of the connection is, as a queue changes.
LEMMA ClosesQueue ==
  ASSUME NEW s \in Seq(Notification)
  PROVE  /\ ~Closes(<<>>)
         /\ \A m \in Notification : Closes(Append(s, m)) <=> Closes(s) \/ m = Closed
         /\ s # <<>> => /\ Closes(<<Head(s)>>) <=> Head(s) = Closed
                        /\ Closes(s) <=> Head(s) = Closed \/ Closes(Tail(s))
         /\ Closes(<<Overrun>> \o s) => Closes(s)
  <1>1. DOMAIN s = 1..Len(s) /\ Len(s) \in Nat
    OBVIOUS
  <1>2. ASSUME NEW m \in Notification
        PROVE  Closes(Append(s, m)) <=> Closes(s) \/ m = Closed
    <2>1. /\ DOMAIN Append(s, m) = 1..(Len(s) + 1)
          /\ Append(s, m)[Len(s) + 1] = m
          /\ \A k \in 1..Len(s) : Append(s, m)[k] = s[k]
      OBVIOUS
    <2>2. Len(s) + 1 \in DOMAIN Append(s, m)
      BY <1>1, <2>1
    <2>3. Closes(s) \/ m = Closed => Closes(Append(s, m))
      BY <1>1, <2>1, <2>2 DEF Closes
    <2>4. Closes(Append(s, m)) => Closes(s) \/ m = Closed
      BY <1>1, <2>1 DEF Closes
    <2> QED BY <2>3, <2>4
  <1>3. ASSUME s # <<>>
        PROVE  /\ Closes(<<Head(s)>>) <=> Head(s) = Closed
               /\ Closes(s) <=> Head(s) = Closed \/ Closes(Tail(s))
    <2>1. /\ Len(s) > 0 /\ DOMAIN Tail(s) = 1..(Len(s) - 1) /\ Head(s) = s[1]
          /\ \A k \in 1..(Len(s) - 1) : Tail(s)[k] = s[k + 1]
      BY <1>3
    <2>2. Closes(<<Head(s)>>) <=> Head(s) = Closed
      BY DEF Closes
    <2>3. ASSUME NEW k \in DOMAIN s, s[k] = Closed, Head(s) # Closed
          PROVE  Closes(Tail(s))
      <3>1. k - 1 \in DOMAIN Tail(s) /\ Tail(s)[k - 1] = s[k]
        BY <1>1, <2>1, <2>3
      <3> QED BY <2>3, <3>1 DEF Closes
    <2>4. ASSUME NEW k \in DOMAIN Tail(s), Tail(s)[k] = Closed
          PROVE  Closes(s)
      <3>1. k + 1 \in DOMAIN s /\ s[k + 1] = Tail(s)[k]
        BY <1>1, <2>1
      <3> QED BY <2>4, <3>1 DEF Closes
    <2>5. Closes(s) => Head(s) = Closed \/ Closes(Tail(s))
      <3> SUFFICES ASSUME Closes(s), Head(s) # Closed PROVE Closes(Tail(s))
        OBVIOUS
      <3>1. PICK k \in DOMAIN s : s[k] = Closed
        BY DEF Closes
      <3> QED BY <2>3, <3>1
    <2>6. Closes(Tail(s)) => Closes(s)
      <3> SUFFICES ASSUME Closes(Tail(s)) PROVE Closes(s)
        OBVIOUS
      <3>1. PICK k \in DOMAIN Tail(s) : Tail(s)[k] = Closed
        BY DEF Closes
      <3> QED BY <2>4, <3>1
    <2>7. Head(s) = Closed => Closes(s)
      BY <1>1, <2>1 DEF Closes
    <2> QED BY <2>2, <2>5, <2>6, <2>7
  <1>4. ASSUME NEW k \in DOMAIN (<<Overrun>> \o s), (<<Overrun>> \o s)[k] = Closed
        PROVE  Closes(s)
    <2>1. /\ DOMAIN (<<Overrun>> \o s) = 1..(Len(s) + 1)
          /\ (<<Overrun>> \o s)[1] = Overrun
          /\ \A j \in 1..Len(s) : (<<Overrun>> \o s)[j + 1] = s[j]
      OBVIOUS
    <2>2. k # 1
      BY <1>4, <2>1 DEF Overrun, Closed
    <2>3. k - 1 \in DOMAIN s /\ s[k - 1] = Closed
      <3>1. k - 1 \in 1..Len(s) /\ k = (k - 1) + 1
        BY <1>1, <2>1, <2>2
      <3> QED BY <1>1, <1>4, <2>1, <3>1
    <2> QED BY <2>3 DEF Closes
  <1>5. Closes(<<Overrun>> \o s) => Closes(s)
    <2> SUFFICES ASSUME Closes(<<Overrun>> \o s) PROVE Closes(s)
      OBVIOUS
    <2>1. PICK k \in DOMAIN (<<Overrun>> \o s) : (<<Overrun>> \o s)[k] = Closed
      BY DEF Closes
    <2> QED BY <1>4, <2>1
  <1>6. ~Closes(<<>>)
    BY DEF Closes
  <1> QED BY <1>2, <1>3, <1>5, <1>6

-----------------------------------------------------------------------------
(* Types. *)

\* The constants of the module have their types.
LEMMA BlankTypes == AnyName \in Name /\ Blank \in Reply /\ 0 \in Incarnation
                    /\ 0 \in Generation
  BY TransportAssumption DEF AnyName, Blank, Reply, Incarnation, Generation

\* Recording notifications keeps the types of what it changes.
LEMMA RecordedTypes ==
  ASSUME TypeOK, NEW s \in Seq(Notification),
         NEW gens \in [Index -> Generation], Recorded(s, gens)
  PROVE  /\ generations' \in [Index -> Generation]
         /\ deletion_epoch' \in Nat
         /\ notifications_closed' \in BOOLEAN
  <1>1. generations' \in [Index -> Generation]
    BY BlankTypes DEF Recorded, Surviving
  <1>2. deletion_epoch' \in Nat
    BY DEF Recorded, TypeOK
  <1>3. notifications_closed' \in BOOLEAN
    BY DEF Recorded, TypeOK
  <1> QED BY <1>1, <1>2, <1>3

\* A drain keeps the types.
LEMMA DrainTypes ==
  ASSUME TypeOK, Drain
  PROVE  /\ generations' \in [Index -> Generation]
         /\ deletion_epoch' \in Nat
         /\ notifications_closed' \in BOOLEAN
         /\ invalidated' \in BOOLEAN
         /\ channel' \in Seq(Notification)
  <1>1. channel \in Seq(Notification) /\ generations \in [Index -> Generation]
    BY DEF TypeOK
  <1>2. channel' \in Seq(Notification)
    BY DEF Drain
  <1>4. invalidated' \in BOOLEAN
    BY DEF Drain
  <1>3. Recorded(channel, generations)
    BY DEF Drain
  <1> QED BY <1>1, <1>2, <1>3, <1>4, RecordedTypes

\* Every step keeps the types.
LEMMA TypeStep == TypeOK /\ [Next]_vars => TypeOK'
  <1> SUFFICES ASSUME TypeOK, [Next]_vars PROVE TypeOK'
    OBVIOUS
  <1> USE BlankTypes
  <1>1. CASE InventoryBegin
    <2>1. CASE Request("links")
      BY <1>1, <2>1, DrainTypes
      DEF InventoryBegin, Request, TypeOK, kernel, wire, rest
    <2>2. CASE Return
      BY <1>1, <2>2, DrainTypes
      DEF InventoryBegin, Return, TypeOK, kernel, wire, rest
    <2> QED BY <1>1, <2>1, <2>2 DEF InventoryBegin
  <1>2. CASE InventoryLinks
    <2>1. CASE Request("addresses")
      BY <1>2, <2>1, DrainTypes
      DEF InventoryLinks, Request, TypeOK, kernel, wire, rest, Closed, NoAnswer
    <2>2. CASE Return
      BY <1>2, <2>2, DrainTypes
      DEF InventoryLinks, Return, TypeOK, kernel, wire, rest
    <2> QED BY <1>2, <2>1, <2>2 DEF InventoryLinks
  <1>3. CASE InventoryAddresses
    BY <1>3 DEF InventoryAddresses, TypeOK, kernel, wire, tokens, rest,
                Closed, NoAnswer
  <1>4. ASSUME NEW i \in Index, InventoryClassify(i) PROVE TypeOK'
    <2>1. drawn' \in Generation /\ generations' \in [Index -> Generation]
      BY <1>4, TransportAssumption DEF InventoryClassify, TypeOK, Generation
    <2>2. devices' \subseteq Identity
      BY <1>4, <2>1 DEF InventoryClassify, TypeOK, Identity, Reply
    <2> QED BY <1>4, <2>1, <2>2
            DEF InventoryClassify, TypeOK, kernel, connection, tokens
  <1>5. CASE InventoryRejected
    BY <1>5 DEF InventoryRejected, Retained, Return, TypeOK, kernel, wire, rest
  <1>6. CASE InventoryFinish
    <2>1. Retained(generations) \in [Index -> Generation]
      BY DEF Retained, TypeOK
    <2>2. issued' \subseteq Identity
      BY <1>6 DEF InventoryFinish, TypeOK
    <2>3. address_messages' \in [Index -> Incarnation]
      BY <1>6 DEF InventoryFinish, TypeOK, Reply
    <2>4. channel \in Seq(Notification) /\ Recorded(channel, Retained(generations))
      BY <1>6 DEF InventoryFinish, TypeOK
    <2>5. /\ generations' \in [Index -> Generation]
          /\ deletion_epoch' \in Nat
          /\ notifications_closed' \in BOOLEAN
      BY <2>1, <2>4, RecordedTypes
    <2>6. channel' \in Seq(Notification)
      BY <1>6 DEF InventoryFinish
    <2>7. invalidated' \in BOOLEAN
      BY <1>6 DEF InventoryFinish
    <2> QED BY <1>6, <2>2, <2>3, <2>5, <2>6, <2>7
            DEF InventoryFinish, Return, TypeOK, kernel, wire
  <1>7. ASSUME NEW t \in issued, ExecuteBegin(t) PROVE TypeOK'
    <2>1. CASE Request("confirm")
      BY <1>7, <2>1, DrainTypes
      DEF ExecuteBegin, Request, TypeOK, kernel, wire, rest, Identity
    <2>2. CASE Return
      BY <1>7, <2>2, DrainTypes
      DEF ExecuteBegin, Return, TypeOK, kernel, wire, rest
    <2> QED BY <1>7, <2>1, <2>2 DEF ExecuteBegin
  <1>8. CASE ExecuteConfirm
    <2>1. CASE Request("write") /\ UNCHANGED locals
      BY <1>8, <2>1, DrainTypes
      DEF ExecuteConfirm, Request, TypeOK, kernel, wire, rest, locals
    <2>2. CASE Return
      BY <1>8, <2>2, DrainTypes
      DEF ExecuteConfirm, Return, TypeOK, kernel, wire, rest
    <2> QED BY <1>8, <2>1, <2>2 DEF ExecuteConfirm
  <1>9. CASE ExecuteDone
    BY <1>9 DEF ExecuteDone, Return, TypeOK, kernel, wire, tokens, rest
  <1>10. CASE Fail
    <2>1. 0 \in 0..Len(socket)
      BY DEF TypeOK
    <2> QED BY <1>10, <2>1 DEF Fail, Return, TypeOK, kernel, tokens, rest
  <1>11. CASE NextNotification
    <2>1. <<Head(channel)>> \in Seq(Notification) /\ Tail(channel) \in Seq(Notification)
      BY <1>11, KillsTail DEF NextNotification, TypeOK
    <2> QED BY <1>11, <2>1, RecordedTypes
            DEF NextNotification, TypeOK, kernel, wire, locals, rest
  <1>12. CASE ForwardNotification
    BY <1>12, KillsTail
    DEF ForwardNotification, TypeOK, kernel, tokens, locals, rest
  <1>13. CASE ForwardReply
    BY <1>13 DEF ForwardReply, TypeOK, kernel, tokens, locals, rest, NoAnswer
  <1>14. CASE ConnectionEnds
    <2>1. channel' \in Seq(Notification)
      BY <1>14 DEF ConnectionEnds, TypeOK, Notification
    <2>2. socket' \in Seq(Notification) /\ ahead' \in 0..Len(socket')
      BY <1>14 DEF ConnectionEnds
    <2> QED BY <1>14, <2>1, <2>2
            DEF ConnectionEnds, TypeOK, kernel, tokens, locals, rest
  <1>15. ASSUME NEW i \in Index, NEW n \in Name, CreateLink(i, n) PROVE TypeOK'
    BY <1>15, TransportAssumption
    DEF CreateLink, TypeOK, connection, tokens, locals, rest, Incarnation
  <1>16. ASSUME NEW i \in Index, NEW n \in Name, RenameLink(i, n) PROVE TypeOK'
    BY <1>16 DEF RenameLink, TypeOK, connection, tokens, locals, rest
  <1>17. ASSUME NEW i \in Index, DeleteLink(i) PROVE TypeOK'
    BY <1>17 DEF DeleteLink, TypeOK, tokens, locals, rest, Notification
  <1>18. ASSUME NEW i \in Index, DeleteLinkUnreported(i) PROVE TypeOK'
    <2>1. socket \in Seq(Notification) /\ ahead \in 0..Len(socket)
      BY DEF TypeOK
    <2>2. socket' \in Seq(Notification) /\ Len(socket') = Len(socket) + 1
      BY <1>18, <2>1, KillsOverrun DEF DeleteLinkUnreported
    <2>3. ahead' \in 0..Len(socket')
      BY <1>18, <2>1, <2>2 DEF DeleteLinkUnreported
    <2>4. link' \in [Index -> Incarnation] /\ overruns' \in 0..MaxOverrun
      BY <1>18, TransportAssumption DEF DeleteLinkUnreported, TypeOK
    <2> QED BY <1>18, <2>2, <2>3, <2>4
            DEF DeleteLinkUnreported, TypeOK, tokens, locals, rest
  <1>19. ASSUME NEW r \in SUBSET {i \in Index : link[i] # 0}, KernelReply(r)
         PROVE  TypeOK'
    <2>1. inflight' \in Reply
      BY <1>19 DEF KernelReply, TypeOK, Reply
    <2>2. ahead' \in 0..Len(socket')
      BY <1>19 DEF KernelReply, TypeOK
    <2> QED BY <1>19, <2>1, <2>2
            DEF KernelReply, TypeOK, kernel, tokens, locals, rest
  <1>20. CASE UNCHANGED vars
    BY <1>20 DEF vars, TypeOK, kernel, connection, tokens, locals, rest
  <1> QED BY <1>1, <1>2, <1>3, <1>4, <1>5, <1>6, <1>7, <1>8, <1>9, <1>10,
             <1>11, <1>12, <1>13, <1>14, <1>15, <1>16, <1>17, <1>18, <1>19,
             <1>20 DEF Next, Inventory, Execute, Kernel

\* The initial state has the types.
LEMMA InitTypes == Init => TypeOK
  <1> SUFFICES ASSUME Init PROVE TypeOK
    OBVIOUS
  <1>1. /\ socket \in Seq(Notification) /\ channel \in Seq(Notification)
        /\ ahead \in 0..Len(socket)
    BY DEF Init
  <1>2. 0 \in 0..MaxOverrun
    BY TransportAssumption
  <1> QED BY <1>1, <1>2, BlankTypes DEF Init, TypeOK

\* Every variable keeps its type, for every instance.
THEOREM TypeCorrect == Spec => []TypeOK
  BY InitTypes, TypeStep, PTL DEF Spec

-----------------------------------------------------------------------------
(* The inductive invariant: the steps of the kernel. *)

\* What the end of the connection means for a link that changes unannounced.
LEMMA ClosedKills ==
  ASSUME IInv, ~open
  PROVE  /\ \A t \in issued : Current(t) => Kills(channel, t.index)
         /\ pc # "idle" => channel # <<>>
  <1>1. Closes(channel) => channel # <<>> /\ \A i : Kills(channel, i)
    BY DEF Closes, Kills, Ends
  <1> QED BY <1>1 DEF IInv, ClosedIsKnown, TokensAreDrawn

\* A new link has a number nobody knows.
LEMMA CreateStep ==
  ASSUME IInv, TypeOK', NEW i \in Index, NEW n \in Name, CreateLink(i, n)
  PROVE  IInv'
  <1> USE DEF CreateLink, connection, tokens, locals, rest
  <1>1. AliveOrPending'
    <2> SUFFICES ASSUME NEW t \in issued, Current(t)
                 PROVE  \/ link'[t.index] = t.inc
                        \/ Kills(channel, t.index) \/ Kills(socket, t.index)
      BY DEF AliveOrPending, Current
    <2>1. t.index \in Index /\ t.inc # 0
      BY DEF IInv, TokensAreDrawn, TypeOK, Identity
    <2> QED BY <2>1 DEF IInv, AliveOrPending, TypeOK
  <1>2. DumpIsGuarded'
    BY DEF IInv, DumpIsGuarded, EpochMoved, TypeOK
  <1>3. (OneReply /\ ClosedIsKnown /\ TokensAreDrawn /\ ReplyIsOrdered)'
    BY DEF IInv, OneReply, ClosedIsKnown, TokensAreDrawn, ReplyIsOrdered,
           Current, Waiting
  <1>4. (DevicesAreDumped /\ RecordsAreCurrent /\ TokenNamesOneIncarnation
         /\ RecordMatchesTarget)'
    BY DEF IInv, DevicesAreDumped, RecordsAreCurrent, TokenNamesOneIncarnation,
           RecordMatchesTarget, Current
  <1> QED BY <1>1, <1>2, <1>3, <1>4 DEF IInv

\* A deletion leaves its news in the socket, or an overrun in front of it.
LEMMA DeleteStep ==
  ASSUME IInv, TypeOK', NEW i \in Index,
         DeleteLink(i) \/ DeleteLinkUnreported(i)
  PROVE  IInv'
  <1> DEFINE same == <<open, inflight, channel, answer, sent, tokens, pc,
                       locals, rest>>
  <1>1. UNCHANGED same /\ link' = [link EXCEPT ![i] = 0]
    BY DEF DeleteLink, DeleteLinkUnreported
  <1>2. /\ socket \in Seq(Notification) /\ ahead \in 0..Len(socket)
        /\ Deleted(i) \in Notification /\ Ends(Deleted(i), i)
    BY DEF IInv, TypeOK, Notification, Ends
  <1>3. ~open => socket' = socket /\ ahead' = ahead
    BY DEF DeleteLink, DeleteLinkUnreported
  <1>4. open => /\ Kills(socket', i)
                /\ \A j : Kills(socket, j) => Kills(socket', j)
                /\ inflight.kind = "reply" =>
                     \A j : KillsUpTo(socket, ahead, j)
                              => KillsUpTo(socket', ahead', j)
    <2>1. CASE DeleteLink(i)
      BY <1>2, <2>1, KillsAppend, KillsPrefixAppend DEF DeleteLink
    <2>2. CASE DeleteLinkUnreported(i)
      BY <1>2, <2>2, KillsOverrun DEF DeleteLinkUnreported
    <2> QED BY <2>1, <2>2
  <1>5. inflight.kind = "reply" => open
    BY DEF IInv, OneReply
  <1>6. inflight.kind # "reply" => ahead' = 0
    BY DEF IInv, OneReply, DeleteLink, DeleteLinkUnreported
  <1> USE DEF tokens, locals, rest
  <1>7. AliveOrPending'
    <2> SUFFICES ASSUME NEW t \in issued, Current(t)
                 PROVE  \/ link'[t.index] = t.inc
                        \/ Kills(channel, t.index) \/ Kills(socket', t.index)
      BY <1>1 DEF AliveOrPending, Current
    <2>1. t.index \in Index
      BY DEF IInv, TypeOK, Identity
    <2>2. CASE open
      BY <1>1, <1>4, <2>1, <2>2 DEF IInv, AliveOrPending, TypeOK
    <2>3. CASE ~open
      BY <2>3, ClosedKills
    <2> QED BY <2>2, <2>3
  <1>8. ReplyIsOrdered'
    BY <1>1, <1>4, <1>5 DEF IInv, ReplyIsOrdered, Current
  <1>9. DumpIsGuarded'
    <2>1. CASE open
      BY <1>1, <1>4, <2>1 DEF IInv, DumpIsGuarded, EpochMoved, TypeOK
    <2>2. CASE ~open
      <3>1. pc # "idle" => EpochMoved'
        BY <1>1, <2>2, ClosedKills DEF EpochMoved
      <3> QED BY <1>1, <3>1 DEF IInv, DumpIsGuarded
    <2> QED BY <2>1, <2>2
  <1>10. Closes(socket') => Closes(socket)
    <2>1. Deleted(i) # Closed
      BY DEF Deleted, Closed
    <2> QED BY <1>2, <2>1, ClosesQueue DEF DeleteLink, DeleteLinkUnreported
  <1>11. (OneReply /\ ClosedIsKnown /\ TokensAreDrawn)'
    BY <1>1, <1>3, <1>6, <1>10 DEF IInv, OneReply, ClosedIsKnown, TokensAreDrawn,
           Current, Waiting
  <1>12. (DevicesAreDumped /\ RecordsAreCurrent /\ TokenNamesOneIncarnation
         /\ RecordMatchesTarget)'
    BY <1>1 DEF IInv, DevicesAreDumped, RecordsAreCurrent,
           TokenNamesOneIncarnation, RecordMatchesTarget, Current
  <1> QED BY <1>7, <1>8, <1>9, <1>11, <1>12 DEF IInv

\* A reply is queued behind the news of every earlier deletion.
LEMMA ReplyStep ==
  ASSUME IInv, TypeOK', NEW r, KernelReply(r)
  PROVE  IInv'
  <1> USE DEF KernelReply, kernel, tokens, locals, rest
  <1>1. \A i : KillsUpTo(socket, ahead', i) <=> Kills(socket, i)
    BY KillsPrefix DEF IInv, TypeOK
  <1>2. /\ Waiting /\ open /\ inflight = NoAnswer /\ answer = NoAnswer
        /\ inflight'.kind = "reply" /\ inflight'.inc = link
    BY DEF IInv, OneReply
  <1>3. AliveOrPending'
    BY DEF IInv, AliveOrPending, Current
  <1>4. ReplyIsOrdered'
    BY <1>1, <1>2 DEF IInv, ReplyIsOrdered, AliveOrPending, Current, NoAnswer
  <1>5. DumpIsGuarded'
    BY <1>1, <1>2 DEF IInv, DumpIsGuarded, EpochMoved, NoAnswer, Waiting
  <1>6. (OneReply /\ ClosedIsKnown /\ TokensAreDrawn)'
    BY <1>2 DEF IInv, OneReply, ClosedIsKnown, TokensAreDrawn, Current,
           Waiting, NoAnswer
  <1>7. (DevicesAreDumped /\ RecordsAreCurrent /\ TokenNamesOneIncarnation
         /\ RecordMatchesTarget)'
    BY DEF IInv, DevicesAreDumped, RecordsAreCurrent,
           TokenNamesOneIncarnation, RecordMatchesTarget, Current
  <1> QED BY <1>3, <1>4, <1>5, <1>6, <1>7 DEF IInv

-----------------------------------------------------------------------------
(* The inductive invariant: the steps of the connection task. *)

\* Forwarding moves the news from the socket to the channel, in order.
LEMMA ForwardNotificationStep ==
  ASSUME IInv, TypeOK', ForwardNotification
  PROVE  IInv'
  <1> USE DEF ForwardNotification, kernel, tokens, locals, rest
  <1>1. /\ socket \in Seq(Notification) /\ channel \in Seq(Notification)
        /\ ahead \in 0..Len(socket) /\ Head(socket) \in Notification
    BY KillsTail DEF IInv, TypeOK
  <1>2. \A i : /\ Kills(channel', i) <=> Kills(channel, i) \/ Ends(Head(socket), i)
               /\ Kills(socket, i) <=> Ends(Head(socket), i) \/ Kills(socket', i)
    BY <1>1, KillsAppend, KillsTail
  <1>3. \A i : inflight.kind = "reply" /\ KillsUpTo(socket, ahead, i) =>
                 Kills(channel', i) \/ KillsUpTo(socket', ahead', i)
    <2> SUFFICES ASSUME NEW i, inflight.kind = "reply", KillsUpTo(socket, ahead, i)
                 PROVE  Kills(channel', i) \/ KillsUpTo(socket', ahead', i)
      OBVIOUS
    <2>1. ahead \in 1..Len(socket) /\ ahead' = ahead - 1
      BY <1>1
    <2>2. Ends(Head(socket), i) \/ KillsUpTo(Tail(socket), ahead - 1, i)
      BY <1>1, <2>1, KillsForward
    <2> QED BY <1>2, <2>1, <2>2
  <1>4. channel' # <<>>
    BY <1>1
  <1>5. /\ Closes(channel) => Closes(channel')
        /\ Closes(channel') \/ Closes(socket') => Closes(channel) \/ Closes(socket)
    BY <1>1, ClosesQueue
  <1>6. AliveOrPending'
    BY <1>2 DEF IInv, AliveOrPending, Current
  <1>7. ReplyIsOrdered'
    BY <1>2, <1>3 DEF IInv, ReplyIsOrdered, Current
  <1>8. DumpIsGuarded'
    BY <1>4 DEF IInv, DumpIsGuarded, EpochMoved
  <1>9. (OneReply /\ ClosedIsKnown /\ TokensAreDrawn)'
    BY <1>1, <1>5 DEF IInv, OneReply, ClosedIsKnown, TokensAreDrawn, Current, Waiting
  <1>10. (DevicesAreDumped /\ RecordsAreCurrent /\ TokenNamesOneIncarnation
         /\ RecordMatchesTarget)'
    BY DEF IInv, DevicesAreDumped, RecordsAreCurrent,
           TokenNamesOneIncarnation, RecordMatchesTarget, Current
  <1> QED BY <1>6, <1>7, <1>8, <1>9, <1>10 DEF IInv

\* A reply is forwarded when nothing is ahead of it.
LEMMA ForwardReplyStep ==
  ASSUME IInv, TypeOK', ForwardReply
  PROVE  IInv'
  <1> USE DEF ForwardReply, kernel, tokens, locals, rest
  <1>1. /\ Waiting /\ ~sent /\ inflight'.kind # "reply"
        /\ \A i : ~KillsUpTo(socket, ahead, i)
    BY KillsPrefix DEF IInv, OneReply, TypeOK, NoAnswer
  <1>2. AliveOrPending'
    BY DEF IInv, AliveOrPending, Current
  <1>3. ReplyIsOrdered'
    BY <1>1 DEF IInv, ReplyIsOrdered, Current
  <1>4. DumpIsGuarded'
    BY <1>1 DEF IInv, DumpIsGuarded, EpochMoved
  <1>5. (OneReply /\ ClosedIsKnown /\ TokensAreDrawn)'
    BY <1>1 DEF IInv, OneReply, ClosedIsKnown, TokensAreDrawn, Current, Waiting
  <1>6. (DevicesAreDumped /\ RecordsAreCurrent /\ TokenNamesOneIncarnation
         /\ RecordMatchesTarget)'
    BY DEF IInv, DevicesAreDumped, RecordsAreCurrent,
           TokenNamesOneIncarnation, RecordMatchesTarget, Current
  <1> QED BY <1>2, <1>3, <1>4, <1>5, <1>6 DEF IInv

\* The end of the connection is itself news that ends every token.
LEMMA ConnectionEndsStep ==
  ASSUME IInv, TypeOK', ConnectionEnds
  PROVE  IInv'
  <1> USE DEF ConnectionEnds, kernel, tokens, locals, rest
  <1>1. channel \in Seq(Notification) /\ Closed \in Notification
    BY DEF IInv, TypeOK, Notification
  <1>2. channel' # <<>> /\ \A i : Kills(channel', i)
    BY <1>1, KillsAppend DEF Ends
  <1>3. Closes(channel')
    <2>1. /\ Len(channel) + 1 \in DOMAIN channel'
          /\ channel'[Len(channel) + 1] = Closed
      BY <1>1
    <2> QED BY <2>1 DEF Closes
  <1>4. inflight'.kind # "reply" /\ (answer'.kind = "reply" => answer' = answer)
    BY DEF NoAnswer, Closed
  <1>5. AliveOrPending' /\ ReplyIsOrdered'
    BY <1>2, <1>4 DEF IInv, AliveOrPending, ReplyIsOrdered, Current
  <1>6. DumpIsGuarded'
    BY <1>2, <1>4 DEF IInv, DumpIsGuarded, EpochMoved
  <1>7. (OneReply /\ ClosedIsKnown /\ TokensAreDrawn)'
    BY <1>3, <1>4 DEF IInv, OneReply, ClosedIsKnown, TokensAreDrawn, Current, Waiting
  <1>8. (DevicesAreDumped /\ RecordsAreCurrent /\ TokenNamesOneIncarnation
         /\ RecordMatchesTarget)'
    BY DEF IInv, DevicesAreDumped, RecordsAreCurrent,
           TokenNamesOneIncarnation, RecordMatchesTarget, Current
  <1> QED BY <1>5, <1>6, <1>7, <1>8 DEF IInv

-----------------------------------------------------------------------------
(* The inductive invariant: the steps of the transport. *)

\* Recording takes away exactly the tokens the notifications end.
LEMMA RecordedFacts ==
  ASSUME IInv, NEW s \in Seq(Notification), Recorded(s, generations)
  PROVE  /\ \A t \in issued :
              generations'[t.index] = t.generation =>
                Current(t) /\ ~Kills(s, t.index)
         /\ \A i \in Index : generations'[i] <= drawn
         /\ deletion_epoch' >= deletion_epoch
         /\ s # <<>> => deletion_epoch' > deletion_epoch
         /\ s = <<>> => deletion_epoch' = deletion_epoch
         /\ notifications_closed' => notifications_closed \/ Closes(s)
         /\ notifications_closed \/ Closes(s) => notifications_closed'
  <1>1. /\ Len(s) \in Nat /\ (s # <<>> => Len(s) > 0)
        /\ (s = <<>> => Len(s) = 0)
    OBVIOUS
  <1>2. /\ deletion_epoch' >= deletion_epoch
        /\ s # <<>> => deletion_epoch' > deletion_epoch
        /\ s = <<>> => deletion_epoch' = deletion_epoch
    BY <1>1 DEF Recorded, IInv, TypeOK
  <1>3. ASSUME NEW t \in issued, generations'[t.index] = t.generation
        PROVE  Current(t) /\ ~Kills(s, t.index)
    <2>1. t.index \in Index /\ t.generation # 0
      BY DEF IInv, TypeOK, TokensAreDrawn, Identity
    <2> QED BY <1>3, <2>1 DEF Recorded, Surviving, Current
  <1>4. \A i \in Index : generations'[i] <= drawn
    BY DEF Recorded, Surviving, IInv, TokensAreDrawn, TypeOK, Generation
  <1> QED BY <1>2, <1>3, <1>4 DEF Recorded

\* What a drain that finds no reason to fail knows.
LEMMA DrainFacts ==
  ASSUME IInv, Drain
  PROVE  /\ \A t \in issued :
              generations'[t.index] = t.generation =>
                Current(t) /\ ~Kills(channel, t.index)
         /\ \A i \in Index : generations'[i] <= drawn
         /\ channel' = <<>> /\ \A i : ~Kills(channel', i)
         /\ DrainOk /\ ~notifications_closed => ~notifications_closed'
         /\ notifications_closed' => notifications_closed \/ Closes(channel)
         /\ notifications_closed \/ Closes(channel) => notifications_closed'
         /\ deletion_epoch' >= deletion_epoch
         /\ channel # <<>> => deletion_epoch' > deletion_epoch
  <1>1. channel \in Seq(Notification) /\ Recorded(channel, generations)
    BY DEF IInv, TypeOK, Drain
  <1>2. channel' = <<>> /\ \A i : ~Kills(channel', i)
    BY KillsEmpty DEF Drain
  <1>3. DrainOk => ~Closes(channel)
    BY DEF DrainOk, Invalidating, Closes
  <1> QED BY <1>1, <1>2, <1>3, RecordedFacts

\* What every step that drains keeps, whatever the call does next.
LEMMA DrainKeeps ==
  ASSUME IInv, Drain, UNCHANGED <<kernel, wire, rest>>
  PROVE  /\ AliveOrPending' /\ TokenNamesOneIncarnation'
         /\ \A t \in issued : Current(t)' => Current(t) /\ ~Kills(channel, t.index)
         /\ \A t \in issued : Current(t)' => address_messages'[t.index] \in {0, t.inc}
         /\ ~open' => socket' = <<>> /\ notifications_closed'
         /\ open' => ~notifications_closed' /\ ~Closes(channel)' /\ ~Closes(socket)'
         /\ notifications_closed' => \A t \in issued' : ~Current(t)'
  <1> USE DEF kernel, wire, rest
  <1>1. \A t \in issued : Current(t)' => Current(t) /\ ~Kills(channel, t.index)
    BY DrainFacts DEF Current
  <1>2. AliveOrPending' /\ TokenNamesOneIncarnation'
    BY <1>1 DEF IInv, AliveOrPending, TokenNamesOneIncarnation
  <1>3. \A t \in issued : Current(t)' => address_messages'[t.index] \in {0, t.inc}
    BY <1>1 DEF IInv, RecordsAreCurrent
  <1>4. ~open' => socket' = <<>> /\ notifications_closed'
    BY DrainFacts DEF IInv, ClosedIsKnown
  <1>5. Closes(channel) => \A i : Kills(channel, i)
    BY DEF Closes, Kills, Ends
  <1>6. notifications_closed' => \A t \in issued' : ~Current(t)'
    BY <1>1, <1>5, DrainFacts DEF IInv, TokensAreDrawn
  <1>7. open' => ~notifications_closed' /\ ~Closes(channel)' /\ ~Closes(socket)'
    BY DrainFacts, ClosesQueue DEF IInv, ClosedIsKnown, TypeOK
  <1> QED BY <1>1, <1>2, <1>3, <1>4, <1>6, <1>7

\* A call that returns after a drain leaves an idle transport.
LEMMA DrainReturnStep ==
  ASSUME IInv, TypeOK', Drain, Return, UNCHANGED <<kernel, wire, rest>>,
         inflight.kind # "reply"
  PROVE  IInv'
  <1> USE DEF kernel, wire, rest, Return
  <1>1. ReplyIsOrdered' /\ DumpIsGuarded' /\ OneReply'
    BY DEF ReplyIsOrdered, DumpIsGuarded, OneReply, IInv, NoAnswer, Current
  <1>2. ClosedIsKnown' /\ TokensAreDrawn'
    BY DrainKeeps, DrainFacts DEF IInv, ClosedIsKnown, TokensAreDrawn
  <1>3. DevicesAreDumped' /\ RecordsAreCurrent' /\ RecordMatchesTarget'
    BY DrainKeeps DEF DevicesAreDumped, RecordsAreCurrent, RecordMatchesTarget
  <1> QED BY <1>1, <1>2, <1>3, DrainKeeps DEF IInv

\* The same for a call that goes on to wait for a request.
LEMMA DrainRequestKeeps ==
  ASSUME IInv, Drain, NEW at \in {"links", "addresses", "confirm", "write"},
         Request(at), UNCHANGED <<kernel, wire, rest>>, devices' = devices,
         ~notifications_closed, inflight.kind # "reply",
         inflight = NoAnswer,
         at \in {"confirm", "write"} => target' \in issued
  PROVE  /\ OneReply' /\ ClosedIsKnown' /\ TokensAreDrawn' /\ AliveOrPending'
         /\ TokenNamesOneIncarnation'
  <1> USE DEF kernel, wire, rest, Request
  <1>1. OneReply'
    BY DEF IInv, OneReply, Waiting, NoAnswer
  <1>2. ClosedIsKnown' /\ TokensAreDrawn'
    BY DrainKeeps, DrainFacts DEF IInv, ClosedIsKnown, TokensAreDrawn
  <1> QED BY <1>1, <1>2, DrainKeeps

\* inventory begins.
LEMMA InventoryBeginStep ==
  ASSUME IInv, TypeOK', InventoryBegin
  PROVE  IInv'
  <1>1. /\ Drain /\ UNCHANGED <<kernel, wire, rest>>
        /\ inflight = NoAnswer /\ inflight.kind # "reply"
    BY DEF InventoryBegin, IInv, OneReply, Waiting, TypeOK, Reply, NoAnswer
  <1>2. CASE Return
    BY <1>1, <1>2, DrainReturnStep
  <1>3. CASE Request("links") /\ startEpoch' = deletion_epoch'
             /\ UNCHANGED <<links, rows, todo, devices, target, record>>
    <2> USE <1>3 DEF Request
    <2>1. ~notifications_closed
      BY <1>1 DEF wire, IInv, ClosedIsKnown
    <2>2. /\ OneReply' /\ ClosedIsKnown' /\ TokensAreDrawn' /\ AliveOrPending'
          /\ TokenNamesOneIncarnation'
      BY <1>1, <2>1, DrainRequestKeeps
    <2>3. inflight' = NoAnswer /\ deletion_epoch' \in Nat
      BY <1>1 DEF wire, TypeOK
    <2>4. ReplyIsOrdered' /\ DumpIsGuarded'
      BY <2>3 DEF ReplyIsOrdered, DumpIsGuarded, NoAnswer
    <2>5. DevicesAreDumped' /\ RecordsAreCurrent' /\ RecordMatchesTarget'
      BY <1>1, DrainKeeps DEF InventoryBegin, IInv, DevicesAreDumped,
         RecordsAreCurrent, RecordMatchesTarget, rest
    <2> QED BY <2>2, <2>4, <2>5 DEF IInv
  <1> QED BY <1>2, <1>3 DEF InventoryBegin

\* The link dump is in hand, and so is the news ahead of it.
LEMMA InventoryLinksStep ==
  ASSUME IInv, TypeOK', InventoryLinks
  PROVE  IInv'
  <1>1. /\ Drain /\ UNCHANGED <<kernel, wire, rest>>
        /\ inflight = NoAnswer /\ inflight.kind # "reply"
        /\ pc = "links" /\ answer.kind = "reply"
    BY DEF InventoryLinks, IInv, OneReply, NoAnswer
  <1>2. CASE Return
    BY <1>1, <1>2, DrainReturnStep
  <1>3. CASE Request("addresses") /\ links' = answer
             /\ UNCHANGED <<startEpoch, rows, todo, devices, target, record>>
    <2> USE <1>3 DEF Request
    <2>1. ~notifications_closed /\ devices = {}
      BY <1>1 DEF IInv, ClosedIsKnown, DevicesAreDumped
    <2>2. /\ OneReply' /\ ClosedIsKnown' /\ TokensAreDrawn' /\ AliveOrPending'
          /\ TokenNamesOneIncarnation'
      BY <1>1, <2>1, DrainRequestKeeps
    <2>3. inflight' = NoAnswer
      BY <1>1 DEF wire
    <2>4. ReplyIsOrdered'
      <3> SUFFICES ASSUME NEW t \in issued', Current(t)'
                   PROVE  links'.inc[t.index] = t.inc
        BY <2>3 DEF ReplyIsOrdered, NoAnswer
      <3>1. t \in issued /\ Current(t) /\ ~Kills(channel, t.index)
        BY <1>1, DrainKeeps DEF rest
      <3> QED BY <1>1, <3>1 DEF IInv, ReplyIsOrdered
    <2>5. DumpIsGuarded'
      <3>1. /\ deletion_epoch' >= deletion_epoch
            /\ channel # <<>> => deletion_epoch' > deletion_epoch
            /\ deletion_epoch >= startEpoch
            /\ deletion_epoch \in Nat /\ deletion_epoch' \in Nat /\ startEpoch \in Nat
        BY <1>1, DrainFacts DEF IInv, DumpIsGuarded, TypeOK
      <3>2. deletion_epoch' >= startEpoch /\ (EpochMoved => EpochMoved')
        BY <3>1 DEF EpochMoved
      <3>3. link' = link /\ socket' = socket
        BY <1>1 DEF kernel, wire
      <3> QED BY <1>1, <2>3, <3>2, <3>3 DEF IInv, DumpIsGuarded, NoAnswer
    <2>6. DevicesAreDumped' /\ RecordsAreCurrent' /\ RecordMatchesTarget'
      BY <1>1, <2>1, DrainKeeps DEF DevicesAreDumped, RecordsAreCurrent,
         RecordMatchesTarget, rest
    <2> QED BY <2>2, <2>4, <2>5, <2>6 DEF IInv
  <1> QED BY <1>2, <1>3 DEF InventoryLinks

\* The address dump is in hand.
LEMMA InventoryAddressesStep ==
  ASSUME IInv, TypeOK', InventoryAddresses
  PROVE  IInv'
  <1> USE DEF InventoryAddresses, kernel, wire, tokens, rest
  <1>1. inflight = NoAnswer /\ devices = {}
    BY DEF IInv, OneReply, DevicesAreDumped
  <1>2. (OneReply /\ ClosedIsKnown /\ TokensAreDrawn /\ AliveOrPending
         /\ TokenNamesOneIncarnation)'
    BY <1>1 DEF IInv, OneReply, ClosedIsKnown, TokensAreDrawn, AliveOrPending,
       TokenNamesOneIncarnation, Current, Waiting, NoAnswer
  <1>3. ReplyIsOrdered'
    BY <1>1 DEF IInv, ReplyIsOrdered, Current, NoAnswer
  <1>4. DumpIsGuarded'
    BY <1>1 DEF IInv, DumpIsGuarded, EpochMoved, NoAnswer
  <1>5. (DevicesAreDumped /\ RecordsAreCurrent /\ RecordMatchesTarget)'
    BY <1>1 DEF IInv, DevicesAreDumped, RecordsAreCurrent, RecordMatchesTarget,
       Current
  <1> QED BY <1>2, <1>3, <1>4, <1>5 DEF IInv

\* A fresh token is nobody's.
LEMMA InventoryClassifyStep ==
  ASSUME IInv, TypeOK', NEW i \in Index, InventoryClassify(i)
  PROVE  IInv'
  <1> USE DEF InventoryClassify, StillNamed, kernel, connection
  <1>1. /\ drawn \in Nat /\ drawn' >= drawn /\ drawn' \in Nat
        /\ generations'[i] \in 1..drawn'
        /\ \A j \in Index : generations'[j] <= drawn'
        /\ \A j \in Index \ {i} : generations'[j] = generations[j]
        /\ \A j \in Index : generations[j] \in Nat /\ generations[j] <= drawn
    BY TransportAssumption DEF IInv, TypeOK, TokensAreDrawn, Generation
  <1>2. \A t \in issued : Current(t)' => Current(t)
    <2> SUFFICES ASSUME NEW t \in issued, Current(t)' PROVE Current(t)
      OBVIOUS
    <2>1. t.index \in Index /\ t.generation \in 1..drawn
      BY DEF IInv, TokensAreDrawn, TypeOK, Identity
    <2> QED BY <1>1, <2>1 DEF IInv, TypeOK, Current
  <1>3. (OneReply /\ ClosedIsKnown)'
    BY DEF IInv, OneReply, ClosedIsKnown, Waiting
  <1>4. TokensAreDrawn'
    <2>1. links.inc[i] # 0
      BY DEF IInv, DevicesAreDumped
    <2>2. \A t \in issued \cup devices : t.generation \in 1..drawn' /\ t.inc # 0
      BY <1>1 DEF IInv, TokensAreDrawn
    <2>3. \A d \in devices' : d.generation \in 1..drawn' /\ d.inc # 0
      BY <1>1, <2>1, <2>2
    <2> QED BY <1>1, <1>2, <2>2, <2>3 DEF IInv, TokensAreDrawn
  <1>5. (AliveOrPending /\ TokenNamesOneIncarnation)'
    BY <1>2 DEF IInv, AliveOrPending, TokenNamesOneIncarnation
  <1>6. ReplyIsOrdered'
    BY <1>2 DEF IInv, ReplyIsOrdered
  <1>7. DumpIsGuarded'
    BY DEF IInv, DumpIsGuarded, EpochMoved
  <1>8. (DevicesAreDumped /\ RecordsAreCurrent /\ RecordMatchesTarget)'
    BY <1>2 DEF IInv, DevicesAreDumped, RecordsAreCurrent, RecordMatchesTarget
  <1> QED BY <1>3, <1>4, <1>5, <1>6, <1>7, <1>8 DEF IInv

\* An inventory given up for an unknown row only takes tokens away.
LEMMA InventoryRejectedStep ==
  ASSUME IInv, TypeOK', InventoryRejected
  PROVE  IInv'
  <1> USE DEF InventoryRejected, Return, kernel, wire, rest
  <1>1. \A t \in issued : Current(t)' => Current(t)
    BY DEF Current, Retained, IInv, TypeOK, TokensAreDrawn, Identity
  <1>2. \A j \in Index : generations'[j] <= drawn
    BY DEF Retained, IInv, TypeOK, TokensAreDrawn, Generation
  <1>3. inflight.kind # "reply" /\ pc' = "idle"
    BY DEF IInv, OneReply, Waiting
  <1>4. (OneReply /\ ClosedIsKnown /\ TokensAreDrawn)'
    BY <1>1, <1>2, <1>3
    DEF IInv, OneReply, ClosedIsKnown, TokensAreDrawn, NoAnswer
  <1>5. (AliveOrPending /\ TokenNamesOneIncarnation)'
    BY <1>1 DEF IInv, AliveOrPending, TokenNamesOneIncarnation
  <1>6. (ReplyIsOrdered /\ DumpIsGuarded)'
    BY <1>3 DEF ReplyIsOrdered, DumpIsGuarded, NoAnswer
  <1>7. (DevicesAreDumped /\ RecordsAreCurrent /\ RecordMatchesTarget)'
    BY <1>1 DEF IInv, DevicesAreDumped, RecordsAreCurrent, RecordMatchesTarget
  <1> QED BY <1>4, <1>5, <1>6, <1>7 DEF IInv

\* What a coherent inventory knows of the devices it returns.
LEMMA CoherentFacts ==
  ASSUME IInv, pc = "classify", Coherent
  PROVE  /\ ~EpochMoved
         /\ \A d \in devices :
              /\ d.index \in Index /\ Current(d) /\ d.inc # 0
              /\ links.inc[d.index] = d.inc /\ rows.inc[d.index] = d.inc
              /\ link[d.index] = d.inc \/ Kills(socket, d.index)
  <1>1. ~EpochMoved
    <2>1. /\ deletion_epoch \in Nat /\ startEpoch \in Nat
          /\ Len(channel) \in Nat /\ (channel # <<>> => Len(channel) > 0)
          /\ deletion_epoch >= startEpoch
      BY DEF IInv, TypeOK, DumpIsGuarded
    <2> QED BY <2>1 DEF Coherent, EpochMoved
  <1>2. ASSUME NEW d \in devices
        PROVE  /\ d.index \in Index /\ Current(d) /\ d.inc # 0
               /\ links.inc[d.index] = d.inc
    <2>1. d.index \in Index /\ d.generation # 0 /\ d.inc # 0
      BY DEF IInv, TypeOK, TokensAreDrawn, Identity
    <2> QED BY <2>1 DEF IInv, DevicesAreDumped, Coherent, GenerationsAfter,
                        Surviving, Current
  <1> QED BY <1>1, <1>2 DEF IInv, DumpIsGuarded

\* An inventory ends: with its last drain, and with new identities if nothing
\* was deleted since it began.
LEMMA InventoryFinishStep ==
  ASSUME IInv, TypeOK', InventoryFinish
  PROVE  IInv'
  <1> USE DEF InventoryFinish, Return, kernel, wire
  <1>1. /\ inflight.kind # "reply" /\ pc' = "idle" /\ channel' = <<>>
        /\ channel \in Seq(Notification)
        /\ \A i : ~Kills(channel', i)
    BY KillsEmpty DEF IInv, OneReply, Waiting, TypeOK
  <1>2. /\ ~notifications_closed
        /\ Closes(channel) <=> notifications_closed'
        /\ Closes(channel) => \A i : Kills(channel, i)
        /\ ~Closes(channel')
    BY <1>1, ClosesQueue DEF IInv, ClosedIsKnown, Recorded, Closes, Kills, Ends
  <1>3. \A t \in issued \cup devices : Current(t)' =>
           Current(t) /\ ~Kills(channel, t.index) /\ t.index \in Seen
    <2> SUFFICES ASSUME NEW t \in issued \cup devices, Current(t)'
                 PROVE  Current(t) /\ ~Kills(channel, t.index) /\ t.index \in Seen
      OBVIOUS
    <2>1. t.index \in Index /\ t.generation # 0
      BY DEF IInv, TypeOK, TokensAreDrawn, Identity
    <2> QED BY <2>1 DEF Recorded, Surviving, Retained, Current
  <1>4. \A i \in Index : generations'[i] <= drawn'
    BY DEF Recorded, Surviving, Retained, IInv, TypeOK, TokensAreDrawn, Generation
  <1>5. issued' # issued => Coherent /\ issued' = issued \cup devices
    OBVIOUS
  <1>6. \A t \in issued' : t \in issued \/ (Coherent /\ t \in devices)
    BY <1>5
  <1>7. OneReply' /\ ReplyIsOrdered' /\ DumpIsGuarded'
    BY <1>1 DEF IInv, OneReply, ReplyIsOrdered, DumpIsGuarded, NoAnswer
  <1>8. ClosedIsKnown'
    BY <1>1, <1>2 DEF IInv, ClosedIsKnown
  <1>9. TokensAreDrawn'
    BY <1>1, <1>2, <1>3, <1>4, <1>6 DEF IInv, TokensAreDrawn
  <1>10. AliveOrPending'
    BY <1>3, <1>6, CoherentFacts DEF IInv, AliveOrPending
  <1>11. TokenNamesOneIncarnation'
    <2> SUFFICES ASSUME NEW r \in issued', NEW t \in issued',
                        r.index = t.index, r.generation = t.generation
                 PROVE  r.inc = t.inc
      BY DEF TokenNamesOneIncarnation
    <2>1. CASE r \in issued /\ t \in issued
      BY <2>1 DEF IInv, TokenNamesOneIncarnation
    <2>2. CASE Coherent /\ r \in devices /\ t \in devices
      BY <2>2, CoherentFacts
    <2>3. CASE Coherent /\ r \in issued /\ t \in devices
      BY <2>3, CoherentFacts DEF IInv, ReplyIsOrdered, Current
    <2>4. CASE Coherent /\ r \in devices /\ t \in issued
      BY <2>4, CoherentFacts DEF IInv, ReplyIsOrdered, Current
    <2> QED BY <1>6, <2>1, <2>2, <2>3, <2>4
  <1>12. RecordsAreCurrent'
    <2> SUFFICES ASSUME NEW t \in issued', Current(t)'
                 PROVE  address_messages'[t.index] \in {0, t.inc}
      BY <1>1 DEF RecordsAreCurrent
    <2>1. t.index \in Index /\ Current(t)
      BY <1>3, <1>6 DEF IInv, TypeOK, Identity
    <2>2. CASE ~Coherent
      BY <1>6, <2>1, <2>2 DEF IInv, RecordsAreCurrent
    <2>3. CASE Coherent
      <3>1. links.inc[t.index] = t.inc
        BY <1>6, <2>1, <2>3, CoherentFacts DEF IInv, ReplyIsOrdered
      <3>2. PICK d \in devices : d.index = t.index
        BY <1>3, <1>6 DEF Seen
      <3> QED BY <2>1, <2>3, <3>1, <3>2, CoherentFacts
    <2> QED BY <2>2, <2>3
  <1>13. DevicesAreDumped' /\ RecordMatchesTarget'
    BY <1>1 DEF DevicesAreDumped, RecordMatchesTarget
  <1> QED BY <1>7, <1>8, <1>9, <1>10, <1>11, <1>12, <1>13 DEF IInv

\* execute begins.
LEMMA ExecuteBeginStep ==
  ASSUME IInv, TypeOK', NEW t \in issued, ExecuteBegin(t)
  PROVE  IInv'
  <1>1. /\ Drain /\ UNCHANGED <<kernel, wire, rest>>
        /\ inflight = NoAnswer /\ inflight.kind # "reply"
    BY DEF ExecuteBegin, IInv, OneReply, Waiting, TypeOK, Reply, NoAnswer
  <1>2. CASE Return
    BY <1>1, <1>2, DrainReturnStep
  <1>3. CASE Request("confirm") /\ target' = t
             /\ record' = address_messages[t.index]
             /\ UNCHANGED <<startEpoch, links, rows, todo, devices>>
    <2> USE <1>3 DEF Request
    <2>1. ~notifications_closed
      BY <1>1 DEF wire, IInv, ClosedIsKnown
    <2>2. /\ OneReply' /\ ClosedIsKnown' /\ TokensAreDrawn' /\ AliveOrPending'
          /\ TokenNamesOneIncarnation'
      BY <1>1, <2>1, DrainRequestKeeps
    <2>3. ReplyIsOrdered' /\ DumpIsGuarded'
      BY <1>1 DEF ReplyIsOrdered, DumpIsGuarded, NoAnswer, wire
    <2>4. DevicesAreDumped' /\ RecordsAreCurrent' /\ RecordMatchesTarget'
      BY <1>1, DrainKeeps DEF ExecuteBegin, IInv, DevicesAreDumped,
         RecordsAreCurrent, RecordMatchesTarget, rest
    <2> QED BY <2>2, <2>3, <2>4 DEF IInv
  <1> QED BY <1>2, <1>3 DEF ExecuteBegin

\* What a confirmation shows: the token, the reply and the cached record are
\* of the same incarnation.
LEMMA ConfirmedFacts ==
  ASSUME IInv, pc = "confirm", answer.kind = "reply", Confirmed
  PROVE  /\ answer.inc[target.index] = target.inc
         /\ record \in {0, target.inc}
  <1>1. target \in issued /\ target.index \in Index /\ target.generation # 0
    BY DEF IInv, TypeOK, TokensAreDrawn, Identity
  <1>2. Current(target) /\ ~Kills(channel, target.index)
    BY <1>1 DEF Confirmed, GenerationsAfter, Surviving, Current
  <1> QED BY <1>1, <1>2 DEF IInv, ReplyIsOrdered, RecordsAreCurrent

\* A confirmed target is written to.
LEMMA ExecuteConfirmStep ==
  ASSUME IInv, TypeOK', ExecuteConfirm
  PROVE  IInv'
  <1>1. /\ Drain /\ UNCHANGED <<kernel, wire, rest>>
        /\ inflight = NoAnswer /\ inflight.kind # "reply"
        /\ pc = "confirm" /\ answer.kind = "reply"
    BY DEF ExecuteConfirm, IInv, OneReply, NoAnswer
  <1>2. CASE Return
    BY <1>1, <1>2, DrainReturnStep
  <1>3. CASE Confirmed /\ Request("write") /\ UNCHANGED locals
    <2> USE <1>3 DEF Request, locals
    <2>1. ~notifications_closed /\ target' \in issued /\ devices = {}
      BY <1>1 DEF IInv, ClosedIsKnown, TokensAreDrawn, DevicesAreDumped
    <2>2. /\ OneReply' /\ ClosedIsKnown' /\ TokensAreDrawn' /\ AliveOrPending'
          /\ TokenNamesOneIncarnation'
      BY <1>1, <2>1, DrainRequestKeeps
    <2>3. ReplyIsOrdered' /\ DumpIsGuarded'
      BY <1>1 DEF ReplyIsOrdered, DumpIsGuarded, NoAnswer, wire
    <2>4. DevicesAreDumped' /\ RecordsAreCurrent' /\ RecordMatchesTarget'
      BY <1>1, <2>1, DrainKeeps, ConfirmedFacts DEF DevicesAreDumped,
         RecordsAreCurrent, RecordMatchesTarget, rest
    <2> QED BY <2>2, <2>3, <2>4 DEF IInv
  <1> QED BY <1>2, <1>3 DEF ExecuteConfirm

\* A call returns without recording anything.
LEMMA ReturnStep ==
  ASSUME IInv, TypeOK', Return, UNCHANGED <<kernel, open, socket, channel, tokens, rest>>,
         inflight'.kind # "reply", ahead' = 0
  PROVE  IInv'
  <1> USE DEF Return, kernel, tokens, rest
  <1>1. (OneReply /\ ClosedIsKnown /\ TokensAreDrawn)'
    BY DEF IInv, OneReply, ClosedIsKnown, TokensAreDrawn, Current, NoAnswer
  <1>2. (AliveOrPending /\ TokenNamesOneIncarnation)'
    BY DEF IInv, AliveOrPending, TokenNamesOneIncarnation, Current
  <1>3. (ReplyIsOrdered /\ DumpIsGuarded)'
    BY DEF ReplyIsOrdered, DumpIsGuarded, NoAnswer
  <1>4. (DevicesAreDumped /\ RecordsAreCurrent /\ RecordMatchesTarget)'
    BY DEF IInv, DevicesAreDumped, RecordsAreCurrent, RecordMatchesTarget, Current
  <1> QED BY <1>1, <1>2, <1>3, <1>4 DEF IInv

\* Between calls notifications are recorded one at a time.
LEMMA NextNotificationStep ==
  ASSUME IInv, TypeOK', NextNotification
  PROVE  IInv'
  <1> USE DEF NextNotification, kernel, wire, locals, rest
  <1>1. /\ channel \in Seq(Notification) /\ Head(channel) \in Notification
        /\ <<Head(channel)>> \in Seq(Notification)
        /\ \A i : Kills(channel, i) =>
                    Kills(<<Head(channel)>>, i) \/ Kills(channel', i)
        /\ Closes(channel) <=> Closes(<<Head(channel)>>) \/ Closes(channel')
    BY KillsTail, ClosesQueue DEF IInv, TypeOK
  <1>2. \A t \in issued : Current(t)' =>
           Current(t) /\ ~Kills(<<Head(channel)>>, t.index)
    BY <1>1, RecordedFacts DEF Current
  <1>3. Closes(<<Head(channel)>>) => \A i : Kills(<<Head(channel)>>, i)
    BY DEF Closes, Kills, Ends
  <1>4. inflight.kind # "reply" /\ answer.kind # "reply" /\ ~sent
    BY DEF IInv, OneReply, Waiting
  <1>5. (OneReply /\ ReplyIsOrdered /\ DumpIsGuarded)'
    BY <1>4 DEF IInv, OneReply, ReplyIsOrdered, DumpIsGuarded
  <1>6. ClosedIsKnown'
    BY <1>1, RecordedFacts DEF IInv, ClosedIsKnown
  <1>7. TokensAreDrawn'
    BY <1>1, <1>2, <1>3, RecordedFacts DEF IInv, TokensAreDrawn
  <1>8. (AliveOrPending /\ TokenNamesOneIncarnation)'
    BY <1>1, <1>2 DEF IInv, AliveOrPending, TokenNamesOneIncarnation
  <1>9. (DevicesAreDumped /\ RecordsAreCurrent /\ RecordMatchesTarget)'
    BY <1>2 DEF IInv, DevicesAreDumped, RecordsAreCurrent, RecordMatchesTarget
  <1> QED BY <1>5, <1>6, <1>7, <1>8, <1>9 DEF IInv

-----------------------------------------------------------------------------
(* The theorems. *)

\* Every step keeps the inductive invariant.
LEMMA InvariantStep == IInv /\ [Next]_vars => IInv'
  <1> SUFFICES ASSUME IInv, [Next]_vars PROVE IInv'
    OBVIOUS
  <1>1. TypeOK'
    BY TypeStep DEF IInv
  <1>2. CASE Inventory
    BY <1>1, <1>2, InventoryBeginStep, InventoryLinksStep, InventoryAddressesStep,
       InventoryClassifyStep, InventoryRejectedStep, InventoryFinishStep
    DEF Inventory
  <1>3. CASE Execute
    <2>1. CASE ExecuteDone
      <3>1. inflight'.kind # "reply" /\ ahead' = 0
        BY <2>1 DEF ExecuteDone, IInv, OneReply, wire, NoAnswer
      <3> QED BY <1>1, <2>1, <3>1, ReturnStep DEF ExecuteDone, wire
    <2> QED BY <1>1, <1>3, <2>1, ExecuteBeginStep, ExecuteConfirmStep DEF Execute
  <1>4. CASE Fail
    BY <1>1, <1>4, ReturnStep DEF Fail, NoAnswer
  <1>5. CASE NextNotification
    BY <1>1, <1>5, NextNotificationStep
  <1>6. CASE ForwardNotification \/ ForwardReply \/ ConnectionEnds
    BY <1>1, <1>6, ForwardNotificationStep, ForwardReplyStep, ConnectionEndsStep
  <1>7. CASE Kernel
    <2>1. ASSUME NEW i \in Index, NEW n \in Name, RenameLink(i, n)
          PROVE  IInv'
      <3> USE DEF RenameLink, connection, tokens, locals, rest
      <3>1. (OneReply /\ ClosedIsKnown /\ TokensAreDrawn /\ AliveOrPending
             /\ ReplyIsOrdered)'
        BY <2>1 DEF IInv, OneReply, ClosedIsKnown, TokensAreDrawn,
           AliveOrPending, ReplyIsOrdered, Current, Waiting
      <3>2. (DumpIsGuarded /\ DevicesAreDumped /\ RecordsAreCurrent
             /\ TokenNamesOneIncarnation /\ RecordMatchesTarget)'
        BY <2>1 DEF IInv, DumpIsGuarded, EpochMoved, DevicesAreDumped,
           RecordsAreCurrent, TokenNamesOneIncarnation, RecordMatchesTarget,
           Current
      <3> QED BY <1>1, <3>1, <3>2 DEF IInv
    <2> QED BY <1>1, <1>7, <2>1, CreateStep, DeleteStep, ReplyStep DEF Kernel
  <1>8. CASE UNCHANGED vars
    <2> USE DEF vars, kernel, connection, tokens, locals, rest
    <2>1. (OneReply /\ ClosedIsKnown /\ TokensAreDrawn /\ AliveOrPending
           /\ ReplyIsOrdered)'
      BY <1>8 DEF IInv, OneReply, ClosedIsKnown, TokensAreDrawn,
         AliveOrPending, ReplyIsOrdered, Current, Waiting
    <2>2. (DumpIsGuarded /\ DevicesAreDumped /\ RecordsAreCurrent
           /\ TokenNamesOneIncarnation /\ RecordMatchesTarget)'
      BY <1>8 DEF IInv, DumpIsGuarded, EpochMoved, DevicesAreDumped,
         RecordsAreCurrent, TokenNamesOneIncarnation, RecordMatchesTarget,
         Current
    <2> QED BY <1>1, <2>1, <2>2 DEF IInv
  <1> QED BY <1>2, <1>3, <1>4, <1>5, <1>6, <1>7, <1>8 DEF Next

\* The initial state satisfies the inductive invariant.
LEMMA InitInvariant == Init => IInv
  <1> SUFFICES ASSUME Init PROVE IInv
    OBVIOUS
  <1>1. TypeOK /\ ~Closes(<<>>)
    BY InitTypes DEF Closes
  <1>2. OneReply /\ ClosedIsKnown
    BY <1>1 DEF Init, OneReply, ClosedIsKnown, NoAnswer
  <1>3. \A i \in Index : generations[i] <= drawn
    <2>1. drawn = 0 /\ (\A i \in Index : generations[i] = 0) /\ 0 <= 0
      BY DEF Init
    <2> QED BY <2>1, Zenon
  <1>4. /\ TokensAreDrawn /\ AliveOrPending /\ ReplyIsOrdered
        /\ DumpIsGuarded /\ DevicesAreDumped
    BY <1>3 DEF Init, TokensAreDrawn, AliveOrPending, ReplyIsOrdered,
                DumpIsGuarded, DevicesAreDumped
  <1>5. RecordsAreCurrent /\ TokenNamesOneIncarnation /\ RecordMatchesTarget
    BY DEF Init, RecordsAreCurrent, TokenNamesOneIncarnation, RecordMatchesTarget
  <1> QED BY <1>1, <1>2, <1>4, <1>5 DEF IInv

\* The inductive invariant holds in every reachable state.
THEOREM InvariantHolds == Spec => []IInv
  BY InitInvariant, InvariantStep, PTL DEF Spec

\* No identity handed out is ever shared by two incarnations of a link.
THEOREM TokensAreUnambiguous == Spec => []TokenNamesOneIncarnation
  <1>1. IInv => TokenNamesOneIncarnation
    BY DEF IInv
  <1> QED BY <1>1, InvariantHolds, PTL

\* No write is built from the address records of another incarnation.
THEOREM RecordsAreOfTheTarget == Spec => []RecordMatchesTarget
  <1>1. IInv => RecordMatchesTarget
    BY DEF IInv
  <1> QED BY <1>1, InvariantHolds, PTL

\* A write that reaches another incarnation costs the target its token.
THEOREM MisdirectionIsNoticed == Spec => []MisdirectedWriteIsNoticed
  <1>1. IInv => MisdirectedWriteIsNoticed
    <2> SUFFICES ASSUME IInv, pc = "write", answer.kind = "reply",
                        answer.inc[target.index] # target.inc
                 PROVE  GenerationsAfter(channel)[target.index] # target.generation
      BY DEF MisdirectedWriteIsNoticed
    <2>1. target \in issued /\ target.index \in Index /\ target.generation # 0
      BY DEF IInv, TypeOK, TokensAreDrawn, Identity
    <2>2. Current(target) => Kills(channel, target.index)
      BY <2>1 DEF IInv, ReplyIsOrdered
    <2> QED BY <2>1, <2>2 DEF GenerationsAfter, Surviving, Current
  <1> QED BY <1>1, InvariantHolds, PTL

\* A write is submitted only for the incarnation the kernel confirmed.
THEOREM WritesAreConfirmed == Spec => WriteFollowsConfirmation
  <1>1. IInv /\ [Next]_vars =>
          [ pc = "confirm" /\ pc' = "write" =>
              answer.inc[target.index] = target.inc ]_vars
    <2> SUFFICES ASSUME IInv, [Next]_vars, pc = "confirm", pc' = "write"
                 PROVE  answer.inc[target.index] = target.inc
      OBVIOUS
    <2>1. ExecuteConfirm
      <3>1. ~Inventory
        BY DEF Inventory, InventoryBegin, InventoryLinks, InventoryAddresses,
               InventoryClassify, InventoryRejected, InventoryFinish
      <3>2. Execute => ExecuteConfirm
        BY DEF Execute, ExecuteBegin, ExecuteDone
      <3>3. ~Fail /\ ~NextNotification
        BY DEF Fail, Return, NextNotification
      <3>4. ~ForwardNotification /\ ~ForwardReply /\ ~ConnectionEnds
        BY DEF ForwardNotification, ForwardReply, ConnectionEnds
      <3>5. ~Kernel
        BY DEF Kernel, CreateLink, DeleteLink, DeleteLinkUnreported,
               RenameLink, KernelReply
      <3>6. ~UNCHANGED vars
        BY DEF vars
      <3> QED BY <3>1, <3>2, <3>3, <3>4, <3>5, <3>6 DEF Next
    <2>2. answer.kind = "reply" /\ Confirmed
      BY <2>1 DEF ExecuteConfirm, Return
    <2> QED BY <2>2, ConfirmedFacts
  <1> QED BY <1>1, InvariantHolds, PTL DEF Spec, WriteFollowsConfirmation

\* An inventory that is returned joins links and addresses of one incarnation.
THEOREM ObservationsAreCoherent == Spec => ObservationIsCoherent
  <1>1. IInv /\ [Next]_vars =>
          [ issued' # issued \/ address_messages' # address_messages =>
              \A d \in devices : address_messages'[d.index] \in {0, d.inc} ]_vars
    <2> SUFFICES ASSUME IInv, [Next]_vars,
                        issued' # issued \/ address_messages' # address_messages,
                        NEW d \in devices
                 PROVE  address_messages'[d.index] \in {0, d.inc}
      OBVIOUS
    <2>1. InventoryFinish
      <3> USE DEF rest
      <3>1. Inventory => InventoryFinish
        BY DEF Inventory, InventoryBegin, InventoryLinks, InventoryAddresses,
               InventoryClassify, InventoryRejected
      <3>2. ~Execute
        BY DEF Execute, ExecuteBegin, ExecuteConfirm, ExecuteDone
      <3>3. ~Fail /\ ~NextNotification
        BY DEF Fail, NextNotification
      <3>4. ~ForwardNotification /\ ~ForwardReply /\ ~ConnectionEnds
        BY DEF ForwardNotification, ForwardReply, ConnectionEnds
      <3>5. ~Kernel
        BY DEF Kernel, CreateLink, DeleteLink, DeleteLinkUnreported,
               RenameLink, KernelReply
      <3>6. ~UNCHANGED vars
        BY DEF vars
      <3> QED BY <3>1, <3>2, <3>3, <3>4, <3>5, <3>6 DEF Next
    <2>2. Coherent /\ pc = "classify"
      BY <2>1 DEF InventoryFinish
    <2>3. d.index \in Index /\ rows.inc[d.index] = d.inc
      BY <2>2, CoherentFacts
    <2> QED BY <2>1, <2>2, <2>3 DEF InventoryFinish
  <1> QED BY <1>1, InvariantHolds, PTL DEF Spec, ObservationIsCoherent
=============================================================================
