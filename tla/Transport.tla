----------------------------- MODULE Transport -----------------------------
(***************************************************************************)
(* The netlink transport of netfyr-backend (linux.rs, LinuxTransport): how *)
(* it gives every link an incarnation token (a "generation"), keeps the    *)
(* tokens current from RTM_DELLINK notifications, takes an inventory in    *)
(* several round trips, and confirms a target before it writes to it.      *)
(*                                                                         *)
(* The kernel runs concurrently: links disappear and their indices and     *)
(* names are reused at any moment.  Everything the kernel says travels     *)
(* through one socket in order; a connection task forwards notifications   *)
(* to a channel that the transport empties only when it drains it, and     *)
(* replies to the request that waits for one.                              *)
(***************************************************************************)
EXTENDS Integers, Sequences

CONSTANTS
  Index,          \* interface indices, which the kernel reuses
  Name,           \* interface names
  MaxIncarnation, \* bound: links ever created
  MaxGeneration,  \* bound: tokens ever drawn by fresh_generation
  MaxOverrun      \* bound: notifications lost to a full socket buffer

ASSUME TransportAssumption ==
  /\ Name # {}
  /\ MaxIncarnation \in Nat /\ MaxGeneration \in Nat /\ MaxOverrun \in Nat

VARIABLES
  \* the kernel
  link,     \* index -> number of the incarnation that lives there, 0 for none
  name,     \* index -> name of that link
  created,  \* incarnations created so far
  overruns, \* notifications lost so far
  socket,   \* notifications the kernel has queued for the socket, in order
  inflight, \* the reply it has queued there
  ahead,    \* how many of those notifications come before that reply
  \* the connection task
  open,     \* it still runs
  channel,  \* notifications forwarded and not yet recorded
  answer,   \* the reply forwarded to the waiting request
  \* LinuxTransport
  generations, deletion_epoch, invalidated, notifications_closed,
  drawn,    \* tokens drawn so far by fresh_generation
  address_messages, \* index -> incarnation the cached address records are of
  \* the call in progress
  pc,       \* where it waits
  sent,     \* its request has not reached the kernel yet
  startEpoch, links, rows, todo, devices, target, record,
  \* history: every identity returned to a caller
  issued

kernel == <<link, name, created, overruns>>
connection == <<open, socket, inflight, ahead, channel, answer, sent>>
wire == <<open, socket, inflight, ahead>>
tokens == <<generations, deletion_epoch, invalidated, notifications_closed>>
locals == <<startEpoch, links, rows, todo, devices, target, record>>
rest == <<drawn, address_messages, issued>>
vars == <<kernel, connection, tokens, pc, locals, rest>>

-----------------------------------------------------------------------------
(* What travels through the socket. *)

Incarnation == 0..MaxIncarnation
Generation == 0..MaxGeneration
Identity == [index: Index, generation: Generation, name: Name, inc: Incarnation]

Deleted(i) == [kind |-> "del", index |-> i]
Overrun == [kind |-> "overrun"]
Closed == [kind |-> "closed"]
Notification == {Deleted(i) : i \in Index} \cup {Overrun, Closed}

\* A reply is the kernel's state when it handled the request; rows are the
\* indices for which an address dump has rows.
Reply == [kind: {"reply"}, inc: [Index -> Incarnation],
          name: [Index -> Name], rows: SUBSET Index]
NoAnswer == [kind |-> "none"]

AnyName == CHOOSE n \in Name : TRUE
Blank == [kind |-> "reply", inc |-> [i \in Index |-> 0],
          name |-> [i \in Index |-> AnyName], rows |-> {}]
NoTarget == [kind |-> "none"]

Waiting == pc \in {"links", "addresses", "confirm", "write"}

-----------------------------------------------------------------------------
(* Recording notifications: record, invalidate, record_deletion and        *)
(* drain_notifications.  A drain never yields, so it takes one step.       *)

Ends(m, i) == m \in {Deleted(i), Overrun, Closed}
Kills(s, i) == \E k \in DOMAIN s : Ends(s[k], i)
Invalidating(s) == \E k \in DOMAIN s : s[k] \in {Overrun, Closed}
Closes(s) == \E k \in DOMAIN s : s[k] = Closed

\* Mutant: only a deletion takes a token, a lost notification or the end of
\* the connection does not.
SurvivingLosses(gens, s) ==
  [i \in Index |-> IF \E k \in DOMAIN s : s[k] = Deleted(i) THEN 0 ELSE gens[i]]

Surviving(gens, s) == [i \in Index |-> IF Kills(s, i) THEN 0 ELSE gens[i]]
GenerationsAfter(s) == Surviving(generations, s)

\* Mutant: a deletion takes the token and leaves the epoch alone.
RecordedQuietly(s, gens) ==
  /\ generations' = Surviving(gens, s)
  /\ deletion_epoch' = deletion_epoch
  /\ notifications_closed' = (notifications_closed \/ Closes(s))

\* Mutant: the epoch counts down.
RecordedBackwards(s, gens) ==
  /\ generations' = Surviving(gens, s)
  /\ deletion_epoch' = deletion_epoch - Len(s)
  /\ notifications_closed' = (notifications_closed \/ Closes(s))

\* Every notification that reaches record advances the epoch by one.
Recorded(s, gens) ==
  /\ generations' = Surviving(gens, s)
  /\ deletion_epoch' = deletion_epoch + Len(s)
  /\ notifications_closed' = (notifications_closed \/ Closes(s))

DrainOk == ~invalidated /\ ~Invalidating(channel)

Drain ==
  /\ Recorded(channel, generations)
  /\ channel' = <<>>
  /\ invalidated' = FALSE

\* Between requests the worker records notifications one at a time.
NextNotification ==
  /\ pc = "idle"
  /\ ~notifications_closed
  /\ channel # <<>>
  /\ Recorded(<<Head(channel)>>, generations)
  /\ channel' = Tail(channel)
  /\ invalidated' = (invalidated \/ Invalidating(<<Head(channel)>>))
  /\ UNCHANGED <<kernel, wire, answer, sent, pc, locals, rest>>

-----------------------------------------------------------------------------
(* Requests and calls. *)

\* request: after a drain the message goes out and the call waits in "at".
\* With the connection gone the handle refuses the message.
Request(at) ==
  /\ pc' = at
  /\ sent' = TRUE
  /\ answer' = NoAnswer
  /\ DrainOk /\ open

\* The call returns, with a result or an error.
Return ==
  /\ pc' = "idle"
  /\ sent' = FALSE
  /\ answer' = NoAnswer
  /\ startEpoch' = 0 /\ links' = Blank /\ rows' = Blank
  /\ todo' = {} /\ devices' = {} /\ target' = NoTarget /\ record' = 0

\* inventory: drain, remember the epoch, dump the links.
InventoryBegin ==
  /\ pc = "idle"
  /\ Drain
  /\ \/ /\ Request("links")
        /\ startEpoch' = deletion_epoch'
        /\ UNCHANGED <<links, rows, todo, devices, target, record>>
     \/ ~(DrainOk /\ open) /\ Return
  /\ UNCHANGED <<kernel, wire, rest>>

\* The link dump is complete; the next request drains again.
InventoryLinks ==
  /\ pc = "links"
  /\ answer.kind = "reply"
  /\ Drain
  /\ \/ /\ Request("addresses")
        /\ links' = answer
        /\ UNCHANGED <<startEpoch, rows, todo, devices, target, record>>
     \/ ~(DrainOk /\ open) /\ Return
  /\ UNCHANGED <<kernel, wire, rest>>

\* The address dump is complete; the links are classified next, after the
\* wireless query.
InventoryAddresses ==
  /\ pc = "addresses"
  /\ answer.kind = "reply"
  /\ rows' = answer
  /\ todo' = {i \in Index : links.inc[i] # 0}
  /\ pc' = "classify"
  /\ answer' = NoAnswer
  /\ UNCHANGED <<kernel, wire, channel, sent, tokens, rest,
                 startEpoch, links, devices, target, record>>

\* while_named: the name still belongs to the index.
StillNamed(i) == link[i] # 0 /\ name[i] = links.name[i]

\* One link of the dump: it keeps the token of its index or draws a fresh one.
InventoryClassify(i) ==
  /\ pc = "classify"
  /\ i \in todo
  /\ StillNamed(i)
  /\ generations[i] = 0 => drawn < MaxGeneration
  /\ drawn' = IF generations[i] = 0 THEN drawn + 1 ELSE drawn
  /\ generations' = [generations EXCEPT ![i] = IF @ = 0 THEN drawn + 1 ELSE @]
  /\ devices' = devices \cup {[index |-> i, generation |-> generations'[i],
                               name |-> links.name[i], inc |-> links.inc[i]]}
  /\ todo' = todo \ {i}
  /\ UNCHANGED <<kernel, connection, deletion_epoch, invalidated,
                 notifications_closed, address_messages, issued,
                 pc, startEpoch, links, rows, target, record>>

Seen == {d.index : d \in devices}

\* retain: only the links of this inventory keep a token.
Retained(gens) == [i \in Index |-> IF i \in Seen THEN gens[i] ELSE 0]

\* An address row cannot be parsed, or names an index that the link dump did
\* not have; the tokens were pruned before.
InventoryRejected ==
  /\ pc = "classify"
  /\ todo = {}
  /\ generations' = Retained(generations)
  /\ Return
  /\ UNCHANGED <<kernel, wire, channel, deletion_epoch, invalidated,
                 notifications_closed, rest>>

\* Mutant: the inventory does not compare the epoch.
CoherentTokens ==
  /\ DrainOk
  /\ \A d \in devices : GenerationsAfter(channel)[d.index] = d.generation

\* The last drain, the epoch, the tokens: the inventory is returned only if
\* no deletion was recorded since it began.
Coherent ==
  /\ DrainOk
  /\ deletion_epoch + Len(channel) = startEpoch
  /\ \A d \in devices : GenerationsAfter(channel)[d.index] = d.generation

InventoryFinish ==
  /\ pc = "classify"
  /\ todo = {}
  /\ rows.rows \subseteq Seen
  /\ Recorded(channel, Retained(generations))
  /\ channel' = <<>>
  /\ invalidated' = FALSE
  /\ \/ /\ Coherent
        /\ issued' = issued \cup devices
        /\ address_messages' = [i \in Index |->
             IF i \in rows.rows THEN rows.inc[i] ELSE 0]
     \/ ~Coherent /\ UNCHANGED <<issued, address_messages>>
  /\ Return
  /\ UNCHANGED <<kernel, wire, drawn>>

\* execute: the message is built from the cached address record, then
\* confirm_identity asks the kernel for the link of that index.
ExecuteBegin(t) ==
  /\ pc = "idle"
  /\ Drain
  /\ \/ /\ Request("confirm")
        /\ target' = t
        /\ record' = address_messages[t.index]
        /\ UNCHANGED <<startEpoch, links, rows, todo, devices>>
     \/ ~(DrainOk /\ open) /\ Return
  /\ UNCHANGED <<kernel, wire, rest>>

\* Mutant: a link with the right index and name is confirmed.
ConfirmedName ==
  answer.name[target.index] = target.name

\* The token is still current, and the link has the name of the target.
Confirmed ==
  /\ GenerationsAfter(channel)[target.index] = target.generation
  /\ answer.name[target.index] = target.name

\* The link's reply is here: drain, compare, submit the write.
ExecuteConfirm ==
  /\ pc = "confirm"
  /\ answer.kind = "reply"
  /\ answer.inc[target.index] # 0
  /\ Drain
  /\ \/ /\ Confirmed
        /\ Request("write")
        /\ UNCHANGED locals
     \/ ~(Confirmed /\ DrainOk /\ open) /\ Return
  /\ UNCHANGED <<kernel, wire, rest>>

\* The write is acknowledged, or refused because no link has that index.
ExecuteDone ==
  /\ pc = "write"
  /\ answer.kind = "reply"
  /\ Return
  /\ UNCHANGED <<kernel, wire, channel, tokens, rest>>

\* A request is refused, is interrupted, times out or loses its connection;
\* a link cannot be parsed, was renamed, or no token can be drawn.  Nobody
\* waits any more for a reply still under way.
Fail ==
  /\ pc # "idle"
  /\ Return
  /\ inflight' = NoAnswer
  /\ ahead' = 0
  /\ UNCHANGED <<kernel, open, socket, channel, tokens, rest>>

-----------------------------------------------------------------------------
(* The connection task. *)

\* Forward the next notification, or the reply when it is next.
ForwardNotification ==
  /\ socket # <<>>
  /\ inflight.kind = "reply" => ahead > 0
  /\ socket' = Tail(socket)
  /\ channel' = Append(channel, Head(socket))
  /\ ahead' = IF ahead > 0 THEN ahead - 1 ELSE 0
  /\ UNCHANGED <<kernel, open, inflight, answer, sent, tokens, pc, locals, rest>>

ForwardReply ==
  /\ inflight.kind = "reply"
  /\ ahead = 0
  /\ answer' = inflight
  /\ inflight' = NoAnswer
  /\ UNCHANGED <<kernel, open, socket, ahead, channel, sent, tokens, pc,
                 locals, rest>>

\* The connection ends (a socket error, or a packet StrictCodec refuses):
\* what was still in the socket is lost, and both streams end.
ConnectionEnds ==
  /\ open
  /\ open' = FALSE
  /\ socket' = <<>> /\ inflight' = NoAnswer /\ ahead' = 0
  /\ channel' = Append(channel, Closed)
  /\ sent' = FALSE
  /\ answer' = IF Waiting /\ answer.kind # "reply" THEN Closed ELSE answer
  /\ UNCHANGED <<kernel, tokens, pc, locals, rest>>

-----------------------------------------------------------------------------
(* The kernel and the other programs that configure it. *)

CreateLink(i, n) ==
  /\ link[i] = 0
  /\ created < MaxIncarnation
  /\ created' = created + 1
  /\ link' = [link EXCEPT ![i] = created + 1]
  /\ name' = [name EXCEPT ![i] = n]
  /\ UNCHANGED <<overruns, connection, tokens, pc, locals, rest>>

DeleteLink(i) ==
  /\ link[i] # 0
  /\ link' = [link EXCEPT ![i] = 0]
  /\ socket' = IF open THEN Append(socket, Deleted(i)) ELSE socket
  /\ UNCHANGED <<name, created, overruns, open, inflight, ahead, channel,
                 answer, sent, tokens, pc, locals, rest>>

\* The notification does not fit: the socket reports an overrun, before
\* anything that is still queued.
DeleteLinkUnreported(i) ==
  /\ link[i] # 0
  /\ open
  /\ overruns < MaxOverrun
  /\ overruns' = overruns + 1
  /\ link' = [link EXCEPT ![i] = 0]
  /\ socket' = <<Overrun>> \o socket
  /\ ahead' = IF inflight.kind = "reply" THEN ahead + 1 ELSE 0
  /\ UNCHANGED <<name, created, open, inflight, channel, answer, sent,
                 tokens, pc, locals, rest>>

RenameLink(i, n) ==
  /\ link[i] # 0
  /\ name[i] # n
  /\ name' = [name EXCEPT ![i] = n]
  /\ UNCHANGED <<link, created, overruns, connection, tokens, pc, locals, rest>>

\* The kernel handles the request; with_rows are the links that have
\* addresses, which only an address dump reports.
KernelReply(with_rows) ==
  /\ sent
  /\ pc # "addresses" => with_rows = {}
  /\ sent' = FALSE
  /\ inflight' = [kind |-> "reply", inc |-> link, name |-> name,
                  rows |-> with_rows]
  /\ ahead' = Len(socket)
  /\ UNCHANGED <<kernel, open, socket, channel, answer, tokens, pc, locals, rest>>

-----------------------------------------------------------------------------

Init ==
  /\ link = [i \in Index |-> 0]
  /\ name = [i \in Index |-> AnyName]
  /\ created = 0 /\ overruns = 0
  /\ socket = <<>> /\ inflight = NoAnswer /\ ahead = 0
  /\ open = TRUE /\ channel = <<>> /\ answer = NoAnswer /\ sent = FALSE
  /\ generations = [i \in Index |-> 0]
  /\ deletion_epoch = 0 /\ invalidated = FALSE /\ notifications_closed = FALSE
  /\ drawn = 0
  /\ address_messages = [i \in Index |-> 0]
  /\ pc = "idle"
  /\ startEpoch = 0 /\ links = Blank /\ rows = Blank
  /\ todo = {} /\ devices = {} /\ target = NoTarget /\ record = 0
  /\ issued = {}

Inventory ==
  \/ InventoryBegin
  \/ InventoryLinks
  \/ InventoryAddresses
  \/ \E i \in Index : InventoryClassify(i)
  \/ InventoryRejected
  \/ InventoryFinish

Execute ==
  \/ \E t \in issued : ExecuteBegin(t)
  \/ ExecuteConfirm
  \/ ExecuteDone

Kernel ==
  \/ \E i \in Index, n \in Name : CreateLink(i, n) \/ RenameLink(i, n)
  \/ \E i \in Index : DeleteLink(i) \/ DeleteLinkUnreported(i)
  \/ \E with_rows \in SUBSET {i \in Index : link[i] # 0} :
       KernelReply(with_rows)

Next ==
  \/ Inventory \/ Execute \/ Fail
  \/ NextNotification
  \/ ForwardNotification \/ ForwardReply \/ ConnectionEnds
  \/ Kernel

Spec == Init /\ [][Next]_vars

-----------------------------------------------------------------------------
(* Properties. *)

\* The values every variable takes.
TypeOK ==
  /\ link \in [Index -> Incarnation]
  /\ name \in [Index -> Name]
  /\ created \in Incarnation
  /\ overruns \in 0..MaxOverrun
  /\ socket \in Seq(Notification) /\ channel \in Seq(Notification)
  /\ inflight \in Reply \cup {NoAnswer}
  /\ ahead \in 0..Len(socket)
  /\ answer \in Reply \cup {NoAnswer, Closed}
  /\ open \in BOOLEAN /\ sent \in BOOLEAN
  /\ generations \in [Index -> Generation]
  /\ deletion_epoch \in Nat /\ startEpoch \in Nat
  /\ invalidated \in BOOLEAN /\ notifications_closed \in BOOLEAN
  /\ drawn \in Generation
  /\ address_messages \in [Index -> Incarnation]
  /\ pc \in {"idle", "links", "addresses", "classify", "confirm", "write"}
  /\ links \in Reply /\ rows \in Reply
  /\ todo \subseteq Index
  /\ devices \subseteq Identity
  /\ target \in Identity \cup {NoTarget}
  /\ record \in Incarnation
  /\ issued \subseteq Identity

\* An identity handed out for an index names one incarnation of the link for
\* ever: a link deleted and created again under the same index, name and
\* address is never returned with the token of its predecessor, whatever
\* inventories failed and notifications were lost in between.
TokenNamesOneIncarnation ==
  \A s, t \in issued :
    s.index = t.index /\ s.generation = t.generation => s.inc = t.inc

\* An inventory that is returned gives every link the addresses of that very
\* incarnation, although links and addresses come from two dumps.
ObservationIsCoherent ==
  [][ issued' # issued \/ address_messages' # address_messages =>
        \A d \in devices : address_messages'[d.index] \in {0, d.inc} ]_vars

\* execute submits a write only if the index held the incarnation the caller
\* asked for when the kernel answered confirm_identity.
WriteFollowsConfirmation ==
  [][ pc = "confirm" /\ pc' = "write" =>
        answer.inc[target.index] = target.inc ]_vars

\* A removal or replacement is built from an address record of the target's
\* incarnation, although records are cached by index alone.
RecordMatchesTarget ==
  pc = "write" => record \in {0, target.inc}

\* The link may still be replaced between the confirmation and the write.  A
\* write that another incarnation acknowledges is then noticed: recording
\* what was forwarded with its acknowledgement takes the target's token away,
\* so that the observation after the write no longer knows the target.
MisdirectedWriteIsNoticed ==
  pc = "write" /\ answer.kind = "reply" /\ answer.inc[target.index] # target.inc
    => GenerationsAfter(channel)[target.index] # target.generation

-----------------------------------------------------------------------------
(***************************************************************************)
(* The inductive invariant behind the properties.  It says where the news  *)
(* of a deletion is: in the socket, in the channel, or recorded.           *)
(***************************************************************************)

\* Some notification of s[1..n] ends the tokens of index i.
KillsUpTo(s, n, i) ==
  \E k \in 1..n : k \in DOMAIN s /\ Ends(s[k], i)

\* A reply belongs to the request the call waits for.
OneReply ==
  /\ sent => Waiting /\ open /\ inflight = NoAnswer /\ answer = NoAnswer
  /\ inflight.kind = "reply" => Waiting /\ open /\ ~sent /\ answer = NoAnswer
  /\ inflight.kind # "reply" => ahead = 0
  /\ answer.kind = "reply" => Waiting /\ ~sent /\ inflight = NoAnswer

\* The end of the connection is recorded, or waits in the channel.
ClosedIsKnown ==
  /\ pc # "idle" => ~notifications_closed
  /\ ~open => socket = <<>>
  /\ ~open => notifications_closed \/ Closes(channel)
  /\ open => ~notifications_closed /\ ~Closes(channel) /\ ~Closes(socket)

Current(t) == generations[t.index] = t.generation

\* Tokens in use were drawn before, identities name a link.
TokensAreDrawn ==
  /\ \A i \in Index : generations[i] <= drawn
  /\ \A t \in issued \cup devices : t.generation \in 1..drawn /\ t.inc # 0
  /\ pc \in {"confirm", "write"} => target \in issued
  /\ notifications_closed => \A t \in issued : ~Current(t)

\* A current identity is of the link that lives there, or the news is pending.
AliveOrPending ==
  \A t \in issued : Current(t) =>
    \/ link[t.index] = t.inc
    \/ Kills(channel, t.index)
    \/ Kills(socket, t.index)

\* The same of what a reply says: the news is ahead of the reply.
ReplyIsOrdered ==
  \A t \in issued : Current(t) =>
    /\ inflight.kind = "reply" =>
         \/ inflight.inc[t.index] = t.inc
         \/ Kills(channel, t.index)
         \/ KillsUpTo(socket, ahead, t.index)
    /\ answer.kind = "reply" =>
         \/ answer.inc[t.index] = t.inc
         \/ Kills(channel, t.index)
    /\ pc \in {"addresses", "classify"} => links.inc[t.index] = t.inc

\* A notification arrived since the inventory began.
EpochMoved == deletion_epoch > startEpoch \/ channel # <<>>

\* A link deleted since the link dump has moved the epoch, or will.
DumpIsGuarded ==
  pc \in {"links", "addresses", "classify"} =>
    /\ deletion_epoch >= startEpoch
    /\ \A i \in Index :
         /\ pc = "links" /\ inflight.kind = "reply"
               /\ inflight.inc[i] # 0 /\ link[i] # inflight.inc[i]
             => EpochMoved \/ Kills(socket, i)
         /\ pc = "links" /\ answer.kind = "reply"
               /\ answer.inc[i] # 0 /\ link[i] # answer.inc[i]
             => EpochMoved \/ Kills(socket, i)
         /\ pc # "links" /\ links.inc[i] # 0 /\ link[i] # links.inc[i]
             => EpochMoved \/ Kills(socket, i)
         /\ pc = "addresses" /\ inflight.kind = "reply"
               /\ links.inc[i] # 0 /\ inflight.inc[i] # links.inc[i]
             => EpochMoved \/ KillsUpTo(socket, ahead, i)
         /\ pc = "addresses" /\ answer.kind = "reply"
               /\ links.inc[i] # 0 /\ answer.inc[i] # links.inc[i]
             => EpochMoved
         /\ pc = "classify" /\ links.inc[i] # 0 /\ rows.inc[i] # links.inc[i]
             => EpochMoved

\* What is being returned is what was dumped.
DevicesAreDumped ==
  /\ \A d \in devices : links.inc[d.index] = d.inc
  /\ devices # {} => pc = "classify"
  /\ pc = "classify" => \A i \in todo : links.inc[i] # 0

\* Cached address records are of the current incarnation.
RecordsAreCurrent ==
  /\ \A t \in issued : Current(t) => address_messages[t.index] \in {0, t.inc}
  /\ pc = "confirm" => record = address_messages[target.index]

IInv ==
  /\ TypeOK
  /\ OneReply
  /\ ClosedIsKnown
  /\ TokensAreDrawn
  /\ AliveOrPending
  /\ ReplyIsOrdered
  /\ DumpIsGuarded
  /\ DevicesAreDumped
  /\ RecordsAreCurrent
  /\ TokenNamesOneIncarnation
  /\ RecordMatchesTarget
=============================================================================
