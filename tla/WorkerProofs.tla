----------------------------- MODULE WorkerProofs -----------------------------
(***************************************************************************)
(* Proofs about Worker: what its callers are told is true, for any number   *)
(* of handles and calls, any plans and any capacity of the channel.         *)
(***************************************************************************)
EXTENDS Worker, FiniteSetTheorems, SequenceTheorems, TLAPS

-----------------------------------------------------------------------------
(* The inductive invariant. *)

\* What a worker can answer: it never says of itself that it is gone.
Served == Outcome \ {"disconnected"}

Distinct(s) == \A i, j \in DOMAIN s : s[i] = s[j] => i = j

LateOf(c) == {w[2] : w \in {v \in late : v[1] = c}}

\* Operations of c whose write reached the kernel or still may.
Carried(c) == written[c] \cup LateOf(c)

\* A request is in at most one place: it waits for room, is in the channel or is
\* served, and its caller has not got its answer.
OnePlace ==
  /\ Distinct(waiting) /\ Distinct(queue)
  /\ ToSet(waiting) \cap ToSet(queue) = {}
  /\ serving \notin ToSet(waiting) /\ serving \notin ToSet(queue)
  /\ worker = "setup" => ready = "none" /\ handles = {} /\ waiting = <<>>
  /\ worker \in {"setup", "stopped"} => queue = <<>>
  /\ \A c \in Call :
       /\ c \in ToSet(waiting) => caller[c] = "calling"
       /\ c \in ToSet(queue) \/ c = serving => caller[c] \in {"calling", "dropped"}

\* A request that nobody served yet has no answer, and nothing of it is written;
\* one that is served has no answer, and only operations decided are written.
NothingEarly ==
  \A c \in Call :
    /\ caller[c] = "new" \/ c \in ToSet(waiting) \/ c \in ToSet(queue)
         => answer[c] = Nothing /\ Carried(c) = {}
    /\ c = serving => answer[c] = Nothing /\ Carried(c) \subseteq DOMAIN outcome
    /\ caller[c] # "returned" => report[c] = Nothing

\* Only a plan to apply is written.
OnlyApplied ==
  /\ \A c \in Call : Kind[c] # "apply" => Carried(c) = {}
  /\ submitting => Kind[serving] = "apply"

\* What is said not to be written is not.
Truthful(c, r) ==
  \A k \in DOMAIN r : r[k] \in {"failed", "cancelled", "satisfied"} => k \notin Carried(c)

Truth ==
  /\ outcome \in Seq(Served)
  /\ \A c \in Call :
       /\ c = serving => Truthful(c, outcome)
       /\ answer[c] \in Seq(Served)
       /\ Truthful(c, answer[c]) /\ Truthful(c, report[c])
       /\ "disconnected" \in ToSet(report[c]) => Carried(c) = {}

AtMost(S, n) == IsFiniteSet(S) /\ Cardinality(S) <= n

\* Writes of a dropped future since it was dropped, or still to come.
Later(c) == (written[c] \ dropped[c]) \cup LateOf(c)

\* No more writes are late than have timed out; a dropped future has one more
\* than that, which is under way or done.
Bounded ==
  \A c \in Call :
    /\ AtMost(LateOf(c), timeouts)
    /\ caller[c] = "dropped" =>
         AtMost(Later(c), IF c = serving /\ submitting THEN timeouts ELSE timeouts + 1)

Inv == TypeOK /\ OnePlace /\ NothingEarly /\ OnlyApplied /\ Truth /\ Bounded

-----------------------------------------------------------------------------
(* Queues of calls. *)

\* A call joins a queue.
LEMMA Joining ==
  ASSUME NEW S, NEW s \in Seq(S), NEW e \in S
  PROVE  /\ Append(s, e) \in Seq(S)
         /\ ToSet(Append(s, e)) = ToSet(s) \cup {e}
         /\ Distinct(s) /\ e \notin ToSet(s) => Distinct(Append(s, e))
<1>1. /\ Append(s, e) \in Seq(S) /\ DOMAIN s = 1 .. Len(s) /\ Len(s) \in Nat
      /\ DOMAIN Append(s, e) = 1 .. Len(s) + 1
      /\ Append(s, e)[Len(s) + 1] = e
      /\ \A k \in 1 .. Len(s) : Append(s, e)[k] = s[k]
  OBVIOUS
<1>2. ToSet(Append(s, e)) = ToSet(s) \cup {e}
  <2>1. ASSUME NEW x \in ToSet(Append(s, e))
        PROVE  x \in ToSet(s) \cup {e}
    BY <1>1, <2>1 DEF ToSet
  <2>2. ASSUME NEW x \in ToSet(s) \cup {e}
        PROVE  x \in ToSet(Append(s, e))
    <3>1. Len(s) + 1 \in DOMAIN Append(s, e) /\ 1 .. Len(s) \subseteq DOMAIN Append(s, e)
      BY <1>1
    <3> QED BY <1>1, <2>2, <3>1 DEF ToSet
  <2> QED BY <2>1, <2>2
<1>3. ASSUME Distinct(s), e \notin ToSet(s)
      PROVE  Distinct(Append(s, e))
  BY <1>1, <1>3 DEF Distinct, ToSet
<1> QED BY <1>1, <1>2, <1>3

\* The first call leaves a queue.
LEMMA Leaving ==
  ASSUME NEW S, NEW s \in Seq(S), s # <<>>, Distinct(s)
  PROVE  /\ Head(s) \in S /\ Tail(s) \in Seq(S) /\ Head(s) \in ToSet(s)
         /\ Len(Tail(s)) < Len(s)
         /\ ToSet(Tail(s)) = ToSet(s) \ {Head(s)}
         /\ Distinct(Tail(s))
<1>1. /\ Head(s) \in S /\ Tail(s) \in Seq(S) /\ Len(s) \in Nat \ {0}
      /\ DOMAIN s = 1 .. Len(s) /\ DOMAIN Tail(s) = 1 .. Len(s) - 1
      /\ Len(Tail(s)) = Len(s) - 1
      /\ Head(s) = s[1]
      /\ \A k \in 1 .. Len(s) - 1 : Tail(s)[k] = s[k + 1]
  OBVIOUS
<1>2. Head(s) \in ToSet(s)
  BY <1>1 DEF ToSet
<1>3. ASSUME NEW x \in ToSet(Tail(s))
      PROVE  x \in ToSet(s) \ {Head(s)}
  <2>1. PICK k \in 1 .. Len(s) - 1 : x = s[k + 1]
    BY <1>1, <1>3 DEF ToSet
  <2>2. k + 1 \in DOMAIN s /\ 1 \in DOMAIN s /\ k + 1 # 1
    BY <1>1
  <2> QED BY <1>1, <2>1, <2>2 DEF ToSet, Distinct
<1>4. ASSUME NEW x \in ToSet(s) \ {Head(s)}
      PROVE  x \in ToSet(Tail(s))
  <2>1. PICK k \in DOMAIN s : x = s[k]
    BY <1>4 DEF ToSet
  <2>2. k - 1 \in DOMAIN Tail(s) /\ Tail(s)[k - 1] = x
    BY <1>1, <1>4, <2>1
  <2> QED BY <2>2 DEF ToSet
<1>5. Distinct(Tail(s))
  <2> SUFFICES ASSUME NEW i \in DOMAIN Tail(s), NEW j \in DOMAIN Tail(s), Tail(s)[i] = Tail(s)[j]
               PROVE  i = j
    BY DEF Distinct
  <2>1. i + 1 \in DOMAIN s /\ j + 1 \in DOMAIN s /\ s[i + 1] = s[j + 1]
    BY <1>1
  <2> QED BY <1>1, <2>1 DEF Distinct
<1> QED BY <1>1, <1>2, <1>3, <1>4, <1>5

\* A part of a sequence.
LEMMA Part ==
  ASSUME NEW S, NEW s \in Seq(S), NEW m \in Nat, NEW n \in Nat, n <= Len(s), m <= n
  PROVE  /\ SubSeq(s, m + 1, n) \in Seq(S) /\ Len(SubSeq(s, m + 1, n)) = n - m
         /\ \A k \in 1 .. n - m : SubSeq(s, m + 1, n)[k] = s[m + k]
<1>1. \A i \in m + 1 .. n : s[i] \in S
  OBVIOUS
<1>2. /\ SubSeq(s, m + 1, n) \in Seq(S)
      /\ Len(SubSeq(s, m + 1, n)) = IF m + 1 <= n THEN n - (m + 1) + 1 ELSE 0
      /\ \A i \in 1 .. n - (m + 1) + 1 : SubSeq(s, m + 1, n)[i] = s[m + 1 + i - 1]
  BY <1>1, SubSeqProperties
<1>3. \A k \in 1 .. n - m : SubSeq(s, m + 1, n)[k] = s[m + k]
  <2> TAKE k \in 1 .. n - m
  <2>1. k \in 1 .. n - (m + 1) + 1 /\ m + 1 + k - 1 = m + k
    OBVIOUS
  <2> QED BY <1>2, <2>1
<1> QED BY <1>2, <1>3

\* One element is removed.
LEMMA Removal ==
  ASSUME NEW S, NEW s \in Seq(S), NEW n \in 1 .. Len(s)
  PROVE  /\ RemoveAt(s, n) \in Seq(S) /\ DOMAIN RemoveAt(s, n) = 1 .. Len(s) - 1
         /\ \A k \in 1 .. Len(s) - 1 :
              RemoveAt(s, n)[k] = IF k < n THEN s[k] ELSE s[k + 1]
<1>1. PICK len \in Nat : len = Len(s)
  OBVIOUS
<1>2. PICK before : before = SubSeq(s, 1, n - 1)
  OBVIOUS
<1>3. PICK after : after = SubSeq(s, n + 1, len)
  OBVIOUS
<1>4. /\ before \in Seq(S) /\ Len(before) = n - 1
      /\ \A k \in 1 .. n - 1 : before[k] = s[k]
  <2>1. 0 \in Nat /\ n - 1 \in Nat /\ n - 1 <= Len(s) /\ 0 <= n - 1 /\ 0 + 1 = 1
    BY <1>1
  <2> QED BY <1>2, <2>1, Part
<1>5. /\ after \in Seq(S) /\ Len(after) = len - n
      /\ \A k \in 1 .. len - n : after[k] = s[n + k]
  <2>1. n \in Nat /\ n <= len
    BY <1>1
  <2> QED BY <1>1, <1>3, <2>1, Part
<1>6. RemoveAt(s, n) = before \o after
  BY <1>1, <1>2, <1>3 DEF RemoveAt
<1>7. /\ before \o after \in Seq(S)
      /\ Len(before \o after) = len - 1
      /\ \A i \in 1 .. len - 1 :
           (before \o after)[i] = IF i <= n - 1 THEN before[i] ELSE after[i - (n - 1)]
  <2>1. Len(before) + Len(after) = len - 1
    BY <1>1, <1>4, <1>5
  <2>2. /\ before \o after \in Seq(S)
        /\ Len(before \o after) = Len(before) + Len(after)
        /\ \A i \in 1 .. Len(before) + Len(after) :
             (before \o after)[i] =
               IF i <= Len(before) THEN before[i] ELSE after[i - Len(before)]
    BY <1>4, <1>5, ConcatProperties, Zenon
  <2>3. Len(before) = n - 1
    BY <1>4
  <2> QED BY <2>1, <2>2, <2>3, Zenon
<1>8. ASSUME NEW k \in 1 .. len - 1
      PROVE  (before \o after)[k] = IF k < n THEN s[k] ELSE s[k + 1]
  <2>1. CASE k < n
    BY <1>1, <1>4, <1>7, <2>1
  <2>2. CASE ~(k < n)
    <3>1. k - (n - 1) \in 1 .. len - n /\ n + (k - (n - 1)) = k + 1 /\ ~(k <= n - 1)
      BY <1>1, <2>2
    <3> QED BY <1>5, <1>7, <2>2, <3>1
  <2> QED BY <2>1, <2>2
<1>9. PICK t : t = before \o after
  OBVIOUS
<1>10. /\ t \in Seq(S) /\ DOMAIN t = 1 .. len - 1
       /\ \A k \in 1 .. len - 1 : t[k] = IF k < n THEN s[k] ELSE s[k + 1]
  BY <1>7, <1>8, <1>9
<1>11. RemoveAt(s, n) = t
  BY <1>6, <1>9
<1> QED BY <1>1, <1>10, <1>11

\* A call gives up waiting.
LEMMA GivingUp ==
  ASSUME waiting \in Seq(Call), Distinct(waiting), NEW c
  PROVE  /\ Without(c) \in Seq(Call) /\ Distinct(Without(c))
         /\ ToSet(Without(c)) = ToSet(waiting) \ {c}
<1>1. CASE c \notin ToSet(waiting)
  BY <1>1 DEF Without
<1>2. CASE c \in ToSet(waiting)
  <2>1. PICK n : n = CHOOSE k \in DOMAIN waiting : waiting[k] = c
    OBVIOUS
  <2>2. n \in 1 .. Len(waiting) /\ waiting[n] = c /\ Len(waiting) \in Nat
        /\ DOMAIN waiting = 1 .. Len(waiting)
    BY <1>2, <2>1 DEF ToSet
  <2>3. PICK rest : rest = RemoveAt(waiting, n)
    OBVIOUS
  <2>4. Without(c) = rest
    BY <1>2, <2>1, <2>3 DEF Without
  <2>5. /\ rest \in Seq(Call) /\ DOMAIN rest = 1 .. Len(waiting) - 1
        /\ \A k \in 1 .. Len(waiting) - 1 :
             rest[k] = IF k < n THEN waiting[k] ELSE waiting[k + 1]
    BY <2>2, <2>3, Removal
  <2>6. ASSUME NEW i \in DOMAIN rest, NEW j \in DOMAIN rest, rest[i] = rest[j]
        PROVE  i = j
    <3> DEFINE At(k) == IF k < n THEN k ELSE k + 1
    <3>1. At(i) \in DOMAIN waiting /\ At(j) \in DOMAIN waiting
      BY <2>2, <2>5
    <3>2. waiting[At(i)] = waiting[At(j)]
      BY <2>5, <2>6
    <3>3. At(i) = At(j)
      BY <3>1, <3>2 DEF Distinct
    <3> QED BY <2>2, <2>5, <3>3
  <2>7. ASSUME NEW x \in ToSet(rest)
        PROVE  x \in ToSet(waiting) \ {c}
    <3>1. PICK k \in DOMAIN rest : x = rest[k]
      BY <2>7 DEF ToSet
    <3> DEFINE m == IF k < n THEN k ELSE k + 1
    <3>2. m \in DOMAIN waiting /\ m # n /\ x = waiting[m]
      BY <2>2, <2>5, <3>1
    <3> QED BY <2>2, <3>2 DEF ToSet, Distinct
  <2>8. ASSUME NEW x \in ToSet(waiting) \ {c}
        PROVE  x \in ToSet(rest)
    <3>1. PICK k \in DOMAIN waiting : x = waiting[k]
      BY <2>8 DEF ToSet
    <3> DEFINE m == IF k < n THEN k ELSE k - 1
    <3>2. k # n
      BY <2>2, <2>8, <3>1
    <3>3. m \in DOMAIN rest /\ rest[m] = x
      BY <2>2, <2>5, <3>1, <3>2
    <3> QED BY <3>3 DEF ToSet
  <2> QED BY <2>4, <2>5, <2>6, <2>7, <2>8 DEF Distinct
<1> QED BY <1>1, <1>2

-----------------------------------------------------------------------------
(* Sets of writes. *)

LEMMA AtMostSubset ==
  ASSUME NEW S, NEW T, T \subseteq S, NEW n \in Nat, AtMost(S, n)
  PROVE  AtMost(T, n)
<1>1. IsFiniteSet(T) /\ Cardinality(T) <= Cardinality(S)
  BY FS_Subset DEF AtMost
<1>2. Cardinality(S) \in Nat /\ Cardinality(T) \in Nat
  BY <1>1, FS_CardinalityType DEF AtMost
<1> QED BY <1>1, <1>2 DEF AtMost

LEMMA AtMostMore ==
  ASSUME NEW S, NEW m \in Nat, NEW n \in Nat, m <= n, AtMost(S, m)
  PROVE  AtMost(S, n)
<1>1. Cardinality(S) \in Nat
  BY FS_CardinalityType DEF AtMost
<1> QED BY <1>1 DEF AtMost

LEMMA AtMostAdded ==
  ASSUME NEW S, NEW e, NEW n \in Nat, AtMost(S, n)
  PROVE  AtMost(S \cup {e}, n + 1)
<1>1. /\ IsFiniteSet(S \cup {e})
      /\ \/ Cardinality(S \cup {e}) = Cardinality(S)
         \/ Cardinality(S \cup {e}) = Cardinality(S) + 1
  BY FS_AddElement DEF AtMost
<1>2. Cardinality(S) \in Nat
  BY FS_CardinalityType DEF AtMost
<1> QED BY <1>1, <1>2 DEF AtMost

LEMMA AtMostNone ==
  ASSUME NEW n \in Nat
  PROVE  AtMost({}, n)
BY FS_EmptySet DEF AtMost

LEMMA OneMore ==
  ASSUME NEW m \in Nat, NEW n \in Nat, m <= n
  PROVE  m + 1 \in Nat /\ n + 1 \in Nat /\ m + 1 <= n + 1
OBVIOUS

\* A step that neither writes nor loses anything.
LEMMA Kept ==
  ASSUME UNCHANGED <<late, written>>
  PROVE  \A c : Carried(c)' = Carried(c) /\ LateOf(c)' = LateOf(c)
BY DEF Carried, LateOf

LEMMA LaterKept ==
  ASSUME UNCHANGED <<late, written, dropped>>
  PROVE  \A c : Later(c)' = Later(c)
BY DEF Later, LateOf

-----------------------------------------------------------------------------
(* The steps. *)

\* Initially nobody asked for anything.
LEMMA InitInv == Init => Inv
<1> SUFFICES ASSUME Init
             PROVE  Inv
  OBVIOUS
<1>1. \A c \in Call : Carried(c) = {} /\ LateOf(c) = {}
  BY DEF Init, Carried, LateOf
<1>2. TypeOK
  <2>1. <<>> \in Seq(Call) /\ <<>> \in Seq(Outcome) /\ Len(<<>>) = 0
    OBVIOUS
  <2>2. 0 <= Capacity /\ 0 \in 0 .. MaxNotifications /\ 0 \in 0 .. MaxTimeouts
    BY WorkerAssumption
  <2>3. answer \in [Call -> Seq(Outcome)] /\ report \in [Call -> Seq(Outcome)]
    BY <2>1 DEF Init, Nothing
  <2> QED BY <2>1, <2>2, <2>3 DEF Init, TypeOK
<1>3. OnePlace
  BY WorkerAssumption DEF Init, OnePlace, Distinct, ToSet
<1>4. NothingEarly
  BY <1>1, WorkerAssumption DEF Init, NothingEarly, ToSet
<1>5. OnlyApplied
  BY <1>1 DEF Init, OnlyApplied
<1>6. Truth
  BY <1>1 DEF Init, Truth, Truthful, ToSet, Nothing
<1>7. Bounded
  <2>1. 0 \in Nat
    OBVIOUS
  <2> QED BY <1>1, <2>1, AtMostNone DEF Init, Bounded
<1> QED BY <1>2, <1>3, <1>4, <1>5, <1>6, <1>7 DEF Inv

\* Opening, cloning and dropping handles and the notifications leave the requests
\* alone.
Quiet ==
  \/ SetupFails \/ SetupReady \/ OpenReturns \/ OpenTimesOut
  \/ \E h \in Handle : CloneHandle(h) \/ DropHandle(h)
  \/ NextNotification \/ Notify
  \/ UNCHANGED vars

LEMMA QuietStep ==
  ASSUME Inv, Quiet
  PROVE  Inv'
<1> USE DEF Inv
<1>1. UNCHANGED <<caller, waiting, queue, serving, outcome, submitting, answer,
                  report, late, written, timeouts, dropped>>
  BY DEF Quiet, SetupFails, SetupReady, OpenReturns, OpenTimesOut, CloneHandle,
         DropHandle, NextNotification, Notify, vars, opening, channel, thread, history
<1>2. /\ opener' \in {"waiting", "timed out", "opened", "failed"}
      /\ ready' \in {"none", "ok", "error"} /\ handles' \subseteq Handle
      /\ backlog' \in 0 .. MaxNotifications
      /\ \/ worker' = worker
         \/ worker = "setup" /\ worker' \in {"idle", "stopped"}
  <2> USE DEF opening, channel, thread, history, TypeOK
  <2>1. CASE SetupFails \/ SetupReady
    BY <2>1 DEF SetupFails, SetupReady
  <2>2. CASE OpenReturns \/ OpenTimesOut
    BY <2>2, WorkerAssumption DEF OpenReturns, OpenTimesOut
  <2>3. CASE \E h \in Handle : CloneHandle(h) \/ DropHandle(h)
    BY <2>3 DEF CloneHandle, DropHandle
  <2>4. CASE NextNotification \/ Notify
    <3>1. MaxNotifications \in Nat
      BY WorkerAssumption
    <3>2. UNCHANGED <<opener, ready, handles, worker>>
      BY <2>4 DEF NextNotification, Notify
    <3>3. /\ backlog \in 0 .. MaxNotifications
          /\ \/ backlog > 0 /\ backlog' = backlog - 1
             \/ backlog < MaxNotifications /\ backlog' = backlog + 1
      BY <2>4 DEF NextNotification, Notify
    <3>4. backlog' \in 0 .. MaxNotifications
      <4> HIDE DEF Inv, TypeOK
      <4> QED BY <3>1, <3>3
    <3> QED BY <3>2, <3>4
  <2>5. CASE UNCHANGED vars
    BY <2>5 DEF vars
  <2> QED BY <2>1, <2>2, <2>3, <2>4, <2>5 DEF Quiet
<1>3. worker' = "setup" => ready' = "none" /\ handles' = {}
  BY DEF Quiet, SetupFails, SetupReady, OpenReturns, OpenTimesOut, CloneHandle,
         DropHandle, NextNotification, Notify, vars, opening, channel, thread,
         history, OnePlace
<1>4. TypeOK'
  BY <1>1, <1>2 DEF TypeOK, Executing, Turn
<1>5. OnePlace'
  <2>1. worker' = "setup" => waiting' = <<>>
    BY <1>1, <1>2 DEF OnePlace
  <2>2. worker' \in {"setup", "stopped"} => queue' = <<>>
    BY <1>1, <1>2 DEF OnePlace
  <2> QED BY <1>1, <1>3, <2>1, <2>2 DEF OnePlace, Distinct, ToSet
<1>6. NothingEarly'
  BY <1>1, Kept DEF NothingEarly, ToSet
<1>7. OnlyApplied'
  BY <1>1, Kept DEF OnlyApplied
<1>8. Truth'
  BY <1>1, Kept DEF Truth, Truthful, ToSet
<1>9. Bounded'
  BY <1>1, Kept, LaterKept DEF Bounded
<1> QED BY <1>4, <1>5, <1>6, <1>7, <1>8, <1>9

\* A call is made, waits and is accepted.
LEMMA StartStep ==
  ASSUME Inv, NEW a \in Call, Start(a)
  PROVE  Inv'
<1> USE DEF Inv
<1>1. /\ UNCHANGED <<opener, ready, handles, queue, worker, serving, outcome, submitting,
                     backlog, answer, report, late, written, timeouts, dropped>>
      /\ caller[a] = "new" /\ handles # {}
      /\ caller' = [caller EXCEPT ![a] = "calling"]
      /\ waiting' = Append(waiting, a)
  BY DEF Start, opening, thread, history
<1>2. /\ a \notin ToSet(waiting) /\ a \notin ToSet(queue) /\ a # serving
      /\ worker # "setup"
  BY <1>1 DEF OnePlace
<1>3. waiting' \in Seq(Call) /\ Distinct(waiting') /\ ToSet(waiting') = ToSet(waiting) \cup {a}
  <2>1. waiting \in Seq(Call) /\ Distinct(waiting) /\ a \notin ToSet(waiting)
    BY <1>2 DEF TypeOK, OnePlace
  <2>2. /\ Append(waiting, a) \in Seq(Call) /\ Distinct(Append(waiting, a))
        /\ ToSet(Append(waiting, a)) = ToSet(waiting) \cup {a}
    BY <2>1, Joining
  <2> QED BY <1>1, <2>2
<1>4. \A c \in Call : caller'[c] = IF c = a THEN "calling" ELSE caller[c]
  BY <1>1 DEF TypeOK
<1>5. TypeOK'
  <2>1. caller' \in [Call -> {"new", "calling", "returned", "dropped"}]
    BY <1>1 DEF TypeOK
  <2> QED BY <1>1, <1>3, <2>1 DEF TypeOK, Executing, Turn
<1>6. OnePlace'
  BY <1>1, <1>2, <1>3, <1>4 DEF OnePlace
<1>7. NothingEarly'
  BY <1>1, <1>2, <1>3, <1>4, Kept DEF NothingEarly
<1>8. OnlyApplied'
  BY <1>1, Kept DEF OnlyApplied
<1>9. Truth'
  BY <1>1, Kept DEF Truth, Truthful, ToSet
<1>10. Bounded'
  BY <1>1, <1>4, Kept, LaterKept DEF Bounded
<1> QED BY <1>5, <1>6, <1>7, <1>8, <1>9, <1>10

LEMMA AcceptStep ==
  ASSUME Inv, Accept
  PROVE  Inv'
<1> USE DEF Inv
<1>1. /\ UNCHANGED <<opener, ready, handles, caller, worker, serving, outcome, submitting,
                     backlog, answer, report, late, written, timeouts, dropped>>
      /\ waiting # <<>> /\ worker # "stopped" /\ Len(queue) < Capacity
      /\ queue' = Append(queue, Head(waiting)) /\ waiting' = Tail(waiting)
  BY DEF Accept, HasRoom, opening, thread, history
<1>2. PICK a : a = Head(waiting)
  OBVIOUS
<1>3. /\ a \in Call /\ a \in ToSet(waiting)
      /\ waiting' \in Seq(Call) /\ Distinct(waiting') /\ ToSet(waiting') = ToSet(waiting) \ {a}
  BY <1>1, <1>2, Leaving DEF TypeOK, OnePlace
<1>4. /\ queue' \in Seq(Call) /\ ToSet(queue') = ToSet(queue) \cup {a} /\ Distinct(queue')
  <2>1. queue \in Seq(Call) /\ Distinct(queue) /\ a \notin ToSet(queue)
    BY <1>3 DEF TypeOK, OnePlace
  <2>2. /\ Append(queue, a) \in Seq(Call) /\ Distinct(Append(queue, a))
        /\ ToSet(Append(queue, a)) = ToSet(queue) \cup {a}
    BY <1>3, <2>1, Joining
  <2> QED BY <1>1, <1>2, <2>2
<1>5. worker # "setup"
  BY <1>1 DEF OnePlace
<1>6. TypeOK'
  <2>1. Len(queue') <= Capacity
    <3>1. Capacity \in Nat
      BY WorkerAssumption
    <3>2. queue \in Seq(Call)
      BY DEF TypeOK
    <3>3. Len(queue') = Len(queue) + 1 /\ Len(queue) \in Nat
      BY <1>1, <1>2, <1>3, <3>2
    <3> QED BY <1>1, <3>1, <3>3
  <2> QED BY <1>1, <1>3, <1>4, <2>1 DEF TypeOK, Executing, Turn
<1>7. OnePlace'
  BY <1>1, <1>3, <1>4, <1>5 DEF OnePlace
<1>8. NothingEarly'
  BY <1>1, <1>3, <1>4, Kept DEF NothingEarly
<1>9. OnlyApplied'
  BY <1>1, Kept DEF OnlyApplied
<1>10. Truth'
  BY <1>1, Kept DEF Truth, Truthful, ToSet
<1>11. Bounded'
  BY <1>1, Kept, LaterKept DEF Bounded
<1> QED BY <1>6, <1>7, <1>8, <1>9, <1>10, <1>11

\* What a caller is told when nobody answers.
LEMMA ReportOfNobody ==
  ASSUME NEW c \in Call, NEW f \in Outcome
  PROVE  /\ FailedReport(c, f) \in Seq(Outcome)
         /\ \A k \in DOMAIN FailedReport(c, f) : FailedReport(c, f)[k] \in {f, "blocked"}
<1>1. CASE Kind[c] = "query"
  BY <1>1 DEF FailedReport
<1>2. CASE Kind[c] # "query"
  <2>1. PICK n \in Nat : DOMAIN Plan[c] = 1 .. n
    BY WorkerAssumption
  <2>2. FailedReport(c, f) = [k \in 1 .. n |-> IF Plan[c][k] = {} THEN f ELSE "blocked"]
    BY <1>2, <2>1 DEF FailedReport
  <2>3. \A k \in 1 .. n : (IF Plan[c][k] = {} THEN f ELSE "blocked") \in Outcome \cap {f, "blocked"}
    BY DEF Outcome
  <2> QED BY <2>2, <2>3
<1> QED BY <1>1, <1>2

\* A call returns with a report that is true.
LEMMA ReturnStep ==
  ASSUME Inv, NEW a \in Call, NEW r \in Seq(Outcome), Returns(a, r),
         UNCHANGED <<opener, ready, handles, queue, worker, serving, outcome,
                     submitting, backlog, answer, late, written, timeouts, dropped>>,
         waiting' \in Seq(Call), Distinct(waiting'), ToSet(waiting') = ToSet(waiting) \ {a},
         worker = "setup" => waiting' = <<>>, a \notin ToSet(queue), a # serving,
         Truthful(a, r), "disconnected" \in ToSet(r) => Carried(a) = {}
  PROVE  Inv'
<1> USE DEF Inv
<1>1. /\ caller' \in [Call -> {"new", "calling", "returned", "dropped"}]
      /\ report' \in [Call -> Seq(Outcome)]
  BY DEF Returns, TypeOK
<1>2. /\ \A c \in Call : caller'[c] = IF c = a THEN "returned" ELSE caller[c]
      /\ \A c \in Call : report'[c] = IF c = a THEN r ELSE report[c]
  BY DEF Returns, TypeOK
<1>3. TypeOK'
  BY <1>1 DEF TypeOK, Executing, Turn
<1>4. OnePlace'
  BY <1>2 DEF OnePlace
<1>5. NothingEarly'
  BY <1>2, Kept DEF NothingEarly
<1>6. OnlyApplied'
  BY Kept DEF OnlyApplied
<1>7. Truth'
  <2>1. outcome' \in Seq(Served) /\ \A c \in Call : c = serving' => Truthful(c, outcome)'
    BY Kept DEF Truth, Truthful
  <2>2. \A c \in Call : answer'[c] \in Seq(Served) /\ Truthful(c, answer[c])'
    BY Kept DEF Truth, Truthful
  <2>3. ASSUME NEW c \in Call
        PROVE  /\ Truthful(c, report[c])'
               /\ "disconnected" \in ToSet(report'[c]) => Carried(c)' = {}
    <3>1. CASE c = a
      BY <1>2, <3>1, Kept DEF Truthful
    <3>2. CASE c # a
      BY <1>2, <3>2, Kept DEF Truth, Truthful
    <3> QED BY <3>1, <3>2
  <2> QED BY <2>1, <2>2, <2>3 DEF Truth
<1>8. Bounded'
  BY <1>2, Kept, LaterKept DEF Bounded
<1> QED BY <1>3, <1>4, <1>5, <1>6, <1>7, <1>8

LEMMA WakeStep ==
  ASSUME Inv, NEW a \in Call, Wake(a)
  PROVE  Inv'
<1> USE DEF Inv
<1>1. CASE Refused(a)
  <2>1. /\ UNCHANGED <<opener, ready, handles, queue, worker, serving, outcome, submitting,
                       backlog, answer, late, written, timeouts, dropped>>
        /\ a \in ToSet(waiting) /\ worker = "stopped"
        /\ Returns(a, FailedReport(a, "disconnected")) /\ waiting' = Without(a)
    BY <1>1 DEF Refused, opening, thread, history
  <2>2. PICK r : r = FailedReport(a, "disconnected")
    OBVIOUS
  <2>3. r \in Seq(Outcome) /\ \A k \in DOMAIN r : r[k] \in {"disconnected", "blocked"}
    BY <2>2, ReportOfNobody DEF Outcome
  <2>4. waiting' \in Seq(Call) /\ Distinct(waiting') /\ ToSet(waiting') = ToSet(waiting) \ {a}
    <3>1. waiting \in Seq(Call) /\ Distinct(waiting)
      BY DEF TypeOK, OnePlace
    <3>2. /\ Without(a) \in Seq(Call) /\ Distinct(Without(a))
          /\ ToSet(Without(a)) = ToSet(waiting) \ {a}
      BY <3>1, GivingUp
    <3> QED BY <2>1, <3>2
  <2>5. a \notin ToSet(queue) /\ a # serving
    BY <2>1 DEF OnePlace
  <2>6. Truthful(a, r)
    BY <2>3 DEF Truthful
  <2>7. Carried(a) = {}
    BY <2>1 DEF NothingEarly
  <2>8. worker # "setup" /\ Returns(a, r)
    BY <2>1, <2>2
  <2> HIDE DEF Inv
  <2> QED BY <2>1, <2>3, <2>4, <2>5, <2>6, <2>7, <2>8, ReturnStep
<1>2. ASSUME a \notin ToSet(waiting), UNCHANGED waiting
      PROVE  waiting' \in Seq(Call) /\ Distinct(waiting') /\ ToSet(waiting') = ToSet(waiting) \ {a}
  BY <1>2 DEF TypeOK, OnePlace
<1>3. CASE Answered(a)
  <2>1. /\ UNCHANGED <<opener, ready, handles, waiting, queue, worker, serving, outcome,
                       submitting, backlog, answer, late, written, timeouts, dropped>>
        /\ caller[a] = "calling" /\ answer[a] # Nothing /\ Returns(a, answer[a])
    BY <1>3 DEF Answered, Calling, opening, channel, thread, history
  <2>2. a \notin ToSet(waiting) /\ a \notin ToSet(queue) /\ a # serving
    BY <2>1 DEF NothingEarly
  <2>3. worker = "setup" => waiting' = <<>>
    BY <2>1 DEF OnePlace
  <2>4. answer[a] \in Seq(Outcome) /\ Truthful(a, answer[a])
    BY DEF TypeOK, Truth
  <2>5. "disconnected" \notin ToSet(answer[a])
    BY DEF Truth, Served, ToSet
  <2> HIDE DEF Inv
  <2> QED BY <1>2, <2>1, <2>2, <2>3, <2>4, <2>5, ReturnStep
<1>4. CASE Lost(a)
  <2>1. /\ UNCHANGED <<opener, ready, handles, waiting, queue, worker, serving, outcome,
                       submitting, backlog, answer, late, written, timeouts, dropped>>
        /\ a \notin ToSet(waiting) /\ worker = "stopped"
        /\ Returns(a, FailedReport(a, Loss(a)))
    BY <1>4 DEF Lost, opening, channel, thread, history
  <2>2. PICK r : r = FailedReport(a, Loss(a))
    OBVIOUS
  <2>3. r \in Seq(Outcome) /\ \A k \in DOMAIN r : r[k] \in {Loss(a), "blocked"}
    BY <2>2, ReportOfNobody DEF Outcome, Loss
  <2>4. a \notin ToSet(queue) /\ a # serving
    <3>1. queue = <<>> /\ serving = NoCall
      BY <2>1 DEF OnePlace, TypeOK
    <3> QED BY <3>1, WorkerAssumption DEF ToSet
  <2>5. Truthful(a, r)
    BY <2>3 DEF Truthful, Loss
  <2>6. "disconnected" \in ToSet(r) => Carried(a) = {}
    BY <2>3 DEF OnlyApplied, Loss, ToSet
  <2>7. worker # "setup" /\ Returns(a, r)
    BY <2>1, <2>2
  <2> HIDE DEF Inv
  <2> QED BY <1>2, <2>1, <2>3, <2>4, <2>5, <2>6, <2>7, ReturnStep
<1> QED BY <1>1, <1>3, <1>4 DEF Wake

LEMMA TimeoutsNat ==
  ASSUME TypeOK
  PROVE  timeouts \in Nat /\ timeouts + 1 \in Nat /\ timeouts <= timeouts + 1
<1>1. timeouts \in 0 .. MaxTimeouts /\ MaxTimeouts \in Nat
  BY WorkerAssumption DEF TypeOK
<1> QED BY <1>1

\* A future is dropped: all of its writes before count no more.
LEMMA DropStep ==
  ASSUME Inv, NEW a \in Call, Drop(a)
  PROVE  Inv'
<1> USE DEF Inv
<1>1. /\ UNCHANGED <<opener, ready, handles, queue, worker, serving, outcome, submitting,
                     backlog, answer, report, late, written, timeouts>>
      /\ caller[a] = "calling" /\ caller' = [caller EXCEPT ![a] = "dropped"]
      /\ waiting' = Without(a) /\ dropped' = [dropped EXCEPT ![a] = written[a]]
  BY DEF Drop, Calling, opening, thread, history
<1>2. waiting' \in Seq(Call) /\ Distinct(waiting') /\ ToSet(waiting') = ToSet(waiting) \ {a}
  <2>1. waiting \in Seq(Call) /\ Distinct(waiting)
    BY DEF TypeOK, OnePlace
  <2>2. /\ Without(a) \in Seq(Call) /\ Distinct(Without(a))
        /\ ToSet(Without(a)) = ToSet(waiting) \ {a}
    BY <2>1, GivingUp
  <2> QED BY <1>1, <2>2
<1>3. /\ caller' \in [Call -> {"new", "calling", "returned", "dropped"}]
      /\ dropped' \in [Call -> SUBSET Nat]
      /\ \A c \in Call : caller'[c] = IF c = a THEN "dropped" ELSE caller[c]
      /\ \A c \in Call : dropped'[c] = IF c = a THEN written[c] ELSE dropped[c]
  BY <1>1 DEF TypeOK
<1>4. worker = "setup" => waiting' = <<>>
  <2>1. ASSUME worker = "setup"
        PROVE  waiting' = <<>>
    <3>1. waiting = <<>> /\ a \notin ToSet(waiting)
      BY <2>1 DEF OnePlace, ToSet
    <3> QED BY <1>1, <3>1 DEF Without
  <2> QED BY <2>1
<1>5. TypeOK'
  BY <1>1, <1>2, <1>3 DEF TypeOK, Executing, Turn
<1>6. OnePlace'
  BY <1>1, <1>2, <1>3, <1>4 DEF OnePlace
<1>7. NothingEarly'
  BY <1>1, <1>2, <1>3, Kept DEF NothingEarly
<1>8. OnlyApplied'
  BY <1>1, Kept DEF OnlyApplied
<1>9. Truth'
  BY <1>1, Kept DEF Truth, Truthful
<1>10. Bounded'
  <2> SUFFICES ASSUME NEW c \in Call
               PROVE  /\ AtMost(LateOf(c)', timeouts')
                      /\ caller'[c] = "dropped" =>
                           AtMost(Later(c)', IF c = serving' /\ submitting' THEN timeouts' ELSE timeouts' + 1)
    BY DEF Bounded
  <2>1. AtMost(LateOf(c), timeouts) /\ LateOf(c)' = LateOf(c)
    BY <1>1, Kept DEF Bounded
  <2>2. CASE c = a
    <3>1. Later(c)' = LateOf(c)
      BY <1>1, <1>3, <2>1, <2>2 DEF Later
    <3>2. AtMost(LateOf(c), timeouts + 1)
      BY <2>1, AtMostMore, TimeoutsNat
    <3> QED BY <1>1, <2>1, <3>1, <3>2
  <2>3. CASE c # a
    <3>1. Later(c)' = Later(c)
      BY <1>1, <1>3, <2>1, <2>3 DEF Later
    <3> QED BY <1>1, <1>3, <2>1, <2>3, <3>1 DEF Bounded
  <2> QED BY <2>2, <2>3
<1> QED BY <1>5, <1>6, <1>7, <1>8, <1>9, <1>10

\* A write that is late arrives, or never will: nothing is carried that was not.
LEMMA LessStep ==
  ASSUME Inv,
         UNCHANGED <<caller, answer, report, timeouts, dropped>>,
         \A c \in Call : /\ Carried(c)' \subseteq Carried(c) /\ LateOf(c)' \subseteq LateOf(c)
                         /\ Later(c)' \subseteq Later(c),
         \/ UNCHANGED <<waiting, queue, serving, outcome, submitting>>
         \/ serving' = NoCall /\ outcome' = <<>> /\ submitting' = FALSE
            /\ UNCHANGED waiting /\ queue' = <<>>
  PROVE  NothingEarly' /\ OnlyApplied' /\ Truth' /\ Bounded'
<1> USE DEF Inv
<1>1. NoCall \notin Call /\ ToSet(<<>>) = {}
  BY WorkerAssumption DEF ToSet
<1>2. NothingEarly'
  BY <1>1 DEF NothingEarly
<1>3. OnlyApplied'
  BY DEF OnlyApplied
<1>4. Truth'
  <2>1. outcome' \in Seq(Served)
    <3>1. <<>> \in Seq(Served) /\ outcome \in Seq(Served)
      BY DEF Truth
    <3> QED BY <3>1
  <2>2. ASSUME NEW c \in Call
        PROVE  /\ c = serving' => Truthful(c, outcome)'
               /\ answer'[c] \in Seq(Served)
               /\ Truthful(c, answer[c])' /\ Truthful(c, report[c])'
               /\ "disconnected" \in ToSet(report'[c]) => Carried(c)' = {}
    BY <1>1, <2>2 DEF Truth, Truthful
  <2> QED BY <2>1, <2>2 DEF Truth
<1>5. Bounded'
  <2> SUFFICES ASSUME NEW c \in Call
               PROVE  /\ AtMost(LateOf(c)', timeouts')
                      /\ caller'[c] = "dropped" =>
                           AtMost(Later(c)', IF c = serving' /\ submitting' THEN timeouts' ELSE timeouts' + 1)
    BY DEF Bounded
  <2>1. timeouts \in Nat /\ timeouts + 1 \in Nat /\ timeouts <= timeouts + 1
    BY TimeoutsNat
  <2>2. AtMost(LateOf(c)', timeouts)
    BY <2>1, AtMostSubset DEF Bounded
  <2>3. ASSUME caller[c] = "dropped"
        PROVE  AtMost(Later(c)', IF c = serving' /\ submitting' THEN timeouts ELSE timeouts + 1)
    <3>1. CASE c = serving' /\ submitting'
      BY <1>1, <2>1, <2>3, <3>1, AtMostSubset DEF Bounded
    <3>2. CASE ~(c = serving' /\ submitting')
      <4>1. AtMost(Later(c), timeouts + 1)
        BY <2>1, <2>3, AtMostMore DEF Bounded
      <4> QED BY <2>1, <3>2, <4>1, AtMostSubset
    <3> QED BY <3>1, <3>2
  <2> QED BY <2>2, <2>3
<1> QED BY <1>2, <1>3, <1>4, <1>5

LEMMA NobodyQueued ==
  ASSUME TypeOK
  PROVE  NoCall \notin ToSet(waiting) /\ NoCall \notin ToSet(queue)
<1>1. \A s \in Seq(Call) : NoCall \notin ToSet(s)
  <2> SUFFICES ASSUME NEW s \in Seq(Call), NEW i \in DOMAIN s
               PROVE  s[i] # NoCall
    BY DEF ToSet
  <2>1. s[i] \in Call
    OBVIOUS
  <2> QED BY <2>1, WorkerAssumption
<1>2. waiting \in Seq(Call) /\ queue \in Seq(Call)
  BY DEF TypeOK
<1> QED BY <1>1, <1>2

LEMMA StopStep ==
  ASSUME Inv, LoopEnds \/ StopsUnexpectedly
  PROVE  Inv'
<1> USE DEF Inv
<1>1. /\ UNCHANGED <<opener, ready, handles, caller, waiting, backlog, answer, report,
                     written, timeouts, dropped>>
      /\ worker' = "stopped" /\ serving' = NoCall /\ outcome' = <<>>
      /\ submitting' = FALSE /\ queue' = <<>> /\ late' = {}
  BY DEF LoopEnds, StopsUnexpectedly, Stops, opening
<1>2. \A c \in Call : /\ Carried(c)' \subseteq Carried(c) /\ LateOf(c)' \subseteq LateOf(c)
                      /\ Later(c)' \subseteq Later(c)
  BY <1>1 DEF Carried, LateOf, Later
<1>3. TypeOK'
  <2>1. /\ <<>> \in Seq(Call) /\ <<>> \in Seq(Outcome) /\ Len(<<>>) <= Capacity
        /\ {} \subseteq Call \X Nat
    BY WorkerAssumption
  <2> QED BY <1>1, <2>1 DEF TypeOK
<1>4. OnePlace'
  <2>1. Distinct(<<>>) /\ ToSet(<<>>) = {} /\ NoCall \notin ToSet(waiting)
    BY NobodyQueued DEF Distinct, ToSet
  <2> QED BY <1>1, <2>1, WorkerAssumption DEF OnePlace
<1> HIDE DEF Inv
<1>5. NothingEarly' /\ OnlyApplied' /\ Truth' /\ Bounded'
  BY <1>1, <1>2, LessStep
<1> QED BY <1>3, <1>4, <1>5 DEF Inv

LEMMA LateWriteStep ==
  ASSUME Inv, NEW w \in late, LateWrite(w)
  PROVE  Inv'
<1> USE DEF Inv
<1>1. /\ UNCHANGED <<opener, ready, handles, caller, waiting, queue, worker, serving,
                     outcome, submitting, backlog, answer, report, timeouts, dropped>>
      /\ late' = late \ {w}
      /\ written' = [written EXCEPT ![w[1]] = @ \cup {w[2]}]
  BY DEF LateWrite, opening, channel, thread
<1>2. w[1] \in Call /\ w[2] \in Nat
  BY DEF TypeOK
<1>3. /\ written' \in [Call -> SUBSET Nat]
      /\ \A c \in Call : written'[c] = IF c = w[1] THEN written[c] \cup {w[2]} ELSE written[c]
  BY <1>1, <1>2 DEF TypeOK
<1>4. \A c \in Call : LateOf(c)' \subseteq LateOf(c)
  BY <1>1 DEF LateOf
<1>5. w[2] \in LateOf(w[1])
  BY DEF LateOf
<1>6. \A c \in Call : Carried(c)' \subseteq Carried(c) /\ Later(c)' \subseteq Later(c)
  BY <1>1, <1>3, <1>4, <1>5 DEF Carried, Later
<1>7. TypeOK'
  BY <1>1, <1>3 DEF TypeOK, Executing, Turn
<1>8. OnePlace'
  BY <1>1 DEF OnePlace
<1> HIDE DEF Inv
<1>9. NothingEarly' /\ OnlyApplied' /\ Truth' /\ Bounded'
  BY <1>1, <1>4, <1>6, LessStep
<1> QED BY <1>7, <1>8, <1>9 DEF Inv

\* The request at the head of the channel: nothing of it is written.
LEMMA TakeStep ==
  ASSUME Inv, Take
  PROVE  Inv'
<1> USE DEF Inv
<1>1. /\ UNCHANGED <<opener, ready, handles, caller, waiting, outcome, submitting, backlog,
                     answer, report, late, written, timeouts, dropped>>
      /\ worker = "idle" /\ queue # <<>> /\ worker' = "busy"
      /\ serving' = Head(queue) /\ queue' = Tail(queue)
  BY DEF Take, MayTake, opening, history
<1>2. /\ serving' \in Call /\ serving' \in ToSet(queue)
      /\ queue' \in Seq(Call) /\ Distinct(queue') /\ ToSet(queue') = ToSet(queue) \ {serving'}
      /\ Len(queue') < Len(queue)
  BY <1>1, Leaving DEF TypeOK, OnePlace
<1>3. ~submitting
  BY <1>1 DEF TypeOK, Executing
<1>4. TypeOK'
  <2>1. Len(queue') <= Capacity
    <3>1. Capacity \in Nat /\ queue \in Seq(Call) /\ Len(queue) <= Capacity
      BY WorkerAssumption DEF TypeOK
    <3>2. Len(queue) \in Nat /\ Len(queue') \in Nat
      BY <1>2, <3>1
    <3> QED BY <1>2, <3>1, <3>2
  <2>2. serving' # NoCall
    BY <1>2, WorkerAssumption
  <2> QED BY <1>1, <1>2, <1>3, <2>1, <2>2 DEF TypeOK
<1>5. OnePlace'
  BY <1>1, <1>2 DEF OnePlace
<1>6. \A c \in Call : c = serving' => answer[c] = Nothing /\ Carried(c) = {}
  BY <1>2 DEF NothingEarly
<1>7. NothingEarly'
  BY <1>1, <1>2, <1>6, Kept DEF NothingEarly
<1>8. OnlyApplied'
  BY <1>1, <1>3, Kept DEF OnlyApplied
<1>9. Truth'
  <2>1. \A c \in Call : c = serving' => Truthful(c, outcome)'
    BY <1>1, <1>6, Kept DEF Truthful
  <2> QED BY <1>1, <2>1, Kept DEF Truth, Truthful
<1>10. Bounded'
  BY <1>1, <1>3, Kept, LaterKept DEF Bounded
<1> QED BY <1>4, <1>5, <1>7, <1>8, <1>9, <1>10

\* The call that is served is answered, unless its future was dropped.
LEMMA RespondStep ==
  ASSUME Inv, worker = "busy", ~submitting, backlog' \in 0 .. MaxNotifications,
         NEW r \in Seq(Served), \A c \in Call : c = serving => Truthful(c, r),
         Respond(r)
  PROVE  Inv'
<1> USE DEF Inv
<1>1. /\ UNCHANGED <<opener, ready, handles, caller, waiting, queue, submitting, report,
                     late, written, timeouts, dropped>>
      /\ worker' = "idle" /\ serving' = NoCall /\ outcome' = <<>>
  BY DEF Respond, opening, channel, history
<1>2. serving \in Call /\ serving' \notin Call
  BY <1>1, WorkerAssumption DEF TypeOK
<1>3. \A c \in Call : answer'[c] = answer[c] \/ (c = serving /\ answer'[c] = r)
  <2>1. answer \in [Call -> Seq(Outcome)]
    BY DEF TypeOK
  <2>2. answer' = answer \/ answer' = [answer EXCEPT ![serving] = r]
    BY DEF Respond
  <2> HIDE DEF Inv
  <2> QED BY <1>2, <2>1, <2>2
<1>4. TypeOK'
  <2>1. Seq(Served) \subseteq Seq(Outcome) /\ <<>> \in Seq(Outcome)
    BY DEF Served
  <2>2. answer' \in [Call -> Seq(Outcome)]
    BY <1>2, <2>1 DEF Respond, TypeOK
  <2> QED BY <1>1, <2>1, <2>2 DEF TypeOK
<1>5. OnePlace'
  <2>1. NoCall \notin ToSet(waiting) /\ NoCall \notin ToSet(queue)
    BY NobodyQueued
  <2> QED BY <1>1, <1>2, <2>1 DEF OnePlace
<1>6. NothingEarly'
  <2>1. \A c \in Call : caller[c] = "new" \/ c \in ToSet(waiting) \/ c \in ToSet(queue) => c # serving
    BY DEF OnePlace
  <2> QED BY <1>1, <1>2, <1>3, <2>1, Kept DEF NothingEarly
<1>7. OnlyApplied'
  BY <1>1, Kept DEF OnlyApplied
<1>8. Truth'
  <2>1. outcome' \in Seq(Served)
    <3>1. <<>> \in Seq(Served)
      OBVIOUS
    <3> QED BY <1>1, <3>1
  <2>2. ASSUME NEW c \in Call
        PROVE  answer'[c] \in Seq(Served) /\ Truthful(c, answer[c])'
    <3>1. CASE answer'[c] = answer[c]
      BY <1>1, <3>1, Kept DEF Truth, Truthful
    <3>2. CASE c = serving /\ answer'[c] = r
      BY <1>1, <3>2, Kept DEF Truthful
    <3> QED BY <1>3, <3>1, <3>2
  <2>3. \A c \in Call :
          /\ Truthful(c, report[c])'
          /\ "disconnected" \in ToSet(report'[c]) => Carried(c)' = {}
    BY <1>1, Kept DEF Truth, Truthful
  <2> QED BY <1>1, <1>2, <2>1, <2>2, <2>3 DEF Truth
<1>9. Bounded'
  BY <1>1, <1>2, Kept, LaterKept DEF Bounded
<1> QED BY <1>4, <1>5, <1>6, <1>7, <1>8, <1>9

LEMMA ServeQueryStep ==
  ASSUME Inv, ServeQuery
  PROVE  Inv'
<1>1. PICK f \in {"observed", "failed"} : Respond(<<f>>)
  BY DEF ServeQuery
<1>2. PICK r : r = <<f>>
  OBVIOUS
<1>3. r \in Seq(Served)
  BY <1>2 DEF Served, Outcome
<1>4. worker = "busy" /\ ~submitting /\ backlog' \in 0 .. MaxNotifications
  <2>1. 0 \in 0 .. MaxNotifications
    BY WorkerAssumption
  <2> QED BY <2>1 DEF ServeQuery, Inv, TypeOK, Executing
<1>5. \A c \in Call : c = serving => Truthful(c, r)
  BY DEF ServeQuery, Inv, OnlyApplied, Truthful
<1> QED BY <1>1, <1>2, <1>3, <1>4, <1>5, RespondStep

LEMMA FinishPlanStep ==
  ASSUME Inv, FinishPlan
  PROVE  Inv'
<1>1. worker = "busy" /\ ~submitting /\ backlog' \in 0 .. MaxNotifications
  BY DEF FinishPlan, Inv, TypeOK, Executing
<1>2. outcome \in Seq(Served) /\ \A c \in Call : c = serving => Truthful(c, outcome)
  BY DEF Inv, Truth
<1> QED BY <1>1, <1>2, RespondStep DEF FinishPlan

\* What it means that an operation is reported.
LEMMA Reported ==
  ASSUME Inv, NEW o \in Served, Reports(o), Executing
  PROVE  /\ submitting' = FALSE
         /\ outcome' \in Seq(Served) /\ outcome' \in Seq(Outcome)
         /\ Turn \in Nat /\ Turn \notin DOMAIN outcome
         /\ DOMAIN outcome' = DOMAIN outcome \cup {Turn} /\ outcome'[Turn] = o
         /\ \A k \in DOMAIN outcome : outcome'[k] = outcome[k]
<1>1. outcome \in Seq(Served)
  BY DEF Inv, Truth
<1>2. /\ Append(outcome, o) \in Seq(Served) /\ DOMAIN outcome = 1 .. Len(outcome)
      /\ Len(outcome) \in Nat
      /\ DOMAIN Append(outcome, o) = 1 .. Len(outcome) + 1
      /\ Append(outcome, o)[Len(outcome) + 1] = o
      /\ \A k \in 1 .. Len(outcome) : Append(outcome, o)[k] = outcome[k]
  BY <1>1
<1>3. Served \subseteq Outcome
  BY DEF Served
<1>4. 1 .. Len(outcome) + 1 = (1 .. Len(outcome)) \cup {Len(outcome) + 1}
  BY <1>2
<1> QED BY <1>2, <1>3, <1>4 DEF Reports, Turn

\* The conjuncts that a step inside a plan cannot disturb.
LEMMA WithinPlan ==
  ASSUME Inv, worker = "busy", submitting' \in BOOLEAN,
         UNCHANGED <<opener, ready, handles, caller, waiting, queue, worker, serving,
                     answer, report, dropped>>,
         backlog' \in 0 .. MaxNotifications, timeouts' \in 0 .. MaxTimeouts,
         outcome' \in Seq(Served), outcome' \in Seq(Outcome),
         submitting' => Executing /\ Turn' \in DOMAIN Plan[serving] /\ Kind[serving] = "apply",
         written' \in [Call -> SUBSET Nat], late' \subseteq Call \X Nat,
         \A c \in Call :
           IF c = serving
           THEN /\ Carried(c)' \subseteq DOMAIN outcome' /\ Truthful(c, outcome)'
                /\ Kind[c] # "apply" => Carried(c)' = {}
           ELSE Carried(c)' = Carried(c)
  PROVE  TypeOK' /\ OnePlace' /\ NothingEarly' /\ OnlyApplied' /\ Truth'
<1> USE DEF Inv
<1>1. TypeOK'
  BY DEF TypeOK, Executing
<1>2. OnePlace'
  BY DEF OnePlace
<1>3. \A c \in Call : caller[c] = "new" \/ c \in ToSet(waiting) \/ c \in ToSet(queue) => c # serving
  BY DEF OnePlace
<1>4. NothingEarly'
  BY <1>3 DEF NothingEarly
<1>5. OnlyApplied'
  BY DEF OnlyApplied
<1>6. ASSUME NEW c \in Call
      PROVE  /\ answer'[c] \in Seq(Served)
             /\ Truthful(c, answer[c])' /\ Truthful(c, report[c])'
             /\ "disconnected" \in ToSet(report'[c]) => Carried(c)' = {}
  <2>1. CASE c = serving
    <3>1. answer[c] = <<>> /\ report[c] = <<>>
      BY <2>1 DEF NothingEarly, OnePlace, Nothing
    <3> QED BY <3>1 DEF Truth, Truthful, ToSet
  <2>2. CASE c # serving
    BY <2>2 DEF Truth, Truthful
  <2> QED BY <2>1, <2>2
<1>7. Truth'
  BY <1>6 DEF Truth
<1> QED BY <1>1, <1>2, <1>4, <1>5, <1>7

\* An operation is reported without a write, or its write is submitted for a
\* caller that waits.
LEMMA DecideStep ==
  ASSUME Inv, Decide
  PROVE  Inv'
<1>1. /\ Executing /\ worker = "busy" /\ Turn \in DOMAIN Plan[serving] /\ ~submitting
      /\ backlog' = 0
      /\ UNCHANGED <<opener, ready, handles, caller, waiting, queue, worker, serving, answer,
                     report, late, written, timeouts, dropped>>
  BY DEF Decide, Executing, opening, channel, history
<1>2. \/ \E o \in Served : Reports(o)
      \/ /\ Kind[serving] = "apply" /\ caller[serving] # "dropped"
         /\ submitting' = TRUE /\ outcome' = outcome
  BY DEF Decide, Cancelled, Served, Outcome
<1>3. /\ backlog' \in 0 .. MaxNotifications /\ timeouts' \in 0 .. MaxTimeouts
      /\ written' \in [Call -> SUBSET Nat] /\ late' \subseteq Call \X Nat
  <2>1. 0 \in 0 .. MaxNotifications
    BY WorkerAssumption
  <2> QED BY <1>1, <2>1 DEF Inv, TypeOK
<1>4. /\ submitting' \in BOOLEAN
      /\ outcome' \in Seq(Served) /\ outcome' \in Seq(Outcome)
      /\ submitting' => /\ Executing /\ Turn' \in DOMAIN Plan[serving]
                        /\ Kind[serving] = "apply" /\ caller[serving] # "dropped"
      /\ DOMAIN outcome \subseteq DOMAIN outcome'
      /\ \A k \in DOMAIN outcome : outcome'[k] = outcome[k]
  <2>1. CASE \E o \in Served : Reports(o)
    BY <1>1, <2>1, Reported
  <2>2. CASE /\ Kind[serving] = "apply" /\ caller[serving] # "dropped"
             /\ submitting' = TRUE /\ outcome' = outcome
    BY <1>1, <2>2 DEF Inv, Truth, TypeOK, Turn
  <2> QED BY <1>2, <2>1, <2>2
<1>5. ASSUME NEW c \in Call
      PROVE  IF c = serving
             THEN /\ Carried(c)' \subseteq DOMAIN outcome' /\ Truthful(c, outcome)'
                  /\ Kind[c] # "apply" => Carried(c)' = {}
             ELSE Carried(c)' = Carried(c)
  <2>1. Carried(c)' = Carried(c)
    BY <1>1, Kept
  <2>2. ASSUME c = serving
        PROVE  /\ Carried(c) \subseteq DOMAIN outcome /\ Truthful(c, outcome)
               /\ Kind[c] # "apply" => Carried(c) = {}
    BY <2>2 DEF Inv, NothingEarly, Truth, OnlyApplied
  <2> QED BY <1>4, <2>1, <2>2 DEF Truthful
<1>6. Bounded'
  BY <1>1, <1>4, Kept, LaterKept DEF Inv, Bounded
<1>7. TypeOK' /\ OnePlace' /\ NothingEarly' /\ OnlyApplied' /\ Truth'
  BY <1>1, <1>3, <1>4, <1>5, WithinPlan
<1> QED BY <1>6, <1>7 DEF Inv

\* What a write adds, whether it arrives at once, late or never.
LEMMA SubmittedStep ==
  ASSUME Inv, Executing, submitting, NEW o \in Served, Reports(o),
         UNCHANGED <<opener, ready, handles, caller, waiting, queue, worker, serving, backlog,
                     answer, report, dropped>>,
         timeouts' \in 0 .. MaxTimeouts, timeouts <= timeouts',
         written' \in [Call -> SUBSET Nat], late' \subseteq Call \X Nat,
         \A c \in Call :
           IF c = serving
           THEN /\ Carried(c)' \subseteq Carried(c) \cup {Turn}
                /\ o \in {"failed", "cancelled", "satisfied"} => Carried(c)' = Carried(c)
                /\ Later(c)' \subseteq Later(c) \cup {Turn}
                /\ AtMost(LateOf(c)', timeouts')
           ELSE /\ Carried(c)' = Carried(c) /\ LateOf(c)' = LateOf(c)
                /\ Later(c)' = Later(c)
  PROVE  Inv'
<1>1. /\ submitting' = FALSE
      /\ outcome' \in Seq(Served) /\ outcome' \in Seq(Outcome)
      /\ Turn \notin DOMAIN outcome
      /\ DOMAIN outcome' = DOMAIN outcome \cup {Turn} /\ outcome'[Turn] = o
      /\ \A k \in DOMAIN outcome : outcome'[k] = outcome[k]
  BY Reported
<1>2. /\ worker = "busy" /\ backlog' \in 0 .. MaxNotifications
      /\ Kind[serving] = "apply"
  BY DEF Inv, TypeOK, OnlyApplied, Executing
<1>3. ASSUME NEW c \in Call
      PROVE  IF c = serving
             THEN /\ Carried(c)' \subseteq DOMAIN outcome' /\ Truthful(c, outcome)'
                  /\ Kind[c] # "apply" => Carried(c)' = {}
             ELSE Carried(c)' = Carried(c)
  <2>1. CASE c = serving
    <3>1. Carried(c) \subseteq DOMAIN outcome /\ Truthful(c, outcome)
      BY <2>1 DEF Inv, NothingEarly, Truth
    <3>2. Carried(c)' \subseteq DOMAIN outcome'
      BY <1>1, <2>1, <3>1
    <3>3. ASSUME NEW k \in DOMAIN outcome', outcome'[k] \in {"failed", "cancelled", "satisfied"}
          PROVE  k \notin Carried(c)'
      <4>1. CASE k = Turn
        BY <1>1, <2>1, <3>1, <3>3, <4>1
      <4>2. CASE k # Turn
        BY <1>1, <2>1, <3>1, <3>3, <4>2 DEF Truthful
      <4> QED BY <4>1, <4>2
    <3> QED BY <1>2, <2>1, <3>2, <3>3 DEF Truthful
  <2> QED BY <2>1
<1>4. Bounded'
  <2> SUFFICES ASSUME NEW c \in Call
               PROVE  /\ AtMost(LateOf(c)', timeouts')
                      /\ caller[c] = "dropped" => AtMost(Later(c)', timeouts' + 1)
    BY <1>1 DEF Bounded
  <2>1. /\ timeouts \in Nat /\ timeouts' \in Nat /\ timeouts + 1 \in Nat
        /\ timeouts' + 1 \in Nat /\ timeouts + 1 <= timeouts' + 1
    <3>1. MaxTimeouts \in Nat /\ timeouts \in 0 .. MaxTimeouts
      BY WorkerAssumption DEF Inv, TypeOK
    <3>2. timeouts \in Nat /\ timeouts' \in Nat
      BY <3>1
    <3>3. timeouts <= timeouts'
      OBVIOUS
    <3> QED BY <3>2, <3>3, OneMore, Zenon
  <2>2. AtMost(LateOf(c), timeouts)
    BY DEF Inv, Bounded
  <2>3. CASE c = serving
    <3>1. ASSUME caller[c] = "dropped"
          PROVE  AtMost(Later(c)', timeouts' + 1)
      <4>1. AtMost(Later(c), timeouts)
        BY <2>3, <3>1 DEF Inv, Bounded
      <4>2. AtMost(Later(c) \cup {Turn}, timeouts + 1)
        BY <2>1, <4>1, AtMostAdded
      <4>3. AtMost(Later(c)', timeouts + 1)
        BY <2>1, <2>3, <4>2, AtMostSubset
      <4> QED BY <2>1, <4>3, AtMostMore
    <3> QED BY <2>3, <3>1
  <2>4. CASE c # serving
    <3>1. AtMost(LateOf(c)', timeouts')
      <4>1. AtMost(LateOf(c), timeouts') /\ LateOf(c)' = LateOf(c)
        BY <2>1, <2>2, <2>4, AtMostMore
      <4> QED BY <4>1
    <3>2. ASSUME caller[c] = "dropped"
          PROVE  AtMost(Later(c)', timeouts' + 1)
      BY <2>1, <2>4, <3>2, AtMostMore DEF Inv, Bounded
    <3> QED BY <3>1, <3>2
  <2> QED BY <2>3, <2>4
<1>5. TypeOK' /\ OnePlace' /\ NothingEarly' /\ OnlyApplied' /\ Truth'
  BY <1>1, <1>2, <1>3, WithinPlan
<1> QED BY <1>4, <1>5 DEF Inv

LEMMA InPlan ==
  ASSUME Inv, Executing
  PROVE  serving \in Call /\ Turn \in Nat
<1>1. outcome \in Seq(Outcome) /\ serving \in Call \cup {NoCall} /\ serving # NoCall
  BY DEF Inv, TypeOK, Executing
<1>2. Len(outcome) \in Nat
  BY <1>1
<1> QED BY <1>1, <1>2 DEF Turn

LEMMA WriteStep ==
  ASSUME Inv, Write
  PROVE  Inv'
<1>1. /\ Executing /\ submitting /\ serving \in Call /\ Turn \in Nat
      /\ written' = [written EXCEPT ![serving] = @ \cup {Turn}]
      /\ UNCHANGED <<opener, ready, handles, caller, waiting, queue, worker, serving, backlog,
                     answer, report, late, timeouts, dropped>>
  BY InPlan DEF Write, opening, channel
<1>2. PICK o \in {"done", "unknown"} : Reports(o)
  BY DEF Write
<1>3. /\ written' \in [Call -> SUBSET Nat]
      /\ \A c \in Call : written'[c] = IF c = serving THEN written[c] \cup {Turn} ELSE written[c]
  BY <1>1 DEF Inv, TypeOK
<1>4. \A c \in Call : LateOf(c)' = LateOf(c) /\ AtMost(LateOf(c), timeouts)
  BY <1>1 DEF LateOf, Inv, Bounded
<1>5. \A c \in Call :
        IF c = serving
        THEN /\ Carried(c)' \subseteq Carried(c) \cup {Turn}
             /\ o \in {"failed", "cancelled", "satisfied"} => Carried(c)' = Carried(c)
             /\ Later(c)' \subseteq Later(c) \cup {Turn}
             /\ AtMost(LateOf(c)', timeouts')
        ELSE /\ Carried(c)' = Carried(c) /\ LateOf(c)' = LateOf(c)
             /\ Later(c)' = Later(c)
  BY <1>1, <1>3, <1>4 DEF Carried, Later
<1>6. /\ o \in Served /\ timeouts' \in 0 .. MaxTimeouts /\ timeouts <= timeouts'
      /\ late' \subseteq Call \X Nat
  <2>1. timeouts \in 0 .. MaxTimeouts /\ MaxTimeouts \in Nat /\ timeouts' = timeouts
    BY <1>1, WorkerAssumption DEF Inv, TypeOK
  <2>2. timeouts' \in 0 .. MaxTimeouts /\ timeouts <= timeouts'
    BY <2>1
  <2>3. o \in Served
    BY DEF Served, Outcome
  <2>4. late' \subseteq Call \X Nat
    BY <1>1 DEF Inv, TypeOK
  <2> QED BY <2>2, <2>3, <2>4
<1> QED BY <1>1, <1>2, <1>3, <1>5, <1>6, SubmittedStep

LEMMA WriteFailsStep ==
  ASSUME Inv, WriteFails
  PROVE  Inv'
<1>1. /\ Executing /\ submitting /\ serving \in Call /\ Turn \in Nat
      /\ UNCHANGED <<opener, ready, handles, caller, waiting, queue, worker, serving, backlog,
                     answer, report, written, dropped>>
  BY InPlan DEF WriteFails, opening, channel
<1>2. /\ timeouts \in Nat /\ timeouts \in 0 .. MaxTimeouts /\ MaxTimeouts \in Nat
      /\ written' \in [Call -> SUBSET Nat] /\ late \subseteq Call \X Nat
      /\ \A c \in Call : AtMost(LateOf(c), timeouts)
  <2>1. timeouts \in 0 .. MaxTimeouts /\ MaxTimeouts \in Nat
    BY WorkerAssumption DEF Inv, TypeOK
  <2>2. timeouts \in Nat
    BY <2>1
  <2> QED BY <1>1, <2>1, <2>2 DEF Inv, TypeOK, Bounded
<1>3. CASE Reports("failed") /\ UNCHANGED <<late, timeouts>>
  <2>1. "failed" \in Served /\ timeouts' \in 0 .. MaxTimeouts /\ timeouts <= timeouts'
    BY <1>2, <1>3 DEF Served, Outcome
  <2>2. \A c \in Call : /\ Carried(c)' = Carried(c) /\ LateOf(c)' = LateOf(c)
                        /\ Later(c)' = Later(c)
    BY <1>1, <1>3, Kept, LaterKept
  <2>3. \A c \in Call : AtMost(LateOf(c)', timeouts')
    BY <1>2, <1>3, <2>2
  <2>4. late' \subseteq Call \X Nat
    BY <1>2, <1>3
  <2>5. PICK o \in Served : o = "failed"
    BY <2>1
  <2>6. Reports(o)
    BY <1>3, <2>5
  <2> QED BY <1>1, <1>2, <2>1, <2>2, <2>3, <2>4, <2>6, SubmittedStep
<1>4. CASE /\ timeouts < MaxTimeouts /\ timeouts' = timeouts + 1
           /\ late' = late \cup {<<serving, Turn>>} /\ Reports("unknown")
  <2>1. "unknown" \in Served /\ timeouts' \in 0 .. MaxTimeouts /\ timeouts <= timeouts'
    BY <1>2, <1>4 DEF Served, Outcome
  <2>2. \A c \in Call : LateOf(c)' = IF c = serving THEN LateOf(c) \cup {Turn} ELSE LateOf(c)
    <3> SUFFICES ASSUME NEW c \in Call, NEW k
                 PROVE  k \in LateOf(c)' <=> k \in LateOf(c) \/ (c = serving /\ k = Turn)
      OBVIOUS
    <3>1. k \in LateOf(c) <=> \E w \in late : w[1] = c /\ w[2] = k
      BY DEF LateOf
    <3>2. k \in LateOf(c)' <=> \E w \in late' : w[1] = c /\ w[2] = k
      BY DEF LateOf
    <3>3. <<serving, Turn>>[1] = serving /\ <<serving, Turn>>[2] = Turn
      OBVIOUS
    <3> QED BY <1>4, <3>1, <3>2, <3>3
  <2>3. \A c \in Call :
          IF c = serving
          THEN Carried(c)' \subseteq Carried(c) \cup {Turn} /\ Later(c)' \subseteq Later(c) \cup {Turn}
          ELSE Carried(c)' = Carried(c) /\ Later(c)' = Later(c)
    BY <1>1, <2>2 DEF Carried, Later
  <2>4. ASSUME NEW c \in Call, c = serving
        PROVE  AtMost(LateOf(c)', timeouts')
    <3>1. AtMost(LateOf(c) \cup {Turn}, timeouts + 1)
      BY <1>2, AtMostAdded
    <3> QED BY <1>4, <2>2, <2>4, <3>1
  <2>5. late' \subseteq Call \X Nat
    BY <1>1, <1>2, <1>4
  <2>6. PICK o \in Served : o = "unknown"
    BY <2>1
  <2>7. Reports(o) /\ o \notin {"failed", "cancelled", "satisfied"}
    BY <1>4, <2>6
  <2> QED BY <1>1, <1>2, <2>1, <2>2, <2>3, <2>4, <2>5, <2>7, SubmittedStep
<1> QED BY <1>3, <1>4 DEF WriteFails, Unconfirmed

LEMMA InvStep ==
  ASSUME Inv, [Next]_vars
  PROVE  Inv'
<1>1. CASE Quiet
  BY <1>1, QuietStep
<1>2. CASE \E c \in Call : Start(c) \/ Wake(c) \/ Drop(c)
  BY <1>2, StartStep, WakeStep, DropStep
<1>3. CASE Accept \/ Take
  BY <1>3, AcceptStep, TakeStep
<1>4. CASE Serve
  BY <1>4, ServeQueryStep, DecideStep, WriteStep, WriteFailsStep, FinishPlanStep DEF Serve
<1>5. CASE LoopEnds \/ StopsUnexpectedly
  BY <1>5, StopStep
<1>6. CASE \E w \in late : LateWrite(w)
  BY <1>6, LateWriteStep
<1> QED BY <1>1, <1>2, <1>3, <1>4, <1>5, <1>6 DEF Next, Setup, Quiet

-----------------------------------------------------------------------------
(* The theorems. *)

\* The worker, its channel and its callers keep the invariant above.
THEOREM InvariantHolds == Spec => []Inv
<1>1. Init => Inv
  BY InitInv
<1>2. Inv /\ [Next]_vars => Inv'
  BY InvStep
<1> QED BY <1>1, <1>2, PTL DEF Spec

\* Every variable keeps its type: a call is served exactly while the thread is
\* busy, and a write is under way only for an operation of a plan.
THEOREM TypeCorrect == Spec => []TypeOK
<1>1. Inv => TypeOK
  BY DEF Inv
<1> QED BY <1>1, InvariantHolds, PTL

\* A caller that is told of a plan that the worker stopped before accepting it
\* (worker.rs, failed_report) can rely on it: nothing of it was written, or will be.
THEOREM DisconnectedIsUnwritten == Spec => []DisconnectedMeansUnwritten
<1>1. Inv => DisconnectedMeansUnwritten
  BY DEF Inv, Truth, Carried, LateOf, DisconnectedMeansUnwritten
<1> QED BY <1>1, InvariantHolds, PTL

\* An operation reported as failed, cancelled or already satisfied is not written,
\* neither before the report nor after it, whatever timed out on its way.
THEOREM FailedIsUnwritten == Spec => []FailedIsNeverWritten
<1>1. Inv => FailedIsNeverWritten
  <2> SUFFICES ASSUME Inv, NEW c \in Call, NEW k \in DOMAIN report[c],
                      report[c][k] \in {"failed", "cancelled", "satisfied"}
               PROVE  k \notin written[c] /\ <<c, k>> \notin late
    BY DEF FailedIsNeverWritten
  <2>1. k \notin Carried(c)
    BY DEF Inv, Truth, Truthful
  <2>2. ASSUME <<c, k>> \in late
        PROVE  k \in LateOf(c)
    BY <2>2 DEF LateOf
  <2> QED BY <2>1, <2>2 DEF Carried
<1> QED BY <1>1, InvariantHolds, PTL

\* After its future is dropped, one operation of a plan may still be written, and
\* those that timed out before: the executor asks before each (is_closed).
THEOREM OneWriteAfterDrop == Spec => []AtMostOneWriteAfterDrop
<1>1. Inv => AtMostOneWriteAfterDrop
  <2> SUFFICES ASSUME Inv, NEW c \in Call, caller[c] = "dropped"
               PROVE  Cardinality(written[c] \ dropped[c]) <= 1 + timeouts
    BY DEF AtMostOneWriteAfterDrop
  <2>1. timeouts \in Nat /\ timeouts + 1 \in Nat /\ timeouts <= timeouts + 1
    BY TimeoutsNat DEF Inv
  <2>2. AtMost(Later(c), timeouts + 1)
    BY <2>1, AtMostMore DEF Inv, Bounded
  <2>3. AtMost(written[c] \ dropped[c], timeouts + 1)
    BY <2>1, <2>2, AtMostSubset DEF Later
  <2> QED BY <2>1, <2>3 DEF AtMost
<1> QED BY <1>1, InvariantHolds, PTL
=============================================================================
