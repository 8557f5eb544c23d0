------------------------------- MODULE AddressProofs -------------------------------
(***************************************************************************)
(* Proofs about what Executor makes of the addresses of the links, for any  *)
(* plans, lists and peers: what a cascade deletes goes in the plan too, a   *)
(* report without failures is the truth when nobody else was around, and a  *)
(* removal or replacement is only written when its prefix group is as the   *)
(* plan and its own acknowledged writes left it.                            *)
(*                                                                          *)
(* Two invariants carry them, both over the types of ExecutorProofs:        *)
(* AddressInv says what the executor knows of a link between an observation *)
(* and the report of a write, while nobody intervenes; Known relates what   *)
(* it expects of the prefix groups to the plan, whoever intervenes.         *)
(* A third, Foreseen, says of links without peers that a write is found as  *)
(* the executor expects it.                                                 *)
(***************************************************************************)
EXTENDS ExecutorProofs

-----------------------------------------------------------------------------
(* The first invariant. *)

\* With nobody else around since it was taken, the observation is what the kernel
\* has; it is given up before a write.
Fresh ==
  /\ phase \in Underway => current = NoObservation
  /\ ~preview /\ meddled = seen => current \in {NoObservation, Snapshot}

\* Then the message that was decided on names an entry of the link, and a primary
\* is only removed when the plan goes on to remove the secondaries of its group.
Decided ==
  phase \in {"confirm", "submitted"} /\ meddled = seen =>
    LET l == Op.target.link
    IN  /\ Op.kind = "replace" => Named(list[l], record) # {}
        /\ Op.kind = "remove" =>
             /\ Complete(list[l])
             /\ \A e \in Named(list[l], record), x \in ToSet(list[l]) :
                  ~e.secondary /\ x.secondary /\ x.group = e.group =>
                    \E j \in DOMAIN plan : j > At /\ Removes(j, l, x.addr)

\* The operations that have taken effect, as far as they go.
Carried == IF phase = "written" THEN At ELSE Len(outcome)

\* With nobody around and no failure, a link has the addresses intended by then,
\* but for some that a cascade deleted ahead of their own removal.
OnCourse ==
  ~preview /\ meddled = 0 /\ DOMAIN outcome \subseteq Eligible =>
    \A l \in Link :
      /\ Addresses(list[l]) \subseteq IntendedUpTo(Carried, l)
      /\ \A a \in IntendedUpTo(Carried, l) \ Addresses(list[l]) :
           \E j \in DOMAIN plan : j > Carried /\ Removes(j, l, a)

AddressInv == Typed /\ Fresh /\ Decided /\ NoCollateralLoss /\ OnCourse

-----------------------------------------------------------------------------
(* Observations that are fresh. *)

LEMMA SnapshotKept ==
  ASSUME UNCHANGED kernel
  PROVE  Snapshot' = Snapshot
BY DEF Snapshot, kernel

LEMMA FreshKept ==
  ASSUME Fresh, UNCHANGED <<kernel, call, current, meddled, seen>>,
         phase' \in Underway => phase \in Underway
  PROVE  Fresh'
BY SnapshotKept DEF Fresh, call

\* An observation or none.
LEMMA Renewed ==
  ASSUME UNCHANGED kernel, current' = NoObservation \/ (current' = Snapshot /\ phase' \notin Underway)
  PROVE  Fresh'
BY SnapshotKept DEF Fresh

LEMMA NoObservationIsNone == NoObservation \notin Observation
<1>1. "list" \notin DOMAIN NoObservation
  BY DEF NoObservation
<1>2. \A o \in Observation : "list" \in DOMAIN o
  BY DEF Observation
<1> QED BY <1>1, <1>2

LEMMA FreshDevice ==
  ASSUME Typed, Fresh, phase = "decide", ~preview, meddled = seen
  PROVE  /\ current = Snapshot /\ current \in Observation /\ At \in DOMAIN plan
         /\ Op \in Operation /\ Op.target.link \in Link
         /\ Device = Observed(list[Op.target.link])
         /\ current.complete[Op.target.link] = Complete(list[Op.target.link])
<1>1. current \in Observation /\ At \in DOMAIN plan /\ CallTyped
  BY DEF Typed, MemoryTyped, TurnTyped
<1>2. current # NoObservation
  BY <1>1, NoObservationIsNone
<1>3. current = Snapshot
  BY <1>2 DEF Fresh
<1>4. Op \in Operation /\ Op.target.link \in Link
  BY <1>1, OpTyped, Operations
<1> QED BY <1>1, <1>3, <1>4 DEF Snapshot, Device

\* What was decided to be written, or was found satisfied.
LEMMA VerdictMeans ==
  ASSUME NEW equal
  PROVE  /\ Verdict(equal) = "write" =>
              /\ GroupError = "none" /\ SatisfiedError(equal) = "none"
              /\ ~Satisfied(equal) /\ ~CascadeUncovered
         /\ Verdict(equal) = "satisfied" => GroupError = "none" /\ Satisfied(equal)
         /\ Verdict(equal) = "readonly" => Op.kind = "readonly"
<1>1. GroupError \in {"none", "QueryFailed", "StaleState"}
  BY DEF GroupError
<1>2. SatisfiedError(equal) \in {"none", "NotFound", "ApplyFailed"}
  BY DEF SatisfiedError
<1> QED BY <1>1, <1>2 DEF Verdict

\* The addresses of the device are then the link's.
LEMMA FreshAddresses ==
  ASSUME Typed, Fresh, phase = "decide", ~preview, meddled = seen, IsAddress(Op), GroupError = "none"
  PROVE  /\ Complete(list[Op.target.link])
         /\ ToSet(Device) = ToSet(list[Op.target.link])
         /\ Existing = {e \in ToSet(list[Op.target.link]) : e.addr = Op.addr}
<1> DEFINE l == Op.target.link
<1>1. /\ l \in Link /\ Device = Observed(list[l]) /\ current.complete[l] = Complete(list[l])
  BY FreshDevice
<1>2. Complete(list[l])
  BY <1>1 DEF GroupError
<1>3. ToSet(Device) = ToSet(list[l])
  <2>1. list[l] \in Seq(Entry)
    BY <1>1 DEF Typed, KernelTyped
  <2> HIDE DEF l
  <2> QED BY <1>1, <1>2, <2>1, Observes
<1> QED BY <1>2, <1>3 DEF Existing, Entries

LEMMA CoveredRemoval ==
  ASSUME NEW a, RemovalCovered(a)
  PROVE  \E j \in DOMAIN plan : j > At /\ Removes(j, Op.target.link, a)
BY DEF RemovalCovered, Removes

LEMMA DecideWriteDecided ==
  ASSUME Typed, Fresh, DecideWrite
  PROVE  Decided'
<1> DEFINE l == Op.target.link
<1>1. /\ phase = "decide" /\ ~preview /\ record' = RecordOf(Op, Existing)
      /\ UNCHANGED <<kernel, call, outcome, meddled, seen>>
  BY DEF DecideWrite, MayWrite
<1>2. PICK equal \in LifetimesEqual : Verdict(equal) = "write"
  BY DEF DecideWrite
<1>3. /\ GroupError = "none" /\ SatisfiedError(equal) = "none"
      /\ ~Satisfied(equal) /\ ~CascadeUncovered
  BY <1>2, VerdictMeans
<1>4. /\ list' = list /\ plan' = plan /\ At' = At /\ Op' = Op
      /\ meddled' = meddled /\ seen' = seen
  BY <1>1 DEF At, Op, kernel, call
<1>5. ASSUME meddled = seen, Op.kind \in {"replace", "remove"}
      PROVE  /\ Complete(list[l]) /\ ToSet(Device) = ToSet(list[l])
             /\ Existing = {e \in ToSet(list[l]) : e.addr = Op.addr}
             /\ \E e \in Existing : e.addr = record'.addr /\ e.group = record'.group
             /\ record'.addr = Op.addr
  <2>1. /\ Complete(list[l]) /\ ToSet(Device) = ToSet(list[l])
        /\ Existing = {e \in ToSet(list[l]) : e.addr = Op.addr}
    BY <1>1, <1>3, <1>5, FreshAddresses DEF IsAddress
  <2>2. Existing # {}
    BY <1>3, <1>5 DEF Satisfied, SatisfiedError
  <2>3. Op \in Operation /\ \A e \in Existing : e \in Entry /\ e.addr = Op.addr
    <3>1. CallTyped /\ At \in DOMAIN plan /\ current \in Observation
      BY <1>1 DEF Typed, TurnTyped, MemoryTyped
    <3> QED BY <3>1, OpTyped, ExistingTyped
  <2>4. /\ RecordOf(Op, Existing).addr = Op.addr
        /\ \E e \in Existing : /\ e.addr = RecordOf(Op, Existing).addr
                               /\ e.group = RecordOf(Op, Existing).group
    BY <1>5, <2>2, <2>3, RecordTyped
  <2> QED BY <1>1, <2>1, <2>4
<1>6. ASSUME meddled = seen, Op.kind = "replace"
      PROVE  Named(list[l], record') # {}
  BY <1>5, <1>6 DEF Named
<1>7. ASSUME meddled = seen, Op.kind = "remove",
             NEW e \in Named(list[l], record'), NEW x \in ToSet(list[l]),
             ~e.secondary, x.secondary, x.group = e.group
      PROVE  \E j \in DOMAIN plan : j > At /\ Removes(j, l, x.addr)
  <2>1. e \in Existing /\ x \in ToSet(Device)
    BY <1>5, <1>7 DEF Named
  <2>2. RemovalCovered(x.addr)
    BY <1>3, <1>7, <2>1 DEF CascadeUncovered
  <2> QED BY <2>2, CoveredRemoval
<1> HIDE DEF l
<1>8. l' = l
  BY <1>4 DEF l
<1>9. ASSUME meddled' = seen'
      PROVE  /\ Op'.kind = "replace" => Named(list'[l], record') # {}
             /\ Op'.kind = "remove" =>
                  /\ Complete(list'[l])
                  /\ \A e \in Named(list'[l], record'), x \in ToSet(list'[l]) :
                       ~e.secondary /\ x.secondary /\ x.group = e.group =>
                         \E j \in DOMAIN plan : j > At /\ Removes(j, l, x.addr)
  BY <1>4, <1>5, <1>6, <1>7, <1>9
<1> QED BY <1>4, <1>9 DEF Decided, Removes, l

LEMMA DecidedKept ==
  ASSUME Decided, UNCHANGED <<kernel, call, outcome, record, meddled, seen>>,
         phase' \in {"confirm", "submitted"} => phase \in {"confirm", "submitted"}
  PROVE  Decided'
<1>1. At' = At /\ Op' = Op /\ list' = list /\ plan' = plan
  BY DEF At, Op, kernel, call
<1> QED BY <1>1 DEF Decided, Removes

-----------------------------------------------------------------------------
(* Writes. *)

\* What a removal deletes, if nobody intervened, and a replacement leaves.
LEMMA WritesWhatWasDecided ==
  ASSUME Typed, Decided, Write, meddled = seen
  PROVE  LET l == Op.target.link
         IN  /\ Op.kind = "remove" =>
                  /\ Addresses(list'[l]) \subseteq Addresses(list[l])
                  /\ Op.addr \notin Addresses(list'[l])
                  /\ \A a \in Addresses(list[l]) \ Addresses(list'[l]) :
                       a = Op.addr \/ \E j \in DOMAIN plan : j > At /\ Removes(j, l, a)
             /\ Op.kind = "add" =>
                  Addresses(list'[l]) = Addresses(list[l]) \cup {Op.addr}
             /\ Op.kind \notin {"add", "remove"} => Addresses(list'[l]) = Addresses(list[l])
<1> DEFINE l == Op.target.link
           s == list[l]
<1>1. /\ phase = "submitted" /\ Accepts(s, Op, record)
      /\ list' = [list EXCEPT ![l] = Written(s, Op, record)]
  BY DEF Write
<1>2. /\ At \in DOMAIN plan /\ Op \in Operation /\ l \in Link
      /\ record \in [addr: Address, group: KernelGroup] /\ record.addr = Op.addr
      /\ KernelList(s) /\ list \in [Link -> Seq(Entry)]
  <2>1. At \in DOMAIN plan /\ CallTyped
    BY <1>1 DEF Typed, TurnTyped
  <2>2. Op \in Operation /\ l \in Link
    BY <2>1, OpTyped, Operations
  <2> QED BY <1>1, <2>1, <2>2 DEF Typed, WritingTyped, KernelTyped, KernelLike
<1>3. list'[l] = Written(s, Op, record)
  BY <1>1, <1>2
<1>4. /\ Op.kind = "replace" => Named(s, record) # {}
      /\ Op.kind = "remove" =>
           /\ Complete(s)
           /\ \A e \in Named(s, record), x \in ToSet(s) :
                ~e.secondary /\ x.secondary /\ x.group = e.group =>
                  \E j \in DOMAIN plan : j > At /\ Removes(j, l, x.addr)
  BY <1>1 DEF Decided
<1> HIDE DEF l, s
<1>5. CASE Op.kind = "remove"
  <2>1. PICK e \in Named(s, record) : Written(s, Op, record) = Delete(s, e)
    BY <1>1, <1>2, <1>5, WritesList DEF IsAddress
  <2>2. e \in ToSet(s) /\ e.addr = Op.addr
    BY <1>2, <2>1 DEF Named
  <2>3. /\ Addresses(Delete(s, e)) \subseteq Addresses(s)
        /\ \A a \in Addresses(s) \ Addresses(Delete(s, e)) :
             \/ a = e.addr
             \/ ~e.secondary /\ \E x \in ToSet(s) : x.addr = a /\ x.secondary /\ x.group = e.group
        /\ e.addr \notin Addresses(Delete(s, e))
    BY <1>2, <1>4, <1>5, <2>2, Deleted
  <2>4. \A a \in Addresses(s) \ Addresses(Delete(s, e)) :
          a = Op.addr \/ \E j \in DOMAIN plan : j > At /\ Removes(j, l, a)
    BY <1>4, <1>5, <2>1, <2>2, <2>3
  <2> QED BY <1>3, <1>5, <2>1, <2>2, <2>3, <2>4 DEF l, s
<1>6. CASE Op.kind = "add"
  <2>1. Addresses(Written(s, Op, record)) = Addresses(s) \cup {Op.addr}
    BY <1>1, <1>2, <1>6, WritesList DEF IsAddress
  <2> QED BY <1>3, <1>6, <2>1 DEF l, s
<1>7. CASE Op.kind = "replace"
  <2>1. Addresses(Written(s, Op, record)) = Addresses(s)
    BY <1>1, <1>2, <1>4, <1>7, WritesList DEF IsAddress
  <2> QED BY <1>3, <1>7, <2>1 DEF l, s
<1>8. CASE Op.kind \notin {"add", "remove", "replace"}
  <2>1. Written(s, Op, record) = s
    BY <1>2, <1>8, WritesNoList DEF IsAddress
  <2> QED BY <1>3, <1>8, <2>1 DEF l, s
<1> QED BY <1>5, <1>6, <1>7, <1>8

LEMMA WriteCollateral ==
  ASSUME Typed, Decided, NoCollateralLoss, Write
  PROVE  NoCollateralLoss'
<1> DEFINE l == Op.target.link
<1>1. /\ cascaded' = IF Op.kind = "remove" /\ meddled = seen
           THEN cascaded \cup ({At} \X ((Addresses(list[l]) \ Addresses(list'[l])) \ {Op.addr}))
           ELSE cascaded
      /\ plan' = plan
  BY DEF Write, call
<1>2. Op = plan[At]
  BY DEF Op
<1>3. ASSUME meddled = seen, Op.kind = "remove",
             NEW a \in (Addresses(list[l]) \ Addresses(list'[l])) \ {Op.addr}
      PROVE  \E j \in DOMAIN plan : j > At /\ Removes(j, l, a)
  BY <1>3, WritesWhatWasDecided
<1> SUFFICES ASSUME NEW c \in cascaded'
             PROVE  \E j \in DOMAIN plan : j > c[1] /\ Removes(j, plan[c[1]].target.link, c[2])
  BY <1>1 DEF NoCollateralLoss, Removes
<1>4. CASE c \in cascaded
  BY <1>4 DEF NoCollateralLoss
<1>5. CASE c \notin cascaded
  <2>1. /\ Op.kind = "remove" /\ meddled = seen
        /\ c \in {At} \X ((Addresses(list[l]) \ Addresses(list'[l])) \ {Op.addr})
    BY <1>1, <1>5
  <2>2. c[1] = At /\ c[2] \in (Addresses(list[l]) \ Addresses(list'[l])) \ {Op.addr}
    BY <2>1
  <2>3. \E j \in DOMAIN plan : j > At /\ Removes(j, l, c[2])
    BY <1>3, <2>1, <2>2
  <2> QED BY <1>2, <2>2, <2>3
<1> QED BY <1>4, <1>5

-----------------------------------------------------------------------------
(* What the plan leads to. *)

\* The operation that follows the first k.
LEMMA IntendedNext ==
  ASSUME plan \in Seq(Operation), NEW k \in Nat, k + 1 \in DOMAIN plan, NEW l, NEW a \in Address
  PROVE  a \in IntendedUpTo(k + 1, l) <=>
           IF /\ plan[k + 1].target.link = l /\ plan[k + 1].addr = a
              /\ plan[k + 1].kind \in {"add", "remove"}
           THEN plan[k + 1].kind = "add" ELSE a \in IntendedUpTo(k, l)
<1> DEFINE This == /\ plan[k + 1].target.link = l /\ plan[k + 1].addr = a
                   /\ plan[k + 1].kind \in {"add", "remove"}
<1>1. 1 .. k + 1 = 1 .. k \cup {k + 1} /\ k + 1 \notin 1 .. k
  OBVIOUS
<1>2. \A i \in 1 .. k : i <= k + 1 /\ ~(k + 1 <= i)
  OBVIOUS
<1>3. k + 1 <= k + 1
  OBVIOUS
<1>4. CASE This
  <2>1. Changes(k + 1, l, a) = Changes(k, l, a) \cup {k + 1}
    BY <1>1, <1>4 DEF Changes
  <2>2. Changes(k, l, a) \subseteq 1 .. k
    BY DEF Changes
  <2>3. a \in IntendedUpTo(k + 1, l) <=> plan[k + 1].kind = "add"
    BY <1>2, <1>3, <2>1, <2>2 DEF IntendedUpTo
  <2> QED BY <1>4, <2>3
<1>5. CASE ~This
  <2>1. Changes(k + 1, l, a) = Changes(k, l, a)
    BY <1>1, <1>5 DEF Changes
  <2>2. a \in IntendedUpTo(k + 1, l) <=> a \in IntendedUpTo(k, l)
    BY <2>1 DEF IntendedUpTo
  <2> QED BY <1>5, <2>2
<1> QED BY <1>4, <1>5

\* One operation more is carried out.
LEMMA CourseAdvances ==
  ASSUME Typed, At \in DOMAIN plan, phase # "written",
         ~preview, meddled = 0, DOMAIN outcome \subseteq Eligible, OnCourse,
         NEW after, \A l \in Link : after[l] \subseteq Address,
         \A l \in Link : l # Op.target.link => after[l] = Addresses(list[l]),
         LET l == Op.target.link
         IN  /\ Op.kind = "remove" =>
                  /\ after[l] \subseteq Addresses(list[l])
                  /\ Op.addr \notin after[l]
                  /\ \A a \in Addresses(list[l]) \ after[l] :
                       a = Op.addr \/ \E j \in DOMAIN plan : j > At /\ Removes(j, l, a)
             /\ Op.kind = "add" => after[l] = Addresses(list[l]) \cup {Op.addr}
             /\ Op.kind \notin {"add", "remove"} => after[l] = Addresses(list[l])
  PROVE  \A l \in Link :
           /\ after[l] \subseteq IntendedUpTo(At, l)
           /\ \A a \in IntendedUpTo(At, l) \ after[l] :
                \E j \in DOMAIN plan : j > At /\ Removes(j, l, a)
<1> DEFINE k == Len(outcome)
<1>1. k \in Nat /\ At = k + 1 /\ Carried = k /\ plan \in Seq(Operation) /\ Op = plan[k + 1]
  BY DEF Typed, TurnTyped, CallTyped, At, Op, Carried
<1>2. \A l \in Link :
        /\ Addresses(list[l]) \subseteq IntendedUpTo(k, l)
        /\ \A a \in IntendedUpTo(k, l) \ Addresses(list[l]) :
             \E j \in DOMAIN plan : j > k /\ Removes(j, l, a)
  BY <1>1 DEF OnCourse
<1> SUFFICES ASSUME NEW l \in Link, NEW a \in Address
             PROVE  /\ a \in after[l] => a \in IntendedUpTo(At, l)
                    /\ a \in IntendedUpTo(At, l) /\ a \notin after[l] =>
                         \E j \in DOMAIN plan : j > At /\ Removes(j, l, a)
  BY DEF IntendedUpTo
<1> DEFINE This == Op.target.link = l /\ Op.addr = a /\ Op.kind \in {"add", "remove"}
<1> HIDE DEF k
<1>3. a \in IntendedUpTo(At, l) <=> IF This THEN Op.kind = "add" ELSE a \in IntendedUpTo(k, l)
  BY <1>1, IntendedNext
<1>4. ASSUME ~This, NEW j \in DOMAIN plan, j > k, Removes(j, l, a)
      PROVE  j > At
  <2>1. j # At
    BY <1>4 DEF Removes, Op
  <2>2. j \in Nat
    BY <1>1
  <2> QED BY <1>1, <1>4, <2>1, <2>2
<1>5. CASE This /\ Op.kind = "add"
  BY <1>3, <1>5
<1>6. CASE This /\ Op.kind = "remove"
  BY <1>3, <1>6
<1>7. CASE ~This
  <2>1. CASE a \in Addresses(list[l])
    <3>1. a \in IntendedUpTo(At, l)
      BY <1>2, <1>3, <1>7, <2>1
    <3>2. a \in after[l] \/ \E j \in DOMAIN plan : j > At /\ Removes(j, l, a)
      BY <1>7, <2>1
    <3> QED BY <3>1, <3>2
  <2>2. CASE a \notin Addresses(list[l])
    <3>1. a \notin after[l]
      BY <1>7, <2>2
    <3>2. a \in IntendedUpTo(k, l) => \E j \in DOMAIN plan : j > At /\ Removes(j, l, a)
      BY <1>2, <1>4, <1>7, <2>2
    <3> QED BY <1>3, <1>7, <3>1, <3>2
  <2> QED BY <2>1, <2>2
<1> QED BY <1>5, <1>6, <1>7

LEMMA OnCourseKept ==
  ASSUME OnCourse, UNCHANGED <<call, list, meddled>>, Carried' = Carried,
         DOMAIN outcome' \subseteq Eligible' => DOMAIN outcome \subseteq Eligible
  PROVE  OnCourse'
<1>1. /\ plan' = plan /\ preview' = preview /\ planned' = planned /\ list' = list
      /\ meddled' = meddled /\ Carried' = Carried
  BY DEF call
<1> QED BY <1>1 DEF OnCourse, IntendedUpTo, Changes, Removes

\* A report without failures had none before.
LEMMA OutcomeAdded ==
  ASSUME outcome \in Seq(Reported), NEW o \in Reported, Report(o)
  PROVE  /\ DOMAIN outcome' \subseteq Eligible' =>
              /\ DOMAIN outcome \subseteq Eligible
              /\ o \in {"succeeded", "satisfied", "readonly"}
         /\ Carried' = At /\ Len(outcome') = At
<1>1. /\ outcome' = Append(outcome, o) /\ phase' = "ready"
  BY DEF Report
<1>2. /\ Len(outcome) \in Nat /\ DOMAIN outcome = 1 .. Len(outcome)
      /\ Len(outcome') = At /\ DOMAIN outcome' = 1 .. At /\ outcome'[At] = o
      /\ \A i \in 1 .. Len(outcome) : outcome'[i] = outcome[i]
  BY <1>1 DEF At
<1>3. At \in DOMAIN outcome' /\ DOMAIN outcome \subseteq DOMAIN outcome'
  BY <1>2 DEF At
<1> QED BY <1>1, <1>2, <1>3 DEF Eligible, Carried

\* A failure, and the outcome of a write that took effect.
LEMMA FailureOnCourse ==
  ASSUME Typed, NEW o \in Reported \ {"succeeded", "satisfied", "readonly"}, Report(o)
  PROVE  OnCourse'
<1>1. ~(DOMAIN outcome' \subseteq Eligible')
  BY OutcomeAdded DEF Typed, TurnTyped
<1> QED BY <1>1 DEF OnCourse

LEMMA SuccessOnCourse ==
  ASSUME Typed, OnCourse, phase = "written", UNCHANGED <<kernel, call, meddled>>, Report("succeeded")
  PROVE  OnCourse'
<1>1. /\ DOMAIN outcome' \subseteq Eligible' => DOMAIN outcome \subseteq Eligible
      /\ Carried' = At
  BY OutcomeAdded DEF Typed, TurnTyped, Reported
<1> QED BY <1>1, OnCourseKept DEF Carried, kernel

\* An operation that finds its work done changes nothing of what is intended.
LEMMA SatisfiedOnCourse ==
  ASSUME Typed, Fresh, OnCourse, DecideAgainst
  PROVE  OnCourse'
<1>1. /\ phase = "decide" /\ list' = list /\ UNCHANGED <<call, meddled, seen>>
  BY DEF DecideAgainst, kernel
<1>2. PICK equal \in LifetimesEqual :
        Report(IF Verdict(equal) = "write" THEN "ApplyFailed" ELSE Verdict(equal))
  BY DEF DecideAgainst
<1> DEFINE o == IF Verdict(equal) = "write" THEN "ApplyFailed" ELSE Verdict(equal)
<1>3. o \in Reported /\ o # "succeeded" /\ Report(o)
  BY <1>2, Verdicts DEF Reported
<1>4. CASE o \notin {"satisfied", "readonly"}
  BY <1>3, <1>4, FailureOnCourse
<1>5. CASE o \in {"satisfied", "readonly"}
  <2>1. Verdict(equal) = o
    BY <1>5
  <2> HIDE DEF o
  <2> SUFFICES ASSUME ~preview', meddled' = 0, DOMAIN outcome' \subseteq Eligible'
               PROVE  \A l \in Link :
                        /\ Addresses(list'[l]) \subseteq (IntendedUpTo(Carried, l))'
                        /\ \A a \in (IntendedUpTo(Carried, l))' \ Addresses(list'[l]) :
                             \E j \in DOMAIN plan' : j > Carried' /\ (Removes(j, l, a))'
    BY DEF OnCourse
  <2>2. ~preview /\ meddled = 0 /\ DOMAIN outcome \subseteq Eligible /\ Carried' = At
    BY <1>1, <1>3, OutcomeAdded DEF call, Typed, TurnTyped
  <2>3. meddled = seen /\ At \in DOMAIN plan
    BY <1>1, <2>2 DEF Typed, HistoryTyped, TurnTyped
  <2> DEFINE m == Op.target.link
             after == [l \in Link |-> Addresses(list[l])]
  <2>4. m \in Link /\ Op \in Operation
    BY <1>1, <2>2, <2>3, FreshDevice
  <2>5. ASSUME IsAddress(Op)
        PROVE  /\ Op.kind = "remove" => Op.addr \notin Addresses(list[m])
               /\ Op.kind \in {"add", "replace"} => Op.addr \in Addresses(list[m])
    <3>1. GroupError = "none" /\ Satisfied(equal)
      BY <1>5, <2>1, <2>5, VerdictMeans DEF IsAddress
    <3>2. Existing = {e \in ToSet(list[m]) : e.addr = Op.addr}
      BY <1>1, <2>2, <2>3, <2>5, <3>1, FreshAddresses
    <3> QED BY <2>5, <3>1, <3>2 DEF Satisfied, IsAddress, Addresses
  <2>6. \A l \in Link :
          /\ after[l] \subseteq IntendedUpTo(At, l)
          /\ \A a \in IntendedUpTo(At, l) \ after[l] :
               \E j \in DOMAIN plan : j > At /\ Removes(j, l, a)
    <3>1. /\ \A l \in Link : after[l] = Addresses(list[l]) /\ after[l] \subseteq Address
          /\ phase # "written"
      BY <1>1, AddressesTyped DEF Typed, KernelTyped
    <3> HIDE DEF after
    <3>2. /\ Op.kind = "remove" => Op.addr \notin after[m]
          /\ Op.kind = "add" => after[m] = Addresses(list[m]) \cup {Op.addr}
      BY <2>4, <2>5, <3>1 DEF IsAddress
    <3> QED BY <2>2, <2>3, <2>4, <3>1, <3>2, CourseAdvances
  <2> QED BY <1>1, <2>2, <2>6 DEF call, IntendedUpTo, Changes, Removes
<1> QED BY <1>4, <1>5

LEMMA WriteOnCourse ==
  ASSUME Typed, Decided, OnCourse, Write
  PROVE  OnCourse'
<1> DEFINE m == Op.target.link
           after == [l \in Link |-> Addresses(list'[l])]
<1>1. /\ phase = "submitted" /\ phase' = "written" /\ outcome' = outcome
      /\ list' = [list EXCEPT ![m] = Written(list[m], Op, record)]
      /\ UNCHANGED <<call, meddled, seen>>
  BY DEF Write
<1>2. At \in DOMAIN plan /\ Carried' = At /\ Eligible' = Eligible
  BY <1>1 DEF Typed, TurnTyped, Carried, At, Eligible
<1> SUFFICES ASSUME ~preview', meddled' = 0, DOMAIN outcome' \subseteq Eligible'
             PROVE  \A l \in Link :
                      /\ Addresses(list'[l]) \subseteq (IntendedUpTo(Carried, l))'
                      /\ \A a \in (IntendedUpTo(Carried, l))' \ Addresses(list'[l]) :
                           \E j \in DOMAIN plan' : j > Carried' /\ (Removes(j, l, a))'
  BY DEF OnCourse
<1>3. ~preview /\ meddled = 0 /\ DOMAIN outcome \subseteq Eligible /\ meddled = seen
  BY <1>1, <1>2 DEF call, Typed, HistoryTyped
<1>4. \A l \in Link : after[l] = Addresses(list'[l]) /\ after[l] \subseteq Address
  <2>1. \A l \in Link : list'[l] \in Seq(Entry)
    BY WriteTyped DEF Typed, KernelTyped
  <2> QED BY <2>1, AddressesTyped
<1> HIDE DEF after
<1>5. \A l \in Link : l # m => after[l] = Addresses(list[l])
  BY <1>1, <1>4 DEF Typed, KernelTyped
<1>6. m \in Link
  BY <1>2, OpTyped, Operations DEF Typed
<1>7. /\ Op.kind = "remove" =>
           /\ after[m] \subseteq Addresses(list[m])
           /\ Op.addr \notin after[m]
           /\ \A a \in Addresses(list[m]) \ after[m] :
                a = Op.addr \/ \E j \in DOMAIN plan : j > At /\ Removes(j, m, a)
      /\ Op.kind = "add" => after[m] = Addresses(list[m]) \cup {Op.addr}
      /\ Op.kind \notin {"add", "remove"} => after[m] = Addresses(list[m])
  BY <1>3, <1>4, <1>6, WritesWhatWasDecided
<1>8. \A l \in Link :
        /\ after[l] \subseteq IntendedUpTo(At, l)
        /\ \A a \in IntendedUpTo(At, l) \ after[l] :
             \E j \in DOMAIN plan : j > At /\ Removes(j, l, a)
  BY <1>1, <1>2, <1>3, <1>4, <1>5, <1>7, CourseAdvances
<1> QED BY <1>1, <1>2, <1>4, <1>8 DEF call, IntendedUpTo, Changes, Removes

-----------------------------------------------------------------------------
(* The first invariant is inductive. *)

LEMMA InitAddressInv == Init => AddressInv
<1> SUFFICES ASSUME Init
             PROVE  AddressInv
  OBVIOUS
<1>1. Typed
  BY InitTyped
<1>2. phase = "ready" /\ current = NoObservation /\ cascaded = {}
  BY DEF Init
<1>3. Fresh /\ Decided /\ NoCollateralLoss
  BY <1>2 DEF Fresh, Decided, NoCollateralLoss, Underway
<1>4. OnCourse
  <2>1. Carried = 0 /\ planned = list
    BY DEF Init, Carried
  <2>2. \A l, a : Changes(0, l, a) = {}
    BY DEF Changes
  <2>3. \A l \in Link : list[l] \in Seq(Entry)
    BY <1>1 DEF Typed, KernelTyped
  <2>4. \A l \in Link : Addresses(list[l]) = IntendedUpTo(0, l)
    BY <2>1, <2>2, <2>3, AddressesTyped DEF IntendedUpTo
  <2> QED BY <2>1, <2>4 DEF OnCourse
<1> QED BY <1>1, <1>3, <1>4 DEF AddressInv

\* A step that reports a failure.
LEMMA FailureInv ==
  ASSUME AddressInv, phase # "ready" \/ At \in DOMAIN plan,
         NEW o \in Reported \ {"succeeded", "satisfied", "readonly"}, Report(o),
         UNCHANGED <<kernel, call, cancelled, memory, meddled, seen, effects, dropped>>,
         faults' = faults \/ Fault
  PROVE  AddressInv'
<1>1. Typed'
  BY ReportStepTyped DEF AddressInv
<1>2. phase' = "ready"
  BY DEF Report
<1>3. Fresh' /\ Decided'
  BY <1>2, FreshKept DEF AddressInv, Decided, Underway, memory
<1>4. OnCourse'
  BY FailureOnCourse DEF AddressInv
<1>5. NoCollateralLoss'
  BY DEF AddressInv, NoCollateralLoss, Removes, call, effects
<1> QED BY <1>1, <1>3, <1>4, <1>5 DEF AddressInv

\* A step that changes neither the kernel nor what is intended.
LEMMA QuietInv ==
  ASSUME AddressInv, Typed', Fresh', Decided', UNCHANGED <<kernel, call, meddled, effects, outcome>>,
         phase' # "written", phase # "written"
  PROVE  AddressInv'
<1>1. NoCollateralLoss'
  BY DEF AddressInv, NoCollateralLoss, Removes, call, effects
<1>2. Carried' = Carried /\ Eligible' = Eligible
  BY DEF Carried, Eligible
<1>3. OnCourse'
  BY <1>2, OnCourseKept DEF AddressInv, kernel
<1> QED BY <1>1, <1>3 DEF AddressInv

LEMMA BeginInv ==
  ASSUME AddressInv, Begin
  PROVE  AddressInv'
<1>1. /\ phase = "ready" /\ At \in DOMAIN plan
      /\ UNCHANGED <<kernel, call, cancelled, memory, meddled, faults, seen, effects, dropped>>
  BY DEF Begin
<1>2. CASE Refusal # "none" /\ Report(Refusal)
  <2>1. Refusal \in Reported \ {"succeeded", "satisfied", "readonly"}
    BY <1>2 DEF Refusal, Reported
  <2> QED BY <1>1, <1>2, <2>1, FailureInv
<1>3. CASE /\ phase' = (IF current = NoObservation THEN "observe" ELSE "decide")
           /\ UNCHANGED <<outcome, writing>>
  <2>1. Typed'
    BY BeginTyped DEF AddressInv
  <2>2. Fresh' /\ Decided'
    BY <1>1, <1>3, FreshKept DEF AddressInv, Decided, Underway, memory
  <2> QED BY <1>1, <1>3, <2>1, <2>2, QuietInv
<1> QED BY <1>1, <1>2, <1>3 DEF Begin

LEMMA ObserveInv ==
  ASSUME AddressInv, Observe
  PROVE  AddressInv'
<1>1. /\ phase = "observe"
      /\ UNCHANGED <<kernel, call, cancelled, groups, meddled, effects, dropped>>
  BY DEF Observe
<1>2. CASE current' = Snapshot /\ phase' = "decide" /\ UNCHANGED <<outcome, writing>>
  <2>1. Typed'
    BY ObserveTyped DEF AddressInv
  <2>2. Fresh' /\ Decided'
    BY <1>1, <1>2, Renewed DEF Decided, Underway
  <2> QED BY <1>1, <1>2, <2>1, <2>2, QuietInv
<1>3. CASE Fault /\ Report("QueryFailed") /\ UNCHANGED <<current, seen>>
  <2>1. "QueryFailed" \in Reported \ {"succeeded", "satisfied", "readonly"} /\ UNCHANGED memory
    BY <1>1, <1>3 DEF Reported, memory
  <2> QED BY <1>1, <1>3, <2>1, FailureInv
<1> QED BY <1>2, <1>3 DEF Observe

LEMMA DecideInv ==
  ASSUME AddressInv, Decide
  PROVE  AddressInv'
<1>1. CASE DecideUnlocated
  <2> DEFINE o == LocateError(current, Op.target)
  <2>1. /\ phase = "decide" /\ o # "none" /\ Report(o) /\ faults' = faults
        /\ UNCHANGED <<kernel, call, cancelled, memory, meddled, seen, effects, dropped>>
    BY <1>1 DEF DecideUnlocated
  <2>2. o \in Reported \ {"succeeded", "satisfied", "readonly"}
    BY <2>1, Locations DEF Reported
  <2> HIDE DEF o
  <2> QED BY <2>1, <2>2, FailureInv
<1>2. CASE DecideAgainst
  <2>1. UNCHANGED <<kernel, call, current, meddled, seen, effects>>
    BY <1>2 DEF DecideAgainst
  <2>2. phase' = "ready"
    BY <1>2 DEF DecideAgainst, Report
  <2>3. Typed'
    BY <1>2, DecideAgainstTyped DEF AddressInv
  <2>4. Fresh' /\ Decided'
    BY <2>1, <2>2, FreshKept DEF AddressInv, Decided, Underway
  <2>5. OnCourse'
    BY <1>2, SatisfiedOnCourse DEF AddressInv
  <2>6. NoCollateralLoss'
    BY <2>1 DEF AddressInv, NoCollateralLoss, Removes, call, effects
  <2> QED BY <2>3, <2>4, <2>5, <2>6 DEF AddressInv
<1>3. CASE DecidePreview
  <2>1. preview /\ UNCHANGED <<kernel, call, meddled, seen, effects>>
    BY <1>3 DEF DecidePreview
  <2>2. phase' = "ready"
    BY <1>3 DEF DecidePreview, Report
  <2>3. Typed'
    BY <1>3, DecidePreviewTyped DEF AddressInv
  <2>4. Fresh' /\ Decided' /\ OnCourse'
    BY <2>1, <2>2 DEF Fresh, Decided, OnCourse, Underway, call
  <2>5. NoCollateralLoss'
    BY <2>1 DEF AddressInv, NoCollateralLoss, Removes, call, effects
  <2> QED BY <2>3, <2>4, <2>5 DEF AddressInv
<1>4. CASE DecideWrite
  <2>1. /\ phase = "decide" /\ phase' = "confirm" /\ current' = NoObservation
        /\ UNCHANGED <<kernel, call, outcome, meddled, effects>>
    BY <1>4 DEF DecideWrite
  <2>2. Typed'
    BY <1>4, DecideWriteTyped DEF AddressInv
  <2>3. Fresh' /\ Decided'
    BY <1>4, <2>1, Renewed, DecideWriteDecided DEF AddressInv
  <2> QED BY <2>1, <2>2, <2>3, QuietInv
<1> QED BY <1>1, <1>2, <1>3, <1>4 DEF Decide

LEMMA ConfirmInv ==
  ASSUME AddressInv, Confirm
  PROVE  AddressInv'
<1>1. /\ phase = "confirm"
      /\ UNCHANGED <<kernel, call, cancelled, memory, meddled, seen, effects, dropped>>
  BY DEF Confirm
<1>2. CASE phase' = "submitted" /\ UNCHANGED <<outcome, writing>>
  <2>1. Typed'
    BY ConfirmTyped DEF AddressInv
  <2>2. Fresh' /\ Decided'
    BY <1>1, <1>2, FreshKept, DecidedKept DEF AddressInv, Underway, memory, writing
  <2> QED BY <1>1, <1>2, <2>1, <2>2, QuietInv
<1>3. ASSUME NEW o \in {"NotFound", "StaleState", "QueryFailed"}, Report(o),
             faults' = faults \/ Fault
      PROVE  AddressInv'
  BY <1>1, <1>3, FailureInv DEF Reported
<1> QED BY <1>2, <1>3 DEF Confirm

LEMMA WriteInv ==
  ASSUME AddressInv, Write
  PROVE  AddressInv'
<1>1. /\ phase = "submitted" /\ phase' = "written" /\ current' = current
      /\ UNCHANGED <<call, meddled, seen>>
  BY DEF Write, memory
<1>2. Typed' /\ NoCollateralLoss' /\ OnCourse'
  BY WriteTyped, WriteCollateral, WriteOnCourse DEF AddressInv
<1>3. Fresh' /\ Decided'
  BY <1>1 DEF AddressInv, Fresh, Decided, Underway, NoObservation
<1> QED BY <1>2, <1>3 DEF AddressInv

LEMMA WriteNothingInv ==
  ASSUME AddressInv, WriteNothing
  PROVE  AddressInv'
<1>1. /\ phase = "submitted"
      /\ UNCHANGED <<kernel, call, cancelled, memory, meddled, seen, effects, dropped>>
  BY DEF WriteNothing
<1>2. ASSUME NEW o \in {"NotFound", "ApplyFailed", "QueryFailed", "OutcomeUnknown"}, Report(o),
             faults' = faults \/ Fault
      PROVE  AddressInv'
  BY <1>1, <1>2, FailureInv DEF Reported
<1> QED BY <1>2 DEF WriteNothing

LEMMA WrittenInv ==
  ASSUME AddressInv, Acknowledge \/ Verify \/ VerifyFails
  PROVE  AddressInv'
<1>1. CASE Acknowledge \/ Verify
  <2>1. /\ phase = "written" /\ Report("succeeded") /\ UNCHANGED <<kernel, call, meddled, cascaded>>
        /\ current' = Snapshot \/ UNCHANGED <<current, seen>>
    BY <1>1 DEF Acknowledge, Verify, memory, effects
  <2>2. phase' = "ready"
    BY <2>1 DEF Report
  <2>3. Typed'
    BY <1>1, AcknowledgeTyped, VerifyTyped DEF AddressInv
  <2>4. Fresh' /\ Decided'
    BY <2>1, <2>2, FreshKept, Renewed DEF AddressInv, Decided, Underway
  <2>5. OnCourse'
    BY <2>1, SuccessOnCourse DEF AddressInv
  <2>6. NoCollateralLoss'
    BY <2>1 DEF AddressInv, NoCollateralLoss, Removes, call
  <2> QED BY <2>3, <2>4, <2>5, <2>6 DEF AddressInv
<1>2. CASE VerifyFails
  <2>1. /\ phase = "written"
        /\ UNCHANGED <<kernel, call, cancelled, memory, meddled, seen, effects, dropped>>
    BY <1>2 DEF VerifyFails
  <2>2. CASE VerifyError(Snapshot) # "none" /\ Report(VerifyError(Snapshot)) /\ UNCHANGED faults
    <3>1. VerifyError(Snapshot) \in Reported \ {"succeeded", "satisfied", "readonly"}
      <4>1. \A o : o = LocateError(Snapshot, Op.target) =>
              o \in (Reported \ {"succeeded", "satisfied", "readonly"}) \cup {"none"}
        BY Locations DEF Reported
      <4> QED BY <2>2, <4>1 DEF VerifyError, Reported
    <3> QED BY <2>1, <2>2, <3>1, FailureInv
  <2>3. CASE Fault /\ Report("OutcomeUnknown")
    BY <2>1, <2>3, FailureInv DEF Reported
  <2> QED BY <1>2, <2>2, <2>3 DEF VerifyFails
<1> QED BY <1>1, <1>2

LEMMA AddressInvStep == AddressInv /\ [Next]_vars => AddressInv'
<1> SUFFICES ASSUME AddressInv, [Next]_vars
             PROVE  AddressInv'
  OBVIOUS
<1>1. CASE Run
  BY <1>1, BeginInv, ObserveInv, DecideInv, ConfirmInv, WriteInv, WriteNothingInv, WrittenInv
  DEF Run
<1>2. CASE Elsewhere
  <2>1. /\ meddled' = meddled + 1 /\ UNCHANGED <<call, phase, current, seen, effects>>
    BY <1>2 DEF Elsewhere, AddElsewhere, DeleteElsewhere, SetElsewhere, DeleteLink, RenewLink,
                Meddle, memory
  <2>2. meddled' # seen' /\ meddled' # 0
    BY <2>1, ExecutorAssumption DEF AddressInv, Typed, HistoryTyped
  <2>3. Typed'
    BY <1>2, ElsewhereTyped DEF AddressInv
  <2>4. Fresh' /\ Decided' /\ OnCourse'
    BY <2>1, <2>2 DEF AddressInv, Fresh, Decided, OnCourse, NoObservation
  <2>5. NoCollateralLoss'
    BY <2>1 DEF AddressInv, NoCollateralLoss, Removes, call, effects
  <2> QED BY <2>3, <2>4, <2>5 DEF AddressInv
<1>3. CASE Cancel \/ Returned \/ UNCHANGED vars
  <2>1. UNCHANGED <<kernel, call, phase, outcome, memory, writing, meddled, seen, effects>>
    BY <1>3 DEF Cancel, Returned, vars
  <2>2. Typed'
    BY <1>3, TypedStep DEF AddressInv, Next
  <2>3. Fresh' /\ Decided'
    BY <2>1, FreshKept, DecidedKept DEF AddressInv, memory, writing
  <2>4. OnCourse'
    <3>1. Carried' = Carried /\ Eligible' = Eligible
      BY <2>1 DEF Carried, Eligible, At
    <3> QED BY <2>1, <3>1, OnCourseKept DEF AddressInv, kernel
  <2>5. NoCollateralLoss'
    BY <2>1 DEF AddressInv, NoCollateralLoss, Removes, call, effects
  <2> QED BY <2>2, <2>3, <2>4, <2>5 DEF AddressInv
<1> QED BY <1>1, <1>2, <1>3 DEF Next

\* What the executor knows of the addresses between an observation and the report
\* of the write it decided on.
THEOREM AddressInvariantHolds == Spec => []AddressInv
BY InitAddressInv, AddressInvStep, PTL DEF Spec

\* check_cascade and removal_is_covered (executor.rs): a removal deletes no address
\* of a link that the plan does not go on to remove, if nobody intervened since
\* the observation.
THEOREM NothingIsLostByCascade == Spec => []NoCollateralLoss
<1>1. AddressInv => NoCollateralLoss
  BY DEF AddressInv
<1> QED BY <1>1, AddressInvariantHolds, PTL

\* apply (executor.rs): with nobody else around, a report without failures is
\* the truth: the links have the addresses the plan leads to.
THEOREM SuccessIsThePlan == Spec => []SuccessReachesThePlan
<1>1. AddressInv => SuccessReachesThePlan
  <2> SUFFICES ASSUME AddressInv, Done, ~preview, meddled = 0, Success, NEW l \in Link
               PROVE  Addresses(list[l]) = Intended(l)
    BY DEF SuccessReachesThePlan
  <2>1. /\ outcome \in Seq(Reported) /\ plan \in Seq(Operation)
        /\ Len(outcome) <= Len(plan) /\ phase = "ready"
    BY DEF AddressInv, Typed, TurnTyped, CallTyped, Done
  <2>2. Len(outcome) = Len(plan) /\ Len(plan) \in Nat /\ DOMAIN plan = 1 .. Len(plan)
        /\ DOMAIN outcome = DOMAIN plan
    BY <2>1 DEF Done, At
  <2>3. DOMAIN outcome \subseteq Eligible /\ Carried = Len(plan)
    BY <2>1, <2>2 DEF Success, Carried
  <2>4. /\ Addresses(list[l]) \subseteq IntendedUpTo(Carried, l)
        /\ \A a \in IntendedUpTo(Carried, l) \ Addresses(list[l]) :
             \E j \in DOMAIN plan : j > Carried /\ Removes(j, l, a)
    BY <2>3 DEF AddressInv, OnCourse
  <2>5. \A j \in DOMAIN plan : ~(j > Carried)
    BY <2>2, <2>3
  <2> QED BY <2>3, <2>4, <2>5 DEF Intended
<1> QED BY <1>1, AddressInvariantHolds, PTL

-----------------------------------------------------------------------------
(* Entries without whether they are secondary.  A selection by address and  *)
(* a new lifetime are the same before and after that is left out.           *)

BareEntries == Address \X KernelGroup \X Lifetime
BareOf(A) == {b \in BareEntries : b[1] \in A}
OfAddress(A) == {e \in Entry : e.addr \in A}
BareEntry(e) == <<e.addr, e.group, e.lft>>

LEMMA BareAt ==
  ASSUME NEW s \in Seq(Entry)
  PROVE  /\ Bare(s) \in Seq(BareEntries) /\ Len(Bare(s)) = Len(s) /\ DOMAIN Bare(s) = DOMAIN s
         /\ \A k \in DOMAIN s : Bare(s)[k] = BareEntry(s[k])
<1>1. Len(s) \in Nat /\ DOMAIN s = 1 .. Len(s) /\ \A k \in 1 .. Len(s) : s[k] \in Entry
  OBVIOUS
<1>2. \A e \in Entry : BareEntry(e) \in BareEntries
  BY DEF BareEntry, BareEntries, Entry
<1>3. Bare(s) = [k \in 1 .. Len(s) |-> BareEntry(s[k])]
  BY <1>1 DEF Bare, BareEntry
<1>4. Bare(s) \in [1 .. Len(s) -> BareEntries]
  BY <1>1, <1>2, <1>3
<1> HIDE DEF BareEntry
<1> QED BY <1>1, <1>3, <1>4

LEMMA BareAppend ==
  ASSUME NEW s \in Seq(Entry), NEW e \in Entry
  PROVE  Bare(Append(s, e)) = Append(Bare(s), BareEntry(e))
<1> DEFINE t == Append(s, e)
           b == Append(Bare(s), BareEntry(e))
<1>1. /\ t \in Seq(Entry) /\ Len(s) \in Nat /\ Len(t) = Len(s) + 1 /\ t[Len(s) + 1] = e
      /\ \A i \in 1 .. Len(s) : t[i] = s[i]
  OBVIOUS
<1> HIDE DEF t
<1>2. /\ Bare(s) \in Seq(BareEntries) /\ Len(Bare(s)) = Len(s)
      /\ \A k \in 1 .. Len(s) : Bare(s)[k] = BareEntry(s[k])
  BY BareAt
<1>3. /\ Bare(t) \in Seq(BareEntries) /\ Len(Bare(t)) = Len(s) + 1
      /\ \A k \in 1 .. Len(s) + 1 : Bare(t)[k] = BareEntry(t[k])
  BY <1>1, BareAt
<1>4. BareEntry(e) \in BareEntries
  BY DEF BareEntry, BareEntries, Entry
<1>5. /\ b \in Seq(BareEntries) /\ Len(b) = Len(s) + 1 /\ b[Len(s) + 1] = BareEntry(e)
      /\ \A k \in 1 .. Len(s) : b[k] = Bare(s)[k]
  BY <1>1, <1>2, <1>4, AppendProperties
<1> HIDE DEF b
<1>6. ASSUME NEW k \in 1 .. Len(Bare(t))
      PROVE  Bare(t)[k] = b[k]
  <2>1. CASE k = Len(s) + 1
    BY <1>1, <1>3, <1>5, <2>1
  <2>2. CASE k \in 1 .. Len(s)
    <3>1. k \in 1 .. Len(s) + 1
      BY <1>1, <2>2
    <3> QED BY <1>1, <1>2, <1>3, <1>5, <2>2, <3>1
  <2> QED BY <1>1, <1>3, <2>1, <2>2
<1>7. Bare(t) = b
  BY <1>3, <1>5, <1>6, SeqEqual
<1> QED BY <1>7 DEF t, b

\* Entries are selected by their addresses before or after.
LEMMA BareOnly ==
  ASSUME NEW A, NEW s \in Seq(Entry)
  PROVE  Bare(Only(s, OfAddress(A))) = Only(Bare(s), BareOf(A))
<1> DEFINE Q == {t \in Seq(Entry) : Bare(Only(t, OfAddress(A))) = Only(Bare(t), BareOf(A))}
<1>1. <<>> \in Q
  <2>1. <<>> \in Seq(Entry) /\ Bare(<<>>) = <<>>
    BY DEF Bare
  <2> QED BY <2>1, OnlyEmpty
<1>2. ASSUME NEW t \in Seq(Entry), NEW e \in Entry, t \in Q
      PROVE  Append(t, e) \in Q
  <2> DEFINE S == OfAddress(A)
             U == BareOf(A)
             b == BareEntry(e)
  <2>1. /\ b \in BareEntries /\ (e \in S <=> b \in U)
    BY DEF BareEntry, BareEntries, Entry, OfAddress, BareOf
  <2>2. Bare(t) \in Seq(BareEntries) /\ Only(t, S) \in Seq(Entry) /\ Bare(Only(t, S)) = Only(Bare(t), U)
    BY <1>2, BareAt, OnlyType
  <2>3. Append(t, e) \in Seq(Entry) /\ Bare(Append(t, e)) = Append(Bare(t), b)
    BY BareAppend
  <2> HIDE DEF S, U, b
  <2>4. /\ Only(Append(t, e), S) = IF e \in S THEN Append(Only(t, S), e) ELSE Only(t, S)
        /\ Only(Append(Bare(t), b), U) = IF b \in U THEN Append(Only(Bare(t), U), b)
                                                   ELSE Only(Bare(t), U)
    BY <2>1, <2>2, OnlyAppend
  <2>5. Bare(Append(Only(t, S), e)) = Append(Only(Bare(t), U), b)
    BY <2>2, BareAppend DEF b
  <2> QED BY <2>1, <2>2, <2>3, <2>4, <2>5 DEF S, U
<1> HIDE DEF Q
<1>3. Seq(Entry) \subseteq Q
  BY <1>1, <1>2, AllSequences
<1> QED BY <1>3 DEF Q

\* A new lifetime of one address.
Relabel(b, a, v) == [k \in DOMAIN b |-> IF b[k][1] = a THEN <<b[k][1], b[k][2], v>> ELSE b[k]]

LEMMA RelabelAt ==
  ASSUME NEW b \in Seq(BareEntries), NEW a, NEW v \in Lifetime
  PROVE  /\ Relabel(b, a, v) \in Seq(BareEntries) /\ Len(Relabel(b, a, v)) = Len(b)
         /\ \A k \in 1 .. Len(b) :
              Relabel(b, a, v)[k] = IF b[k][1] = a THEN <<b[k][1], b[k][2], v>> ELSE b[k]
<1>1. Len(b) \in Nat /\ DOMAIN b = 1 .. Len(b) /\ \A k \in 1 .. Len(b) : b[k] \in BareEntries
  OBVIOUS
<1>2. \A x \in BareEntries : <<x[1], x[2], v>> \in BareEntries
  BY DEF BareEntries
<1>3. Relabel(b, a, v) \in [1 .. Len(b) -> BareEntries]
  BY <1>1, <1>2 DEF Relabel
<1>4. \A k \in 1 .. Len(b) :
        Relabel(b, a, v)[k] = IF b[k][1] = a THEN <<b[k][1], b[k][2], v>> ELSE b[k]
  BY <1>1 DEF Relabel
<1> QED BY <1>1, <1>3, <1>4

LEMMA RelabelAppend ==
  ASSUME NEW b \in Seq(BareEntries), NEW x \in BareEntries, NEW a, NEW v \in Lifetime
  PROVE  Relabel(Append(b, x), a, v)
           = Append(Relabel(b, a, v), IF x[1] = a THEN <<x[1], x[2], v>> ELSE x)
<1> DEFINE y == IF x[1] = a THEN <<x[1], x[2], v>> ELSE x
           c == Append(b, x)
           r == Relabel(b, a, v)
           d == Append(r, y)
           n == Len(b)
<1>1. y \in BareEntries
  BY DEF BareEntries
<1>2. /\ c \in Seq(BareEntries) /\ n \in Nat /\ Len(c) = n + 1 /\ c[n + 1] = x
      /\ \A i \in 1 .. n : c[i] = b[i]
  BY Appending
<1>3. /\ r \in Seq(BareEntries) /\ Len(r) = n
      /\ \A k \in 1 .. n : r[k] = IF b[k][1] = a THEN <<b[k][1], b[k][2], v>> ELSE b[k]
  BY RelabelAt
<1> HIDE DEF c, n, r
<1>4. /\ Relabel(c, a, v) \in Seq(BareEntries) /\ Len(Relabel(c, a, v)) = n + 1
      /\ \A k \in 1 .. n + 1 :
           Relabel(c, a, v)[k] = IF c[k][1] = a THEN <<c[k][1], c[k][2], v>> ELSE c[k]
  BY <1>2, RelabelAt
<1>5. y = IF x[1] = a THEN <<x[1], x[2], v>> ELSE x
  OBVIOUS
<1> HIDE DEF y
<1>6. /\ d \in Seq(BareEntries) /\ Len(d) = n + 1 /\ d[n + 1] = y
      /\ \A k \in 1 .. n : d[k] = r[k]
  BY <1>1, <1>2, <1>3, AppendProperties
<1> HIDE DEF d
<1>7. ASSUME NEW k \in 1 .. Len(Relabel(c, a, v))
      PROVE  Relabel(c, a, v)[k] = d[k]
  <2>1. CASE k = n + 1
    BY <1>2, <1>4, <1>5, <1>6, <2>1
  <2>2. CASE k \in 1 .. n
    <3>1. k \in 1 .. n + 1 /\ c[k] = b[k]
      BY <1>2, <2>2
    <3>2. r[k] = IF b[k][1] = a THEN <<b[k][1], b[k][2], v>> ELSE b[k]
      BY <1>3, <2>2
    <3>3. Relabel(c, a, v)[k] = IF c[k][1] = a THEN <<c[k][1], c[k][2], v>> ELSE c[k]
      BY <1>4, <3>1
    <3>4. Relabel(c, a, v)[k] = r[k]
      BY <3>1, <3>2, <3>3
    <3> QED BY <1>6, <2>2, <3>4
  <2> QED BY <1>2, <1>4, <2>1, <2>2
<1>8. Relabel(c, a, v) = d
  BY <1>4, <1>6, <1>7, SeqEqual
<1> QED BY <1>8 DEF c, d, y, r

LEMMA RelabelOnly ==
  ASSUME NEW A, NEW b \in Seq(BareEntries), NEW a, NEW v \in Lifetime
  PROVE  Only(Relabel(b, a, v), BareOf(A)) = Relabel(Only(b, BareOf(A)), a, v)
<1> DEFINE U == BareOf(A)
           Q == {t \in Seq(BareEntries) : Only(Relabel(t, a, v), U) = Relabel(Only(t, U), a, v)}
<1>1. <<>> \in Q
  <2>1. <<>> \in Seq(BareEntries) /\ Relabel(<<>>, a, v) = <<>>
    BY DEF Relabel
  <2> QED BY <2>1, OnlyEmpty
<1>2. ASSUME NEW t \in Seq(BareEntries), NEW x \in BareEntries, t \in Q
      PROVE  Append(t, x) \in Q
  <2> DEFINE y == IF x[1] = a THEN <<x[1], x[2], v>> ELSE x
  <2>1. y \in BareEntries /\ (y \in U <=> x \in U)
    BY DEF BareEntries, BareOf
  <2>2. /\ Append(t, x) \in Seq(BareEntries) /\ Relabel(Append(t, x), a, v) = Append(Relabel(t, a, v), y)
        /\ Relabel(t, a, v) \in Seq(BareEntries) /\ Only(t, U) \in Seq(BareEntries)
        /\ Only(Relabel(t, a, v), U) = Relabel(Only(t, U), a, v)
    BY <1>2, RelabelAppend, RelabelAt, OnlyType
  <2>3. Relabel(Append(Only(t, U), x), a, v) = Append(Relabel(Only(t, U), a, v), y)
    BY <2>2, RelabelAppend
  <2> HIDE DEF y, U
  <2>4. /\ Only(Append(t, x), U) = IF x \in U THEN Append(Only(t, U), x) ELSE Only(t, U)
        /\ Only(Append(Relabel(t, a, v), y), U) = IF y \in U THEN Append(Only(Relabel(t, a, v), U), y)
                                                            ELSE Only(Relabel(t, a, v), U)
    BY <2>1, <2>2, OnlyAppend
  <2> QED BY <2>1, <2>2, <2>3, <2>4
<1> HIDE DEF Q
<1>3. Seq(BareEntries) \subseteq Q
  BY <1>1, <1>2, AllSequences
<1> QED BY <1>3 DEF Q

\* What the executor expects a message to make of two lists that agree on some of
\* their addresses, agrees on them.
Rest(s, A) == Bare(Only(s, OfAddress(A)))

LEMMA RestOfRemoval ==
  ASSUME NEW s \in Seq(Entry), NEW A, NEW a, a \notin A
  PROVE  Rest(Only(s, {e \in Entry : e.addr # a}), A) = Rest(s, A)
<1> DEFINE S == {e \in Entry : e.addr # a}
<1>1. S \cap OfAddress(A) = OfAddress(A)
  BY DEF OfAddress
<1> HIDE DEF S
<1>2. Only(Only(s, S), OfAddress(A)) = Only(s, S \cap OfAddress(A))
  BY OnlyOnly
<1> QED BY <1>1, <1>2 DEF Rest, S

LEMMA RestOfAddition ==
  ASSUME NEW s \in Seq(Entry), NEW e \in Entry, NEW A
  PROVE  Rest(Append(s, e), A) =
           IF e.addr \in A THEN Append(Rest(s, A), BareEntry(e)) ELSE Rest(s, A)
<1>1. Only(Append(s, e), OfAddress(A))
        = IF e \in OfAddress(A) THEN Append(Only(s, OfAddress(A)), e) ELSE Only(s, OfAddress(A))
  BY OnlyAppend
<1>2. Only(s, OfAddress(A)) \in Seq(Entry) /\ (e \in OfAddress(A) <=> e.addr \in A)
  BY OnlyType DEF OfAddress
<1>3. Bare(Append(Only(s, OfAddress(A)), e)) = Append(Bare(Only(s, OfAddress(A))), BareEntry(e))
  BY <1>2, BareAppend
<1> QED BY <1>1, <1>2, <1>3 DEF Rest

LEMMA RestOfReplacement ==
  ASSUME NEW s \in Seq(Entry), NEW a, NEW v \in Lifetime, NEW A
  PROVE  Rest([k \in DOMAIN s |-> IF s[k].addr = a THEN [s[k] EXCEPT !.lft = v] ELSE s[k]], A)
           = Relabel(Rest(s, A), a, v)
<1> DEFINE t == [k \in DOMAIN s |-> IF s[k].addr = a THEN [s[k] EXCEPT !.lft = v] ELSE s[k]]
<1>1. Len(s) \in Nat /\ DOMAIN s = 1 .. Len(s) /\ \A k \in 1 .. Len(s) : s[k] \in Entry
  OBVIOUS
<1>2. ASSUME NEW k \in 1 .. Len(s)
      PROVE  /\ t[k] \in Entry
             /\ BareEntry(t[k]) = IF BareEntry(s[k])[1] = a
                                  THEN <<BareEntry(s[k])[1], BareEntry(s[k])[2], v>>
                                  ELSE BareEntry(s[k])
  <2>1. t[k] = IF s[k].addr = a THEN [s[k] EXCEPT !.lft = v] ELSE s[k]
    BY <1>1
  <2> HIDE DEF t
  <2> QED BY <1>1, <2>1 DEF BareEntry, Entry
<1>3. t \in Seq(Entry) /\ Len(t) = Len(s)
  <2>1. t \in [1 .. Len(s) -> Entry]
    BY <1>1, <1>2
  <2> HIDE DEF t
  <2> QED BY <1>1, <2>1
<1> HIDE DEF t
<1>4. Bare(t) = Relabel(Bare(s), a, v)
  <2>1. /\ Bare(t) \in Seq(BareEntries) /\ Len(Bare(t)) = Len(s)
        /\ \A k \in 1 .. Len(s) : Bare(t)[k] = BareEntry(t[k])
    BY <1>1, <1>3, BareAt
  <2>2. /\ Bare(s) \in Seq(BareEntries) /\ Len(Bare(s)) = Len(s)
        /\ \A k \in 1 .. Len(s) : Bare(s)[k] = BareEntry(s[k])
    BY <1>1, BareAt
  <2> DEFINE r == Relabel(Bare(s), a, v)
  <2>3. /\ r \in Seq(BareEntries) /\ Len(r) = Len(s)
        /\ \A k \in 1 .. Len(s) :
             r[k] = IF Bare(s)[k][1] = a THEN <<Bare(s)[k][1], Bare(s)[k][2], v>> ELSE Bare(s)[k]
    BY <2>2, RelabelAt
  <2> HIDE DEF r
  <2>4. \A k \in 1 .. Len(s) : Bare(t)[k] = r[k]
    BY <1>2, <2>1, <2>2, <2>3
  <2>5. Bare(t) = r
    BY <2>1, <2>3, <2>4, SeqEqual
  <2> QED BY <2>5 DEF r
<1>5. Bare(Only(t, OfAddress(A))) = Only(Bare(t), BareOf(A))
  BY <1>3, BareOnly
<1>6. Bare(Only(s, OfAddress(A))) = Only(Bare(s), BareOf(A))
  BY BareOnly
<1>7. Only(Relabel(Bare(s), a, v), BareOf(A)) = Relabel(Only(Bare(s), BareOf(A)), a, v)
  BY BareAt, RelabelOnly
<1> QED BY <1>4, <1>5, <1>6, <1>7 DEF Rest, t

LEMMA Promotions ==
  ASSUME NEW s \in Seq(Entry), NEW t
  PROVE  PromotedFirst(s, t) \in Seq(Entry) /\ Bare(PromotedFirst(s, t)) = Bare(s)
<1> DEFINE p == [s EXCEPT ![1].secondary = FALSE]
<1>1. /\ Len(s) \in Nat /\ DOMAIN s = 1 .. Len(s) /\ \A k \in 1 .. Len(s) : s[k] \in Entry
  OBVIOUS
<1>2. ASSUME NEW k \in 1 .. Len(s)
      PROVE  p[k] \in Entry /\ BareEntry(p[k]) = BareEntry(s[k])
  <2>1. p[k] = IF k = 1 THEN [s[1] EXCEPT !.secondary = FALSE] ELSE s[k]
    BY <1>1
  <2>2. s[k] \in Entry
    BY <1>1
  <2> HIDE DEF p
  <2>3. CASE k = 1
    BY <2>1, <2>2, <2>3 DEF BareEntry, Entry
  <2>4. CASE k # 1
    BY <2>1, <2>2, <2>4
  <2> QED BY <2>3, <2>4
<1>3. p \in Seq(Entry) /\ Len(p) = Len(s)
  <2>1. p \in [1 .. Len(s) -> Entry]
    BY <1>1, <1>2
  <2> HIDE DEF p
  <2> QED BY <1>1, <2>1
<1> HIDE DEF p
<1>4. Bare(p) = Bare(s)
  <2>1. /\ Bare(p) \in Seq(BareEntries) /\ Len(Bare(p)) = Len(s)
        /\ \A k \in 1 .. Len(s) : Bare(p)[k] = BareEntry(p[k])
    BY <1>1, <1>3, BareAt
  <2>2. /\ Bare(s) \in Seq(BareEntries) /\ Len(Bare(s)) = Len(s)
        /\ \A k \in 1 .. Len(s) : Bare(s)[k] = BareEntry(s[k])
    BY <1>1, BareAt
  <2>3. \A k \in 1 .. Len(s) : Bare(p)[k] = Bare(s)[k]
    BY <1>2, <2>1, <2>2
  <2> QED BY <2>1, <2>2, <2>3, SeqEqual
<1> QED BY <1>3, <1>4 DEF PromotedFirst, p

LEMMA Projections ==
  ASSUME CallTyped, At \in DOMAIN plan, NEW s \in Seq(Entry), NEW t \in Seq(Entry),
         NEW A, NEW B, Rest(s, A) = Rest(t, B), Op.addr \in A <=> Op.addr \in B,
         Op.kind = "remove" => Op.addr \notin A
  PROVE  Rest(Project(s), A) = Rest(Project(t), B)
<1>1. Op \in Operation
  BY OpTyped
<1>2. CASE Op.kind = "remove"
  <2>1. /\ Project(s) = Only(s, {e \in Entry : e.addr # Op.addr})
        /\ Project(t) = Only(t, {e \in Entry : e.addr # Op.addr})
    BY <1>2 DEF Project
  <2> QED BY <1>2, <2>1, RestOfRemoval
<1>3. CASE Op.kind = "add"
  <2> DEFINE r == [group |-> Group[Op.addr]]
             e == NewEntry(Op, r)
             m == [e EXCEPT !.secondary = \E x \in ToSet(s) : x.group = Group[Op.addr]]
             n == [e EXCEPT !.secondary = \E x \in ToSet(t) : x.group = Group[Op.addr]]
  <2>1. r.group \in KernelGroup /\ IsAddress(Op)
    BY <1>1, <1>3, Operations DEF IsAddress
  <2> HIDE DEF r
  <2>2. e \in Entry /\ e.addr = Op.addr
    BY <1>1, <2>1, NewEntryTyped
  <2> HIDE DEF e
  <2>3. /\ m \in Entry /\ n \in Entry /\ m.addr = Op.addr /\ n.addr = Op.addr
        /\ BareEntry(m) = BareEntry(n)
    BY <2>2 DEF Entry, BareEntry
  <2>4. Project(s) = Append(s, m) /\ Project(t) = Append(t, n)
    BY <1>3 DEF Project, e, r
  <2> HIDE DEF m, n
  <2>5. Rest(Append(s, m), A) = IF m.addr \in A THEN Append(Rest(s, A), BareEntry(m)) ELSE Rest(s, A)
    BY <2>3, RestOfAddition
  <2>6. Rest(Append(t, n), B) = IF n.addr \in B THEN Append(Rest(t, B), BareEntry(n)) ELSE Rest(t, B)
    BY <2>3, RestOfAddition
  <2> QED BY <2>3, <2>4, <2>5, <2>6
<1>4. CASE Op.kind = "replace"
  <2>1. Op.arg \in Lifetime
    BY <1>1, <1>4, Operations DEF IsAddress
  <2>2. ASSUME NEW u \in Seq(Entry), NEW C
        PROVE  Rest(Project(u), C) = Relabel(Rest(u, C), Op.addr, Op.arg)
    <3> DEFINE p == [k \in DOMAIN u |-> IF u[k].addr = Op.addr
                                        THEN [u[k] EXCEPT !.lft = Op.arg] ELSE u[k]]
    <3>1. Project(u) = p
      BY <1>4 DEF Project
    <3>2. Rest(p, C) = Relabel(Rest(u, C), Op.addr, Op.arg)
      BY <2>1, RestOfReplacement
    <3> QED BY <3>1, <3>2
  <2> QED BY <2>2
<1>5. CASE Op.kind \notin {"add", "remove", "replace"}
  BY <1>5 DEF Project
<1> QED BY <1>2, <1>3, <1>4, <1>5

-----------------------------------------------------------------------------
(* The second invariant: the groups the executor knows. *)

\* Addresses of prefix group g, and those of link l that the plan never removes.
Local(g) == {a \in Address : Group[a] = g}
Spared(l) == {a \in Address : \A j \in DOMAIN plan : ~Removes(j, l, a)}

\* A group nobody validated yet is expected as planned.
AsPlanned == \A key \in Keys \ DOMAIN groups : replay[key] = PlannedGroup(key)

\* What is expected of a validated group is what the acknowledged writes made of
\* it, but for what the plan removes.
Expected(expecting) ==
  \A key \in DOMAIN expecting :
    /\ key \in Keys
    /\ Rest(expecting[key], Spared(key[1].link)) = Rest(replay[key], Spared(key[1].link))

\* And what is expected of a write under way, is what it would add to that.
Predicted ==
  phase \in Underway /\ IsAddress(Op) /\ Key(Op) \in DOMAIN groups =>
    LET A == Spared(Op.target.link)
    IN  Rest(predicted, Local(Group[Op.addr]) \cap A) = Rest(Project(replay[Key(Op)]), A)

Known == Typed /\ AsPlanned /\ (~preview => Expected(groups)) /\ Predicted

LEMMA Selections ==
  ASSUME NEW s \in Seq(Entry), NEW g, NEW l
  PROVE  /\ Bare(Kept(s, l)) = Rest(s, Spared(l))
         /\ Bare(Kept(InGroup(s, g), l)) = Rest(s, Local(g) \cap Spared(l))
         /\ Rest(InGroup(s, g), Spared(l)) = Rest(s, Local(g) \cap Spared(l))
<1>1. Kept(s, l) = Only(s, OfAddress(Spared(l)))
  <2>1. {e \in Entry : \A j \in DOMAIN plan : ~Removes(j, l, e.addr)} = OfAddress(Spared(l))
    BY DEF OfAddress, Spared, Entry
  <2> QED BY <2>1 DEF Kept
<1>2. InGroup(s, g) = Only(s, OfAddress(Local(g)))
  <2>1. {e \in Entry : Group[e.addr] = g} = OfAddress(Local(g))
    BY DEF OfAddress, Local, Entry
  <2> QED BY <2>1 DEF InGroup
<1>3. Kept(InGroup(s, g), l) = Only(InGroup(s, g), OfAddress(Spared(l)))
  <2>1. {e \in Entry : \A j \in DOMAIN plan : ~Removes(j, l, e.addr)} = OfAddress(Spared(l))
    BY DEF OfAddress, Spared, Entry
  <2> QED BY <2>1 DEF Kept
<1>4. OfAddress(Local(g)) \cap OfAddress(Spared(l)) = OfAddress(Local(g) \cap Spared(l))
  BY DEF OfAddress
<1>5. Only(Only(s, OfAddress(Local(g))), OfAddress(Spared(l)))
        = Only(s, OfAddress(Local(g) \cap Spared(l)))
  <2> DEFINE S == OfAddress(Local(g))
             U == OfAddress(Spared(l))
  <2> HIDE DEF S, U
  <2>1. Only(Only(s, S), U) = Only(s, S \cap U)
    BY OnlyOnly
  <2> QED BY <1>4, <2>1 DEF S, U
<1> QED BY <1>1, <1>2, <1>3, <1>5 DEF Rest

LEMMA RemovalsAreNotSpared ==
  ASSUME CallTyped, At \in DOMAIN plan
  PROVE  /\ Op.kind = "remove" => Op.addr \notin Spared(Op.target.link)
         /\ \A a : RemovalCovered(a) => a \notin Spared(Op.target.link)
<1>1. Op.kind = "remove" => Removes(At, Op.target.link, Op.addr)
  BY DEF Removes, Op
<1>2. \A a : RemovalCovered(a) => \E j \in DOMAIN plan : Removes(j, Op.target.link, a)
  BY CoveredRemoval
<1> QED BY <1>1, <1>2 DEF Spared

LEMMA GroupsExpected ==
  ASSUME Known, phase = "decide", ~preview
  PROVE  Expected(Groups)
<1>1. At \in DOMAIN plan /\ Key(Op) \in Keys
  <2>1. At \in DOMAIN plan
    BY DEF Known, Typed, TurnTyped
  <2> QED BY <2>1 DEF Keys, Op
<1>2. CASE Establishes
  <2>1. /\ DOMAIN Groups = DOMAIN groups \cup {Key(Op)} /\ Key(Op) \notin DOMAIN groups
        /\ \A key \in DOMAIN Groups :
             Groups[key] = IF key = Key(Op) THEN Precondition ELSE groups[key]
    BY <1>2 DEF Groups, Expecting, Establishes
  <2>2. Precondition = replay[Key(Op)]
    BY <1>1, <2>1 DEF Known, AsPlanned, Precondition
  <2> QED BY <1>1, <2>1, <2>2 DEF Known, Expected
<1>3. CASE ~Establishes
  BY <1>3 DEF Known, Expected, Groups
<1> QED BY <1>2, <1>3

\* A group that matches is the one that was planned, and written since.
LEMMA MatchingGroupIsKnown ==
  ASSUME Known, phase = "decide", ~preview, IsAddress(Op), GroupError = "none",
         Key(Op) \in DOMAIN Groups
  PROVE  LET A == Spared(Op.target.link)
         IN  Rest(Device, Local(Group[Op.addr]) \cap A) = Rest(replay[Key(Op)], A)
<1> DEFINE A == Spared(Op.target.link)
<1>1. At \in DOMAIN plan /\ CallTyped /\ current \in Observation
  BY DEF Known, Typed, TurnTyped, MemoryTyped
<1>2. Groups[Key(Op)] = InGroup(Device, Group[Op.addr])
  BY DEF GroupError, GroupMatches
<1>3. Key(Op)[1] = Op.target
  BY DEF Key
<1>4. Rest(Groups[Key(Op)], A) = Rest(replay[Key(Op)], A)
  BY <1>3, GroupsExpected DEF Expected
<1>5. Rest(InGroup(Device, Group[Op.addr]), A) = Rest(Device, Local(Group[Op.addr]) \cap A)
  BY <1>1, DeviceTyped, Selections
<1> QED BY <1>2, <1>4, <1>5

LEMMA PlannedKept ==
  ASSUME UNCHANGED call
  PROVE  /\ Keys' = Keys /\ \A key : PlannedGroup(key)' = PlannedGroup(key)
         /\ \A l : Spared(l)' = Spared(l)
<1>1. plan' = plan /\ planned' = planned
  BY DEF call
<1>2. \A key : PlannedGroup(key)' = PlannedGroup(key)
  BY <1>1 DEF PlannedGroup
<1>3. \A l : Spared(l)' = Spared(l)
  BY <1>1 DEF Spared, Removes
<1> QED BY <1>1, <1>2, <1>3, KeysKept

\* The steps that change no expectation.
LEMMA KnownKept ==
  ASSUME Known, Typed', UNCHANGED <<call, groups, replay>>,
         phase' \in Underway =>
           phase \in Underway /\ UNCHANGED <<outcome, predicted>>
  PROVE  Known'
<1>1. /\ Keys' = Keys /\ \A key : PlannedGroup(key)' = PlannedGroup(key)
      /\ \A l : Spared(l)' = Spared(l)
  BY PlannedKept
<1>2. AsPlanned'
  BY <1>1 DEF Known, AsPlanned
<1>3. ~preview' => Expected(groups)'
  BY <1>1 DEF Known, Expected, call
<1>4. Predicted'
  <2> SUFFICES ASSUME phase' \in Underway
               PROVE  Predicted'
    BY DEF Predicted
  <2>1. Op' = Op /\ plan' = plan
    BY DEF Op, At, call
  <2>2. \A s : Project(s)' = Project(s)
    BY <2>1 DEF Project
  <2> QED BY <1>1, <2>1, <2>2 DEF Known, Predicted
<1> QED BY <1>2, <1>3, <1>4 DEF Known

LEMMA DecideAgainstKnown ==
  ASSUME Known, Typed', DecideAgainst \/ DecidePreview
  PROVE  Known'
<1>1. /\ phase = "decide" /\ phase' = "ready" /\ UNCHANGED <<call, replay>>
      /\ groups' \in {groups, Groups} \/ (preview /\ DOMAIN groups \subseteq DOMAIN groups')
  <2>1. DOMAIN groups \subseteq DOMAIN Groups
    BY DEF Groups, Expecting
  <2>2. CASE DecideAgainst
    BY <2>2 DEF DecideAgainst, Report, effects
  <2>3. CASE DecidePreview
    <3>1. DOMAIN groups' = DOMAIN Groups
      BY <2>3 DEF DecidePreview
    <3> QED BY <2>1, <2>3, <3>1 DEF DecidePreview, Report, effects
  <2> QED BY <2>2, <2>3
<1>2. /\ Keys' = Keys /\ \A key : PlannedGroup(key)' = PlannedGroup(key)
      /\ \A l : Spared(l)' = Spared(l)
  BY <1>1, PlannedKept
<1>3. AsPlanned'
  <2>1. DOMAIN groups \subseteq DOMAIN groups'
    BY <1>1 DEF Groups, Expecting
  <2> QED BY <1>1, <1>2, <2>1 DEF Known, AsPlanned
<1>4. ~preview' => Expected(groups)'
  <2> SUFFICES ASSUME ~preview
               PROVE  Expected(groups)'
    BY <1>1 DEF call
  <2>1. Expected(groups) /\ Expected(Groups) /\ groups' \in {groups, Groups}
    BY <1>1, GroupsExpected DEF Known
  <2> QED BY <1>1, <1>2, <2>1 DEF Expected
<1>5. Predicted'
  BY <1>1 DEF Predicted, Underway
<1> QED BY <1>3, <1>4, <1>5 DEF Known

LEMMA DecideWriteKnown ==
  ASSUME Known, Typed', DecideWrite
  PROVE  Known'
<1>1. /\ phase = "decide" /\ ~preview /\ groups' = Groups /\ predicted' = Projected
      /\ UNCHANGED <<call, outcome, replay>>
  BY DEF DecideWrite, MayWrite, effects
<1>2. /\ Keys' = Keys /\ \A key : PlannedGroup(key)' = PlannedGroup(key)
      /\ \A l : Spared(l)' = Spared(l)
  BY <1>1, PlannedKept
<1>3. /\ At \in DOMAIN plan /\ CallTyped /\ current \in Observation /\ Key(Op) \in Keys
      /\ replay \in [Keys -> Seq(Entry)]
  <2>1. /\ At \in DOMAIN plan /\ CallTyped /\ current \in Observation
        /\ replay \in [Keys -> Seq(Entry)]
    BY <1>1 DEF Known, Typed, TurnTyped, MemoryTyped, HistoryTyped
  <2> QED BY <2>1 DEF Keys, Op
<1>4. Expected(Groups)
  BY <1>1, GroupsExpected
<1>5. AsPlanned'
  <2>1. DOMAIN groups \subseteq DOMAIN groups'
    BY <1>1 DEF Groups, Expecting
  <2> QED BY <1>1, <1>2, <2>1 DEF Known, AsPlanned
<1>6. Expected(groups)'
  BY <1>1, <1>2, <1>4 DEF Expected
<1>7. ASSUME IsAddress(Op), Key(Op) \in DOMAIN Groups
      PROVE  LET A == Spared(Op.target.link)
             IN  Rest(Projected, Local(Group[Op.addr]) \cap A) = Rest(Project(replay[Key(Op)]), A)
  <2> DEFINE A == Spared(Op.target.link)
             B == Local(Group[Op.addr]) \cap A
  <2>1. GroupError = "none"
    BY VerdictMeans DEF DecideWrite
  <2>2. Rest(Device, B) = Rest(replay[Key(Op)], A)
    BY <1>1, <1>7, <2>1, MatchingGroupIsKnown
  <2>3. Op.addr \in Local(Group[Op.addr]) /\ (Op.kind = "remove" => Op.addr \notin A)
    BY <1>3, OpTyped, Operations, RemovalsAreNotSpared DEF Local
  <2>4. Device \in Seq(Entry) /\ replay[Key(Op)] \in Seq(Entry)
    BY <1>3, DeviceTyped
  <2>5. /\ Op.addr \in B <=> Op.addr \in A
        /\ Op.kind = "remove" => Op.addr \notin B
    BY <2>3
  <2> HIDE DEF A, B
  <2>6. Rest(Project(Device), B) = Rest(Project(replay[Key(Op)]), A)
    BY <1>3, <2>2, <2>4, <2>5, Projections
  <2> QED BY <2>6 DEF Projected, A, B
<1>8. Predicted'
  <2>1. Op' = Op /\ plan' = plan
    BY <1>1 DEF Op, At, call
  <2>2. \A s : Project(s)' = Project(s)
    BY <2>1 DEF Project
  <2> QED BY <1>1, <1>2, <1>7, <2>1, <2>2 DEF Predicted
<1> QED BY <1>5, <1>6, <1>8 DEF Known

\* A comparison that succeeds found what was predicted, but for what a cascade has
\* deleted ahead of its removal, and a promotion.
LEMMA Comparison ==
  ASSUME Known, phase = "written", IsAddress(Op), AsPredicted(Snapshot)
  PROVE  LET l == Op.target.link
             g == Group[Op.addr]
         IN  Rest(InGroup(Observed(list[l]), g), Spared(l)) = Rest(predicted, Local(g) \cap Spared(l))
<1> DEFINE l == Op.target.link
           g == Group[Op.addr]
           A == Spared(l)
           actual == InGroup(Observed(list[l]), g)
           expected == InGroup(predicted, g)
<1>1. /\ At \in DOMAIN plan /\ CallTyped /\ l \in Link /\ list[l] \in Seq(Entry)
      /\ predicted \in Seq(Entry)
  <2>1. At \in DOMAIN plan /\ CallTyped /\ KernelTyped /\ predicted \in Seq(Entry)
    BY DEF Known, Typed, TurnTyped, WritingTyped
  <2>2. l \in Link
    BY <2>1, OpTyped, Operations
  <2> QED BY <2>1, <2>2 DEF KernelTyped
<1>2. actual \in Seq(Entry) /\ expected \in Seq(Entry)
  BY <1>1, Observes, InGroupTyped
<1>3. Rest(expected, A) = Rest(predicted, Local(g) \cap A)
  BY <1>1, Selections
<1>4. ExpectedAfter(actual) = actual
  <2>1. Snapshot.list[Op.target.link] = Observed(list[l])
    BY <1>1 DEF Snapshot
  <2> QED BY <2>1 DEF AsPredicted
<1>5. CASE Op.kind # "remove"
  <2>1. ExpectedAfter(actual) = expected
    BY <1>5 DEF ExpectedAfter
  <2> QED BY <1>3, <1>4, <2>1
<1>6. CASE Op.kind = "remove"
  <2> DEFINE Gone(e) == e.secondary /\ e.addr \notin Addresses(actual) /\ RemovalCovered(e.addr)
             S == {e \in Entry : ~Gone(e)}
             left == Only(expected, S)
  <2>1. ExpectedAfter(actual) = PromotedFirst(left, actual)
    BY <1>6 DEF ExpectedAfter
  <2>2. S \cap OfAddress(A) = OfAddress(A)
    <3>1. \A a : RemovalCovered(a) => a \notin A
      BY <1>1, RemovalsAreNotSpared
    <3> QED BY <3>1 DEF OfAddress
  <2> HIDE DEF S, actual, expected, A
  <2>3. left \in Seq(Entry) /\ Rest(left, A) = Rest(expected, A)
    <3>1. left \in Seq(Entry)
      BY <1>2, OnlyType
    <3>2. Only(left, OfAddress(A)) = Only(expected, S \cap OfAddress(A))
      BY <1>2, OnlyOnly
    <3> QED BY <2>2, <3>1, <3>2 DEF Rest
  <2> HIDE DEF left
  <2>4. PromotedFirst(left, actual) \in Seq(Entry) /\ Bare(PromotedFirst(left, actual)) = Bare(left)
    BY <2>3, Promotions
  <2>5. Rest(PromotedFirst(left, actual), A) = Rest(left, A)
    BY <2>3, <2>4, BareOnly DEF Rest
  <2> QED BY <1>3, <1>4, <2>1, <2>3, <2>5 DEF actual, expected, A
<1> QED BY <1>5, <1>6

LEMMA VerifyKnown ==
  ASSUME Known, Typed', Verify
  PROVE  Known'
<1> DEFINE l == Op.target.link
           key == Key(Op)
           actual == InGroup(Observed(list[l]), Group[Op.addr])
<1>1. /\ phase = "written" /\ IsAddress(Op) /\ VerifyError(Snapshot) = "none"
      /\ phase' = "ready" /\ call' = call
      /\ groups' = IF key \in DOMAIN groups THEN [groups EXCEPT ![key] = actual] ELSE groups
      /\ replay' = IF key \in DOMAIN groups
                   THEN [replay EXCEPT ![key] = Project(replay[key])] ELSE replay
  BY DEF Verify, Report
<1>2. /\ Keys' = Keys /\ \A k : PlannedGroup(k)' = PlannedGroup(k)
      /\ \A k : Spared(k)' = Spared(k)
  BY <1>1, PlannedKept
<1>3. At \in DOMAIN plan /\ key \in Keys /\ replay \in [Keys -> Seq(Entry)]
  <2>1. At \in DOMAIN plan /\ replay \in [Keys -> Seq(Entry)]
    BY <1>1 DEF Known, Typed, TurnTyped, HistoryTyped
  <2> QED BY <2>1 DEF Keys, Op
<1>4. key[1] = Op.target
  BY DEF Key
<1>5. ASSUME key \in DOMAIN groups
      PROVE  Rest(actual, Spared(l)) = Rest(Project(replay[key]), Spared(l))
  <2>1. AsPredicted(Snapshot)
    <3>1. \A o : o = LocateError(Snapshot, Op.target) /\ o # "none" => VerifyError(Snapshot) = o
      BY DEF VerifyError
    <3> QED BY <1>1, <3>1 DEF VerifyError
  <2>2. Rest(actual, Spared(l)) = Rest(predicted, Local(Group[Op.addr]) \cap Spared(l))
    BY <1>1, <2>1, Comparison
  <2>3. Rest(predicted, Local(Group[Op.addr]) \cap Spared(l)) = Rest(Project(replay[key]), Spared(l))
    BY <1>1, <1>5 DEF Known, Predicted, Underway
  <2> QED BY <2>2, <2>3
<1>6. l = key[1].link
  BY <1>4
<1> HIDE DEF key, actual, l
<1>7. AsPlanned'
  BY <1>1, <1>2, <1>3 DEF Known, AsPlanned
<1>8. ~preview' => Expected(groups)'
  <2> SUFFICES ASSUME ~preview, NEW k \in DOMAIN groups'
               PROVE  /\ k \in Keys
                      /\ Rest(groups'[k], Spared(k[1].link)) = Rest(replay'[k], Spared(k[1].link))
    BY <1>1, <1>2 DEF Expected, call
  <2>1. k \in DOMAIN groups /\ Expected(groups)
    BY <1>1 DEF Known
  <2>2. k \in Keys /\ Rest(groups[k], Spared(k[1].link)) = Rest(replay[k], Spared(k[1].link))
    BY <2>1 DEF Expected
  <2>3. CASE k # key \/ key \notin DOMAIN groups
    <3>1. groups'[k] = groups[k] /\ replay'[k] = replay[k]
      BY <1>1, <1>3, <2>1, <2>2, <2>3
    <3> QED BY <2>2, <3>1
  <2>4. CASE k = key /\ key \in DOMAIN groups
    <3>1. groups'[k] = actual /\ replay'[k] = Project(replay[key])
      BY <1>1, <1>3, <2>4
    <3> QED BY <1>5, <1>6, <2>2, <2>4, <3>1
  <2> QED BY <2>3, <2>4
<1>9. Predicted'
  BY <1>1 DEF Predicted, Underway
<1> QED BY <1>7, <1>8, <1>9 DEF Known

LEMMA KnownStep == Known /\ [Next]_vars => Known'
<1> SUFFICES ASSUME Known, [Next]_vars
             PROVE  Known'
  OBVIOUS
<1>1. Typed'
  BY TypedStep DEF Known
<1>2. CASE DecideAgainst \/ DecidePreview
  BY <1>1, <1>2, DecideAgainstKnown
<1>3. CASE DecideWrite
  BY <1>1, <1>3, DecideWriteKnown
<1>4. CASE Verify
  BY <1>1, <1>4, VerifyKnown
<1>5. CASE Begin \/ Observe \/ DecideUnlocated
  <2>1. UNCHANGED <<call, groups, replay>> /\ phase' \notin Underway
    BY <1>5 DEF Begin, Observe, DecideUnlocated, Report, memory, effects, Underway
  <2> QED BY <1>1, <2>1, KnownKept
<1>6. CASE Confirm \/ Write \/ WriteNothing
  <2>1. UNCHANGED <<call, groups, replay>> /\ phase \in Underway
    BY <1>6 DEF Confirm, Write, WriteNothing, memory, effects, Underway
  <2>2. phase' = "ready" \/ UNCHANGED <<outcome, predicted>>
    BY <1>6 DEF Confirm, Write, WriteNothing, Report, writing
  <2>3. "ready" \notin Underway
    BY DEF Underway
  <2> QED BY <1>1, <2>1, <2>2, <2>3, KnownKept
<1>7. CASE Acknowledge \/ VerifyFails
  <2>1. UNCHANGED <<call, groups, replay>> /\ phase' \notin Underway
    BY <1>7 DEF Acknowledge, VerifyFails, Report, memory, effects, Underway
  <2> QED BY <1>1, <2>1, KnownKept
<1>8. CASE Cancel \/ Elsewhere \/ Returned \/ UNCHANGED vars
  <2>1. UNCHANGED <<call, phase, outcome, groups, replay, predicted>>
    BY <1>8 DEF Cancel, Elsewhere, AddElsewhere, DeleteElsewhere, SetElsewhere, DeleteLink,
                RenewLink, Meddle, Returned, vars, memory, effects, writing
  <2> QED BY <1>1, <2>1, KnownKept
<1> QED BY <1>2, <1>3, <1>4, <1>5, <1>6, <1>7, <1>8 DEF Next, Run, Decide

LEMMA InitKnown == Init => Known
<1> SUFFICES ASSUME Init
             PROVE  Known
  OBVIOUS
<1>1. DOMAIN groups = {} /\ replay = [k \in Keys |-> PlannedGroup(k)] /\ phase = "ready"
  BY DEF Init
<1> QED BY <1>1, InitTyped DEF Known, AsPlanned, Expected, Predicted, Underway

\* validate_group (executor.rs): a removal or a replacement is only written when
\* its prefix group is what the plan was made from and what the plan's own
\* acknowledged writes made of it since.
THEOREM OnlyKnownGroupsAreDestroyed == Spec => DestroysOnlyAKnownGroup
<1>1. Known /\ [Next]_vars =>
        [DecideWrite /\ Destructive(Op) =>
           LET l == Op.target.link
           IN  /\ Key(Op) \in DOMAIN Groups
               /\ Bare(Kept(InGroup(Device, Group[Op.addr]), l))
                    = Bare(Kept(replay[Key(Op)], l))]_vars
  <2> SUFFICES ASSUME Known, DecideWrite, Destructive(Op)
               PROVE  /\ Key(Op) \in DOMAIN Groups
                      /\ Bare(Kept(InGroup(Device, Group[Op.addr]), Op.target.link))
                           = Bare(Kept(replay[Key(Op)], Op.target.link))
    OBVIOUS
  <2>1. /\ phase = "decide" /\ ~preview /\ IsAddress(Op)
    BY DEF DecideWrite, MayWrite, Destructive, IsAddress
  <2>2. PICK equal \in LifetimesEqual : Verdict(equal) = "write"
    BY DEF DecideWrite
  <2>3. GroupError = "none" /\ SatisfiedError(equal) = "none" /\ ~Satisfied(equal)
    BY <2>2, VerdictMeans
  <2>4. Existing # {}
    BY <2>3 DEF Destructive, Satisfied, SatisfiedError
  <2>5. Key(Op) \in DOMAIN Groups
    BY <2>1, <2>3, <2>4 DEF GroupError
  <2>6. /\ At \in DOMAIN plan /\ CallTyped /\ current \in Observation
        /\ replay \in [Keys -> Seq(Entry)]
    BY <2>1 DEF Known, Typed, TurnTyped, MemoryTyped, HistoryTyped
  <2>7. Device \in Seq(Entry) /\ replay[Key(Op)] \in Seq(Entry)
    <3>1. Key(Op) \in Keys
      BY <2>6 DEF Keys, Op
    <3> QED BY <2>6, <3>1, DeviceTyped
  <2>8. Rest(Device, Local(Group[Op.addr]) \cap Spared(Op.target.link))
          = Rest(replay[Key(Op)], Spared(Op.target.link))
    BY <2>1, <2>3, <2>5, MatchingGroupIsKnown
  <2> QED BY <2>5, <2>7, <2>8, Selections
<1>2. Spec => []Known
  BY InitKnown, KnownStep, PTL DEF Spec
<1> QED BY <1>1, <1>2, PTL DEF Spec, DestroysOnlyAKnownGroup

-----------------------------------------------------------------------------
(* Lists without peers: an entry is in the prefix group of its own address. *)

PlainEntry == {e \in Entry : e.group = Group[e.addr]}
Plain(s) == Elements(s) \subseteq PlainEntry

\* The entries of the local prefix group are then those of the kernel's.
LEMMA PlainGroup ==
  ASSUME NEW s \in Seq(Entry), Plain(s), NEW g
  PROVE  InGroup(s, g) = Only(s, OfGroup(g))
<1>1. \A x \in Elements(s) : x \in {e \in Entry : Group[e.addr] = g} <=> x \in OfGroup(g)
  BY DEF Plain, PlainEntry, OfGroup
<1> QED BY <1>1, OnlySame DEF InGroup

\* An address then occurs once, and is observed as it is.
LEMMA PlainComplete ==
  ASSUME NEW s, KernelList(s), Plain(s)
  PROVE  Complete(s) /\ Observed(s) = s
<1>1. s \in Seq(Entry) /\ DOMAIN s = 1 .. Len(s) /\ Len(s) \in Nat
  BY DEF KernelList
<1>2. \A i \in DOMAIN s : s[i].group = Group[s[i].addr]
  BY <1>1 DEF Plain, PlainEntry, Elements
<1>3. Complete(s)
  BY <1>2 DEF Complete, KernelList
<1> DEFINE S == {s[k] : k \in {i \in DOMAIN s : \A j \in 1..(i - 1) : s[j].addr # s[i].addr}}
<1>4. Elements(s) \subseteq S
  <2> SUFFICES ASSUME NEW i \in DOMAIN s
               PROVE  s[i] \in S
    BY DEF Elements
  <2>1. \A j \in 1 .. (i - 1) : j \in DOMAIN s /\ j # i
    BY <1>1
  <2> QED BY <1>3, <2>1 DEF Complete
<1>5. Only(s, S) = s
  <2> HIDE DEF S
  <2> QED BY <1>1, <1>4, OnlyAll
<1> QED BY <1>3, <1>5 DEF Observed

LEMMA PlainInsert ==
  ASSUME NEW s, KernelList(s), Plain(s), NEW e \in PlainEntry, Named(s, e) = {}
  PROVE  Plain(Insert(s, e))
<1>1. s \in Seq(Entry) /\ e \in Entry
  BY DEF KernelList, PlainEntry
<1>2. CASE \E k \in DOMAIN s : s[k].group = e.group
  <2> DEFINE n == [e EXCEPT !.secondary = TRUE]
  <2>1. n \in Entry /\ n \in PlainEntry
    BY DEF PlainEntry, Entry
  <2>2. Insert(s, e) = Append(s, n)
    BY <1>2 DEF Insert
  <2> HIDE DEF n
  <2>3. Elements(Append(s, n)) = Elements(s) \cup {n}
    BY <1>1, <2>1, Appending
  <2> QED BY <2>1, <2>2, <2>3 DEF Plain
<1>3. CASE ~ \E k \in DOMAIN s : s[k].group = e.group
  <2> DEFINE n == [e EXCEPT !.secondary = FALSE]
             m == <<n>>
             p == Only(s, Primary)
             q == Only(s, Entry \ Primary)
  <2>1. n \in Entry /\ n \in PlainEntry
    BY DEF PlainEntry, Entry
  <2>2. Insert(s, e) = (p \o m) \o q
    BY <1>3 DEF Insert
  <2>3. /\ p \in Seq(Entry) /\ Elements(p) = Elements(s) \cap Primary
        /\ q \in Seq(Entry) /\ Elements(q) = Elements(s) \cap (Entry \ Primary)
    BY <1>1, OnlyType
  <2> HIDE DEF p, q, n
  <2>4. m \in Seq(Entry) /\ Elements(m) = {n}
    BY <2>1, Single
  <2> HIDE DEF m
  <2>5. p \o m \in Seq(Entry) /\ Elements(p \o m) = Elements(p) \cup {n}
    BY <2>3, <2>4, ElementsJoined
  <2> DEFINE c == p \o m
  <2>6. c \in Seq(Entry) /\ Elements(c) = Elements(p) \cup {n}
    BY <2>5
  <2> HIDE DEF c
  <2>7. Elements(c \o q) = Elements(c) \cup Elements(q)
    BY <2>3, <2>6, ElementsJoined
  <2> QED BY <2>1, <2>2, <2>3, <2>6, <2>7 DEF Plain, c
<1> QED BY <1>2, <1>3


\* What a deletion leaves of the group: the heirs, nothing, or the heirs with the
\* first of them promoted.
LEMMA PlainDelete ==
  ASSUME NEW s, KernelList(s), Plain(s), NEW e \in Elements(s)
  PROVE  LET left == Only(s, Entry \ {e})
             heirs == InGroup(left, e.group)
             actual == InGroup(Delete(s, e), e.group)
         IN  /\ Plain(Delete(s, e)) /\ Delete(s, e) \in Seq(Entry)
             /\ heirs \in Seq(Entry) /\ Elements(heirs) \subseteq Elements(s)
             /\ ~e.secondary => \A x \in Elements(heirs) : x.secondary /\ x.group = e.group
             /\ \/ actual = heirs
                \/ ~e.secondary /\ actual = <<>>
                \/ /\ heirs # <<>>
                   /\ actual = <<[Head(heirs) EXCEPT !.secondary = FALSE]>> \o Tail(heirs)
<1> DEFINE g == e.group
           left == Only(s, Entry \ {e})
           heirs == Only(left, OfGroup(g))
           d == Delete(s, e)
<1>1. /\ s \in Seq(Entry) /\ Apart(s, Conflict) /\ ToSet(s) = Elements(s)
      /\ Elements(s) \subseteq Entry /\ e \in Entry
  BY KernelLists, EntriesOf
<1>2. /\ left \in Seq(Entry) /\ Elements(left) = Elements(s) \ {e} /\ Apart(left, Conflict)
  <2>1. /\ left \in Seq(Entry) /\ Elements(left) = Elements(s) \cap (Entry \ {e})
        /\ Apart(left, Conflict)
    BY <1>1, OnlyType, OnlyApart
  <2> HIDE DEF left
  <2> QED BY <1>1, <2>1
<1>3. d = IF e.secondary \/ heirs = <<>> THEN left
          ELSE IF ~promote THEN Only(left, Entry \ OfGroup(g))
          ELSE (Only(left, Primary) \o <<[Head(heirs) EXCEPT !.secondary = FALSE]>>)
                 \o Only(left, Entry \ (Primary \cup {Head(heirs)}))
  BY DEF Delete
<1>4. Plain(left)
  <2> HIDE DEF left
  <2> QED BY <1>2 DEF Plain
<1>5. InGroup(left, g) = heirs
  <2> HIDE DEF left
  <2> QED BY <1>2, <1>4, PlainGroup
<1>6. /\ heirs \in Seq(Entry) /\ Elements(heirs) = Elements(left) \cap OfGroup(g)
      /\ Apart(heirs, Conflict)
  <2> HIDE DEF left
  <2> QED BY <1>2, OnlyType, OnlyApart
<1> HIDE DEF left, heirs, d
\* The other members of the group of a primary are secondary.
<1>7. ASSUME ~e.secondary
      PROVE  \A x \in Elements(left) : x.group = g => x.secondary
  <2> SUFFICES ASSUME NEW x \in Elements(left), x.group = g, ~x.secondary
               PROVE  FALSE
    <3>1. \A x \in Elements(left) : x \in Entry
      BY <1>1, <1>2
    <3> QED BY <3>1 DEF Entry
  <2>1. x \in Elements(s) /\ x # e /\ x \in Entry
    BY <1>1, <1>2
  <2>2. <<x, e>> \in Conflict
    BY <1>1, <1>7, <2>1, Conflicts
  <2> QED BY <1>1, <2>1, <2>2, ApartElements
<1>8. /\ Elements(heirs) \subseteq Elements(s)
      /\ ~e.secondary => \A x \in Elements(heirs) : x.secondary /\ x.group = g
  BY <1>2, <1>6, <1>7 DEF OfGroup
<1>9. CASE e.secondary \/ heirs = <<>>
  <2>1. d = left
    BY <1>3, <1>9
  <2> QED BY <1>2, <1>4, <1>5, <1>6, <1>8, <2>1 DEF d, left
<1>10. CASE ~(e.secondary \/ heirs = <<>>) /\ ~promote
  <2>1. d = Only(left, Entry \ OfGroup(g))
    BY <1>3, <1>10
  <2>2. d \in Seq(Entry) /\ Elements(d) = Elements(left) \cap (Entry \ OfGroup(g))
    BY <1>2, <2>1, OnlyType
  <2>3. Plain(d)
    BY <1>4, <2>2 DEF Plain
  <2>4. InGroup(d, g) = <<>>
    <3>1. Elements(d) \cap OfGroup(g) = {}
      BY <2>2
    <3>2. Only(d, OfGroup(g)) = <<>>
      BY <2>2, <3>1, OnlyNone
    <3> QED BY <2>2, <2>3, <3>2, PlainGroup
  <2> QED BY <1>5, <1>6, <1>8, <1>10, <2>2, <2>3, <2>4 DEF d, left
<1>11. CASE ~(e.secondary \/ heirs = <<>>) /\ promote
  <2> DEFINE h == Head(heirs)
             n == [h EXCEPT !.secondary = FALSE]
             m == <<n>>
             p == Only(left, Primary)
             q == Only(left, Entry \ (Primary \cup {h}))
             G == OfGroup(g)
  <2>1. d = (p \o m) \o q
    BY <1>3, <1>11
  <2>2. h \in Elements(heirs) /\ h = heirs[1] /\ 1 \in DOMAIN heirs
    <3>1. heirs # <<>> /\ Len(heirs) \in Nat /\ DOMAIN heirs = 1 .. Len(heirs) /\ Len(heirs) # 0
      BY <1>6, <1>11, EmptySeq
    <3>2. 1 \in DOMAIN heirs /\ h = heirs[1]
      BY <1>6, <3>1
    <3> QED BY <3>2 DEF Elements
  <2>3. h \in Elements(left) /\ h.group = g /\ h \in Entry /\ h.secondary /\ h \in PlainEntry
    BY <1>1, <1>2, <1>4, <1>6, <1>7, <1>11, <2>2 DEF OfGroup, Plain
  <2>4. Tail(heirs) \in Seq(Entry) /\ Only(heirs, Entry \ {h}) = Tail(heirs)
    <3>1. \A i \in DOMAIN heirs : heirs[i] = h => i = 1
      <4> SUFFICES ASSUME NEW i \in DOMAIN heirs, heirs[i] = h
                   PROVE  i = 1
        OBVIOUS
      <4>1. <<heirs[i], heirs[1]>> \in Conflict
        BY <2>2, <2>3, Conflicts
      <4> QED BY <1>6, <2>2, <4>1 DEF Apart
    <3> QED BY <1>6, <1>11, <3>1, HeadAndTail, OnlyTail
  <2> HIDE DEF h
  <2>5. n \in Entry /\ n.addr = h.addr /\ n.group = g /\ n \in PlainEntry /\ n \in G
    BY <2>3 DEF Entry, PlainEntry, OfGroup
  <2>6. /\ p \in Seq(Entry) /\ Elements(p) = Elements(left) \cap Primary
        /\ q \in Seq(Entry) /\ Elements(q) = Elements(left) \cap (Entry \ (Primary \cup {h}))
    BY <1>2, OnlyType
  <2>7. Only(p, G) = <<>>
    <3>1. \A x \in Elements(p) : x \in Elements(left) /\ ~x.secondary
      BY <2>6 DEF Primary
    <3>2. Elements(p) \cap G = {}
      BY <1>7, <1>11, <3>1 DEF OfGroup
    <3> HIDE DEF p, G
    <3> QED BY <2>6, <3>2, OnlyNone
  <2>8. Only(q, G) = Tail(heirs)
    <3> DEFINE R == Entry \ (Primary \cup {h})
               H == Entry \ {h}
    <3> HIDE DEF R, H, G
    <3>1. Only(q, G) = Only(left, R \cap G)
      BY <1>2, OnlyOnly DEF R
    <3>2. Only(heirs, H) = Only(left, G \cap H)
      BY <1>2, OnlyOnly DEF heirs, G
    <3>3. \A x \in Elements(left) : x \in R \cap G <=> x \in G \cap H
      <4> SUFFICES ASSUME NEW x \in Elements(left)
                   PROVE  x \in R \cap G <=> x \in G \cap H
        OBVIOUS
      <4>1. x \in Entry /\ (x \in G => x.secondary)
        BY <1>1, <1>2, <1>7, <1>11 DEF G, OfGroup
      <4>2. x \in G => x \notin Primary
        BY <4>1 DEF Primary
      <4> QED BY <4>1, <4>2 DEF R, H
    <3>4. Only(left, R \cap G) = Only(left, G \cap H)
      BY <1>2, <3>3, OnlySame
    <3> QED BY <2>4, <3>1, <3>2, <3>4 DEF H
  <2> HIDE DEF p, q, n
  <2>9. m \in Seq(Entry) /\ Elements(m) = {n}
    BY <2>5, Single
  <2>10. Only(m, G) = m
    <3>1. Elements(m) \subseteq G
      BY <2>5, <2>9
    <3> HIDE DEF m, G
    <3> QED BY <2>9, <3>1, OnlyAll
  <2> HIDE DEF m, G
  <2> DEFINE c == p \o m
  <2>11. /\ c \in Seq(Entry) /\ Elements(c) = Elements(p) \cup {n} /\ Only(c, G) = m
    <3>1. c \in Seq(Entry) /\ Elements(c) = Elements(p) \cup {n}
      BY <2>6, <2>9, ElementsJoined
    <3>2. Only(c, G) = Only(p, G) \o Only(m, G)
      BY <2>6, <2>9, OnlyConcat
    <3>3. <<>> \o m = m
      BY <2>9, ConcatEmptySeq
    <3> QED BY <2>7, <2>10, <3>1, <3>2, <3>3
  <2> HIDE DEF c
  <2>12. /\ d \in Seq(Entry) /\ Elements(d) = Elements(c) \cup Elements(q)
         /\ Only(d, G) = m \o Tail(heirs)
    <3>1. d = c \o q
      BY <2>1 DEF c
    <3>2. c \o q \in Seq(Entry) /\ Elements(c \o q) = Elements(c) \cup Elements(q)
      BY <2>6, <2>11, ElementsJoined
    <3>3. c \in Seq(Entry) /\ q \in Seq(Entry)
      BY <2>6, <2>11
    <3>4. Only(c \o q, G) = Only(c, G) \o Only(q, G)
      BY <3>3, OnlyConcat
    <3> QED BY <2>8, <2>11, <3>1, <3>2, <3>4
  <2>13. Plain(d)
    BY <1>4, <2>5, <2>6, <2>11, <2>12 DEF Plain
  <2>14. InGroup(d, g) = m \o Tail(heirs)
    BY <2>12, <2>13, PlainGroup DEF G
  <2> QED BY <1>5, <1>6, <1>8, <1>11, <2>12, <2>13, <2>14 DEF d, left, m, n, h
<1> QED BY <1>9, <1>10, <1>11

-----------------------------------------------------------------------------
(* What is expected after a write (verify_address_write). *)

LEMMA PromotesNothing ==
  ASSUME NEW s \in Seq(Entry)
  PROVE  PromotedFirst(s, s) = s
<1> DEFINE t == [s EXCEPT ![1].secondary = FALSE]
<1> SUFFICES ASSUME s # <<>>, ~Head(s).secondary
             PROVE  t = s
  BY DEF PromotedFirst
<1>1. Len(s) \in Nat /\ DOMAIN s = 1 .. Len(s) /\ Len(s) # 0
  BY EmptySeq
<1>2. 1 \in DOMAIN s /\ Head(s) = s[1] /\ s[1] \in Entry
  BY <1>1
<1>3. [s[1] EXCEPT !.secondary = FALSE] = s[1]
  BY <1>2 DEF Entry
<1> QED BY <1>2, <1>3

LEMMA PromotesFirst ==
  ASSUME NEW s \in Seq(Entry), s # <<>>
  PROVE  LET t == <<[Head(s) EXCEPT !.secondary = FALSE]>> \o Tail(s)
         IN  PromotedFirst(s, t) = t
<1> DEFINE h == Head(s)
           n == [h EXCEPT !.secondary = FALSE]
           r == Tail(s)
           t == <<n>> \o r
           u == [s EXCEPT ![1].secondary = FALSE]
<1>1. /\ h \in Entry /\ r \in Seq(Entry) /\ Len(s) \in Nat /\ Len(s) # 0 /\ Len(r) = Len(s) - 1
      /\ \A i \in 1 .. Len(r) : r[i] = s[i + 1]
  BY EmptySeq, HeadTailProperties
<1>2. h = s[1] /\ DOMAIN s = 1 .. Len(s) /\ 1 \in DOMAIN s
  BY <1>1
<1>3. n \in Entry /\ n.addr = h.addr /\ ~n.secondary
  BY <1>1 DEF Entry
<1>4. u = [i \in 1 .. Len(s) |-> IF i = 1 THEN n ELSE s[i]]
  BY <1>2
<1> HIDE DEF h, r, n, u
<1>5. /\ t \in Seq(Entry) /\ Len(t) = Len(r) + 1
      /\ \A i \in 1 .. Len(r) + 1 : t[i] = IF i = 1 THEN n ELSE r[i - 1]
  BY <1>1, <1>3, Preceded
<1> HIDE DEF t
<1>6. Len(t) = Len(s) /\ DOMAIN t = 1 .. Len(s)
  BY <1>1, <1>5
<1>7. ASSUME NEW i \in 1 .. Len(s)
      PROVE  t[i] = IF i = 1 THEN n ELSE s[i]
  <2>1. i \in 1 .. Len(r) + 1
    BY <1>1
  <2>2. CASE i # 1
    <3>1. i - 1 \in 1 .. Len(r) /\ (i - 1) + 1 = i
      BY <1>1, <2>2
    <3>2. r[i - 1] = s[i]
      BY <1>1, <3>1
    <3> QED BY <1>5, <2>1, <2>2, <3>2
  <2> QED BY <1>5, <2>1, <2>2
<1>8. t = u
  <2>1. t = [i \in DOMAIN t |-> t[i]]
    BY <1>5
  <2> QED BY <1>4, <1>6, <1>7, <2>1
<1>9. t # <<>> /\ Head(t) = n
  <2>1. Len(t) # 0 /\ t[1] = n
    BY <1>1, <1>2, <1>6, <1>7
  <2> QED BY <1>5, <2>1
<1>10. PromotedFirst(s, t) = u
  BY <1>3, <1>9 DEF PromotedFirst, h, u
<1> QED BY <1>8, <1>10 DEF t, n, h, r

\* A removal leaves the rest of the group, takes all of it along, or has the first
\* of it promoted.
LEMMA RemovalExpected ==
  ASSUME Op.kind = "remove", NEW heirs \in Seq(Entry),
         InGroup(predicted, Group[Op.addr]) = heirs, NEW actual,
         \/ actual = heirs
         \/ actual = <<>> /\ \A x \in Elements(heirs) : x.secondary /\ RemovalCovered(x.addr)
         \/ /\ heirs # <<>>
            /\ actual = <<[Head(heirs) EXCEPT !.secondary = FALSE]>> \o Tail(heirs)
  PROVE  ExpectedAfter(actual) = actual
<1> DEFINE S == {e \in Entry : ~(/\ e.secondary /\ e.addr \notin Addresses(actual)
                                 /\ RemovalCovered(e.addr))}
<1>1. ExpectedAfter(actual) = PromotedFirst(Only(heirs, S), actual)
  BY DEF ExpectedAfter
<1>2. Elements(heirs) \subseteq Entry
  BY EntriesOf
\* What is still there was not expected to go along.
<1>3. ASSUME \A x \in Elements(heirs) : x.addr \in Addresses(actual)
      PROVE  Only(heirs, S) = heirs
  <2>1. Elements(heirs) \subseteq S
    BY <1>2, <1>3
  <2> HIDE DEF S
  <2> QED BY <2>1, OnlyAll
<1>4. CASE actual = heirs
  <2>1. \A x \in Elements(heirs) : x.addr \in Addresses(actual)
    BY <1>4, EntriesOf
  <2> QED BY <1>1, <1>3, <1>4, <2>1, PromotesNothing
<1>5. CASE actual = <<>> /\ \A x \in Elements(heirs) : x.secondary /\ RemovalCovered(x.addr)
  <2>1. Addresses(actual) = {}
    BY <1>5 DEF Addresses, ToSet
  <2>2. Elements(heirs) \cap S = {}
    BY <1>5, <2>1
  <2>3. Only(heirs, S) = <<>>
    <3> HIDE DEF S
    <3> QED BY <2>2, OnlyNone
  <2> QED BY <1>1, <1>5, <2>3 DEF PromotedFirst
<1>6. CASE /\ heirs # <<>>
           /\ actual = <<[Head(heirs) EXCEPT !.secondary = FALSE]>> \o Tail(heirs)
  <2> DEFINE h == Head(heirs)
             n == [h EXCEPT !.secondary = FALSE]
             m == <<n>>
             r == Tail(heirs)
             k == <<h>>
  <2>1. h \in Entry /\ r \in Seq(Entry)
    BY <1>6, EmptySeq, HeadTailProperties
  <2>2. n \in Entry /\ n.addr = h.addr
    BY <2>1 DEF Entry
  <2>3. heirs = k \o r
    BY <1>6, HeadAndTail
  <2> HIDE DEF h, r, n
  <2>4. m \in Seq(Entry) /\ Elements(m) = {n} /\ k \in Seq(Entry) /\ Elements(k) = {h}
    BY <2>1, <2>2, Single
  <2> HIDE DEF m, k
  <2>5. /\ actual \in Seq(Entry) /\ Elements(actual) = {n} \cup Elements(r)
        /\ Elements(heirs) = {h} \cup Elements(r)
    <3>1. m \o r \in Seq(Entry) /\ Elements(m \o r) = {n} \cup Elements(r)
      BY <2>1, <2>4, ElementsJoined
    <3>2. Elements(k \o r) = {h} \cup Elements(r)
      BY <2>1, <2>4, ElementsJoined
    <3>3. actual = m \o r
      BY <1>6 DEF m, n, h, r
    <3> QED BY <2>3, <3>1, <3>2, <3>3
  <2>6. Addresses(actual) = {x.addr : x \in Elements(actual)}
    BY <2>5, EntriesOf
  <2>7. \A x \in Elements(heirs) : x.addr \in Addresses(actual)
    BY <2>2, <2>5, <2>6
  <2>8. PromotedFirst(heirs, actual) = actual
    BY <1>6, PromotesFirst
  <2> QED BY <1>1, <1>3, <2>7, <2>8
<1> QED BY <1>4, <1>5, <1>6

\* The comparison of verify_address_write when the link has list t.
Agrees(t) ==
  LET actual == InGroup(t, Group[Op.addr])
  IN  /\ ExpectedAfter(actual) = actual
      /\ \A e \in ToSet(predicted) : Group[e.addr] # Group[Op.addr] => e.addr \in Addresses(t)

\* What is decided without peers: the message is for the group of the address, and
\* what a removal takes along is removed later.
Message(s) ==
  /\ predicted = Project(s)
  /\ record \in [addr: Address, group: KernelGroup]
  /\ record.addr = Op.addr /\ record.group = Group[Op.addr]
  /\ Op.kind = "replace" => Named(s, record) # {}
  /\ Op.kind = "remove" =>
       \A e \in Named(s, record), x \in ToSet(s) :
         ~e.secondary /\ x.secondary /\ x.group = e.group => RemovalCovered(x.addr)

LEMMA AdditionAgrees ==
  ASSUME NEW s, KernelList(s), Plain(s), Op \in Operation, Op.kind = "add", Message(s),
         Accepts(s, Op, record)
  PROVE  Plain(Written(s, Op, record)) /\ Agrees(Written(s, Op, record))
<1> DEFINE g == Group[Op.addr]
           r == [group |-> g]
           e == NewEntry(Op, record)
           t == Insert(s, e)
           n == [e EXCEPT !.secondary = \E x \in ToSet(s) : x.group = g]
           G == OfGroup(g)
<1>1. /\ s \in Seq(Entry) /\ Elements(s) \subseteq Entry /\ ToSet(s) = Elements(s)
      /\ record.addr = Op.addr /\ record.group = g /\ predicted = Project(s)
      /\ record \in [addr: Address, group: KernelGroup] /\ IsAddress(Op) /\ Named(s, record) = {}
  BY EntriesOf DEF KernelList, Message, Accepts, IsAddress
<1>2. /\ e \in Entry /\ e.addr = Op.addr /\ e.group = g /\ ~e.secondary
      /\ e = NewEntry(Op, r)
  <2>1. record.group \in KernelGroup
    BY <1>1
  <2> QED BY <1>1, <2>1, NewEntryTyped DEF NewEntry
<1>3. Written(s, Op, record) = t /\ predicted = Append(s, n)
  BY <1>1, <1>2 DEF Written, Project
<1> HIDE DEF e
<1>4. e \in PlainEntry /\ Named(s, e) = {}
  BY <1>1, <1>2 DEF PlainEntry, Named
<1>5. Plain(t) /\ KernelList(t) /\ Addresses(t) = Addresses(s) \cup {Op.addr}
  BY <1>2, <1>4, PlainInsert, Inserted
<1>6. n \in Entry /\ n.addr = Op.addr /\ n.group = g
  BY <1>2 DEF Entry
<1>7. /\ predicted \in Seq(Entry) /\ ToSet(predicted) = Elements(s) \cup {n}
      /\ Plain(predicted)
  <2> HIDE DEF n
  <2>1. Append(s, n) \in Seq(Entry) /\ Elements(Append(s, n)) = Elements(s) \cup {n}
    BY <1>1, <1>6, Appending
  <2>2. predicted \in Seq(Entry) /\ Elements(predicted) = Elements(s) \cup {n}
    BY <1>3, <2>1
  <2> QED BY <1>6, <2>2, EntriesOf DEF Plain, PlainEntry
<1>8. InGroup(predicted, g) = InGroup(t, g)
  <2>1. CASE \E k \in DOMAIN s : s[k].group = g
    <3>1. n = [e EXCEPT !.secondary = TRUE]
      BY <1>1, <2>1 DEF Elements
    <3> QED BY <1>2, <1>3, <2>1, <3>1 DEF Insert
  <2>2. CASE ~ \E k \in DOMAIN s : s[k].group = g
    <3> DEFINE p == Only(s, Primary)
               q == Only(s, Entry \ Primary)
               m == <<n>>
               c == p \o m
    <3>1. n = e /\ [e EXCEPT !.secondary = FALSE] = e
      <4>1. ~ \E x \in ToSet(s) : x.group = g
        BY <1>1, <2>2 DEF Elements
      <4> QED BY <1>2, <4>1 DEF Entry
    <3>2. t = c \o q
      BY <1>2, <2>2, <3>1 DEF Insert
    <3>3. Elements(s) \cap G = {}
      BY <2>2 DEF OfGroup, Elements
    <3>4. /\ p \in Seq(Entry) /\ Elements(p) = Elements(s) \cap Primary
          /\ q \in Seq(Entry) /\ Elements(q) = Elements(s) \cap (Entry \ Primary)
      BY <1>1, OnlyType
    <3> HIDE DEF p, q, n
    <3>5. n \in G /\ m \in Seq(Entry) /\ Elements(m) = {n}
      BY <1>6, Single DEF OfGroup
    <3> HIDE DEF G, m
    <3>6. Only(s, G) = <<>> /\ Only(p, G) = <<>> /\ Only(q, G) = <<>>
      <4>1. Elements(p) \cap G = {} /\ Elements(q) \cap G = {}
        BY <3>3, <3>4
      <4> QED BY <1>1, <3>3, <3>4, <4>1, OnlyNone
    <3>7. Only(m, G) = m
      <4>1. Elements(m) \subseteq G
        BY <3>5
      <4> QED BY <3>5, <4>1, OnlyAll
    <3>8. c \in Seq(Entry) /\ Only(c, G) = m
      <4>1. Only(p \o m, G) = Only(p, G) \o Only(m, G)
        BY <3>4, <3>5, OnlyConcat
      <4>2. p \o m \in Seq(Entry)
        BY <3>4, <3>5, ElementsJoined
      <4>3. <<>> \o m = m
        BY <3>5, ConcatEmptySeq
      <4> QED BY <3>6, <3>7, <4>1, <4>2, <4>3
    <3> HIDE DEF c
    <3>9. Only(c \o q, G) = m
      <4>1. c \in Seq(Entry) /\ q \in Seq(Entry)
        BY <3>4, <3>8
      <4>2. Only(c \o q, G) = Only(c, G) \o Only(q, G)
        BY <4>1, OnlyConcat
      <4>3. m \o <<>> = m
        BY <3>5, ConcatEmptySeq
      <4> QED BY <3>6, <3>8, <4>2, <4>3
    <3>10. Only(Append(s, n), G) = Append(<<>>, n)
      <4>1. s \in Seq(Entry) /\ n \in Entry
        BY <1>1, <1>6
      <4>2. Only(Append(s, n), G) = IF n \in G THEN Append(Only(s, G), n) ELSE Only(s, G)
        BY <4>1, OnlyAppend
      <4> QED BY <3>5, <3>6, <4>2
    <3>11. Append(<<>>, n) = m
      BY DEF m
    <3>12. InGroup(predicted, g) = Only(predicted, G) /\ InGroup(t, g) = Only(t, G)
      BY <1>5, <1>7, PlainGroup DEF G, KernelList
    <3> QED BY <1>3, <3>2, <3>9, <3>10, <3>11, <3>12
  <2> QED BY <2>1, <2>2
<1>9. ExpectedAfter(InGroup(t, g)) = InGroup(t, g)
  BY <1>8 DEF ExpectedAfter
<1>10. \A x \in ToSet(predicted) : x.addr \in Addresses(t)
  <2>1. \A x \in Elements(s) : x.addr \in Addresses(s)
    BY <1>1 DEF Addresses
  <2> HIDE DEF n, t
  <2> QED BY <1>5, <1>6, <1>7, <2>1
<1> QED BY <1>3, <1>5, <1>9, <1>10 DEF Agrees

LEMMA ReplacementAgrees ==
  ASSUME NEW s, KernelList(s), Plain(s), Op \in Operation, Op.kind = "replace", Message(s),
         Accepts(s, Op, record)
  PROVE  Plain(Written(s, Op, record)) /\ Agrees(Written(s, Op, record))
<1> DEFINE t == Written(s, Op, record)
<1>1. /\ s \in Seq(Entry) /\ DOMAIN s = 1 .. Len(s)
      /\ record.addr = Op.addr /\ record.group = Group[Op.addr] /\ predicted = Project(s)
      /\ record \in [addr: Address, group: KernelGroup] /\ IsAddress(Op) /\ Named(s, record) # {}
      /\ Op.arg \in Lifetime
  BY Operations DEF KernelList, Message, IsAddress
<1>2. \A k \in DOMAIN s : s[k] \in PlainEntry /\ s[k] \in ToSet(s)
  BY DEF Plain, Elements, ToSet
<1>3. \A k \in DOMAIN s : s[k] \in Named(s, record) <=> s[k].addr = Op.addr
  BY <1>1, <1>2 DEF Named, PlainEntry
<1>4. /\ t = [k \in DOMAIN s |-> IF s[k] \in Named(s, record)
                                 THEN [s[k] EXCEPT !.lft = Op.arg] ELSE s[k]]
      /\ predicted = [k \in DOMAIN s |-> IF s[k].addr = Op.addr
                                         THEN [s[k] EXCEPT !.lft = Op.arg] ELSE s[k]]
  BY <1>1 DEF Written, Project
<1>5. predicted = t
  BY <1>3, <1>4
<1>6. Plain(t)
  <2>1. DOMAIN t = DOMAIN s /\ \A k \in DOMAIN s : t[k] \in PlainEntry
    BY <1>1, <1>2, <1>4 DEF PlainEntry, Entry
  <2> QED BY <2>1 DEF Plain, Elements
<1> HIDE DEF t
<1>7. ExpectedAfter(InGroup(t, Group[Op.addr])) = InGroup(t, Group[Op.addr])
  BY <1>5 DEF ExpectedAfter
<1>8. \A x \in ToSet(predicted) : x.addr \in Addresses(t)
  BY <1>5 DEF Addresses
<1> QED BY <1>6, <1>7, <1>8 DEF Agrees, t

LEMMA RemovalAgrees ==
  ASSUME NEW s, KernelList(s), Plain(s), Op \in Operation, Op.kind = "remove", Message(s),
         Accepts(s, Op, record)
  PROVE  Plain(Written(s, Op, record)) /\ Agrees(Written(s, Op, record))
<1> DEFINE g == Group[Op.addr]
<1>1. /\ s \in Seq(Entry) /\ Elements(s) \subseteq Entry /\ ToSet(s) = Elements(s)
      /\ record.addr = Op.addr /\ record.group = g /\ predicted = Project(s)
      /\ record \in [addr: Address, group: KernelGroup] /\ IsAddress(Op)
      /\ \A e \in Named(s, record), x \in ToSet(s) :
           ~e.secondary /\ x.secondary /\ x.group = e.group => RemovalCovered(x.addr)
  BY EntriesOf DEF KernelList, Message, IsAddress
<1>2. PICK e \in Named(s, record) : Written(s, Op, record) = Delete(s, e)
  BY <1>1, WritesList
<1>3. e \in Elements(s) /\ e.addr = Op.addr /\ e.group = g /\ e \in Entry
  BY <1>1, <1>2 DEF Named
<1> DEFINE left == Only(s, Entry \ {e})
           heirs == InGroup(left, e.group)
           d == Delete(s, e)
           actual == InGroup(d, e.group)
<1>4. /\ Plain(d) /\ d \in Seq(Entry)
      /\ heirs \in Seq(Entry) /\ Elements(heirs) \subseteq Elements(s)
      /\ ~e.secondary => \A x \in Elements(heirs) : x.secondary /\ x.group = e.group
      /\ \/ actual = heirs
         \/ ~e.secondary /\ actual = <<>>
         \/ /\ heirs # <<>>
            /\ actual = <<[Head(heirs) EXCEPT !.secondary = FALSE]>> \o Tail(heirs)
  BY <1>3, PlainDelete
<1>5. predicted = left
  <2> DEFINE S == {x \in Entry : x.addr # Op.addr}
             U == Entry \ {e}
  <2>1. Apart(s, SameAddress)
    BY <1>1, PlainComplete, Completes
  <2>2. ASSUME NEW x \in Elements(s)
        PROVE  x \in S <=> x \in U
    <3>1. x \in Entry
      BY <1>1
    <3>2. x.addr = e.addr => x = e
      <4> SUFFICES ASSUME x.addr = e.addr
                   PROVE  x = e
        OBVIOUS
      <4>1. <<x, e>> \in SameAddress
        BY <1>3, <3>1 DEF SameAddress
      <4> QED BY <1>3, <2>1, <4>1, ApartElements
    <3> QED BY <1>3, <3>1, <3>2
  <2>3. predicted = Only(s, S)
    BY <1>1 DEF Project
  <2> HIDE DEF S, U
  <2>4. Only(s, S) = Only(s, U)
    BY <1>1, <2>2, OnlySame
  <2> QED BY <2>3, <2>4 DEF U
<1> HIDE DEF left, heirs, d, actual
<1>6. ASSUME ~e.secondary
      PROVE  \A x \in Elements(heirs) : x.secondary /\ RemovalCovered(x.addr)
  BY <1>1, <1>2, <1>3, <1>4, <1>6
<1>7. ExpectedAfter(actual) = actual
  <2>1. InGroup(predicted, Group[Op.addr]) = heirs
    BY <1>3, <1>5 DEF heirs
  <2>2. \/ actual = heirs
        \/ actual = <<>> /\ \A x \in Elements(heirs) : x.secondary /\ RemovalCovered(x.addr)
        \/ /\ heirs # <<>>
           /\ actual = <<[Head(heirs) EXCEPT !.secondary = FALSE]>> \o Tail(heirs)
    BY <1>4, <1>6
  <2>3. heirs \in Seq(Entry)
    BY <1>4
  <2> QED BY <2>1, <2>2, <2>3, RemovalExpected
\* In other groups nothing is deleted.
<1>8. ASSUME NEW x \in ToSet(predicted), Group[x.addr] # g
      PROVE  x.addr \in Addresses(d)
  <2>1. x \in Elements(s) /\ x # e
    <3>1. left \in Seq(Entry) /\ Elements(left) = Elements(s) \cap (Entry \ {e})
      BY <1>1, OnlyType DEF left
    <3>2. x \in Elements(left)
      BY <1>5, <1>8, <3>1, EntriesOf
    <3> QED BY <3>1, <3>2
  <2>2. x.addr \in Addresses(s) /\ x.addr # e.addr
    BY <1>1, <1>3, <1>8, <2>1 DEF Addresses
  <2>3. \A y \in ToSet(s) : y.addr = x.addr => y.group # e.group
    BY <1>1, <1>3, <1>8 DEF Plain, PlainEntry
  <2>4. \A a \in Addresses(s) \ Addresses(Delete(s, e)) :
          \/ a = e.addr
          \/ ~e.secondary /\ \E y \in ToSet(s) : y.addr = a /\ y.secondary /\ y.group = e.group
    BY <1>1, <1>3, Deleted
  <2> QED BY <2>2, <2>3, <2>4 DEF d
<1> QED BY <1>2, <1>3, <1>4, <1>7, <1>8 DEF Agrees, d, actual

\* A write changes the addresses of a link as the executor expects.
LEMMA WriteAgrees ==
  ASSUME NEW s, KernelList(s), Plain(s), Op \in Operation, IsAddress(Op), Message(s),
         Accepts(s, Op, record)
  PROVE  Plain(Written(s, Op, record)) /\ Agrees(Written(s, Op, record))
BY AdditionAgrees, ReplacementAgrees, RemovalAgrees DEF IsAddress

-----------------------------------------------------------------------------
(* Without peers, and with nobody else around. *)

\* No address of any link has a peer.
NoPeers ==
  \A lists \in Lists, l \in Link : \A k \in DOMAIN lists[l] :
    lists[l][k].group = Group[lists[l][k].addr]

\* Then a write is for a device that is still there, is the one that was decided
\* on, and is found as expected.
Messaged == Message(list[Op.target.link])
Verified == Agrees(list[Op.target.link])
Foreseen ==
  meddled = 0 =>
    /\ \A l \in Link : Plain(list[l])
    /\ phase \in Underway => LocateError(Snapshot, Op.target) = "none"
    /\ phase \in {"confirm", "submitted"} /\ IsAddress(Op) => Messaged
    /\ phase = "written" /\ IsAddress(Op) => Verified

LEMMA SameOperation ==
  ASSUME plan' = plan, outcome' = outcome
  PROVE  /\ At' = At /\ Op' = Op /\ Eligible' = Eligible
         /\ \A a : RemovalCovered(a)' <=> RemovalCovered(a)
<1>1. At' = At /\ Op' = Op /\ Eligible' = Eligible
  BY DEF At, Op, Eligible
<1> QED BY <1>1 DEF RemovalCovered

LEMMA MessagedNow ==
  ASSUME plan' = plan, outcome' = outcome, NEW s, list'[Op.target.link] = s,
         predicted' = Project(s), record' \in [addr: Address, group: KernelGroup],
         record'.addr = Op.addr, record'.group = Group[Op.addr],
         Op.kind = "replace" => Named(s, record') # {},
         Op.kind = "remove" =>
           \A e \in Named(s, record'), x \in ToSet(s) :
             ~e.secondary /\ x.secondary /\ x.group = e.group => RemovalCovered(x.addr)
  PROVE  Messaged'
<1>1. /\ At' = At /\ Op' = Op
      /\ \A a : RemovalCovered(a)' <=> RemovalCovered(a)
  BY SameOperation
<1>2. Project(s)' = Project(s)
  BY <1>1 DEF Project
<1>3. Message(s)' <=> Messaged'
  BY <1>1 DEF Messaged, Message, Project
<1> QED BY <1>1, <1>2, <1>3 DEF Message

LEMMA VerifiedNow ==
  ASSUME plan' = plan, outcome' = outcome, predicted' = predicted, NEW t,
         list'[Op.target.link] = t, Agrees(t)
  PROVE  Verified'
<1>1. /\ At' = At /\ Op' = Op
      /\ \A a : RemovalCovered(a)' <=> RemovalCovered(a)
  BY SameOperation
<1> QED BY <1>1 DEF Verified, Agrees, ExpectedAfter

LEMMA ForeseenKept ==
  ASSUME Foreseen, UNCHANGED <<kernel, plan, outcome, writing, meddled>>,
         phase' \in {"confirm", "submitted"} => phase \in {"confirm", "submitted"},
         phase' = "written" => phase = "written"
  PROVE  Foreseen'
<1> SUFFICES ASSUME meddled = 0
             PROVE  /\ \A l \in Link : Plain(list[l])'
                    /\ phase' \in Underway => LocateError(Snapshot, Op.target)' = "none"
                    /\ phase' \in {"confirm", "submitted"} /\ IsAddress(Op') => Messaged'
                    /\ phase' = "written" /\ IsAddress(Op') => Verified'
  BY DEF Foreseen, IsAddress
<1>1. /\ At' = At /\ Op' = Op /\ Snapshot' = Snapshot
      /\ list' = list /\ predicted' = predicted /\ record' = record
  BY SameOperation, SnapshotKept DEF kernel, writing
<1>2. \A l \in Link : Plain(list[l])'
  BY <1>1 DEF Foreseen, Plain
<1>3. phase' \in Underway => LocateError(Snapshot, Op.target)' = "none"
  BY <1>1 DEF Foreseen, Underway, LocateError
<1>4. phase' \in {"confirm", "submitted"} /\ IsAddress(Op') => Messaged'
  BY <1>1, MessagedNow DEF Foreseen, Messaged, Message
<1>5. phase' = "written" /\ IsAddress(Op') => Verified'
  BY <1>1, VerifiedNow DEF Foreseen, Verified
<1> QED BY <1>2, <1>3, <1>4, <1>5

\* A step after which nothing is under way.
LEMMA ForeseenAtRest ==
  ASSUME Foreseen, list' = list, meddled' = meddled, phase' \notin Underway
  PROVE  Foreseen'
<1>1. \A l \in Link : Plain(list'[l]) <=> Plain(list[l])
  OBVIOUS
<1> QED BY <1>1 DEF Foreseen, Underway, Plain

LEMMA DecideWriteForeseen ==
  ASSUME AddressInv, Foreseen, DecideWrite
  PROVE  Foreseen'
<1> SUFFICES ASSUME meddled' = 0
             PROVE  /\ \A l \in Link : Plain(list[l])'
                    /\ LocateError(Snapshot, Op.target)' = "none"
                    /\ IsAddress(Op') => Messaged'
  BY DEF Foreseen, IsAddress, DecideWrite
<1> DEFINE l == Op.target.link
           s == list[l]
<1>1. /\ phase = "decide" /\ ~preview /\ LocateError(current, Op.target) = "none"
      /\ predicted' = Projected /\ record' = RecordOf(Op, Existing)
      /\ UNCHANGED <<kernel, call, outcome, meddled>>
  BY DEF DecideWrite, MayWrite
<1>2. meddled = 0 /\ meddled = seen
  BY <1>1 DEF AddressInv, Typed, HistoryTyped
<1>3. /\ current = Snapshot /\ At \in DOMAIN plan /\ Op \in Operation /\ l \in Link
      /\ Device = Observed(s)
  BY <1>1, <1>2, FreshDevice DEF AddressInv
<1>4. /\ plan' = plan /\ list' = list /\ At' = At /\ Op' = Op /\ Snapshot' = Snapshot
  BY <1>1, SameOperation, SnapshotKept DEF kernel, call
<1>5. \A k \in Link : Plain(list[k])'
  BY <1>2, <1>4 DEF Foreseen, Plain
<1>6. LocateError(Snapshot, Op.target)' = "none"
  BY <1>1, <1>3, <1>4 DEF LocateError
<1>7. ASSUME IsAddress(Op)
      PROVE  Messaged'
  <2>1. KernelList(s) /\ Plain(s)
    BY <1>2, <1>3 DEF Foreseen, AddressInv, Typed, KernelLike
  <2>2. Device = s
    BY <1>3, <2>1, PlainComplete
  <2>3. PICK equal \in LifetimesEqual : Verdict(equal) = "write"
    BY DEF DecideWrite
  <2>4. /\ GroupError = "none" /\ SatisfiedError(equal) = "none"
        /\ ~Satisfied(equal) /\ ~CascadeUncovered
    BY <2>3, VerdictMeans
  <2>5. Existing = {e \in ToSet(s) : e.addr = Op.addr}
    BY <2>2 DEF Existing, Entries
  <2>6. \A e \in Existing : e \in Entry /\ e.addr = Op.addr /\ e.group = Group[Op.addr]
    <3>1. \A e \in ToSet(s) : e \in PlainEntry
      BY <2>1, EntriesOf DEF Plain, KernelList
    <3> QED BY <2>5, <3>1 DEF PlainEntry
  <2>7. /\ record' \in [addr: Address, group: KernelGroup]
        /\ record'.addr = Op.addr /\ record'.group = Group[Op.addr]
    <3>1. RecordOf(Op, Existing) \in [addr: Address, group: KernelGroup]
          /\ RecordOf(Op, Existing).addr = Op.addr
      BY <1>3, <2>6, RecordTyped
    <3>2. RecordOf(Op, Existing).group = Group[Op.addr]
      BY <2>6 DEF RecordOf
    <3> QED BY <1>1, <3>1, <3>2
  <2>8. ASSUME Op.kind = "replace"
        PROVE  Named(s, record') # {}
    <3>1. Existing # {}
      BY <2>4, <2>8 DEF SatisfiedError
    <3> QED BY <2>5, <2>6, <2>7, <3>1 DEF Named
  <2>9. ASSUME Op.kind = "remove",
               NEW e \in Named(s, record'), NEW x \in ToSet(s),
               ~e.secondary, x.secondary, x.group = e.group
        PROVE  RemovalCovered(x.addr)
    <3>1. e \in Existing /\ x \in ToSet(Device)
      BY <2>2, <2>5, <2>7, <2>9 DEF Named
    <3> QED BY <2>4, <2>9, <3>1 DEF CascadeUncovered
  <2>10. predicted' = Project(s) /\ list'[l] = s
    BY <1>1, <1>4, <2>2 DEF Projected
  <2> HIDE DEF s
  <2> QED BY <1>1, <1>4, <2>7, <2>8, <2>9, <2>10, MessagedNow
<1> QED BY <1>4, <1>5, <1>6, <1>7

LEMMA WriteForeseen ==
  ASSUME AddressInv, Foreseen, Write
  PROVE  Foreseen'
<1> SUFFICES ASSUME meddled' = 0
             PROVE  /\ \A l \in Link : Plain(list[l])'
                    /\ LocateError(Snapshot, Op.target)' = "none"
                    /\ IsAddress(Op') => Verified'
  BY DEF Foreseen, IsAddress, Write
<1> DEFINE l == Op.target.link
           s == list[l]
           t == Written(s, Op, record)
<1>1. /\ phase = "submitted" /\ Accepts(s, Op, record)
      /\ list' = [list EXCEPT ![l] = t] /\ token' = token
      /\ UNCHANGED <<call, outcome, meddled, writing>>
  BY DEF Write
<1>2. /\ plan' = plan /\ At' = At /\ Op' = Op /\ meddled = 0
      /\ predicted' = predicted
  BY <1>1, SameOperation DEF call, writing
<1>3. At \in DOMAIN plan /\ Op \in Operation /\ l \in Link /\ list \in [Link -> Seq(Entry)]
  <2>1. At \in DOMAIN plan /\ CallTyped
    BY <1>1 DEF AddressInv, Typed, TurnTyped
  <2>2. Op \in Operation
    BY <2>1, OpTyped
  <2> QED BY <2>1, <2>2, Operations DEF AddressInv, Typed, KernelTyped
<1>4. KernelList(s) /\ Plain(s) /\ LocateError(Snapshot, Op.target) = "none"
      /\ (IsAddress(Op) => Message(s))
  BY <1>1, <1>2, <1>3 DEF Foreseen, Underway, Messaged, AddressInv, Typed, KernelLike
<1>5. Plain(t) /\ (IsAddress(Op) => Agrees(t))
  <2> HIDE DEF s
  <2>1. CASE IsAddress(Op)
    BY <1>1, <1>3, <1>4, <2>1, WriteAgrees
  <2>2. CASE ~IsAddress(Op)
    BY <1>3, <1>4, <2>2, WritesNoList
  <2> QED BY <2>1, <2>2
<1> HIDE DEF t
<1>6. list'[l] = t /\ \A k \in Link : k # l => list'[k] = list[k]
  BY <1>1, <1>3
<1>7. \A k \in Link : Plain(list[k])'
  <2>1. \A k \in Link : Plain(list[k])
    BY <1>2 DEF Foreseen
  <2> QED BY <1>5, <1>6, <2>1 DEF Plain
<1>8. LocateError(Snapshot, Op.target)' = "none"
  BY <1>1, <1>2, <1>4 DEF LocateError, Snapshot
<1>9. IsAddress(Op) => Verified'
  BY <1>1, <1>2, <1>5, <1>6, VerifiedNow
<1> QED BY <1>2, <1>7, <1>8, <1>9

LEMMA ForeseenStep == AddressInv /\ Foreseen /\ [Next]_vars => Foreseen'
<1> SUFFICES ASSUME AddressInv, Foreseen, [Next]_vars
             PROVE  Foreseen'
  OBVIOUS
<1>1. CASE Elsewhere
  <2>1. meddled' = meddled + 1
    BY <1>1 DEF Elsewhere, AddElsewhere, DeleteElsewhere, SetElsewhere, DeleteLink, RenewLink,
                Meddle
  <2>2. meddled' # 0
    BY <2>1 DEF AddressInv, Typed, HistoryTyped
  <2> QED BY <2>2 DEF Foreseen
<1>2. CASE Cancel \/ Returned \/ UNCHANGED vars
  <2>1. UNCHANGED <<kernel, plan, outcome, writing, meddled, phase>>
    BY <1>2 DEF Cancel, Returned, vars, call
  <2> QED BY <2>1, ForeseenKept
<1>3. CASE Begin \/ Observe
  <2>1. /\ UNCHANGED <<kernel, meddled>> /\ phase' \in {"ready", "observe", "decide"}
    BY <1>3 DEF Begin, Observe, Report
  <2> QED BY <2>1, ForeseenAtRest DEF Underway, kernel
<1>4. CASE DecideUnlocated \/ DecideAgainst \/ DecidePreview
  <2>1. /\ UNCHANGED <<kernel, meddled>> /\ phase' = "ready"
    BY <1>4 DEF DecideUnlocated, DecideAgainst, DecidePreview, Report
  <2> QED BY <2>1, ForeseenAtRest DEF Underway, kernel
<1>5. CASE DecideWrite
  BY <1>5, DecideWriteForeseen
<1>6. CASE Confirm
  <2>1. /\ phase = "confirm" /\ UNCHANGED <<kernel, call, meddled>>
        /\ phase' = "ready" \/ (phase' = "submitted" /\ UNCHANGED <<outcome, writing>>)
    BY <1>6 DEF Confirm, Report
  <2>2. CASE phase' = "ready"
    BY <2>1, <2>2, ForeseenAtRest DEF Underway, kernel
  <2>3. CASE phase' = "submitted" /\ UNCHANGED <<outcome, writing>>
    BY <2>1, <2>3, ForeseenKept DEF call
  <2> QED BY <2>1, <2>2, <2>3
<1>7. CASE Write
  BY <1>7, WriteForeseen
<1>8. CASE WriteNothing \/ Acknowledge \/ Verify \/ VerifyFails
  <2>1. /\ UNCHANGED <<kernel, meddled>> /\ phase' = "ready"
    BY <1>8 DEF WriteNothing, Acknowledge, Verify, VerifyFails, Report
  <2> QED BY <2>1, ForeseenAtRest DEF Underway, kernel
<1> QED BY <1>1, <1>2, <1>3, <1>4, <1>5, <1>6, <1>7, <1>8 DEF Next, Run, Decide

LEMMA InitForeseen == NoPeers /\ Init => Foreseen
<1> SUFFICES ASSUME NoPeers, Init
             PROVE  Foreseen
  OBVIOUS
<1>1. list \in Lists /\ phase = "ready" /\ \A l \in Link : list[l] \in Seq(Entry)
  BY InitTyped DEF Init, Typed, KernelTyped
<1>2. ASSUME NEW l \in Link
      PROVE  Plain(list[l])
  BY <1>1 DEF NoPeers, Plain, PlainEntry, Elements
<1> QED BY <1>1, <1>2 DEF Foreseen, Underway

\* verify_address_write (executor.rs): without peers, whatever the plan and whether
\* the kernel promotes secondaries or not, addresses that nobody else changed are
\* never reported as changed unexpectedly.
THEOREM PlainWritesVerify == NoPeers => (Spec => QuietWritesVerify)
<1>1. AddressInv /\ Foreseen /\ [Next]_vars =>
        [VerifyFails /\ meddled = 0 /\ faults = 0 => outcome'[At] # "StaleState"]_vars
  <2> SUFFICES ASSUME AddressInv, Foreseen, VerifyFails, meddled = 0
               PROVE  outcome'[At] # "StaleState"
    OBVIOUS
  <2> DEFINE l == Op.target.link
  <2>1. phase = "written" /\ outcome \in Seq(Reported)
    BY DEF VerifyFails, AddressInv, Typed, TurnTyped
  <2>2. \A o \in Reported : Report(o) => outcome'[At] = o
    BY <2>1 DEF Report, At
  <2>3. ASSUME IsAddress(Op)
        PROVE  VerifyError(Snapshot) = "none"
    <3>1. l \in Link
      BY <2>1, OpTyped, Operations DEF AddressInv, Typed, TurnTyped
    <3>2. KernelList(list[l]) /\ Plain(list[l])
      BY <3>1 DEF Foreseen, AddressInv, Typed, KernelLike
    <3>3. Complete(list[l]) /\ Observed(list[l]) = list[l]
      BY <3>2, PlainComplete
    <3>4. Snapshot.complete[l] = TRUE /\ Snapshot.list[l] = list[l]
      BY <3>1, <3>3 DEF Snapshot
    <3>5. LocateError(Snapshot, Op.target) = "none" /\ Agrees(list[l])
      BY <2>1, <2>3 DEF Foreseen, Underway, Verified
    <3>6. AsPredicted(Snapshot)
      BY <3>4, <3>5 DEF AsPredicted, Agrees
    <3> QED BY <3>4, <3>5, <3>6 DEF VerifyError
  <2>4. Report("OutcomeUnknown")
    BY <2>3 DEF VerifyFails
  <2> QED BY <2>2, <2>4 DEF Reported
<1>2. NoPeers => (Spec => []Foreseen)
  BY InitForeseen, ForeseenStep, AddressInvariantHolds, PTL DEF Spec
<1> QED BY <1>1, <1>2, AddressInvariantHolds, PTL DEF Spec, QuietWritesVerify
=============================================================================
