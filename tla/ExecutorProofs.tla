---------------------------- MODULE ExecutorProofs ----------------------------
(***************************************************************************)
(* Proofs about Executor: for any plans, links and addresses, any failures  *)
(* and whatever other programs do, operations are carried out as            *)
(* PlanExecution promises, errors are reported before writes only, and a    *)
(* caller who gave up gets nothing written but what was on its way.         *)
(*                                                                          *)
(* Those are facts about control.  What an address list holds is not        *)
(* looked into: each step is first shown to be one of three moves, and the  *)
(* invariant and the refinement are shown of those.  The lists come after:  *)
(* what the kernel and the executor make of any list, and with it the types *)
(* of all variables, on which AddressProofs builds.                         *)
(***************************************************************************)
EXTENDS Executor, ListProofs

-----------------------------------------------------------------------------
(* The inductive invariant. *)

\* The write of the operation in turn is decided.
Underway == {"confirm", "submitted", "written"}

\* What a report may say of an operation whose write reached the kernel.
AfterWrite == {"succeeded", "OutcomeUnknown", "StaleState", "NotFound"}

Control ==
  /\ plan \in Plans /\ preview \in BOOLEAN
  /\ outcome \in Seq(Reported)
  /\ phase \in {"ready", "observe", "decide"} \cup Underway

\* An operation that was begun is in turn, and its dependencies were carried out.
InTurn == phase # "ready" => At \in DOMAIN plan /\ Op.deps \subseteq Eligible

\* One that is being written is no preview and not of an unmanaged link, and a
\* caller who gave up meanwhile did so after it was handed to the transport.
OnItsWay ==
  phase \in Underway =>
    ~preview /\ Op.target.link \notin Unmanaged /\ (cancelled => At <= dropped)

\* Operations reach the kernel in turn and once, and in no dry run.
ReachedInTurn ==
  /\ reached \subseteq DOMAIN outcome \cup (IF phase = "written" THEN {At} ELSE {})
  /\ phase = "written" => At \in reached
  /\ preview => reached = {}

Inv ==
  /\ Control /\ InTurn /\ OnItsWay /\ ReachedInTurn
  /\ ErrorsBeforeTheWrite /\ NothingWrittenLater

-----------------------------------------------------------------------------
(* The three moves. *)

Same == UNCHANGED <<plan, preview, cancelled, reached, dropped>>

\* The operation in turn gets its outcome.
Gives(o) ==
  /\ At \in DOMAIN plan /\ o \in Reported
  /\ outcome' = Append(outcome, o) /\ phase' = "ready" /\ Same
  /\ o \in {"succeeded", "satisfied", "readonly"} => Op.deps \subseteq Eligible
  /\ o = "blocked" => ~(Op.deps \subseteq Eligible)
  /\ o = "succeeded" => preview \/ At \in reached
  /\ At \in reached => o \in AfterWrite

\* It is looked at further, before the kernel carries anything out.
Advances ==
  /\ At \in DOMAIN plan /\ Op.deps \subseteq Eligible
  /\ phase # "written" /\ phase' \in {"observe", "decide", "confirm", "submitted"}
  /\ phase' \in Underway =>
       ~preview /\ Op.target.link \notin Unmanaged /\ (cancelled => At <= dropped)
  /\ outcome' = outcome /\ Same

\* It reaches the kernel.
Reaches ==
  /\ phase = "submitted" /\ phase' = "written"
  /\ reached' = reached \cup {At}
  /\ UNCHANGED <<outcome, plan, preview, cancelled, dropped>>

LEMMA OutcomeIsASequence ==
  ASSUME Control
  PROVE  /\ Len(outcome) \in Nat /\ DOMAIN outcome = 1 .. Len(outcome)
         /\ At \in Nat /\ At \notin DOMAIN outcome /\ Eligible \subseteq DOMAIN outcome
BY DEF Control, At, Eligible

\* What is not written yet has not reached the kernel.
LEMMA NotReachedYet ==
  ASSUME Inv, phase # "written"
  PROVE  At \notin reached
BY OutcomeIsASequence DEF Inv, ReachedInTurn

\* The errors of the decisions.
LEMMA Locations ==
  ASSUME NEW obs, NEW t
  PROVE  /\ LocateError(obs, t) \in {"StaleState", "NotFound", "UnsupportedEntityType", "none"}
         /\ LocateError(obs, t) = "UnsupportedEntityType" => t.link \in Unmanaged
         /\ LocateError(obs, t) = "none" => t.link \notin Unmanaged
BY DEF LocateError

LEMMA Verdicts ==
  ASSUME NEW equal
  PROVE  Verdict(equal) \in {"readonly", "QueryFailed", "StaleState", "NotFound",
                             "ApplyFailed", "satisfied", "write"}
<1>1. GroupError \in {"none", "QueryFailed", "StaleState"}
  BY DEF GroupError
<1>2. SatisfiedError(equal) \in {"none", "NotFound", "ApplyFailed"}
  BY DEF SatisfiedError
<1> QED BY <1>1, <1>2 DEF Verdict

LEMMA Refusals ==
  ASSUME Control
  PROVE  /\ Refusal \in {"none", "UnsupportedOperation", "blocked", "ApplyFailed"}
         /\ Refusal = "blocked" => ~(Op.deps \subseteq Eligible)
         /\ Refusal = "none" => Op.deps \subseteq Eligible
BY DEF Refusal

LEMMA BeginMoves ==
  ASSUME Inv, Begin
  PROVE  (\E o \in Reported : Gives(o)) \/ Advances
<1>1. phase = "ready" /\ At \in DOMAIN plan /\ Same
  BY DEF Begin, Same, call, effects
<1>2. At \notin reached
  BY <1>1, NotReachedYet
<1>3. Control
  BY DEF Inv
<1>4. CASE Refusal # "none" /\ Report(Refusal)
  <2>1. Gives(Refusal)
    BY <1>1, <1>2, <1>3, <1>4, Refusals DEF Gives, Report, Reported
  <2> QED BY <2>1 DEF Gives
<1>5. CASE /\ Refusal = "none"
           /\ phase' = (IF current = NoObservation THEN "observe" ELSE "decide")
           /\ outcome' = outcome
  BY <1>1, <1>3, <1>5, Refusals DEF Advances, Underway
<1> QED BY <1>4, <1>5 DEF Begin

LEMMA ObserveMoves ==
  ASSUME Inv, Observe
  PROVE  (\E o \in Reported : Gives(o)) \/ Advances
<1>1. phase = "observe" /\ Same
  BY DEF Observe, Same, call, effects
<1>2. At \notin reached /\ At \in DOMAIN plan /\ Op.deps \subseteq Eligible
  BY <1>1, NotReachedYet DEF Inv, InTurn
<1>3. CASE phase' = "decide" /\ outcome' = outcome
  BY <1>1, <1>2, <1>3 DEF Advances, Underway
<1>4. CASE Report("QueryFailed")
  <2>1. Gives("QueryFailed")
    BY <1>1, <1>2, <1>4 DEF Gives, Report, Reported
  <2> QED BY <2>1 DEF Gives
<1> QED BY <1>3, <1>4 DEF Observe

LEMMA DecideMoves ==
  ASSUME Inv, Decide
  PROVE  (\E o \in Reported : Gives(o)) \/ Advances
<1>1. phase = "decide" /\ Same
  BY DEF Decide, DecideUnlocated, DecideAgainst, DecidePreview, DecideWrite, Same, call, effects
<1>2. At \notin reached /\ At \in DOMAIN plan /\ Op.deps \subseteq Eligible
  BY <1>1, NotReachedYet DEF Inv, InTurn
<1>3. CASE DecideUnlocated
  <2> DEFINE o == LocateError(current, Op.target)
  <2>1. o \in {"StaleState", "NotFound", "UnsupportedEntityType"} /\ Report(o)
    BY <1>3, Locations DEF DecideUnlocated
  <2> HIDE DEF o
  <2>2. Gives(o)
    BY <1>1, <1>2, <2>1 DEF Gives, Report, Reported
  <2> QED BY <2>2 DEF Gives
<1>4. CASE DecideAgainst
  <2>1. PICK equal \in LifetimesEqual :
          /\ Verdict(equal) # "write" \/ (~preview /\ cancelled)
          /\ Report(IF Verdict(equal) = "write" THEN "ApplyFailed" ELSE Verdict(equal))
    BY <1>4 DEF DecideAgainst
  <2> DEFINE o == IF Verdict(equal) = "write" THEN "ApplyFailed" ELSE Verdict(equal)
  <2>2. o \in {"readonly", "QueryFailed", "StaleState", "NotFound", "ApplyFailed", "satisfied"}
    BY Verdicts
  <2>3. Report(o)
    BY <2>1
  <2> HIDE DEF o
  <2>4. Gives(o)
    BY <1>1, <1>2, <2>2, <2>3 DEF Gives, Report, Reported
  <2> QED BY <2>4 DEF Gives
<1>5. CASE DecidePreview
  <2>1. Gives("succeeded")
    BY <1>1, <1>2, <1>5 DEF DecidePreview, Gives, Report, Reported
  <2> QED BY <2>1 DEF Gives
<1>6. CASE DecideWrite
  <2>1. Op.target.link \notin Unmanaged
    BY <1>6, Locations DEF DecideWrite
  <2>2. phase' = "confirm" /\ outcome' = outcome /\ ~preview /\ ~cancelled
    BY <1>6 DEF DecideWrite, MayWrite
  <2> QED BY <1>1, <1>2, <2>1, <2>2 DEF Advances
<1> QED BY <1>3, <1>4, <1>5, <1>6 DEF Decide

LEMMA ConfirmMoves ==
  ASSUME Inv, Confirm
  PROVE  (\E o \in Reported : Gives(o)) \/ Advances
<1>1. phase = "confirm" /\ Same
  BY DEF Confirm, Same, call, effects
<1>2. At \notin reached /\ At \in DOMAIN plan /\ Op.deps \subseteq Eligible
  BY <1>1, NotReachedYet DEF Inv, InTurn
<1>3. ~preview /\ Op.target.link \notin Unmanaged /\ (cancelled => At <= dropped)
  BY <1>1 DEF Inv, OnItsWay, Underway
<1>4. CASE phase' = "submitted" /\ outcome' = outcome
  BY <1>1, <1>2, <1>3, <1>4 DEF Advances
<1>5. ASSUME NEW o \in {"NotFound", "StaleState", "QueryFailed"}, Report(o)
      PROVE  Gives(o)
  BY <1>1, <1>2, <1>5 DEF Gives, Report, Reported
<1> QED BY <1>4, <1>5 DEF Confirm, Gives

LEMMA WriteMoves ==
  ASSUME Inv, Write
  PROVE  Reaches
BY DEF Write, Reaches, call

LEMMA WriteNothingMoves ==
  ASSUME Inv, WriteNothing
  PROVE  \E o \in Reported : Gives(o)
<1>1. phase = "submitted" /\ Same
  BY DEF WriteNothing, Same, call, effects
<1>2. At \notin reached /\ At \in DOMAIN plan
  BY <1>1, NotReachedYet DEF Inv, InTurn
<1>3. ASSUME NEW o \in {"NotFound", "ApplyFailed", "QueryFailed", "OutcomeUnknown"}, Report(o)
      PROVE  Gives(o)
  BY <1>1, <1>2, <1>3 DEF Gives, Report, Reported
<1> QED BY <1>3 DEF WriteNothing, Gives

\* What is reported of a write that the kernel carried out.
LEMMA WrittenMoves ==
  ASSUME Inv, Acknowledge \/ Verify \/ VerifyFails
  PROVE  \E o \in Reported : Gives(o)
<1>1. phase = "written" /\ Same
  BY DEF Acknowledge, Verify, VerifyFails, Same, call, effects
<1>2. At \in reached /\ At \in DOMAIN plan /\ Op.deps \subseteq Eligible
  BY <1>1 DEF Inv, InTurn, ReachedInTurn
<1>3. Op.target.link \notin Unmanaged
  BY <1>1 DEF Inv, OnItsWay, Underway
<1>4. ASSUME NEW o \in AfterWrite, Report(o)
      PROVE  Gives(o)
  BY <1>1, <1>2, <1>4 DEF Gives, Report, Reported, AfterWrite
<1>5. VerifyError(Snapshot) # "none" => VerifyError(Snapshot) \in AfterWrite
  <2> DEFINE error == LocateError(Snapshot, Op.target)
  <2>1. error \in {"StaleState", "NotFound", "none"}
    BY <1>3, Locations
  <2> HIDE DEF error
  <2>2. VerifyError(Snapshot) \in {error, "OutcomeUnknown", "StaleState", "none"}
    BY DEF VerifyError, error
  <2> QED BY <2>1, <2>2 DEF AfterWrite
<1>6. CASE Acknowledge \/ Verify
  BY <1>4, <1>6 DEF Acknowledge, Verify, Gives, AfterWrite
<1>7. CASE VerifyFails
  BY <1>4, <1>5, <1>7 DEF VerifyFails, Gives, AfterWrite
<1> QED BY <1>6, <1>7

\* So the executor has these moves and no others.
LEMMA RunMoves ==
  ASSUME Inv, Run
  PROVE  (\E o \in Reported : Gives(o)) \/ Advances \/ Reaches
BY BeginMoves, ObserveMoves, DecideMoves, ConfirmMoves, WriteMoves, WriteNothingMoves,
   WrittenMoves DEF Run

-----------------------------------------------------------------------------
(* The invariant. *)

\* Outcomes given earlier stay as they are.
LEMMA OutcomesAreAdded ==
  ASSUME Control, NEW o \in Reported, outcome' = Append(outcome, o)
  PROVE  /\ outcome' \in Seq(Reported) /\ DOMAIN outcome' = DOMAIN outcome \cup {At}
         /\ \A i \in DOMAIN outcome : outcome'[i] = outcome[i]
         /\ outcome'[At] = o
BY DEF Control, At

LEMMA InitInv == Init => Inv
<1> SUFFICES ASSUME Init
             PROVE  Inv
  OBVIOUS
<1>1. <<>> \in Seq(Reported) /\ DOMAIN <<>> = {}
  OBVIOUS
<1> QED BY <1>1 DEF Init, Inv, Control, InTurn, OnItsWay, ReachedInTurn, Underway,
                    ErrorsBeforeTheWrite, NothingWrittenLater

LEMMA GivesInv ==
  ASSUME Inv, NEW o \in Reported, Gives(o)
  PROVE  Inv'
<1>1. /\ outcome' \in Seq(Reported) /\ DOMAIN outcome' = DOMAIN outcome \cup {At}
      /\ \A i \in DOMAIN outcome : outcome'[i] = outcome[i]
      /\ outcome'[At] = o
  BY OutcomesAreAdded DEF Gives, Inv
<1>2. phase' = "ready" /\ Same
  BY DEF Gives
<1>3. Control' /\ InTurn' /\ OnItsWay'
  BY <1>1, <1>2 DEF Inv, Control, InTurn, OnItsWay, Underway, Same
<1>4. ReachedInTurn'
  BY <1>1, <1>2 DEF Inv, ReachedInTurn, Same
<1>5. ErrorsBeforeTheWrite'
  <2> SUFFICES ASSUME NEW i \in reached, i \in DOMAIN outcome'
               PROVE  outcome'[i] \in AfterWrite
    BY <1>2 DEF ErrorsBeforeTheWrite, AfterWrite, Same
  <2>1. CASE i \in DOMAIN outcome
    BY <1>1, <2>1 DEF Inv, ErrorsBeforeTheWrite, AfterWrite
  <2>2. CASE i = At
    BY <1>1, <2>2 DEF Gives
  <2> QED BY <1>1, <2>1, <2>2
<1>6. NothingWrittenLater'
  BY <1>2 DEF Inv, NothingWrittenLater, Same
<1> QED BY <1>3, <1>4, <1>5, <1>6 DEF Inv

LEMMA AdvancesInv ==
  ASSUME Inv, Advances
  PROVE  Inv'
<1>1. /\ outcome' = outcome /\ Same /\ phase # "written"
      /\ phase' \in {"observe", "decide", "confirm", "submitted"}
  BY DEF Advances
<1>2. At' = At /\ Op' = Op /\ Eligible' = Eligible
  BY <1>1 DEF At, Op, Eligible, Same
<1>3. Control'
  BY <1>1 DEF Inv, Control, Underway, Same
<1>4. InTurn' /\ OnItsWay'
  BY <1>1, <1>2 DEF Advances, InTurn, OnItsWay, Underway, Same
<1>5. ReachedInTurn'
  BY <1>1, <1>2 DEF Inv, ReachedInTurn, Same
<1>6. ErrorsBeforeTheWrite' /\ NothingWrittenLater'
  BY <1>1 DEF Inv, ErrorsBeforeTheWrite, NothingWrittenLater, Same
<1> QED BY <1>3, <1>4, <1>5, <1>6 DEF Inv

LEMMA ReachesInv ==
  ASSUME Inv, Reaches
  PROVE  Inv'
<1>1. /\ phase = "submitted" /\ phase' = "written" /\ reached' = reached \cup {At}
      /\ UNCHANGED <<outcome, plan, preview, cancelled, dropped>>
  BY DEF Reaches
<1>2. At' = At /\ Op' = Op /\ Eligible' = Eligible
  BY <1>1 DEF At, Op, Eligible
<1>3. ~preview /\ Op.target.link \notin Unmanaged /\ (cancelled => At <= dropped)
  BY <1>1 DEF Inv, OnItsWay, Underway
<1>4. At \notin DOMAIN outcome
  BY OutcomeIsASequence DEF Inv
<1>5. Control' /\ InTurn' /\ OnItsWay'
  BY <1>1, <1>2, <1>3 DEF Inv, Control, InTurn, OnItsWay, Underway
<1>6. ReachedInTurn'
  BY <1>1, <1>2, <1>3 DEF Inv, ReachedInTurn
<1>7. ErrorsBeforeTheWrite'
  BY <1>1, <1>4 DEF Inv, ErrorsBeforeTheWrite
<1>8. NothingWrittenLater'
  BY <1>1, <1>3 DEF Inv, NothingWrittenLater
<1> QED BY <1>5, <1>6, <1>7, <1>8 DEF Inv

\* The caller gives up: what has reached the kernel was reported or is with the
\* transport.
LEMMA CancelInv ==
  ASSUME Inv, Cancel
  PROVE  Inv'
<1>1. /\ UNCHANGED <<plan, preview, phase, outcome, reached>>
      /\ dropped' = IF phase \in Underway THEN At ELSE Len(outcome)
  BY DEF Cancel, call, effects, Underway
<1>2. At' = At /\ Op' = Op /\ Eligible' = Eligible
  BY <1>1 DEF At, Op, Eligible
<1>3. Control' /\ InTurn'
  BY <1>1, <1>2 DEF Inv, Control, InTurn
<1>4. /\ Len(outcome) \in Nat /\ DOMAIN outcome = 1 .. Len(outcome) /\ At = Len(outcome) + 1
  BY OutcomeIsASequence DEF Inv, At
<1>5. OnItsWay'
  BY <1>1, <1>2, <1>4 DEF Inv, OnItsWay
<1>6. ReachedInTurn' /\ ErrorsBeforeTheWrite'
  BY <1>1, <1>2 DEF Inv, ReachedInTurn, ErrorsBeforeTheWrite
<1>7. NothingWrittenLater'
  <2> SUFFICES ASSUME NEW i \in reached
               PROVE  i <= dropped'
    BY <1>1 DEF NothingWrittenLater
  <2>1. i \in DOMAIN outcome \/ (phase = "written" /\ i = At)
    BY DEF Inv, ReachedInTurn
  <2> QED BY <1>1, <1>4, <2>1 DEF Underway
<1> QED BY <1>3, <1>5, <1>6, <1>7 DEF Inv

\* Other programs do not change the call.
LEMMA Bystanders ==
  ASSUME Elsewhere \/ Returned \/ UNCHANGED vars
  PROVE  UNCHANGED <<plan, preview, cancelled, phase, outcome, reached, dropped>>
BY DEF Elsewhere, AddElsewhere, DeleteElsewhere, SetElsewhere, DeleteLink, RenewLink, Meddle,
       Returned, vars, call, effects

LEMMA InvStep == Inv /\ [Next]_vars => Inv'
<1> SUFFICES ASSUME Inv, [Next]_vars
             PROVE  Inv'
  OBVIOUS
<1>1. CASE Run
  BY <1>1, RunMoves, GivesInv, AdvancesInv, ReachesInv
<1>2. CASE Cancel
  BY <1>2, CancelInv
<1>3. CASE Elsewhere \/ Returned \/ UNCHANGED vars
  <2>1. UNCHANGED <<plan, preview, cancelled, phase, outcome, reached, dropped>>
    BY <1>3, Bystanders
  <2>2. At' = At /\ Op' = Op /\ Eligible' = Eligible
    BY <2>1 DEF At, Op, Eligible
  <2> QED BY <2>1, <2>2 DEF Inv, Control, InTurn, OnItsWay, ReachedInTurn,
                            ErrorsBeforeTheWrite, NothingWrittenLater
<1> QED BY <1>1, <1>2, <1>3 DEF Next

-----------------------------------------------------------------------------
(* The theorems. *)

\* The control of run and step (executor.rs): operations in turn, eligible, and
\* written once.
THEOREM InvariantHolds == Spec => []Inv
<1>1. Init => Inv
  BY InitInv
<1>2. Inv /\ [Next]_vars => Inv'
  BY InvStep
<1> QED BY <1>1, <1>2, PTL DEF Spec

\* An error that says that nothing was written is only reported of an operation
\* that did not reach the kernel (step, execute and verify_address_write).
THEOREM ErrorsAreBeforeTheWrite == Spec => []ErrorsBeforeTheWrite
<1>1. Inv => ErrorsBeforeTheWrite
  BY DEF Inv
<1> QED BY <1>1, InvariantHolds, PTL

\* After the caller has dropped its future (response.is_closed), nothing is written
\* but the operation that was with the transport.
THEOREM NothingIsWrittenLater == Spec => []NothingWrittenLater
<1>1. Inv => NothingWrittenLater
  BY DEF Inv
<1> QED BY <1>1, InvariantHolds, PTL

-----------------------------------------------------------------------------
(* The refinement: a move is a step of PlanExecution, or stutters. *)

Reports(s) == [i \in DOMAIN s |-> Abstracted(s[i])]
Deps(p) == [i \in DOMAIN p |-> p[i].deps]

LEMMA Abstractions ==
  ASSUME NEW o \in Reported
  PROVE  /\ Abstracted(o) \in {"done", "skipped", "blocked", "failed"}
         /\ Abstracted(o) = "done" <=> o = "succeeded"
         /\ Abstracted(o) = "blocked" <=> o = "blocked"
         /\ Abstracted(o) \in {"done", "skipped"} <=> o \in {"succeeded", "satisfied", "readonly"}
BY DEF Abstracted, Reported

LEMMA ReportsAppended ==
  ASSUME NEW s \in Seq(Reported), NEW o \in Reported
  PROVE  /\ Len(Reports(s)) = Len(s) /\ DOMAIN Reports(s) = DOMAIN s
         /\ Reports(Append(s, o)) = Append(Reports(s), Abstracted(o))
<1> DEFINE A == {Abstracted(x) : x \in Reported}
           t == Append(s, o)
<1>1. /\ t \in Seq(Reported) /\ Len(s) \in Nat /\ Len(t) = Len(s) + 1
      /\ t[Len(s) + 1] = o
      /\ \A i \in 1 .. Len(s) : t[i] = s[i]
  OBVIOUS
<1>2. ASSUME NEW u \in Seq(Reported)
      PROVE  /\ Reports(u) \in Seq(A) /\ Len(Reports(u)) = Len(u)
             /\ DOMAIN Reports(u) = DOMAIN u
             /\ \A i \in 1 .. Len(u) : Reports(u)[i] = Abstracted(u[i])
  <2>1. Len(u) \in Nat /\ DOMAIN u = 1 .. Len(u) /\ \A i \in 1 .. Len(u) : u[i] \in Reported
    OBVIOUS
  <2>2. /\ Reports(u) \in [1 .. Len(u) -> A]
        /\ \A i \in 1 .. Len(u) : Reports(u)[i] = Abstracted(u[i])
    BY <2>1 DEF Reports
  <2> HIDE DEF A
  <2> QED BY <2>1, <2>2
<1>3. Abstracted(o) \in A
  OBVIOUS
<1> HIDE DEF A, t
<1> DEFINE r == Append(Reports(s), Abstracted(o))
<1>4. /\ r \in Seq(A) /\ Len(r) = Len(s) + 1 /\ r[Len(s) + 1] = Abstracted(o)
      /\ \A i \in 1 .. Len(s) : r[i] = Reports(s)[i]
  BY <1>2, <1>3, AppendProperties
<1> HIDE DEF r
<1>5. Reports(t) = r
  <2>1. Reports(t) \in Seq(A) /\ Len(Reports(t)) = Len(r)
    BY <1>1, <1>2, <1>4
  <2>2. ASSUME NEW i \in 1 .. Len(Reports(t))
        PROVE  Reports(t)[i] = r[i]
    <3>1. i \in 1 .. Len(s) + 1 /\ Reports(t)[i] = Abstracted(t[i])
      BY <1>1, <1>2
    <3>2. CASE i = Len(s) + 1
      BY <1>1, <1>4, <3>1, <3>2
    <3>3. CASE i \in 1 .. Len(s)
      BY <1>1, <1>2, <1>4, <3>1, <3>3
    <3> QED BY <1>1, <3>1, <3>2, <3>3
  <2> QED BY <1>4, <2>1, <2>2, SeqEqual
<1> QED BY <1>2, <1>5 DEF t, r

\* The turn, what is carried out and what is ready are the same in both.
LEMMA SameTurn ==
  ASSUME Control
  PROVE  /\ Promise!Turn = At
         /\ At \in DOMAIN plan => (Promise!Ready <=> Op.deps \subseteq Eligible)
<1>1. /\ Len(Reports(outcome)) = Len(outcome) /\ DOMAIN Reports(outcome) = DOMAIN outcome
      /\ \A i \in DOMAIN outcome : outcome[i] \in Reported
      /\ \A i \in DOMAIN outcome : Reports(outcome)[i] = Abstracted(outcome[i])
  <2>1. "blocked" \in Reported
    BY DEF Reported
  <2> QED BY <2>1, ReportsAppended DEF Control, Reports
<1>2. Promise!Turn = At
  BY <1>1 DEF Promise!Turn, At, Reports
<1>3. ASSUME NEW i
      PROVE  Promise!CarriedOut(i) <=> i \in Eligible
  BY <1>1, Abstractions DEF Promise!CarriedOut, Eligible, Reports
<1>4. ASSUME At \in DOMAIN plan
      PROVE  Promise!Ready <=> Op.deps \subseteq Eligible
  <2>1. \A i \in Eligible : i < At
    BY OutcomeIsASequence DEF At
  <2>2. Promise!Ready <=> \A d \in Op.deps : d < At /\ Promise!CarriedOut(d)
    BY <1>2, <1>4 DEF Promise!Ready, Op
  <2> QED BY <1>3, <2>1, <2>2
<1> QED BY <1>2, <1>4

LEMMA InitRefines == Init => Promise!Init
<1> SUFFICES ASSUME Init
             PROVE  Promise!Init
  OBVIOUS
<1>1. Deps(plan) \in PlanDependencies
  BY DEF Init, PlanDependencies, Deps
<1>2. Reports(outcome) = <<>>
  BY DEF Init, Reports
<1> QED BY <1>1, <1>2 DEF Init, Promise!Init, Deps, Reports

LEMMA GivesRefines ==
  ASSUME Inv, NEW o \in Reported, Gives(o)
  PROVE  Promise!Report(Abstracted(o))
<1>1. Control /\ At \in DOMAIN plan /\ Same /\ outcome' = Append(outcome, o)
  BY DEF Inv, Gives
<1>2. Promise!Turn = At /\ (Promise!Ready <=> Op.deps \subseteq Eligible)
  BY <1>1, SameTurn
<1>3. Reports(outcome') = Append(Reports(outcome), Abstracted(o))
  BY <1>1, ReportsAppended DEF Control
<1>4. At \in DOMAIN Deps(plan) /\ Deps(plan') = Deps(plan)
  BY <1>1 DEF Deps, Same
<1>5. /\ Abstracted(o) \in {"done", "skipped"} => Promise!Ready
      /\ Abstracted(o) = "blocked" => ~Promise!Ready
      /\ Abstracted(o) = "done" => preview \/ At \in reached
      /\ Abstracted(o) \in {"skipped", "blocked"} => At \notin reached
  BY <1>2, Abstractions DEF Gives, AfterWrite
<1> QED BY <1>1, <1>2, <1>3, <1>4, <1>5 DEF Promise!Report, Reports, Deps, Same

LEMMA AdvancesRefines ==
  ASSUME Inv, Advances
  PROVE  UNCHANGED Promise!vars
BY DEF Advances, Same, Promise!vars

LEMMA ReachesRefines ==
  ASSUME Inv, Reaches
  PROVE  Promise!Reach
<1>1. /\ Control /\ At \in DOMAIN plan /\ Op.deps \subseteq Eligible /\ ~preview
      /\ At \notin reached
  BY NotReachedYet DEF Inv, InTurn, OnItsWay, Reaches, Underway
<1>2. Promise!Turn = At /\ Promise!Ready
  BY <1>1, SameTurn
<1> QED BY <1>1, <1>2 DEF Reaches, Promise!Reach

LEMMA StepRefines == Inv /\ [Next]_vars => [Promise!Next]_(Promise!vars)
<1> SUFFICES ASSUME Inv, [Next]_vars
             PROVE  Promise!Next \/ UNCHANGED Promise!vars
  OBVIOUS
<1>1. CASE Run
  <2>1. ASSUME NEW o \in Reported, Gives(o)
        PROVE  Promise!Next
    BY <2>1, GivesRefines, Abstractions DEF Promise!Next, Promise!Outcome
  <2>2. CASE Advances
    BY <2>2, AdvancesRefines
  <2>3. CASE Reaches
    BY <2>3, ReachesRefines DEF Promise!Next
  <2> QED BY <1>1, <2>1, <2>2, <2>3, RunMoves
<1>2. CASE Cancel
  BY <1>2 DEF Cancel, call, effects, Promise!vars
<1>3. CASE Elsewhere \/ Returned \/ UNCHANGED vars
  BY <1>3, Bystanders DEF Promise!vars
<1> QED BY <1>1, <1>2, <1>3 DEF Next

\* What lib.rs promises of apply and dry_run is what run does: operations in list
\* order, each reported once and at the kernel at most once and in its turn,
\* none before its dependencies were carried out, and none in a dry run.
THEOREM PromiseImplemented == Spec => ImplementsPromise
<1>1. Init => Promise!Init
  BY InitRefines
<1>2. Inv /\ [Next]_vars => [Promise!Next]_(Promise!vars)
  BY StepRefines
<1> QED BY <1>1, <1>2, InvariantHolds, PTL DEF Spec, ImplementsPromise, Promise!Spec

-----------------------------------------------------------------------------
(* What the kernel makes of address lists, whatever the list, and what an    *)
(* observation shows of them.                                               *)

\* The entries that exclude each other in a list of the kernel, and those an
\* inventory cannot tell apart.
Conflict ==
  {p \in Entry \X Entry :
     /\ p[1].group = p[2].group
     /\ p[1].addr = p[2].addr \/ ~(p[1].secondary \/ p[2].secondary)}
SameAddress == {p \in Entry \X Entry : p[1].addr = p[2].addr}

LEMMA EntriesOf ==
  ASSUME NEW s \in Seq(Entry)
  PROVE  /\ ToSet(s) = Elements(s) /\ Elements(s) \subseteq Entry
         /\ Addresses(s) = {e.addr : e \in Elements(s)}
BY DEF ToSet, Elements, Addresses

LEMMA AddressesTyped ==
  ASSUME NEW s \in Seq(Entry)
  PROVE  Addresses(s) \subseteq Address
<1>1. /\ Addresses(s) = {e.addr : e \in Elements(s)}
      /\ Elements(s) \subseteq Entry
  BY EntriesOf
<1> QED BY <1>1 DEF Entry

LEMMA ApartElements ==
  ASSUME NEW s, NEW R, Apart(s, R), NEW x \in Elements(s), NEW y \in Elements(s), <<x, y>> \in R
  PROVE  x = y
BY DEF Apart, Elements

LEMMA KernelLists ==
  ASSUME NEW s
  PROVE  KernelList(s) <=> s \in Seq(Entry) /\ Apart(s, Conflict)
<1> SUFFICES ASSUME s \in Seq(Entry)
             PROVE  KernelList(s) <=> Apart(s, Conflict)
  BY DEF KernelList
<1>1. \A i \in DOMAIN s : s[i] \in Entry
  OBVIOUS
<1>2. ASSUME NEW i \in DOMAIN s, NEW j \in DOMAIN s
      PROVE  <<s[i], s[j]>> \in Conflict <=>
               /\ s[i].group = s[j].group
               /\ s[i].addr = s[j].addr \/ ~(s[i].secondary \/ s[j].secondary)
  BY <1>1 DEF Conflict
<1> QED BY <1>2 DEF KernelList, Apart

LEMMA Completes ==
  ASSUME NEW s \in Seq(Entry)
  PROVE  Complete(s) <=> Apart(s, SameAddress)
<1>1. \A i \in DOMAIN s : s[i] \in Entry
  OBVIOUS
<1>2. ASSUME NEW i \in DOMAIN s, NEW j \in DOMAIN s
      PROVE  <<s[i], s[j]>> \in SameAddress <=> s[i].addr = s[j].addr
  BY <1>1 DEF SameAddress
<1> QED BY <1>2 DEF Complete, Apart

LEMMA Conflicts ==
  ASSUME NEW x \in Entry, NEW y \in Entry
  PROVE  /\ <<x, y>> \in Conflict <=>
              /\ x.group = y.group
              /\ x.addr = y.addr \/ ~(x.secondary \/ y.secondary)
         /\ <<x, y>> \in Conflict <=> <<y, x>> \in Conflict
BY DEF Conflict

LEMMA Single ==
  ASSUME NEW e \in Entry, NEW R
  PROVE  <<e>> \in Seq(Entry) /\ Elements(<<e>>) = {e} /\ Apart(<<e>>, R)
<1>1. <<e>> \in Seq(Entry) /\ DOMAIN <<e>> = {1} /\ <<e>>[1] = e
  OBVIOUS
<1> QED BY <1>1 DEF Elements, Apart

LEMMA Inserted ==
  ASSUME NEW s, KernelList(s), NEW e \in Entry, Named(s, e) = {}
  PROVE  /\ KernelList(Insert(s, e))
         /\ Addresses(Insert(s, e)) = Addresses(s) \cup {e.addr}
<1>1. s \in Seq(Entry) /\ Apart(s, Conflict) /\ ToSet(s) = Elements(s) /\ Elements(s) \subseteq Entry
  BY KernelLists, EntriesOf
<1>2. \A x \in Elements(s) : ~(x.addr = e.addr /\ x.group = e.group)
  BY <1>1 DEF Named
<1>3. CASE \E k \in DOMAIN s : s[k].group = e.group
  <2> DEFINE n == [e EXCEPT !.secondary = TRUE]
  <2>1. n \in Entry /\ n.addr = e.addr /\ n.group = e.group /\ n.secondary
    BY DEF Entry
  <2>2. Insert(s, e) = Append(s, n)
    BY <1>3 DEF Insert
  <2> HIDE DEF n
  <2>3. /\ Append(s, n) \in Seq(Entry)
        /\ Elements(Append(s, n)) = Elements(s) \cup {n}
    BY <1>1, <2>1, Appending
  <2>4. \A x \in Elements(s) : <<x, n>> \notin Conflict /\ <<n, x>> \notin Conflict
    BY <1>1, <1>2, <2>1, Conflicts
  <2>5. Apart(Append(s, n), Conflict)
    BY <1>1, <2>1, <2>4, ApartAppend
  <2> DEFINE t == Append(s, n)
  <2> HIDE DEF t
  <2>6. /\ Addresses(t) = {x.addr : x \in Elements(s) \cup {n}}
        /\ Addresses(s) = {x.addr : x \in Elements(s)}
    BY <1>1, <2>3, EntriesOf DEF t
  <2>7. Addresses(t) = Addresses(s) \cup {e.addr}
    BY <2>1, <2>6
  <2> QED BY <2>2, <2>3, <2>5, <2>7, KernelLists DEF t
<1>4. CASE ~ \E k \in DOMAIN s : s[k].group = e.group
  <2> DEFINE n == [e EXCEPT !.secondary = FALSE]
             m == <<n>>
             p == Only(s, Primary)
             q == Only(s, Entry \ Primary)
  <2>1. n \in Entry /\ n.addr = e.addr /\ n.group = e.group
    BY DEF Entry
  <2>2. Insert(s, e) = (p \o m) \o q
    BY <1>4 DEF Insert
  <2>3. /\ p \in Seq(Entry) /\ Elements(p) = Elements(s) \cap Primary /\ Apart(p, Conflict)
        /\ q \in Seq(Entry) /\ Elements(q) = Elements(s) \cap (Entry \ Primary)
        /\ Apart(q, Conflict)
    BY <1>1, OnlyType, OnlyApart
  <2> HIDE DEF p, q, n
  <2>4. \A x \in Elements(s) : x \in Entry /\ x.group # n.group
    BY <1>1, <1>4, <2>1 DEF Elements
  <2>5. /\ m \in Seq(Entry) /\ Elements(m) = {n} /\ Apart(m, Conflict)
    BY <2>1, Single
  <2> HIDE DEF m
  <2>6. \A x \in Elements(s) : <<x, n>> \notin Conflict /\ <<n, x>> \notin Conflict
    BY <2>1, <2>4, Conflicts
  <2>7. /\ p \o m \in Seq(Entry) /\ Elements(p \o m) = Elements(p) \cup {n}
        /\ Apart(p \o m, Conflict)
    <3>1. \A x \in Elements(p), y \in Elements(m) : <<x, y>> \notin Conflict /\ <<y, x>> \notin Conflict
      BY <2>3, <2>5, <2>6
    <3> QED BY <2>3, <2>5, <3>1, ConcatApart
  <2>8. \A x \in Elements(p \o m), y \in Elements(q) :
          <<x, y>> \notin Conflict /\ <<y, x>> \notin Conflict
    <3> SUFFICES ASSUME NEW x \in Elements(p \o m), NEW y \in Elements(q)
                 PROVE  <<x, y>> \notin Conflict /\ <<y, x>> \notin Conflict
      OBVIOUS
    <3>1. CASE x = n
      BY <2>3, <2>6, <3>1
    <3>2. CASE x \in Elements(p)
      <4>1. x \in Elements(s) /\ y \in Elements(s) /\ x # y /\ x \in Entry /\ y \in Entry
        BY <1>1, <2>3, <3>2
      <4> QED BY <1>1, <4>1, ApartElements
    <3> QED BY <2>7, <3>1, <3>2
  <2>9. /\ (p \o m) \o q \in Seq(Entry)
        /\ Elements((p \o m) \o q) = Elements(p \o m) \cup Elements(q)
        /\ Apart((p \o m) \o q, Conflict)
    BY <2>3, <2>7, <2>8, ConcatApart
  <2>10. Elements((p \o m) \o q) = Elements(s) \cup {n}
    BY <1>1, <2>3, <2>7, <2>9
  <2>11. Addresses(Insert(s, e)) = Addresses(s) \cup {e.addr}
    <3>1. /\ Addresses(Insert(s, e)) = {x.addr : x \in Elements(s) \cup {n}}
          /\ Addresses(s) = {x.addr : x \in Elements(s)}
      BY <1>1, <2>2, <2>9, <2>10, EntriesOf
    <3> QED BY <2>1, <3>1
  <2> QED BY <2>2, <2>9, <2>11, KernelLists
<1> QED BY <1>3, <1>4

LEMMA Deleted ==
  ASSUME NEW s, KernelList(s), NEW e \in ToSet(s)
  PROVE  /\ KernelList(Delete(s, e))
         /\ Addresses(Delete(s, e)) \subseteq Addresses(s)
         /\ \A a \in Addresses(s) \ Addresses(Delete(s, e)) :
              \/ a = e.addr
              \/ ~e.secondary /\ \E x \in ToSet(s) : x.addr = a /\ x.secondary /\ x.group = e.group
         /\ Complete(s) => e.addr \notin Addresses(Delete(s, e))
<1> DEFINE left == Only(s, Entry \ {e})
           heirs == Only(left, OfGroup(e.group))
           d == Delete(s, e)
<1>1. /\ s \in Seq(Entry) /\ Apart(s, Conflict) /\ ToSet(s) = Elements(s)
      /\ Elements(s) \subseteq Entry /\ e \in Elements(s) /\ e \in Entry
      /\ Addresses(s) = {x.addr : x \in Elements(s)}
  BY KernelLists, EntriesOf
<1>2. /\ left \in Seq(Entry) /\ Elements(left) = Elements(s) \ {e} /\ Apart(left, Conflict)
  <2>1. /\ left \in Seq(Entry) /\ Elements(left) = Elements(s) \cap (Entry \ {e})
        /\ Apart(left, Conflict)
    BY <1>1, OnlyType, OnlyApart
  <2> HIDE DEF left
  <2> QED BY <1>1, <2>1
<1>3. heirs \in Seq(Entry) /\ Elements(heirs) = Elements(left) \cap OfGroup(e.group)
  <2> HIDE DEF left
  <2> QED BY <1>2, OnlyType
<1>4. d = IF e.secondary \/ heirs = <<>> THEN left
          ELSE IF ~promote THEN Only(left, Entry \ OfGroup(e.group))
          ELSE (Only(left, Primary) \o <<[Head(heirs) EXCEPT !.secondary = FALSE]>>)
                 \o Only(left, Entry \ (Primary \cup {Head(heirs)}))
  BY DEF Delete
<1> HIDE DEF left, heirs, d
\* The other members of the group of a primary are secondary.
<1>5. ASSUME ~e.secondary
      PROVE  \A x \in Elements(left) : x.group = e.group => x.secondary
  <2> SUFFICES ASSUME NEW x \in Elements(left), x.group = e.group, ~x.secondary
               PROVE  FALSE
    <3>1. \A x \in Elements(left) : x \in Entry
      BY <1>1, <1>2
    <3> QED BY <3>1 DEF Entry
  <2>1. x \in Elements(s) /\ x # e /\ x \in Entry
    BY <1>1, <1>2
  <2>2. <<x, e>> \in Conflict
    BY <1>1, <1>5, <2>1, Conflicts
  <2> QED BY <1>1, <2>1, <2>2, ApartElements
\* It is enough to know what remains of the addresses.
<1>6. ASSUME NEW K \in SUBSET Elements(left), KernelList(d),
             Addresses(d) = {x.addr : x \in K},
             \A x \in Elements(left) \ K : ~e.secondary /\ x.group = e.group
      PROVE  /\ KernelList(d)
             /\ Addresses(d) \subseteq Addresses(s)
             /\ \A a \in Addresses(s) \ Addresses(d) :
                  \/ a = e.addr
                  \/ ~e.secondary /\ \E x \in ToSet(s) : x.addr = a /\ x.secondary /\ x.group = e.group
             /\ Complete(s) => e.addr \notin Addresses(d)
  <2>1. Addresses(d) \subseteq Addresses(s)
    BY <1>1, <1>2, <1>6
  <2>2. ASSUME NEW a \in Addresses(s) \ Addresses(d), a # e.addr
        PROVE  ~e.secondary /\ \E x \in ToSet(s) : x.addr = a /\ x.secondary /\ x.group = e.group
    <3>1. PICK x \in Elements(s) : x.addr = a
      BY <1>1
    <3>2. x \in Elements(left) \ K
      BY <1>2, <1>6, <2>2, <3>1
    <3>3. ~e.secondary /\ x.group = e.group
      BY <1>6, <3>2
    <3> QED BY <1>1, <1>5, <3>1, <3>2, <3>3
  <2>3. ASSUME Complete(s)
        PROVE  e.addr \notin Addresses(d)
    <3> SUFFICES ASSUME NEW x \in K, x.addr = e.addr
                 PROVE  FALSE
      BY <1>6
    <3>1. x \in Elements(s) /\ x # e /\ <<x, e>> \in SameAddress
      BY <1>1, <1>2 DEF SameAddress
    <3> QED BY <1>1, <2>3, <3>1, Completes, ApartElements
  <2> QED BY <1>6, <2>1, <2>2, <2>3
<1>7. CASE e.secondary \/ heirs = <<>>
  <2>1. d = left
    BY <1>4, <1>7
  <2>2. KernelList(d) /\ Addresses(d) = {x.addr : x \in Elements(left)}
    BY <1>2, <2>1, KernelLists, EntriesOf
  <2> QED BY <1>6, <2>2 DEF d
<1>8. CASE ~(e.secondary \/ heirs = <<>>) /\ ~promote
  <2>1. d = Only(left, Entry \ OfGroup(e.group))
    BY <1>4, <1>8
  <2>2. /\ d \in Seq(Entry) /\ Elements(d) = Elements(left) \cap (Entry \ OfGroup(e.group))
        /\ Apart(d, Conflict)
    BY <1>2, <2>1, OnlyType, OnlyApart
  <2>3. KernelList(d) /\ Addresses(d) = {x.addr : x \in Elements(d)}
    BY <2>2, KernelLists, EntriesOf
  <2>4. /\ Elements(d) \in SUBSET Elements(left)
        /\ \A x \in Elements(left) \ Elements(d) : x.group = e.group
    BY <1>1, <1>2, <2>2 DEF OfGroup
  <2> QED BY <1>6, <1>8, <2>3, <2>4 DEF d
<1>9. CASE ~(e.secondary \/ heirs = <<>>) /\ promote
  <2> DEFINE h == Head(heirs)
             n == [h EXCEPT !.secondary = FALSE]
             m == <<n>>
             p == Only(left, Primary)
             q == Only(left, Entry \ (Primary \cup {h}))
  <2>1. d = (p \o m) \o q
    BY <1>4, <1>9
  <2>2. h \in Elements(heirs)
    <3>1. heirs # <<>> /\ Len(heirs) \in Nat /\ DOMAIN heirs = 1 .. Len(heirs) /\ Len(heirs) # 0
      BY <1>3, <1>9, EmptySeq
    <3>2. 1 \in DOMAIN heirs /\ h = heirs[1]
      BY <1>3, <3>1
    <3> QED BY <3>2 DEF Elements
  <2>3. h \in Elements(left) /\ h.group = e.group /\ h \in Entry /\ h.secondary
    BY <1>1, <1>2, <1>3, <1>5, <1>9, <2>2 DEF OfGroup
  <2> HIDE DEF h
  <2>4. n \in Entry /\ n.addr = h.addr /\ n.group = h.group /\ ~n.secondary
    BY <2>3 DEF Entry
  <2>5. /\ p \in Seq(Entry) /\ Elements(p) = Elements(left) \cap Primary /\ Apart(p, Conflict)
        /\ q \in Seq(Entry) /\ Elements(q) = Elements(left) \cap (Entry \ (Primary \cup {h}))
        /\ Apart(q, Conflict)
    BY <1>2, OnlyType, OnlyApart
  <2> HIDE DEF p, q, n
  <2>6. \A x \in Elements(p) : x \in Entry /\ x \in Elements(left) /\ ~x.secondary
    BY <2>5 DEF Primary
  <2>7. \A y \in Elements(q) : y \in Entry /\ y \in Elements(left) /\ y.secondary /\ y # h
    BY <2>5 DEF Primary
  <2>8. \A x \in Elements(p) : <<x, n>> \notin Conflict /\ <<n, x>> \notin Conflict
    <3> SUFFICES ASSUME NEW x \in Elements(p)
                 PROVE  x.group # n.group
      BY <2>4, <2>6, Conflicts
    <3> QED BY <1>5, <1>9, <2>3, <2>4, <2>6
  <2>9. m \in Seq(Entry) /\ Elements(m) = {n} /\ Apart(m, Conflict)
    BY <2>4, Single
  <2> HIDE DEF m
  <2>10. /\ p \o m \in Seq(Entry) /\ Elements(p \o m) = Elements(p) \cup {n}
         /\ Apart(p \o m, Conflict)
    <3>1. \A x \in Elements(p), y \in Elements(m) : <<x, y>> \notin Conflict /\ <<y, x>> \notin Conflict
      BY <2>8, <2>9
    <3> QED BY <2>5, <2>9, <3>1, ConcatApart
  <2>11. ASSUME NEW y \in Elements(q)
         PROVE  <<n, y>> \notin Conflict
    <3> SUFFICES ASSUME n.group = y.group, n.addr = y.addr
                 PROVE  FALSE
      BY <2>4, <2>7, Conflicts
    <3>1. <<h, y>> \in Conflict
      BY <2>3, <2>4, <2>7, Conflicts
    <3> QED BY <1>2, <2>3, <2>7, <3>1, ApartElements
  <2>12. \A x \in Elements(p \o m), y \in Elements(q) :
           <<x, y>> \notin Conflict /\ <<y, x>> \notin Conflict
    <3> SUFFICES ASSUME NEW x \in Elements(p \o m), NEW y \in Elements(q)
                 PROVE  <<x, y>> \notin Conflict /\ <<y, x>> \notin Conflict
      OBVIOUS
    <3>1. CASE x = n
      BY <2>4, <2>7, <2>11, <3>1, Conflicts
    <3>2. CASE x \in Elements(p)
      <4>1. x \in Elements(left) /\ y \in Elements(left) /\ x # y
        BY <2>6, <2>7, <3>2
      <4> QED BY <1>2, <4>1, ApartElements
    <3> QED BY <2>10, <3>1, <3>2
  <2>13. /\ d \in Seq(Entry) /\ Elements(d) = Elements(p \o m) \cup Elements(q)
         /\ Apart(d, Conflict)
    <3> DEFINE pm == p \o m
    <3> HIDE DEF pm
    <3>1. /\ pm \in Seq(Entry) /\ Apart(pm, Conflict)
          /\ \A x \in Elements(pm), y \in Elements(q) : <<x, y>> \notin Conflict /\ <<y, x>> \notin Conflict
      BY <2>10, <2>12 DEF pm
    <3>2. /\ pm \o q \in Seq(Entry) /\ Elements(pm \o q) = Elements(pm) \cup Elements(q)
          /\ Apart(pm \o q, Conflict)
      BY <2>5, <3>1, ConcatApart
    <3>3. d = pm \o q
      BY <2>1 DEF pm, m
    <3> QED BY <3>2, <3>3 DEF pm
  <2>14. Elements(d) = Elements(p) \cup {n} \cup Elements(q)
    BY <2>10, <2>13
  <2>15. Elements(left) = Elements(p) \cup {h} \cup Elements(q)
    <3>1. Elements(left) \subseteq Entry
      BY <1>1, <1>2
    <3> QED BY <2>3, <2>5, <3>1
  <2>16. Addresses(d) = {x.addr : x \in Elements(left)}
    <3>1. Addresses(d) = {x.addr : x \in Elements(d)}
      BY <2>13, EntriesOf
    <3> QED BY <2>4, <2>14, <2>15, <3>1
  <2> QED BY <1>6, <2>13, <2>16, KernelLists DEF d
<1> QED BY <1>7, <1>8, <1>9

\* New lifetimes leave a list as it is otherwise.
LEMMA Relabelled ==
  ASSUME NEW s, KernelList(s), NEW S, NEW v \in Lifetime
  PROVE  LET t == [k \in DOMAIN s |-> IF s[k] \in S THEN [s[k] EXCEPT !.lft = v] ELSE s[k]]
         IN  KernelList(t) /\ Addresses(t) = Addresses(s)
<1> DEFINE t == [k \in DOMAIN s |-> IF s[k] \in S THEN [s[k] EXCEPT !.lft = v] ELSE s[k]]
<1>1. s \in Seq(Entry) /\ Len(s) \in Nat /\ DOMAIN s = 1 .. Len(s)
  BY DEF KernelList
<1>2. ASSUME NEW k \in DOMAIN s
      PROVE  /\ s[k] \in Entry /\ t[k] \in Entry
             /\ t[k].addr = s[k].addr /\ t[k].group = s[k].group /\ t[k].secondary = s[k].secondary
  <2>1. s[k] \in Entry
    BY <1>1
  <2> QED BY <2>1 DEF Entry
<1>3. DOMAIN t = DOMAIN s
  OBVIOUS
<1>4. t \in Seq(Entry)
  <2>1. t \in [1 .. Len(s) -> Entry]
    BY <1>1, <1>2
  <2> HIDE DEF t
  <2> QED BY <1>1, <2>1
<1> HIDE DEF t
<1>5. KernelList(t)
  BY <1>2, <1>3, <1>4 DEF KernelList
<1>6. Addresses(t) = Addresses(s)
  BY <1>2, <1>3 DEF Addresses, ToSet
<1> QED BY <1>5, <1>6 DEF t

-----------------------------------------------------------------------------
(* Observing. *)

LEMMA Observes ==
  ASSUME NEW s \in Seq(Entry)
  PROVE  /\ Observed(s) \in Seq(Entry)
         /\ ToSet(Observed(s)) \subseteq ToSet(s)
         /\ Complete(s) => ToSet(Observed(s)) = ToSet(s)
<1> DEFINE S == {s[k] : k \in {i \in DOMAIN s : \A j \in 1..(i - 1) : s[j].addr # s[i].addr}}
<1>1. /\ Observed(s) \in Seq(Entry) /\ Elements(Observed(s)) = Elements(s) \cap S
  <2> HIDE DEF S
  <2>1. Only(s, S) \in Seq(Entry) /\ Elements(Only(s, S)) = Elements(s) \cap S
    BY OnlyType
  <2> QED BY <2>1 DEF Observed, S
<1>2. ToSet(Observed(s)) = Elements(Observed(s)) /\ ToSet(s) = Elements(s)
  BY <1>1, EntriesOf
<1>3. ASSUME Complete(s)
      PROVE  Elements(s) \subseteq S
  <2> SUFFICES ASSUME NEW i \in DOMAIN s
               PROVE  s[i] \in S
    BY DEF Elements
  <2>1. \A j \in 1 .. (i - 1) : j \in DOMAIN s /\ j # i
    OBVIOUS
  <2> QED BY <1>3, <2>1 DEF Complete
<1> HIDE DEF S
<1> QED BY <1>1, <1>2, <1>3

-----------------------------------------------------------------------------
(* Types. *)

KernelTyped ==
  /\ token \in [Link -> Nat] /\ setting \in [Link -> Setting]
  /\ list \in [Link -> Seq(Entry)] /\ promote \in BOOLEAN
CallTyped ==
  /\ plan \in Seq(Operation) /\ preview \in BOOLEAN
  /\ planned \in [Link -> Seq(Entry)]
TurnTyped ==
  /\ phase \in {"ready", "observe", "decide", "confirm", "submitted", "written"}
  /\ outcome \in Seq(Reported) /\ Len(outcome) <= Len(plan)
  /\ phase # "ready" => At \in DOMAIN plan
MemoryTyped ==
  /\ DOMAIN groups \subseteq Target \X KernelGroup
  /\ \A k \in DOMAIN groups : groups[k] \in Seq(Entry)
  /\ current = NoObservation \/ current \in Observation
  /\ phase = "decide" => current \in Observation
WritingTyped ==
  phase \in {"confirm", "submitted", "written"} =>
    /\ record \in [addr: Address, group: KernelGroup] /\ record.addr = Op.addr
    /\ predicted \in Seq(Entry)
HistoryTyped ==
  /\ meddled \in 0..MaxMeddling /\ faults \in 0..MaxFaults /\ seen \in 0..meddled
  /\ reached \subseteq DOMAIN plan
  /\ cascaded \subseteq (DOMAIN plan) \X Address
  /\ replay \in [Keys -> Seq(Entry)]
CancelTyped == cancelled \in BOOLEAN /\ dropped \in 0..Len(plan)

\* The lists are the kernel's.
KernelLike == \A l \in Link : KernelList(list[l])

Typed ==
  /\ KernelTyped /\ CallTyped /\ TurnTyped /\ MemoryTyped /\ WritingTyped
  /\ HistoryTyped /\ CancelTyped /\ KernelLike

LEMMA TypedIsTypeOK == Typed => TypeOK
BY DEF Typed, TypeOK, KernelTyped, CallTyped, TurnTyped, MemoryTyped, WritingTyped,
       HistoryTyped, CancelTyped, KernelLike

\* The fields of an operation.
LEMMA Operations ==
  ASSUME NEW op \in Operation
  PROVE  /\ op.target \in Target /\ op.target.link \in Link /\ op.target.token \in Nat
         /\ op.target.home \in BOOLEAN
         /\ op.addr \in Address /\ Group[op.addr] \in KernelGroup
         /\ op.kind \in {"add", "remove", "replace", "set", "readonly", "invalid"}
         /\ IsAddress(op) => op.arg \in Lifetime
         /\ ~IsAddress(op) => op.arg \in Setting
BY ExecutorAssumption DEF Operation, OperationOf, Target, IsAddress

LEMMA OpTyped ==
  ASSUME CallTyped, At \in DOMAIN plan
  PROVE  Op \in Operation
BY DEF CallTyped, Op

LEMMA SnapshotTyped ==
  ASSUME KernelTyped
  PROVE  Snapshot \in Observation
<1>1. ASSUME NEW l \in Link
      PROVE  Observed(list[l]) \in Seq(Entry) /\ Complete(list[l]) \in BOOLEAN
  BY Observes DEF KernelTyped, Complete
<1> QED BY <1>1 DEF Snapshot, Observation, KernelTyped

LEMMA InGroupTyped ==
  ASSUME NEW s \in Seq(Entry), NEW g
  PROVE  InGroup(s, g) \in Seq(Entry)
BY OnlyType DEF InGroup

LEMMA EntriesTyped ==
  ASSUME NEW s \in Seq(Entry), NEW a
  PROVE  \A e \in Entries(s, a) : e \in Entry /\ e \in ToSet(s) /\ e.addr = a
BY EntriesOf DEF Entries

LEMMA GroupsTyped ==
  ASSUME CallTyped, MemoryTyped, At \in DOMAIN plan
  PROVE  /\ DOMAIN Groups \subseteq Target \X KernelGroup
         /\ \A k \in DOMAIN Groups : Groups[k] \in Seq(Entry)
<1>1. /\ Op.target \in Target /\ Op.target.link \in Link /\ Op.addr \in Address
      /\ Group[Op.addr] \in KernelGroup
  BY OpTyped, Operations
<1>2. Precondition \in Seq(Entry)
  <2>1. Key(Op)[1] = Op.target /\ planned[Op.target.link] \in Seq(Entry)
    BY <1>1 DEF Key, CallTyped
  <2> QED BY <2>1, Observes, InGroupTyped DEF Precondition, PlannedGroup
<1>3. Key(Op) \in Target \X KernelGroup
  BY <1>1 DEF Key
<1> QED BY <1>2, <1>3 DEF Groups, Expecting, MemoryTyped

LEMMA DeviceTyped ==
  ASSUME CallTyped, At \in DOMAIN plan, current \in Observation
  PROVE  Device \in Seq(Entry)
BY OpTyped, Operations DEF Device, Observation

LEMMA NewEntryTyped ==
  ASSUME NEW op \in Operation, IsAddress(op), NEW r, r.group \in KernelGroup
  PROVE  NewEntry(op, r) \in Entry /\ NewEntry(op, r).addr = op.addr /\ NewEntry(op, r).group = r.group
BY Operations DEF NewEntry, Entry

LEMMA ProjectTyped ==
  ASSUME CallTyped, At \in DOMAIN plan, NEW s \in Seq(Entry)
  PROVE  Project(s) \in Seq(Entry)
<1>1. Op \in Operation
  BY OpTyped
<1>2. CASE Op.kind = "remove"
  BY <1>2, OnlyType DEF Project
<1>3. CASE Op.kind = "add"
  <2> DEFINE r == [group |-> Group[Op.addr]]
             e == NewEntry(Op, r)
             n == [e EXCEPT !.secondary = \E x \in ToSet(s) : x.group = Group[Op.addr]]
  <2>1. r.group \in KernelGroup /\ IsAddress(Op)
    BY <1>1, <1>3, Operations DEF IsAddress
  <2> HIDE DEF r
  <2>2. e \in Entry
    BY <1>1, <2>1, NewEntryTyped
  <2> HIDE DEF e
  <2>3. n \in Entry
    BY <2>2 DEF Entry
  <2>4. Project(s) = Append(s, n)
    BY <1>3 DEF Project, e, r
  <2> HIDE DEF n
  <2> QED BY <2>3, <2>4
<1>4. CASE Op.kind = "replace"
  <2> DEFINE t == [k \in DOMAIN s |-> IF s[k].addr = Op.addr
                                      THEN [s[k] EXCEPT !.lft = Op.arg] ELSE s[k]]
  <2>1. Op.arg \in Lifetime
    BY <1>1, <1>4, Operations DEF IsAddress
  <2>2. \A k \in DOMAIN s : s[k] \in Entry
    OBVIOUS
  <2>3. \A k \in DOMAIN s : t[k] \in Entry
    BY <2>1, <2>2 DEF Entry
  <2>4. Len(s) \in Nat /\ DOMAIN s = 1 .. Len(s)
    OBVIOUS
  <2>5. t \in [1 .. Len(s) -> Entry]
    BY <2>3, <2>4
  <2>6. Project(s) = t
    BY <1>4 DEF Project
  <2> HIDE DEF t
  <2> QED BY <2>4, <2>5, <2>6
<1>5. CASE Op.kind \notin {"add", "remove", "replace"}
  BY <1>5 DEF Project
<1> QED BY <1>2, <1>3, <1>4, <1>5

LEMMA ProjectedTyped ==
  ASSUME CallTyped, At \in DOMAIN plan, current \in Observation
  PROVE  Projected \in Seq(Entry)
BY DeviceTyped, ProjectTyped DEF Projected

LEMMA RecordTyped ==
  ASSUME NEW op \in Operation, NEW S, \A e \in S : e \in Entry /\ e.addr = op.addr
  PROVE  /\ RecordOf(op, S) \in [addr: Address, group: KernelGroup]
         /\ RecordOf(op, S).addr = op.addr
         /\ op.kind # "add" /\ S # {} =>
              \E e \in S : e.addr = RecordOf(op, S).addr /\ e.group = RecordOf(op, S).group
<1>1. op.addr \in Address /\ Group[op.addr] \in KernelGroup
  BY Operations
<1>2. CASE S = {} \/ op.kind = "add"
  BY <1>1, <1>2 DEF RecordOf
<1>3. CASE ~(S = {} \/ op.kind = "add")
  <2> DEFINE e == CHOOSE e \in S : TRUE
  <2>1. e \in S
    BY <1>3
  <2>2. RecordOf(op, S) = [addr |-> e.addr, group |-> e.group]
    BY <1>3 DEF RecordOf
  <2> HIDE DEF e
  <2>3. e \in Entry /\ e.addr = op.addr
    BY <2>1
  <2> QED BY <2>1, <2>2, <2>3 DEF Entry
<1> QED BY <1>2, <1>3

\* A write that the kernel accepts: what it makes of a list.
LEMMA WritesList ==
  ASSUME NEW s, KernelList(s), NEW op \in Operation, IsAddress(op),
         NEW r \in [addr: Address, group: KernelGroup], r.addr = op.addr, Accepts(s, op, r)
  PROVE  /\ KernelList(Written(s, op, r))
         /\ op.kind = "remove" =>
              \E e \in Named(s, r) : Written(s, op, r) = Delete(s, e)
         /\ op.kind = "replace" /\ Named(s, r) # {} =>
              Addresses(Written(s, op, r)) = Addresses(s)
         /\ op.kind = "add" \/ (op.kind = "replace" /\ Named(s, r) = {}) =>
              Addresses(Written(s, op, r)) = Addresses(s) \cup {op.addr}
<1>1. op.arg \in Lifetime /\ r.group \in KernelGroup
  BY Operations
<1>2. CASE op.kind = "remove"
  <2> DEFINE e == CHOOSE e \in Named(s, r) : TRUE
  <2>1. e \in Named(s, r)
    BY <1>2 DEF Accepts
  <2>2. Written(s, op, r) = Delete(s, e)
    BY <1>2 DEF Written
  <2> HIDE DEF e
  <2>3. e \in ToSet(s)
    BY <2>1 DEF Named
  <2>4. KernelList(Delete(s, e))
    BY <2>3, Deleted
  <2> QED BY <1>2, <2>1, <2>2, <2>4
<1>3. CASE op.kind = "replace" /\ Named(s, r) # {}
  <2> DEFINE t == [k \in DOMAIN s |-> IF s[k] \in Named(s, r)
                                      THEN [s[k] EXCEPT !.lft = op.arg] ELSE s[k]]
  <2>1. KernelList(t) /\ Addresses(t) = Addresses(s)
    BY <1>1, Relabelled
  <2>2. Written(s, op, r) = t
    BY <1>3 DEF Written
  <2> HIDE DEF t
  <2> QED BY <1>3, <2>1, <2>2
<1>4. CASE op.kind = "add" \/ (op.kind = "replace" /\ Named(s, r) = {})
  <2> DEFINE e == NewEntry(op, r)
  <2>1. e \in Entry /\ e.addr = r.addr /\ e.group = r.group
    BY <1>1, NewEntryTyped
  <2>2. Written(s, op, r) = Insert(s, e)
    BY <1>4 DEF Written
  <2> HIDE DEF e
  <2>3. Named(s, r) = {}
    BY <1>4 DEF Accepts
  <2>4. Named(s, e) = {}
    BY <2>1, <2>3 DEF Named
  <2>5. KernelList(Insert(s, e)) /\ Addresses(Insert(s, e)) = Addresses(s) \cup {e.addr}
    BY <2>1, <2>4, Inserted
  <2> QED BY <1>4, <2>1, <2>2, <2>5
<1> QED BY <1>2, <1>3, <1>4 DEF IsAddress

LEMMA WritesNoList ==
  ASSUME NEW op \in Operation, ~IsAddress(op), NEW s, NEW r
  PROVE  Written(s, op, r) = s
BY DEF Written, IsAddress

\* The outcome of the operation in turn.
LEMMA ReportTyped ==
  ASSUME CallTyped, TurnTyped, phase # "ready" \/ At \in DOMAIN plan, NEW o \in Reported, Report(o),
         plan' = plan
  PROVE  TurnTyped' /\ WritingTyped'
<1>1. /\ outcome \in Seq(Reported) /\ At \in 1 .. Len(plan) /\ At = Len(outcome) + 1
      /\ Len(outcome) \in Nat
  BY DEF CallTyped, TurnTyped, At
<1>2. outcome' = Append(outcome, o) /\ phase' = "ready"
  BY DEF Report
<1>3. outcome' \in Seq(Reported) /\ Len(outcome') = At
  BY <1>1, <1>2
<1> QED BY <1>1, <1>2, <1>3 DEF TurnTyped, WritingTyped

LEMMA KernelKept ==
  ASSUME Typed, UNCHANGED <<kernel, call>>
  PROVE  KernelTyped' /\ CallTyped'
BY DEF Typed, KernelTyped, CallTyped, kernel, call

LEMMA KeysKept ==
  ASSUME plan' = plan
  PROVE  Keys' = Keys
BY DEF Keys, Key

LEMMA HistoryKept ==
  ASSUME Typed, UNCHANGED <<kernel, call, meddled, effects>>,
         faults' \in 0 .. MaxFaults, seen' \in {seen, meddled}
  PROVE  HistoryTyped' /\ KernelLike'
<1>1. meddled \in Nat
  BY ExecutorAssumption DEF Typed, HistoryTyped
<1>2. HistoryTyped'
  BY <1>1, KeysKept DEF Typed, HistoryTyped, call, effects
<1> QED BY <1>2 DEF Typed, KernelLike, kernel, effects

LEMMA FaultTyped ==
  ASSUME Typed, Fault
  PROVE  faults' \in 0 .. MaxFaults
BY ExecutorAssumption DEF Typed, HistoryTyped, Fault

LEMMA CancelKept ==
  ASSUME Typed, UNCHANGED <<plan, cancelled, dropped>>
  PROVE  CancelTyped'
BY DEF Typed, CancelTyped

LEMMA MemoryKept ==
  ASSUME Typed, UNCHANGED memory, phase' # "decide" \/ phase = "decide"
  PROVE  MemoryTyped'
BY DEF Typed, MemoryTyped, memory, NoObservation, Observation

\* The steps that only report, and leave the rest alone.
LEMMA ReportStepTyped ==
  ASSUME Typed, phase # "ready" \/ At \in DOMAIN plan, NEW o \in Reported, Report(o),
         UNCHANGED <<kernel, call, cancelled, memory, meddled, seen, effects, dropped>>,
         faults' = faults \/ Fault
  PROVE  Typed'
<1>1. TurnTyped' /\ WritingTyped'
  BY ReportTyped DEF Typed, call
<1>2. faults' \in 0 .. MaxFaults
  BY FaultTyped DEF Typed, HistoryTyped
<1>3. phase' = "ready"
  BY DEF Report
<1>4. KernelTyped' /\ CallTyped'
  BY KernelKept
<1>5. HistoryTyped' /\ KernelLike'
  BY <1>2, HistoryKept
<1>6. CancelTyped'
  BY CancelKept DEF call
<1>7. MemoryTyped'
  BY <1>3, MemoryKept
<1> QED BY <1>1, <1>4, <1>5, <1>6, <1>7 DEF Typed

LEMMA BeginTyped ==
  ASSUME Typed, Begin
  PROVE  Typed'
<1>1. /\ phase = "ready" /\ At \in DOMAIN plan
      /\ UNCHANGED <<kernel, call, cancelled, memory, meddled, faults, seen, effects, dropped>>
  BY DEF Begin
<1>2. CASE Refusal # "none" /\ Report(Refusal)
  <2>1. Refusal \in Reported
    BY <1>2 DEF Refusal, Reported
  <2> QED BY <1>1, <1>2, <2>1, ReportStepTyped
<1>3. CASE /\ Refusal = "none"
           /\ phase' = (IF current = NoObservation THEN "observe" ELSE "decide")
           /\ UNCHANGED <<outcome, writing>>
  <2>1. KernelTyped' /\ CallTyped'
    BY <1>1, KernelKept
  <2>2. HistoryTyped' /\ KernelLike'
    <3>1. faults' \in 0 .. MaxFaults
      BY <1>1 DEF Typed, HistoryTyped
    <3> QED BY <1>1, <3>1, HistoryKept
  <2>3. CancelTyped'
    BY <1>1, CancelKept DEF call
  <2>4. TurnTyped'
    BY <1>1, <1>3 DEF Typed, TurnTyped, At, call
  <2>5. WritingTyped'
    BY <1>3 DEF WritingTyped
  <2>6. MemoryTyped'
    BY <1>1, <1>3 DEF Typed, MemoryTyped, memory, NoObservation, Observation
  <2> QED BY <2>1, <2>2, <2>3, <2>4, <2>5, <2>6 DEF Typed
<1> QED BY <1>1, <1>2, <1>3 DEF Begin

LEMMA ObserveTyped ==
  ASSUME Typed, Observe
  PROVE  Typed'
<1>1. /\ phase = "observe"
      /\ UNCHANGED <<kernel, call, cancelled, groups, meddled, effects, dropped>>
  BY DEF Observe
<1>2. CASE /\ current' = Snapshot /\ seen' = meddled /\ phase' = "decide"
           /\ UNCHANGED <<outcome, writing, faults>>
  <2>1. KernelTyped' /\ CallTyped'
    BY <1>1, KernelKept
  <2>2. HistoryTyped' /\ KernelLike'
    <3>1. faults' \in 0 .. MaxFaults
      BY <1>2 DEF Typed, HistoryTyped
    <3> QED BY <1>1, <1>2, <3>1, HistoryKept
  <2>3. CancelTyped'
    BY <1>1, CancelKept DEF call
  <2>4. TurnTyped'
    BY <1>1, <1>2 DEF Typed, TurnTyped, At, call
  <2>5. WritingTyped'
    BY <1>2 DEF WritingTyped
  <2>6. MemoryTyped'
    <3>1. Snapshot \in Observation
      BY SnapshotTyped DEF Typed
    <3>2. current' \in Observation
      BY <1>2, <3>1
    <3> QED BY <1>1, <3>2 DEF Typed, MemoryTyped, Observation, NoObservation
  <2> QED BY <2>1, <2>2, <2>3, <2>4, <2>5, <2>6 DEF Typed
<1>3. CASE Fault /\ Report("QueryFailed") /\ UNCHANGED <<current, seen>>
  <2>1. "QueryFailed" \in Reported /\ UNCHANGED memory
    BY <1>1, <1>3 DEF Reported, memory
  <2> QED BY <1>1, <1>3, <2>1, ReportStepTyped
<1> QED BY <1>2, <1>3 DEF Observe

\* A decision to write nothing: an outcome, and what is expected of the groups.
LEMMA DecideUnlocatedTyped ==
  ASSUME Typed, DecideUnlocated
  PROVE  Typed'
<1> DEFINE o == LocateError(current, Op.target)
<1>1. /\ phase = "decide" /\ o # "none" /\ Report(o)
      /\ UNCHANGED <<kernel, call, cancelled, memory, meddled, faults, seen, effects, dropped>>
  BY DEF DecideUnlocated
<1>2. o \in Reported
  BY <1>1, Locations DEF Reported
<1> HIDE DEF o
<1> QED BY <1>1, <1>2, ReportStepTyped

LEMMA GroupsKept ==
  ASSUME Typed, phase = "decide", groups' \in {groups, Groups}, current' = current,
         phase' # "decide"
  PROVE  MemoryTyped'
<1>1. At \in DOMAIN plan /\ CallTyped /\ MemoryTyped
  BY DEF Typed, TurnTyped
<1>2. /\ DOMAIN Groups \subseteq Target \X KernelGroup
      /\ \A k \in DOMAIN Groups : Groups[k] \in Seq(Entry)
  BY <1>1, GroupsTyped
<1> QED BY <1>1, <1>2 DEF MemoryTyped, NoObservation, Observation

LEMMA DecideAgainstTyped ==
  ASSUME Typed, DecideAgainst
  PROVE  Typed'
<1>1. /\ phase = "decide" /\ groups' \in {groups, Groups}
      /\ UNCHANGED <<kernel, call, cancelled, current, meddled, faults, seen, effects, dropped>>
  BY DEF DecideAgainst
<1>2. PICK o \in Reported : Report(o)
  <2>1. PICK equal \in LifetimesEqual :
          Report(IF Verdict(equal) = "write" THEN "ApplyFailed" ELSE Verdict(equal))
    BY DEF DecideAgainst
  <2>2. (IF Verdict(equal) = "write" THEN "ApplyFailed" ELSE Verdict(equal)) \in Reported
    BY Verdicts DEF Reported
  <2> QED BY <2>1, <2>2
<1>3. TurnTyped' /\ WritingTyped'
  BY <1>1, <1>2, ReportTyped DEF Typed, call
<1>4. KernelTyped' /\ CallTyped'
  BY <1>1, KernelKept
<1>5. HistoryTyped' /\ KernelLike'
  <2>1. faults' \in 0 .. MaxFaults
    BY <1>1 DEF Typed, HistoryTyped
  <2> QED BY <1>1, <2>1, HistoryKept
<1>6. CancelTyped'
  BY <1>1, CancelKept DEF call
<1>7. MemoryTyped'
  <2>1. phase' = "ready"
    BY <1>2 DEF Report
  <2> QED BY <1>1, <2>1, GroupsKept
<1> QED BY <1>3, <1>4, <1>5, <1>6, <1>7 DEF Typed

LEMMA DecidePreviewTyped ==
  ASSUME Typed, DecidePreview
  PROVE  Typed'
<1>1. /\ phase = "decide" /\ Report("succeeded")
      /\ UNCHANGED <<kernel, call, cancelled, meddled, faults, seen, effects, dropped>>
      /\ current' = IF IsAddress(Op) THEN [current EXCEPT !.list[Op.target.link] = Projected]
                    ELSE [current EXCEPT !.setting[Op.target.link] = Op.arg]
      /\ groups' = IF IsAddress(Op) /\ Key(Op) \in DOMAIN Groups
                   THEN [Groups EXCEPT ![Key(Op)] = InGroup(Projected, Group[Op.addr])]
                   ELSE Groups
  BY DEF DecidePreview
<1>2. "succeeded" \in Reported /\ phase' = "ready"
  BY <1>1 DEF Reported, Report
<1>3. TurnTyped' /\ WritingTyped'
  BY <1>1, <1>2, ReportTyped DEF Typed, call
<1>4. KernelTyped' /\ CallTyped'
  BY <1>1, KernelKept
<1>5. HistoryTyped' /\ KernelLike'
  <2>1. faults' \in 0 .. MaxFaults
    BY <1>1 DEF Typed, HistoryTyped
  <2> QED BY <1>1, <2>1, HistoryKept
<1>6. CancelTyped'
  BY <1>1, CancelKept DEF call
<1>7. MemoryTyped'
  <2>1. At \in DOMAIN plan /\ CallTyped /\ MemoryTyped /\ current \in Observation
    BY <1>1 DEF Typed, TurnTyped, MemoryTyped
  <2>2. /\ DOMAIN Groups \subseteq Target \X KernelGroup
        /\ \A k \in DOMAIN Groups : Groups[k] \in Seq(Entry)
    BY <2>1, GroupsTyped
  <2>3. Projected \in Seq(Entry)
    BY <2>1, ProjectedTyped
  <2>4. InGroup(Projected, Group[Op.addr]) \in Seq(Entry)
    BY <2>3, InGroupTyped
  <2>5. /\ DOMAIN groups' \subseteq Target \X KernelGroup
        /\ \A k \in DOMAIN groups' : groups'[k] \in Seq(Entry)
    BY <1>1, <2>2, <2>4
  <2>6. Op.target.link \in Link /\ (~IsAddress(Op) => Op.arg \in Setting)
    BY <2>1, OpTyped, Operations
  <2>7. current' \in Observation
    BY <1>1, <2>1, <2>3, <2>6 DEF Observation
  <2> QED BY <2>5, <2>7 DEF MemoryTyped, NoObservation, Observation
<1> QED BY <1>3, <1>4, <1>5, <1>6, <1>7 DEF Typed

LEMMA ExistingTyped ==
  ASSUME CallTyped, At \in DOMAIN plan, current \in Observation
  PROVE  \A e \in Existing : e \in Entry /\ e \in ToSet(Device) /\ e.addr = Op.addr
BY DeviceTyped, EntriesTyped DEF Existing

LEMMA DecideWriteTyped ==
  ASSUME Typed, DecideWrite
  PROVE  Typed'
<1>1. /\ phase = "decide" /\ phase' = "confirm" /\ groups' = Groups /\ current' = NoObservation
      /\ predicted' = Projected /\ record' = RecordOf(Op, Existing)
      /\ UNCHANGED <<kernel, call, cancelled, outcome, meddled, faults, seen, effects, dropped>>
  BY DEF DecideWrite
<1>2. At \in DOMAIN plan /\ CallTyped /\ MemoryTyped /\ current \in Observation
  BY <1>1 DEF Typed, TurnTyped, MemoryTyped
<1>3. KernelTyped' /\ CallTyped'
  BY <1>1, KernelKept
<1>4. HistoryTyped' /\ KernelLike'
  <2>1. faults' \in 0 .. MaxFaults
    BY <1>1 DEF Typed, HistoryTyped
  <2> QED BY <1>1, <2>1, HistoryKept
<1>5. CancelTyped'
  BY <1>1, CancelKept DEF call
<1>6. TurnTyped'
  BY <1>1 DEF Typed, TurnTyped, At, call
<1>7. MemoryTyped'
  <2>1. /\ DOMAIN Groups \subseteq Target \X KernelGroup
        /\ \A k \in DOMAIN Groups : Groups[k] \in Seq(Entry)
    BY <1>2, GroupsTyped
  <2> QED BY <1>1, <2>1 DEF MemoryTyped, NoObservation, Observation
<1>8. WritingTyped'
  <2>1. Op \in Operation /\ \A e \in Existing : e \in Entry /\ e.addr = Op.addr
    BY <1>2, OpTyped, ExistingTyped
  <2>2. /\ RecordOf(Op, Existing) \in [addr: Address, group: KernelGroup]
        /\ RecordOf(Op, Existing).addr = Op.addr
    BY <2>1, RecordTyped
  <2>3. Projected \in Seq(Entry)
    BY <1>2, ProjectedTyped
  <2>4. Op' = Op
    BY <1>1 DEF Op, At, call
  <2> QED BY <1>1, <2>2, <2>3, <2>4 DEF WritingTyped
<1> QED BY <1>3, <1>4, <1>5, <1>6, <1>7, <1>8 DEF Typed

LEMMA ConfirmTyped ==
  ASSUME Typed, Confirm
  PROVE  Typed'
<1>1. /\ phase = "confirm"
      /\ UNCHANGED <<kernel, call, cancelled, memory, meddled, seen, effects, dropped>>
  BY DEF Confirm
<1>2. CASE phase' = "submitted" /\ UNCHANGED <<outcome, writing, faults>>
  <2>1. KernelTyped' /\ CallTyped'
    BY <1>1, KernelKept
  <2>2. HistoryTyped' /\ KernelLike'
    <3>1. faults' \in 0 .. MaxFaults
      BY <1>2 DEF Typed, HistoryTyped
    <3> QED BY <1>1, <3>1, HistoryKept
  <2>3. CancelTyped'
    BY <1>1, CancelKept DEF call
  <2>4. TurnTyped'
    BY <1>1, <1>2 DEF Typed, TurnTyped, At, call
  <2>5. WritingTyped'
    BY <1>1, <1>2 DEF Typed, WritingTyped, writing, Op, At, call
  <2>6. MemoryTyped'
    BY <1>1, <1>2, MemoryKept
  <2> QED BY <2>1, <2>2, <2>3, <2>4, <2>5, <2>6 DEF Typed
<1>3. ASSUME NEW o \in {"NotFound", "StaleState", "QueryFailed"}, Report(o),
             faults' = faults \/ Fault
      PROVE  Typed'
  BY <1>1, <1>3, ReportStepTyped DEF Reported
<1> QED BY <1>2, <1>3 DEF Confirm

LEMMA WriteTyped ==
  ASSUME Typed, Write
  PROVE  Typed'
<1> DEFINE l == Op.target.link
<1>1. /\ phase = "submitted" /\ phase' = "written" /\ Accepts(list[l], Op, record)
      /\ list' = [list EXCEPT ![l] = Written(list[l], Op, record)]
      /\ setting' = IF Op.kind = "set" THEN [setting EXCEPT ![l] = Op.arg] ELSE setting
      /\ reached' = reached \cup {At}
      /\ cascaded' = IF Op.kind = "remove" /\ meddled = seen
           THEN cascaded \cup ({At} \X ((Addresses(list[l]) \ Addresses(list'[l])) \ {Op.addr}))
           ELSE cascaded
      /\ UNCHANGED <<token, promote, call, cancelled, outcome, memory, writing, meddled,
                     faults, seen, replay, dropped>>
  BY DEF Write
<1>2. At \in DOMAIN plan /\ CallTyped
  BY <1>1 DEF Typed, TurnTyped
<1>3. /\ Op \in Operation /\ l \in Link /\ (~IsAddress(Op) => Op.arg \in Setting)
      /\ Op.addr \in Address
  BY <1>2, OpTyped, Operations
<1>4. /\ record \in [addr: Address, group: KernelGroup] /\ record.addr = Op.addr
      /\ predicted \in Seq(Entry)
  BY <1>1 DEF Typed, WritingTyped
<1> HIDE DEF l
<1>5. ASSUME NEW s, KernelList(s), Accepts(s, Op, record)
      PROVE  KernelList(Written(s, Op, record))
  <2>1. CASE IsAddress(Op)
    BY <1>3, <1>4, <1>5, <2>1, WritesList
  <2>2. CASE ~IsAddress(Op)
    BY <1>3, <1>5, <2>2, WritesNoList
  <2> QED BY <2>1, <2>2
<1>6. list \in [Link -> Seq(Entry)] /\ \A k \in Link : KernelList(list[k])
  BY DEF Typed, KernelTyped, KernelLike
<1>7. list' \in [Link -> Seq(Entry)] /\ \A k \in Link : KernelList(list'[k])
  <2>1. KernelList(Written(list[l], Op, record))
    BY <1>1, <1>3, <1>5, <1>6
  <2> QED BY <1>1, <1>3, <1>6, <2>1 DEF KernelList
<1>9. KernelTyped'
  <2>1. Op.kind = "set" => Op.arg \in Setting
    BY <1>3 DEF IsAddress
  <2>2. setting' \in [Link -> Setting]
    BY <1>1, <1>3, <2>1 DEF Typed, KernelTyped
  <2> QED BY <1>1, <1>7, <2>2 DEF Typed, KernelTyped
<1>10. CallTyped'
  BY <1>1 DEF Typed, CallTyped, call
<1>11. TurnTyped'
  BY <1>1 DEF Typed, TurnTyped, At, call
<1>12. MemoryTyped'
  BY <1>1, MemoryKept
<1>13. WritingTyped'
  BY <1>1, <1>4 DEF WritingTyped, writing, Op, At, call
<1>14. HistoryTyped'
  <2>1. Addresses(list[l]) \subseteq Address
    <3>1. list[l] \in Seq(Entry)
      BY <1>3, <1>6
    <3> QED BY <3>1, AddressesTyped
  <2>2. cascaded' \subseteq (DOMAIN plan) \X Address
    BY <1>1, <1>2, <2>1 DEF Typed, HistoryTyped
  <2> QED BY <1>1, <1>2, <2>2, KeysKept DEF Typed, HistoryTyped, call
<1>15. CancelTyped'
  BY <1>1, CancelKept DEF call
<1>16. KernelLike'
  BY <1>7 DEF KernelLike
<1> QED BY <1>9, <1>10, <1>11, <1>12, <1>13, <1>14, <1>15, <1>16 DEF Typed

LEMMA WriteNothingTyped ==
  ASSUME Typed, WriteNothing
  PROVE  Typed'
<1>1. /\ phase = "submitted"
      /\ UNCHANGED <<kernel, call, cancelled, memory, meddled, seen, effects, dropped>>
  BY DEF WriteNothing
<1>2. ASSUME NEW o \in {"NotFound", "ApplyFailed", "QueryFailed", "OutcomeUnknown"}, Report(o),
             faults' = faults \/ Fault
      PROVE  Typed'
  BY <1>1, <1>2, ReportStepTyped DEF Reported
<1> QED BY <1>2 DEF WriteNothing

LEMMA AcknowledgeTyped ==
  ASSUME Typed, Acknowledge
  PROVE  Typed'
<1>1. /\ phase = "written" /\ Report("succeeded") /\ faults' = faults
      /\ UNCHANGED <<kernel, call, cancelled, memory, meddled, seen, effects, dropped>>
  BY DEF Acknowledge
<1> QED BY <1>1, ReportStepTyped DEF Reported

LEMMA VerifyTyped ==
  ASSUME Typed, Verify
  PROVE  Typed'
<1>1. /\ phase = "written" /\ current' = Snapshot /\ seen' = meddled /\ Report("succeeded")
      /\ replay' = IF Key(Op) \in DOMAIN groups
                   THEN [replay EXCEPT ![Key(Op)] = Project(replay[Key(Op)])] ELSE replay
      /\ groups' = IF Key(Op) \in DOMAIN groups
                   THEN [groups EXCEPT ![Key(Op)] =
                           InGroup(Observed(list[Op.target.link]), Group[Op.addr])]
                   ELSE groups
      /\ UNCHANGED <<kernel, call, cancelled, meddled, faults, reached, cascaded, dropped>>
  BY DEF Verify
<1>2. "succeeded" \in Reported /\ phase' = "ready"
  BY <1>1 DEF Reported, Report
<1>3. TurnTyped' /\ WritingTyped'
  BY <1>1, <1>2, ReportTyped DEF Typed, call
<1>4. KernelTyped' /\ CallTyped'
  BY <1>1, KernelKept
<1>5. HistoryTyped' /\ KernelLike'
  <2>1. meddled \in Nat /\ replay \in [Keys -> Seq(Entry)]
    BY ExecutorAssumption DEF Typed, HistoryTyped
  <2>2. At \in DOMAIN plan /\ CallTyped
    BY <1>1 DEF Typed, TurnTyped
  <2>3. Key(Op) \in Keys
    BY <2>2 DEF Keys, Op
  <2>4. Project(replay[Key(Op)]) \in Seq(Entry)
    BY <2>1, <2>2, <2>3, ProjectTyped
  <2>5. replay' \in [Keys -> Seq(Entry)]
    BY <1>1, <2>1, <2>4
  <2>6. HistoryTyped'
    BY <1>1, <2>1, <2>5, KeysKept DEF Typed, HistoryTyped, call
  <2> QED BY <1>1, <2>6 DEF Typed, KernelLike, kernel
<1>6. CancelTyped'
  BY <1>1, CancelKept DEF call
<1>7. MemoryTyped'
  <2>1. At \in DOMAIN plan /\ CallTyped /\ KernelTyped /\ MemoryTyped
    BY <1>1 DEF Typed, TurnTyped
  <2>2. Op.target.link \in Link
    BY <2>1, OpTyped, Operations
  <2>3. InGroup(Observed(list[Op.target.link]), Group[Op.addr]) \in Seq(Entry)
    BY <2>1, <2>2, Observes, InGroupTyped DEF KernelTyped
  <2>4. current' \in Observation
    BY <1>1, <2>1, SnapshotTyped
  <2> QED BY <1>1, <2>1, <2>3, <2>4 DEF MemoryTyped, NoObservation, Observation
<1> QED BY <1>3, <1>4, <1>5, <1>6, <1>7 DEF Typed

LEMMA VerifyFailsTyped ==
  ASSUME Typed, VerifyFails
  PROVE  Typed'
<1>1. /\ phase = "written"
      /\ UNCHANGED <<kernel, call, cancelled, memory, meddled, seen, effects, dropped>>
  BY DEF VerifyFails
<1>2. CASE VerifyError(Snapshot) # "none" /\ Report(VerifyError(Snapshot)) /\ UNCHANGED faults
  <2>1. VerifyError(Snapshot) \in Reported
    <3>1. \A o : o = LocateError(Snapshot, Op.target) => o \in Reported \cup {"none"}
      BY Locations DEF Reported
    <3> QED BY <1>2, <3>1 DEF VerifyError, Reported
  <2> QED BY <1>1, <1>2, <2>1, ReportStepTyped
<1>3. CASE Fault /\ Report("OutcomeUnknown")
  BY <1>1, <1>3, ReportStepTyped DEF Reported
<1> QED BY <1>2, <1>3 DEF VerifyFails

LEMMA CancelStepTyped ==
  ASSUME Typed, Cancel
  PROVE  Typed'
<1>1. /\ cancelled' = TRUE
      /\ dropped' = IF phase \in {"confirm", "submitted", "written"} THEN At ELSE Len(outcome)
      /\ UNCHANGED <<kernel, call, phase, outcome, memory, writing, meddled, faults, seen, effects>>
  BY DEF Cancel
<1>2. KernelTyped' /\ CallTyped'
  BY <1>1, KernelKept
<1>3. HistoryTyped' /\ KernelLike'
  <2>1. faults' \in 0 .. MaxFaults
    BY <1>1 DEF Typed, HistoryTyped
  <2> QED BY <1>1, <2>1, HistoryKept
<1>4. TurnTyped' /\ WritingTyped' /\ MemoryTyped'
  <2>1. TurnTyped' /\ WritingTyped'
    BY <1>1 DEF Typed, TurnTyped, WritingTyped, At, Op, call, writing
  <2> QED BY <1>1, <2>1, MemoryKept
<1>5. CancelTyped'
  <2>1. /\ Len(outcome) \in Nat /\ Len(plan) \in Nat /\ Len(outcome) <= Len(plan)
        /\ DOMAIN plan = 1 .. Len(plan)
        /\ phase # "ready" => At \in DOMAIN plan
    BY DEF Typed, CallTyped, TurnTyped
  <2>2. dropped' \in 0 .. Len(plan)
    BY <1>1, <2>1
  <2> QED BY <1>1, <2>2 DEF CancelTyped, call
<1> QED BY <1>2, <1>3, <1>4, <1>5 DEF Typed

\* Other programs change the kernel's lists as the kernel does.
LEMMA ElsewhereTyped ==
  ASSUME Typed, Elsewhere
  PROVE  Typed'
<1>1. /\ meddled < MaxMeddling /\ meddled' = meddled + 1
      /\ UNCHANGED <<promote, call, cancelled, phase, outcome, memory, writing, faults, seen,
                     effects, dropped>>
  BY DEF Elsewhere, AddElsewhere, DeleteElsewhere, SetElsewhere, DeleteLink, RenewLink, Meddle
<1>2. meddled \in Nat /\ meddled + 1 \in 0 .. MaxMeddling /\ seen \in 0 .. meddled + 1
  BY <1>1, ExecutorAssumption DEF Typed, HistoryTyped
<1>3. KernelTyped /\ \A l \in Link : KernelList(list[l])
  BY DEF Typed, KernelLike
<1>4. KernelList(<<>>)
  BY DEF KernelList
<1>5. KernelTyped' /\ \A l \in Link : KernelList(list'[l])
  <2>1. ASSUME NEW l \in Link, NEW s, KernelList(s), list' = [list EXCEPT ![l] = s]
        PROVE  list' \in [Link -> Seq(Entry)] /\ \A k \in Link : KernelList(list'[k])
    BY <1>3, <2>1 DEF KernelTyped, KernelList
  <2> SUFFICES ASSUME NEW l \in Link,
                      \/ \E e \in Entry : AddElsewhere(l, e) \/ DeleteElsewhere(l, e)
                      \/ \E v \in Setting : SetElsewhere(l, v)
                      \/ DeleteLink(l)
                      \/ \E s \in {<<>>, list[l]} : RenewLink(l, s)
               PROVE  KernelTyped' /\ \A k \in Link : KernelList(list'[k])
    BY DEF Elsewhere
  <2>2. ASSUME NEW e \in Entry, AddElsewhere(l, e)
        PROVE  KernelTyped' /\ \A k \in Link : KernelList(list'[k])
    <3>1. KernelList(Insert(list[l], e))
      BY <1>3, <2>2, Inserted DEF AddElsewhere
    <3> QED BY <1>1, <1>3, <2>1, <2>2, <3>1 DEF AddElsewhere, KernelTyped
  <2>3. ASSUME NEW e \in Entry, DeleteElsewhere(l, e)
        PROVE  KernelTyped' /\ \A k \in Link : KernelList(list'[k])
    <3>1. KernelList(Delete(list[l], e))
      BY <1>3, <2>3, Deleted DEF DeleteElsewhere
    <3> QED BY <1>1, <1>3, <2>1, <2>3, <3>1 DEF DeleteElsewhere, KernelTyped
  <2>4. ASSUME NEW v \in Setting, SetElsewhere(l, v)
        PROVE  KernelTyped' /\ \A k \in Link : KernelList(list'[k])
    BY <1>1, <1>3, <2>4 DEF SetElsewhere, KernelTyped
  <2>5. CASE DeleteLink(l)
    BY <1>1, <1>3, <1>4, <2>1, <2>5 DEF DeleteLink, KernelTyped
  <2>6. ASSUME NEW s \in {<<>>, list[l]}, RenewLink(l, s)
        PROVE  KernelTyped' /\ \A k \in Link : KernelList(list'[k])
    <3>1. KernelList(s)
      BY <1>3, <1>4, <2>6
    <3>2. token' = [token EXCEPT ![l] = meddled + 2] /\ list' = [list EXCEPT ![l] = s]
          /\ UNCHANGED <<setting, promote>>
      BY <1>1, <2>6 DEF RenewLink
    <3>3. meddled + 2 \in Nat
      BY <1>2
    <3>4. token' \in [Link -> Nat]
      BY <1>3, <3>2, <3>3 DEF KernelTyped
    <3> QED BY <1>3, <2>1, <3>1, <3>2, <3>4 DEF KernelTyped
  <2> QED BY <2>2, <2>3, <2>4, <2>5, <2>6
<1>6. CallTyped' /\ CancelTyped'
  BY <1>1 DEF Typed, CallTyped, CancelTyped, call
<1>7. TurnTyped' /\ WritingTyped'
  BY <1>1 DEF Typed, TurnTyped, WritingTyped, At, Op, call, writing
<1>8. MemoryTyped'
  BY <1>1, MemoryKept
<1>9. HistoryTyped' /\ KernelLike'
  BY <1>1, <1>2, <1>5, KeysKept DEF Typed, HistoryTyped, KernelLike, call, effects
<1> QED BY <1>5, <1>6, <1>7, <1>8, <1>9 DEF Typed

LEMMA InitTyped == Init => Typed
<1> SUFFICES ASSUME Init
             PROVE  Typed
  OBVIOUS
<1>1. /\ list \in [Link -> Seq(Entry)] /\ planned = list
      /\ \A l \in Link : KernelList(list[l])
  BY ExecutorAssumption DEF Init
<1>2. plan \in Seq(Operation) /\ Len(plan) \in Nat /\ phase = "ready" /\ Len(outcome) = 0
  BY ExecutorAssumption DEF Init
<1>3. KernelTyped /\ CallTyped /\ KernelLike
  BY <1>1, <1>2 DEF Init, KernelTyped, CallTyped, KernelLike
<1>4. TurnTyped /\ WritingTyped
  BY <1>2 DEF Init, TurnTyped, WritingTyped
<1>5. MemoryTyped
  <2>1. DOMAIN groups = {}
    BY DEF Init
  <2> QED BY <1>2, <2>1 DEF Init, MemoryTyped
<1>6. HistoryTyped /\ CancelTyped
  <2>1. 0 \in 0 .. MaxMeddling /\ 0 \in 0 .. MaxFaults /\ 0 \in 0 .. 0 /\ 0 \in 0 .. Len(plan)
    BY <1>2, ExecutorAssumption
  <2>2. meddled = 0 /\ faults = 0 /\ seen = 0 /\ reached = {} /\ cascaded = {} /\ dropped = 0
        /\ cancelled = FALSE
    BY DEF Init
  <2>3. replay \in [Keys -> Seq(Entry)]
    <3>1. ASSUME NEW i \in DOMAIN plan
          PROVE  PlannedGroup(Key(plan[i])) \in Seq(Entry)
      <4>1. Key(plan[i])[1] = plan[i].target /\ plan[i].target.link \in Link
        BY <1>2, Operations DEF Key
      <4>2. planned[plan[i].target.link] \in Seq(Entry)
        BY <1>1, <4>1
      <4> QED BY <4>1, <4>2, Observes, InGroupTyped DEF PlannedGroup
    <3>2. replay = [k \in Keys |-> PlannedGroup(k)]
      BY DEF Init
    <3> QED BY <3>1, <3>2 DEF Keys
  <2> QED BY <2>1, <2>2, <2>3 DEF HistoryTyped, CancelTyped
<1> QED BY <1>3, <1>4, <1>5, <1>6 DEF Typed

LEMMA TypedStep == Typed /\ [Next]_vars => Typed'
<1> SUFFICES ASSUME Typed, [Next]_vars
             PROVE  Typed'
  OBVIOUS
<1>1. CASE Run
  BY <1>1, BeginTyped, ObserveTyped, DecideUnlocatedTyped, DecideAgainstTyped, DecidePreviewTyped,
     DecideWriteTyped, ConfirmTyped, WriteTyped, WriteNothingTyped, AcknowledgeTyped,
     VerifyTyped, VerifyFailsTyped DEF Run, Decide
<1>2. CASE Cancel
  BY <1>2, CancelStepTyped
<1>3. CASE Elsewhere
  BY <1>3, ElsewhereTyped
<1>4. CASE Returned \/ UNCHANGED vars
  <2>1. /\ UNCHANGED <<kernel, call, cancelled, phase, outcome, memory, writing>>
        /\ UNCHANGED <<meddled, faults, seen, effects, dropped>>
    BY <1>4 DEF Returned, vars
  <2>2. KernelTyped' /\ CallTyped'
    BY <2>1, KernelKept
  <2>3. HistoryTyped' /\ KernelLike'
    <3>1. faults' \in 0 .. MaxFaults
      BY <2>1 DEF Typed, HistoryTyped
    <3> QED BY <2>1, <3>1, HistoryKept
  <2>4. TurnTyped' /\ WritingTyped' /\ CancelTyped'
    BY <2>1 DEF Typed, TurnTyped, WritingTyped, CancelTyped, At, Op, call, writing
  <2>5. MemoryTyped'
    BY <2>1, MemoryKept
  <2> QED BY <2>2, <2>3, <2>4, <2>5 DEF Typed
<1> QED BY <1>1, <1>2, <1>3, <1>4 DEF Next

\* The values of the executor's variables (Execution and its call), and of the kernel's.
THEOREM TypesHold == Spec => []TypeOK
<1>1. Spec => []Typed
  BY InitTyped, TypedStep, PTL DEF Spec
<1> QED BY <1>1, TypedIsTypeOK, PTL
=============================================================================
