--------------------------- MODULE PlanExecution ---------------------------
(***************************************************************************)
(* What NetworkBackend promises of a plan (lib.rs, apply and dry_run): the  *)
(* operations are taken in list order, each is reported exactly once, one   *)
(* whose dependency was not carried out is left alone, an operation reaches *)
(* the kernel at most once and only while it is its turn, and a dry run     *)
(* reaches it never.                                                        *)
(***************************************************************************)
EXTENDS Integers, Sequences

CONSTANT Dependencies \* the possible plans: sequences of sets of indices

VARIABLES
  preview, \* a dry run
  deps,    \* the plan: what each operation depends on
  reports, \* one outcome for each operation taken so far
  reached  \* the operations whose write reached the kernel

vars == <<preview, deps, reports, reached>>

Outcome == {"done", "skipped", "blocked", "failed"}

\* The operation whose turn it is.
Turn == Len(reports) + 1

\* An operation counts as carried out when it was done or had nothing to do.
CarriedOut(i) == i \in DOMAIN reports /\ reports[i] \in {"done", "skipped"}
Ready == \A d \in deps[Turn] : d < Turn /\ CarriedOut(d)

\* The kernel carries out the write of the operation whose turn it is.
Reach ==
  /\ Turn \in DOMAIN deps
  /\ ~preview
  /\ Ready
  /\ Turn \notin reached
  /\ reached' = reached \cup {Turn}
  /\ UNCHANGED <<preview, deps, reports>>

Report(o) ==
  /\ Turn \in DOMAIN deps
  /\ o \in {"done", "skipped"} => Ready
  /\ o = "blocked" => ~Ready
  /\ o = "done" => preview \/ Turn \in reached
  /\ o \in {"skipped", "blocked"} => Turn \notin reached
  /\ reports' = Append(reports, o)
  /\ UNCHANGED <<preview, deps, reached>>

Init ==
  /\ preview \in BOOLEAN
  /\ deps \in Dependencies
  /\ reports = <<>>
  /\ reached = {}

Next == Reach \/ \E o \in Outcome : Report(o)

Spec == Init /\ [][Next]_vars
=============================================================================
