------------------------------- MODULE Lifetimes -------------------------------
(***************************************************************************)
(* How the executor tells a lifetime that only ran down from one that       *)
(* somebody changed (executor.rs).  The kernel counts a lifetime down in    *)
(* whole seconds; a dump samples it some time before the dump is dated; the *)
(* executor may write, and then moves what it expects to the time after the *)
(* write, in whole seconds; a second dump is compared with what it expects. *)
(*                                                                          *)
(* Time passes in ticks, Ticks of them in a second.  One address with one   *)
(* lifetime stands for all; its record stays when the lifetime has run out. *)
(***************************************************************************)
EXTENDS Integers

CONSTANTS
  Ticks,     \* ticks in a second
  Forever,   \* u32::MAX, the lifetime that never runs out
  Requested, \* lifetimes that addresses are given
  MaxTime    \* bound: ticks that pass

ASSUME LifetimesAssumption ==
  /\ Ticks \in Nat \ {0} /\ Forever \in Nat /\ MaxTime \in Nat
  /\ Requested \subseteq 0 .. Forever

VARIABLES
  now,
  \* the kernel
  lft, since,  \* the lifetime given last, and when
  \* the executor
  step,        \* start, sampled, dated, written, rebased, again or compared
  expected,    \* the lifetime expected, as of at
  at,          \* observed_at of what is expected
  actual,      \* the lifetime in the second dump
  until,       \* observed_at of the second dump
  verdict,     \* whether actual is what was expected
  \* history
  kept, keptSince, \* the lifetime the executor knows of, and when it was given
  from,        \* when expected was true
  moved,       \* seconds that expected was moved by since
  again,       \* when the second dump was sampled
  untouched    \* nobody else had given another lifetime by then

kernel == <<lft, since>>
executor == <<expected, at, actual, until, verdict>>
history == <<kept, keptSince, from, moved, again, untouched>>
vars == <<now, kernel, step, executor, history>>

-----------------------------------------------------------------------------
(* The code.  Durations are in ticks. *)

WholeSeconds(duration) ==
  IF duration \div Ticks < Forever THEN duration \div Ticks ELSE Forever

\* Mutant: what is left may be less than nothing.
DecayBelowZero(seconds, elapsed) == IF seconds = Forever THEN seconds ELSE seconds - elapsed

Decay(seconds, elapsed) ==
  IF seconds = Forever THEN seconds
  ELSE IF seconds > elapsed THEN seconds - elapsed ELSE 0

\* Mutant: only the range of the truncated elapsed time is allowed.
InRangeExact(consumed, floor, ceil) == consumed >= floor /\ consumed <= ceil

\* One second beyond the truncated elapsed range.
InRange(consumed, floor, ceil) == consumed >= floor - 1 /\ consumed <= ceil + 1

\* Mutant: a lifetime that is over matches whatever was expected.
RanOutAnyway(was, is, ceil) == is = 0

RanOut(was, is, ceil) == is = 0 /\ was <= ceil + 1

Ceil(elapsed) == WholeSeconds(elapsed) + (IF elapsed % Ticks > 0 THEN 1 ELSE 0)

LifetimeMatches(was, is, elapsed) ==
  IF was = Forever \/ is = Forever THEN was = is
  ELSE \/ InRange(was - is, WholeSeconds(elapsed), Ceil(elapsed))
       \/ RanOut(was, is, Ceil(elapsed))

-----------------------------------------------------------------------------
(* The kernel. *)

Remaining(lifetime, given, time) ==
  IF lifetime = Forever THEN Forever
  ELSE IF lifetime > (time - given) \div Ticks THEN lifetime - (time - given) \div Ticks
  ELSE 0

Wait ==
  /\ now < MaxTime /\ now' = now + 1
  /\ UNCHANGED <<kernel, step, executor, history>>

\* Another process gives the address another lifetime.
Replace(lifetime) ==
  /\ lft' = lifetime /\ since' = now
  /\ UNCHANGED <<now, step, executor, history>>

-----------------------------------------------------------------------------
(* The executor. *)

\* The first dump.
Sample ==
  /\ step = "start" /\ step' = "sampled"
  /\ expected' = Remaining(lft, since, now)
  /\ kept' = lft /\ keptSince' = since /\ from' = now
  /\ UNCHANGED <<now, kernel, at, actual, until, verdict, moved, again, untouched>>

Date ==
  /\ step = "sampled" /\ step' = "dated"
  /\ at' = now
  /\ UNCHANGED <<now, kernel, expected, actual, until, verdict, history>>

\* A write to something else, or one that gives the address a lifetime.
WriteElsewhere ==
  /\ step = "dated" /\ step' = "rebased"
  /\ LET elapsed == WholeSeconds(now - at)
     IN  expected' = Decay(expected, elapsed) /\ moved' = elapsed
  /\ at' = now
  /\ UNCHANGED <<now, kernel, actual, until, verdict, kept, keptSince, from, again, untouched>>

WriteLifetime(lifetime) ==
  /\ step = "dated" /\ step' = "written"
  /\ lifetime # 0
  /\ lft' = lifetime /\ since' = now
  /\ kept' = lifetime /\ keptSince' = now /\ from' = now
  /\ UNCHANGED <<now, executor, moved, again, untouched>>

\* The write is acknowledged: what it gave is expected from now.
Acknowledged ==
  /\ step = "written" /\ step' = "rebased"
  /\ expected' = kept /\ at' = now
  /\ UNCHANGED <<now, kernel, actual, until, verdict, history>>

\* The second dump, and the comparison.
SampleAgain ==
  /\ step \in {"dated", "rebased"} /\ step' = "again"
  /\ actual' = Remaining(lft, since, now) /\ again' = now
  /\ untouched' = (lft = kept /\ since = keptSince)
  /\ UNCHANGED <<now, kernel, expected, at, until, verdict, kept, keptSince, from, moved>>

Compare ==
  /\ step = "again" /\ step' = "compared"
  /\ until' = now
  /\ verdict' = LifetimeMatches(expected, actual, now - at)
  /\ UNCHANGED <<now, kernel, expected, at, actual, history>>

Init ==
  /\ now = 0 /\ lft \in Requested /\ since = 0
  /\ step = "start" /\ expected = 0 /\ at = 0 /\ actual = 0 /\ until = 0 /\ verdict = FALSE
  /\ kept = lft /\ keptSince = 0 /\ from = 0 /\ moved = 0 /\ again = 0
  /\ untouched = TRUE

Next ==
  \/ Wait
  \/ \E lifetime \in Requested : Replace(lifetime)
  \/ Sample \/ Date
  \/ WriteElsewhere
  \/ \E lifetime \in Requested : WriteLifetime(lifetime)
  \/ Acknowledged
  \/ SampleAgain \/ Compare

Spec == Init /\ [][Next]_vars

-----------------------------------------------------------------------------
(* Properties. *)

TypeOK ==
  /\ now \in Nat
  /\ lft \in 0 .. Forever /\ since \in 0 .. now
  /\ step \in {"start", "sampled", "dated", "written", "rebased", "again", "compared"}
  /\ expected \in 0 .. Forever /\ actual \in 0 .. Forever /\ verdict \in BOOLEAN
  /\ at \in 0 .. now /\ until \in 0 .. now /\ again \in 0 .. now
  /\ kept \in 0 .. Forever /\ keptSince \in 0 .. now /\ from \in keptSince .. now
  /\ moved \in Nat /\ untouched \in BOOLEAN

\* The time by which the expectation is older than it says, because the first
\* dump was sampled before it was dated and the write moved it by whole seconds
\* only, differs by at most a second from the age of the second dump.
Slack == at - from - Ticks * moved
Prompt ==
  /\ Slack - (until - again) <= Ticks
  /\ (until - again) - Slack <= Ticks

\* Time alone is no change: the lifetime of an address that nobody touched is
\* found as expected when the dumps and the write are prompt, at zero and at
\* u32::MAX too (lifetime_matches and rebase_lifetimes).
TimeAloneMatches == step = "compared" /\ untouched /\ Prompt => verdict

\* What the lifetime would be had nobody touched it.
Undisturbed == Remaining(kept, keptSince, again)

\* A change by more than three seconds is no time passing: what is accepted is
\* that near to what the lifetime had come to (lifetime_matches).
ChangesAreSeen ==
  step = "compared" /\ Prompt /\ verdict =>
    /\ (actual = Forever) = (kept = Forever)
    /\ actual - Undisturbed <= 3 /\ Undisturbed - actual <= 3

\* The inductive invariant: what is expected and found is what the kernel told
\* at the time it is from.
Inv ==
  /\ TypeOK
  /\ step \in {"start", "sampled", "dated", "written"} => moved = 0
  /\ step \in {"sampled", "dated"} => expected = Remaining(kept, keptSince, from)
  /\ step = "written" => keptSince = from
  /\ step \in {"dated", "rebased", "again", "compared"} =>
       /\ expected = Decay(Remaining(kept, keptSince, from), moved)
       /\ from + Ticks * moved <= at
  /\ step \in {"again", "compared"} =>
       /\ at <= again
       /\ untouched => actual = Undisturbed
  /\ step = "compared" =>
       /\ again <= until
       /\ verdict = LifetimeMatches(expected, actual, until - at)
=============================================================================
