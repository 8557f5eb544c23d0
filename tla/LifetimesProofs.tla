---------------------------- MODULE LifetimesProofs ----------------------------
(***************************************************************************)
(* Proofs about Lifetimes: what it promises holds for every resolution of   *)
(* time, every lifetime and every length of the dumps and the write.        *)
(***************************************************************************)
EXTENDS Lifetimes, TLAPS

USE LifetimesAssumption DEF LifetimesAssumption

-----------------------------------------------------------------------------
(* Whole seconds. *)

\* Division into whole seconds and the rest.
LEMMA Division ==
  ASSUME NEW n \in Nat
  PROVE  /\ n \div Ticks \in Nat /\ n % Ticks \in 0 .. Ticks - 1
         /\ n = Ticks * (n \div Ticks) + (n % Ticks)
  OBVIOUS

\* More whole seconds on one side are at least as many ticks more.
LEMMA Multiples ==
  ASSUME NEW p \in Int, NEW q \in Int, p < q
  PROVE  Ticks * p + Ticks <= Ticks * q
<1>1. PICK d \in Nat : q = p + 1 + d
  <2>1. q - p - 1 \in Nat /\ q = p + 1 + (q - p - 1)
    OBVIOUS
  <2> QED BY <2>1
<1>2. Ticks * q = Ticks * p + Ticks + Ticks * d
  BY <1>1
<1>3. Ticks * d >= 0
  OBVIOUS
<1> QED BY <1>2, <1>3

\* The seconds a lifetime loses between two samples of it.
LEMMA Arithmetic ==
  ASSUME NEW given \in Nat, NEW first \in Nat, NEW m \in Nat, NEW dated \in Nat,
         NEW second \in Nat, NEW end \in Nat,
         given <= first, first + Ticks * m <= dated, dated <= second, second <= end,
         (dated - first - Ticks * m) - (end - second) <= Ticks,
         (end - second) - (dated - first - Ticks * m) <= Ticks
  PROVE  LET consumed == (second - given) \div Ticks - (first - given) \div Ticks - m
             floor == (end - dated) \div Ticks
             ceil == floor + (IF (end - dated) % Ticks > 0 THEN 1 ELSE 0)
         IN  consumed >= floor - 1 /\ consumed <= ceil + 1
<1> DEFINE a == (first - given) \div Ticks
           b == (second - given) \div Ticks
           f == (end - dated) \div Ticks
           ra == (first - given) % Ticks
           rb == (second - given) % Ticks
           rf == (end - dated) % Ticks
           c == f + (IF rf > 0 THEN 1 ELSE 0)
<1>0. /\ first - given \in Nat /\ second - given \in Nat /\ end - dated \in Nat
  <2>1. Ticks * m >= 0
    OBVIOUS
  <2> QED BY <2>1
<1>1. /\ a \in Nat /\ ra \in 0 .. Ticks - 1 /\ first - given = Ticks * a + ra
  BY <1>0, Division
<1>2. /\ b \in Nat /\ rb \in 0 .. Ticks - 1 /\ second - given = Ticks * b + rb
  BY <1>0, Division
<1>3. /\ f \in Nat /\ rf \in 0 .. Ticks - 1 /\ end - dated = Ticks * f + rf
  BY <1>0, Division
<1> HIDE DEF a, b, f, ra, rb, rf
<1>4. b - a - m >= f - 1
  <2>1. SUFFICES ASSUME b < a + m + f - 1 PROVE FALSE
    BY <1>1, <1>2, <1>3
  <2>2. Ticks * b + Ticks <= Ticks * (a + m + f - 1)
    BY <2>1, <1>1, <1>2, <1>3, Multiples
  <2>3. Ticks * (a + m + f - 1) = Ticks * a + Ticks * m + Ticks * f - Ticks
    BY <1>1, <1>3
  <2> QED BY <2>2, <2>3, <1>1, <1>2, <1>3
<1>5. b - a - m <= c + 1
  <2>1. SUFFICES ASSUME a + m + c + 1 < b PROVE FALSE
    BY <1>1, <1>2, <1>3
  <2>2. Ticks * (a + m + c + 1) + Ticks <= Ticks * b
    BY <2>1, <1>1, <1>2, <1>3, Multiples
  <2>3. Ticks * (a + m + c + 1) = Ticks * a + Ticks * m + Ticks * c + Ticks
    BY <1>1, <1>3
  <2>4. Ticks * c >= Ticks * f + rf
    <3>1. CASE rf > 0
      BY <3>1, <1>3
    <3>2. CASE rf = 0
      BY <3>2, <1>3
    <3> QED BY <3>1, <3>2, <1>3
  <2> QED BY <2>2, <2>3, <2>4, <1>1, <1>2, <1>3
<1> QED BY <1>4, <1>5 DEF a, b, f, rf

-----------------------------------------------------------------------------
(* The operators of the code. *)

\* Whole seconds are no longer than the duration, and are clamped at Forever.
LEMMA WholeSecondsBound ==
  ASSUME NEW d \in Nat
  PROVE  /\ WholeSeconds(d) \in Nat
         /\ Ticks * WholeSeconds(d) <= d
         /\ \/ WholeSeconds(d) = d \div Ticks
            \/ WholeSeconds(d) = Forever /\ d \div Ticks >= Forever
<1> DEFINE n == d \div Ticks
<1>1. n \in Nat /\ Ticks * n <= d
  BY Division
<1>2. CASE n < Forever
  BY <1>1, <1>2 DEF WholeSeconds
<1>3. CASE ~(n < Forever)
  <2>1. WholeSeconds(d) = Forever
    BY <1>3 DEF WholeSeconds
  <2>2. Ticks * Forever <= Ticks * n
    <3>1. CASE Forever = n
      BY <3>1
    <3>2. CASE Forever # n
      <4>1. n \in Int /\ Forever \in Int /\ Forever < n
        BY <1>1, <1>3, <3>2
      <4> HIDE DEF n
      <4>2. Ticks * Forever + Ticks <= Ticks * n
        BY <4>1, Multiples
      <4>3. Ticks * Forever \in Int /\ Ticks * n \in Int
        BY <4>1
      <4> QED BY <4>2, <4>3
    <3> QED BY <3>1, <3>2
  <2>3. Ticks * Forever \in Int /\ Ticks * n \in Int
    BY <1>1
  <2> QED BY <1>1, <1>3, <2>1, <2>2, <2>3
<1> QED BY <1>2, <1>3

\* What is left of a lifetime is a lifetime, endless only if it was.
LEMMA DecayRange ==
  ASSUME NEW seconds \in 0 .. Forever, NEW elapsed \in Nat
  PROVE  /\ Decay(seconds, elapsed) \in 0 .. Forever
         /\ Decay(seconds, elapsed) = Forever <=> seconds = Forever
         /\ Decay(seconds, 0) = seconds
BY DEF Decay

\* What the kernel reports is a lifetime, endless only if the one given was.
LEMMA RemainingRange ==
  ASSUME NEW lifetime \in 0 .. Forever, NEW given \in Nat, NEW time \in Nat, given <= time
  PROVE  /\ Remaining(lifetime, given, time) \in 0 .. Forever
         /\ Remaining(lifetime, given, time) = Forever <=> lifetime = Forever
         /\ Remaining(lifetime, given, given) = lifetime
<1>1. time - given \in Nat /\ (time - given) \div Ticks \in Nat
  BY Division
<1>2. (given - given) \div Ticks = 0
  <2>1. given - given = 0 /\ 0 \div Ticks = 0
    OBVIOUS
  <2> QED BY <2>1
<1> QED BY <1>1, <1>2 DEF Remaining

-----------------------------------------------------------------------------
(* The invariants. *)

LEMMA InitInv == Init => Inv
<1> SUFFICES ASSUME Init PROVE Inv
  OBVIOUS
<1>1. TypeOK
  <2>1. lft \in 0 .. Forever
    BY DEF Init
  <2>2. 0 \in 0 .. 0 /\ 0 \in 0 .. Forever
    OBVIOUS
  <2> QED BY <2>1, <2>2 DEF Init, TypeOK
<1> QED BY <1>1 DEF Init, Inv

LEMMA TypeStep == TypeOK /\ [Next]_vars => TypeOK'
<1> SUFFICES ASSUME TypeOK, [Next]_vars PROVE TypeOK'
  OBVIOUS
<1> USE DEF TypeOK
<1>1. CASE Wait
  BY <1>1 DEF Wait, kernel, executor, history
<1>2. CASE \E lifetime \in Requested : Replace(lifetime)
  BY <1>2 DEF Replace, executor, history
<1>3. CASE Sample
  <2>1. Remaining(lft, since, now) \in 0 .. Forever
    BY RemainingRange
  <2> QED BY <1>3, <2>1 DEF Sample, kernel
<1>4. CASE Date
  BY <1>4 DEF Date, kernel, history
<1>5. CASE WriteElsewhere
  <2>1. now - at \in Nat
    OBVIOUS
  <2>2. WholeSeconds(now - at) \in Nat
    BY <2>1, WholeSecondsBound
  <2>3. Decay(expected, WholeSeconds(now - at)) \in 0 .. Forever
    BY <2>2, DecayRange
  <2> QED BY <1>5, <2>2, <2>3 DEF WriteElsewhere, kernel
<1>6. CASE \E lifetime \in Requested : WriteLifetime(lifetime)
  BY <1>6 DEF WriteLifetime, executor
<1>7. CASE Acknowledged
  BY <1>7 DEF Acknowledged, kernel, history
<1>8. CASE SampleAgain
  <2>1. Remaining(lft, since, now) \in 0 .. Forever
    BY RemainingRange
  <2>2. (lft = kept /\ since = keptSince) \in BOOLEAN
    OBVIOUS
  <2> QED BY <1>8, <2>1, <2>2 DEF SampleAgain, kernel
<1>9. CASE Compare
  <2>1. LifetimeMatches(expected, actual, now - at) \in BOOLEAN
    BY DEF LifetimeMatches, InRange, RanOut
  <2> QED BY <1>9, <2>1 DEF Compare, kernel, history
<1>10. CASE UNCHANGED vars
  BY <1>10 DEF vars, kernel, executor, history
<1> QED BY <1>1, <1>2, <1>3, <1>4, <1>5, <1>6, <1>7, <1>8, <1>9, <1>10 DEF Next

LEMMA InvStep == Inv /\ [Next]_vars => Inv'
<1> SUFFICES ASSUME Inv, [Next]_vars PROVE Inv'
  OBVIOUS
<1>0. TypeOK /\ TypeOK'
  BY TypeStep DEF Inv
<1>1. CASE Wait
  BY <1>0, <1>1 DEF Wait, kernel, executor, history, Inv, Undisturbed
<1>2. CASE \E lifetime \in Requested : Replace(lifetime)
  BY <1>0, <1>2 DEF Replace, executor, history, Inv, Undisturbed
<1>3. CASE Sample
  BY <1>0, <1>3 DEF Sample, kernel, Inv
<1>4. CASE Date
  <2>1. Remaining(kept, keptSince, from) \in 0 .. Forever
    <3>1. kept \in 0 .. Forever /\ keptSince \in Nat /\ from \in Nat /\ keptSince <= from
      BY <1>0 DEF TypeOK
    <3> QED BY <3>1, RemainingRange
  <2>2. Decay(Remaining(kept, keptSince, from), 0) = Remaining(kept, keptSince, from)
    BY <2>1, DecayRange
  <2>3. /\ expected' = Remaining(kept, keptSince, from)
        /\ moved' = 0 /\ at' = now /\ step' = "dated"
        /\ UNCHANGED <<kept, keptSince, from>>
    BY <1>4 DEF Date, history, Inv
  <2>4. from + Ticks * 0 <= now
    BY <1>0 DEF TypeOK
  <2> QED BY <1>0, <2>2, <2>3, <2>4 DEF Inv
<1>5. CASE WriteElsewhere
  <2> DEFINE elapsed == WholeSeconds(now - at)
  <2>1. now - at \in Nat
    BY <1>0 DEF TypeOK
  <2>2. elapsed \in Nat /\ Ticks * elapsed <= now - at
    BY <2>1, WholeSecondsBound
  <2> HIDE DEF elapsed
  <2>3. expected = Remaining(kept, keptSince, from) /\ from <= at
    <3>1. /\ moved = 0 /\ expected = Remaining(kept, keptSince, from)
          /\ from + Ticks * moved <= at
      BY <1>5 DEF WriteElsewhere, Inv
    <3> QED BY <1>0, <3>1 DEF TypeOK
  <2>4. /\ expected' = Decay(expected, elapsed) /\ moved' = elapsed
        /\ at' = now /\ step' = "rebased"
        /\ UNCHANGED <<kept, keptSince, from>>
    BY <1>5 DEF WriteElsewhere, elapsed
  <2>5. from + Ticks * elapsed <= now
    BY <1>0, <2>2, <2>3 DEF TypeOK
  <2> QED BY <1>0, <2>3, <2>4, <2>5 DEF Inv
<1>6. CASE \E lifetime \in Requested : WriteLifetime(lifetime)
  BY <1>0, <1>6 DEF WriteLifetime, executor, Inv
<1>7. CASE Acknowledged
  <2>1. /\ step = "written" /\ step' = "rebased" /\ expected' = kept /\ at' = now
        /\ UNCHANGED <<kept, keptSince, from, moved>>
    BY <1>7 DEF Acknowledged, history
  <2>2. moved = 0 /\ keptSince = from
    BY <2>1 DEF Inv
  <2>3. Remaining(kept, keptSince, from) = kept
    BY <1>0, <2>2, RemainingRange DEF TypeOK
  <2>4. Decay(kept, 0) = kept
    BY <1>0, DecayRange DEF TypeOK
  <2>5. from + Ticks * 0 <= now
    BY <1>0 DEF TypeOK
  <2> QED BY <1>0, <2>1, <2>2, <2>3, <2>4, <2>5 DEF Inv
<1>8. CASE SampleAgain
  <2>1. /\ step \in {"dated", "rebased"} /\ step' = "again"
        /\ actual' = Remaining(lft, since, now) /\ again' = now
        /\ untouched' = (lft = kept /\ since = keptSince)
        /\ UNCHANGED <<expected, at, kept, keptSince, from, moved>>
    BY <1>8 DEF SampleAgain
  <2>2. /\ expected = Decay(Remaining(kept, keptSince, from), moved)
        /\ from + Ticks * moved <= at
    BY <2>1 DEF Inv
  <2>3. untouched' => actual' = Undisturbed'
    BY <2>1 DEF Undisturbed
  <2>4. at <= now
    BY <1>0 DEF TypeOK
  <2> QED BY <1>0, <2>1, <2>2, <2>3, <2>4 DEF Inv
<1>9. CASE Compare
  <2>1. /\ step = "again" /\ step' = "compared" /\ until' = now
        /\ verdict' = LifetimeMatches(expected, actual, now - at)
        /\ UNCHANGED <<expected, at, actual, kept, keptSince, from, moved, again, untouched>>
    BY <1>9 DEF Compare, history
  <2>2. /\ expected = Decay(Remaining(kept, keptSince, from), moved)
        /\ from + Ticks * moved <= at /\ at <= again
        /\ untouched => actual = Undisturbed
    BY <2>1 DEF Inv
  <2>3. Undisturbed' = Undisturbed
    BY <2>1 DEF Undisturbed
  <2>4. again <= now
    BY <1>0 DEF TypeOK
  <2> QED BY <1>0, <2>1, <2>2, <2>3, <2>4 DEF Inv
<1>10. CASE UNCHANGED vars
  BY <1>0, <1>10 DEF vars, kernel, executor, history, Inv, Undisturbed
<1> QED BY <1>1, <1>2, <1>3, <1>4, <1>5, <1>6, <1>7, <1>8, <1>9, <1>10 DEF Next

-----------------------------------------------------------------------------
(* What the comparison shows.  x whole seconds of the lifetime had passed at
   the first dump and y at the second, m of them while writing; f and c bound
   the seconds between the dates, floor and ceil are f and c clamped. *)

Left(lifetime, gone) == IF lifetime > gone THEN lifetime - gone ELSE 0

Clamped(f, c, floor, ceil) ==
  \/ floor = f /\ ceil = c
  \/ floor = Forever /\ f >= Forever /\ ceil \in {Forever, Forever + 1}

\* A lifetime that only ran down is in the range, or has run out.
LEMMA RunsDown ==
  ASSUME NEW lifetime \in 0 .. Forever, lifetime # Forever,
         NEW x \in Nat, NEW y \in Nat, NEW m \in Nat, NEW f \in Nat, NEW c \in Nat,
         NEW floor \in Nat, NEW ceil \in Nat,
         y - x - m >= f - 1, y - x - m <= c + 1, c \in {f, f + 1},
         Clamped(f, c, floor, ceil)
  PROVE  LET was == Left(lifetime, x + m)
             is == Left(lifetime, y)
         IN  InRange(was - is, floor, ceil) \/ RanOut(was, is, ceil)
<1>1. CASE lifetime > y
  BY <1>1 DEF Left, Clamped, InRange, RanOut
<1>2. CASE ~(lifetime > y)
  BY <1>2 DEF Left, Clamped, InRange, RanOut
<1> QED BY <1>1, <1>2

\* What is accepted is at most three seconds from a lifetime that ran down.
LEMMA NearEnough ==
  ASSUME NEW lifetime \in 0 .. Forever, lifetime # Forever, NEW is \in 0 .. Forever,
         NEW x \in Nat, NEW y \in Nat, NEW m \in Nat, NEW f \in Nat, NEW c \in Nat,
         NEW floor \in Nat, NEW ceil \in Nat,
         y - x - m >= f - 1, y - x - m <= c + 1, c \in {f, f + 1},
         Clamped(f, c, floor, ceil),
         \/ InRange(Left(lifetime, x + m) - is, floor, ceil)
         \/ RanOut(Left(lifetime, x + m), is, ceil)
  PROVE  is - Left(lifetime, y) <= 3 /\ Left(lifetime, y) - is <= 3
<1>1. CASE lifetime > y
  BY <1>1 DEF Left, Clamped, InRange, RanOut
<1>2. CASE ~(lifetime > y)
  BY <1>2 DEF Left, Clamped, InRange, RanOut
<1> QED BY <1>1, <1>2

\* The seconds of a comparison that Inv describes.
LEMMA Comparison ==
  ASSUME Inv, step = "compared", Prompt, kept # Forever
  PROVE  \E x, y, m, f, c \in Nat :
           /\ y - x - m >= f - 1 /\ y - x - m <= c + 1 /\ c \in {f, f + 1}
           /\ Clamped(f, c, WholeSeconds(until - at), Ceil(until - at))
           /\ WholeSeconds(until - at) \in Nat /\ Ceil(until - at) \in Nat
           /\ expected = Left(kept, x + m)
           /\ Undisturbed = Left(kept, y)
<1> DEFINE x == (from - keptSince) \div Ticks
           y == (again - keptSince) \div Ticks
           f == (until - at) \div Ticks
           c == f + (IF (until - at) % Ticks > 0 THEN 1 ELSE 0)
<1>1. /\ TypeOK
      /\ expected = Decay(Remaining(kept, keptSince, from), moved)
      /\ from + Ticks * moved <= at /\ at <= again /\ again <= until
  BY DEF Inv
<1>2. /\ keptSince \in Nat /\ from \in Nat /\ moved \in Nat /\ at \in Nat
      /\ again \in Nat /\ until \in Nat /\ keptSince <= from /\ kept \in 0 .. Forever
  BY <1>1 DEF TypeOK
<1>3. from <= again
  <2>1. Ticks * moved >= 0 /\ Ticks * moved \in Int
    BY <1>2
  <2> QED BY <1>1, <1>2, <2>1
<1>4. x \in Nat /\ y \in Nat /\ f \in Nat /\ c \in Nat /\ c \in {f, f + 1}
  <2>1. from - keptSince \in Nat /\ again - keptSince \in Nat /\ until - at \in Nat
    BY <1>1, <1>2, <1>3
  <2>2. x \in Nat /\ y \in Nat /\ f \in Nat
    BY <2>1, Division
  <2> QED BY <2>2
<1>5. y - x - moved >= f - 1 /\ y - x - moved <= c + 1
  <2>1. /\ (at - from - Ticks * moved) - (until - again) <= Ticks
        /\ (until - again) - (at - from - Ticks * moved) <= Ticks
    BY DEF Prompt, Slack
  <2> QED BY <1>1, <1>2, <2>1, Arithmetic
<1>6. /\ Clamped(f, c, WholeSeconds(until - at), Ceil(until - at))
      /\ WholeSeconds(until - at) \in Nat /\ Ceil(until - at) \in Nat
  <2>1. until - at \in Nat
    BY <1>1, <1>2
  <2> QED BY <2>1, WholeSecondsBound, <1>4 DEF Clamped, Ceil
<1> HIDE DEF f, c
<1>7. expected = Left(kept, x + moved)
  <2>1. Remaining(kept, keptSince, from) = Left(kept, x)
    BY DEF Remaining, Left
  <2> HIDE DEF x
  <2>2. Left(kept, x) \in 0 .. Forever /\ Left(kept, x) # Forever
    BY <1>2, <1>4 DEF Left
  <2> QED BY <1>1, <1>2, <1>4, <2>1, <2>2 DEF Decay, Left
<1>8. Undisturbed = Left(kept, y)
  BY DEF Undisturbed, Remaining, Left
<1> HIDE DEF x, y
<1> QED BY <1>2, <1>4, <1>5, <1>6, <1>7, <1>8

\* Which lifetimes of a comparison are endless.
LEMMA Endless ==
  ASSUME Inv, step = "compared"
  PROVE  /\ expected \in 0 .. Forever /\ actual \in 0 .. Forever
         /\ Undisturbed \in 0 .. Forever
         /\ expected = Forever <=> kept = Forever
         /\ Undisturbed = Forever <=> kept = Forever
<1>1. /\ TypeOK
      /\ expected = Decay(Remaining(kept, keptSince, from), moved)
      /\ from + Ticks * moved <= at /\ at <= again
  BY DEF Inv
<1>2. /\ keptSince \in Nat /\ from \in Nat /\ again \in Nat /\ at \in Nat /\ moved \in Nat
      /\ keptSince <= from /\ kept \in 0 .. Forever /\ actual \in 0 .. Forever
  BY <1>1 DEF TypeOK
<1>3. keptSince <= again
  <2>1. Ticks * moved >= 0 /\ Ticks * moved \in Int
    BY <1>2
  <2> QED BY <1>1, <1>2, <2>1
<1>4. /\ Remaining(kept, keptSince, from) \in 0 .. Forever
      /\ Remaining(kept, keptSince, from) = Forever <=> kept = Forever
  BY <1>2, RemainingRange
<1>5. Undisturbed \in 0 .. Forever /\ (Undisturbed = Forever <=> kept = Forever)
  BY <1>2, <1>3, RemainingRange DEF Undisturbed
<1>6. expected \in 0 .. Forever /\ (expected = Forever <=> kept = Forever)
  BY <1>1, <1>2, <1>4, DecayRange
<1> QED BY <1>2, <1>5, <1>6

LEMMA InvMatches == Inv => TimeAloneMatches
<1> SUFFICES ASSUME Inv, step = "compared", untouched, Prompt PROVE verdict
  BY DEF TimeAloneMatches
<1>1. verdict = LifetimeMatches(expected, actual, until - at) /\ actual = Undisturbed
  BY DEF Inv
<1>2. CASE kept = Forever
  <2>1. expected = Forever /\ actual = Forever
    BY <1>1, <1>2, Endless
  <2> QED BY <1>1, <2>1 DEF LifetimeMatches
<1>3. CASE kept # Forever
  <2>1. expected # Forever /\ actual # Forever
    BY <1>1, <1>3, Endless
  <2>2. PICK x, y, m, f, c \in Nat :
           /\ y - x - m >= f - 1 /\ y - x - m <= c + 1 /\ c \in {f, f + 1}
           /\ Clamped(f, c, WholeSeconds(until - at), Ceil(until - at))
           /\ WholeSeconds(until - at) \in Nat /\ Ceil(until - at) \in Nat
           /\ expected = Left(kept, x + m)
           /\ Undisturbed = Left(kept, y)
    BY <1>3, Comparison
  <2>3. kept \in 0 .. Forever
    BY DEF Inv, TypeOK
  <2>4. \/ InRange(expected - actual, WholeSeconds(until - at), Ceil(until - at))
        \/ RanOut(expected, actual, Ceil(until - at))
    BY <1>1, <1>3, <2>2, <2>3, RunsDown
  <2> QED BY <1>1, <2>1, <2>4 DEF LifetimeMatches
<1> QED BY <1>2, <1>3

LEMMA InvSees == Inv => ChangesAreSeen
<1> SUFFICES ASSUME Inv, step = "compared", Prompt, verdict
             PROVE  /\ (actual = Forever) = (kept = Forever)
                    /\ actual - Undisturbed <= 3 /\ Undisturbed - actual <= 3
  BY DEF ChangesAreSeen
<1>1. LifetimeMatches(expected, actual, until - at)
  BY DEF Inv
<1>2. CASE kept = Forever
  <2>1. expected = Forever /\ Undisturbed = Forever
    BY <1>2, Endless
  <2>2. actual = Forever
    BY <1>1, <2>1 DEF LifetimeMatches
  <2> QED BY <1>2, <2>1, <2>2
<1>3. CASE kept # Forever
  <2>1. expected # Forever /\ actual \in 0 .. Forever
    BY <1>3, Endless
  <2>2. actual # Forever
    BY <1>1, <2>1 DEF LifetimeMatches
  <2>3. PICK x, y, m, f, c \in Nat :
           /\ y - x - m >= f - 1 /\ y - x - m <= c + 1 /\ c \in {f, f + 1}
           /\ Clamped(f, c, WholeSeconds(until - at), Ceil(until - at))
           /\ WholeSeconds(until - at) \in Nat /\ Ceil(until - at) \in Nat
           /\ expected = Left(kept, x + m)
           /\ Undisturbed = Left(kept, y)
    BY <1>3, Comparison
  <2>4. kept \in 0 .. Forever
    BY DEF Inv, TypeOK
  <2>5. \/ InRange(expected - actual, WholeSeconds(until - at), Ceil(until - at))
        \/ RanOut(expected, actual, Ceil(until - at))
    BY <1>1, <2>1, <2>2 DEF LifetimeMatches
  <2>6. actual - Left(kept, y) <= 3 /\ Left(kept, y) - actual <= 3
    BY <1>3, <2>1, <2>3, <2>4, <2>5, NearEnough
  <2> QED BY <1>3, <2>2, <2>3, <2>6
<1> QED BY <1>2, <1>3

-----------------------------------------------------------------------------
(* Theorems. *)

\* Every variable has its type: no lifetime leaves its range however it decays,
\* and no sample is from the future (executor.rs).
THEOREM TypeCorrect == Spec => []TypeOK
<1>1. Init => TypeOK
  BY InitInv DEF Inv
<1> QED BY <1>1, TypeStep, PTL DEF Spec

\* What the executor expects and finds is what the kernel had told, moved by
\* whole seconds (rebase_lifetimes).
THEOREM Consistent == Spec => []Inv
<1> QED BY InitInv, InvStep, PTL DEF Spec

\* The lifetime of an address that nobody touched is found as expected, for
\* every resolution of time and every lifetime (lifetime_matches).
THEOREM TimePasses == Spec => []TimeAloneMatches
<1> QED BY Consistent, InvMatches, PTL

\* What is accepted is within three seconds of what the lifetime had come to
\* (lifetime_matches).
THEOREM ChangesSeen == Spec => []ChangesAreSeen
<1> QED BY Consistent, InvSees, PTL
=============================================================================
