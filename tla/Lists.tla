-------------------------------- MODULE Lists --------------------------------
(***************************************************************************)
(* Selecting from a list by a set (Iterator::filter), in a form that can be *)
(* reasoned about: the set is data, where SelectSeq takes an operator.      *)
(***************************************************************************)
EXTENDS Integers, Sequences

\* A function of 1 .. n for some n.
IsList(s) == s \in Seq({s[i] : i \in DOMAIN s})

\* The list itself: for TLC, with its elements evaluated.
Listed(s) == s \o <<>>

\* The elements of s that are in S, in their order.
Only(s, S) ==
  LET upto[n \in 0..Len(s)] ==
        IF n = 0 THEN <<>>
        ELSE IF s[n] \in S THEN Append(upto[n - 1], s[n]) ELSE upto[n - 1]
  IN  upto[Len(s)]
=============================================================================
