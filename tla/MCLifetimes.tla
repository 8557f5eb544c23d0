----------------------------- MODULE MCLifetimes -----------------------------
(* Values for Lifetimes. *)
EXTENDS Lifetimes
=============================================================================
