------------------------------ MODULE MCWorker ------------------------------
(***************************************************************************)
(* A small instance of Worker: a handle and its clone, a plan of two        *)
(* operations, a dry run and a query, and a channel with room for one.      *)
(***************************************************************************)
EXTENDS Worker

MCOwner == [c \in Call |-> IF c = "a" THEN "h1" ELSE "h2"]
MCKind == [c \in Call |-> CASE c = "a" -> "apply"
                            [] c = "p" -> "preview"
                            [] c = "q" -> "query"]
MCPlan == [c \in Call |-> CASE c = "a" -> <<{}, {1}>>
                            [] c = "p" -> <<{}>>
                            [] c = "q" -> <<>>]
=============================================================================
