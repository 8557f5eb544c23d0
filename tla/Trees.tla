-------------------------------- MODULE Trees --------------------------------
(***************************************************************************)
(* Recursion over trees without recursive operators, in a form that can be  *)
(* reasoned about: by functions of the nodes or of the depth of a tree.     *)
(***************************************************************************)
EXTENDS Integers, Sequences, SequencesExt, Lists

CONSTANT MaxDepth \* bound: how deep a tree is, its root being at 0

ASSUME TreesAssumption == MaxDepth \in Nat \ {0}

\* The nodes of the trees with these tops.
Reached(Below(_), tops) ==
  LET within[depth \in 0 .. MaxDepth] ==
        IF depth = 0 THEN tops
        ELSE LET nodes == within[depth - 1]
             IN  nodes \cup UNION {Below(node) : node \in nodes}
  IN  within[MaxDepth]

\* What Make makes of a tree: of its top and of what it makes of the children
\* of that, and so on.  Children tells the children of a node, a sequence.
OfTree(Make(_, _), Children(_), top) ==
  LET made[node \in Reached(LAMBDA n : ToSet(Children(n)), {top})] ==
        Make(node, Listed([i \in DOMAIN Children(node) |-> made[Children(node)[i]]]))
  IN  Make(top, Listed([i \in DOMAIN Children(top) |-> made[Children(top)[i]]]))
=============================================================================
