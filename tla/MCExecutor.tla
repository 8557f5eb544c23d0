----------------------------- MODULE MCExecutor -----------------------------
(***************************************************************************)
(* Small instances of Executor: one Ethernet link, two addresses a1 and a2  *)
(* of one prefix group and b1 of another.                                   *)
(***************************************************************************)
EXTENDS Executor

MCAddress == {"a1", "a2", "b1"}
MCGroup == [a \in MCAddress |-> IF a = "b1" THEN "B" ELSE "A"]

On(l, kind, addr, arg, pre, deps) ==
  [target |-> [link |-> l, token |-> 1, home |-> TRUE], kind |-> kind,
   addr |-> addr, arg |-> arg, pre |-> pre, deps |-> deps]

\* Address lists: what the kernel makes of additions in some order.
At0(addr, group) ==
  [addr |-> addr, group |-> group, secondary |-> FALSE, lft |-> "forever"]
Built(entries) == FoldLeft(Insert, <<>>, entries)

On1(lists) == {[l \in Link |-> IF l = "l1" THEN s ELSE <<>>] : s \in lists}

PlainLists == On1(
  {Built(s) : s \in {<<>>,
                     <<At0("a1", "A")>>,
                     <<At0("a1", "A"), At0("a2", "A")>>,
                     <<At0("b1", "B"), At0("a2", "A"), At0("a1", "A")>>}})

Del(a, pre, deps) == On("l1", "remove", a, "forever", pre, deps)
Add(a, lft, pre, deps) == On("l1", "add", a, lft, pre, deps)
Rep(a, pre, deps) == On("l1", "replace", a, "hour", pre, deps)
Set(v, deps) == On("l1", "set", "a1", v, "none", deps)

\* The operations of a plan, without their dependencies.
Steps ==
  {Del(a, "group", {}) : a \in MCAddress}
    \cup {Add(a, "forever", p, {}) : a \in {"a1", "a2"}, p \in {"group", "none"}}
    \cup {Rep("a1", "group", {})}

Rebuilds ==
  {Del(a, "group", {}) : a \in {"a1", "a2"}}
    \cup {Add(a, "forever", "none", {}) : a \in {"a1", "a2"}}
    \cup {Rep("a1", "group", {})}

\* Every plan of two of them, and of three that rebuild group "A", each
\* operation independent or after the one before.
After(ops, dependent) ==
  [i \in DOMAIN ops |->
     IF i \in dependent THEN [ops[i] EXCEPT !.deps = {i - 1}] ELSE ops[i]]
AddressPlans ==
  {After(ops, d) : ops \in [1..2 -> Steps], d \in SUBSET {2}}
    \cup {After(ops, d) : ops \in [1..3 -> Rebuilds], d \in SUBSET {2, 3}}

\* Plans with scalar, read-only and unsupported operations, and with targets
\* of another namespace, incarnation or type.
OtherPlans == {
  <<On("l1", "readonly", "a1", "low", "none", {}),
    On("l1", "invalid", "a1", "low", "none", {1}), Set("high", {4}), Set("low", {1})>>,
  <<Set("high", {}), Set("low", {1}), Del("a1", "other", {})>>,
  <<[Set("high", {}) EXCEPT !.target.home = FALSE],
    [Set("high", {}) EXCEPT !.target.token = 7],
    On("w1", "set", "a1", "high", "none", {})>> }

QuietPlans == AddressPlans \cup OtherPlans

\* With peers: a1 and b1 have a peer in group "C", or a2 has one in "B", or
\* a1 is there with two peers.
PeerLists == On1(
  {Built(s) : s \in {<<At0("a1", "A"), At0("a2", "A")>>,
                     <<At0("a1", "C"), At0("b1", "C")>>,
                     <<At0("a1", "A"), At0("a2", "B"), At0("b1", "B")>>,
                     <<At0("a1", "A"), At0("a1", "C")>>}})

\* Plans as a planner makes them, and plans it should not have made.
HostilePlans == {
  <<Del("a1", "group", {}), Del("a2", "group", {1}), Add("a1", "forever", "none", {2})>>,
  <<Del("a2", "group", {}), Del("a1", "group", {})>>,
  <<Del("a1", "group", {}), Set("high", {}), Del("a2", "none", {2})>>,
  <<Del("a1", "group", {}), Del("b1", "group", {})>>,
  <<Set("high", {}), Rep("a1", "group", {1}), Del("b1", "none", {})>>,
  <<Add("b1", "hour", "none", {}), Add("b1", "hour", "group", {})>> }

\* A third address of the group, promoted while a peer address comes first.
ThreeAddresses == {"a1", "a2", "a3"}
ThreeGroup == [a \in ThreeAddresses |-> "A"]
MixedLists == On1({Built(<<At0("a1", "A"), At0("a2", "C"), At0("a3", "A")>>)})
MixedPlans == {<<Del("a1", "group", {}), Del("a3", "group", {1})>>}
=============================================================================
