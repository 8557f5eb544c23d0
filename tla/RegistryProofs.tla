---------------------------- MODULE RegistryProofs ----------------------------
(***************************************************************************)
(* Proofs about Registry: whatever backends are registered and however the  *)
(* links change during a call, devices have one owner, what a query returns *)
(* of links that stay is their owners' view, and plans go to the backend    *)
(* that owns all of their targets.                                          *)
(***************************************************************************)
EXTENDS Registry, WellFoundedInduction, TLAPS

-----------------------------------------------------------------------------
(* The inductive invariant. *)

Bare(d) == [d EXCEPT !.by = None]
Key(d) == <<d.ns, d.index>>
Busy == pc # "idle"

Shape ==
  /\ backends \in Seq(Backend)
  /\ pc \in {"idle", "query", "plan"}
  /\ plan \in Seq(issued) /\ taken \in Nat
  /\ DOMAIN link = Link /\ DOMAIN views = Backend
  /\ \A b \in Backend : views[b] = Pending \/ views[b].state \in {"seen", "NotFound"}
  /\ pc = "query" => scope = Namespace

\* Links that live during a call are remembered.
Remembered ==
  Busy => \A k \in Link : link[k] # Absent => Device(k, None) \in present

\* What a backend observed was there at some moment of the call, in its namespace.
ViewsAreTrue ==
  Busy =>
    \A b \in Backend : views[b].state = "seen" =>
      \A d \in views[b].devices :
        Bare(d) \in present /\ d.by = b /\ Key(d) \in Link /\ d.ns = NamespaceOf[b]

\* Of a link that stayed as it is, a backend that was asked for all saw just that.
QuietLinksAreSeen ==
  pc = "query" /\ selector = AnyName =>
    \A b \in Backend :
      /\ views[b].state # "NotFound"
      /\ views[b].state = "seen" =>
           \A k \in unchanged :
             k[1] = NamespaceOf[b] =>
               /\ \A d \in views[b].devices : Key(d) = k => d = Device(k, b) /\ link[k] # Absent
               /\ link[k] # Absent => Device(k, b) \in views[b].devices

\* So was what is kept for the plan, and what is taken is owned by one backend.
PlanIsTrue ==
  pc = "plan" =>
    /\ \A n \in DOMAIN observations : \A d \in observations[n] : Bare(d) \in present
    /\ taken <= Len(plan)
    /\ taken = 0 <=> resolved = None
    /\ \A k \in 1 .. taken : Owner(plan[k]) = {resolved} /\ Bare(plan[k]) \in present

Inv ==
  /\ Shape /\ OwnersAreUnique /\ Remembered /\ ViewsAreTrue /\ QuietLinksAreSeen
  /\ PlanIsTrue /\ unchanged \subseteq Link

-----------------------------------------------------------------------------
(* The first of some indices. *)

LEMMA FirstExists ==
  ASSUME NEW S, S \subseteq Nat, S # {}
  PROVE  Min(S) \in S
<1> DEFINE R == {p \in Nat \X Nat : p[1] < p[2]}
<1>1. IsWellFoundedOn(R, Nat)
  BY NatLessThanWellFounded, Zenon DEF OpToRel
<1>2. PICK x \in S : \A y \in S : <<y, x>> \notin R
  <2> HIDE DEF R
  <2> QED BY <1>1, WFMin
<1>3. ASSUME NEW y \in S
      PROVE  x <= y
  <2>1. <<y, x>> \in Nat \X Nat /\ <<y, x>>[1] = y /\ <<y, x>>[2] = x
    OBVIOUS
  <2>2. ~(y < x)
    BY <1>2, <2>1
  <2> QED BY <2>2
<1> QED BY <1>3 DEF Min

-----------------------------------------------------------------------------
(* Merging views. *)

\* A view is of the link it is taken for.
LEMMA ViewIs ==
  ASSUME NEW k, NEW i \in Seers(k)
  PROVE  View(k, i) \in views[backends[i]].devices /\ Key(View(k, i)) = k
BY DEF Seers, View, Key

\* The view that is kept is one of those there are.
LEMMA PreferredIs ==
  ASSUME Shape, NEW k, Seers(k) # {}
  PROVE  \E i \in Seers(k) : Preferred(k) = View(k, i)
<1> DEFINE owners == {i \in Seers(k) : Owned(View(k, i))}
           candidates == IF owners # {} THEN owners ELSE Seers(k)
<1>1. candidates \subseteq Seers(k) /\ candidates # {}
  OBVIOUS
<1>2. Seers(k) \subseteq Nat
  <2>1. DOMAIN backends = 1 .. Len(backends) /\ Len(backends) \in Nat
    BY DEF Shape
  <2> QED BY <2>1 DEF Seers
<1>3. Preferred(k) = View(k, Min(candidates))
  BY DEF Preferred
<1> HIDE DEF candidates
<1>4. Min(candidates) \in candidates
  BY <1>1, <1>2, FirstExists
<1> QED BY <1>1, <1>3, <1>4

\* So everything merged was seen.
LEMMA MergedWasSeen ==
  ASSUME Shape, NEW d \in Merged
  PROVE  \E b \in Backend : views[b].state = "seen" /\ d \in views[b].devices
<1>1. PICK k \in Link : Seers(k) # {} /\ d = Preferred(k)
  BY DEF Merged
<1>2. PICK i \in Seers(k) : d = View(k, i)
  BY <1>1, PreferredIs
<1>3. d \in views[backends[i]].devices /\ views[backends[i]].state = "seen"
  BY <1>2, ViewIs DEF Seers
<1>4. backends[i] \in Backend
  <2>1. i \in DOMAIN backends
    BY DEF Seers
  <2> QED BY <2>1 DEF Shape
<1> QED BY <1>3, <1>4

-----------------------------------------------------------------------------
(* The steps. *)

LEMMA InitInv == Init => Inv
<1> SUFFICES ASSUME Init
             PROVE  Inv
  OBVIOUS
<1>1. Shape
  <2>1. <<>> \in Seq(Backend) /\ <<>> \in Seq(issued) /\ 0 \in Nat
    OBVIOUS
  <2> QED BY <2>1 DEF Init, Shape
<1>2. OwnersAreUnique
  BY DEF Init, OwnersAreUnique
<1> QED BY <1>1, <1>2 DEF Init, Inv, Remembered, ViewsAreTrue, QuietLinksAreSeen, PlanIsTrue, Busy

\* A backend joins: it shares no type with another of its namespace.
LEMMA RegisterStep ==
  ASSUME Inv, NEW b \in Backend, Register(b)
  PROVE  Inv'
<1>1. /\ pc = "idle"
      /\ UNCHANGED <<link, pc, plan, taken, scope, views, issued, unchanged>>
      /\ \/ UNCHANGED backends
         \/ backends' = Append(backends, b) /\ ~Conflicts(b)
  BY DEF Register, world, call
<1>2. backends' \in Seq(Backend) /\ OwnersAreUnique'
  <2>1. CASE UNCHANGED backends
    BY <2>1 DEF Inv, Shape, OwnersAreUnique
  <2>2. CASE backends' = Append(backends, b) /\ ~Conflicts(b)
    <3>1. /\ backends \in Seq(Backend) /\ Len(backends) \in Nat
          /\ DOMAIN backends = 1 .. Len(backends)
      BY DEF Inv, Shape
    <3>2. /\ backends' \in Seq(Backend) /\ DOMAIN backends' = 1 .. Len(backends) + 1
          /\ backends'[Len(backends) + 1] = b
          /\ \A i \in 1 .. Len(backends) : backends'[i] = backends[i]
      BY <2>2, <3>1
    <3>3. \A i \in 1 .. Len(backends) :
            NamespaceOf[backends[i]] = NamespaceOf[b] => Entities[backends[i]] \cap Entities[b] = {}
      BY <2>2, <3>1 DEF Conflicts, Registered, ToSet
    <3>4. \A i \in 1 .. Len(backends) + 1 : i \in 1 .. Len(backends) \/ i = Len(backends) + 1
      BY <3>1
    <3> QED BY <3>1, <3>2, <3>3, <3>4 DEF Inv, OwnersAreUnique
  <2> QED BY <1>1, <2>1, <2>2
<1>3. Shape'
  BY <1>1, <1>2 DEF Inv, Shape
<1>4. Remembered' /\ ViewsAreTrue' /\ QuietLinksAreSeen' /\ PlanIsTrue' /\ unchanged' \subseteq Link
  BY <1>1 DEF Inv, Remembered, ViewsAreTrue, QuietLinksAreSeen, PlanIsTrue, Busy
<1> QED BY <1>2, <1>3, <1>4 DEF Inv

\* The links that there are, during a call and at its beginning.
LEMMA DeviceKept ==
  ASSUME UNCHANGED link
  PROVE  \A k, b : Device(k, b)' = Device(k, b)
BY DEF Device

LEMMA OwnersKept ==
  ASSUME UNCHANGED backends
  PROVE  /\ OwnersAreUnique' <=> OwnersAreUnique
         /\ \A d : Owner(d)' = Owner(d)
BY DEF OwnersAreUnique, Owner, Registered

\* A call that returns leaves nothing behind.
LEMMA ReturnStep ==
  ASSUME Inv, NEW r, Returns(r), UNCHANGED <<world, backends>>
  PROVE  Inv'
<1>1. /\ pc' = "idle" /\ plan' = <<>> /\ taken' = 0 /\ unchanged' = Link
      /\ views' = [b \in Backend |-> Pending]
      /\ UNCHANGED <<link, backends>>
  BY DEF Returns, Ask, world
<1>2. Shape'
  <2>1. <<>> \in Seq(issued') /\ 0 \in Nat
    OBVIOUS
  <2> QED BY <1>1, <2>1 DEF Inv, Shape
<1>3. OwnersAreUnique'
  BY <1>1, OwnersKept DEF Inv
<1> QED BY <1>1, <1>2, <1>3
        DEF Inv, Remembered, ViewsAreTrue, QuietLinksAreSeen, PlanIsTrue, Busy

\* A call begins: the links that there are are remembered, and nothing is seen.
LEMMA BeginStep ==
  ASSUME Inv, NEW kind \in {"query", "plan"}, Begins(kind),
         UNCHANGED <<world, backends, issued>>,
         NEW namespaces, NEW name, Ask(namespaces, name),
         kind = "query" => namespaces = Namespace /\ UNCHANGED <<plan, taken>>,
         kind = "plan" => /\ plan' \in Seq(issued) /\ taken' = 0 /\ resolved' = None
                          /\ observations' = [n \in {} |-> {}]
  PROVE  Inv'
<1>1. /\ pc' = kind /\ unchanged' = Link
      /\ present' = {Device(k, None) : k \in {l \in Link : link[l] # Absent}}
      /\ views' = [b \in Backend |-> Pending] /\ scope' = namespaces
      /\ UNCHANGED <<link, backends, issued>>
  BY DEF Begins, Ask, world
<1>2. Shape'
  <2>1. plan' \in Seq(issued) /\ taken' \in Nat
    BY DEF Inv, Shape
  <2> QED BY <1>1, <2>1 DEF Inv, Shape
<1>3. OwnersAreUnique'
  BY <1>1, OwnersKept DEF Inv
<1>4. Remembered'
  BY <1>1, DeviceKept DEF Remembered
<1>5. ViewsAreTrue' /\ QuietLinksAreSeen'
  BY <1>1 DEF ViewsAreTrue, QuietLinksAreSeen, Pending
<1>6. PlanIsTrue'
  <2> SUFFICES ASSUME kind = "plan"
               PROVE  PlanIsTrue'
    BY <1>1 DEF PlanIsTrue
  <2>1. DOMAIN observations' = {} /\ taken' = 0 /\ resolved' = None /\ 0 <= Len(plan')
    <3>1. plan' \in Seq(issued)
      OBVIOUS
    <3>2. Len(plan') \in Nat
      BY <3>1
    <3> QED BY <3>2
  <2> QED BY <2>1 DEF PlanIsTrue
<1> QED BY <1>1, <1>2, <1>3, <1>4, <1>5, <1>6 DEF Inv

\* A backend observes: what it sees is there, and all of it if it is asked for all.
LEMMA ObserveStep ==
  ASSUME Inv, NEW b \in Backend, Observe(b)
  PROVE  Inv'
<1> DEFINE matching == {k \in Link : /\ k[1] = NamespaceOf[b] /\ link[k] # Absent
                                     /\ selector \in {AnyName, link[k].name}}
<1>1. /\ Busy
      /\ UNCHANGED <<link, backends, pc, plan, taken, scope, selector, observations, resolved,
                     issued, present, unchanged>>
      /\ views' = [views EXCEPT ![b] =
                     IF selector # AnyName /\ matching = {}
                     THEN [state |-> "NotFound"]
                     ELSE [state |-> "seen", devices |-> {Device(k, b) : k \in matching}]]
  BY DEF Observe, Busy, world
<1>2. \A k \in matching :
        LET d == Device(k, b)
        IN  Bare(d) = Device(k, None) /\ d.by = b /\ Key(d) = k /\ d.ns = NamespaceOf[b]
  BY RegistryAssumption DEF Device, Bare, Key
<1>3. /\ DOMAIN views' = Backend
      /\ \A c \in Backend : c # b => views'[c] = views[c]
      /\ \/ /\ selector # AnyName
            /\ views'[b] = [state |-> "NotFound"]
         \/ views'[b] = [state |-> "seen", devices |-> {Device(k, b) : k \in matching}]
  BY <1>1 DEF Inv, Shape
<1> HIDE DEF matching
<1>4. /\ views'[b].state \in {"seen", "NotFound"}
      /\ views'[b].state = "NotFound" => selector # AnyName
      /\ views'[b].state = "seen" => views'[b].devices = {Device(k, b) : k \in matching}
  BY <1>3
<1>5. Shape'
  BY <1>1, <1>3, <1>4 DEF Inv, Shape
<1>6. OwnersAreUnique' /\ \A d : Owner(d)' = Owner(d)
  BY <1>1, OwnersKept DEF Inv
<1>7. Remembered'
  BY <1>1, DeviceKept DEF Inv, Remembered, Busy
<1>8. ViewsAreTrue'
  <2> SUFFICES ASSUME NEW c \in Backend, views'[c].state = "seen", NEW d \in views'[c].devices
               PROVE  Bare(d) \in present /\ d.by = c /\ Key(d) \in Link /\ d.ns = NamespaceOf[c]
    BY <1>1 DEF ViewsAreTrue, Bare, Key
  <2>1. CASE c = b
    <3>1. PICK k \in matching : d = Device(k, b)
      BY <1>4, <2>1
    <3>2. k \in Link /\ Device(k, None) \in present
      BY <1>1 DEF matching, Inv, Remembered
    <3> QED BY <1>2, <2>1, <3>1, <3>2
  <2>2. CASE c # b
    BY <1>1, <1>3, <2>2 DEF Inv, ViewsAreTrue
  <2> QED BY <2>1, <2>2
<1>9. QuietLinksAreSeen'
  <2> SUFFICES ASSUME selector = AnyName, pc = "query", NEW c \in Backend
               PROVE  /\ views'[c].state # "NotFound"
                      /\ views'[c].state = "seen" =>
                           \A k \in unchanged :
                             k[1] = NamespaceOf[c] =>
                               /\ \A d \in views'[c].devices :
                                    Key(d) = k => d = Device(k, c) /\ link[k] # Absent
                               /\ link[k] # Absent => Device(k, c) \in views'[c].devices
    BY <1>1, DeviceKept DEF QuietLinksAreSeen, Key
  <2>1. CASE c = b
    <3>1. ASSUME NEW k \in unchanged, k[1] = NamespaceOf[b], views'[b].state = "seen"
          PROVE  /\ \A d \in views'[b].devices :
                      Key(d) = k => d = Device(k, b) /\ link[k] # Absent
                 /\ link[k] # Absent => Device(k, b) \in views'[b].devices
      <4>1. \A l \in matching : link[l] # Absent
        BY DEF matching
      <4>2. link[k] # Absent => k \in matching
        BY <3>1 DEF matching, Inv
      <4> QED BY <1>2, <1>4, <3>1, <4>1, <4>2
    <3> QED BY <1>4, <2>1, <3>1
  <2>2. CASE c # b
    BY <1>3, <2>2 DEF Inv, QuietLinksAreSeen
  <2> QED BY <2>1, <2>2
<1>10. PlanIsTrue'
  BY <1>1, <1>6 DEF Inv, PlanIsTrue
<1> QED BY <1>1, <1>5, <1>6, <1>7, <1>8, <1>9, <1>10 DEF Inv

\* A step of a plan's resolution that only asks, keeps or takes.
LEMMA PlanStep ==
  ASSUME Inv, pc = "plan",
         UNCHANGED <<world, backends, pc, plan, result, present, unchanged, issued>>,
         UNCHANGED views \/ views' = [b \in Backend |-> Pending],
         taken' \in Nat, PlanIsTrue'
  PROVE  Inv'
<1>1. UNCHANGED <<link, backends, pc, plan, present, unchanged, issued>>
  BY DEF world
<1>2. Shape'
  BY <1>1 DEF Inv, Shape
<1>3. OwnersAreUnique'
  BY <1>1, OwnersKept DEF Inv
<1>4. Remembered'
  BY <1>1, DeviceKept DEF Inv, Remembered, Busy
<1>5. ViewsAreTrue'
  <2>1. CASE UNCHANGED views
    BY <1>1, <2>1 DEF Inv, ViewsAreTrue, Busy, Bare, Key
  <2>2. CASE views' = [b \in Backend |-> Pending]
    BY <2>2 DEF ViewsAreTrue, Pending
  <2> QED BY <2>1, <2>2
<1>6. QuietLinksAreSeen'
  BY <1>1 DEF QuietLinksAreSeen
<1> QED BY <1>1, <1>2, <1>3, <1>4, <1>5, <1>6 DEF Inv

LEMMA KeepStep ==
  ASSUME Inv, Keep
  PROVE  Inv'
<1>1. CASE Returns(Error("NotFound"))
  BY <1>1, ReturnStep DEF Keep
<1>2. CASE /\ observations' = [n \in DOMAIN observations \cup scope |->
                                 IF n \in scope THEN Merged ELSE observations[n]]
           /\ Ask({}, AnyName)
           /\ UNCHANGED <<pc, plan, taken, resolved, result, present, unchanged>>
  <2>1. /\ pc = "plan" /\ UNCHANGED <<world, backends, issued>>
        /\ views' = [b \in Backend |-> Pending]
    BY <1>2 DEF Keep, Ask
  <2>2. \A d \in Merged : Bare(d) \in present
    BY <2>1, MergedWasSeen DEF Inv, ViewsAreTrue, Busy
  <2>3. \A d : Owner(d)' = Owner(d)
    BY <2>1, OwnersKept
  <2>4. \A n \in DOMAIN observations' : \A d \in observations'[n] : Bare(d) \in present
    BY <1>2, <2>1, <2>2 DEF Inv, PlanIsTrue
  <2>5. PlanIsTrue'
    BY <1>2, <2>1, <2>3, <2>4 DEF Inv, PlanIsTrue, Bare
  <2>6. taken' \in Nat
    BY <1>2 DEF Inv, Shape
  <2> QED BY <1>2, <2>1, <2>5, <2>6, PlanStep
<1> QED BY <1>1, <1>2 DEF Keep

\* The operation in turn: its target's only owner takes it.
LEMMA TakeOperationStep ==
  ASSUME Inv, TakeOperation
  PROVE  Inv'
<1>1. pc = "plan" /\ taken < Len(plan) /\ UNCHANGED <<world, backends, calls, issued>>
  BY DEF TakeOperation
<1>2. \A d : Owner(d)' = Owner(d)
  BY <1>1, OwnersKept
<1>3. taken \in Nat /\ Len(plan) \in Nat
  <2>1. plan \in Seq(issued) /\ taken \in Nat
    BY DEF Inv, Shape
  <2> QED BY <2>1
<1>4. CASE \E r : Returns(r)
  BY <1>1, <1>4, ReturnStep
<1>5. CASE /\ Ask({Target.ns}, AnyName)
           /\ UNCHANGED <<pc, plan, taken, observations, resolved, result, present, unchanged>>
  <2>1. views' = [b \in Backend |-> Pending]
    BY <1>5 DEF Ask
  <2>2. PlanIsTrue'
    BY <1>2, <1>5 DEF Inv, PlanIsTrue, Bare
  <2> QED BY <1>1, <1>3, <1>5, <2>1, <2>2, PlanStep
<1>6. CASE \E d \in observations[Target.ns], supported \in BOOLEAN :
             LET chosen == Select(d, supported)
             IN  /\ Target.ns \in DOMAIN observations
                 /\ ~IsError(chosen) /\ resolved \in {None, chosen.backend}
                 /\ resolved' = chosen.backend /\ taken' = taken + 1
                 /\ UNCHANGED <<pc, plan, scope, selector, views, observations, result, present,
                                unchanged>>
  <2>1. PICK d \in observations[Target.ns], supported \in BOOLEAN :
          /\ Target.ns \in DOMAIN observations
          /\ ~IsError(Select(d, supported)) /\ resolved \in {None, Select(d, supported).backend}
          /\ resolved' = Select(d, supported).backend /\ taken' = taken + 1
          /\ UNCHANGED <<pc, plan, scope, selector, views, observations, result, present,
                         unchanged>>
    BY <1>6
  <2> DEFINE owners == {i \in DOMAIN backends : /\ NamespaceOf[backends[i]] = d.ns
                                                /\ d.link.type \in Entities[backends[i]]}
  <2>2. /\ owners # {} /\ d = Target
        /\ resolved' = backends[Min(owners)]
    <3>1. \A kind : IsError(Error(kind))
      BY DEF IsError, Error
    <3>2. \A b : [backend |-> b].backend = b
      OBVIOUS
    <3> QED BY <2>1, <3>1, <3>2 DEF Select, IsTarget
  <2>3. owners \subseteq Nat
    <3>1. DOMAIN backends = 1 .. Len(backends) /\ Len(backends) \in Nat
      BY DEF Inv, Shape
    <3> QED BY <3>1
  <2> HIDE DEF owners
  <2>4. Min(owners) \in owners
    BY <2>2, <2>3, FirstExists
  <2>5. PICK j \in DOMAIN backends :
          resolved' = backends[j] /\ NamespaceOf[backends[j]] = d.ns
          /\ d.link.type \in Entities[backends[j]]
    BY <2>2, <2>4 DEF owners
  <2>6. Owner(d) = {resolved'}
    <3>1. resolved' \in Owner(d)
      BY <2>5 DEF Owner, Registered, ToSet
    <3>2. ASSUME NEW b \in Owner(d)
          PROVE  b = resolved'
      <4>1. PICK i \in DOMAIN backends : b = backends[i]
        BY DEF Owner, Registered, ToSet
      <4>2. NamespaceOf[backends[i]] = d.ns /\ d.link.type \in Entities[backends[i]]
        BY <4>1 DEF Owner
      <4> QED BY <2>5, <4>1, <4>2 DEF Inv, OwnersAreUnique
    <3> QED BY <3>1, <3>2
  <2>7. resolved' # None
    <3>1. backends[j] \in Backend
      BY DEF Inv, Shape
    <3> QED BY <2>5, <3>1, RegistryAssumption DEF None
  <2>8. taken = 0 \/ resolved = resolved'
    BY <1>1, <2>1 DEF Inv, PlanIsTrue
  <2>9. \A k \in 1 .. taken + 1 : Owner(plan[k]) = {resolved'} /\ Bare(plan[k]) \in present
    <3>1. \A k \in 1 .. taken : Owner(plan[k]) = {resolved'} /\ Bare(plan[k]) \in present
      <4>1. CASE taken = 0
        <5>1. 1 .. taken = {}
          BY <4>1
        <5> QED BY <5>1, Zenon
      <4>2. CASE resolved = resolved'
        BY <1>1, <4>2 DEF Inv, PlanIsTrue
      <4> QED BY <2>8, <4>1, <4>2
    <3>2. Bare(d) \in present
      BY <1>1, <2>1 DEF Inv, PlanIsTrue
    <3>3. \A k \in 1 .. taken + 1 : k \in 1 .. taken \/ k = taken + 1
      BY <1>3
    <3> QED BY <2>2, <2>6, <3>1, <3>2, <3>3 DEF Target
  <2>10. PlanIsTrue'
    <3>1. taken' <= Len(plan') /\ taken' # 0
      BY <1>1, <1>3, <2>1
    <3> QED BY <1>1, <1>2, <2>1, <2>7, <2>9, <3>1 DEF Inv, PlanIsTrue, Bare
  <2>11. taken' \in Nat
    BY <1>3, <2>1
  <2> QED BY <1>1, <2>1, <2>10, <2>11, PlanStep
<1> QED BY <1>4, <1>5, <1>6 DEF TakeOperation

\* A link changes: what was seen of it does not count as quiet any more.
LEMMA ChangeStep ==
  ASSUME Inv, NEW k \in Link, NEW l, Change(k, l)
  PROVE  Inv'
<1>1. /\ UNCHANGED <<backends, pc, plan, taken, scope, selector, views, observations, resolved,
                     issued>>
      /\ link' = [link EXCEPT ![k] = l]
      /\ unchanged' = IF pc = "idle" THEN Link ELSE unchanged \ {k}
      /\ Busy /\ l # Absent =>
           present' = present \cup {[ns |-> k[1], index |-> k[2], link |-> l, by |-> None]}
      /\ present \subseteq present'
  BY DEF Change, Busy, call
<1>2. DOMAIN link' = Link /\ \A m \in Link : link'[m] = IF m = k THEN l ELSE link[m]
  BY <1>1 DEF Inv, Shape
<1>3. Shape'
  BY <1>1, <1>2 DEF Inv, Shape
<1>4. OwnersAreUnique' /\ \A d : Owner(d)' = Owner(d)
  BY <1>1, OwnersKept DEF Inv
<1>5. Remembered'
  <2> SUFFICES ASSUME Busy, NEW m \in Link, link'[m] # Absent
               PROVE  Device(m, None)' \in present'
    BY <1>1 DEF Remembered, Busy, Absent
  <2>1. CASE m = k
    BY <1>1, <1>2, <2>1 DEF Device, None
  <2>2. CASE m # k
    BY <1>1, <1>2, <2>2 DEF Inv, Remembered, Device
  <2> QED BY <2>1, <2>2
<1>6. ViewsAreTrue'
  BY <1>1 DEF Inv, ViewsAreTrue, Busy, Bare, Key
<1>7. QuietLinksAreSeen'
  <2> SUFFICES ASSUME pc = "query", selector = AnyName
               PROVE  QuietLinksAreSeen'
    BY <1>1 DEF QuietLinksAreSeen
  <2>1. unchanged' = unchanged \ {k} /\ unchanged \subseteq Link
    BY <1>1 DEF Inv
  <2>2. \A m \in unchanged' : link'[m] = link[m] /\ \A b : Device(m, b)' = Device(m, b)
    BY <1>2, <2>1 DEF Device
  <2> QED BY <1>1, <2>1, <2>2 DEF Inv, QuietLinksAreSeen, Key
<1>8. PlanIsTrue'
  BY <1>1, <1>4 DEF Inv, PlanIsTrue, Bare
<1>9. unchanged' \subseteq Link
  BY <1>1 DEF Inv
<1> QED BY <1>3, <1>4, <1>5, <1>6, <1>7, <1>8, <1>9 DEF Inv

LEMMA InvStep ==
  ASSUME Inv, [Next]_vars
  PROVE  Inv'
<1>1. CASE \E b \in Backend : Register(b) \/ Observe(b)
  BY <1>1, RegisterStep, ObserveStep
<1>2. CASE \E n \in Name \cup {AnyName} : Query(n)
  <2>1. PICK n : Query(n)
    BY <1>2
  <2>2. /\ Begins("query") /\ Ask(Namespace, n)
        /\ UNCHANGED <<world, backends, issued, plan, taken>>
    BY <2>1 DEF Query
  <2> QED BY <2>2, BeginStep
<1>3. CASE \E n \in 0..2 : \E p \in [1..n -> issued] : ResolvePlan(p)
  <2>1. PICK n \in 0..2 : \E p \in [1..n -> issued] : ResolvePlan(p)
    BY <1>3
  <2>2. PICK p \in [1..n -> issued] : ResolvePlan(p)
    BY <2>1
  <2>3. p \in Seq(issued)
    OBVIOUS
  <2>4. PICK namespaces, name : Ask(namespaces, name)
    BY <2>2 DEF ResolvePlan
  <2>5. /\ Begins("plan") /\ plan' = p /\ taken' = 0 /\ resolved' = None
        /\ observations' = [m \in {} |-> {}]
        /\ UNCHANGED <<world, backends, issued>>
    BY <2>2 DEF ResolvePlan
  <2> QED BY <2>3, <2>4, <2>5, BeginStep
<1>4. CASE QueryReturns \/ DiscoveryFails \/ PlanReturns
  <2>1. /\ \E r : Returns(r)
        /\ UNCHANGED <<world, backends>>
    BY <1>4 DEF QueryReturns, DiscoveryFails, PlanReturns
  <2> QED BY <2>1, ReturnStep
<1>5. CASE Keep \/ TakeOperation
  BY <1>5, KeepStep, TakeOperationStep
<1>6. CASE \E k \in Link :
             \/ \E n \in Name, t \in Type : CreateLink(k, n, t)
             \/ \E n \in Name : RenameLink(k, n)
             \/ DeleteLink(k)
  <2>1. PICK k \in Link : \E l : Change(k, l)
    BY <1>6 DEF CreateLink, RenameLink, DeleteLink
  <2> QED BY <2>1, ChangeStep
<1>7. CASE UNCHANGED vars
  <2>1. UNCHANGED <<link, backends, pc, plan, taken, scope, selector, views, observations,
                    resolved, issued, present, unchanged>>
    BY <1>7 DEF vars, world, call
  <2>2. Shape'
    BY <2>1 DEF Inv, Shape
  <2>3. OwnersAreUnique' /\ \A d : Owner(d)' = Owner(d)
    BY <2>1, OwnersKept DEF Inv
  <2>4. Remembered' /\ ViewsAreTrue' /\ QuietLinksAreSeen'
    BY <2>1, DeviceKept DEF Inv, Remembered, ViewsAreTrue, QuietLinksAreSeen, Busy, Bare, Key
  <2>5. PlanIsTrue' /\ unchanged' \subseteq Link
    BY <2>1, <2>3 DEF Inv, PlanIsTrue, Bare
  <2> QED BY <2>2, <2>3, <2>4, <2>5 DEF Inv
<1> QED BY <1>1, <1>2, <1>3, <1>4, <1>5, <1>6, <1>7 DEF Next

-----------------------------------------------------------------------------
(* The theorems. *)

\* What the registry knows during a call stays true while links change.
THEOREM InvariantHolds == Spec => []Inv
<1>1. Init => Inv
  BY InitInv
<1>2. Inv /\ [Next]_vars => Inv'
  BY InvStep
<1> QED BY <1>1, <1>2, PTL DEF Spec

\* Registering in any order leaves every type of a namespace with one owner
\* (BackendRegistry::register compares with all backends).
THEOREM OwnersUnique == Spec => []OwnersAreUnique
<1>1. Inv => OwnersAreUnique
  BY DEF Inv
<1> QED BY <1>1, InvariantHolds, PTL

\* A plan goes to a backend only if it owns all targets, and each of them was there
\* while the call was in progress (BackendRegistry::select compares identities).
THEOREM PlansFit == Spec => RoutedPlansFit
<1>1. Inv /\ [Next]_vars =>
        [ PlanReturns /\ ~IsError(result') =>
            \A k \in DOMAIN plan :
              /\ Owner(plan[k]) = {resolved}
              /\ [plan[k] EXCEPT !.by = None] \in present ]_vars
  <2> SUFFICES ASSUME Inv, PlanReturns, NEW k \in DOMAIN plan
               PROVE  Owner(plan[k]) = {resolved} /\ Bare(plan[k]) \in present
    BY DEF Bare
  <2>1. k \in 1 .. taken
    <3>1. DOMAIN plan = 1 .. Len(plan)
      BY DEF Inv, Shape
    <3> QED BY <3>1 DEF PlanReturns
  <2> QED BY <2>1 DEF PlanReturns, Inv, PlanIsTrue
<1> QED BY <1>1, InvariantHolds, PTL DEF Spec, RoutedPlansFit

\* What a query returns of a link that stayed as it is, is its owner's view.
LEMMA OwnersViewIsPreferred ==
  ASSUME Inv, pc = "query", Discovered, selector = AnyName,
         NEW k \in unchanged, link[k] # Absent,
         NEW b \in Owner(Device(k, None))
  PROVE  Seers(k) # {} /\ Preferred(k) = Device(k, b) /\ Owner(Device(k, None)) = {b}
<1>1. /\ Shape /\ k \in Link /\ k[1] \in Namespace /\ k = <<k[1], k[2]>>
  BY RegistryAssumption DEF Inv
<1>2. PICK i \in DOMAIN backends : b = backends[i]
  BY DEF Owner, Registered, ToSet
<1>3. b \in Backend /\ NamespaceOf[b] = k[1] /\ link[k].type \in Entities[b]
  BY <1>1, <1>2 DEF Owner, Device, Shape
<1>4. \A c : Key(Device(k, c)) = k /\ Device(k, c).by = c /\ Device(k, c).ns = k[1]
             /\ Device(k, c).link = link[k]
  BY <1>1 DEF Device, Key
<1>5. b \in Asked
  BY <1>1, <1>2, <1>3 DEF Asked, Registered, ToSet, Shape
<1>6. views[b].state = "seen" /\ Device(k, b) \in views[b].devices
  <2>1. views[b].state = "seen"
    BY <1>1, <1>3, <1>5 DEF Discovered, Shape, Inv, QuietLinksAreSeen
  <2> QED BY <1>3, <2>1 DEF Inv, QuietLinksAreSeen
<1>7. i \in Seers(k)
  BY <1>2, <1>4, <1>5, <1>6 DEF Seers, Key
<1>8. ASSUME NEW j \in Seers(k)
      PROVE  View(k, j) = Device(k, backends[j]) /\ NamespaceOf[backends[j]] = k[1]
  <2>1. /\ backends[j] \in Backend /\ views[backends[j]].state = "seen"
        /\ View(k, j) \in views[backends[j]].devices /\ Key(View(k, j)) = k
    BY <1>1, ViewIs DEF Seers, Shape
  <2>2. NamespaceOf[backends[j]] = k[1]
    <3>1. View(k, j).ns = NamespaceOf[backends[j]]
      BY <2>1 DEF Inv, ViewsAreTrue, Busy
    <3>2. Key(View(k, j))[1] = View(k, j).ns
      BY DEF Key
    <3> QED BY <2>1, <3>1, <3>2
  <2> QED BY <2>1, <2>2 DEF Inv, QuietLinksAreSeen
<1> DEFINE owners == {j \in Seers(k) : Owned(View(k, j))}
<1>9. owners = {i}
  <2>1. \A j \in Seers(k) : Owned(View(k, j)) <=> link[k].type \in Entities[backends[j]]
    BY <1>4, <1>8 DEF Owned
  <2>2. i \in owners
    BY <1>2, <1>3, <1>7, <2>1
  <2>3. ASSUME NEW j \in owners
        PROVE  j = i
    <3>1. /\ j \in DOMAIN backends /\ NamespaceOf[backends[j]] = NamespaceOf[backends[i]]
          /\ link[k].type \in Entities[backends[j]] \cap Entities[backends[i]]
      BY <1>2, <1>3, <1>8, <2>1 DEF Seers
    <3> QED BY <3>1 DEF Inv, OwnersAreUnique
  <2> QED BY <2>2, <2>3
<1>10. Preferred(k) = Device(k, b)
  <2>1. Preferred(k) = View(k, Min(owners))
    BY <1>9 DEF Preferred
  <2>2. owners \subseteq Nat
    <3>1. DOMAIN backends = 1 .. Len(backends) /\ Len(backends) \in Nat
      BY <1>1 DEF Shape
    <3> QED BY <1>9, <3>1
  <2> HIDE DEF owners
  <2>3. Min(owners) = i
    BY <1>9, <2>2, FirstExists
  <2> QED BY <1>2, <1>7, <1>8, <2>1, <2>3
<1>11. ASSUME NEW c \in Owner(Device(k, None))
       PROVE  c = b
  <2>1. PICK j \in DOMAIN backends : c = backends[j]
    BY DEF Owner, Registered, ToSet
  <2>2. NamespaceOf[c] = k[1] /\ link[k].type \in Entities[c]
    BY <1>4 DEF Owner
  <2> QED BY <1>2, <1>3, <2>1, <2>2 DEF Inv, OwnersAreUnique
<1> QED BY <1>7, <1>10, <1>11

\* A query shows every link that stays as its owner sees it, and once, although the
\* backends look at different moments and other links change (query_in_namespace).
THEOREM QuietLinksShown == Spec => QuietLinksAreAsTheirOwnersSeeThem
<1>1. Inv /\ [Next]_vars =>
        [ QueryReturns /\ selector = AnyName /\ ~IsError(result') =>
            \A k \in unchanged : link[k] # Absent =>
              LET shown == {d \in result'.devices : <<d.ns, d.index>> = k}
                  owner == Owner(Device(k, None))
              IN  owner # {} => shown = {Device(k, b) : b \in owner} ]_vars
  <2> SUFFICES ASSUME Inv, QueryReturns, selector = AnyName,
                      NEW k \in unchanged, link[k] # Absent,
                      NEW b \in Owner(Device(k, None))
               PROVE  {d \in result'.devices : Key(d) = k}
                        = {Device(k, c) : c \in Owner(Device(k, None))}
    BY DEF Key
  <2>1. Seers(k) # {} /\ Preferred(k) = Device(k, b) /\ Owner(Device(k, None)) = {b}
    BY OwnersViewIsPreferred DEF QueryReturns
  <2>2. result'.devices = Merged /\ k \in Link
    BY DEF QueryReturns, Returns, Inv
  <2>3. \A l \in Link : Seers(l) # {} => Key(Preferred(l)) = l
    BY PreferredIs, ViewIs DEF Inv
  <2>4. {d \in Merged : Key(d) = k} = {Preferred(k)}
    BY <2>1, <2>2, <2>3 DEF Merged
  <2> QED BY <2>1, <2>2, <2>4
<1> QED BY <1>1, InvariantHolds, PTL DEF Spec, QuietLinksAreAsTheirOwnersSeeThem
=============================================================================
