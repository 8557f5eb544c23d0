------------------------------ MODULE Registry ------------------------------
(***************************************************************************)
(* BackendRegistry (registry.rs): backends by the namespace they work in    *)
(* and the device types they own.  A query asks all of them at once, each   *)
(* observes at a moment of its own, and the views are merged; a plan is     *)
(* resolved to one backend from such discoveries, one for each namespace.   *)
(* Meanwhile links come, go, change their type and their name.              *)
(***************************************************************************)
EXTENDS Integers, Sequences, FiniteSets, SequencesExt

CONSTANTS
  Namespace, Name, Type,
  Link,       \* where links may be: pairs of a namespace and an index
  Backend,    \* backends that a program may register
  NamespaceOf, Entities, \* backend -> its namespace, the types it owns
  MaxChanges, MaxCalls \* bounds: changes of links, calls

ASSUME RegistryAssumption ==
  /\ NamespaceOf \in [Backend -> Namespace]
  /\ Entities \in [Backend -> SUBSET Type] /\ "none" \notin Backend
  /\ \A k \in Link : k = <<k[1], k[2]>> /\ k[1] \in Namespace
  /\ MaxChanges \in Nat /\ MaxCalls \in Nat

VARIABLES
  \* the kernel
  link,     \* <<namespace, index>> -> the link that lives there, or Absent
  changes,
  \* BackendRegistry
  backends, \* in the order of registration
  \* the call in progress: query, resolve or resolve_plan
  pc,       \* "idle", "query" or "plan"
  plan,     \* the targets of the operations to resolve; none in a query
  taken,    \* how many of them are resolved
  scope,    \* namespaces asked in this discovery
  selector, \* the name asked for, or AnyName
  views,    \* backend -> what it observed
  observations, \* namespace -> merged views, for the plan
  resolved, \* the backend of the operations taken
  result,   \* what the last call returned
  calls,
  \* history
  issued,   \* identities returned by queries
  present,  \* identities of links (whoever issues them) since the call began
  unchanged \* links that have not changed since the call began

world == <<link, changes>>
call == <<plan, taken, scope, selector, views, observations, resolved>>
vars == <<world, backends, pc, call, result, calls, issued, present, unchanged>>

Absent == [inc |-> 0]
AnyName == "any name"
None == "none"
Error(kind) == [error |-> kind]
IsError(r) == "error" \in DOMAIN r
NoResult == Error(None)

\* An identity: the link as it was observed, and who issued its token.
Device(k, b) == [ns |-> k[1], index |-> k[2], link |-> link[k], by |-> b]
Registered == ToSet(backends)
Asked == {b \in Registered : NamespaceOf[b] \in scope}

-----------------------------------------------------------------------------
(* Registration. *)

\* Mutant: only the backend registered last is compared.
ConflictsWithLast(b) ==
  /\ backends # <<>>
  /\ NamespaceOf[Last(backends)] = NamespaceOf[b]
  /\ Entities[Last(backends)] \cap Entities[b] # {}

Conflicts(b) ==
  \E r \in Registered :
    NamespaceOf[r] = NamespaceOf[b] /\ Entities[r] \cap Entities[b] # {}

\* The borrow of the registry is exclusive: no call is in progress.
Register(b) ==
  /\ pc = "idle"
  /\ IF Conflicts(b) THEN result' = Error("Conflict") /\ UNCHANGED backends
                     ELSE result' = NoResult /\ backends' = Append(backends, b)
  /\ UNCHANGED <<world, pc, call, calls, issued, present, unchanged>>

-----------------------------------------------------------------------------
(* Discovery: query_in_namespace. *)

Pending == [state |-> "pending"]

\* One backend observes its namespace.
Observe(b) ==
  /\ pc # "idle" /\ b \in Asked /\ views[b] = Pending
  /\ LET matching == {k \in Link : /\ k[1] = NamespaceOf[b] /\ link[k] # Absent
                                   /\ selector \in {AnyName, link[k].name}}
     IN  views' = [views EXCEPT ![b] =
           IF selector # AnyName /\ matching = {}
           THEN [state |-> "NotFound"]
           ELSE [state |-> "seen", devices |-> {Device(k, b) : k \in matching}]]
  /\ UNCHANGED <<world, backends, pc, plan, taken, scope, selector, observations,
                 resolved, result, calls, issued, present, unchanged>>

Discovered == pc # "idle" /\ \A b \in Asked : views[b] # Pending

\* The backends that saw the link k, by their place in the registration order.
Seers(k) ==
  {i \in DOMAIN backends :
     /\ backends[i] \in Asked /\ views[backends[i]].state = "seen"
     /\ \E d \in views[backends[i]].devices : <<d.ns, d.index>> = k}

View(k, i) == CHOOSE d \in views[backends[i]].devices : <<d.ns, d.index>> = k

Owned(d) == d.link.type \in Entities[d.by]

\* Mutant: the last view is kept.
PreferredLast(k) == View(k, Max(Seers(k)))

\* The first view by the owner of the type it shows, or the first of all.
Preferred(k) ==
  LET owners == {i \in Seers(k) : Owned(View(k, i))}
  IN  View(k, Min(IF owners # {} THEN owners ELSE Seers(k)))

Merged == {Preferred(k) : k \in {l \in Link : Seers(l) # {}}}

Ask(namespaces, name) ==
  /\ scope' = namespaces /\ selector' = name
  /\ views' = [b \in Backend |-> Pending]

\* The call returns r.
Returns(r) ==
  /\ result' = r
  /\ pc' = "idle" /\ plan' = <<>> /\ taken' = 0 /\ resolved' = None
  /\ Ask({}, AnyName) /\ observations' = [n \in {} |-> {}]
  /\ present' = {} /\ unchanged' = Link

Begins(kind) ==
  /\ pc = "idle" /\ pc' = kind /\ result' = NoResult
  /\ calls < MaxCalls /\ calls' = calls + 1
  /\ present' = {Device(k, None) : k \in {l \in Link : link[l] # Absent}}
  /\ unchanged' = Link

\* Some backend failed: what the others saw is not used.
DiscoveryFails ==
  /\ pc # "idle" /\ Asked # {} /\ Discovered
  /\ Returns(Error("QueryFailed"))
  /\ UNCHANGED <<world, backends, calls, issued>>

Query(name) ==
  /\ Begins("query")
  /\ Ask(Namespace, name)
  /\ UNCHANGED <<world, backends, plan, taken, observations, resolved, issued>>

QueryReturns ==
  /\ pc = "query" /\ Discovered
  /\ IF selector # AnyName /\ Merged = {}
     THEN Returns(Error("NotFound")) /\ UNCHANGED issued
     ELSE Returns([devices |-> Merged]) /\ issued' = issued \cup Merged
  /\ UNCHANGED <<world, backends, calls>>

-----------------------------------------------------------------------------
(* Resolution: resolve is resolve_plan for one operation, by name. *)

ResolvePlan(p) ==
  /\ Begins("plan")
  /\ plan' = p /\ taken' = 0 /\ resolved' = None
  /\ observations' = [n \in {} |-> {}]
  /\ \/ /\ p # <<>>
        /\ \E name \in IF Len(p) = 1 THEN {AnyName, p[1].link.name}
                                     ELSE {AnyName} :
             Ask({p[1].ns}, name)
     \/ p = <<>> /\ Ask({}, AnyName)
  /\ UNCHANGED <<world, backends, issued>>

\* The discovery of a namespace is complete.
Keep ==
  /\ pc = "plan" /\ scope # {} /\ Discovered
  /\ IF selector # AnyName /\ Merged = {} THEN Returns(Error("NotFound"))
     ELSE /\ observations' = [n \in DOMAIN observations \cup scope |->
                                IF n \in scope THEN Merged ELSE observations[n]]
          /\ Ask({}, AnyName)
          /\ UNCHANGED <<pc, plan, taken, resolved, result, present, unchanged>>
  /\ UNCHANGED <<world, backends, calls, issued>>

Target == plan[taken + 1]

\* Mutant: the name is enough.
IsTargetByName(d, t) == d.link.name = t.link.name

IsTarget(d, t) == d = t

\* select, for the device d that has the target's namespace and name; which
\* kinds of operations its backend supports is left open.
Select(d, supported) ==
  LET owners == {i \in DOMAIN backends : /\ NamespaceOf[backends[i]] = d.ns
                                         /\ d.link.type \in Entities[backends[i]]}
  IN  IF owners = {} THEN Error("UnsupportedEntityType")
      ELSE IF ~IsTarget(d, Target) THEN Error("StaleState")
      ELSE IF ~supported THEN Error("UnsupportedOperation")
      ELSE [backend |-> backends[Min(owners)]]

\* The next operation.  Merged views of different moments may hold a name
\* twice; the code takes the first, in an order that is left open here.
TakeOperation ==
  /\ pc = "plan" /\ scope = {} /\ taken < Len(plan)
  /\ IF Target.ns \notin DOMAIN observations
     THEN /\ Ask({Target.ns}, AnyName)
          /\ UNCHANGED <<pc, plan, taken, observations, resolved, result, present,
                         unchanged>>
     ELSE LET named == {d \in observations[Target.ns] : d.link.name = Target.link.name}
          IN  \/ named = {} /\ Returns(Error("NotFound"))
              \/ \E d \in named, supported \in BOOLEAN :
                   LET chosen == Select(d, supported)
                   IN  IF IsError(chosen) THEN Returns(chosen)
                       ELSE IF resolved \notin {None, chosen.backend}
                            THEN Returns(Error("UnsupportedOperation"))
                       ELSE /\ resolved' = chosen.backend /\ taken' = taken + 1
                            /\ UNCHANGED <<pc, plan, scope, selector, views,
                                           observations, result, present, unchanged>>
  /\ UNCHANGED <<world, backends, calls, issued>>

PlanReturns ==
  /\ pc = "plan" /\ scope = {} /\ taken = Len(plan)
  /\ Returns(IF plan = <<>> THEN Error("NotFound") ELSE [backend |-> resolved])
  /\ UNCHANGED <<world, backends, calls, issued>>

-----------------------------------------------------------------------------
(* The kernel (external): a link is created or replaced, renamed, deleted. *)

Change(k, l) ==
  /\ changes < MaxChanges
  /\ l # link[k]
  /\ changes' = changes + 1
  /\ link' = [link EXCEPT ![k] = l]
  /\ unchanged' = IF pc = "idle" THEN Link ELSE unchanged \ {k}
  /\ present' = IF pc = "idle" \/ l = Absent THEN present
                ELSE present \cup {[ns |-> k[1], index |-> k[2], link |-> l, by |-> None]}
  /\ UNCHANGED <<backends, pc, call, result, calls, issued>>

FreeName(k, n) == \A o \in Link : o[1] = k[1] /\ link[o] # Absent => link[o].name # n

CreateLink(k, n, t) ==
  /\ FreeName(k, n) \/ (link[k] # Absent /\ link[k].name = n)
  /\ Change(k, [inc |-> changes + 2, name |-> n, type |-> t])
RenameLink(k, n) ==
  /\ link[k] # Absent /\ FreeName(k, n)
  /\ Change(k, [link[k] EXCEPT !.name = n])
DeleteLink(k) == link[k] # Absent /\ Change(k, Absent)

-----------------------------------------------------------------------------

\* Some links, with a name no other has, that no backend has seen yet.
Init ==
  /\ link \in [Link -> {Absent} \cup [inc : {1}, name : Name, type : Type]]
  /\ \A k, l \in Link :
       k # l /\ k[1] = l[1] /\ link[k] # Absent /\ link[l] # Absent
         => link[k].name # link[l].name
  /\ changes = 0 /\ backends = <<>>
  /\ pc = "idle" /\ plan = <<>> /\ taken = 0 /\ scope = {} /\ selector = AnyName
  /\ views = [b \in Backend |-> Pending] /\ observations = [n \in {} |-> {}]
  /\ resolved = None /\ result = NoResult /\ calls = 0
  /\ issued = {} /\ present = {} /\ unchanged = Link

Next ==
  \/ \E b \in Backend : Register(b) \/ Observe(b)
  \/ \E n \in Name \cup {AnyName} : Query(n)
  \/ QueryReturns \/ DiscoveryFails
  \/ \E n \in 0..2 : \E p \in [1..n -> issued] : ResolvePlan(p)
  \/ Keep \/ TakeOperation \/ PlanReturns
  \/ \E k \in Link :
       \/ \E n \in Name, t \in Type : CreateLink(k, n, t)
       \/ \E n \in Name : RenameLink(k, n)
       \/ DeleteLink(k)

Spec == Init /\ [][Next]_vars

-----------------------------------------------------------------------------
(* Properties. *)

\* In a namespace every type has one owner, in whatever order backends came.
OwnersAreUnique ==
  \A i, j \in DOMAIN backends :
    i # j /\ NamespaceOf[backends[i]] = NamespaceOf[backends[j]]
      => Entities[backends[i]] \cap Entities[backends[j]] = {}

Owner(d) == {b \in Registered : NamespaceOf[b] = d.ns /\ d.link.type \in Entities[b]}

\* A link that stays as it is during a query of everything is returned once,
\* as its owner sees it, whatever happens to the other links meanwhile.
QuietLinksAreAsTheirOwnersSeeThem ==
  [][ QueryReturns /\ selector = AnyName /\ ~IsError(result') =>
        \A k \in unchanged : link[k] # Absent =>
          LET shown == {d \in result'.devices : <<d.ns, d.index>> = k}
              owner == Owner(Device(k, None))
          IN  owner # {} => shown = {Device(k, b) : b \in owner} ]_vars

\* A plan is routed to a backend only if it owns the type of every target in
\* their namespace, and each target was there, under that name and of that
\* incarnation, at some moment since the call began.
RoutedPlansFit ==
  [][ PlanReturns /\ ~IsError(result') =>
        \A k \in DOMAIN plan :
          /\ Owner(plan[k]) = {resolved}
          /\ [plan[k] EXCEPT !.by = None] \in present ]_vars

\* registry.rs says that a query keeps the type owner's view of each device.
OwnersViewIsKept ==
  ~IsError(result) /\ "devices" \in DOMAIN result =>
    \A d \in result.devices : Owner(d) # {} => d.by \in Owner(d)
=============================================================================
