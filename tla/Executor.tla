------------------------------ MODULE Executor ------------------------------
(***************************************************************************)
(* The plan executor of netfyr-backend (executor.rs).  It takes the         *)
(* operations of a plan in order; for each it observes the kernel, decides, *)
(* writes through the transport, and re-observes after an address write.    *)
(* Every observation and write is a round trip during which the kernel,     *)
(* other programs and the caller (who may give up) go on.                   *)
(*                                                                          *)
(* An address list is what the kernel reports for a link: entries with an   *)
(* identity (local address and prefix length), the kernel's prefix group    *)
(* (peer and scope taken into account), whether they are secondary, and a   *)
(* lifetime class.  The local prefix group an address belongs to by its own *)
(* bits is Group[addr]; the two differ when the entry has a peer.           *)
(***************************************************************************)
EXTENDS Integers, Sequences, FiniteSets, SequencesExt, Lists

CONSTANTS
  Link,        \* interface indices of the namespace
  Unmanaged,   \* those that are not Ethernet devices
  Address,     \* address identities
  KernelGroup, \* prefix groups
  Group,       \* address -> the prefix group of its own bits
  Lifetime,    \* classes of lifetimes
  Finite,      \* those that run down
  Setting,     \* values of a scalar field (mtu, enabled)
  Plans,       \* plans to execute
  Lists,       \* link -> address list, as they may be when the plan is made
  MaxMeddling, \* bound: changes other programs make
  MaxFaults    \* bound: round trips that fail

\* target.home: the plan is for this namespace.  pre: the operation carries
\* the precondition of its address group, as planned, or one of another group.
Target == [link: Link, token: Nat, home: BOOLEAN]
OperationOf(kinds, args) ==
  [target: Target, deps: SUBSET Nat, addr: Address, kind: kinds, arg: args,
   pre: {"none", "group", "other"}]
Operation == OperationOf({"add", "remove", "replace"}, Lifetime)
               \cup OperationOf({"set", "readonly", "invalid"}, Setting)

\* An entry of an address list.
Entry == [addr: Address, group: KernelGroup, secondary: BOOLEAN, lft: Lifetime]

\* A list as the kernel keeps it: a local address occurs once in a group, and a
\* group has one primary at most.
KernelList(s) ==
  /\ s \in Seq(Entry)
  /\ \A i, j \in DOMAIN s :
       /\ s[i].group = s[j].group
       /\ s[i].addr = s[j].addr \/ ~(s[i].secondary \/ s[j].secondary)
       => i = j

ASSUME ExecutorAssumption ==
  /\ Group \in [Address -> KernelGroup]
  /\ Plans \subseteq Seq(Operation)
  /\ Lists \subseteq [Link -> Seq(Entry)]
  /\ \A lists \in Lists, l \in Link : KernelList(lists[l])
  /\ Unmanaged \subseteq Link /\ Finite \subseteq Lifetime
  /\ MaxMeddling \in Nat /\ MaxFaults \in Nat

VARIABLES
  \* the kernel
  token,    \* link -> the identity its present incarnation has, 0 for none
  setting,  \* link -> value of its scalar field
  list,     \* link -> its address list
  promote,  \* promote_secondaries
  \* the call
  plan, preview,
  cancelled, \* the caller dropped its future
  \* Execution
  phase, outcome, groups, current,
  record,    \* the address record the message is built from
  predicted, \* what the write should make of the link's addresses
  \* history
  planned,  \* the address lists the plan was made from
  meddled, faults, \* changes by others and failed round trips, so far
  seen,     \* meddled when the last observation was taken
  reached,  \* operations whose write reached the kernel
  replay,   \* what the acknowledged writes alone make of the groups of planned
  cascaded, \* <<i, addr>>: the write of operation i deleted addr as well
  dropped   \* operations reported or with the transport when the caller gave up

kernel == <<token, setting, list, promote>>
call == <<plan, preview, planned>>
memory == <<groups, current>>
writing == <<record, predicted>>
effects == <<reached, replay, cascaded>>
vars == <<kernel, call, cancelled, phase, outcome, memory, writing,
          meddled, faults, seen, effects, dropped>>

-----------------------------------------------------------------------------
(* The kernel's address lists (external: net/ipv4/devinet.c). *)

Primary == {e \in Entry : ~e.secondary}
OfGroup(g) == {e \in Entry : e.group = g}
Addresses(s) == {e.addr : e \in ToSet(s)}

\* A new address is the primary of its group, after the other primaries, or
\* a secondary, at the end.
Insert(s, e) ==
  IF \E k \in DOMAIN s : s[k].group = e.group
  THEN Append(s, [e EXCEPT !.secondary = TRUE])
  ELSE Only(s, Primary) \o <<[e EXCEPT !.secondary = FALSE]>> \o Only(s, Entry \ Primary)

\* Deleting a primary deletes the secondaries of its group, or promotes the
\* first of them.
Delete(s, e) ==
  LET left == Only(s, Entry \ {e})
      heirs == Only(left, OfGroup(e.group))
  IN  IF e.secondary \/ heirs = <<>> THEN left
      ELSE IF ~promote THEN Only(left, Entry \ OfGroup(e.group))
      ELSE Only(left, Primary)
             \o <<[Head(heirs) EXCEPT !.secondary = FALSE]>>
             \o Only(left, Entry \ (Primary \cup {Head(heirs)}))

\* The entry a message names: the kernel compares address and peer.
Named(s, r) == {e \in ToSet(s) : e.addr = r.addr /\ e.group = r.group}

-----------------------------------------------------------------------------
(* Operations and observations. *)

Reported == {"succeeded", "satisfied", "readonly", "blocked",
             "UnsupportedOperation", "UnsupportedEntityType", "QueryFailed",
             "ApplyFailed", "OutcomeUnknown", "NotFound", "StaleState"}

At == Len(outcome) + 1
Op == plan[At]
IsAddress(op) == op.kind \in {"add", "remove", "replace"}
Destructive(op) == op.kind \in {"remove", "replace"}
Key(op) == <<op.target, Group[op.addr]>>
Keys == {Key(plan[i]) : i \in DOMAIN plan}

\* Mutant: an operation that was taken counts, whatever came of it.
EligibleOnceTaken == DOMAIN outcome

Eligible ==
  {i \in DOMAIN outcome : outcome[i] \in {"succeeded", "satisfied", "readonly"}}

\* The inventory keeps the first entry of a local address, and is incomplete
\* when there was another with a different peer.
Observed(s) ==
  Only(s, {s[k] : k \in {i \in DOMAIN s : \A j \in 1..(i - 1) : s[j].addr # s[i].addr}})
Complete(s) == \A i, j \in DOMAIN s : s[i].addr = s[j].addr => i = j

Snapshot ==
  [token |-> token, setting |-> setting,
   list |-> [l \in Link |-> Observed(list[l])],
   complete |-> [l \in Link |-> Complete(list[l])]]
NoObservation == [token |-> [l \in Link |-> 0]]

NoRecord == [kind |-> "none"]

InGroup(s, g) == Only(s, {e \in Entry : Group[e.addr] = g})
Entries(s, a) == {e \in ToSet(s) : e.addr = a}

-----------------------------------------------------------------------------
(* Deciding about the operation in turn. *)

\* locate
LocateError(obs, t) ==
  IF ~t.home THEN "StaleState"
  ELSE IF obs.token[t.link] = 0 THEN "NotFound"
  ELSE IF obs.token[t.link] # t.token THEN "StaleState"
  ELSE IF t.link \in Unmanaged THEN "UnsupportedEntityType"
  ELSE "none"

\* The addresses and attributes observed of the operation's device.
Device == current.list[Op.target.link]
Existing == Entries(Device, Op.addr)

\* The first precondition of a group establishes what is expected of it.
PlannedGroup(key) == InGroup(Observed(planned[key[1].link]), key[2])
Precondition == PlannedGroup(Key(Op))
Expecting(key, entries) ==
  [k \in DOMAIN groups \cup {key} |-> IF k = key THEN entries ELSE groups[k]]

Establishes ==
  /\ LocateError(current, Op.target) = "none"
  /\ IsAddress(Op) /\ Op.pre = "group"
  /\ current.complete[Op.target.link]
  /\ Key(Op) \notin DOMAIN groups
Groups == IF Establishes THEN Expecting(Key(Op), Precondition) ELSE groups

\* Mutant: the group has the expected number of members.
GroupMatchesInSize(key) ==
  Len(Groups[key]) = Len(InGroup(Device, Group[Op.addr]))

\* validate_group, once the device is located
GroupMatches(key) == Groups[key] = InGroup(Device, Group[Op.addr])
GroupError ==
  IF ~IsAddress(Op) THEN "none"
  ELSE IF ~current.complete[Op.target.link] THEN "QueryFailed"
  ELSE IF \/ Op.pre = "other"
          \/ Key(Op) \in DOMAIN Groups /\ ~GroupMatches(Key(Op))
          \/ Key(Op) \notin DOMAIN Groups /\ Destructive(Op) /\ Existing # {}
       THEN "StaleState"
  ELSE "none"

\* Whether the lifetimes of the existing address are those requested.  One
\* that runs down is compared with the snapshot it was copied from; without
\* such a snapshot the seconds may or may not be the same.
InSnapshot ==
  /\ Op.pre = "group"
  /\ \E e \in ToSet(Precondition) : e.addr = Op.addr /\ e.lft = Op.arg
LifetimesEqual ==
  IF \A e \in Existing : e.lft # Op.arg THEN {FALSE}
  ELSE IF Op.arg \notin Finite \/ InSnapshot THEN {TRUE}
  ELSE BOOLEAN

\* satisfied: what it returns when the lifetimes are equal, or are not
Satisfied(equal) ==
  CASE Op.kind = "set" -> current.setting[Op.target.link] = Op.arg
    [] Op.kind = "remove" -> Existing = {}
    [] OTHER -> Existing # {} /\ equal
SatisfiedError(equal) ==
  IF Op.kind = "replace" /\ Existing = {} THEN "NotFound"
  ELSE IF Op.kind = "add" /\ Existing # {} /\ ~equal THEN "ApplyFailed"
  ELSE "none"

\* Mutant: any later removal on the device covers addr.
RemovalCoveredByAny(addr) ==
  \E p \in DOMAIN plan :
    p > At /\ plan[p].kind = "remove" /\ plan[p].target = Op.target

\* removal_is_covered: a later operation that may still run removes addr.
RemovalCovered(addr) ==
  LET runnable[p \in DOMAIN plan] ==
        IF p <= At THEN p = At \/ p \in Eligible
                   ELSE \A d \in plan[p].deps : d < p /\ runnable[d]
  IN  \E p \in DOMAIN plan :
        /\ p > At /\ runnable[p]
        /\ plan[p].kind = "remove"
        /\ plan[p].target = Op.target /\ plan[p].addr = addr

\* Mutant: only the secondaries of the same local group are considered.
CascadeUncoveredLocally ==
  /\ Op.kind = "remove"
  /\ \E p \in Existing, e \in ToSet(Device) :
       /\ ~p.secondary /\ e.secondary /\ Group[e.addr] = Group[Op.addr]
       /\ ~RemovalCovered(e.addr)

\* check_cascade: the secondaries of a primary are removed later as well,
\* and are in its local group.
CascadeUncovered ==
  /\ Op.kind = "remove"
  /\ \E p \in Existing, e \in ToSet(Device) :
       /\ ~p.secondary /\ e.secondary /\ e.group = p.group
       /\ Group[e.addr] # Group[Op.addr] \/ ~RemovalCovered(e.addr)

\* What step does about a located device.
Verdict(equal) ==
  IF Op.kind = "readonly" THEN "readonly"
  ELSE IF GroupError # "none" THEN GroupError
  ELSE IF SatisfiedError(equal) # "none" THEN SatisfiedError(equal)
  ELSE IF Satisfied(equal) THEN "satisfied"
  ELSE IF CascadeUncovered THEN "StaleState"
  ELSE "write"

\* project: what the write should make of addresses s
NewEntry(op, r) == [addr |-> op.addr, group |-> r.group, secondary |-> FALSE,
                    lft |-> op.arg]
Project(s) ==
  LET group == Group[Op.addr]
  IN  CASE Op.kind = "remove" -> Only(s, {e \in Entry : e.addr # Op.addr})
        [] Op.kind = "add" ->
             Append(s, [NewEntry(Op, [group |-> group]) EXCEPT
               !.secondary = \E e \in ToSet(s) : e.group = group])
        [] Op.kind = "replace" ->
             [k \in DOMAIN s |-> IF s[k].addr = Op.addr
                                 THEN [s[k] EXCEPT !.lft = Op.arg] ELSE s[k]]
        [] OTHER -> s
Projected == Project(Device)

-----------------------------------------------------------------------------
(* The steps of the executor. *)

\* Mutant: an operation is reported twice.
ReportTwice(o) ==
  /\ outcome' = outcome \o <<o, o>>
  /\ phase' = "ready"
  /\ record' = NoRecord /\ predicted' = <<>>

\* Mutant: the loop does not go on after a blocked operation.
ReportUnlessBlocked(o) ==
  /\ outcome' = IF o = "blocked" THEN outcome ELSE Append(outcome, o)
  /\ phase' = "ready"
  /\ record' = NoRecord /\ predicted' = <<>>

\* The operation is reported, and the next one is in turn.
Report(o) ==
  /\ outcome' = Append(outcome, o)
  /\ phase' = "ready"
  /\ record' = NoRecord /\ predicted' = <<>>

\* The head of run's loop and of step, up to the observation.
Refusal ==
  IF \E d \in Op.deps : d >= At THEN "UnsupportedOperation"
  ELSE IF ~(Op.deps \subseteq Eligible) THEN "blocked"
  ELSE IF cancelled THEN "ApplyFailed"
  ELSE IF Op.kind = "invalid" THEN "UnsupportedOperation"
  ELSE "none"

Begin ==
  /\ phase = "ready" /\ At \in DOMAIN plan
  /\ \/ Refusal # "none" /\ Report(Refusal)
     \/ /\ Refusal = "none"
        /\ phase' = IF current = NoObservation THEN "observe" ELSE "decide"
        /\ UNCHANGED <<outcome, writing>>
  /\ UNCHANGED <<kernel, call, cancelled, memory, meddled, faults, seen,
                 effects, dropped>>

\* A round trip fails: bounded, to keep failing runs short.
Fault == faults < MaxFaults /\ faults' = faults + 1

Observe ==
  /\ phase = "observe"
  /\ \/ /\ current' = Snapshot
        /\ seen' = meddled
        /\ phase' = "decide"
        /\ UNCHANGED <<outcome, writing, faults>>
     \/ Fault /\ Report("QueryFailed") /\ UNCHANGED <<current, seen>>
  /\ UNCHANGED <<kernel, call, cancelled, groups, meddled, effects, dropped>>

\* The device is gone, replaced or not one to manage.
DecideUnlocated ==
  /\ phase = "decide"
  /\ LocateError(current, Op.target) # "none"
  /\ Report(LocateError(current, Op.target))
  /\ UNCHANGED <<kernel, call, cancelled, memory, meddled, faults, seen,
                 effects, dropped>>

\* Nothing is written: an error, or nothing to do.
DecideAgainst ==
  /\ phase = "decide"
  /\ LocateError(current, Op.target) = "none"
  /\ \E equal \in LifetimesEqual :
       LET verdict == Verdict(equal)
       IN  /\ verdict # "write" \/ (~preview /\ cancelled)
           /\ Report(IF verdict = "write" THEN "ApplyFailed" ELSE verdict)
  /\ groups' = IF Op.kind = "readonly" THEN groups ELSE Groups
  /\ UNCHANGED <<kernel, call, cancelled, current, meddled, faults, seen,
                 effects, dropped>>

\* A dry run projects the write onto its observation.
DecidePreview ==
  /\ phase = "decide" /\ preview
  /\ LocateError(current, Op.target) = "none"
  /\ \E equal \in LifetimesEqual : Verdict(equal) = "write"
  /\ current' =
       IF IsAddress(Op) THEN [current EXCEPT !.list[Op.target.link] = Projected]
       ELSE [current EXCEPT !.setting[Op.target.link] = Op.arg]
  /\ groups' = IF IsAddress(Op) /\ Key(Op) \in DOMAIN Groups
               THEN [Groups EXCEPT ![Key(Op)] = InGroup(Projected, Group[Op.addr])]
               ELSE Groups
  /\ Report("succeeded")
  /\ UNCHANGED <<kernel, call, cancelled, meddled, faults, seen, effects, dropped>>

\* Mutant: the caller is not asked again before the write.
MayWriteAnyway == ~preview

MayWrite == ~preview /\ ~cancelled

\* The address and peer the message names: those of the record that the last
\* inventory cached, if there was one.
RecordOf(op, existing) ==
  IF existing = {} \/ op.kind = "add"
  THEN [addr |-> op.addr, group |-> Group[op.addr]]
  ELSE LET e == CHOOSE e \in existing : TRUE
       IN  [addr |-> e.addr, group |-> e.group]

DecideWrite ==
  /\ phase = "decide" /\ MayWrite
  /\ LocateError(current, Op.target) = "none"
  /\ \E equal \in LifetimesEqual : Verdict(equal) = "write"
  /\ phase' = "confirm"
  /\ groups' = Groups
  /\ current' = NoObservation
  /\ predicted' = Projected
  /\ record' = RecordOf(Op, Existing)
  /\ UNCHANGED <<kernel, call, cancelled, outcome, meddled, faults, seen,
                 effects, dropped>>

\* execute asks for the link again before it submits the message.
Confirm ==
  /\ phase = "confirm"
  /\ \/ /\ token[Op.target.link] = Op.target.token
        /\ phase' = "submitted"
        /\ UNCHANGED <<outcome, writing, faults>>
     \/ /\ token[Op.target.link] # Op.target.token
        /\ Report(IF token[Op.target.link] = 0 THEN "NotFound" ELSE "StaleState")
        /\ UNCHANGED faults
     \/ Fault /\ Report("QueryFailed")
  /\ UNCHANGED <<kernel, call, cancelled, memory, meddled, seen, effects, dropped>>

\* What the kernel makes of a message for a link that has address list s.
Accepts(s, op, r) ==
  CASE op.kind = "add" -> Named(s, r) = {}
    [] op.kind = "remove" -> Named(s, r) # {}
    [] OTHER -> TRUE
Written(s, op, r) ==
  CASE op.kind = "remove" -> Delete(s, CHOOSE e \in Named(s, r) : TRUE)
    [] op.kind = "replace" /\ Named(s, r) # {} ->
         [k \in DOMAIN s |-> IF s[k] \in Named(s, r)
                             THEN [s[k] EXCEPT !.lft = op.arg] ELSE s[k]]
    [] op.kind = "add" \/ (op.kind = "replace" /\ Named(s, r) = {}) ->
         Insert(s, NewEntry(op, r))
    [] OTHER -> s

\* The kernel carries the write out, on whatever link has the index now.
Write ==
  LET l == Op.target.link
  IN  /\ phase = "submitted"
      /\ token[l] # 0 /\ Accepts(list[l], Op, record)
      /\ list' = [list EXCEPT ![l] = Written(@, Op, record)]
      /\ setting' = IF Op.kind = "set" THEN [setting EXCEPT ![l] = Op.arg]
                                       ELSE setting
      /\ reached' = reached \cup {At}
      /\ cascaded' = IF Op.kind = "remove" /\ meddled = seen
           THEN cascaded \cup ({At} \X ((Addresses(list[l]) \ Addresses(list'[l]))
                                          \ {Op.addr}))
           ELSE cascaded
      /\ phase' = "written"
      /\ UNCHANGED <<token, promote, call, cancelled, outcome, memory, writing,
                     meddled, faults, seen, replay, dropped>>

\* The write has no effect: the kernel refuses it, or it gets lost.
WriteNothing ==
  /\ phase = "submitted"
  /\ \/ /\ token[Op.target.link] = 0
        /\ Report("NotFound") /\ UNCHANGED faults
     \/ /\ token[Op.target.link] # 0
        /\ ~Accepts(list[Op.target.link], Op, record)
        /\ Report("ApplyFailed") /\ UNCHANGED faults
     \/ Fault /\ \E o \in {"QueryFailed", "ApplyFailed", "OutcomeUnknown"} :
                   Report(o)
  /\ UNCHANGED <<kernel, call, cancelled, memory, meddled, seen, effects, dropped>>

\* Mutant: no survivor is expected to be promoted.
PromotedNone(expected, actual) == expected

\* verify_address_write: secondaries removed later may be gone already, and
\* the first survivor may have been promoted.
PromotedFirst(expected, actual) ==
  IF /\ expected # <<>> /\ actual # <<>>
     /\ Head(expected).addr = Head(actual).addr /\ ~Head(actual).secondary
  THEN [expected EXCEPT ![1].secondary = FALSE]
  ELSE expected

ExpectedAfter(actual) ==
  LET expected == InGroup(predicted, Group[Op.addr])
      Gone(e) == /\ e.secondary /\ e.addr \notin Addresses(actual)
                 /\ RemovalCovered(e.addr)
  IN  IF Op.kind = "remove"
      THEN PromotedFirst(Only(expected, {e \in Entry : ~Gone(e)}), actual)
      ELSE expected

AsPredicted(after) ==
  LET all == after.list[Op.target.link]
      actual == InGroup(all, Group[Op.addr])
  IN  /\ ExpectedAfter(actual) = actual
      /\ \A e \in ToSet(predicted) :
           Group[e.addr] # Group[Op.addr] => e.addr \in Addresses(all)

\* Mutant: an incomplete inventory is reported as it is before a write.
VerifyErrorUnmapped(after) ==
  IF LocateError(after, Op.target) # "none" THEN LocateError(after, Op.target)
  ELSE IF ~after.complete[Op.target.link] THEN "QueryFailed"
  ELSE IF ~AsPredicted(after) THEN "StaleState"
  ELSE "none"

VerifyError(after) ==
  IF LocateError(after, Op.target) # "none" THEN LocateError(after, Op.target)
  ELSE IF ~after.complete[Op.target.link] THEN "OutcomeUnknown"
  ELSE IF ~AsPredicted(after) THEN "StaleState"
  ELSE "none"

\* A scalar write needs no more than its acknowledgement.
Acknowledge ==
  /\ phase = "written" /\ ~IsAddress(Op)
  /\ Report("succeeded")
  /\ UNCHANGED <<kernel, call, cancelled, memory, meddled, faults, seen,
                 effects, dropped>>

\* After an address write the addresses are observed again and compared.
Verify ==
  /\ phase = "written" /\ IsAddress(Op)
  /\ VerifyError(Snapshot) = "none"
  /\ current' = Snapshot
  /\ seen' = meddled
  /\ groups' = IF Key(Op) \in DOMAIN groups
               THEN [groups EXCEPT ![Key(Op)] =
                       InGroup(Observed(list[Op.target.link]), Group[Op.addr])]
               ELSE groups
  /\ replay' = IF Key(Op) \in DOMAIN groups
               THEN [replay EXCEPT ![Key(Op)] = Project(@)] ELSE replay
  /\ Report("succeeded")
  /\ UNCHANGED <<kernel, call, cancelled, meddled, faults, reached, cascaded, dropped>>

\* The comparison fails, or the acknowledgement or the observation got lost.
VerifyFails ==
  /\ phase = "written"
  /\ \/ /\ IsAddress(Op) /\ VerifyError(Snapshot) # "none"
        /\ Report(VerifyError(Snapshot)) /\ UNCHANGED faults
     \/ Fault /\ Report("OutcomeUnknown")
  /\ UNCHANGED <<kernel, call, cancelled, memory, meddled, seen, effects, dropped>>

Done == At \notin DOMAIN plan

\* The caller drops its future (a dry run is not told).
Cancel ==
  /\ ~cancelled /\ ~Done /\ ~preview
  /\ cancelled' = TRUE
  /\ dropped' = IF phase \in {"confirm", "submitted", "written"} THEN At
                                                                ELSE Len(outcome)
  /\ UNCHANGED <<kernel, call, phase, outcome, memory, writing, meddled,
                 faults, seen, effects>>

-----------------------------------------------------------------------------
(* Other programs that configure the links. *)

Meddle ==
  /\ ~Done
  /\ meddled < MaxMeddling
  /\ meddled' = meddled + 1
  /\ UNCHANGED <<promote, call, cancelled, phase, outcome, memory, writing,
                 faults, seen, effects, dropped>>

\* An address appears, with a peer of any group, or another one disappears.
AddElsewhere(l, e) ==
  /\ token[l] # 0
  /\ Named(list[l], e) = {}
  /\ list' = [list EXCEPT ![l] = Insert(@, e)]
  /\ Meddle /\ UNCHANGED <<token, setting>>

DeleteElsewhere(l, e) ==
  /\ e \in ToSet(list[l])
  /\ list' = [list EXCEPT ![l] = Delete(@, e)]
  /\ Meddle /\ UNCHANGED <<token, setting>>

SetElsewhere(l, v) ==
  /\ token[l] # 0 /\ setting[l] # v
  /\ setting' = [setting EXCEPT ![l] = v]
  /\ Meddle /\ UNCHANGED <<token, list>>

\* The link is deleted.
DeleteLink(l) ==
  /\ token[l] # 0
  /\ token' = [token EXCEPT ![l] = 0]
  /\ list' = [list EXCEPT ![l] = <<>>]
  /\ Meddle /\ UNCHANGED setting

\* The index gets a new link, with the same addresses at most, or the backend
\* lost the link's token: either way a new identity.
RenewLink(l, s) ==
  /\ s \in {<<>>, list[l]}
  /\ token' = [token EXCEPT ![l] = meddled + 2]
  /\ list' = [list EXCEPT ![l] = s]
  /\ Meddle /\ UNCHANGED setting

Elsewhere ==
  \E l \in Link :
    \/ \E e \in Entry : AddElsewhere(l, e) \/ DeleteElsewhere(l, e)
    \/ \E v \in Setting : SetElsewhere(l, v)
    \/ DeleteLink(l)
    \/ \E s \in {<<>>, list[l]} : RenewLink(l, s)

-----------------------------------------------------------------------------

Init ==
  /\ token = [l \in Link |-> 1]
  /\ \E v \in Setting : setting = [l \in Link |-> v]
  /\ list \in Lists
  /\ promote \in BOOLEAN
  /\ plan \in Plans /\ preview \in BOOLEAN
  /\ planned = list
  /\ replay = [k \in Keys |-> PlannedGroup(k)]
  /\ cancelled = FALSE
  /\ phase = "ready" /\ outcome = <<>>
  /\ groups = [k \in {} |-> <<>>] /\ current = NoObservation
  /\ record = NoRecord /\ predicted = <<>>
  /\ meddled = 0 /\ faults = 0 /\ seen = 0
  /\ reached = {} /\ cascaded = {} /\ dropped = 0

Decide == DecideUnlocated \/ DecideAgainst \/ DecidePreview \/ DecideWrite

\* What the worker's thread does for this call.
Run ==
  \/ Begin \/ Observe \/ Decide \/ Confirm
  \/ Write \/ WriteNothing \/ Acknowledge \/ Verify \/ VerifyFails

\* The call has returned its report.
Returned == Done /\ UNCHANGED vars

Next == Run \/ Cancel \/ Elsewhere \/ Returned

Spec == Init /\ [][Next]_vars

\* Every round trip of the transport ends, with a result or by its timeout.
FairSpec == Spec /\ WF_vars(Run)

-----------------------------------------------------------------------------
(* Properties. *)

Observation ==
  [token: [Link -> Nat], setting: [Link -> Setting],
   list: [Link -> Seq(Entry)], complete: [Link -> BOOLEAN]]

\* The values every variable takes.
TypeOK ==
  /\ token \in [Link -> Nat] /\ setting \in [Link -> Setting]
  /\ list \in [Link -> Seq(Entry)] /\ promote \in BOOLEAN
  /\ plan \in Seq(Operation) /\ preview \in BOOLEAN /\ cancelled \in BOOLEAN
  /\ planned \in [Link -> Seq(Entry)] /\ replay \in [Keys -> Seq(Entry)]
  /\ phase \in {"ready", "observe", "decide", "confirm", "submitted", "written"}
  /\ outcome \in Seq(Reported) /\ Len(outcome) <= Len(plan)
  /\ phase # "ready" => At \in DOMAIN plan
  /\ DOMAIN groups \subseteq Target \X KernelGroup
  /\ \A k \in DOMAIN groups : groups[k] \in Seq(Entry)
  /\ current = NoObservation \/ current \in Observation
  /\ phase = "decide" => current \in Observation
  /\ phase \in {"confirm", "submitted", "written"} =>
       record \in [addr: Address, group: KernelGroup] /\ predicted \in Seq(Entry)
  /\ meddled \in 0..MaxMeddling /\ faults \in 0..MaxFaults /\ seen \in 0..meddled
  /\ reached \subseteq DOMAIN plan
  /\ cascaded \subseteq (DOMAIN plan) \X Address
  /\ dropped \in 0..Len(plan)

Removes(j, l, a) ==
  /\ j \in DOMAIN plan
  /\ plan[j].kind = "remove" /\ plan[j].target.link = l /\ plan[j].addr = a

\* Removing a primary never deletes an address the plan does not go on to
\* remove, unless another program intervenes after the observation: the
\* kernel's cascade follows the peers' prefix groups, the plan the local ones.
NoCollateralLoss ==
  \A c \in cascaded :
    \E j \in DOMAIN plan : j > c[1] /\ Removes(j, plan[c[1]].target.link, c[2])

\* A test says that a removal blocked by its dependencies cannot authorise the
\* cascade that deletes its address, from a removal that succeeds.
BlockedRemovalAuthorisesNothing ==
  \A c \in cascaded :
    c[1] \in DOMAIN outcome /\ outcome[c[1]] = "succeeded" =>
      \E j \in DOMAIN plan :
        /\ j > c[1] /\ Removes(j, plan[c[1]].target.link, c[2])
        /\ j \in DOMAIN outcome => outcome[j] # "blocked"

\* An error that says the write was not carried out is the truth: once a
\* write reached the kernel the report says so, or that it is not known, or
\* that the device or its addresses are no longer the expected ones.
ErrorsBeforeTheWrite ==
  \A i \in reached \cap DOMAIN outcome :
    outcome[i] \in {"succeeded", "OutcomeUnknown", "StaleState", "NotFound"}

\* Once the caller has given up, nothing is written but the operation that was
\* with the transport already.
NothingWrittenLater ==
  cancelled => \A i \in reached : i <= dropped

Kept(s, l) ==
  Only(s, {e \in Entry : \A j \in DOMAIN plan : ~Removes(j, l, e.addr)})
Bare(s) == [k \in DOMAIN s |-> <<s[k].addr, s[k].group, s[k].lft>>]

\* A removal or replacement is only written when its prefix group holds what
\* the planner saw, changed by nothing but the plan's own acknowledged writes
\* since the group was validated first.  (Addresses the plan removes anyway may
\* be gone.)
DestroysOnlyAKnownGroup ==
  [][ DecideWrite /\ Destructive(Op) =>
        LET l == Op.target.link
        IN  /\ Key(Op) \in DOMAIN Groups
            /\ Bare(Kept(InGroup(Device, Group[Op.addr]), l))
                 = Bare(Kept(replay[Key(Op)], l)) ]_vars

\* What the operations up to the k-th, in order, make of the addresses of a link:
\* the last one that adds or removes an address decides.
Changes(k, l, a) ==
  {i \in 1..k : plan[i].target.link = l /\ plan[i].addr = a
                  /\ plan[i].kind \in {"add", "remove"}}
IntendedUpTo(k, l) ==
  {a \in Address :
     \/ Changes(k, l, a) = {} /\ a \in Addresses(planned[l])
     \/ \E i \in Changes(k, l, a) :
          plan[i].kind = "add" /\ \A j \in Changes(k, l, a) : j <= i}
Intended(l) == IntendedUpTo(Len(plan), l)

Success == DOMAIN plan \subseteq Eligible

\* With nobody else around, a report without failures means that every link
\* has exactly the addresses the plan leads to, whatever cascaded, was
\* promoted or was satisfied already.
SuccessReachesThePlan ==
  Done /\ ~preview /\ meddled = 0 /\ Success =>
    \A l \in Link : Addresses(list[l]) = Intended(l)

\* "addresses changed unexpectedly during the write" is only reported when
\* somebody changed them.
QuietWritesVerify ==
  [][ VerifyFails /\ meddled = 0 /\ faults = 0 => outcome'[At] # "StaleState" ]_vars

\* lib.rs says that dropping the future stops before the next write.
DropStopsTheNextWrite ==
  [][ Confirm /\ phase' = "submitted" => ~cancelled ]_vars

\* Every operation is reported in the end, even if every round trip fails.
EveryOperationReported == <>Done

\* The executor carries out plans as the interface of the backend promises.
Abstracted(o) ==
  CASE o = "succeeded" -> "done"
    [] o \in {"satisfied", "readonly"} -> "skipped"
    [] o = "blocked" -> "blocked"
    [] OTHER -> "failed"

PlanDependencies == {[i \in DOMAIN p |-> p[i].deps] : p \in Plans}

Promise == INSTANCE PlanExecution WITH
  Dependencies <- PlanDependencies,
  deps <- [i \in DOMAIN plan |-> plan[i].deps],
  reports <- [i \in DOMAIN outcome |-> Abstracted(outcome[i])]

ImplementsPromise == Promise!Spec
=============================================================================
