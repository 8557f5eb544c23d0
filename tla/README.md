# A TLA+ model of netfyr

netfyr configures Linux network interfaces from declarative states.  A backend
observes a network namespace over netlink, a plan (`StateDiff`) lists the
operations that lead from what was observed to what is wanted, and the backend
applies the plan one operation at a time while the kernel and other programs go
on changing the same interfaces.

This directory holds the TLA+ modules that model that program, the TLC
configurations that check them, and the proofs that TLAPS checks.  Paths below
are relative to the repository; `linux.rs`, `executor.rs`, `worker.rs`,
`registry.rs`, `report.rs` and `lib.rs` without a directory are those of
`src/crates/netfyr-backend/src/`, and `plan.rs` is
`src/crates/netfyr-state/src/plan.rs`, and `schema.rs`, `yaml.rs`, `apply.rs`, `value.rs` are its
neighbours; `policy/lib.rs` is `src/crates/netfyr-policy/src/lib.rs`.

## 1. The system

| Component | Source | State | Operations | Interacts with |
|---|---|---|---|---|
| Netlink transport | `linux.rs` | one token ("generation") per interface index, deletion epoch, lost/closed flags, cached address records | `inventory`, `execute`, `confirm_identity`, `drain_notifications`, `next_notification` | the kernel through one socket; a connection task that forwards notifications and replies through channels |
| Plan executor | `executor.rs` | outcomes so far, predicted address groups, the last observation | `run` for apply and dry run: eligibility, `step`, `validate_group`, `satisfied`, `check_cascade`, `verify_address_write` | the transport (every observation and write is a round trip); the caller, who may give up |
| Worker and handle | `worker.rs`, `lib.rs` | a thread inside one namespace, a bounded channel of requests, a oneshot channel for each call | `open`, clone and drop of handles, `query`, `apply`, `dry_run` | callers on any thread; executor and transport inside the worker |
| Backend registry | `registry.rs` | the backends, in order of registration | `register`, `query`, `query_all`, `resolve`, `resolve_plan` | several workers at once (`join_all`) |
| Reports and errors | `report.rs` | plain data | outcomes and their kinds | executor, worker, callers |
| Plan and observation types | `plan.rs` | plain data | operations, targets, preconditions, prefix groups | all of the above |
| Schema registry, validation | `netfyr-state/src/schema.rs` | parsed schemas | validate, decode YAML, remove read-only fields | states, apply preparation |
| YAML states | `netfyr-state/src/yaml.rs` | none | states to and from mappings | schema, policies |
| Apply preparation, matching | `netfyr-state/src/apply.rs`, `match_spec.rs` | none | `prepare_for_apply`, `Match::matches` | states, schemas |
| Policies | `policy/lib.rs` | a set of named policies | insert, produce all, load a file or a directory | YAML states, schemas |
| Netlink decoding | `linux.rs` | none | what links, ethtool answers and address records become | the transport's inventory, schemas |
| Values, metadata, errors | `netfyr-state/src/{value,state,source,error}.rs` | plain data | equality, formatting | everything |

Hard behaviours, and where they are:

* **Identity under reuse** (transport).  The kernel reuses interface indices and
  names.  The transport gives each link it sees a random token, and takes tokens
  away when it learns of a deletion.  The news travels asynchronously, may be
  lost (a full socket buffer) and may end (a closed connection); an inventory
  consists of two dumps between which anything may happen; a write is preceded
  by a confirmation, after which the link may still be replaced.
* **Side effects of address writes** (executor).  Deleting a primary address makes
  the kernel delete or promote secondaries.  The plan has prefix groups of local
  addresses, the kernel has groups by peer and scope.  The executor predicts what
  a write does and compares.
* **Giving up** (executor, worker).  A future may be dropped at any moment; a plan
  may wait in a channel, be half executed, or have a write on its way.
* **Losing the worker** (worker).  Its thread may stop with requests in the
  channel or half executed, and opening may time out while it is starting.
  Its callers must be told the truth about what was written.
* **Time between two dumps** (executor).  The kernel counts lifetimes down; the executor
  must tell that from a change by another program, with truncated seconds, dumps
  that are dated after they were taken, and an expectation it moves itself.
* **The same state in several forms** (schemas, YAML, policies).  A state is
  observed, written, edited, read, stripped of what cannot be written, saved and
  loaded; every step drops, adds or derives something (read-only fields, the
  match, the device type, the trigger of a provider), and the next relies on it.
* **One tree, two readers** (schemas).  Extensions add to a schema in place, which is
  walked by validation and looked up flat by everyone else.
* **Views taken at different moments** (registry).  Several backends observe the
  same links, not at the same time, and their views are merged.

What makes each component correct:

* transport: an identity names one link for ever; observations join data of one
  link; what is written is built from the target's own records, after its
  confirmation, and a write that hit another link does not go unnoticed;
* executor: no collateral loss, no destructive write on a group that is not the
  planned one, truthful errors, success means the planned addresses, at most
  once, in order, never after a failed dependency, never after cancellation;
* worker: `Disconnected` and `Failed` mean that nothing was written, cancellation
  is effective, every call returns, namespaces are given back;
* lifetimes: passing time is no change, and a change is not passing time;
* documents: nothing is lost or invented between two forms without a warning or an error, the
  same device is selected, the saved form is a fixed point, each document is one
  policy, what loads produces, a refused extension changes nothing;
* registry: one owner for each type in each namespace; merged views are the
  owner's; plans go to the owner of all their targets.

## 2. Modules

    PlanExecution  <== refines ==  Executor  <---- ExecutorProofs <- AddressProofs
                                      |                  Lists, ListProofs (lists that both select from)
                                      |  apply and dry run, one operation at a time;
                                      |  the transport's promises are its Observe, Confirm, Write
                                   Transport  <---- TransportProofs
                                      |
                                   Worker  <---- WorkerProofs   (which plan runs when, who is told what)
                                      |  a backend is one worker
                                   Registry  <---- RegistryProofs   (several backends)

    Lifetimes      <---- LifetimesProofs       (one lifetime inside Executor's comparisons)

    Lists <- Trees <- Value <- Schema <- Codec <- Prepare <- Policy <-- Documents  <---- DocumentsProofs
                                            <- Observation <- Assignment <-/   (files, a program, a user)

Each MC module (`MCTransport`, `MCExecutor`, `MCWorker`, `MCRegistry`, `MCLifetimes`,
`MCDocuments`) extends the module it is named after with the values of its constants.

### Transport

Models `LinuxTransport` with the kernel and the connection task around it.

* The kernel: `link[i]` is the number of the incarnation at index `i` (0 for
  none), `name[i]` its name.  `CreateLink`, `DeleteLink`, `RenameLink` happen at
  any moment; `DeleteLinkUnreported` is a deletion whose notification finds the
  socket buffer full.
* The wire: `socket` holds the notifications in order; `inflight` and `ahead` are
  the reply the kernel has queued and the number of notifications before it.
  `ForwardNotification` and `ForwardReply` are the connection task, which moves
  them to `channel` and to the waiting request's `answer` in socket order.
  An overrun is put ahead of the queue, as `recvmsg` returns `ENOBUFS` before
  what is still queued.  `ConnectionEnds` closes it.
* The transport: `generations`, `deletion_epoch`, `invalidated`,
  `notifications_closed`, `address_messages` have the source's names.  `Drain` and
  `NextNotification` record what `channel` holds, between calls; inside a call
  the drain is part of the action that runs it, because it never yields.
* A call is a `pc` and the locals of the function: `inventory` is `InventoryBegin`,
  `InventoryLinks` (the link dump arrived), `InventoryAddresses` (the address dump
  arrived), `InventoryClassify` (one device: drain, look at the epoch, draw or reuse its
  token), `InventoryRejected` and `InventoryFinish` (prune tokens, check the epoch and the tokens,
  keep the records, return); `execute` is `ExecuteBegin`, `ExecuteConfirm`
  (`confirm_identity`'s reply arrived) and `ExecuteDone`.  `Fail` ends any of them.

Abstractions.  `fresh_generation` draws a random `u64`; a draw is modelled as one
that was never drawn, and a collision (2^-64) is ignored, as is the wrap of the
64-bit epoch.  A dump is atomic: an interrupted one carries `NLM_F_DUMP_INTR`,
and is rejected by the code.  Notifications of other kinds are ignored by the code.
Contents of links and addresses are left out; `record` and `address_messages`
remember the incarnation they came from, which is what the properties compare.
`Fail` also stands for a request given up by a timeout; a write that is carried
out after that is the "late" write of `Worker`, and another program's change
for `Executor`.

### Executor and PlanExecution

`Executor` models `executor.rs`'s `run`, for `apply_plan` and `preview_plan`.  The
kernel part gives address lists and what additions, replacements and deletions make of them
(`Insert`, `Delete`: primaries and secondaries by kernel group, cascade or
promotion).  The plan is any of `Plans`: operations with a target, dependencies,
a kind, an address and the precondition of its group.

* `Begin` takes the next operation: blocked by its dependencies,
  refused early (a dependency that is not earlier, a cancelled caller, `decode`), or on to the observation.
* `Observe` is the inventory before a decision; it is kept until the next write.
* `DecideUnlocated`, `DecideAgainst`, `DecidePreview`, `DecideWrite` are the outcomes of
  `step` up to the write: `locate`, the group validation, `satisfied`,
  `check_cascade`, the preview's projection, the look at the caller.
* `Confirm`, `Write`, `WriteNothing` are the transport's `execute`; `Write` is the
  moment the kernel carries it out, `Acknowledge` that of a scalar write's report.
* `Verify` and `VerifyFails` are `verify_address_write`, with the outcomes it has when
  the observation fails, is incomplete, finds another device or other addresses.
* `Cancel` is the caller; `Elsewhere` is another program: it adds and deletes
  addresses, changes settings, deletes links or replaces them.

`Only` of module `Lists` is what the code's `filter` and `retain` make of a list, selecting by a set; a set is data,
of which TLAPS can reason, where `SelectSeq` takes an operator.  `KernelList` says what the kernel guarantees of an address list:
a local address occurs once in a kernel group, and a group has one primary at most.  It is an assumption on the lists that
exist when the plan is made, and is kept by every addition and deletion.

`replay` is a history: for each device and prefix group of the plan, what the planner saw of the group
and the acknowledged, verified writes alone made of it.  `DestroysOnlyAKnownGroup` compares with it group by group, and
leaves out who is secondary (`Bare`, the kernel promotes) and the addresses that the plan removes anyway (`Kept`, a cascade may be
ahead of their removal).  It does not compare with the whole address list of the link or with the kernel's replay of the plan's
writes: neither holds, for a plan may add to a group without a precondition before the group is validated,
and other groups are validated when their own turn comes.

Abstractions.  Lifetimes are classes: "forever" or one that runs down.  Two
finite lifetimes are compared with a tolerance in the code; here the comparison without a
snapshot may come out either way.  `ifa_scope` is folded into the kernel group.
`promote_secondaries` does not change while a plan runs.  The relative order of
primaries after a promotion is simplified.  Indices of a plan are from 1.  An
inventory in which a local address occurs twice is incomplete, as in the code,
and refuses address operations.  Diagnostics are left out.

`PlanExecution` states what `NetworkBackend::apply` and `dry_run` promise: in list
order, every operation reported once, each at most once at the kernel and only
in its turn, none after a dependency that was not carried out, a dry run never
at the kernel.  `Executor!ImplementsPromise` is the refinement.

### Worker

`NetlinkBackend`: `opener` and `ready` are `open`'s side of the start and its
time limit, `handles` the clones (senders), `waiting` the callers in `send().await`
(the channel's semaphore is first come, first served), `queue` the channel,
`worker`/`serving`/`outcome`/`submitting` the thread, `answer` the oneshot channels,
`report` what callers got.  `Take` and `NextNotification` are the two branches of
`select!`; `ServeQuery`, `Decide`, `Write`, `WriteFails`, `FinishPlan` serve a request
(the details inside one operation are `Executor`'s); `Refused`, `Answered`, `Lost`
are the three ways a call returns; `Drop` drops a future.  `late` holds writes
whose request timed out with the message still in the connection; they may reach
the kernel until the worker's runtime is gone.  `StopsUnexpectedly` is a panic.

### Registry

`BackendRegistry`: `backends` in order; a call is a `Query` or a `ResolvePlan`.
Each backend `Observe`s its namespace at a moment of its own; `QueryReturns`
merges the views (`Preferred`: the first view by the owner of the type it shows,
or the first), `Keep` keeps the merged views for the plan, `TakeOperation` is the
loop body of `resolve_plan`, `PlanReturns` its end.  `resolve` is the case of one
operation discovered by name.  Identities include their issuer (`by`): tokens of
two backends are drawn independently and never equal.  Which kinds of operations
a backend supports, and whether it fails, is left open.  The order of merged devices is left
open where the code takes the first of several with a name.  A registry
borrowed for a call cannot be registered with; calls are one at a time as they
do not change it.  The check for "an interface from another namespace" cannot
fire with backends that observe their own namespace.

### Lifetimes

One lifetime of one address, between two dumps: `WholeSeconds`, `Decay`, `LifetimeMatches`
are `whole_seconds`, `decay` and `lifetime_matches` of `executor.rs`; durations are in ticks,
`Ticks` of them a second, so that a fraction of a second can be lost wherever the code loses it.
`Remaining` is the kernel's countdown; `Wait` and `Replace` are time and another program.
`Sample` and `Date` are a dump and its `observed_at`, which `inventory` takes afterwards;
`WriteElsewhere` is the rebasing of what is expected when another address was written, `WriteLifetime`
and `Acknowledged` a write of this one; `SampleAgain` and `Compare` the dump and the comparison of `verify_address_write`
(without a write in between, that of `validate_group`).
`Executor` has lifetimes as classes and leaves the outcome of this comparison open; `Lifetimes` says when
it comes out which way.

### Trees, Value, Schema, Codec, Prepare, Policy, Observation, Assignment and Documents

All but the last are the pure functions of `netfyr-state`, `netfyr-policy` and of the transport's
decoding, as operators:

* `Trees`: what the code does by recursive functions over schemas, values and YAML, without recursive operators,
  which cannot be reasoned about.  `Reached` is the set of nodes of a tree, by a function of the depth, so that "for
  every node" is a quantifier; `OfTree` makes something of a tree bottom-up, by a function of its nodes.  A
  step of the recursion is an operator of its own (`Modelled`, `Written`, `Stripped`, `Taken`, `NodeViolations`).
  `MaxDepth` bounds how deep a tree is; the run has 5, and no value or schema in it is deeper than 4.
* `Value`: values, ordered maps, matches, states (`value.rs`, `state.rs`, `match_spec.rs`, `source.rs`).
* `Schema`: the three fragments, the flat field map derived from each tree, `add_schema_node`
  with its walk *in place* (`Graft` keeps the objects that a refused walk has made, as the code does),
  validation as the set of violations (what a caller asks is whether there are any), removal of read-only fields.
* `Codec`: `from_yaml`, `decode_yaml` and the two forms of `to_yaml`, with every error.
* `Prepare`: `prepare_for_apply`.  `Policy`: providers, loading, the set, `produce`.
* `Observation`: what `inventory` makes of attributes, ethtool answers and address records.
* `Assignment`: `decode` of the executor, for scalar fields.

`Documents` is the program that uses them, with a disk and a user: `Extend` (add a schema node),
`Query` (write what the kernel shows), `Edit` and `Handwrite` (the user), `Decode` or `Observe`,
`PrepareStates`, `Save`, `Load`, `Insert`, `ProduceFromSet`, `Finish`.

Abstractions.  Texts are uninterpreted: which of them parse as a network, what a network prints as
and which are equal in lower case are constants (`Cidr`, `Canonical`, `LowerCase`); several texts may be one network.
YAML text itself is serde_yaml's: a file is a tree, or one of the ways in which it is none
(unreadable, empty, malformed, several documents).  Identifiers and times of metadata, pointers into
mappings and the wording of errors are left out; an error is its kind.  A directory is its entries in lexical order;
which are hidden, symbolic links or no YAML files are attributes of the entries.  What a query finds is any of
`Inventories`, as far as `InventoryAssumption` allows (section 5).

## 3. Runs

Bounds limit how often something may happen, never what happens; they are
the constants named `Max...`.  Runs that "fail" show a disagreement between the code and a
text of the repository (section 6).

| Run | Question | Bounds, and why they are enough |
|---|---|---|
| `transport` | Is anything ever attributed to another incarnation of a link? Does the invariant of the proofs hold? | one index, two names, three incarnations (predecessor, planned link, successor), three tokens, one lost notification. Other indices only share the queue; the proofs cover any number. |
| `executor_quiet` | Alone with the kernel, does a plan do what it says? | every plan of two address operations and every rebuild of a group in three, four address lists (empty, alone, primary with secondary, two groups), plans with scalar and refused operations, both values of `promote_secondaries`, cancellation at any moment. Cascades need two addresses of a group; an authorised cascade needs two removals. |
| `executor_hostile` | What may go wrong when others interfere? Does the executor refine `PlanExecution`, and end? | plans with rebuilds, cascades and dependencies, lists with peers, one change by another program and one failing round trip, at any moment. |
| `worker` | Is what callers are told true? Does every call return? | a plan of two operations, a dry run and a query, two handles, a channel with room for one (16 in the code) so that it is full, one timeout, one notification waiting, a stop at any moment. |
| `lifetimes` | Is passing time ever taken for a change, or a change for passing time? | two ticks a second, so that every truncation can lose half a second; requested lifetimes 0, 1, endless and one less; four seconds, in which the others run out before, between and after the dumps; any change at any moment. The proofs cover every resolution, bound and duration. |
| `documents` | What happens to a state on its way between the kernel, files, an editor and policies? | six devices (loopback, ethernet with addresses, a bridge with its port's address, wireless, veth with duplicates, one with a damaged attribute) and one that cannot be read, states of other backends, ten extensions (of which six are refused, each for another reason), nine edits, 23 documents for four files (hidden, two that contend for a name, the query file), two changes of files, one extension, two loads into one set. Two changes give every pair of an edit with a query and of two documents. |
| `registry` | Who sees and who gets what? | two backends in one namespace with two links, a third in another with one, any registration order, two calls (identities come from the first, the second uses them), one change of a link at any moment. |
| `executor_promotion`, `executor_drop`, `executor_blocked`, `worker_blocked`, `registry_stale` | section 6 | the smallest instance that shows it |

Distinct states: `transport` 1.2 million, `executor_quiet` 0.39 million,
`executor_hostile` 0.27 million, `worker` 0.2 million, `registry` 2 million,
`lifetimes` 2 million, `documents` 73 thousand (with large states); each takes between half a minute and two and a half minutes with two workers.

Deadlock is checked except in `worker`, where calls are finite and the system
stops when all have returned and the handles are gone, and in `lifetimes` and `documents`,
where time and changes are bounded and the comparison, or the program, comes to its end.
TLC's integers have 32 bits: `documents` has 70000 for `u32::MAX` (above the range of an MTU, with
numbers tested on both sides) and -1000..1000 for the range of a priority; `lifetimes` has 6 for `u32::MAX`.  `registry` uses
symmetry in names and in the two indices of the first namespace; its properties
are safety properties.

What the properties say:

* `TokenNamesOneIncarnation`: two identities with the same index and token are the same link.
* `ObservationIsCoherent`: an inventory returns links with addresses of the same incarnation.
* `RecordMatchesTarget`, `WriteFollowsConfirmation`: the message is built from
  records of the target, and submitted after the kernel answered for the target.
* `MisdirectedWriteIsNoticed`: if the link was replaced after its confirmation and the write
  hit the new one, the token of the target is gone when the acknowledgement is processed.
* `NoCollateralLoss`, `DestroysOnlyAKnownGroup`, `ErrorsBeforeTheWrite`,
  `NothingWrittenLater`, `QuietWritesVerify`, `SuccessReachesThePlan`,
  `ImplementsPromise`, `EveryOperationReported` (executor).
* `DisconnectedMeansUnwritten`, `FailedIsNeverWritten`, `AtMostOneWriteAfterDrop`,
  `EveryCallReturns`, `NamespaceIsReleased` (worker).
* `TimeAloneMatches`: an address that nobody touched is found as expected; `ChangesAreSeen`: a
  lifetime that was accepted is within three seconds of what the old one had come to, and never endless
  when that was not.  Both for dumps whose delays differ by at most a second (`Prompt`): a dump is dated after
  its samples, and the code allows one second beyond the truncated range.
* `QuerySurvivesTheFile`, `UneditedQueryApplies`: what a query wrote decodes to what the kernel said, and applies.
* `PreparedSelectsItsDevice`: after edits a state still selects the device it was observed on.
* `NothingDroppedSilently`: what is kept stays in its order, and the warnings are those of what is lost: state by
  state, in the order of the fields, one for each field dropped, none for what is kept.  A warning names a path
  and not a state, so they are matched in turn with the leaves that each state lost.
* `PreparedIsFinal`, `SavedPoliciesAreStable`: preparing and saving are idempotent, whichever field selects.
* `EveryDocumentIsOnePolicy`, `LoadedPoliciesProduce`, `NothingLostInProduction`: from files to policies to
  static states and declarations of providers; every leaf of a policy goes to one of them, states and providers come
  in the order in which the policies were inserted, and the providers of one policy in the order of its fields.
* `ExtensionsOnlyAdd`: a refused extension changes nothing, one that is made refuses nothing that was
  accepted, and the flat map of fields stays that of the tree.
* `ExecutorAgreesWithTheSchema`: what the executor writes of a document is what the schema accepts.
* `OwnersAreUnique`, `QuietLinksAreAsTheirOwnersSeeThem`, `RoutedPlansFit` (registry).

Every property of a passing run has a mutant: a definition with a plausible mistake (`...Backwards`,
`...ByAny`, `...Anyway`, defined before the operator it is a variant of), for which TLC finds the property violated.

A scalar write that hits another link is not noticed by the executor, which
observes again only after address writes; the transport's `MisdirectedWriteIsNoticed` says that
the next observation would show it.  No text of the repository promises more.

What the modelling of documents showed about the code, and is no property:

* The kernel reports an MTU of 65536 for the loopback device, and the base schema ends at 65535.  A query result
  that contains it can be written but is refused as a whole when it is read or prepared.
  `MtusAllowed` is the condition of the two properties concerned; a loopback device is among the inputs.
* An empty mapping, as `ipv4: {}`, is dropped by preparation without a warning.
* The keys `1` and `"1"` of a mapping become one key, as a number takes its text, and the later value stays.
* A dump delayed by over a second more than the next one makes a lifetime that only ran down look
  like a change; the operation is refused as stale, nothing is written, and a new plan succeeds.

## 4. Fairness

* `Executor!FairSpec`: weak fairness of `Run`.  The worker's thread is scheduled,
  and every round trip ends, as the transport limits each request in time.  The caller and
  other programs have no fairness.
* `Worker!FairSpec`: weak fairness of the start, of `open`'s return and time limit, of
  `Accept`, `Take`, `Serve`, `LoopEnds`, `NextNotification` and of each caller's
  waking.  `select!` chooses at random among its ready branches, so neither requests nor
  notifications are passed over for ever; the channel's semaphore is fair.  Nothing is
  assumed of late writes, drops of futures or handles, notifications and the unexpected stop.
* Transport, Registry, Lifetimes and Documents are checked for safety only.

## 5. Proofs

`TransportProofs` proves, for any sets of indices and names and any bounds
(assumption `TransportAssumption`: there is a name, bounds are natural numbers):

| Theorem | States |
|---|---|
| `TypeCorrect` | `Spec => []TypeOK` |
| `InvariantHolds` | `Spec => []IInv` |
| `TokensAreUnambiguous` | `Spec => []TokenNamesOneIncarnation` |
| `RecordsAreOfTheTarget` | `Spec => []RecordMatchesTarget` |
| `MisdirectionIsNoticed` | `Spec => []MisdirectedWriteIsNoticed` |
| `WritesAreConfirmed` | `Spec => WriteFollowsConfirmation` |
| `ObservationsAreCoherent` | `Spec => ObservationIsCoherent` |

The properties are not inductive: they hold because the news of a deletion is
always somewhere.  `IInv` says where.  `AliveOrPending`: a current token is of
the link that lives at its index, or the news of its end is in the channel or in the
socket.  `ReplyIsOrdered`: the same of what a reply says, with the news *ahead of* that
reply, so that it is recorded before the reply is used; this is what makes
"drain, then compare" sound.  `DumpIsGuarded`: if a link of the link dump has been
deleted, the epoch has moved since the inventory began or is about to; this is
what makes the final epoch check sound, though it looks at a counter and not at links.
`OneReply`, `ClosedIsKnown`, `TokensAreDrawn`, `DevicesAreDumped`,
`RecordsAreCurrent` are the bookkeeping these need.  The proof has lemmas about
queues of notifications (appending, taking off, forwarding, overruns), one about each action of
`Next`, and `InvariantStep`, which combines them.

`LifetimesProofs` proves, for every number of ticks in a second, every `Forever`, every set of
requested lifetimes up to it and unbounded time (assumption `LifetimesAssumption`):

| Theorem | States |
|---|---|
| `TypeCorrect` | `Spec => []TypeOK` |
| `Consistent` | `Spec => []Inv` |
| `TimePasses` | `Spec => []TimeAloneMatches` |
| `ChangesSeen` | `Spec => []ChangesAreSeen` |

`Inv` says that what is expected is what the kernel told at the moment `from`, decayed by the
`moved` seconds of rebasing, and that what is found is what the kernel tells at `again`.  The two properties
are then arithmetic: `Division` and `Multiples` bound a truncated quotient, `RunsDown` says how far a lifetime
runs down between two moments of the kernel's clock (by the truncated duration or one second more, or to zero), and
`NearEnough` and `Comparison` carry that over to the range that `lifetime_matches` allows, with the slack of the
dumps.  `Endless` is the case of `u32::MAX`.

`ListProofs` has what the proofs about address lists and documents rest on and states no property.  The library's induction theorems take an
operator as a parameter; here induction is over *sets*: `LeastElement` and `UpTo` for numbers, and `AllSequences`: a set
that has the empty sequence, and each of its members with any element appended, has all sequences.  From these come the lemmas about
`Only`: that its function exists (`SelectsExists`, `OnlySelects`), what it makes of a longer list (`OnlyAppend`) and of a
concatenation (`OnlyConcat`), which elements it has (`OnlyType`), that selecting twice selects once (`OnlyOnly`), that it
keeps elements apart (`OnlyApart`), and when it keeps everything, nothing or all but the first (`OnlyAll`, `OnlyNone`, `OnlyTail`).

`ExecutorProofs` and `AddressProofs` prove, for any plans, links, addresses, peers and bounds on what others do and on failures
(assumption `ExecutorAssumption`: operations have the shape of `Operation`, `Unmanaged` are links, and the address lists are such as the
kernel keeps, `KernelList`):

| Theorem | States |
|---|---|
| `InvariantHolds` | `Spec => []Inv` |
| `ErrorsAreBeforeTheWrite` | `Spec => []ErrorsBeforeTheWrite` |
| `NothingIsWrittenLater` | `Spec => []NothingWrittenLater` |
| `PromiseImplemented` | `Spec => ImplementsPromise` (the refinement of `PlanExecution`) |
| `TypesHold` | `Spec => []TypeOK` |
| `AddressInvariantHolds` | `Spec => []AddressInv` |
| `NothingIsLostByCascade` | `Spec => []NoCollateralLoss` |
| `SuccessIsThePlan` | `Spec => []SuccessReachesThePlan` |
| `OnlyKnownGroupsAreDestroyed` | `Spec => DestroysOnlyAKnownGroup` |
| `PlainWritesVerify` | `NoPeers => (Spec => QuietWritesVerify)` |

The first four are about control and look into no address list.  Each step of the executor is first shown to be one of
three moves: it gives the operation in turn an outcome (`Gives`), looks at it further (`Advances`), or the kernel
carries it out (`Reaches`); `RunMoves` combines those lemmas.  The invariant and the refinement are
then shown of moves: `Reaches` and `Gives` are the two actions of `PlanExecution`, `Advances` stutters.
`Inv` is needed because neither property is inductive: `InTurn` remembers across the round trips that the dependencies were carried out,
`OnItsWay` that the device was one to manage (so that verification has no other errors) and when the caller gave up,
`ReachedInTurn` that nothing reaches the kernel ahead of its turn.

The others are about the lists.  `Typed` adds to the types that lists are the kernel's (`KernelLike`) and that the
message is for the operation in turn; `Inserted`, `Deleted` and `Relabelled` say what the kernel's three changes make of a list.
Three invariants follow, each over `Typed`:

* `AddressInv`.  `Fresh`: an observation since which nobody intervened is what the kernel has.  `Decided`: the
  message then names an entry of the link, and a primary is only removed when the plan goes on to remove the secondaries it takes along; this
  carries `check_cascade`'s decision over the confirmation's round trip to the write, and with it `NoCollateralLoss`.
  `OnCourse`: with nobody around and no failure so far, a link has the addresses intended by then, but for some that a cascade
  took ahead of their own removal.  `CourseAdvances` is its step; at the end of the plan no removal is left, which is `SuccessReachesThePlan`.
* `Known`, whoever intervenes.  A group that was not validated yet has a history of nothing but what the planner
  saw (`AsPlanned`); what is expected of a validated one (`groups`), and of one that is being written (`predicted`), is what the
  history has of it, but for what the plan removes (`Expected`, `Predicted`).  `Projections` is the core: if two lists agree but for
  what the plan removes, so does what is expected of them after the same write.
  `Comparison` carries that through `verify_address_write`, which forgives a promotion and what a cascade took.
* `Foreseen`, for links without peers.  The message is for the group of its address (`Messaged`), and after the write
  the comparison succeeds (`Verified`).  `AdditionAgrees`, `ReplacementAgrees` and `RemovalAgrees` show it of the three writes:
  an addition goes to the end or alone between primaries and secondaries, and a removal leaves the rest of its group, takes
  along what is removed later, or has the first of the rest promoted (`PlainDelete`, `RemovalExpected`).
  `NoPeers` is a condition and no assumption: with peers the property is false, which is the finding of `executor_promotion`.

`WorkerProofs` proves, for any handles, calls and plans and any capacity (assumption `WorkerAssumption`: plans,
kinds and owners have their types, and bounds are numbers):

| Theorem | States |
|---|---|
| `TypeCorrect` | `Spec => []TypeOK` |
| `InvariantHolds` | `Spec => []Inv` |
| `DisconnectedIsUnwritten` | `Spec => []DisconnectedMeansUnwritten` |
| `FailedIsUnwritten` | `Spec => []FailedIsNeverWritten` |
| `OneWriteAfterDrop` | `Spec => []AtMostOneWriteAfterDrop` |

`OnePlace` says that a request is in at most one of three places: waiting for room, in the channel, being served.  From
it follows `NothingEarly`: what nobody served yet is unanswered and unwritten, which is why the
two ways of losing the worker before that may say so.  `Truth` extends the properties to the report being
made and the answer on its way, and `Carried` to writes that are late.  `Bounded` counts: late writes
are no more than timeouts, and a dropped future has one write more, which the served request uses up when it
submits.  The lemmas before the actions are about queues without repetition.

`RegistryProofs` proves, for any backends, types, namespaces and links (assumption `RegistryAssumption`, among it
that a link is a namespace and an index, and that no backend is named like the absence of one):

| Theorem | States |
|---|---|
| `InvariantHolds` | `Spec => []Inv` |
| `OwnersUnique` | `Spec => []OwnersAreUnique` |
| `PlansFit` | `Spec => RoutedPlansFit` |
| `QuietLinksShown` | `Spec => QuietLinksAreAsTheirOwnersSeeThem` |

`Remembered` says that what lives during a call is in `present`, the history of the call; `ViewsAreTrue` that a view
holds only what was there; `QuietLinksAreSeen` that of a link that stayed as it is, each view of its namespace has just that;
`PlanIsTrue` carries this over to the observations of a plan and to the operations routed so far.  That the
registry takes the *first* suitable view or backend (`find`) needs that a set of indices has a least
one: `FirstExists`, from the well-foundedness of the natural numbers.

`DocumentsProofs` proves, for any files, documents, devices, edits, extensions and directories and any bounds (assumptions
`ValueAssumption`, `PolicyAssumption`, `DocumentsAssumption` and `InventoryAssumption`: networks print as a text that parses as them,
entries of a directory have paths of their own, what is read has the shape of YAML, an extension is a schema that ends within `MaxDepth`,
and what a query finds is described below):

| Theorem | States |
|---|---|
| `DocumentsTyped` | `Spec => []TypeOK` |
| `DocumentsArePolicies` | `Spec => []EveryDocumentIsOnePolicy` |
| `LoadedProduces` | `NumberedNamesAreNames => (Spec => []LoadedPoliciesProduce)` |
| `ExtensionsAdd` | `Spec => ExtensionsOnlyAdd` |
| `PreparedStatesAreFinal` | `Spec => []PreparedIsFinal` |
| `PreparedSelects` | `Spec => []PreparedSelectsItsDevice` |
| `ExecutorAgrees` | `Spec => []ExecutorAgreesWithTheSchema` |

The trees are reasoned about one level at a time.  What `OfTree` makes of a node is what one step makes of its parts, so `WellMade`
(files are YAML, states have fields that are values) needs nothing below the first level; where a whole tree matters, as in a schema,
it is a *set* of nodes that is closed under children (`Growing`): `GraftGrows` shows that an extension leaves such a set, and
`GrowingIsValid` that every node reached in one has a type.  The invariants:

* `Counted`, for the policies: `Outcome` says that a load has one policy for each document up to a file, with distinct names, or failed;
  the lemmas go from one file to the directory by the sets of `UpTo`, and `InsertUnique` is the set of policies.
* `LoadedFit`: a loaded policy was made of a state that the provider schemas accept as writable and that has a match.  `FitProduces` shows that
  production then refuses it only when it is empty.  `NumberedNamesAreNames` is a condition on text, that
  `name-1` is no empty name, which the provers cannot compute.
* `WellTyped`: `RegistryMade`, what a registry is whatever was added to it.
* `KeptSinceTheStart`: of the roots that the program brings, a property that is no object is what it was, and so are what is required and whether
  others are allowed.  With `DeviceClosed` (a device has fields of the embedded schemas only) and `SameValidation` it follows
  that an extension does not change what validation finds in a device, which is `ExtensionsAdd`.
* `PreparedStays`: what was prepared is writable as a whole and not `Observed`, so that a second preparation finds nothing to do.
* `Following`, for the match of a device, in four places in turn.  What a query finds is `Identified`: its match is of the fields it
  shows (`DeviceIdentified`).  The query file `Tracks` it: whatever was edited, an entry for the name, the MAC address or the type that was not touched
  is the text of the match (`RenderTracks`, `FileEdited`).  What is decoded of the file `Shows` it: these texts are read
  as they are, since no extension makes networks of the two fields (`MatchSchema`), and there is no other match (`DecodeYamlShows`).
  What is prepared is `Selecting` it (`PrepareStateSelects`), by the field that selects and the type.

`InventoryAssumption` is what the kernel and backends of other crates are trusted with, and the code does not check: the kind of a link is not the empty
text, a state that another crate reports has the match of what it shows, and no two devices of one query have one name.
`ExecutorAgrees` needs no invariant but `WellMade`: `AssignmentAgrees` compares the executor's decoding with validation for one field.

Only model-checked:

* `QuerySurvivesTheFile`, `UneditedQueryApplies` and `SavedPoliciesAreStable`: that reading undoes writing for *every*
  value and schema is an induction over trees of data;
* `NothingDroppedSilently` and `NothingLostInProduction`: they are about the leaves of those trees at any depth;
* `QuietWritesVerify` with peers, of which the runs show where it holds and where it does not;
* the liveness properties, as TLAPS does not reason about fairness here.

Invariants were themselves checked by TLC before they were proved: `AddressInv` and `Known` on the instances of `executor_quiet` and
`executor_hostile`, `Foreseen` on rebuilds in three steps of groups of two and three addresses, and `WellMade`, `Counted`, `LoadedFit`,
`KeptSinceTheStart`, `PreparedStays` and `Following` on that of `documents`.

## 6. Findings

* `executor_drop`: `lib.rs:47` says that dropping the future stops before the
  next write.  The executor asks before it calls `execute`, which then waits
  for `confirm_identity`; a future dropped during that round trip does not stop the write.
* `executor_promotion`: `executor.rs:756` expects the first survivor of the *local*
  prefix group to be promoted.  The kernel promotes the first secondary of its own
  group; with a peer address in between, a write that went as planned is reported
  as "addresses changed unexpectedly during the write".
* `executor_blocked`: `executor/tests.rs:1135` is named for the rule that a removal
  blocked by its dependencies cannot authorise a cascade.  It can when the dependency
  has not been carried out *yet* and fails later.
* `worker_blocked`: `report.rs:109` says that a blocked operation's dependencies failed or were
  blocked.  The report made up when the worker is lost says so of operations whose dependencies, and
  which themselves, were carried out.
* `registry_stale`: `registry.rs:43` says that the type owner's view of each device is
  kept.  When the owner looked at another moment and did not see the device, another backend's view is
  returned, under a token the owner never issued.

## 7. Not modelled

* Framing of netlink messages, extended acknowledgements, the ioctls of ethtool, driver and
  wireless detection, `RoutePacket`: byte-level I/O against external crates and the kernel.  What is made of
  their results is `Observation`.
* The `deprecated` flag at the moment a preferred lifetime ends, which the kernel sets with its own timer.
* `Fragment::fields` as an ordered list, identifiers and times of metadata, YAML as text.
* Diagnostics and the wording of errors.
* Integration tests and scripts.

## 8. Plan

Done: all modules, and proofs of every safety property that a run checks but those named at the end of section 5.  Worth adding next:

1. The round trip of one value through YAML as a theorem, by sets of nodes closed under parts as `Growing` is for
   schemas; from it the three properties of section 5 that wait for it.
2. Preview and apply: whether a dry run's report is the one `apply` gives when nobody interferes.
3. `Executor` with lifetimes as `Lifetimes` has them, instead of classes, for plans with one address.
4. Several requests of `Transport` with the handle's timeouts, composed with `Worker`.
