------------------------------ MODULE Documents ------------------------------
(***************************************************************************)
(* How states travel between the kernel, files and policies.  A program     *)
(* with a schema registry, which extensions may add to, writes what a query *)
(* observed to a file; a user edits it or writes another; programs decode   *)
(* the files, prepare the states for apply, save them as policies, load the *)
(* policy directory, collect the policies and produce from all of them.     *)
(***************************************************************************)
EXTENDS Policy, Assignment

CONSTANTS
  Inventories, \* [devices, foreign]: what a query may find, and the states
               \* that backends of other crates report with it
  Handwritten, \* [file, document]: files a user may write
  Edits,       \* [key, val]: new values of a key, Removed to remove it
  Extensions,  \* [fragment, path, node]: schema nodes of other crates
  QueryFile,   \* the file that query results are written to
  MaxChanges,  \* bound: changes of files
  MaxExtensions,
  MaxLoads     \* bound: directories loaded by one program

File == {Directory[i].file : i \in DOMAIN Directory}

ASSUME DocumentsAssumption ==
  /\ QueryFile \in File
  /\ \A inventory \in Inventories :
       /\ IsList(inventory.devices) /\ StatesMade(inventory.foreign)
       /\ \A i \in DOMAIN inventory.devices : DeviceMade(inventory.devices[i])
  /\ \A h \in Handwritten : FileMade(h.document)
  /\ \A edit \in Edits : YamlMade(edit.val)
  /\ \A ext \in Extensions : IsList(ext.path) /\ SchemaMade(ext.node)
  /\ MaxChanges \in Nat /\ MaxExtensions \in Nat /\ MaxLoads \in Nat

Absent == [absent |-> TRUE]
Removed == [removed |-> TRUE]
Nothing == [states |-> <<>>]
FieldsOfMatch == {"name", "mac"}

VARIABLES
  registry, \* the schema registry of the program
  refused,  \* the error of the last extension, "none" if there was none
  disk,     \* file -> its content
  phase,    \* what the program has done
  observed, \* states it decoded or observed
  outcome,  \* of preparing them
  by,       \* the field that selects devices
  loaded,   \* the policies loaded
  next,     \* the policy to insert next
  set,      \* the policy set
  output,   \* of producing from it
  \* history
  origin,   \* the kernel states that the query file was written from
  touched,  \* the keys of it that were edited since
  changes, extended, loads

program == <<phase, observed, outcome, by, loaded, next, set, output>>
files == <<disk, origin, touched, changes>>
schema == <<registry, refused, extended>>
vars == <<schema, files, program, loads>>

-----------------------------------------------------------------------------
(* The schema is extended while the program starts. *)

Extend(ext) ==
  /\ changes = 0 /\ phase = "idle" /\ extended < MaxExtensions
  /\ extended' = extended + 1
  /\ LET added == AddSchemaNode(registry, ext.fragment, ext.path, ext.node)
     IN  registry' = added.registry /\ refused' = added.error
  /\ UNCHANGED <<files, program, loads>>

-----------------------------------------------------------------------------
(* Files. *)

Change == phase = "idle" /\ changes < MaxChanges /\ changes' = changes + 1

\* Other backends report what they have registered a schema for.
Reported(states) == \A i \in DOMAIN states : Validate(registry, states[i]) = {}

\* What a query finds, if it can read every device.
QueryFails(inventory) ==
  \E i \in DOMAIN inventory.devices : InventoryFails(inventory.devices[i])
QueryStates(inventory) ==
  [i \in DOMAIN inventory.devices |-> DeviceState(inventory.devices[i])] \o inventory.foreign

\* A query result is written to a file.
Query(inventory) ==
  LET states == QueryStates(inventory)
  IN  /\ Change /\ disk[QueryFile] = Absent
      /\ ~QueryFails(inventory) /\ Reported(inventory.foreign)
      /\ disk' = [disk EXCEPT ![QueryFile] = ToYamlQuery(registry, states)]
      /\ origin' = states /\ touched' = {}
      /\ UNCHANGED <<schema, program, loads>>

\* The match of a kernel state is of what the state shows, and has its type.
Identified(state) ==
  /\ state.source = Kernel /\ state.device_type # ""
  /\ "type" \in DOMAIN state.match /\ state.match["type"] = state.device_type
  /\ \A e \in ToSet(state.fields) : e.key \in FieldsOfMatch =>
       e.key \in DOMAIN state.match /\ e.val = Str(state.match[e.key])
\* No two of them have one name.
Distinguished(states) ==
  LET named == {i \in DOMAIN states : "name" \in DOMAIN states[i].match}
  IN  \A i, j \in named : states[i].match["name"] = states[j].match["name"] => i = j

\* What the kernel and the backends of other crates say of devices: a kind is
\* a word, the match is of what they show, and a name is of one device.
ASSUME InventoryAssumption ==
  \A inventory \in Inventories :
    /\ \A i \in DOMAIN inventory.devices :
         \A a \in ToSet(inventory.devices[i].link.attributes) : Is(a, "kind") => a.kind # ""
    /\ \A i \in DOMAIN inventory.foreign : Identified(inventory.foreign[i])
    /\ ~QueryFails(inventory) => Distinguished(QueryStates(inventory))

Edited(mapping, edit) ==
  IF edit.val = Removed THEN Without(mapping, Text(edit.key))
  ELSE With(mapping, Text(edit.key), edit.val)

\* The user edits one document of the query file.
Edit(i, edit) ==
  /\ Change /\ origin # <<>>
  /\ LET file == disk[QueryFile]
     IN  \/ /\ Is(file, "map") /\ i = 1
            /\ disk' = [disk EXCEPT ![QueryFile] = Mapping(Edited(file.map, edit))]
         \/ /\ Is(file, "seq") /\ i \in DOMAIN file.seq /\ Is(file.seq[i], "map")
            /\ disk' = [disk EXCEPT ![QueryFile].seq[i] = Mapping(Edited(file.seq[i].map, edit))]
  /\ touched' = touched \cup {edit.key}
  /\ UNCHANGED <<schema, program, loads, origin>>

\* The user writes a file.
Handwrite(file, document) ==
  /\ Change /\ registry = ProviderRegistry /\ disk[file] = Absent
  /\ disk' = [disk EXCEPT ![file] = document]
  /\ origin' = IF file = QueryFile THEN <<>> ELSE origin
  /\ UNCHANGED <<schema, program, loads, touched>>

-----------------------------------------------------------------------------
(* The program. *)

\* States come from a file, as query result, as policies or as candidates that
\* are not validated, or from the kernel itself.
Decode(mode) ==
  /\ phase = "idle" /\ disk[QueryFile] # Absent
  /\ ~Is(disk[QueryFile], "unreadable")
  /\ observed' = IF mode = "candidate" THEN FromYaml(registry, disk[QueryFile])
                 ELSE DecodeYaml(registry, disk[QueryFile], mode)
  /\ phase' = IF IsError(observed') THEN "failed" ELSE "observed"
  /\ UNCHANGED <<schema, files, outcome, by, loaded, next, set, output, loads>>

Observe ==
  /\ phase = "idle" /\ origin # <<>> /\ touched = {}
  /\ observed' = [states |-> origin]
  /\ phase' = "observed"
  /\ UNCHANGED <<schema, files, outcome, by, loaded, next, set, output, loads>>

PrepareStates(field) ==
  /\ phase = "observed"
  /\ by' = field
  /\ outcome' = PrepareForApply(registry, observed.states, field)
  /\ phase' = "prepared"
  /\ UNCHANGED <<schema, files, observed, loaded, next, set, output, loads>>

\* What was prepared is saved in the policy form, in place of the query.
Save ==
  /\ phase = "prepared" /\ ~IsError(outcome)
  /\ disk' = [disk EXCEPT ![QueryFile] = ToYamlPolicy(registry, outcome.states)]
  /\ phase' = "saved"
  /\ origin' = <<>> /\ touched' = {}
  /\ UNCHANGED <<schema, changes, observed, outcome, by, loaded, next, set, output, loads>>

\* The policy directory is loaded; what is in the set already stays there.
Load(field) ==
  /\ phase \in {"idle", "collected"} /\ loads < MaxLoads
  /\ registry = ProviderRegistry
  /\ loads' = loads + 1 /\ by' = field /\ next' = 1
  /\ loaded' = LoadPolicyDir(disk, field)
  /\ phase' = IF IsError(loaded') THEN "failed" ELSE "loaded"
  /\ UNCHANGED <<schema, files, observed, outcome, set, output>>

\* Policies are inserted one by one.
Insert ==
  /\ phase = "loaded"
  /\ IF next > Len(loaded.policies) THEN phase' = "collected" /\ UNCHANGED <<next, set>>
     ELSE IF InsertError(set, loaded.policies[next]) # "none"
     THEN phase' = "failed" /\ UNCHANGED <<next, set>>
     ELSE /\ set' = Append(set, loaded.policies[next])
          /\ next' = next + 1
          /\ UNCHANGED phase
  /\ UNCHANGED <<schema, files, observed, outcome, by, loaded, output, loads>>

ProduceFromSet ==
  /\ phase = "collected"
  /\ output' = ProduceAll(set)
  /\ phase' = IF IsError(output') THEN "failed" ELSE "produced"
  /\ UNCHANGED <<schema, files, observed, outcome, by, loaded, next, set, loads>>

\* The program ends, and may be started again.
Finish ==
  /\ phase \in {"failed", "prepared", "saved", "collected", "produced"}
  /\ phase' = "idle"
  /\ observed' = Nothing /\ outcome' = Nothing /\ by' = "name"
  /\ loaded' = NoPolicies /\ next' = 1 /\ set' = <<>> /\ output' = Nothing
  /\ loads' = 0
  /\ UNCHANGED <<schema, files>>

-----------------------------------------------------------------------------
Init ==
  /\ registry \in {EmbeddedRegistry, ProviderRegistry} /\ refused = "none"
  /\ disk = [f \in File |-> Absent] /\ origin = <<>> /\ touched = {}
  /\ phase = "idle" /\ observed = Nothing /\ outcome = Nothing /\ by = "name"
  /\ loaded = NoPolicies /\ next = 1 /\ set = <<>> /\ output = Nothing
  /\ changes = 0 /\ extended = 0 /\ loads = 0

Next ==
  \/ \E ext \in Extensions : Extend(ext)
  \/ \E inventory \in Inventories : Query(inventory)
  \/ \E i \in 1 .. 2, edit \in Edits : Edit(i, edit)
  \/ \E h \in Handwritten : Handwrite(h.file, h.document)
  \/ \E mode \in {"query", "policy", "candidate"} : Decode(mode)
  \/ Observe
  \/ \E field \in FieldsOfMatch : PrepareStates(field)
  \/ Save
  \/ \E field \in FieldsOfMatch : Load(field)
  \/ Insert
  \/ ProduceFromSet
  \/ Finish

Spec == Init /\ [][Next]_vars

-----------------------------------------------------------------------------
(* Properties. *)

\* The values at the ends of a map, each with its path, in the order of the
\* document.  An empty map or list is such an end.
PartsOfLeaf(leaf) ==
  LET value == leaf[2]
  IN  IF Is(value, "map")
      THEN [i \in DOMAIN value.map |->
              <<Append(leaf[1], value.map[i].key), value.map[i].val>>]
      ELSE IF Is(value, "list")
      THEN [i \in DOMAIN value.list |-> <<Append(leaf[1], ToString(i - 1)), value.list[i]>>]
      ELSE <<>>
EndsOf(leaf, ends) == IF ends = <<>> THEN <<leaf>> ELSE FlattenSeq(ends)
Leaves(value, path) == OfTree(EndsOf, PartsOfLeaf, <<path, value>>)
LeavesOf(fields) == IF fields = <<>> THEN <<>> ELSE Leaves(Map(fields), <<>>)
LeavesBelow(leaves, path) == SelectSeq(leaves, LAMBDA leaf : IsPrefix(path, leaf[1]))

\* The kinds of the variables.
TypeOK ==
  /\ \A i \in DOMAIN registry : ValidNode(registry[i].root)
  /\ refused \in {"none", "Malformed", "EmptyPath", "Collision", "UnknownFragment",
                 "NotAnObject", "Exists"}
  /\ DOMAIN disk = File
  /\ phase \in {"idle", "failed", "observed", "prepared", "saved", "loaded", "collected",
               "produced"}
  /\ by \in FieldsOfMatch
  /\ changes \in 0 .. MaxChanges /\ extended \in 0 .. MaxExtensions /\ loads \in 0 .. MaxLoads
  /\ next \in 1 .. 1 + (IF IsError(loaded) THEN 0 ELSE Len(loaded.policies))

(* What a query wrote. *)

Unedited == origin # <<>> /\ touched = {}

\* No MTU is beyond the range of the schema, as that of the loopback device is:
\* a result with one is refused as a whole when it is read or prepared.
MtusAllowed ==
  \A state \in ToSet(origin) :
    "mtu" \in Keys(state.fields) => MtuAllowed(At(state.fields, "mtu").u64)

\* A query result that nobody edited decodes, and says what the kernel said:
\* the same device type and the same fields in the same order, and a match
\* that the device still matches (yaml.rs and decode_yaml).
QuerySurvivesTheFile ==
  Unedited /\ MtusAllowed =>
    LET again == DecodeYaml(registry, disk[QueryFile], "query")
    IN  /\ ~IsError(again) /\ Len(again.states) = Len(origin)
        /\ \A i \in DOMAIN origin :
             /\ ContentEq([again.states[i] EXCEPT !.match = NoMatch],
                          [origin[i] EXCEPT !.match = NoMatch])
             /\ again.states[i].match # NoMatch
             /\ Matches(again.states[i].match, origin[i].match)

\* What a query wrote or observed, unedited, is accepted by apply: its
\* read-only fields are warnings, never errors (prepare_for_apply), if every
\* device has the field to match it by.
UneditedQueryApplies ==
  (/\ phase = "prepared" /\ Unedited /\ MtusAllowed
   /\ \A i \in DOMAIN observed.states : by \in Keys(observed.states[i].fields))
  => ~IsError(outcome)

\* A prepared state selects the device it was observed on, and by name no
\* other, whatever was edited but the field that selects, the type and the
\* match: a query result is never matched by what its match said before.
PreparedSelectsItsDevice ==
  (/\ phase = "prepared" /\ ~IsError(outcome) /\ origin # <<>>
   /\ touched \cap {by, "type", "match"} = {})
  => \A i \in DOMAIN origin :
       /\ Matches(outcome.states[i].match, origin[i].match)
       /\ by = "name" => \A j \in DOMAIN origin :
            Matches(outcome.states[i].match, origin[j].match) => j = i

(* Preparing. *)

\* What is lost of the i-th state, in order: what is no longer in it, but the
\* field that selects the device now.  A map with nothing in it may go without
\* a warning.
LostOf(i) ==
  LET prepared == outcome.states[i]
      kept == ToSet(LeavesOf(prepared.fields))
  IN  SelectSeq(LeavesOf(observed.states[i].fields), LAMBDA leaf :
        /\ leaf \notin kept
        /\ leaf[1] = <<by>> /\ by \in DOMAIN prepared.match
             => leaf[2] # Str(prepared.match[by])
        /\ leaf[2] = Map(<<>>)
             => \E w \in ToSet(outcome.warnings) : IsPrefix(w, leaf[1]))
\* And of all states in turn.
AllLost ==
  FlattenSeq([i \in DOMAIN observed.states |->
    LET lost == LostOf(i) IN [n \in DOMAIN lost |-> [state |-> i, path |-> lost[n][1]]]])
Full(leaves) == SelectSeq(leaves, LAMBDA leaf : leaf[2] # Map(<<>>))

\* Every state is prepared; what is kept of it stays in its order; and the
\* warnings are those of what is lost, state by state and in the order of its
\* fields: each field dropped has one of its own and nothing kept has any
\* (prepare_for_apply; "one warning per dropped field, in field order").
NothingDroppedSilently ==
  (phase = "prepared" /\ ~IsError(outcome)) =>
    LET lost == AllLost
        warnings == outcome.warnings
        Warns(w, n) == w \in DOMAIN warnings /\ IsPrefix(warnings[w], lost[n].path)
        \* The warning of the n-th lost leaf: that of the one before if they are
        \* of one state and one field, the next otherwise.
        warnedBy[n \in 0 .. Len(lost)] ==
          IF n = 0 THEN 0
          ELSE IF n > 1 /\ lost[n].state = lost[n - 1].state /\ Warns(warnedBy[n - 1], n)
               THEN warnedBy[n - 1] ELSE warnedBy[n - 1] + 1
    IN  /\ Len(outcome.states) = Len(observed.states)
        /\ \A i \in DOMAIN observed.states :
             LET after == LeavesOf(outcome.states[i].fields)
             IN  Full(after) = Full(Only(LeavesOf(observed.states[i].fields), ToSet(after)))
        /\ \A n \in DOMAIN lost :
             /\ Warns(warnedBy[n], n)
             /\ LeavesBelow(LeavesOf(outcome.states[lost[n].state].fields),
                            warnings[warnedBy[n]]) = <<>>
        /\ warnedBy[Len(lost)] = Len(warnings)

\* Preparing what is prepared changes nothing and warns of nothing, whichever
\* field selects ("already prepared states are validated unchanged").
PreparedIsFinal ==
  (phase = "prepared" /\ ~IsError(outcome)) =>
    \A field \in FieldsOfMatch :
      PrepareForApply(registry, outcome.states, field)
        = [states |-> outcome.states, warnings |-> <<>>]

\* What is saved as policies decodes as policies, applies as it is, and is
\* written the same again (to_yaml_policy: its output is a fixed point).
SavedPoliciesAreStable ==
  phase = "saved" =>
    LET again == DecodeYaml(registry, disk[QueryFile], "policy")
    IN  /\ ~IsError(again)
        /\ ToYamlPolicy(registry, again.states) = disk[QueryFile]
        /\ PrepareForApply(registry, again.states, by) =
             [states |-> again.states, warnings |-> <<>>]
        /\ \A i \in DOMAIN again.states :
             /\ again.states[i].match = outcome.states[i].match
             /\ again.states[i].fields = outcome.states[i].fields

(* Policies. *)

DocumentsIn(file) ==
  CASE Is(file, "map") -> 1
    [] Is(file, "seq") -> Len(file.seq)
    [] OTHER -> 0
\* How many there are in the first n files.
DocumentsUpTo[n \in 0 .. Len(Directory)] ==
  IF n = 0 THEN 0
  ELSE DocumentsUpTo[n - 1]
         + (IF n \in Loadable(disk) THEN DocumentsIn(disk[Directory[n].file]) ELSE 0)

\* A load gives one policy for each document of each visible file, or nothing,
\* and their names, given, taken from a file or numbered, are distinct: none is
\* left out because it is invalid and none takes the place of another
\* (load_policy_dir and PolicySet::insert).
EveryDocumentIsOnePolicy ==
  /\ phase = "loaded" =>
       /\ Cardinality(Names(loaded.policies)) = Len(loaded.policies)
       /\ Len(loaded.policies) = DocumentsUpTo[Len(Directory)]
  /\ Cardinality(Names(set)) = Len(set)

\* A policy that was loaded produces, unless there is nothing in it: loading
\* refuses whatever production would (policy_from_mapping and produce).
LoadedPoliciesProduce ==
  phase = "loaded" =>
    \A p \in ToSet(loaded.policies) :
      LET produced == Produce(p)
      IN  IsError(produced) => produced.error = "EmptyPolicy" /\ p.fields = <<>>

\* The policy that an output is of, and where in it a provider is declared.
PolicyNamed(name) == CHOOSE i \in DOMAIN set : set[i].name = name
PlaceOf(declared) ==
  LET leaves == LeavesOf(set[PolicyNamed(declared.policy)].fields)
  IN  CHOOSE n \in DOMAIN leaves :
        /\ IsPrefix(declared.location, leaves[n][1])
        /\ \A m \in DOMAIN leaves : IsPrefix(declared.location, leaves[m][1]) => n <= m

\* States and providers of policies in the order in which these were inserted,
\* one state of a policy at most, and the providers of a policy in the order of
\* its fields.
InOrder(states, providers) ==
  /\ \A m, n \in DOMAIN states : m < n =>
       PolicyNamed(states[m].source[2]) < PolicyNamed(states[n].source[2])
  /\ \A m, n \in DOMAIN providers : m < n =>
       LET former == providers[m]  latter == providers[n]
       IN  \/ PolicyNamed(former.policy) < PolicyNamed(latter.policy)
           \/ former.policy = latter.policy /\ PlaceOf(former) < PlaceOf(latter)

\* Whatever a policy says goes to its static state or to the parameters of a
\* provider, and to one of them, in the order in which it is said; no trigger
\* stays static, the priority of a provider is its family's, and nothing else
\* is produced (produce and produce_all: "static contributions in policy
\* insertion order", "provider declarations in policy and field order").
NothingLostInProduction ==
  phase = "produced" =>
    /\ \A s \in ToSet(output.states) : \E p \in ToSet(set) : s.source = Static(p.name)
    /\ \A d \in ToSet(output.providers) : d.policy \in Names(set)
    /\ InOrder(output.states, output.providers)
    /\ \A p \in ToSet(set) :
         LET leaves == LeavesOf(p.fields)
             static == {s \in ToSet(output.states) : s.source = Static(p.name)}
             declared == {d \in ToSet(output.providers) : d.policy = p.name}
             left == SelectSeq(leaves, LAMBDA leaf :
                       \A d \in declared : ~IsPrefix(d.location, leaf[1]))
         IN  /\ left # <<>> => static # {}
             /\ \A s \in static :
                  /\ LeavesOf(s.fields) = left /\ s.match = p.match
                  /\ ValidateWritable(ProviderRegistry, s) = {}
             /\ \A d \in declared :
                  /\ Leaves(Map(d.params), d.location) = LeavesBelow(leaves, d.location)
                  /\ d.match = p.match /\ d.priority = (IF d.kind = "ra" THEN 25 ELSE 50)
             /\ \A trigger \in ToSet(Providers) :
                  LeavesBelow(left, <<trigger.domain, trigger.key>>) = <<>>

(* The registry. *)

\* States that can be met before an extension, without an open map in them, and
\* what may be written of them.
Known == {DeviceState(d) : d \in UNION {ToSet(i.devices) : i \in Inventories}}
WritablePart(reg, state) ==
  [state EXCEPT !.fields = RemoveReadOnlyFields(reg, @).left]

\* A refused extension changes nothing ("return an error without modifying the
\* registry", add_schema_node); one that is made only adds: what was valid
\* stays so, and what may be written may still be.  Afterwards the flat map of
\* fields, which the executor and prepare_for_apply ask, is that of the tree
\* which validation walks.
ExtensionsOnlyAdd ==
  [][extended' # extended =>
       /\ refused' # "none" => registry' = registry
       /\ \A state \in Known :
            /\ Validate(registry, state) = {} => Validate(registry', state) = {}
            /\ LET writable == WritablePart(registry, state)
               IN  ValidateWritable(registry, writable) = {} =>
                     ValidateWritable(registry', writable) = {}
       /\ \A i \in DOMAIN registry' :
            registry'[i].fields = DerivedFields(registry'[i].root)]_vars

(* The executor. *)

\* The MTU and the administrative state of a document are written as they are
\* if the schema accepts them and refused if it does not; nothing else is a
\* scalar to write (decode in executor.rs).
ExecutorAgreesWithTheSchema ==
  LET decoded == IF \E t \in {"map", "seq"} : Is(disk[QueryFile], t)
                 THEN FromYaml(registry, disk[QueryFile]) ELSE Err("none")
  IN  ~IsError(decoded) =>
        \A state \in ToSet(decoded.states) : \A e \in ToSet(state.fields) :
          LET written == DecodeAssignment("base", <<e.key>>, e.val)
              alone == [NewState(Kernel) EXCEPT !.fields = <<e>>]
          IN  /\ (written.does = "write") =
                   (e.key \in {"mtu", "enabled"}
                      /\ ValidateWritable(EmbeddedRegistry, alone) = {})
              /\ written.does = "write" => written.value = e.val
=============================================================================
