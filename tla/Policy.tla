-------------------------------- MODULE Policy --------------------------------
(***************************************************************************)
(* Policies (netfyr-policy): providers and their schemas, loading policies  *)
(* from a directory of YAML files, the set of named policies, and the       *)
(* static states and provider declarations they produce.                    *)
(***************************************************************************)
EXTENDS Prepare

CONSTANTS
  Directory, \* the entries below the policy directory, in the lexical order
             \* of their relative paths: [file, path, stem, symlink, yaml], where
             \* yaml says that it is a regular file with the extension
  Hidden,    \* the names that start with a dot
  MinPriority, MaxPriority \* the range of an i32

ASSUME PolicyAssumption ==
  /\ MinPriority \in Int /\ MaxPriority \in Int /\ MinPriority < MaxPriority
  /\ IsList(Directory) /\ \A i \in DOMAIN Directory : Directory[i].stem # ""
  /\ \A i, j \in DOMAIN Directory :
       Directory[i].path = Directory[j].path => i = j

-----------------------------------------------------------------------------
(* Providers. *)

Dhcp4 == [WritableObject EXCEPT !.props =
  [k \in {"send-hostname", "route-metric"} |->
     IF k = "send-hostname" THEN Writable("boolean")
     ELSE [Writable("integer") EXCEPT !.min = {0}]]]
OpenParams == [WritableObject EXCEPT !.open = TRUE]

Provider(kind, domain, key, source, schema) ==
  [kind |-> kind, domain |-> domain, key |-> key, source |-> source, schema |-> schema]
Providers ==
  << Provider("dhcp4", "ipv4", "dhcp4", "dhcp", Dhcp4),
     Provider("dhcp6", "ipv6", "dhcp6", "dhcp", OpenParams),
     Provider("ra", "ipv6", "ra", "ra", OpenParams) >>
ProviderPriority(provider) == DefaultPriority(<<provider.source>>)

\* The registry with every provider's schema: in the fragment of its domain,
\* or below a base property.
Registered(reg, p) ==
  IF p.domain = "ipv4" THEN AddSchemaNode(reg, "ipv4", <<p.key>>, p.schema).registry
  ELSE AddSchemaNode(reg, "base", <<p.domain, p.key>>, p.schema).registry
ProviderRegistry ==
  Registered(Registered(Registered(EmbeddedRegistry, Providers[1]), Providers[2]), Providers[3])

Registration(domain, key) ==
  {p \in ToSet(Providers) : p.domain = domain /\ p.key = key}

-----------------------------------------------------------------------------
(* Production. *)

CandidateState(policy) ==
  [NewState(Static(policy.name)) EXCEPT
     !.match = policy.match, !.device_type = policy.device_type, !.fields = policy.fields]

Declared(policy, provider, params) ==
  [kind |-> provider.kind, source |-> provider.source, policy |-> policy.name,
   location |-> <<provider.domain, provider.key>>,
   priority |-> ProviderPriority(provider),
   params |-> params, match |-> policy.match, device_type |-> policy.device_type]

\* A domain goes when nothing but triggers was in it.
Emptied(left, taken) == taken # <<>> /\ left = <<>>

\* One field of a policy: what stays static, and the providers declared.
Split(policy, e) ==
  IF ~Is(e.val, "map") THEN [left |-> <<e>>, removed |-> <<>>]
  ELSE LET triggers == {p \in ToSet(e.val.map) : Registration(e.key, p.key) # {}}
           taken == Only(e.val.map, triggers)
           left == Only(e.val.map, ToSet(e.val.map) \ triggers)
       IN  [left |-> IF Emptied(left, taken) THEN <<>>
                     ELSE <<Entry(e.key, Map(left))>>,
            removed |-> [i \in DOMAIN taken |->
              Declared(policy, CHOOSE p \in Registration(e.key, taken[i].key) : TRUE,
                       taken[i].val.map)]]

\* The priority of a policy and its metadata are sets of at most one.
StaticPriority(policy) ==
  IF policy.priority = {} THEN DefaultPriority(Static(policy.name))
  ELSE CHOOSE p \in policy.priority : TRUE

\* Mutant: the providers in the order in which they are registered.
ProducedAsRegistered(policy, split) ==
  IF split.left = <<>> /\ policy.device_type = "" /\ split.removed = <<>>
  THEN Err("EmptyPolicy")
  ELSE [states |->
          IF split.left = <<>> /\ policy.device_type = "" THEN <<>>
          ELSE <<[CandidateState(policy) EXCEPT
                    !.fields = split.left, !.priority = StaticPriority(policy)]>>,
        providers |-> FlattenSeq([i \in DOMAIN Providers |->
          SelectSeq(split.removed, LAMBDA d : d.kind = Providers[i].kind)])]

Produced(policy, split) ==
  IF split.left = <<>> /\ policy.device_type = "" /\ split.removed = <<>>
  THEN Err("EmptyPolicy")
  ELSE [states |->
          IF split.left = <<>> /\ policy.device_type = "" THEN <<>>
          ELSE <<[CandidateState(policy) EXCEPT
                    !.fields = split.left, !.priority = StaticPriority(policy)]>>,
        providers |-> split.removed]

Produce(policy) ==
  IF policy.name = "" THEN Err("EmptyName")
  ELSE IF policy.match = NoMatch THEN Err("MissingMatch")
  ELSE IF ValidateWritable(ProviderRegistry, CandidateState(policy)) # {}
       THEN Err("Validation")
  ELSE Produced(policy, Together([i \in DOMAIN policy.fields |->
                                    Split(policy, policy.fields[i])]))

-----------------------------------------------------------------------------
(* The set of policies, in insertion order. *)

Names(policies) == {p.name : p \in ToSet(policies)}

InsertError(set, policy) ==
  IF policy.name = "" THEN "EmptyName"
  ELSE IF policy.name \in Names(set) THEN "DuplicateName" ELSE "none"

\* All of them, or none.
ProduceAll(set) ==
  ThenAll([i \in DOMAIN set |-> Produce(set[i])], LAMBDA all :
    [states |-> FlattenSeq([i \in DOMAIN all |-> all[i].states]),
     providers |-> FlattenSeq([i \in DOMAIN all |-> all[i].providers])])

-----------------------------------------------------------------------------
(* Loading. *)

\* yaml_map_to_model: metadata is taken as it is.
PartsOfMetadata(yaml) ==
  IF Is(yaml, "seq") THEN yaml.seq
  ELSE IF Is(yaml, "map") THEN [i \in DOMAIN yaml.map |-> yaml.map[i].val]
  ELSE <<>>
Taken(yaml, parts) ==
  CASE Is(yaml, "seq") -> ThenAll(parts, List)
    [] Is(yaml, "map") ->
         ThenAll([i \in DOMAIN yaml.map |->
                    IF ~Is(yaml.map[i].key, "text") THEN Err("Yaml")
                    ELSE Then(parts[i], LAMBDA value : Entry(yaml.map[i].key.text, value))], Map)
    [] Is(yaml, "null") \/ Is(yaml, "float") \/ Is(yaml, "tagged") -> Err("Yaml")
    [] OTHER -> ValueToModel(yaml, <<>>)
MetadataValue(yaml) == OfTree(Taken, PartsOfMetadata, yaml)

Explicit(mapping) == YHas(mapping, "kind") /\ YAt(mapping, "kind") = Text("policy")
ExplicitName(mapping) ==
  IF YHas(mapping, "name") /\ Is(YAt(mapping, "name"), "text")
  THEN YAt(mapping, "name").text ELSE ""
InPriorityRange(yaml) ==
  Is(yaml, "num") /\ yaml.num >= MinPriority /\ yaml.num <= MaxPriority
Metadata(mapping) ==
  IF YHas(mapping, "metadata") THEN MetadataValue(YAt(mapping, "metadata"))
  ELSE Map(<<>>)

\* What is wrong with the keys of the policy itself, in the order of the code.
HeaderError(mapping, metadata) ==
  IF YHas(mapping, "kind") /\ YAt(mapping, "kind") \notin {Text("state"), Text("policy")}
  THEN "UnknownKind"
  ELSE IF Explicit(mapping) /\ ExplicitName(mapping) = "" THEN "EmptyName"
  ELSE IF YHas(mapping, "priority") /\ ~InPriorityRange(YAt(mapping, "priority"))
       THEN "InvalidPriority"
  ELSE IF IsError(metadata) THEN metadata.error
  ELSE IF ~Is(metadata, "map") THEN "MetadataNotMapping"
  ELSE "none"

\* The keys that remain are those of a state.
Candidate(mapping) ==
  LET header == {"kind", "metadata", "priority"}
                   \cup (IF Explicit(mapping) THEN {"name"} ELSE {})
  IN  Only(mapping, {e \in ToSet(mapping) : e.key \notin {Text(k) : k \in header}})

\* Mutant: a bare state is prepared whether it has a match or not.
PreparedStateUnchecked(mapping, state, by) ==
  IF ~Explicit(mapping) /\ state.match = NoMatch
  THEN PrepareForApply(ProviderRegistry, <<state>>, by)
  ELSE [states |-> <<state>>, warnings |-> <<>>]

\* A bare state without a match is prepared; any other must be a policy.
PreparedState(mapping, state, by) ==
  IF state.match = NoMatch
  THEN IF Explicit(mapping) THEN Err("MissingMatch")
       ELSE PrepareForApply(ProviderRegistry, <<state>>, by)
  ELSE IF ValidateWritable(ProviderRegistry, state) # {} THEN Err("Validation")
  ELSE [states |-> <<state>>, warnings |-> <<>>]

\* The policy of a prepared state, as the outcome of loading it.
PolicyOf(mapping, name, metadata, prepared) ==
  LET state == prepared.states[1]
  IN  [policies |-> << [name |-> name,
          match |-> state.match, device_type |-> state.device_type, fields |-> state.fields,
          priority |-> IF YHas(mapping, "priority") THEN {YAt(mapping, "priority").num} ELSE {},
          metadata |-> IF YHas(mapping, "metadata") THEN {metadata} ELSE {}] >>,
       warnings |-> prepared.warnings]

PolicyFromMapping(mapping, fallback, by) ==
  LET error == HeaderError(mapping, Metadata(mapping))
      name == IF Explicit(mapping) THEN ExplicitName(mapping) ELSE fallback
  IN  IF error # "none" THEN Err(error)
      ELSE Then(MappingToState(ProviderRegistry, Candidate(mapping)), LAMBDA state :
             Then(PreparedState(mapping, state, by), LAMBDA prepared :
               PolicyOf(mapping, name, Metadata(mapping), prepared)))

NoPolicies == [policies |-> <<>>, warnings |-> <<>>]

\* Mutant: what cannot be loaded is left out.
JoinedLeniently(outcome, more) ==
  IF IsError(more) THEN outcome
  ELSE [policies |-> outcome.policies \o more.policies,
        warnings |-> outcome.warnings \o more.warnings]

\* Two outcomes in turn: the first error, or all policies if names differ.
Joined(outcome, more) ==
  IF IsError(outcome) THEN outcome
  ELSE IF IsError(more) THEN more
  ELSE IF Names(outcome.policies) \cap Names(more.policies) # {} THEN Err("DuplicateName")
  ELSE [policies |-> outcome.policies \o more.policies,
        warnings |-> outcome.warnings \o more.warnings]

\* All outcomes, in turn.
JoinedAll(outcomes) ==
  LET all == Listed(outcomes)
      upto[n \in 0 .. Len(all)] ==
        IF n = 0 THEN NoPolicies ELSE Joined(upto[n - 1], all[n])
  IN  upto[Len(all)]

\* The documents of a file: bare states are named after it, numbered in a
\* sequence.
Numbered(stem, i) == stem \o "-" \o ToString(i)
LoadDocument(file, stem, by) ==
  CASE Is(file, "unreadable") -> Err("Io")
    [] Is(file, "multi") -> Err("MultiDocument")
    [] Is(file, "malformed") -> Err("Yaml")
    [] Is(file, "map") -> PolicyFromMapping(file.map, stem, by)
    [] Is(file, "seq") /\ (\A i \in DOMAIN file.seq : Is(file.seq[i], "map")) ->
         JoinedAll([i \in DOMAIN file.seq |->
           PolicyFromMapping(file.seq[i].map, Numbered(stem, i), by)])
    [] OTHER -> Err("InvalidTopLevel")

\* The walk skips what is hidden, at any level, and symbolic links.
Visible(entry) ==
  /\ entry.yaml /\ ~entry.symlink
  /\ \A i \in DOMAIN entry.path : entry.path[i] \notin Hidden

\* disk tells what each file contains; a file may be absent.
Loadable(disk) ==
  {i \in DOMAIN Directory : Visible(Directory[i]) /\ disk[Directory[i].file] # [absent |-> TRUE]}
LoadPolicyDir(disk, by) ==
  JoinedAll([i \in DOMAIN Directory |->
    IF i \in Loadable(disk) THEN LoadDocument(disk[Directory[i].file], Directory[i].stem, by)
    ELSE NoPolicies])
=============================================================================
