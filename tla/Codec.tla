-------------------------------- MODULE Codec --------------------------------
(***************************************************************************)
(* States as YAML (yaml.rs).  YAML text is the library's business; a value  *)
(* it parses is a record whose only field tells what it is: null, bool,     *)
(* num, float (its canonical text), text, seq, map (a sequence of entries   *)
(* whose keys are YAML values too) or tagged.  A file is one such value, or *)
(* says why it is not: empty, multi (several documents) or malformed.       *)
(***************************************************************************)
EXTENDS Schema

Text(t) == [text |-> t]
Num(n) == [num |-> n]
Flag(b) == [bool |-> b]
SeqOfYaml(items) == [seq |-> items]
Mapping(entries) == [map |-> entries]

\* The entry of a mapping with a string key.
YKeys(mapping) == {e.key : e \in ToSet(mapping)}
YAt(mapping, name) == (CHOOSE e \in ToSet(mapping) : e.key = Text(name)).val
YHas(mapping, name) == Text(name) \in YKeys(mapping)

\* What a file is at least: one value, of lists and numbers at its top, or why
\* it is none.
YamlMade(yaml) ==
  /\ OneTag(yaml)
  /\ Is(yaml, "seq") => IsList(yaml.seq)
  /\ Is(yaml, "map") => IsList(yaml.map)
  /\ Is(yaml, "num") => yaml.num \in Int
DocumentMade(mapping) ==
  IsList(mapping) /\ \A i \in DOMAIN mapping : YamlMade(mapping[i].val)
FileMade(file) ==
  /\ YamlMade(file)
  /\ Is(file, "map") => DocumentMade(file.map)
  /\ Is(file, "seq") =>
       \A i \in DOMAIN file.seq : Is(file.seq[i], "map") => DocumentMade(file.seq[i].map)

\* A result that is an error has a field of that name; what Make makes of a
\* result, or of a sequence of them, unless there is an error.
Err(kind) == [error |-> kind]
IsError(result) == Is(result, "error")
Then(result, Make(_)) == IF IsError(result) THEN result ELSE Make(result)
ThenAll(results, Make(_)) ==
  LET all == Listed(results)
      errors == {i \in DOMAIN all : IsError(all[i])}
  IN  IF errors = {} THEN Make(all)
      ELSE all[CHOOSE i \in errors : \A j \in errors : i <= j]

-----------------------------------------------------------------------------
(* Decoding. *)

\* Scalar keys take their text; others have none.
KeyToString(key) ==
  CASE Is(key, "text") -> key
    [] Is(key, "num") -> Text(ToString(key.num))
    [] Is(key, "float") -> Text(key.float)
    [] Is(key, "bool") -> Text(ToString(key.bool))
    [] OTHER -> Err("InvalidFieldKey")

\* Mutant: text stays text.
DecodeNoString(schema, text) == Str(text)

\* Text becomes a network only where the schema says so.
DecodeString(schema, text) ==
  IF /\ schema # <<>> /\ SemanticType(schema[1]) = "ip-network"
     /\ text \in DOMAIN Cidr
  THEN IpNetwork(Cidr[text]) ELSE Str(text)

\* The entries inserted in turn; the last of one key stays.
Collected(entries) ==
  LET upto[n \in 0 .. Len(entries)] ==
        IF n = 0 THEN <<>> ELSE With(upto[n - 1], entries[n].key, entries[n].val)
  IN  upto[Len(entries)]

\* A YAML value with its schema, and the parts of it with theirs.
Typable(yaml, schema) == [yaml |-> yaml, schema |-> schema]
PartsOfYaml(t) ==
  IF Is(t.yaml, "seq")
  THEN [i \in DOMAIN t.yaml.seq |-> Typable(t.yaml.seq[i], ItemSchema(t.schema))]
  ELSE IF Is(t.yaml, "map")
  THEN [i \in DOMAIN t.yaml.map |->
          LET key == KeyToString(t.yaml.map[i].key)
          IN  Typable(t.yaml.map[i].val,
                      IF IsError(key) THEN <<>> ELSE PropertySchema(t.schema, key.text))]
  ELSE <<>>

\* The value when its parts became these.
Modelled(t, parts) ==
  LET yaml == t.yaml
      EntryOf(i) == Then(KeyToString(yaml.map[i].key), LAMBDA key :
                      Then(parts[i], LAMBDA value : Entry(key.text, value)))
  IN  CASE Is(yaml, "bool") -> Bool(yaml.bool)
        [] Is(yaml, "num") -> IF yaml.num >= 0 THEN U64(yaml.num) ELSE I64(yaml.num)
        [] Is(yaml, "text") -> DecodeString(t.schema, yaml.text)
        [] Is(yaml, "seq") -> ThenAll(parts, List)
        [] Is(yaml, "map") ->
             ThenAll([i \in DOMAIN yaml.map |-> EntryOf(i)],
                     LAMBDA entries : Map(Collected(entries)))
        [] Is(yaml, "null") \/ Is(yaml, "float") -> Err("UnsupportedScalar")
        [] OTHER -> Err("Yaml")
ValueToModel(yaml, schema) == OfTree(Modelled, PartsOfYaml, Typable(yaml, schema))

\* parse_kind: a bare state is one without a kind, or of kind "state".
KindError(yaml) ==
  IF yaml = Text("state") THEN "none"
  ELSE IF yaml = Text("policy") THEN "PolicyWrapperNotSupported"
  ELSE "UnknownKind"

\* parse_match: an error, or [match |-> ...].
MatchEntry(key, yaml) ==
  IF ~Is(yaml, "text") THEN Err("MatchValueNotString")
  ELSE IF key \notin MatchField THEN Err("UnknownMatchKey")
  ELSE Matching(key, yaml.text)
ParseMatch(yaml) ==
  IF ~Is(yaml, "map") THEN Err("MatchNotMapping")
  ELSE ThenAll(
         [i \in DOMAIN yaml.map |->
            Then(KeyToString(yaml.map[i].key), LAMBDA key :
              MatchEntry(key.text, yaml.map[i].val))],
         LAMBDA set : [match |-> FoldLeft(LAMBDA match, m : m ++ match, NoMatch, set)])

\* One entry of a device's mapping: what a reserved key says, or a field.
Routed(reg, key, yaml) ==
  CASE key = "match" -> ParseMatch(yaml)
    [] key = "kind" -> IF KindError(yaml) = "none" THEN [kind |-> "state"]
                       ELSE Err(KindError(yaml))
    [] key = "type" -> IF Is(yaml, "text") THEN [type |-> yaml.text]
                       ELSE Err("UnsupportedScalar")
    [] OTHER -> Then(ValueToModel(yaml, TopLevelSchema(reg, key)), LAMBDA value :
                  [field |-> Entry(key, value)])
Received(state, part) ==
  CASE Is(part, "match") -> [state EXCEPT !.match = part.match]
    [] Is(part, "kind") -> state
    [] Is(part, "type") -> [state EXCEPT !.device_type = part.type]
    [] Is(part, "field") -> [state EXCEPT !.fields = With(@, part.field.key, part.field.val)]

\* A state with what the entries of its mapping say, in turn.
WithParts(state, parts) ==
  LET upto[n \in 0 .. Len(parts)] == IF n = 0 THEN state ELSE Received(upto[n - 1], parts[n])
  IN  upto[Len(parts)]

\* A type that is not stated is implied by the fields.
Typed(reg, state) ==
  IF state.device_type # "" THEN state
  ELSE [state EXCEPT !.device_type = ImpliedDeviceType(reg, state.fields)]

MappingToState(reg, mapping) ==
  ThenAll([i \in DOMAIN mapping |->
             Then(KeyToString(mapping[i].key), LAMBDA key :
               Routed(reg, key.text, mapping[i].val))],
          LAMBDA parts : Typed(reg, WithParts(NewState(Static("")), parts)))

\* A file as a sequence of states, or an error.
FromYaml(reg, file) ==
  CASE Is(file, "empty") -> Err("EmptyInput")
    [] Is(file, "multi") -> Err("MultiDocument")
    [] Is(file, "malformed") -> Err("Yaml")
    [] Is(file, "map") ->
         Then(MappingToState(reg, file.map), LAMBDA state : [states |-> <<state>>])
    [] Is(file, "seq") ->
         ThenAll([i \in DOMAIN file.seq |->
                    IF Is(file.seq[i], "map") THEN MappingToState(reg, file.seq[i].map)
                    ELSE Err("InvalidTopLevel")],
                 LAMBDA states : [states |-> states])
    [] OTHER -> Err("InvalidTopLevel")

\* The matching field of a query result, when it is text.
FieldString(fields, key) ==
  IF key \in Keys(fields) /\ Is(At(fields, key), "str")
  THEN Matching(key, At(fields, key).str) ELSE NoMatch

DecodeViolations(reg, mode, states) ==
  UNION {IF mode = "query" THEN Validate(reg, states[i]) ELSE ValidateWritable(reg, states[i]) :
           i \in DOMAIN states}

\* decode_yaml: a query result takes its match from its fields.
AsObserved(state) ==
  [state EXCEPT
     !.match = FieldString(state.fields, "name") ++ FieldString(state.fields, "driver")
               ++ FieldString(state.fields, "mac")
               ++ (IF state.device_type = "" THEN NoMatch
                   ELSE Matching("type", state.device_type)) ++ @,
     !.source = Kernel, !.priority = DefaultPriority(Kernel)]

\* The states of a file, checked as the mode demands.
Decoded(reg, mode, states) ==
  LET AnyMatch(empty) == \E i \in DOMAIN states : (states[i].match = NoMatch) = empty
  IN  IF mode = "query" /\ AnyMatch(FALSE) THEN Err("UnexpectedMatch")
      ELSE IF mode = "policy" /\ AnyMatch(TRUE) THEN Err("MissingMatch")
      ELSE IF DecodeViolations(reg, mode, states) # {} THEN Err("Validation")
      ELSE IF mode = "policy" THEN [states |-> states]
      ELSE [states |-> [i \in DOMAIN states |-> AsObserved(states[i])]]

DecodeYaml(reg, file, mode) ==
  Then(FromYaml(reg, file), LAMBDA decoded : Decoded(reg, mode, decoded.states))

-----------------------------------------------------------------------------
(* Encoding. *)

PartsOfModel(value) ==
  IF Is(value, "list") THEN value.list
  ELSE IF Is(value, "map") THEN [i \in DOMAIN value.map |-> value.map[i].val]
  ELSE <<>>
Written(value, parts) ==
  CASE Is(value, "str") -> Text(value.str)
    [] Is(value, "u64") -> Num(value.u64)
    [] Is(value, "i64") -> Num(value.i64)
    [] Is(value, "bool") -> Flag(value.bool)
    [] Is(value, "ip") -> Text(value.ip)
    [] Is(value, "net") -> Text(Canonical[value.net])
    [] Is(value, "list") -> SeqOfYaml(parts)
    [] Is(value, "map") ->
         Mapping([i \in DOMAIN value.map |-> Entry(Text(value.map[i].key), parts[i])])
ModelToValue(value) == OfTree(Written, PartsOfModel, value)

\* The fields of a match in their fixed order.
MatchOrder == <<"name", "type", "driver", "pci_path", "mac">>
MatchToYaml(match) ==
  LET set == Only(MatchOrder, DOMAIN match)
  IN  Mapping([i \in DOMAIN set |-> Entry(Text(set[i]), Text(match[set[i]]))])

\* Mutant: a type that the fields imply is stated all the same.
OmitsNoType(reg, state, policyForm) == state.device_type = ""

\* The policy form leaves out a type that the fields imply.
OmitsType(reg, state, policyForm) ==
  \/ state.device_type = ""
  \/ policyForm /\ ImpliedDeviceType(reg, state.fields) = state.device_type

StateToMapping(reg, state, policyForm) ==
  IF Keys(state.fields) \cap {"match", "type", "kind"} # {} THEN Err("ReservedFieldKey")
  ELSE Mapping(
         (IF policyForm THEN <<Entry(Text("match"), MatchToYaml(state.match))>> ELSE <<>>)
         \o (IF OmitsType(reg, state, policyForm) THEN <<>>
             ELSE <<Entry(Text("type"), Text(state.device_type))>>)
         \o [i \in DOMAIN state.fields |->
               Entry(Text(state.fields[i].key), ModelToValue(state.fields[i].val))])

\* One state is a mapping, several are a sequence of them.
Render(reg, states, policyForm) ==
  ThenAll([i \in DOMAIN states |-> StateToMapping(reg, states[i], policyForm)],
          LAMBDA mappings : IF Len(mappings) = 1 THEN mappings[1] ELSE SeqOfYaml(mappings))

ToYamlQuery(reg, states) == Render(reg, states, FALSE)
ToYamlPolicy(reg, states) == Render(reg, states, TRUE)
=============================================================================
