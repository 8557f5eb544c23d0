-------------------------------- MODULE Schema --------------------------------
(***************************************************************************)
(* The schema registry of netfyr-state (schema.rs): a list of fragments,    *)
(* each a tree of schema nodes, that validate states, tell read-only fields *)
(* from writable ones and are extended with nodes of other crates.          *)
(***************************************************************************)
EXTENDS Value

-----------------------------------------------------------------------------
(* Schema nodes.  min, max and enum are sets of bounds and of allowed texts, *)
(* empty when there are none; items is empty or the one element schema;      *)
(* props maps names to nodes; implied is the device type of the fragment.    *)

Blank ==
  [type |-> "none", cidr |-> FALSE, writable |-> FALSE, min |-> {}, max |-> {},
   enum |-> {}, props |-> [k \in {} |-> {}], required |-> <<>>, items |-> <<>>,
   open |-> FALSE, implied |-> ""]
ReadOnly(type) == [Blank EXCEPT !.type = type]
Writable(type) == [Blank EXCEPT !.type = type, !.writable = TRUE]
ObjectOf(props) == [Blank EXCEPT !.type = "object", !.props = props]
WritableObject == Writable("object")

Base == ObjectOf(
  [type |-> ReadOnly("string"), name |-> ReadOnly("string"),
   mac |-> ReadOnly("string"), driver |-> ReadOnly("string"),
   carrier |-> ReadOnly("boolean"), enabled |-> Writable("boolean"),
   mtu |-> [Writable("integer") EXCEPT !.min = {68}, !.max = {65535}]])

Ethernet == [ObjectOf(
  [speed |-> ReadOnly("integer"), autoneg |-> ReadOnly("boolean"),
   duplex |-> [ReadOnly("string") EXCEPT !.enum = {"full", "half", "unknown"}]])
  EXCEPT !.implied = "ethernet"]

Ipv4 == ObjectOf(
  [addresses |-> [Writable("array") EXCEPT !.items = <<
     [ObjectOf([ip |-> [Writable("string") EXCEPT !.cidr = TRUE],
                valid_lft |-> Writable("integer"),
                preferred_lft |-> Writable("integer")])
      EXCEPT !.required = <<"ip">>] >>]])

\* The type a node has in the state model.
SemanticType(node) ==
  IF ~node.cidr THEN node.type
  ELSE IF node.type = "string" THEN "ip-network" ELSE "none"

\* The nodes of a schema, each at its path, properties being fields.  The
\* elements of an array continue its path.
NodesBelow(at) ==
  {[path |-> Append(at.path, k), node |-> at.node.props[k], field |-> TRUE] :
     k \in DOMAIN at.node.props}
  \cup {[path |-> at.path, node |-> at.node.items[i], field |-> FALSE] :
     i \in DOMAIN at.node.items}
SchemaNodes(root) == Reached(NodesBelow, {[path |-> <<>>, node |-> root, field |-> FALSE]})

ValidNode(node) == \A at \in SchemaNodes(node) : SemanticType(at.node) # "none"

\* What a schema is at least: a tree of nodes that ends within MaxDepth.
NodeMade(node) ==
  /\ node = [f \in DOMAIN Blank |-> node[f]]
  /\ node.props = [k \in DOMAIN node.props |-> node.props[k]]
SchemaMade(node) ==
  \A at \in SchemaNodes(node) : NodeMade(at.node) /\ NodesBelow(at) \subseteq SchemaNodes(node)

\* The flat field map: every field at every level, at its path.
FieldAt(at) ==
  [path |-> at.path, writable |-> at.node.writable, type |-> SemanticType(at.node)]
DerivedFields(root) == {FieldAt(at) : at \in {n \in SchemaNodes(root) : n.field}}

-----------------------------------------------------------------------------
(* Registries. *)

Fragment(name, trigger, root) ==
  [name |-> name, trigger |-> trigger, root |-> root,
   fields |-> DerivedFields(root)]

\* The base fragment has no trigger key.
EmbeddedRegistry ==
  << Fragment("base", "", Base), Fragment("ipv4", "ipv4", Ipv4),
     Fragment("ethernet", "ethernet", Ethernet) >>

Triggers(reg) == {reg[i].trigger : i \in DOMAIN reg} \ {""}
FragmentNamed(reg, name) == {i \in DOMAIN reg : reg[i].name = name}
TriggeredBy(reg, key) == {i \in DOMAIN reg : reg[i].trigger = key /\ key # ""}
BaseRoot(reg) == reg[CHOOSE i \in DOMAIN reg : reg[i].trigger = ""].root

FieldInfo(reg, fragment, path) ==
  UNION {{f \in reg[i].fields : f.path = path} : i \in FragmentNamed(reg, fragment)}

\* The schema of a top-level key: a base property first, or a fragment.  A
\* schema that may be missing is a sequence of at most one node.
TopLevelSchema(reg, key) ==
  IF key \in DOMAIN BaseRoot(reg).props THEN <<BaseRoot(reg).props[key]>>
  ELSE IF TriggeredBy(reg, key) # {}
       THEN <<reg[CHOOSE i \in TriggeredBy(reg, key) : TRUE].root>>
  ELSE <<>>
PropertySchema(schema, key) ==
  IF schema # <<>> /\ key \in DOMAIN schema[1].props
  THEN <<schema[1].props[key]>> ELSE <<>>
ItemSchema(schema) == IF schema = <<>> THEN <<>> ELSE schema[1].items

\* The device type implied by the first fragment that applies and implies one.
ImpliedDeviceType(reg, fields) ==
  LET implying == SelectSeq(reg, LAMBDA f : /\ f.trigger \in Keys(fields)
                                            /\ f.root.implied # "")
  IN  IF implying = <<>> THEN "" ELSE Head(implying).root.implied

Having(parent, name, child) ==
  [parent EXCEPT !.props = [k \in DOMAIN @ \cup {name} |-> IF k = name THEN child ELSE @[k]]]

\* Mutant: the node is inserted before its place is found taken.
PlacedFirst(parent, name, node) ==
  [error |-> IF name \in DOMAIN parent.props THEN "Exists" ELSE "none",
   root |-> Having(parent, name, node)]

\* The last step: the node at its place, unless that is taken.
Placed(parent, name, node) ==
  IF name \in DOMAIN parent.props THEN [error |-> "Exists", root |-> parent]
  ELSE [error |-> "none", root |-> Having(parent, name, node)]

\* The walk of add_schema_node along the path, which changes the tree in
\* place: what it made stays, whatever it finds further down.
Child(parent, name) ==
  IF name \in DOMAIN parent.props THEN parent.props[name] ELSE WritableObject
Graft(root, path, node) ==
  LET on[n \in 0 .. Len(path) - 1] == IF n = 0 THEN root ELSE Child(on[n - 1], path[n])
      graft[n \in 1 .. Len(path)] ==
        LET parent == on[n - 1]
        IN  IF n = Len(path) THEN Placed(parent, path[n], node)
            ELSE IF on[n].type # "object"
                 THEN [error |-> "NotAnObject", root |-> Having(parent, path[n], on[n])]
            ELSE [error |-> graft[n + 1].error,
                  root |-> Having(parent, path[n], graft[n + 1].root)]
  IN  graft[1]

\* Mutant: the types of the new node are not looked at.
AddErrorUntyped(reg, fragment, path, node) ==
  IF path = <<>> \/ "" \in ToSet(path) THEN "EmptyPath"
  ELSE IF FragmentNamed(reg, fragment) = {} THEN "UnknownFragment"
  ELSE "none"

\* What add_schema_node refuses before it touches the tree.
AddError(reg, fragment, path, node) ==
  IF ~ValidNode(node) THEN "Malformed"
  ELSE IF path = <<>> \/ "" \in ToSet(path) THEN "EmptyPath"
  ELSE IF /\ \E i \in FragmentNamed(reg, fragment) : reg[i].trigger = ""
          /\ Head(path) \in Triggers(reg)
       THEN "Collision"
  ELSE IF FragmentNamed(reg, fragment) = {} THEN "UnknownFragment"
  ELSE "none"

AddSchemaNode(reg, fragment, path, node) ==
  LET error == AddError(reg, fragment, path, node)
      i == CHOOSE i \in FragmentNamed(reg, fragment) : TRUE
      grafted == Graft(reg[i].root, path, node)
      rooted == [reg EXCEPT ![i].root = grafted.root]
  IN  IF error # "none" THEN [error |-> error, registry |-> reg]
      ELSE IF grafted.error # "none"
           THEN [error |-> grafted.error, registry |-> rooted]
      ELSE [error |-> "none",
            registry |-> [rooted EXCEPT ![i].fields = DerivedFields(grafted.root)]]

-----------------------------------------------------------------------------
(* Validation. *)

Violation(kind, path) == [kind |-> kind, path |-> path]

ValueType(value) ==
  CASE Is(value, "str") -> "string"
    [] Is(value, "u64") \/ Is(value, "i64") -> "integer"
    [] Is(value, "bool") -> "boolean"
    [] Is(value, "ip") -> "ip"
    [] Is(value, "net") -> "ip-network"
    [] Is(value, "list") -> "array"
    [] Is(value, "map") -> "object"

\* A CIDR field takes text as well.
TypeAccepts(node, value) ==
  \/ ValueType(value) = SemanticType(node)
  \/ node.cidr /\ SemanticType(node) = "ip-network" /\ Is(value, "str")

IntegerOf(value) == IF Is(value, "u64") THEN value.u64 ELSE value.i64

Ipv4Cidr(value) ==
  IF Is(value, "net") THEN value.net \in V4
  ELSE value.str \in DOMAIN Cidr /\ Cidr[value.str] \in V4

\* The violations of a value by itself, of that kind.  They are a set: what a
\* caller looks at is whether there are any.
Those(kind, path, holds) == IF holds THEN {Violation(kind, path)} ELSE {}

\* A place is a value, its path and its schema node.
Place(node, value, path) == [node |-> node, value |-> value, path |-> path]

\* The keys that are present, then the required ones that are absent.  A key to
\* ignore belongs to another fragment.
MapViolations(node, map, prefix, ignored, writableOnly) ==
  UNION { IF k \notin DOMAIN node.props
          THEN Those("UnknownField", Append(prefix, k), ~node.open)
          ELSE Those("ReadOnlyField", Append(prefix, k), writableOnly /\ ~node.props[k].writable)
          : k \in Keys(map) \ ignored }
  \cup {Violation("MissingField", Append(prefix, k)) :
          k \in ToSet(node.required) \ (Keys(map) \cup ignored)}
PropertyPlaces(node, map, prefix, ignored) ==
  {Place(node.props[e.key], e.val, Append(prefix, e.key)) :
     e \in {f \in ToSet(map) : f.key \in DOMAIN node.props \ ignored}}

NodeViolations(place, writableOnly) ==
  LET node == place.node
      value == place.value
      type == SemanticType(node)
  IN  IF ~TypeAccepts(node, value) THEN {Violation("WrongType", place.path)}
      ELSE Those("OutOfRange", place.path,
             /\ type = "integer"
             /\ \/ \E b \in node.min : IntegerOf(value) < b
                \/ \E b \in node.max : IntegerOf(value) > b)
        \cup Those("EnumViolation", place.path,
             type = "string" /\ node.enum # {} /\ value.str \notin node.enum)
        \cup Those("InvalidFormat", place.path, type = "ip-network" /\ ~Ipv4Cidr(value))
        \cup (IF type = "object" THEN MapViolations(node, value.map, place.path, {}, writableOnly)
              ELSE {})
PlacesBelow(place) ==
  LET node == place.node
      value == place.value
      type == SemanticType(node)
  IN  IF ~TypeAccepts(node, value) THEN {}
      ELSE IF type = "object" THEN PropertyPlaces(node, value.map, place.path, {})
      ELSE IF type = "array"
           THEN {Place(node.items[1], value.list[i], Append(place.path, ToString(i - 1))) :
                   i \in {j \in DOMAIN value.list : node.items # <<>>}}
      ELSE {}

\* Whatever is wrong with a map or with one value.
WalkPlaces(places, writableOnly) ==
  UNION {NodeViolations(place, writableOnly) : place \in Reached(PlacesBelow, places)}
WalkMap(node, map, prefix, ignored, writableOnly) ==
  MapViolations(node, map, prefix, ignored, writableOnly)
    \cup WalkPlaces(PropertyPlaces(node, map, prefix, ignored), writableOnly)

\* What one fragment finds.  The device type is checked by the type property
\* of the base schema, but never as a field to write.
FragmentViolations(reg, fragment, state, writableOnly) ==
  IF fragment.trigger = ""
  THEN WalkMap(fragment.root, state.fields, <<>>, Triggers(reg), writableOnly)
         \cup (IF state.device_type = "" THEN {}
               ELSE WalkPlaces({Place(fragment.root.props["type"], Str(state.device_type),
                                      <<"type">>)}, FALSE))
  ELSE IF fragment.trigger \notin Keys(state.fields) THEN {}
  ELSE LET value == At(state.fields, fragment.trigger)
       IN  IF Is(value, "map")
           THEN WalkMap(fragment.root, value.map, <<fragment.trigger>>, {}, writableOnly)
           ELSE {Violation("WrongType", <<fragment.trigger>>)}

ValidateInner(reg, state, writableOnly) ==
  UNION {FragmentViolations(reg, reg[i], state, writableOnly) : i \in DOMAIN reg}

Validate(reg, state) == ValidateInner(reg, state, FALSE)
ValidateWritable(reg, state) == ValidateInner(reg, state, TRUE)

-----------------------------------------------------------------------------
(* Removing read-only fields.  Both operators return what is left and the    *)
(* paths removed, in order.                                                  *)

\* A value to strip: a property goes when it is read-only, and maps are
\* stripped of theirs, those that are elements of a property's list too.
Stripping(schema, value, path, property) ==
  [schema |-> schema, value |-> value, path |-> path, property |-> property]

PartsToStrip(s) ==
  IF Is(s.value, "map")
  THEN [i \in DOMAIN s.value.map |->
          LET e == s.value.map[i]
          IN  Stripping(PropertySchema(s.schema, e.key), e.val, Append(s.path, e.key), TRUE)]
  ELSE IF Is(s.value, "list") /\ s.property
  THEN [i \in DOMAIN s.value.list |->
          Stripping(ItemSchema(s.schema), s.value.list[i], Append(s.path, ToString(i - 1)), FALSE)]
  ELSE <<>>

Together(parts) ==
  [left |-> FlattenSeq([i \in DOMAIN parts |-> parts[i].left]),
   removed |-> FlattenSeq([i \in DOMAIN parts |-> parts[i].removed])]

\* What is left of a value when this is left of its parts: a sequence of at
\* most one.
Left(value, removed) == [left |-> <<value>>, removed |-> removed]
KeptParts(map, parts) ==
  [i \in DOMAIN map |->
     IF parts[i].left = <<>> THEN <<>> ELSE <<Entry(map[i].key, parts[i].left[1])>>]
Stripped(s, parts) ==
  LET removed == FlattenSeq([i \in DOMAIN parts |-> parts[i].removed])
  IN  IF s.property /\ s.schema # <<>> /\ ~s.schema[1].writable
      THEN [left |-> <<>>, removed |-> <<s.path>>]
      ELSE IF Is(s.value, "map") THEN Left(Map(FlattenSeq(KeptParts(s.value.map, parts))), removed)
      ELSE IF parts = <<>> THEN Left(s.value, <<>>)
      ELSE Left(List([i \in DOMAIN parts |-> parts[i].left[1]]), removed)
Strip(schema, value, path, property) ==
  OfTree(Stripped, PartsToStrip, Stripping(schema, value, path, property))

\* A fragment's map goes when nothing is left in it.
GroupLeft(key, inner) ==
  IF inner.left[1] = Map(<<>>) THEN <<>> ELSE <<Entry(key, inner.left[1])>>

StripTopLevel(reg, e) ==
  IF TriggeredBy(reg, e.key) # {}
  THEN IF ~Is(e.val, "map") THEN [left |-> <<e>>, removed |-> <<>>]
       ELSE LET root == reg[CHOOSE i \in TriggeredBy(reg, e.key) : TRUE].root
                inner == Strip(<<root>>, e.val, <<e.key>>, FALSE)
            IN  [left |-> GroupLeft(e.key, inner), removed |-> inner.removed]
  ELSE LET inner == Strip(PropertySchema(<<BaseRoot(reg)>>, e.key), e.val, <<e.key>>, TRUE)
       IN  [left |-> IF inner.left = <<>> THEN <<>> ELSE <<Entry(e.key, inner.left[1])>>,
            removed |-> inner.removed]

RemoveReadOnlyFields(reg, fields) ==
  Together([i \in DOMAIN fields |-> StripTopLevel(reg, fields[i])])
=============================================================================
