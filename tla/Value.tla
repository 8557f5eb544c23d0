-------------------------------- MODULE Value --------------------------------
(***************************************************************************)
(* The data model of netfyr-state (value.rs, match_spec.rs, source.rs,      *)
(* state.rs).  A value is a record whose only field tells what it is, so    *)
(* that a number and a text are different values.  An ordered map is a      *)
(* sequence of entries with distinct keys; its order is part of it.         *)
(*                                                                          *)
(* A network stands for an address with a prefix length.  Cidr says what    *)
(* the texts that parse as one stand for; several may stand for the same.   *)
(***************************************************************************)
EXTENDS Integers, Sequences, FiniteSets, SequencesExt, Trees

CONSTANTS
  Cidr,      \* text -> the network it parses as
  Canonical, \* network -> the text it is printed as
  V4,        \* the networks that are IPv4
  LowerCase  \* text -> the same text in lower case, for MAC addresses

ASSUME ValueAssumption ==
  /\ Canonical \in [V4 \cup {Cidr[t] : t \in DOMAIN Cidr} -> DOMAIN Cidr]
  /\ \A n \in DOMAIN Canonical : Cidr[Canonical[n]] = n

-----------------------------------------------------------------------------
(* Values. *)

Str(text) == [str |-> text]
U64(n) == [u64 |-> n]
I64(n) == [i64 |-> n]
Bool(b) == [bool |-> b]
IpAddr(text) == [ip |-> text]
IpNetwork(n) == [net |-> n]
List(items) == [list |-> items]
Map(entries) == [map |-> entries]

Is(value, tag) == tag \in DOMAIN value
OneTag(value) == \A s, t \in DOMAIN value : s = t

\* The canonical text of a scalar (Display).
Display(value) ==
  CASE Is(value, "str") -> value.str
    [] Is(value, "u64") -> ToString(value.u64)
    [] Is(value, "i64") -> ToString(value.i64)
    [] Is(value, "bool") -> ToString(value.bool)
    [] Is(value, "ip") -> value.ip
    [] Is(value, "net") -> Canonical[value.net]

-----------------------------------------------------------------------------
(* Ordered maps (external: indexmap). *)

Entry(key, value) == [key |-> key, val |-> value]
Keys(map) == {e.key : e \in ToSet(map)}
At(map, key) == (CHOOSE e \in ToSet(map) : e.key = key).val

\* An existing key keeps its place.
With(map, key, value) ==
  IF key \in Keys(map)
  THEN [i \in DOMAIN map |-> IF map[i].key = key THEN Entry(key, value) ELSE map[i]]
  ELSE Append(map, Entry(key, value))
Without(map, key) == Only(map, {e \in ToSet(map) : e.key # key})

-----------------------------------------------------------------------------
(* Matches: a function from the fields that are set to their texts. *)

MatchField == {"name", "type", "driver", "pci_path", "mac"}
NoMatch == [f \in {} |-> ""]
Matching(field, text) == [f \in {field} |-> text]
Constrained(match, field, text) ==
  [f \in DOMAIN match \cup {field} |-> IF f = field THEN text ELSE match[f]]

\* What one match says, and what another adds.
self ++ other ==
  [f \in DOMAIN self \cup DOMAIN other |-> IF f \in DOMAIN self THEN self[f] ELSE other[f]]

\* A field that is set must be set on the other side and equal; MAC addresses
\* whatever their case.
Matches(self, other) ==
  \A f \in DOMAIN self :
    /\ f \in DOMAIN other
    /\ self[f] = other[f] \/ (f = "mac" /\ LowerCase[self[f]] = LowerCase[other[f]])

-----------------------------------------------------------------------------
(* States.  Which policy a static state comes from is kept with its source. *)

Kernel == <<"kernel">>
Static(policy) == <<"static", policy>>

DefaultPriority(source) ==
  CASE source[1] = "static" -> 100
    [] source[1] = "vpn" -> 75
    [] source[1] = "dhcp" -> 50
    [] source[1] = "ra" -> 25
    [] source[1] = "kernel" -> 0

NewState(source) ==
  [device_type |-> "", match |-> NoMatch, fields |-> <<>>,
   source |-> source, priority |-> DefaultPriority(source)]

\* What the values of fields are at least: of one kind, a list or a number
\* where they are one.
ValueMade(value) ==
  /\ OneTag(value)
  /\ \E tag \in {"str", "u64", "i64", "bool", "ip", "net", "list", "map"} : Is(value, tag)
  /\ Is(value, "list") => IsList(value.list)
  /\ Is(value, "map") => IsList(value.map)
  /\ Is(value, "u64") => value.u64 \in Nat
  /\ Is(value, "i64") => value.i64 \in Int
FieldsMade(fields) == IsList(fields) /\ \A i \in DOMAIN fields : ValueMade(fields[i].val)
StateMade(state) ==
  /\ DOMAIN state = {"device_type", "match", "fields", "source", "priority"}
  /\ FieldsMade(state.fields)
StatesMade(states) == IsList(states) /\ \A i \in DOMAIN states : StateMade(states[i])

ContentEq(s, t) ==
  /\ s.device_type = t.device_type /\ s.match = t.match /\ s.fields = t.fields
=============================================================================
