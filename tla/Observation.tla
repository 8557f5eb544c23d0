------------------------------ MODULE Observation ------------------------------
(***************************************************************************)
(* What a query makes of the records of the kernel (linux.rs): links with   *)
(* their attributes, ethtool answers and IPv4 addresses become states.      *)
(*                                                                          *)
(* A link is [index, layer, up, attributes]; layer is "ether", "loopback"   *)
(* or "other".  An attribute is a record with one distinguishing field:     *)
(* ifname, mtu, carrier, mac (with its length), kind, or bad, an attribute  *)
(* of the named type that does not parse.  An answer of ethtool is a        *)
(* sequence of records with a field speed, autoneg or duplex.  An address   *)
(* is [family, prefix, local, address, cache], the last three being sets of *)
(* at most one.                                                             *)
(***************************************************************************)
EXTENDS Codec

CONSTANT
  U32Max, \* the largest number of 32 bits
  Netmask \* <<address, prefix length>> -> the network value

\* The MTUs that a schema allows are numbers of 32 bits.
ASSUME ObservationAssumption == U32Max \in Nat /\ U32Max >= 65535

-----------------------------------------------------------------------------
(* Links. *)

\* Attributes with impossible values are left out, with a diagnostic.
Sound(link, attribute) ==
  /\ ~Is(attribute, "bad")
  /\ ~(link.layer \in {"ether", "loopback"} /\ Is(attribute, "mac") /\ attribute.length # 6)
  /\ ~(Is(attribute, "carrier") /\ attribute.carrier > 1)
ParsedAttributes(link) == Only(link.attributes, {a \in ToSet(link.attributes) : Sound(link, a)})
KindValid(link) == [bad |-> "linkinfo"] \notin ToSet(link.attributes)
AttributesOf(link, tag) == Only(ParsedAttributes(link), {a \in ToSet(link.attributes) : Is(a, tag)})

LinkName(link) == AttributesOf(link, "ifname")[1].ifname

\* wireless holds the set of wireless indices, or nothing when that is not
\* known; legacy says that an ioctl told that the link is wireless.
Classify(link, wireless, legacy) ==
  IF legacy THEN "wifi"
  ELSE IF ~KindValid(link) THEN "unknown"
  ELSE IF AttributesOf(link, "kind") # <<>>
  THEN IF AttributesOf(link, "kind")[1].kind = "veth" THEN "ethernet"
       ELSE AttributesOf(link, "kind")[1].kind
  ELSE IF link.layer = "loopback" THEN "loopback"
  ELSE IF \E w \in wireless : link.index \in w THEN "wifi"
  ELSE IF link.layer = "ether" /\ wireless # {} THEN "ethernet"
  ELSE "unknown"

\* The field an attribute becomes, if any.
AttributeField(attribute) ==
  CASE Is(attribute, "mtu") -> <<Entry("mtu", U64(attribute.mtu))>>
    [] Is(attribute, "carrier") -> <<Entry("carrier", Bool(attribute.carrier = 1))>>
    [] Is(attribute, "mac") /\ attribute.length > 0 -> <<Entry("mac", Str(attribute.mac))>>
    [] OTHER -> <<>>
LinkFields(link) ==
  LET parsed == ParsedAttributes(link)
  IN  Collected(<< Entry("name", Str(LinkName(link))), Entry("enabled", Bool(link.up)) >>
                  \o FlattenSeq([i \in DOMAIN parsed |-> AttributeField(parsed[i])]))

LinkState(link, type) ==
  LET fields == LinkFields(link)
  IN  [NewState(Kernel) EXCEPT
         !.device_type = type, !.fields = fields,
         !.match = Matching("name", LinkName(link)) ++ Matching("type", type)
                     ++ FieldString(fields, "mac")]

-----------------------------------------------------------------------------
(* What ethtool adds, when the link may be selected.  A driver, the PCI path *)
(* and the answers are sets of at most one.                                  *)

EthernetField(answer) ==
  CASE Is(answer, "speed") /\ answer.speed \notin {0, U32Max} ->
         <<Entry("speed", U64(answer.speed))>>
    [] Is(answer, "autoneg") -> <<Entry("autoneg", Bool(answer.autoneg))>>
    [] Is(answer, "duplex") /\ answer.duplex \in {"full", "half", "unknown"} ->
         <<Entry("duplex", Str(answer.duplex))>>
    [] OTHER -> <<>>
EthernetFields(answers) ==
  Collected(FlattenSeq([i \in DOMAIN answers |-> EthernetField(answers[i])]))

One(set, default) == IF set = {} THEN default ELSE CHOOSE x \in set : TRUE
IfSet(field, texts) ==
  IF texts = {} THEN NoMatch ELSE Matching(field, CHOOSE t \in texts : TRUE)

Enriched(state, driver, pci_path, answers) ==
  LET ethernet == IF state.device_type = "ethernet" THEN EthernetFields(answers) ELSE <<>>
      driven == IF driver = {} THEN state.fields
                ELSE With(state.fields, "driver", Str(One(driver, "")))
  IN  [state EXCEPT
         !.match = @ ++ IfSet("driver", driver) ++ IfSet("pci_path", pci_path),
         !.fields = IF ethernet = <<>> THEN driven
                    ELSE With(driven, "ethernet", Map(ethernet))]

-----------------------------------------------------------------------------
(* Addresses. *)

\* The assigned address is the local one; without it, the address itself.
AssignedAddress(record) == One(record.local, One(record.address, ""))

AddressRejected(record) ==
  \/ record.prefix > 32
  \/ record.local = {} /\ record.address = {}
  \/ record.cache = {}
  \/ \E c \in record.cache : c.preferred > c.valid

AddressValue(record) ==
  Map(<< Entry("ip", IpNetwork(Netmask[AssignedAddress(record), record.prefix])),
         Entry("valid_lft", U64(One(record.cache, 0).valid)),
         Entry("preferred_lft", U64(One(record.cache, 0).preferred)) >>)

\* Addresses other than IPv4 are passed over; of two records of one address
\* and prefix the second is.
Distinct(records) ==
  LET ipv4 == {i \in DOMAIN records : records[i].family = "inet"}
      Key(i) == <<AssignedAddress(records[i]), records[i].prefix>>
      first == {i \in ipv4 : \A j \in ipv4 : j < i => Key(j) # Key(i)}
  IN  FlattenSeq([i \in DOMAIN records |-> IF i \in first THEN <<records[i]>> ELSE <<>>])

WithAddresses(state, records) ==
  IF state.device_type # "ethernet" THEN state
  ELSE LET distinct == Distinct(records)
       IN  [state EXCEPT !.fields = With(@, "ipv4", Map(<<
              Entry("addresses",
                    List([i \in DOMAIN distinct |-> AddressValue(distinct[i])])) >>))]

\* A link without a name, or one address of an ethernet device that cannot be
\* read, fails the query.
InventoryFails(device) ==
  \/ AttributesOf(device.link, "ifname") = <<>>
  \/ /\ Classify(device.link, device.wireless, device.legacy) = "ethernet"
     /\ \E i \in DOMAIN device.addresses :
          device.addresses[i].family = "inet" /\ AddressRejected(device.addresses[i])

\* What a device is at least.
DeviceMade(device) ==
  /\ IsList(device.link.attributes) /\ IsList(device.answers) /\ IsList(device.addresses)
  /\ \A a \in ToSet(device.link.attributes) : Is(a, "mtu") => a.mtu \in Nat
  /\ \A a \in ToSet(device.answers) : Is(a, "speed") => a.speed \in Nat

DeviceState(device) ==
  LET type == Classify(device.link, device.wireless, device.legacy)
  IN  WithAddresses(
        Enriched(LinkState(device.link, type), device.driver, device.pci_path,
                 device.answers),
        device.addresses)
=============================================================================
