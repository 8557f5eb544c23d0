----------------------------- MODULE MCDocuments -----------------------------
(* Devices, schemas of extensions, edits and policy files for Documents. *)
EXTENDS Documents

-----------------------------------------------------------------------------
(* Texts.  010/24 stands for 10.0.0.2/24 written with a prefix of "024". *)

MCCidr == ("n1/24" :> "n1") @@ ("n1/024" :> "n1") @@ ("n2/24" :> "n2") @@ ("v6/64" :> "v6")
MCCanonical == ("n1" :> "n1/24") @@ ("n2" :> "n2/24") @@ ("v6" :> "v6/64")
MCV4 == {"n1", "n2"}
MCLowerCase == ("m0" :> "m0") @@ ("M0" :> "m0") @@ ("m1" :> "m1") @@ ("m2" :> "m2")
MCNetmask == (<<"ip1", 24>> :> "n1") @@ (<<"ip2", 24>> :> "n2")

-----------------------------------------------------------------------------
(* Devices. *)

Attributes(name, mac, mtu) ==
  <<[mtu |-> mtu], [mac |-> mac, length |-> 6], [carrier |-> 1], [ifname |-> name]>>
Link(index, layer, attributes) ==
  [index |-> index, layer |-> layer, up |-> TRUE, attributes |-> attributes]
Bare(link) ==
  [link |-> link, wireless |-> {{}}, legacy |-> FALSE, driver |-> {}, pci_path |-> {},
   answers |-> <<>>, addresses |-> <<>>]
Inet(ip, valid, preferred) ==
  [family |-> "inet", prefix |-> 24, local |-> {ip}, address |-> {},
   cache |-> {[valid |-> valid, preferred |-> preferred]}]

Eth0 == [Bare(Link(2, "ether", Attributes("eth0", "m0", 1500))) EXCEPT
  !.driver = {"virtio"}, !.pci_path = {"pci0"},
  !.answers = <<[speed |-> 1000], [autoneg |-> TRUE], [duplex |-> "full"]>>,
  !.addresses = <<Inet("ip1", 300, 200), Inet("ip2", U32Max, U32Max)>>]
\* The loopback device has an MTU beyond the range of the schema.
Lo == Bare(Link(1, "loopback", Attributes("lo", "m2", 65536)))
\* A bridge has the address of its port.
Br0 == Bare(Link(3, "ether", Attributes("br0", "m0", 1500) \o <<[kind |-> "bridge"]>>))
\* Impossible values, no address to match by, unknown speed, two peers.
Wlan0 == [Bare(Link(4, "ether",
    <<[ifname |-> "wlan0"], [mac |-> "m1", length |-> 8], [carrier |-> 2], [mtu |-> 1400]>>))
  EXCEPT !.wireless = {{4}}]
Veth0 == [Bare(Link(5, "ether", Attributes("veth0", "m1", 1500) \o <<[kind |-> "veth"]>>)) EXCEPT
  !.answers = <<[speed |-> U32Max], [duplex |-> "other"]>>,
  !.addresses = << [Inet("ip1", 20, 10) EXCEPT !.family = "inet6"], Inet("ip1", 20, 10),
                   [Inet("ip1", 20, 10) EXCEPT !.local = {}, !.address = {"ip1"}] >>]
Odd0 == Bare(Link(6, "ether", Attributes("odd0", "m1", 1500) \o <<[bad |-> "linkinfo"]>>))
Unreadable0 == [Eth0 EXCEPT !.addresses = <<[Inet("ip1", 20, 30) EXCEPT !.family = "inet"]>>]

\* A device of an extension: a queue with a read-only handle in an array, and
\* a field below the ethernet fragment.
Tuned ==
  [DeviceState(Eth0) EXCEPT !.fields =
     << Entry("name", Str("eth0")), Entry("mtu", U64(1500)),
        Entry("qos", Map(<<Entry("classes", List(<<
          Map(<<Entry("handle", U64(1)), Entry("rate", U64(5))>>) >>))>>)) >>]
Woken ==
  [DeviceState(Eth0) EXCEPT !.fields =
     << Entry("name", Str("eth0")), Entry("mac", Str("m0")),
        Entry("ethernet", Map(<<Entry("speed", U64(1000)), Entry("wol", Bool(TRUE))>>)) >>]

Found(devices, foreign) == [devices |-> devices, foreign |-> foreign]
MCInventories ==
  { Found(<<Lo, Eth0>>, <<>>), Found(<<Eth0>>, <<>>), Found(<<Eth0, Br0>>, <<>>),
    Found(<<Wlan0, Odd0>>, <<>>),
    Found(<<Veth0>>, <<>>), Found(<<>>, <<Tuned>>), Found(<<Br0>>, <<Woken>>),
    Found(<<Unreadable0>>, <<>>) }

-----------------------------------------------------------------------------
(* Extensions. *)

Qos == [WritableObject EXCEPT !.props = "classes" :> [Writable("array") EXCEPT !.items =
  << ObjectOf([handle |-> ReadOnly("integer"), rate |-> Writable("integer")]) >>]]
Ext(fragment, path, node) == [fragment |-> fragment, path |-> path, node |-> node]
MCExtensions ==
  { Ext("base", <<"qos">>, Qos),
    Ext("base", <<"qos", "burst">>, Writable("integer")),
    Ext("ipv4", <<"addresses", "label">>, Writable("string")),
    Ext("ethernet", <<"wol">>, Writable("boolean")),
    Ext("base", <<"ipv4", "dhcp4">>, WritableObject),
    Ext("ipv4", <<"dhcp4">>, WritableObject),
    Ext("base", <<"mtu">>, Writable("string")),
    Ext("vlan", <<"id">>, Writable("integer")),
    Ext("base", <<"vlan", "">>, Writable("integer")),
    Ext("base", <<"peer">>, [Writable("integer") EXCEPT !.cidr = TRUE]) }

-----------------------------------------------------------------------------
(* Edits and handwritten files. *)

Pair(key, value) == Entry(Text(key), value)
AddressesOf(text) ==
  Mapping(<<Pair("addresses", SeqOfYaml(<<Mapping(<<Pair("ip", Text(text))>>)>>))>>)

MCEdits ==
  { [key |-> "mtu", val |-> Num(9000)], [key |-> "mtu", val |-> Num(71501)],
    [key |-> "enabled", val |-> Flag(FALSE)], [key |-> "ethernet", val |-> Removed],
    [key |-> "name", val |-> Text("eth7")], [key |-> "type", val |-> Removed],
    [key |-> "match", val |-> Mapping(<<Pair("driver", Text("virtio"))>>)],
    [key |-> "ipv4", val |-> AddressesOf("n1/024")], [key |-> "ipv4", val |-> Mapping(<<>>)] }

Policy1(more) ==
  Mapping(<<Pair("kind", Text("policy")), Pair("name", Text("p")),
            Pair("match", Mapping(<<Pair("name", Text("eth0")), Pair("mac", Text("M0"))>>))>>
          \o more)
State1(more) == Mapping(<<Pair("name", Text("eth0"))>> \o more)
Matched(more) == Mapping(<<Pair("match", Mapping(<<Pair("mac", Text("M0"))>>))>> \o more)

Triggers1 ==
  << Pair("ipv4", Mapping(<<Pair("dhcp4", Mapping(<<Pair("send-hostname", Flag(TRUE))>>)),
                            Pair("addresses", SeqOfYaml(<<>>))>>)),
     Pair("ipv6", Mapping(<<Pair("ra", Mapping(<<Entry(Num(1), Text("x")),
                                                 Pair("1", Text("n1/24")),
                                                 Entry([float |-> "1.5"], Flag(TRUE))>>)),
                            Pair("dhcp6", Mapping(<<>>))>>)) >>

At1(file, document) == [file |-> file, document |-> document]
MCHandwritten ==
  { At1("query", State1(<<Pair("mtu", Num(1400)), Pair("ipv4", Mapping(<<>>))>>)),
    At1("query", SeqOfYaml(<<Matched(Triggers1), Matched(<<Pair("enabled", Flag(TRUE))>>)>>)),
    At1("query", [unreadable |-> TRUE]), At1("query", [empty |-> TRUE]),
    At1("query", State1(<<Entry([null |-> TRUE], Num(1))>>)),
    At1("a", SeqOfYaml(<<State1(<<Pair("mtu", Num(1400)), Pair("mac", Text("m0"))>>),
                         Matched(<<Pair("kind", Text("state")), Pair("priority", Num(7))>>
                                   \o Triggers1)>>)),
    At1("a", SeqOfYaml(<<Matched(<<Pair("enabled", Flag(TRUE))>>), Text("x")>>)),
    At1("a", Mapping(<<Pair("kind", Text("policy")), Pair("name", Text("a-1")),
                       Pair("match", Mapping(<<Pair("mac", Text("m0"))>>)),
                       Pair("enabled", Flag(TRUE))>>)),
    At1("a", State1(<<>>)),
    At1("a", Policy1(<<Pair("speed", Num(1))>>)),
    At1("a", Policy1(<<Pair("mtu", [null |-> TRUE])>>)),
    At1("a-1", Policy1(<<Pair("priority", Num(-5)),
                         Pair("metadata", Mapping(<<Pair("owner", Text("x"))>>))>> \o Triggers1)),
    At1("a-1", Policy1(<<Pair("mtu", Num(1400)), Pair("ipv4", AddressesOf("n2/24"))>>)),
    At1("a-1", Policy1(<<Pair("priority", Num(1001))>>)),
    At1("a-1", Policy1(<<Pair("metadata", SeqOfYaml(<<>>))>>)),
    At1("a-1", Policy1(<<Pair("ipv4", AddressesOf("v6/64"))>>)),
    At1("a-1", Matched(<<Pair("carrier", Flag(TRUE))>>)),
    At1("a-1", Matched(<<Pair("ipv4", Mapping(<<Pair("dhcp4", Mapping(<<>>))>>))>>)),
    At1("a-1", Mapping(<<Pair("kind", Text("policy")), Pair("name", Text("p"))>>)),
    At1("a-1", Mapping(<<Pair("kind", Text("other"))>>)),
    At1("a-1", [multi |-> TRUE]), At1("a-1", [malformed |-> TRUE]),
    At1("hidden", State1(<<Pair("mtu", Num(1400))>>)) }

FileAt(file, path, stem, symlink) ==
  [file |-> file, path |-> path, stem |-> stem, symlink |-> symlink, yaml |-> TRUE]
MCDirectory ==
  << FileAt("hidden", <<".old", "h.yaml">>, "h", FALSE),
     FileAt("a-1", <<"a-1.yaml">>, "a-1", FALSE),
     FileAt("a", <<"a.yaml">>, "a", FALSE), FileAt("query", <<"b", "query.yml">>, "query", FALSE) >>
MCHidden == {".old"}
MCMinPriority == -1000
=============================================================================
