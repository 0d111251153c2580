------------------------------- MODULE Routes -------------------------------
(***************************************************************************)
(* Through which interface a connection leaves (iface.rs).  A table is the *)
(* sequence of the machine's interfaces by name, each a record [name,      *)
(* kind, addrs]: kind is what the name makes of it, "uplink", "vpn" or     *)
(* "virtual"; an address is [v, link, id] with its family and its scope,   *)
(* "global", "link" or "loopback".                                         *)
(***************************************************************************)
EXTENDS Integers, SequencesExt

Unpinned == "auto"            \* no interface is pinned
NoAddr == [v |-> 0, link |-> "none", id |-> 0]
Families == {4, 6}

Exists(table, name) == \E i \in DOMAIN table : table[i].name = name
Entry(table, name) == table[CHOOSE i \in DOMAIN table : table[i].name = name]

\* the addresses of an interface
IsTable(addrs) == addrs \in Seq([v : Families, link : {"global", "link", "loopback"}, id : Nat])

OffLink(a) == a.link = "global"
Family(addrs, v) == {k \in DOMAIN addrs : addrs[k].v = v}
Foremost(places) == CHOOSE k \in places : \A j \in places : k <= j

\* preferred_addresses: an address that reaches beyond the link, or else the
\* first of the family
First(addrs, places) == IF places = {} THEN NoAddr ELSE addrs[Foremost(places)]
Preferred_First(addrs, v) == First(addrs, Family(addrs, v))
Preferred(addrs, v) ==
  LET far == {k \in Family(addrs, v) : OffLink(addrs[k])}
  IN First(addrs, IF far # {} THEN far ELSE Family(addrs, v))

\* interface_addrs; AutoRoutes when nothing is pinned
AutoRoutes == [v \in Families |-> NoAddr]
InterfaceAddrs(table, name) == [v \in Families |-> Preferred(Entry(table, name).addrs, v)]

\* validate_target_families
ServesFamilies(bound, targets) == \A t \in targets : bound[t[1]] # NoAddr

\* bypass_vpn_interface: the first uplink that is usable, or a virtual device
Usable(i) ==
  /\ i.kind # "vpn" /\ \A k \in DOMAIN i.addrs : i.addrs[k].link # "loopback"
  /\ \E v \in Families : OffLink(Preferred(i.addrs, v))
Bypass(table) ==
  LET usable == {i \in DOMAIN table : Usable(table[i])}
      uplinks == {i \in usable : table[i].kind # "virtual"}
  IN IF usable = {} THEN Unpinned ELSE table[Foremost(IF uplinks # {} THEN uplinks ELSE usable)].name

\* bind_connect: the address of the family of a target, or the default route
\* when there is none
Pick(bound, target) == bound[target[1]]
=============================================================================
