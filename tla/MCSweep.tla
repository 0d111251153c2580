------------------------------ MODULE MCSweep ------------------------------
(* Sweep over pairs of small networks that overlap, touch or are the same. *)
EXTENDS Sweep

S(net, v, b, bits) == [net |-> net, v |-> v, base |-> b, size |-> 2 ^ bits]

\* an address, a /31, a /30 and the /29 around it; the same for IPv6
MCSources == {S(FALSE, 4, 3, 0), S(TRUE, 4, 2, 1), S(TRUE, 4, 0, 2), S(TRUE, 4, 0, 3)}
MCLists == {<<s, t>> : s, t \in MCSources \ {S(TRUE, 4, 0, 3)}}
           \cup {<<S(TRUE, 4, 0, 3), S(TRUE, 4, 0, 2)>>, <<S(TRUE, 4, 2, 1), S(TRUE, 4, 0, 3)>>}
           \cup {<<s, S(TRUE, 6, 0, 2)>> : s \in {S(FALSE, 6, 1, 0), S(TRUE, 6, 0, 2)}}
           \cup {<<S(TRUE, 4, 0, 2), S(TRUE, 6, 0, 1)>>}
MCPorts == <<443, 8443>>
\* one outside the ranges, and one that listens on another port only
MCStrangers == {<<4, 9>>, <<4, 1>>}
MCServers == {<<<<4, 3>>, 443>>, <<<<4, 2>>, 8443>>, <<<<6, 1>>, 443>>}

A(v, link, id) == [v |-> v, link |-> link, id |-> id]
I(name, kind, addrs) == [name |-> name, kind |-> kind, addrs |-> addrs]

\* a link-local address before the one that is wanted, an interface with one
\* family, which is what avoids the tunnel, and one that is lost at any point
Bridge == I("br0", "virtual", <<A(6, "link", 1), A(4, "global", 2), A(6, "global", 3)>>)
Uplink == I("en0", "uplink", <<A(4, "link", 4), A(4, "global", 5)>>)
Local == I("lo", "uplink", <<A(4, "loopback", 6)>>)
Tunnel == I("tun0", "vpn", <<A(4, "global", 7), A(6, "global", 8)>>)
MCMachines == {[table |-> <<Bridge, Uplink, Local, Tunnel>>, pins |-> {"br0"}]}
=============================================================================
