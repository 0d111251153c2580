-------------------------------- MODULE Sweep --------------------------------
(***************************************************************************)
(* From address ranges to targets: the connect sweep (discovery.rs), the   *)
(* raw SYN sweep (syn.rs) and random sampling (scanner.rs).  Both sweeps   *)
(* pull every address of the ranges from one lazy enumerator, which skips  *)
(* what an earlier range already yielded.  Connects, those of the sweep    *)
(* and those of the scan of a sample, leave through a pinned interface.    *)
(***************************************************************************)
EXTENDS Routes

CONSTANTS
  SourceLists,  \* the lists of sources to check, each a sequence of
                \* [net, v, base, size]: a network of so many addresses, or one
  Modes,        \* subset of {"connect", "syn", "sample"}
  Ports,        \* sequence of the ports to try
  Servers,      \* pairs <<address, port>> that may accept connections
  Strangers,    \* addresses this machine opens connections of its own to
  Concurrency,  \* connects in flight
  WindowIps,    \* addresses in one window of SYN frames
  Retransmits,  \* further passes over a window
  PortSpace,    \* source ports are 1..PortSpace
  MaxWire,      \* bound: answers under way at a time, others are lost
  SamplePer,    \* sample_per_cidr
  Machines      \* tables of interfaces and what may be pinned, [table, pins]

Source == [net : BOOLEAN, v : Families, base : Nat, size : Nat \ {0}]

ASSUME SweepAssumption ==
  /\ \A list \in SourceLists : /\ list \in Seq(Source)
                              /\ \A i \in DOMAIN list : list[i].net \/ list[i].size = 1
  /\ Modes \subseteq {"connect", "syn", "sample"}
  /\ {Concurrency, WindowIps, PortSpace, MaxWire, SamplePer} \subseteq Nat \ {0}
  /\ Ports \in Seq(Nat) /\ Ports # <<>>
  /\ Retransmits \in Nat /\ WindowIps * Len(Ports) <= PortSpace
  /\ \A m \in Machines : \A i \in DOMAIN m.table : IsTable(m.table[i].addrs)

VARIABLES
  mode, sources, listening, cancel, \* what the sweep is given
  table,                            \* the interfaces of the machine
  pc,
  index, head, rest, priorIps, priorNets,  \* AddressEnumerator
  inFlight,                         \* connect: [address -> port it is tried on, 0 at first]
  window, base, pass, next,         \* syn: the window, its ports, how far it is sent
  wire,                             \* syn: replies under way, [from, kind, to]
  found, attempted, shown,          \* the result, and the last total and attempted sent
  lost, pinned,                     \* names of the interfaces gone since, the one pinned
  bound, routes                     \* addresses resolved for it, and connects [to, via] made

input  == <<mode, sources, listening, table>>
walk   == <<index, head, rest, priorIps, priorNets>>
burst  == <<window, base, pass, next>>
result == <<found, attempted, shown>>
path   == <<lost, pinned, bound, routes>>
sweepVars   == <<input, cancel, pc, walk, inFlight, burst, wire, result, path>>

-----------------------------------------------------------------------------
(* Addresses: pairs of a family and a number.                              *)

Net(s) == [i \in 1..s.size |-> <<s.v, s.base + i - 1>>]

\* IpNet::hosts: without network and broadcast address for IPv4 below /31
Trimmed(s) == s.net /\ s.v = 4 /\ s.size > 2
Hosts(s) == IF Trimmed(s) THEN SubSeq(Net(s), 2, s.size - 1) ELSE Net(s)

\* net_host_count, cidr_address_count
HostCount(s) == IF Trimmed(s) THEN s.size - 2 ELSE s.size

\* net_hosts_contains
HostsContain_Prefix(s, a) == a \in Range(Net(s))
HostsContain(s, a) == a \in Range(Hosts(s))

\* random_ip_from_net: in IPv6 too the first and the last address are never drawn
Drawable(s) == IF s.net /\ s.size > 2 THEN Range(SubSeq(Net(s), 2, s.size - 1)) ELSE Range(Net(s))

Smaller(m, n) == IF m < n THEN m ELSE n

\* enumerated_address_count, and workload_for_cidrs of a sample: the sum over the
\* sources, as the number of places they offer
Announced(s) == IF mode = "sample" THEN Smaller(s.size, SamplePer) ELSE HostCount(s)
Total == Cardinality(UNION {{i} \X (1..Announced(sources[i])) : i \in DOMAIN sources})

-----------------------------------------------------------------------------
(* AddressEnumerator.                                                      *)

None == <<>>
Covered(a) == a \in priorIps \/ \E s \in priorNets : HostsContain(s, a)

\* the loop of next() as steps: a source is opened and, once it is walked, a
\* network is one that later sources are compared with
OpenSource ==
  /\ head = None /\ rest = <<>> /\ index < Len(sources)
  /\ index' = index + 1
  /\ LET s == sources[index + 1]
     IN rest' = Tail(Hosts(s)) /\ head' = Head(Hosts(s))
  /\ UNCHANGED <<priorIps, priorNets>>

\* the address after head, in the source that is open
Step ==
  LET s == sources[index]
  IN /\ IF rest = <<>> THEN head' = None /\ UNCHANGED rest
                       ELSE head' = Head(rest) /\ rest' = Tail(rest)
     /\ priorNets' = IF rest = <<>> /\ s.net THEN priorNets \cup {s} ELSE priorNets
     /\ priorIps' = IF s.net THEN priorIps ELSE priorIps \cup {head}
     /\ UNCHANGED index

Exhausted == head = None /\ index = Len(sources)

Walk ==
  /\ pc \in {"connect", "collect"}
  /\ OpenSource \/ (head # None /\ Covered(head) /\ Step)
  /\ UNCHANGED <<input, cancel, pc, inFlight, burst, wire, result, path>>

-----------------------------------------------------------------------------
(* What either sweep reports.                                              *)

Report(n) == attempted' = n /\ shown' = [attempted |-> n, total |-> Total]

Done == pc' = "done"

\* an interface there is now
There(name) == name \notin lost /\ Exists(table, name)
Resolved(name) == IF name = Unpinned THEN AutoRoutes ELSE InterfaceAddrs(table, name)

LinkLost ==
  /\ pc \notin {"done", "failed"} /\ pinned # Unpinned /\ pinned \notin lost
  /\ lost' = lost \cup {pinned}
  /\ UNCHANGED <<input, cancel, pc, walk, inFlight, burst, wire, result, pinned, bound, routes>>

\* an interface that is not there: an error when --interface names it, the
\* default route when the configuration file does
Validate ==
  /\ pc = "start"
  /\ \/ pc' = "begin" /\ pinned' = IF There(pinned) THEN pinned ELSE Unpinned
     \/ pinned # Unpinned /\ ~There(pinned) /\ pc' = "failed" /\ UNCHANGED pinned
  /\ UNCHANGED <<input, cancel, walk, inFlight, burst, wire, result, lost, bound, routes>>

Begin ==
  /\ pc = "begin"
  /\ Report(0) /\ UNCHANGED found
  /\ \/ /\ mode = "connect"
        /\ IF pinned = Unpinned \/ There(pinned)
           THEN pc' = "connect" /\ bound' = Resolved(pinned)
           ELSE pc' = "failed" /\ UNCHANGED bound
     \/ mode = "sample" /\ pc' = "sample" /\ UNCHANGED bound
     \* raw frames need root, an Ethernet link with a gateway that answers ARP,
     \* and IPv4 sources only
     \/ /\ mode = "syn" /\ (\A i \in DOMAIN sources : sources[i].v = 4) /\ pc' = "window"
        /\ UNCHANGED bound
     \/ mode = "syn" /\ pc' = "failed" /\ UNCHANGED bound
  /\ UNCHANGED <<input, cancel, walk, inFlight, burst, wire, lost, pinned, routes>>

Cancel ==
  /\ ~cancel /\ pc \notin {"done", "failed"} /\ cancel' = TRUE
  /\ UNCHANGED <<input, pc, walk, inFlight, burst, wire, result, path>>

-----------------------------------------------------------------------------
(* connect_sweep: a stream of connects, at most Concurrency at a time.     *)

Flying(a) == [b \in DOMAIN inFlight \cup {a} |-> IF b = a THEN 0 ELSE inFlight[b]]

\* the stream ends at the first address pulled after the cancellation
Launch ==
  /\ pc = "connect" /\ head # None /\ ~Covered(head)
  /\ Cardinality(DOMAIN inFlight) < Concurrency
  /\ IF cancel THEN pc' = "drain" /\ UNCHANGED inFlight
               ELSE inFlight' = Flying(head) /\ UNCHANGED pc
  /\ Step
  /\ UNCHANGED <<input, cancel, burst, wire, result, path>>

Ended(a, reachable) ==
  /\ inFlight' = [b \in DOMAIN inFlight \ {a} |-> inFlight[b]]
  /\ found' = IF reachable THEN found \cup {a} ELSE found
  /\ attempted' = attempted + 1
  /\ shown' \in {shown, [attempted |-> attempted + 1, total |-> Total]}

\* a connect that was waiting for its first turn when the sweep is cancelled
\* is not made
Dial(a) ==
  /\ pc \in {"connect", "drain"} /\ a \in DOMAIN inFlight /\ inFlight[a] = 0
  /\ IF cancel THEN Ended(a, FALSE) /\ UNCHANGED routes
     ELSE /\ inFlight' = [inFlight EXCEPT ![a] = 1] /\ UNCHANGED result
          /\ routes' = routes \cup {[to |-> a, via |-> Pick(bound, a)]}
  /\ UNCHANGED <<input, cancel, pc, walk, burst, wire, lost, pinned, bound>>

\* what a connect may come to: a refusal proves the host up, yet the port closed
Outcomes == {"accepted", "refused", "timeout"}
Reachable_Up(o) == o # "timeout"
Reachable(o) == o = "accepted"

\* an address that is gone cannot be bound
Bindable(via) ==
  via = NoAddr \/ \E i \in DOMAIN table : There(table[i].name) /\ via \in Range(table[i].addrs)

Answer(a, o) ==
  /\ pc \in {"connect", "drain"} /\ a \in DOMAIN inFlight /\ inFlight[a] # 0
  /\ o = "accepted" => <<a, Ports[inFlight[a]]>> \in listening /\ Bindable(Pick(bound, a))
  /\ IF Reachable(o) \/ inFlight[a] = Len(Ports)
     THEN Ended(a, Reachable(o))
     ELSE inFlight' = [inFlight EXCEPT ![a] = @ + 1] /\ UNCHANGED result
  /\ UNCHANGED <<input, cancel, pc, walk, burst, wire, path>>

EndConnect ==
  /\ inFlight = <<>>
  /\ pc = "drain" \/ (pc = "connect" /\ Exhausted)
  /\ Done /\ Report(attempted) /\ UNCHANGED found
  /\ UNCHANGED <<input, cancel, walk, inFlight, burst, wire, path>>

-----------------------------------------------------------------------------
(* syn_sweep: a window of addresses, each pair of address and port with a  *)
(* source port of its own, sent Retransmits + 1 times.                     *)

NextWindow ==
  /\ pc = "window"
  /\ IF cancel THEN Done ELSE pc' = "collect"
  /\ window' = <<>>
  /\ UNCHANGED <<input, cancel, walk, inFlight, base, pass, next, wire, result, path>>

Collect ==
  /\ pc = "collect" /\ head # None /\ ~Covered(head) /\ Len(window) < WindowIps
  /\ window' = Append(window, head) /\ Step
  /\ UNCHANGED <<input, cancel, pc, inFlight, base, pass, next, wire, result, path>>

Pairs == Len(window) * Len(Ports)

CloseWindow ==
  /\ pc = "collect"
  /\ Len(window) = WindowIps \/ Exhausted
  /\ pass' = 0 /\ next' = 0
  /\ IF window = <<>> THEN Done /\ UNCHANGED base
     ELSE pc' = "send" /\ base' \in 1..(PortSpace - Pairs + 1)
  /\ UNCHANGED <<input, cancel, walk, inFlight, window, wire, result, path>>

OnWire(more) == Cardinality(more) <= MaxWire /\ wire' = more

\* the answer may be lost; a closed port answers with a reset
Send ==
  /\ pc = "send"
  /\ IF cancel \/ next = Pairs
     THEN pc' = "receive" /\ UNCHANGED <<next, wire>>
     ELSE LET a == window[(next \div Len(Ports)) + 1]
              kind == IF <<a, Ports[(next % Len(Ports)) + 1]>> \in listening THEN "synack" ELSE "rst"
              more == wire \cup {[from |-> a, kind |-> kind, to |-> base + next]}
          IN /\ UNCHANGED wire \/ OnWire(more)
             /\ next' = next + 1 /\ UNCHANGED pc
  /\ UNCHANGED <<input, cancel, walk, inFlight, window, base, pass, result, path>>

\* another program of this machine opens a connection from a port that the
\* kernel picks: the peer's answer is captured with those to the sweep
Stray(a, p) ==
  /\ pc \in {"send", "receive"}
  /\ OnWire(wire \cup {[from |-> a, kind |-> "synack", to |-> p]})
  /\ UNCHANGED <<input, cancel, pc, walk, inFlight, burst, result, path>>

\* parse_syn_ack and the range of the window, whoever answers: an answer to an
\* earlier window may come late and to a port that is in use again
Accepted(m) == m.kind = "synack" /\ m.to \in base..(base + Pairs - 1)

Receive(m) ==
  /\ pc = "receive" /\ ~cancel /\ m \in wire /\ wire' = wire \ {m}
  /\ found' = IF Accepted(m) THEN found \cup {m.from} ELSE found
  /\ UNCHANGED <<input, cancel, pc, walk, inFlight, burst, attempted, shown, path>>

\* reply_wait is over
EndPass ==
  /\ pc = "receive"
  /\ IF pass < Retransmits /\ ~cancel
     THEN pc' = "send" /\ pass' = pass + 1 /\ next' = 0 /\ UNCHANGED result
     ELSE /\ pc' = "window" /\ UNCHANGED <<pass, next, found>>
          /\ Report(attempted + Len(window))
  /\ UNCHANGED <<input, cancel, walk, inFlight, window, base, wire, path>>

\* a frame cannot be sent or the capture cannot be read: nothing is returned
Fail ==
  /\ mode = "syn" /\ pc \in {"send", "receive"}
  /\ pc' = "failed" /\ found' = {}
  /\ UNCHANGED <<input, cancel, walk, inFlight, burst, wire, attempted, shown, path>>

-----------------------------------------------------------------------------
(* collect_targets_with_seed: draws with replacement, as a set.            *)

Sample ==
  /\ pc = "sample"
  /\ IF index = Len(sources) THEN pc' = "scan" /\ UNCHANGED <<index, result>>
     ELSE LET s == sources[index + 1]
          IN /\ index' = index + 1 /\ UNCHANGED pc
             /\ \E D \in SUBSET Drawable(s) :
                  /\ Cardinality(D) \in 1..SamplePer
                  /\ found' = found \cup D
             /\ attempted' = Cardinality(found') /\ UNCHANGED shown
  /\ UNCHANGED <<input, cancel, head, rest, priorIps, priorNets, inFlight, burst, wire, path>>

\* resolve_scan_interface: the scan of the sample leaves by the default route
\* as a whole when the interface cannot serve every family of it
Scan ==
  /\ pc = "scan" /\ Done
  /\ bound' = IF \/ pinned # Unpinned /\ ~There(pinned)
                \/ ~ServesFamilies(Resolved(pinned), found)
             THEN AutoRoutes ELSE Resolved(pinned)
  /\ routes' = {[to |-> a, via |-> Pick(bound', a)] : a \in found}
  /\ UNCHANGED <<input, cancel, walk, inFlight, burst, wire, result, lost, pinned>>

-----------------------------------------------------------------------------
SweepInit ==
  /\ mode \in Modes /\ sources \in SourceLists
  /\ listening \in IF mode = "sample" THEN {{}} ELSE SUBSET Servers
  /\ cancel = FALSE /\ pc = "start"
  /\ index = 0 /\ head = None /\ rest = <<>> /\ priorIps = {} /\ priorNets = {}
  /\ inFlight = <<>> /\ window = <<>> /\ base = 1 /\ pass = 0 /\ next = 0 /\ wire = {}
  /\ \E m \in IF mode = "syn" THEN {[table |-> <<>>, pins |-> {}]} ELSE Machines :
       table = m.table /\ pinned \in m.pins \cup {Bypass(m.table)}
  /\ lost = {} /\ bound = AutoRoutes /\ routes = {}
  /\ found = {} /\ attempted = 0 /\ shown = [attempted |-> 0, total |-> 0]

SweepNext ==
  \/ Validate \/ LinkLost \/ Begin \/ Walk \/ Cancel \/ Launch \/ EndConnect
  \/ \E a \in DOMAIN inFlight : Dial(a)
  \/ \E a \in DOMAIN inFlight, o \in Outcomes : Answer(a, o)
  \/ NextWindow \/ Collect \/ CloseWindow \/ Send \/ EndPass \/ Fail
  \/ \E m \in wire : Receive(m)
  \/ \E a \in Strangers, p \in 1..PortSpace : Stray(a, p)
  \/ Sample \/ Scan
  \/ pc \in {"done", "failed"} /\ UNCHANGED sweepVars

SweepSpec == SweepInit /\ [][SweepNext]_sweepVars

-----------------------------------------------------------------------------
(* Properties.                                                             *)

Candidates == UNION {Range(Hosts(sources[i])) : i \in DOMAIN sources}

\* However answers are lost, late or addressed to a port of a later window,
\* and however ranges overlap: a target found by a sweep belongs to the ranges
\* and accepts connections on a probe port.  The exception: a SYN sweep also
\* takes the peer of another connection of this machine, whose answer goes to
\* a port of the window (drain_replies does not look at who answers).
FoundListens ==
  \A a \in found :
    \/ a \in Candidates /\ \E i \in DOMAIN Ports : <<a, Ports[i]>> \in listening
    \/ mode = "syn" /\ a \in Strangers
    \/ mode = "sample"

\* What syn.rs says of syn_sweep: it collects the addresses, of its unique
\* candidates, that answer.  The code does not keep it (see FoundListens).
FoundInRanges == mode = "syn" => found \subseteq Candidates

\* A sweep that is not cancelled tries every host address of every range, and
\* one that several ranges share only once (AddressEnumerator: "Lazily yields
\* every unique candidate address exactly once"); its progress never exceeds
\* the total announced before the first address, which is computed from the
\* sizes alone, nor does a sample its estimate (workload_for_cidrs).
SweptOnce ==
  /\ pc = "done" /\ ~cancel /\ mode # "sample" =>
       attempted = Cardinality(Candidates)
  /\ shown.total # 0 => attempted <= shown.total /\ shown.attempted <= attempted

\* A connect leaves from an address of the pinned interface, one that reaches
\* beyond the link when the interface has one of the family.  The sweep takes
\* the default route for a family the interface lacks; the scan takes it for
\* all of its targets or for none (iface.rs:3, scanner.rs:1661).
RoutesPinned ==
  /\ \A r \in routes :
       LET addrs == Entry(table, pinned).addrs
           own   == Family(addrs, r.to[1])
       IN IF r.via # NoAddr
          THEN /\ pinned # Unpinned /\ \E k \in own : r.via = addrs[k]
               /\ OffLink(r.via) \/ \A k \in own : ~OffLink(addrs[k])
          ELSE mode = "connect" /\ pinned # Unpinned => own = {}
  /\ mode = "sample" => \A r, q \in routes : r.via = NoAddr <=> q.via = NoAddr
=============================================================================
