------------------------- MODULE MCScanComposition -------------------------
(***************************************************************************)
(* ScanComposition on small instances: CIDRs and hosts are model values,   *)
(* and each run varies the number of ports, health checks, addresses and   *)
(* probes its question needs.                                              *)
(***************************************************************************)
EXTENDS ScanComposition, TLC

CONSTANTS h1, h2

R(kind, ports, required, checks, hosts, probes) ==
  [kind |-> kind, ports |-> ports, checks |-> checks, required |-> required,
   hosts |-> hosts, probes |-> probes, colo |-> kind = "twoPhase" /\ ports = 2]

MCRuns ==
  { R("list", 2, {}, 0, {h1}, 2),        \* two ports, a partial row of each
    R("list", 1, {}, 2, {h1}, 1),        \* health checks, none or one of them required
    R("list", 1, {1}, 2, {h1}, 1),
    R("list", 2, {1, 2}, 2, {h1}, 1),    \* both required, on two ports
    R("list", 1, {}, 0, {h1, h2}, 1),    \* two addresses in one part
    R("twoPhase", 1, {}, 0, {h1, h2}, 2),
    R("twoPhase", 2, {}, 0, {h1, h2}, 1),
    R("sweep", 1, {}, 0, {h1, h2}, 1) }
=============================================================================
