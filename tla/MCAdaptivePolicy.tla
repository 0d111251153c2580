-------------------------- MODULE MCAdaptivePolicy --------------------------
(* Small instances of AdaptivePolicy: latencies are 2 (baseline) or 4.       *)
EXTENDS AdaptivePolicy

Obs(k, l) == [kind |-> k, latency |-> l]

MCMixed  == {Obs("success", 2), Obs("success", 4), Obs("timeout", 0),
             Obs("cancelled", 0)}
MCBinary == {Obs("success", 2), Obs("timeout", 0)}
=============================================================================
