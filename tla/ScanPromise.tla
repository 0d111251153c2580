---------------------------- MODULE ScanPromise ----------------------------
(***************************************************************************)
(* What one scan promises the code that started it, seen from the result   *)
(* channel: every target is reported at most once while the scan runs, a   *)
(* target that cannot be parsed is reported at once, and a scan ends       *)
(* complete when each target is reported or lost.  A target is lost only   *)
(* by what the scan is exposed to (Risks), and a scan that was not         *)
(* cancelled breaks off only when it was resumed at the wrong moment.      *)
(***************************************************************************)

CONSTANTS
  Targets,    \* the targets of the scan
  Immediate,  \* those of them whose result is known before any probe
  Risks       \* "warmup": a target is lost when its warmup succeeds;
              \* "panic": when a task panics; "leaderboard": the scan fails

VARIABLES
  reported,   \* the targets whose result was sent
  tried,      \* the targets of which a probe was accounted for
  lost,       \* the targets that no later step will report
  resumed,    \* was the scan resumed with nothing in flight?
  outcome     \* "running", or how the scan ended

vars == <<reported, tried, lost, resumed, outcome>>

Init ==
  /\ reported = Immediate
  /\ tried = Immediate
  /\ lost = {}
  /\ resumed = FALSE
  /\ outcome = "running"

Open == Targets \ (reported \cup lost)

(* A probe of an open target is accounted for, and may be its last. *)
Progress ==
  /\ outcome = "running"
  /\ \E t \in Open :
       /\ tried' = tried \cup {t}
       /\ reported' \in {reported, reported \cup {t}}
  /\ UNCHANGED <<lost, resumed, outcome>>

Lose ==
  /\ outcome = "running"
  /\ \E t \in Open :
       /\ \/ "panic" \in Risks
          \/ "warmup" \in Risks /\ t \notin tried
       /\ lost' = lost \cup {t}
  /\ UNCHANGED <<reported, tried, resumed, outcome>>

Resume ==
  /\ outcome = "running"
  /\ resumed' = TRUE
  /\ UNCHANGED <<reported, tried, lost, outcome>>

Complete ==
  /\ outcome = "running"
  /\ Open = {}
  /\ outcome' = "complete"
  /\ UNCHANGED <<reported, tried, lost, resumed>>

BreakOff ==
  /\ outcome = "running"
  /\ resumed
  /\ outcome' = "broken"
  /\ UNCHANGED <<reported, tried, lost, resumed>>

(* The probes in flight are dropped, and their targets with them. *)
Abandon ==
  /\ outcome = "running"
  /\ outcome' \in {"cancelled"} \cup (IF "leaderboard" \in Risks
                                       THEN {"failed"} ELSE {})
  /\ lost \subseteq lost'
  /\ lost' \subseteq Targets \ reported
  /\ UNCHANGED <<reported, tried, resumed>>

Next == Progress \/ Lose \/ Resume \/ Complete \/ BreakOff \/ Abandon

Spec == Init /\ [][Next]_vars
=============================================================================
