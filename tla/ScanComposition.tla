-------------------------- MODULE ScanComposition --------------------------
(***************************************************************************)
(* One scan as a whole (scanner.rs): a list of targets, a two-phase scan   *)
(* or a discovery sweep is carried out as parts, one run of the probe      *)
(* scheduler per port and health check, whose results are merged into one  *)
(* row per address.  The rows reach the dashboard through an unbounded     *)
(* channel, the counters and events through a bounded one that drops what  *)
(* does not fit (tui/mod.rs add_result, apply_scan_progress).              *)
(***************************************************************************)
EXTENDS Naturals, SequencesExt

CONSTANTS
  Cidrs, Hosts,   \* an address is a pair of its CIDR and a host in it
  Runs,           \* the scans to check: [kind, ports, checks, required, hosts, probes, colo], where
                  \* kind is "list", "twoPhase" or "sweep", hosts bounds the addresses it may
                  \* scan, probes is the budget of one target in one part and colo says
                  \* whether prefer_colo is set
  DiscoverPer, FocusPer,  \* draws from a CIDR in the two phases
  FocusLimit,     \* two_phase_focus_cidrs
  Scores,         \* scores of a target that answered
  Cap             \* room in the progress channel

ASSUME CompositionAssumption ==
  /\ IsFiniteSet(Cidrs) /\ IsFiniteSet(Hosts)
  /\ Runs \subseteq [kind : {"list", "twoPhase", "sweep"}, ports : Nat \ {0}, checks : Nat,
                      required : SUBSET Nat, hosts : SUBSET Hosts, probes : Nat \ {0}, colo : BOOLEAN]
  /\ \A r \in Runs : r.required \subseteq 1..r.checks
  /\ {DiscoverPer, FocusPer, FocusLimit, Cap} \subseteq Nat \ {0}
  /\ Scores \subseteq Nat \ {0} /\ Scores # {}

Targets == Cidrs \X Hosts

VARIABLES
  run,                 \* what is scanned
  pc, pass, part,      \* the scan thread: what it does next, in which pass and part
  list,                \* targets of the pass
  actual,              \* targets of all passes so far
  probing, tries, reported,  \* the part: probes in flight, probes started, targets done
  seen,                \* [Targets -> [port, check, result] of the parts so far]
  held,                \* rows of the discovery pass, kept until it ends
  counts,              \* ProgressOffsets
  tx, progress,        \* the two channels
  cancel,
  rows, activity, dash, complete   \* the App

scan   == <<pc, pass, part, list, actual, probing, tries, reported, seen, held, counts>>
app    == <<rows, activity, dash, complete>>
vars   == <<run, scan, tx, progress, cancel, app>>

-----------------------------------------------------------------------------
(* Results and how they are merged.                                        *)

\* what one run of the scheduler over one port says of a target after done
\* probes: health_ok holds when one of them worked
Dead(done) == [works |-> FALSE, health |-> FALSE, score |-> 0, done |-> done]
Results(done) == {Dead(done)} \cup
                 [works : {TRUE}, health : {TRUE}, score : Scores, done : {done}]

Top(S) == CHOOSE r \in S : \A q \in S : q.score <= r.score

\* merge_port_results: the best healthy port, else the best that answered
MergePorts(S) ==
  LET healthy == {r \in S : r.health}
      working == {r \in S : r.works}
      best == IF healthy # {} THEN Top(healthy) ELSE IF working # {} THEN Top(working) ELSE Top(S)
  IN [best EXCEPT !.health = healthy # {}]

\* merge_profile_results: the required checks decide, all of them if none is
\* required; a required check that did not run has failed.  The score is a
\* weighted mean: any score among those of the checks.  The probes done add up.
MergeChecks(E) ==
  LET needed == {e \in E : e.check \in run.required}
      counted == IF needed = {} THEN E ELSE needed
  IN {[works |-> \E e \in counted : e.result.works,
       health |-> /\ \A c \in run.required : \E e \in E : e.check = c /\ e.result.works
                  /\ \E e \in E : e.result.works,
       score |-> s,
       done |-> Cardinality(UNION {{e} \X (1..e.result.done) : e \in counted})] :
        s \in {e.result.score : e \in counted}}

Row(r, merged) == [works |-> r.works, health |-> r.health, score |-> r.score, done |-> r.done,
                   merged |-> merged, fresh |-> TRUE]
NoRow == [works |-> FALSE, health |-> FALSE, score |-> 0, done |-> 0, merged |-> FALSE, fresh |-> FALSE]
OldRow == [works |-> TRUE, health |-> TRUE, score |-> 0, done |-> 0, merged |-> TRUE, fresh |-> FALSE]

-----------------------------------------------------------------------------
(* The scan thread.                                                        *)

Allowed == Cidrs \X run.hosts

\* a single port without checks: rows carry their port details at once
Direct == run.checks = 0 /\ run.ports = 1
Parts == run.ports * (IF run.checks = 0 THEN 1 ELSE run.checks)
Port == IF run.checks = 0 THEN part ELSE ((part - 1) \div run.checks) + 1
Check == IF run.checks = 0 THEN 0 ELSE ((part - 1) % run.checks) + 1

\* try_send: what does not fit is dropped
Notify(event, t, c, total) ==
  progress' = IF Len(progress) = Cap THEN progress
              ELSE Append(progress, [event |-> event, target |-> t, counts |-> c, total |-> total])

\* the rows of the discovery pass wait in a channel of their own
Forward(new) ==
  IF run.kind = "twoPhase" /\ pass = 1
  THEN held' = held \o new /\ UNCHANGED tx
  ELSE tx' = tx \o new /\ UNCHANGED held

\* a message for each target of S
Messages(S, row) == [i \in 1..Cardinality(S) |-> [target |-> SetToSeq(S)[i], row |-> row[SetToSeq(S)[i]]]]

NoTarget == <<>>
Outcomes(t) == {e.result : e \in {x \in seen[t] : x.port = Port /\ x.check = Check}}

\* run_discovery, then a scan of what it found; what it finds is another module's
Sweep ==
  /\ pc = "sweep"
  /\ \E found \in SUBSET Allowed :
       /\ list' = found /\ actual' = found
       /\ pc' = IF found = {} THEN "done" ELSE "part"
  /\ UNCHANGED <<run, pass, part, probing, tries, reported, seen, held, counts, tx, progress,
                 cancel, app>>

StartPart ==
  /\ pc = "part"
  /\ pc' = IF part > Parts \/ (cancel /\ ~Direct) THEN "merge" ELSE "run"
  /\ probing' = {} /\ reported' = {} /\ tries' = [t \in Targets |-> 0]
  /\ UNCHANGED <<run, pass, part, list, actual, seen, held, counts, tx, progress, cancel, app>>

Startable(t) == /\ pc = "run" /\ ~cancel /\ t \in list \ (probing \cup reported)
                /\ tries[t] < run.probes

StartProbe(t) ==
  /\ Startable(t)
  /\ probing' = probing \cup {t} /\ tries' = [tries EXCEPT ![t] = @ + 1]
  /\ counts' = [counts EXCEPT !.started = @ + 1]
  /\ Notify("started", t, counts', 0)
  /\ UNCHANGED <<run, pc, pass, part, list, actual, reported, seen, held, tx, cancel, app>>

\* a probe that does not end its target; the warmup request is one of them,
\* which reports no completion
CompleteProbe(t) ==
  /\ pc = "run" /\ t \in probing /\ tries[t] < run.probes
  /\ probing' = probing \ {t}
  /\ counts' = [counts EXCEPT !.completed = @ + 1]
  /\ Notify("completed", t, counts', 0) \/ UNCHANGED progress
  /\ UNCHANGED <<run, pc, pass, part, list, actual, tries, reported, seen, held, tx, cancel, app>>

\* the budget is spent, the target is given up early, or its client fails
FinishTarget(t) ==
  /\ pc = "run" /\ t \in probing
  /\ probing' = probing \ {t} /\ reported' = reported \cup {t}
  \* a target whose client cannot be built counts its whole budget as done
  /\ \E r \in Results(tries[t]) \cup {Dead(run.probes)} :
       /\ seen' = [seen EXCEPT ![t] = @ \cup {[port |-> Port, check |-> Check, result |-> r]}]
       /\ IF Direct THEN Forward(<<[target |-> t, row |-> Row(r, TRUE)]>>)
                    ELSE UNCHANGED <<tx, held>>
  /\ counts' = [counts EXCEPT !.completed = @ + 1, !.targets = IF Direct THEN @ + 1 ELSE @]
  /\ Notify("completed", t, counts', 0) \/ UNCHANGED progress
  /\ UNCHANGED <<run, pc, pass, part, list, actual, tries, cancel, app>>

\* A part ends when nothing is in flight, with some targets of the list perhaps
\* unreported, and when it is cancelled, which aborts what is in flight.
EndPart ==
  /\ pc = "run" /\ (probing = {} \/ cancel) /\ probing' = {}
  /\ pc' = "part" /\ part' = IF Direct THEN Parts + 1 ELSE part + 1
  /\ IF Direct THEN UNCHANGED <<tx, held>>
     ELSE Forward(Messages(reported, [t \in reported |-> Row(CHOOSE r \in Outcomes(t) : TRUE, FALSE)]))
  /\ Notify("none", NoTarget, counts, 0)
  /\ UNCHANGED <<run, pass, list, actual, tries, reported, seen, counts, cancel, app>>

\* the results of a target for each port: of the port itself, or merged from
\* the health checks run on it
PortResults(t) ==
  LET on(p) == {e \in seen[t] : e.port = p}
      tried == {p \in 1..run.ports : on(p) # {}}
  IN [p \in tried |-> IF run.checks = 0 THEN {e.result : e \in on(p)} ELSE MergeChecks(on(p))]

Merged(t) ==
  LET per == PortResults(t)
  IN {MergePorts({pick[p] : p \in DOMAIN per}) :
        pick \in {f \in [DOMAIN per -> UNION {per[p] : p \in DOMAIN per}] :
                    \A p \in DOMAIN per : f[p] \in per[p]}}

Merge ==
  /\ pc = "merge" /\ pc' = "passEnd"
  /\ LET done == {t \in list : seen[t] # {}}
     IN IF Direct THEN UNCHANGED <<counts, progress, tx, held>>
        ELSE /\ counts' = [counts EXCEPT !.targets = @ + Cardinality(done)]
             /\ Notify("none", NoTarget, counts', 0)
             /\ \E m \in [done -> UNION {Merged(t) : t \in done}] :
                  /\ \A t \in done : m[t] \in Merged(t)
                  /\ Forward(Messages(done, [t \in done |-> Row(m[t], TRUE)]))
  /\ UNCHANGED <<run, pass, part, list, actual, probing, tries, reported, seen, cancel, app>>

\* select_focus_cidrs: the CIDRs whose best score ranks within the limit, or
\* all those that answered from the preferred colo, which any of them may be
Best(c) == LET S == {e.result.score : e \in {x \in UNION {seen[t] : t \in {c} \X Hosts} :
                                               x.result.works}}
           IN IF S = {} THEN 0 ELSE CHOOSE s \in S : \A q \in S : q <= s
FocusSets ==
  LET found == {c \in Cidrs : Best(c) > 0}
      size == IF Cardinality(found) < FocusLimit THEN Cardinality(found) ELSE FocusLimit
  IN {F \in SUBSET found : \/ run.colo
                           \/ /\ Cardinality(F) = size
                              /\ \A c \in F, d \in found \ F : Best(d) <= Best(c)}

\* random draws from a CIDR, as a set: repeated draws give one target
Draws(per) == {S \in SUBSET Allowed : \A c \in Cidrs : Cardinality(S \cap ({c} \X Hosts)) <= per[c]}

NewTargets_Redrawn(S) == S
NewTargets(S) == S \ actual

EndPass ==
  /\ pc = "passEnd"
  /\ IF run.kind # "twoPhase" \/ pass = 2
     THEN pc' = "done" /\ UNCHANGED <<pass, part, list, actual, held, tx, progress>>
     ELSE /\ tx' = tx \o held /\ held' = <<>>
          /\ IF cancel
             THEN pc' = "done" /\ UNCHANGED <<pass, part, list, actual, progress>>
             ELSE \E focus \in FocusSets :
                    \E S \in Draws([c \in Cidrs |-> IF c \in focus THEN FocusPer ELSE DiscoverPer]) :
                      LET more == NewTargets(S)
                      IN IF more = {}
                         THEN pc' = "done" /\ UNCHANGED <<pass, part, list, actual, progress>>
                         ELSE /\ actual' = actual \cup more /\ list' = more
                              /\ Notify("none", NoTarget, [started |-> 0, completed |-> 0, targets |-> 0],
                                        Cardinality(actual'))
                              /\ pc' = "part" /\ pass' = 2 /\ part' = 1
  /\ UNCHANGED <<run, probing, tries, reported, seen, counts, cancel, app>>

Cancel ==
  /\ ~cancel /\ pc # "done" /\ cancel' = TRUE
  /\ UNCHANGED <<run, scan, tx, progress, app>>

-----------------------------------------------------------------------------
(* The App.                                                                *)

Hides_Never(old, new) == FALSE
Hides_All(old, new) == old.works /\ ~new.works /\ ~complete
\* a partial row that failed does not replace one that works
Hides(old, new) == old.works /\ ~new.works /\ ~complete /\ ~new.merged

Larger(m, n) == IF m < n THEN n ELSE m

\* a result counts at least its own probes
Counted(a, completed) == [started |-> Larger(a.started, completed), completed |-> completed]

AddResult ==
  /\ tx # <<>> /\ tx' = Tail(tx)
  /\ LET m == Head(tx)
     IN /\ rows' = IF Hides(rows[m.target], m.row) THEN rows ELSE [rows EXCEPT ![m.target] = m.row]
        /\ activity' = [activity EXCEPT ![m.target] = Counted(@, Larger(@.completed, m.row.done))]
  /\ UNCHANGED <<run, scan, progress, cancel, dash, complete>>

\* apply_event_to_activity: a completion proves the start that may be lost
After(a, event) ==
  CASE event = "started"   -> [a EXCEPT !.started = @ + 1]
    [] event = "completed" -> Counted(a, a.completed + 1)
    [] OTHER               -> a

\* apply_scan_progress
AddProgress ==
  /\ progress # <<>> /\ progress' = Tail(progress)
  /\ LET p == Head(progress)
     IN /\ dash' = [started   |-> Larger(dash.started, p.counts.started),
                    completed |-> Larger(dash.completed, p.counts.completed),
                    targets   |-> Larger(dash.targets, p.counts.targets),
                    total     |-> IF p.total = 0 THEN dash.total ELSE p.total]
        /\ activity' = [t \in Targets |-> IF t = p.target THEN After(activity[t], p.event)
                                                         ELSE activity[t]]
  /\ UNCHANGED <<run, scan, tx, cancel, rows, complete>>

\* the thread is joined once it ended and its rows are received
JoinScan ==
  /\ pc = "done" /\ tx = <<>> /\ ~complete /\ complete' = TRUE
  /\ UNCHANGED <<run, scan, tx, progress, cancel, rows, activity, dash>>

-----------------------------------------------------------------------------
Init ==
  /\ run \in Runs
  /\ pass = 1 /\ part = 1
  /\ IF run.kind = "sweep" THEN pc = "sweep" /\ list = {}
     ELSE pc = "part" /\ list \in IF run.kind = "twoPhase" THEN Draws([c \in Cidrs |-> DiscoverPer]) \ {{}}
                                                       ELSE SUBSET Allowed \ {{}}
  /\ actual = list
  /\ probing = {} /\ tries = [t \in Targets |-> 0] /\ reported = {}
  /\ seen = [t \in Targets |-> {}] /\ held = <<>>
  /\ counts = [started |-> 0, completed |-> 0, targets |-> 0]
  /\ tx = <<>> /\ progress = <<>> /\ cancel = FALSE /\ complete = FALSE
  \* a targeted rerun keeps the rows of the run before
  /\ rows \in {[t \in Targets |-> old] : old \in IF run.kind = "list" THEN {NoRow, OldRow} ELSE {NoRow}}
  /\ activity = [t \in Targets |-> [started |-> 0, completed |-> 0]]
  /\ dash = [started |-> 0, completed |-> 0, targets |-> 0, total |-> 0]

Next ==
  \/ Sweep \/ StartPart \/ EndPart \/ Merge \/ EndPass \/ Cancel
  \/ \E t \in Targets : StartProbe(t) \/ CompleteProbe(t) \/ FinishTarget(t)
  \/ AddResult \/ AddProgress \/ JoinScan
  \/ complete /\ progress = <<>> /\ UNCHANGED vars

Spec == Init /\ [][Next]_vars

-----------------------------------------------------------------------------
(* Properties.                                                             *)

Worked(t, p, c) == \E e \in seen[t] : e.port = p /\ (c = 0 \/ e.check = c) /\ e.result.works

\* When the scan is joined, every address that any part reported has its
\* merged row, whatever rows of the parts or of an earlier run came before it:
\* healthy iff on one and the same port something answered and every required
\* health check did.
TableSettles ==
  complete => \A t \in Targets : seen[t] # {} =>
    /\ rows[t].merged /\ rows[t].fresh
    /\ rows[t].health <=> \E p \in 1..run.ports : /\ Worked(t, p, 0)
                                               /\ \A c \in run.required : Worked(t, p, c)
    /\ run.checks = 0 => (rows[t].works <=> \E p \in 1..run.ports : Worked(t, p, 0))

\* An address shown as working in this run does not turn into a failed one
\* while its other ports are scanned, nor by the merged row.
WorkingStays ==
  [][\A t \in Targets : run.checks = 0 /\ rows[t].fresh /\ rows[t].works => rows'[t].works]_vars

\* Snapshots and events may be lost, yet what the dashboard shows is never
\* impossible: no more probes completed than started, of the scan and of each
\* target, and no target counted twice.
CountsHonest ==
  /\ dash.completed <= dash.started
  /\ \A t \in Targets : activity[t].completed <= activity[t].started
  /\ dash.targets <= Cardinality(actual)
  /\ dash.total # 0 => dash.targets <= dash.total
=============================================================================
