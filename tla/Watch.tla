-------------------------------- MODULE Watch --------------------------------
(***************************************************************************)
(* Watch mode of the command line: cli_watch in src/main.rs and the state  *)
(* it keeps, WatchState in src/watch.rs.  Every cycle scans the targets,   *)
(* moves the recommendation, replaces the manifest file, decides on alerts *)
(* and saves the state.  The process may stop between any two of these     *)
(* steps and be started again; only the two files survive.                 *)
(*                                                                         *)
(* The result of a scan is a score for every target, 0 for one that is     *)
(* missing, filtered out or not healthy.  A restart with another seed or   *)
(* another health profile is another source or profile fingerprint.        *)
(***************************************************************************)
EXTENDS Naturals, FiniteSets

CONSTANTS
  Targets,        \* the targets, numbered by the order of their addresses
  Scores,         \* scores a healthy target may have
  Seeds,          \* effective seeds a start may draw, one when it is fixed
  Profiles,       \* health profiles the user may start with
  PromoteAfter,   \* promote_after, at least 1 as advance() makes it
  DemoteAfter,    \* demote_after, likewise
  Margin,         \* switch_margin, in percent
  Cooldown,       \* cooldown_cycles
  Backups,        \* manifest_backups
  CanResample,    \* may the user start with --watch-new-sample?
  FailIfNone,     \* fail_if_no_healthy_target
  FailOnAlert     \* fail_on_alert

ASSUME WatchAssumption ==
  /\ Targets \subseteq Nat \ {0} /\ IsFiniteSet(Targets)
  /\ Scores \subseteq Nat \ {0}
  /\ PromoteAfter \in Nat \ {0} /\ DemoteAfter \in Nat \ {0}
  /\ Margin \in Nat /\ Cooldown \in Nat /\ Backups \in Nat
  /\ {CanResample, FailIfNone, FailOnAlert} \subseteq BOOLEAN

VARIABLES
  pc,         \* "off", "scan", "publish", "save" or "stopped"
  state,      \* watch_state in memory
  disk,       \* the saved states, by the source that names their file
  results,    \* the results of the cycle's scan
  manifest,   \* the manifest file, an option
  changed,    \* did the cycle move the recommendation?
  prev,       \* previous_manifest and previous_healthy, an option
  alerts      \* the alerts of the cycle

vars == <<pc, state, disk, results, manifest, changed, prev, alerts>>

None == 0
Least(a, b) == IF a <= b THEN a ELSE b

(***************************************************************************)
(* A saved state carries its own history, which the code does not keep:    *)
(* over the cycles it went through, for how many in a row (up to a bound)  *)
(* each target was the best, the recommended one was not healthy, and the  *)
(* recommendation did not change.                                          *)
(***************************************************************************)
Log == [lead : [Targets -> 0..PromoteAfter], down : 0..DemoteAfter,
        calm : 0..Cooldown]

(* cycle numbers only matter up to 2, and last_switch_cycle is kept as the   *)
(* number of cycles since, up to the cooldown.                               *)
WatchState ==
  [source : Seeds, profile : Profiles, cycle : 0..2,
   stable_primary : Targets \cup {None}, candidate : Targets \cup {None},
   candidate_streak : 0..PromoteAfter, unhealthy_streak : 0..(DemoteAfter - 1),
   last_switch : SUBSET (0..Cooldown), log : Log]

NewState(s, p) ==
  [source |-> s, profile |-> p, cycle |-> 0,
   stable_primary |-> None, candidate |-> None,
   candidate_streak |-> 0, unhealthy_streak |-> 0, last_switch |-> {},
   log |-> [lead |-> [t \in Targets |-> 0], down |-> 0, calm |-> Cooldown]]
-----------------------------------------------------------------------------
(* advance *)

Results == [Targets -> Scores \cup {0}]
Healthy(r) == {t \in Targets : r[t] > 0}

(* The best healthy target: the highest score, the first address on a tie.   *)
Best(r) ==
  IF Healthy(r) = {} THEN None
  ELSE CHOOSE t \in Healthy(r) :
         \A u \in Healthy(r) \ {t} : r[t] > r[u] \/ (r[t] = r[u] /\ t < u)

(* Mutant: the streak survives a change of the candidate. *)
Observed_KeepsStreak(s, b) ==
  [s EXCEPT !.candidate = b,
            !.candidate_streak = IF b = None THEN 0 ELSE Least(@ + 1, PromoteAfter)]

(* The best target b extends the streak of the candidate or replaces it. *)
Observed(s, b) ==
  IF b = None THEN [s EXCEPT !.candidate = None, !.candidate_streak = 0]
  ELSE IF s.candidate = b
  THEN [s EXCEPT !.candidate_streak = Least(@ + 1, PromoteAfter)]
  ELSE [s EXCEPT !.candidate = b, !.candidate_streak = 1]

(* Mutant: a cycle that is not counted. *)
Begun_Uncounted(s) == s

(* The cycle is counted. *)
Begun(s) ==
  [s EXCEPT !.cycle = Least(@ + 1, 2),
            !.last_switch = {Least(a + 1, Cooldown) : a \in @}]

(* The candidate's streak is long enough and the last change long enough ago. *)
MayPromote(s) ==
  /\ s.candidate_streak >= PromoteAfter
  /\ \A a \in s.last_switch : a >= Cooldown

Promoted(s, b) == [s EXCEPT !.stable_primary = b, !.last_switch = {0}]

(* The recommended target was healthy in this cycle. *)
Kept(s) == [s EXCEPT !.unhealthy_streak = 0]

(* The recommended target was not. *)
Missed(s) ==
  IF s.unhealthy_streak + 1 >= DemoteAfter
  THEN [s EXCEPT !.stable_primary = None, !.last_switch = {0},
                 !.unhealthy_streak = 0]
  ELSE [s EXCEPT !.unhealthy_streak = @ + 1]

Beats(r, b, t) == r[b] * 100 >= r[t] * (100 + Margin)

(* The recommendation after a scan with results r. *)
Decided(s, r) ==
  LET b == Best(r)
      t == s.stable_primary
  IN IF t # None /\ t \in Healthy(r)
     THEN IF b # t /\ Beats(r, b, t) /\ MayPromote(s)
          THEN Promoted(Kept(s), b) ELSE Kept(s)
     ELSE IF t # None THEN Missed(s)
     ELSE IF MayPromote(s) THEN Promoted(s, b)
     ELSE s

(* The history after the recommendation went from s to d. *)
Logged(s, d, r) ==
  LET down == s.stable_primary \notin Healthy(r) \cup {None}
  IN [d EXCEPT !.log =
       [lead |-> [t \in Targets |-> IF t = Best(r)
                                    THEN Least(s.log.lead[t] + 1, PromoteAfter) ELSE 0],
        down |-> IF down THEN Least(s.log.down + 1, DemoteAfter) ELSE 0,
        calm |-> IF d.stable_primary = s.stable_primary
                 THEN Least(s.log.calm + 1, Cooldown) ELSE 0]]

Advanced(s, r) == Logged(s, Decided(Observed(Begun(s), Best(r)), r), r)
-----------------------------------------------------------------------------
(* The manifest of a state s after a scan with results r *)

Manifest == [primary : Targets \cup {None}, backups : SUBSET Targets]

(* Mutant: the recommended target is published whatever its health. *)
Primary_Unchecked(s, r) == s.stable_primary

Primary(s, r) ==
  IF s.stable_primary \in Healthy(r) THEN s.stable_primary ELSE None

(* The first healthy targets by rank, the recommended one apart.  How equal  *)
(* scores are ranked depends on measurements that are not modelled.          *)
BackupSets(s, r) ==
  LET pool == Healthy(r) \ {s.stable_primary}
  IN {B \in SUBSET pool :
       /\ Cardinality(B) = Least(Backups, Cardinality(pool))
       /\ \A t \in B, u \in pool \ B : r[t] >= r[u]}

Manifests(s, r) ==
  {[primary |-> Primary(s, r), backups |-> B] : B \in BackupSets(s, r)}

(* The alerts of a cycle that led to manifest m.  Whether the primary        *)
(* regressed (p95, packet loss, colo) is a choice, but it takes an entry of  *)
(* the previous manifest to compare it with.                                 *)
AlertSets(m) ==
  LET moved   == IF state.cycle > 1 /\ changed
                 THEN {"recommendation_changed"} ELSE {}
      known   == \E q \in prev : m.primary \in {q.primary} \cup q.backups
      worse   == IF m.primary # None /\ known
                 THEN {{}, {"regression"}} ELSE {{}}
      lost    == IF /\ state.cycle > 1 /\ m.primary = None
                    /\ \A q \in prev : q.primary # None
                 THEN {"no_healthy_target"} ELSE {}
  IN {moved \cup w \cup lost : w \in worse}

(* What ends the watch by its alert policy. *)
PolicyTriggered(m, a) ==
  \/ FailIfNone /\ m.primary = None
  \/ FailOnAlert /\ a \ {"recommendation_changed"} # {}
-----------------------------------------------------------------------------
Init ==
  /\ pc = "off"
  /\ \E s \in Seeds, p \in Profiles : state = NewState(s, p)
  /\ disk = [s \in Seeds |-> {}]
  /\ results = [t \in Targets |-> 0]
  /\ manifest = {}
  /\ changed = FALSE
  /\ prev = {}
  /\ alerts = {}

Compatible(saved, s, p) == saved.source = s /\ saved.profile = p

(* The process starts with seed s and profile p.  It takes up a compatible   *)
(* saved state; otherwise, or when asked to, it saves a new one.             *)
Start ==
  /\ pc \in {"off", "stopped"}
  /\ pc' = "scan"
  /\ \E s \in Seeds, p \in Profiles :
       LET found == {d \in disk[s] : Compatible(d, s, p)}
       IN \/ state' \in found /\ UNCHANGED disk
          \/ /\ found = {} \/ CanResample
             /\ state' = NewState(s, p)
             /\ disk' = [disk EXCEPT ![s] = {NewState(s, p)}]
  /\ prev' = {}
  /\ changed' = FALSE
  /\ alerts' = {}
  /\ UNCHANGED <<results, manifest>>

(* A scan completes and the recommendation is moved, in memory. *)
Scan ==
  /\ pc = "scan"
  /\ pc' = "publish"
  /\ \E r \in Results : results' = r /\ state' = Advanced(state, r)
  /\ changed' = (state'.stable_primary # state.stable_primary)
  /\ UNCHANGED <<disk, manifest, prev, alerts>>

(* The manifest file is replaced and the alerts are printed. *)
Publish ==
  /\ pc = "publish"
  /\ pc' = "save"
  /\ \E m \in Manifests(state, results) :
       /\ manifest' = {m}
       /\ alerts' \in AlertSets(m)
  /\ UNCHANGED <<state, disk, results, changed, prev>>

(* Mutant: the alert policy ends the watch before the state is saved. *)
Save_ExitsFirst ==
  /\ pc = "save"
  /\ prev' = manifest
  /\ \E m \in manifest :
       IF PolicyTriggered(m, alerts)
       THEN pc' = "stopped" /\ UNCHANGED disk
       ELSE pc' = "scan" /\ disk' = [disk EXCEPT ![state.source] = {state}]
  /\ UNCHANGED <<state, results, manifest, changed, alerts>>

(* The state is saved; the alert policy may end the watch. *)
Save ==
  /\ pc = "save"
  /\ disk' = [disk EXCEPT ![state.source] = {state}]
  /\ prev' = manifest
  /\ \E m \in manifest :
       pc' = IF PolicyTriggered(m, alerts) THEN "stopped" ELSE "scan"
  /\ UNCHANGED <<state, results, manifest, changed, alerts>>

(* The process is killed, or a file cannot be written: memory is lost. *)
Crash ==
  /\ pc \in {"scan", "publish", "save"}
  /\ pc' = "off"
  /\ UNCHANGED <<state, disk, results, manifest, changed, prev, alerts>>

Next == Start \/ Scan \/ Publish \/ Save \/ Crash

Spec == Init /\ [][Next]_vars

(* Once started, the watch is scheduled for ever: its loop has no other end  *)
(* than the ones modelled.                                                   *)
FairSpec == Spec /\ WF_vars(Scan) /\ WF_vars(Publish) /\ WF_vars(Save)
-----------------------------------------------------------------------------
TypeOK ==
  /\ pc \in {"off", "scan", "publish", "save", "stopped"}
  /\ state \in WatchState
  /\ disk \in [Seeds -> SUBSET WatchState]
  /\ results \in Results
  /\ manifest \subseteq Manifest
  /\ changed \in BOOLEAN
  /\ prev \subseteq Manifest
  /\ alerts \subseteq {"recommendation_changed", "regression", "no_healthy_target"}

(* This step moves the recommendation. *)
Changes ==
  /\ pc = "scan" /\ pc' = "publish"
  /\ state'.stable_primary # state.stable_primary

(* --watch-promote-after: a target becomes the recommendation only after     *)
(* that many cycles in a row in which it was healthy and the best, across    *)
(* any restarts in between.                                                  *)
PromotionEarned ==
  [][Changes /\ state'.stable_primary # None =>
       state'.log.lead[state'.stable_primary] >= PromoteAfter]_vars

(* --watch-demote-after: the recommendation is withdrawn only after that     *)
(* many cycles in a row in which it was not healthy.                         *)
DemotionEarned ==
  [][Changes /\ state'.stable_primary = None =>
       state'.log.down >= DemoteAfter]_vars

(* --watch-cooldown-cycles: a target becomes the recommendation only when    *)
(* the recommendation has not changed for the cooldown.                      *)
PromotionSpaced ==
  [][Changes /\ state'.stable_primary # None =>
       state.log.calm + 1 >= Cooldown]_vars

(* --watch-switch-margin: one target replaces another as the recommendation  *)
(* only when the other is healthy and beaten by the margin.                  *)
SwitchPays ==
  [][Changes /\ None \notin {state.stable_primary, state'.stable_primary} =>
       /\ state.stable_primary \in Healthy(results')
       /\ results'[state'.stable_primary] * 100
            >= results'[state.stable_primary] * (100 + Margin)]_vars

(* README: the manifest holds the current healthy primary and backup pool.   *)
(* What is published was healthy in this cycle's scan, the primary is the    *)
(* recommendation, and no healthy target left out ranks above a backup.      *)
PublishedSound ==
  pc = "save" =>
    \A m \in manifest :
      /\ m.primary # None =>
           m.primary \in Healthy(results) /\ m.primary = state.stable_primary
      /\ m.backups \subseteq Healthy(results) \ {m.primary}
      /\ \A t \in Healthy(results) \ m.backups, u \in m.backups :
           t = m.primary \/ results[t] <= results[u]

(* When a cycle is over, and when the alert policy ended the watch, the      *)
(* saved state and the manifest tell the same story: a restart goes on from  *)
(* the recommendation behind the primary that was published last.            *)
FilesAgree ==
  pc = "stopped" \/ (pc = "scan" /\ prev # {}) =>
    /\ disk[state.source] = {state}
    /\ \A m \in manifest : m.primary \in {state.stable_primary, None}

(* Target t is healthy and better than every other one by the margin. *)
Leads(t) ==
  /\ Best(results) = t
  /\ \A u \in Targets \ {t} : Beats(results, t, u)

(* A target that leads by the margin from some cycle on, in a watch that is  *)
(* not stopped any more, becomes the recommendation and stays it.            *)
Converges ==
  \A t \in Targets :
    <>[](pc \notin {"off", "stopped"} /\ Leads(t)) =>
      <>[](state.stable_primary = t)

(* README: "Watch mode freezes its exact sampled target list on the first    *)
(* cycle and reuses it after restart when the source and health profile are  *)
(* unchanged."                                                               *)
TargetsFrozen ==
  [][(pc \in {"off", "stopped"} /\ pc' = "scan" /\ disk[state.source] # {}) =>
       state'.source = state.source]_vars
=============================================================================
