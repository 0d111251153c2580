--------------------------- MODULE ScanScheduler ---------------------------
(***************************************************************************)
(* The probe scheduler of one scan over one port: run_scan_port in         *)
(* src/scanner.rs, with the per-target bookkeeping of TargetState, the     *)
(* priority queue ReadyQueue, the spawned probe tasks                      *)
(* (probe_with_lazy_client) and the semaphore whose permits they hold.     *)
(*                                                                         *)
(* Four kinds of process interleave: the scheduler's own loop (variable    *)
(* pc), one task per spawned probe, and the user, who may pause, resume,   *)
(* cancel or change the number of workers between any two of their steps.  *)
(*                                                                         *)
(* Latencies and scores are abstract.  What a score decides (which of two  *)
(* targets in a tier goes first, whether a target is pruned) is a          *)
(* nondeterministic choice wherever the code consults one.                 *)
(***************************************************************************)
EXTENDS Naturals, FiniteSets

CONSTANTS
  N,                  \* targets, by their index in `states`
  Invalid,            \* the targets whose text is not an IP address
  ProbeCount,         \* measured probes of a target's full budget
  MinProbes,          \* adaptive probing: probes before a target may stop
  Concurrency,        \* configured workers
  MinWorkers,         \* min_concurrency
  MaxWorkers,         \* max_concurrency
  Warmup,             \* is a discarded warmup probe sent first?
  AdaptiveProbing,    \* are budgets adaptive?
  AdaptiveWorkers,    \* does the adaptive controller resize the pool?
  EarlyStop,          \* are the early-stop rules on?
  EarlyMin,           \* early_stop_min_samples
  EarlyStreak,        \* early_stop_loss_streak
  EarlyFloor,         \* early_stop_success_floor, in percent
  EarlyPrune,         \* early_stop_prune
  Top,                \* size of the leaderboard
  WarmupSamples,      \* outcomes a warmup probe may have
  ProbeSamples,       \* outcomes a measured probe may have
  Overrides,          \* values the user may store in runtime_worker_override
  CanPause,           \* does the user pause?
  CanResume,          \* and resume a paused scan?
  CanCancel           \* may the user cancel?

Sample == {"ok", "loss", "error", "setup", "panic"}

ASSUME SizeAssumption ==
  /\ N \in Nat
  /\ Invalid \subseteq 1..N
  /\ ProbeCount \in Nat \ {0}
  /\ MinProbes \in Nat

ASSUME WorkerAssumption ==
  /\ Concurrency \in Nat \ {0}
  /\ MinWorkers \in Nat \ {0}
  /\ MaxWorkers \in Nat \ {0}
  /\ MinWorkers <= MaxWorkers
  /\ AdaptiveWorkers => Concurrency \in MinWorkers..MaxWorkers

ASSUME RuleAssumption ==
  /\ {Warmup, AdaptiveProbing, AdaptiveWorkers, EarlyStop,
      EarlyPrune} \subseteq BOOLEAN
  /\ EarlyMin \in Nat /\ EarlyStreak \in Nat
  /\ EarlyFloor \in Nat /\ Top \in Nat

ASSUME InputAssumption ==
  /\ WarmupSamples \subseteq Sample
  /\ ProbeSamples \subseteq Sample
  /\ Overrides \subseteq Nat
  /\ {CanPause, CanResume, CanCancel} \subseteq BOOLEAN

VARIABLES
  states,         \* the TargetState of every target
  heap,           \* ReadyQueue.heap, a set of entries
  generations,    \* ReadyQueue.generations
  cursor,         \* warmup_cursor
  preferWarmup,   \* prefer_warmup
  futs,           \* the spawned probes not yet joined
  workers,        \* the current worker target
  permits,        \* available permits of the semaphore
  best,           \* length of the leaderboard `best`
  results,        \* how many results were sent for every target
  pc,             \* where the scheduler's loop is
  cancel,         \* the shared cancel flag
  paused,         \* the shared pause flag
  override,       \* runtime_worker_override, 0 for none
  resumed         \* history: was the scan resumed between the two reads of
                  \* `paused`, with nothing in flight?

vars == <<states, heap, generations, cursor, preferWarmup, futs, workers,
          permits, best, results, pc, cancel, paused, override, resumed>>

queueVars == <<heap, generations, cursor, preferWarmup>>
userVars  == <<cancel, paused, override, resumed>>

Targets == 1..N

-----------------------------------------------------------------------------
(* Targets *)

WarmupPhase == {"todo", "flying", "done"}

TargetState ==
  [warmup      : WarmupPhase,       \* warmup_done, warmup_in_flight
   discard     : BOOLEAN,           \* warmup_discard_first
   cold        : BOOLEAN,           \* cold_ms is known
   failed      : BOOLEAN,           \* construction_failed
   stopped     : BOOLEAN,           \* stopped_early
   in_flight   : BOOLEAN,
   scheduled   : 0..ProbeCount,
   completed   : 0..ProbeCount,
   ok          : 0..ProbeCount,
   samples     : 0..ProbeCount,     \* how many latency samples
   fail        : 0..ProbeCount,
   loss_streak : 0..ProbeCount]

NewTarget(t) ==
  LET bad    == t \in Invalid
      budget == IF bad THEN ProbeCount ELSE 0
  IN [warmup      |-> IF Warmup /\ ~bad THEN "todo" ELSE "done",
      discard     |-> FALSE,
      cold        |-> FALSE,
      failed      |-> bad,
      stopped     |-> FALSE,
      in_flight   |-> FALSE,
      scheduled   |-> budget,
      completed   |-> budget,
      ok          |-> 0,
      samples     |-> 0,
      fail        |-> budget,
      loss_streak |-> 0]

(* Mutant: a target is probed before its warmup is over. *)
HasRemainingProbe_Cold(s) ==
  ~s.failed /\ s.scheduled < ProbeCount /\ ~s.in_flight /\ ~s.stopped

HasRemainingProbe(s) ==
  /\ s.warmup = "done"
  /\ ~s.failed
  /\ s.scheduled < ProbeCount
  /\ ~s.in_flight
  /\ ~s.stopped

(* Mutant: the probes already completed are counted as failures again. *)
ConstructionFailed_CountsTwice(s) ==
  [s EXCEPT !.failed    = TRUE,
            !.fail      = @ + ProbeCount,
            !.scheduled = ProbeCount,
            !.completed = ProbeCount]

(* The client of a target could not be built: its whole budget fails. *)
ConstructionFailed(s) ==
  [s EXCEPT !.failed    = TRUE,
            !.fail      = @ + (ProbeCount - s.completed),
            !.scheduled = ProbeCount,
            !.completed = ProbeCount]

(* A warmup probe was joined with outcome o. *)
AfterWarmup(s, o) ==
  LET done == [s EXCEPT !.warmup = "done"]
  IN CASE o = "ok"    -> [done EXCEPT !.cold = TRUE]
       [] o = "setup" -> ConstructionFailed(done)
       [] OTHER       -> [done EXCEPT !.discard = TRUE]

(* The probe in flight was joined. *)
Joined(s) == [s EXCEPT !.in_flight = FALSE, !.completed = @ + 1]

Succeeded(s) ==
  IF s.discard
  THEN [s EXCEPT !.ok = @ + 1, !.loss_streak = 0, !.discard = FALSE, !.cold = TRUE]
  ELSE [s EXCEPT !.ok = @ + 1, !.loss_streak = 0, !.samples = @ + 1]

Failed(s, o) ==
  [s EXCEPT !.fail = @ + 1, !.loss_streak = IF o = "loss" THEN @ + 1 ELSE @]

(* A measured probe was joined with outcome o. *)
AfterProbe(s, o) ==
  CASE o = "ok"    -> Succeeded(Joined(s))
    [] o = "setup" -> ConstructionFailed(Failed(Joined(s), o))
    [] OTHER       -> Failed(Joined(s), o)

(* The rules of should_stop_early that look at the target alone. *)
IsDead(s) ==
  /\ EarlyStop
  /\ s.completed >= EarlyMin
  /\ \/ s.loss_streak >= EarlyStreak
     \/ s.ok * 100 < EarlyFloor * s.completed

(* The prune rule compares the target with the last entry of the leaderboard. *)
ConsultsLeaderboard(s) ==
  /\ EarlyStop
  /\ EarlyPrune
  /\ ~IsDead(s)
  /\ best >= Top
  /\ s.samples >= EarlyMin

(* adaptive_should_stop may find a target whose interval lies above. *)
MayBeDominated(t, st) ==
  /\ AdaptiveProbing
  /\ \E u \in Targets \ {t} :
       \A v \in {t, u} : st[v].completed >= MinProbes /\ st[v].samples > 0

MinReached(s) == AdaptiveProbing => s.completed >= MinProbes

(* Nothing orders `top` after zero: the rule then indexes an empty leaderboard. *)
LeaderboardPanics(s) == MinReached(s) /\ ConsultsLeaderboard(s) /\ best = 0

(* The decisions the early-stop rules can take on target t, just joined. *)
StopDecisions(t, st) ==
  LET s == st[t]
  IN IF MinReached(s) /\ IsDead(s) THEN {TRUE}
     ELSE IF \/ MinReached(s) /\ ConsultsLeaderboard(s)
             \/ MayBeDominated(t, st)
          THEN BOOLEAN
          ELSE {FALSE}

(* record_best on the result of s. *)
RecordBest(s) ==
  IF s.ok = 0 \/ best >= Top THEN best ELSE best + 1
-----------------------------------------------------------------------------
(* The ready queue *)

Tier(s) ==
  IF AdaptiveProbing
  THEN IF s.completed >= MinProbes THEN 1 ELSE 0
  ELSE IF s.samples > 0 THEN 0 ELSE IF s.completed = 0 THEN 1 ELSE 2

Entry == [index : Targets, generation : Nat, tier : 0..2]

(* ReadyQueue::push of target t in state s. *)
Push(t, s) ==
  /\ generations' = [generations EXCEPT ![t] = @ + 1]
  /\ heap' = heap \cup
       {[index |-> t, generation |-> generations[t] + 1, tier |-> Tier(s)]}

Live(e) ==
  /\ e.generation = generations[e.index]
  /\ HasRemainingProbe(states[e.index])

LiveEntries == {e \in heap : Live(e)}

(* Mutant: the queue forgets its order. *)
FirstEntries_Any == LiveEntries

(* The entries ReadyQueue::next may return: the live ones of the first tier. *)
FirstEntries ==
  {e \in LiveEntries : \A u \in LiveEntries : e.tier <= u.tier}

(* What ReadyQueue::next leaves behind when it returns e: the entries that   *)
(* are not live are dropped as they are popped.  Within the tier of e the    *)
(* order of the heap is abstract, and they are taken to precede e.           *)
Beyond(e) == {u \in heap \ {e} : Live(u) \/ u.tier > e.tier}

HasEntry(t) == \E e \in heap : e.index = t /\ e.generation = generations[t]

(* The warmup of s succeeded and no probe of it was measured yet. *)
Unprobed(s) == s.warmup = "done" /\ s.cold /\ s.scheduled = 0

(* A successful warmup does not push its target: it is probed only if the    *)
(* entry it had before survived, which ReadyQueue::next drops when it finds  *)
(* nothing else to return.                                                   *)
Forgotten(t) == Unprobed(states[t]) /\ ~HasEntry(t)
-----------------------------------------------------------------------------
(* Probes and permits *)

Phase == {"spawned", "queued", "running", "finished"}
Future ==
  [index : Targets, attempt : 0..ProbeCount, phase : Phase,
   sample : Sample \cup {"cancelled", "none"}]

(* A warmup is attempt 0 of its target, its k-th measured probe attempt k. *)
Spawned(t, k) ==
  [index |-> t, attempt |-> k, phase |-> "spawned", sample |-> "none"]

InPhase(p) == {f \in futs : f.phase = p}

Least(a, b) == IF a <= b THEN a ELSE b

(* Replace probe f by the same probe in a later phase. *)
Moved(f, phase, sample) ==
  (futs \ {f}) \cup {[f EXCEPT !.phase = phase, !.sample = sample]}

(* Mutant: the probes in flight are not subtracted. *)
DesiredPermits_IgnoresActive(active, w) == w

(* Mutant: the probe just joined is still counted as active. *)
DesiredPermits_CountsJoined(active, w) ==
  IF w > active + 1 THEN w - (active + 1) ELSE 0

(* The idle permits w workers call for while `active` probes are in flight. *)
DesiredPermits(active, w) == IF w > active THEN w - active ELSE 0

(* reconcile_worker_permits with w workers and the probes fs: idle permits   *)
(* above the target are forgotten, missing ones are added, and the semaphore *)
(* hands added permits to the probes queued on it first.                     *)
Reconcile(fs, w) ==
  LET desired == DesiredPermits(Cardinality(fs), w)
      queued  == {f \in fs : f.phase = "queued"}
  IN IF permits >= desired
     THEN permits' = desired /\ futs' = fs
     ELSE \E g \in SUBSET queued :
            /\ Cardinality(g) = Least(desired - permits, Cardinality(queued))
            /\ permits' = desired - Cardinality(g)
            /\ futs' = (fs \ g) \cup {[f EXCEPT !.phase = "running"] : f \in g}
-----------------------------------------------------------------------------
Init ==
  /\ states       = [t \in Targets |-> NewTarget(t)]
  /\ generations  = [t \in Targets |-> 1]
  /\ heap         = {[index |-> t, generation |-> 1,
                      tier |-> Tier(NewTarget(t))] : t \in Targets}
  /\ cursor       = 1
  /\ preferWarmup = FALSE
  /\ futs         = {}
  /\ workers      = Concurrency
  /\ permits      = Concurrency
  /\ best         = 0
  /\ results      = [t \in Targets |-> IF t \in Invalid THEN 1 ELSE 0]
  /\ pc           = "top"
  /\ cancel       = FALSE
  /\ paused       = FALSE
  /\ override     = 0
  /\ resumed      = FALSE

(***************************************************************************)
(* The scheduler's loop                                                    *)
(***************************************************************************)

(* manual_worker_override: the user's request within the configured range. *)
ManualWorkers ==
  Least(IF override >= MinWorkers THEN override ELSE MinWorkers, MaxWorkers)

(* The head of the loop reads the override. *)
ReadOverride ==
  /\ pc = "top"
  /\ pc' = "launch"
  /\ IF override > 0
     THEN /\ workers' = ManualWorkers
          /\ Reconcile(futs, ManualWorkers)
     ELSE UNCHANGED <<workers, permits, futs>>
  /\ UNCHANGED <<states, queueVars, best, results, userVars>>

CanLaunch == ~cancel /\ ~paused /\ Cardinality(futs) < workers

AwaitsWarmup(t) == states[t].warmup = "todo" /\ ~states[t].in_flight

HasWarmup == \E t \in cursor..N : AwaitsWarmup(t)

(* c is where the cursor stops: the first target whose warmup is to do. *)
WarmupCursor(c) ==
  /\ c \in cursor..N + 1
  /\ c <= N => AwaitsWarmup(c)
  /\ \A t \in cursor..c - 1 : ~AwaitsWarmup(t)

(* Spawn a warmup probe.  When the queue was tried first, it was found empty *)
(* of live entries and all of it has been dropped.                           *)
LaunchWarmup ==
  /\ pc = "launch"
  /\ CanLaunch
  /\ preferWarmup \/ LiveEntries = {}
  /\ heap' = IF preferWarmup THEN heap ELSE {}
  /\ \E t \in cursor..N :
       /\ WarmupCursor(t)
       /\ cursor' = t + 1
       /\ states' = [states EXCEPT ![t].warmup = "flying"]
       /\ futs' = futs \cup {Spawned(t, 0)}
  /\ preferWarmup' = FALSE
  /\ UNCHANGED <<generations, workers, permits, best, results, pc, userVars>>

(* Spawn a measured probe of the target the ready queue returns. *)
LaunchMeasured ==
  /\ pc = "launch"
  /\ CanLaunch
  /\ ~(preferWarmup /\ HasWarmup)
  /\ \E e \in FirstEntries :
       LET k == states[e.index].scheduled + 1
       IN /\ heap' = Beyond(e)
          /\ states' = [states EXCEPT ![e.index].scheduled = k,
                                      ![e.index].in_flight = TRUE]
          /\ futs' = futs \cup {Spawned(e.index, k)}
  /\ \E c \in cursor..N + 1 :
       /\ WarmupCursor(c)
       /\ cursor' = c
       /\ preferWarmup' = (c <= N)
  /\ UNCHANGED <<generations, workers, permits, best, results, pc, userVars>>

(* Nothing is left to launch. *)
LaunchNothing ==
  /\ pc = "launch"
  /\ CanLaunch
  /\ ~HasWarmup
  /\ LiveEntries = {}
  /\ heap' = {}
  /\ \E c \in cursor..N + 1 : WarmupCursor(c) /\ cursor' = c
  /\ pc' = "wait"
  /\ UNCHANGED <<states, generations, preferWarmup, futs, workers, permits,
                 best, results, userVars>>

(* Mutant: a paused scan goes round without polling its probes. *)
LaunchBlocked_Spins ==
  /\ pc = "launch"
  /\ ~CanLaunch
  /\ pc' = IF paused THEN "top" ELSE "wait"
  /\ UNCHANGED <<states, queueVars, futs, workers, permits, best, results,
                 userVars>>

(* The user or the worker target forbids another launch. *)
LaunchBlocked ==
  /\ pc = "launch"
  /\ ~CanLaunch
  /\ pc' = "wait"
  /\ UNCHANGED <<states, queueVars, futs, workers, permits, best, results,
                 userVars>>

(* Mutant: a paused scan does not notice that it was cancelled. *)
AfterDrain_Deaf == IF paused THEN "top" ELSE "done"

(* Mutant: the loop only ever ends by cancellation. *)
AfterDrain_Endless == IF ~cancel THEN "top" ELSE "done"

(* With no probe to wait for, a paused scan polls and any other one ends. *)
AfterDrain == IF paused /\ ~cancel THEN "top" ELSE "done"

NothingInFlight ==
  /\ pc = "wait"
  /\ futs = {}
  /\ pc' = AfterDrain
  /\ UNCHANGED <<states, queueVars, futs, workers, permits, best, results,
                 userVars>>

(* The cancellation future, which polls the flag, aborts every probe. *)
NoticeCancel ==
  /\ pc = "wait"
  /\ futs # {}
  /\ cancel
  /\ futs' = {}
  /\ pc' = "done"
  /\ UNCHANGED <<states, queueVars, workers, permits, best, results, userVars>>

(* A task that panicked is dropped: the code skips its JoinError. *)
JoinPanicked ==
  /\ pc = "wait"
  /\ \E f \in InPhase("finished") :
       /\ f.sample = "panic"
       /\ futs' = futs \ {f}
  /\ pc' = "top"
  /\ UNCHANGED <<states, queueVars, workers, permits, best, results, userVars>>

(* Mutant: a target is dropped after its warmup, whatever became of it. *)
Requeued_Never(s, o) == FALSE

(* After a warmup with outcome o, does the target go back to the queue? *)
Requeued(s, o) == o # "ok" /\ ~s.failed

(* A warmup probe ended.  A target whose client cannot be built is final;    *)
(* one whose warmup failed goes back to the ready queue.                     *)
JoinWarmup ==
  /\ pc = "wait"
  /\ \E f \in InPhase("finished") :
       LET t == f.index
           s == AfterWarmup(states[t], f.sample)
       IN /\ f.attempt = 0
          /\ f.sample # "panic"
          /\ futs' = futs \ {f}
          /\ states' = [states EXCEPT ![t] = s]
          /\ results' = [results EXCEPT ![t] = IF s.failed THEN @ + 1 ELSE @]
          /\ IF Requeued(s, f.sample)
             THEN Push(t, s)
             ELSE UNCHANGED <<heap, generations>>
  /\ pc' = "top"
  /\ UNCHANGED <<cursor, preferWarmup, workers, permits, best, userVars>>

(* The worker targets the scheduler may adopt once a measured probe is       *)
(* joined: the adaptive controller (AdaptivePolicy) moves by its step, or at *)
(* once to a minimum that was raised above the current target.               *)
NextWorkers ==
  IF override > 0 THEN {ManualWorkers}
  ELSE IF AdaptiveWorkers THEN MinWorkers..MaxWorkers
  ELSE {workers}

(* A measured probe ended: account for it, decide whether the target is      *)
(* final, resize the pool, and put the target back in the queue.             *)
JoinMeasured ==
  /\ pc = "wait"
  /\ \E f \in InPhase("finished") :
       LET t      == f.index
           joined == [states EXCEPT ![t] = AfterProbe(states[t], f.sample)]
       IN /\ f.attempt > 0
          /\ f.sample # "panic"
          /\ ~LeaderboardPanics(joined[t])
          /\ \E stop \in StopDecisions(t, joined), w \in NextWorkers :
               LET s     == [joined[t] EXCEPT !.stopped = stop]
                   final == stop \/ s.completed = ProbeCount
               IN /\ states' = [states EXCEPT ![t] = s]
                  /\ results' = [results EXCEPT ![t] = IF final THEN @ + 1 ELSE @]
                  /\ best' = IF final THEN RecordBest(s) ELSE best
                  /\ workers' = w
                  /\ Reconcile(futs \ {f}, w)
                  /\ IF HasRemainingProbe(s)
                     THEN Push(t, s)
                     ELSE UNCHANGED <<heap, generations>>
  /\ pc' = "top"
  /\ UNCHANGED <<cursor, preferWarmup, userVars>>

(* The prune rule indexes an empty leaderboard, and the scan's thread dies.  *)
JoinAndDie ==
  /\ pc = "wait"
  /\ \E f \in InPhase("finished") :
       /\ f.attempt > 0
       /\ f.sample # "panic"
       /\ LeaderboardPanics(AfterProbe(states[f.index], f.sample))
       /\ futs' = {}
  /\ pc' = "dead"
  /\ UNCHANGED <<states, queueVars, workers, permits, best, results, userVars>>

Loop ==
  \/ ReadOverride
  \/ LaunchWarmup \/ LaunchMeasured \/ LaunchNothing \/ LaunchBlocked
  \/ NothingInFlight \/ NoticeCancel
  \/ JoinPanicked \/ JoinWarmup \/ JoinMeasured \/ JoinAndDie

(***************************************************************************)
(* The probe tasks                                                         *)
(***************************************************************************)

taskVars == <<states, queueVars, workers, best, results, pc, userVars>>

(* A task is polled for the first time and asks for a permit. *)
PollTask(f) ==
  /\ f.phase = "spawned"
  /\ IF permits > 0
     THEN permits' = permits - 1 /\ futs' = Moved(f, "running", "none")
     ELSE permits' = permits /\ futs' = Moved(f, "queued", "none")
  /\ UNCHANGED taskVars

(* A task without a permit sees the cancel flag. *)
GiveUpTask(f) ==
  /\ f.phase = "queued"
  /\ cancel
  /\ futs' = Moved(f, "finished", "cancelled")
  /\ UNCHANGED <<permits, taskVars>>

Outcomes(f) == IF f.attempt = 0 THEN WarmupSamples ELSE ProbeSamples

(* A probe ends and its permit goes to a queued task, or back to the pool. *)
FinishTask(f) ==
  /\ f.phase = "running"
  /\ \E o \in Outcomes(f) :
       IF InPhase("queued") = {}
       THEN permits' = permits + 1 /\ futs' = Moved(f, "finished", o)
       ELSE /\ permits' = permits
            /\ \E g \in InPhase("queued") :
                 futs' = (Moved(f, "finished", o) \ {g})
                           \cup {[g EXCEPT !.phase = "running"]}
  /\ UNCHANGED taskVars

Task(f) == PollTask(f) \/ GiveUpTask(f) \/ FinishTask(f)

(***************************************************************************)
(* The user                                                                *)
(***************************************************************************)

scanVars == <<states, queueVars, futs, workers, permits, best, results, pc>>

Active == pc \notin {"done", "dead"}

TogglePause ==
  /\ Active
  /\ CanPause /\ (paused => CanResume)
  /\ paused' = ~paused
  /\ resumed' = (resumed \/ (paused /\ pc = "wait" /\ futs = {}))
  /\ UNCHANGED <<cancel, override, scanVars>>

Cancel ==
  /\ Active
  /\ CanCancel
  /\ cancel' = TRUE
  /\ UNCHANGED <<paused, override, resumed, scanVars>>

SetOverride ==
  /\ Active
  /\ override' \in Overrides
  /\ UNCHANGED <<cancel, paused, resumed, scanVars>>

(* The scan is over; the disjunct keeps its end apart from a deadlock. *)
Ended == ~Active /\ UNCHANGED vars

Next ==
  \/ Loop
  \/ Active /\ \E f \in futs : Task(f)
  \/ TogglePause \/ Cancel \/ SetOverride
  \/ Ended

Spec == Init /\ [][Next]_vars

(* The scheduler thread and the tasks it spawned are never starved: both run *)
(* on the scan's own runtime, and every probe has a timeout.                 *)
FairSpec ==
  /\ Spec
  /\ WF_vars(Loop)
  /\ WF_vars(Active /\ \E f \in futs : Task(f))
-----------------------------------------------------------------------------
(***************************************************************************)
(* Properties                                                              *)
(***************************************************************************)

TypeOK ==
  /\ states \in [Targets -> TargetState]
  /\ generations \in [Targets -> Nat]
  /\ heap \subseteq Entry
  /\ cursor \in 1..N + 1
  /\ preferWarmup \in BOOLEAN
  /\ futs \subseteq Future
  /\ workers \in Nat \ {0}
  /\ permits \in Nat
  /\ best \in Nat
  /\ results \in [Targets -> Nat]
  /\ pc \in {"top", "launch", "wait", "done", "dead"}
  /\ {cancel, paused, resumed} \subseteq BOOLEAN
  /\ override \in Nat

(* Every joined probe is counted exactly once, as a success or a failure, a  *)
(* probe is in flight exactly when one more is scheduled than completed, and *)
(* a client that cannot be built uses up exactly the rest of the budget.     *)
Accounting ==
  \A t \in Targets :
    LET s == states[t]
    IN /\ s.ok + s.fail = s.completed
       /\ s.scheduled = s.completed + (IF s.in_flight THEN 1 ELSE 0)

(* README: probes are scheduled one at a time per IP.  No two spawned probes *)
(* ever belong to the same target, warmup and measured probes included.      *)
OneProbePerTarget ==
  \A f, g \in futs : f.index = g.index => f = g

(* The books of the scan: what a target counts and what is in flight agree   *)
(* through failing clients, panics, pruning, resizes, pauses and a cancel.   *)
BooksBalance == Accounting /\ OneProbePerTarget

(* A target's result is sent at most once, exactly when the target is final: *)
(* its budget is spent or it was stopped early.                              *)
ResultOnce ==
  \A t \in Targets :
    LET s == states[t]
    IN /\ results[t] <= 1
       /\ results[t] = 1 <=> (s.stopped \/ s.completed = ProbeCount)

(* Once the result of a target was sent, no probe of it is running or left   *)
(* to be joined: nothing changes behind a row that was already reported.     *)
SilentAfterResult ==
  \A f \in futs : results[f.index] = 0

(* README: the cold request is reported apart from steady-state latency.     *)
(* With a warmup, a target with a success has a cold time, and at most one   *)
(* success (the first, after a failed warmup) is kept out of the samples.    *)
ColdRequestApart ==
  \A t \in Targets :
    LET s == states[t]
    IN /\ s.samples <= s.ok
       /\ s.ok <= s.samples + 1
       /\ Warmup /\ s.ok > 0 => s.cold
       /\ s.discard => s.ok = 0

(* The semaphore never lets more probes hold a permit than the largest pool  *)
(* the configuration allows, however often the pool is resized.              *)
PoolBound ==
  permits + Cardinality(InPhase("running"))
    <= (IF Concurrency > MaxWorkers THEN Concurrency ELSE MaxWorkers)

(* A probe that waits for a permit can get one: the pool has a permit, or a  *)
(* probe is running, or one is done and about to make the loop reconcile.    *)
(* This needs a pool that never shrinks: see GrowingPool.                    *)
NoStrandedProbe ==
  InPhase("spawned") \cup InPhase("queued") # {} =>
    permits > 0 \/ InPhase("running") \cup InPhase("finished") # {}

(* Nothing lowers the worker target.  Where it may fall, Reconcile takes the *)
(* permits away that probes spawned under the old target still wait for: it  *)
(* counts them, and those done but not yet joined, as if each held a permit. *)
GrowingPool ==
  /\ ~AdaptiveWorkers
  /\ \/ Overrides \subseteq {0}
     \/ Concurrency <= MaxWorkers /\ \A o \in Overrides : o = 0 \/ o >= MaxWorkers

(* README: successful IPs receive priority for their remaining probes, and   *)
(* unexplored IPs are preferred over IPs that have failed.  A measured probe *)
(* is never spawned for a target while a better one could be probed, unless  *)
(* the queue has forgotten the better one.  What makes a target successful   *)
(* is a latency sample: the discarded cold request after a failed warmup     *)
(* does not.                                                                 *)
PriorityRespected ==
  [][\A t, u \in Targets :
       LET probed == /\ states'[t].scheduled > states[t].scheduled
                     /\ states'[t].in_flight
           s      == states[t]
           v      == states[u]
       IN probed /\ HasRemainingProbe(v) =>
            /\ v.samples > 0 => s.samples > 0
            /\ v.completed = 0 =>
                 s.samples > 0 \/ s.completed = 0 \/ Forgotten(u)
    ]_states

(* README: all sampled IPs are shown, including targets with no successful   *)
(* probes.  A scan that ends and was not cancelled reported every target.    *)
(* The code does not keep this: see SchedDefault.cfg and SchedResume.cfg.    *)
AllReported ==
  pc = "done" /\ ~cancel => \A t \in Targets : results[t] = 1

(* The scan's thread never dies of an empty leaderboard. *)
NeverDies == pc # "dead"

(* Cancelling ends the scan. *)
CancelEnds == cancel ~> ~Active

(* README: pausing drains the active probes.  While the user keeps the scan  *)
(* paused, every probe in flight ends and is joined.  In a pool that shrinks *)
(* the code does not keep this: see SchedShrink.cfg.                         *)
PauseDrains == (paused /\ Active) ~> (futs = {} \/ ~paused \/ ~Active)

(* A scan that is paused only finitely often comes to its end.               *)
Terminates == []<>paused \/ <>~Active

(* The probe a target waits for is gone: its task panicked, or was aborted.  *)
Stuck(t) ==
  /\ states[t].warmup = "flying" \/ states[t].in_flight
  /\ \A f \in futs : f.index # t

Lost(t) == Forgotten(t) \/ Stuck(t)

(* What this configuration exposes the scan to, and how it ended. *)
Risks ==
  {r \in {"warmup", "panic", "leaderboard"} :
     \/ r = "warmup" /\ "ok" \in WarmupSamples
     \/ r = "panic" /\ "panic" \in WarmupSamples \cup ProbeSamples
     \/ r = "leaderboard" /\ EarlyPrune /\ Top = 0}

Outcome ==
  CASE Active      -> "running"
    [] pc = "dead" -> "failed"
    [] pc = "done" /\ cancel -> "cancelled"
    [] OTHER -> IF \A t \in Targets : results[t] > 0 \/ Lost(t)
                THEN "complete" ELSE "broken"

(* What a scan promises its consumers, whatever its schedule (ScanPromise):  *)
(* each target is reported once or lost, and it is lost only when its warmup *)
(* succeeds before any probe of it is measured, or when its task panics.     *)
Promise ==
  INSTANCE ScanPromise WITH
    Immediate <- Invalid,
    Risks     <- Risks,
    reported  <- {t \in Targets : results[t] > 0},
    tried     <- {t \in Targets : states[t].completed > 0},
    lost      <- {t \in Targets : Lost(t)},
    resumed   <- resumed,
    outcome   <- Outcome

PromiseKept == Promise!Spec
=============================================================================
