------------------------- MODULE ScanSchedulerProofs -------------------------
(***************************************************************************)
(* Theorems about ScanScheduler, for any number of targets, workers and    *)
(* probes, any user behaviour and any probe outcomes.                      *)
(*                                                                         *)
(* The inductive invariant IInv ties each spawned probe to the state of    *)
(* its target (Linked), says what the counters of a target add up to       *)
(* (TargetOK), and bounds the permits that exist (PoolOK).                 *)
(***************************************************************************)
EXTENDS ScanScheduler, FiniteSetTheorems, TLAPS

Capacity == IF Concurrency > MaxWorkers THEN Concurrency ELSE MaxWorkers

(* A warmup probe flies while its target says so, and the measured probe in  *)
(* flight of a target is the last one scheduled.                             *)
Linked(f, s) ==
  IF f.attempt = 0
  THEN s.warmup = "flying"
  ELSE s.in_flight /\ f.attempt = s.scheduled

FutsOK(fs, st) ==
  /\ IsFiniteSet(fs)
  /\ fs \subseteq Future
  /\ \A f \in fs : Linked(f, st[f.index])
  /\ \A f, g \in fs : f.index = g.index => f = g

(* State s of a target of which r results were sent. *)
TargetOK(s, r) ==
  /\ s \in TargetState
  /\ r \in {0, 1}
  /\ r = 1 <=> (s.stopped \/ s.completed = ProbeCount)
  /\ s.ok + s.fail = s.completed
  /\ s.scheduled = s.completed + (IF s.in_flight THEN 1 ELSE 0)
  /\ s.loss_streak <= s.completed
  /\ s.samples <= s.ok
  /\ s.ok <= s.samples + 1
  /\ s.discard => s.ok = 0
  /\ s.warmup # "done" => s.completed = 0 /\ ~s.in_flight /\ ~s.stopped
  /\ s.in_flight => ~s.stopped /\ ~s.failed
  /\ s.stopped => s.completed # 0
  /\ s.failed => s.completed = ProbeCount
  /\ Warmup /\ s.ok > 0 => s.cold
  /\ Warmup /\ s.warmup = "done" /\ ~s.failed => s.cold \/ s.discard

RunningIn(fs) == {f \in fs : f.phase = "running"}

PoolOK ==
  /\ workers \in Nat \ {0}
  /\ workers <= Capacity
  /\ permits \in Nat
  /\ permits + Cardinality(RunningIn(futs)) <= Capacity

RestOK ==
  /\ generations \in [Targets -> Nat]
  /\ heap \subseteq Entry
  /\ cursor \in 1..N + 1
  /\ preferWarmup \in BOOLEAN
  /\ best \in Nat
  /\ pc \in {"top", "launch", "wait", "done", "dead"}
  /\ {cancel, paused, resumed} \subseteq BOOLEAN
  /\ override \in Nat

TargetsOK ==
  /\ states \in [Targets -> TargetState]
  /\ results \in [Targets -> Nat]
  /\ \A t \in Targets : TargetOK(states[t], results[t])

IInv == TargetsOK /\ FutsOK(futs, states) /\ PoolOK /\ RestOK
-----------------------------------------------------------------------------
(* Lemmas about the operators *)

(* Re-phasing a finite set of probes keeps it finite and does not enlarge it. *)
LEMMA PromotedSize ==
  ASSUME NEW G, IsFiniteSet(G)
  PROVE  LET P == {[f EXCEPT !.phase = "running"] : f \in G}
         IN IsFiniteSet(P) /\ Cardinality(P) <= Cardinality(G)
<1> DEFINE P == {[f EXCEPT !.phase = "running"] : f \in G}
           h == [f \in G |-> [f EXCEPT !.phase = "running"]]
<1>1. h \in Surjection(G, P)
  BY DEF Surjection
<1>2. QED
  BY <1>1, FS_Surjection

(* The probes of a set, one of them moved to another phase. *)
LEMMA MoveKeepsFuts ==
  ASSUME NEW st, NEW fs, FutsOK(fs, st), NEW f \in fs,
         NEW p \in Phase, NEW o \in Sample \cup {"cancelled", "none"}
  PROVE  FutsOK((fs \ {f}) \cup {[f EXCEPT !.phase = p, !.sample = o]}, st)
<1> DEFINE m == [f EXCEPT !.phase = p, !.sample = o]
           F == (fs \ {f}) \cup {m}
<1>1. f \in Future
  BY DEF FutsOK
<1>2. m \in Future /\ m.index = f.index /\ m.attempt = f.attempt
  BY <1>1 DEF Future
<1>3. IsFiniteSet(F)
  BY FS_RemoveElement, FS_AddElement DEF FutsOK
<1>4. F \subseteq Future
  BY <1>2 DEF FutsOK
<1>5. \A g \in F : Linked(g, st[g.index])
  BY <1>2 DEF FutsOK, Linked
<1>6. \A g, k \in F : g.index = k.index => g = k
  BY <1>2 DEF FutsOK
<1>7. QED
  BY <1>3, <1>4, <1>5, <1>6 DEF FutsOK

(* The probes of a set, some of them handed a permit. *)
LEMMA PromoteKeepsFuts ==
  ASSUME NEW st, NEW fs, FutsOK(fs, st), NEW G \in SUBSET fs
  PROVE  FutsOK((fs \ G) \cup {[f EXCEPT !.phase = "running"] : f \in G}, st)
<1> DEFINE P == {[f EXCEPT !.phase = "running"] : f \in G}
           F == (fs \ G) \cup P
<1>1. IsFiniteSet(G) /\ IsFiniteSet(fs \ G)
  BY FS_Subset, fs \ G \in SUBSET fs DEF FutsOK
<1>2. IsFiniteSet(P)
  BY <1>1, PromotedSize
<1>3. IsFiniteSet(F)
  BY <1>1, <1>2, FS_Union
<1>4. \A m \in P : \E f \in G : /\ m.index = f.index
                                /\ m.attempt = f.attempt
                                /\ m = [f EXCEPT !.phase = "running"]
                                /\ m \in Future
  BY DEF FutsOK, Future, Phase
<1>5. F \subseteq Future
  BY <1>4 DEF FutsOK
<1>6. \A g \in F : Linked(g, st[g.index])
  BY <1>4 DEF FutsOK, Linked
<1>7. ASSUME NEW g \in F, NEW k \in F, g.index = k.index
      PROVE  g = k
  <2>1. CASE g \in P /\ k \in P
    BY <1>4, <1>7, <2>1 DEF FutsOK
  <2>2. CASE g \in P /\ k \in fs \ G
    BY <1>4, <1>7, <2>2 DEF FutsOK
  <2>3. CASE g \in fs \ G /\ k \in P
    BY <1>4, <1>7, <2>3 DEF FutsOK
  <2>4. CASE g \in fs \ G /\ k \in fs \ G
    BY <1>7, <2>4 DEF FutsOK
  <2>5. QED
    BY <2>1, <2>2, <2>3, <2>4
<1>8. QED
  BY <1>3, <1>5, <1>6, <1>7 DEF FutsOK

(* Handing permits to G adds at most |G| running probes. *)
LEMMA PromotedRunning ==
  ASSUME NEW fs, IsFiniteSet(fs), NEW G \in SUBSET fs
  PROVE  LET F == (fs \ G) \cup {[f EXCEPT !.phase = "running"] : f \in G}
         IN /\ IsFiniteSet(RunningIn(F))
            /\ Cardinality(RunningIn(F))
                 <= Cardinality(RunningIn(fs)) + Cardinality(G)
<1> DEFINE P == {[f EXCEPT !.phase = "running"] : f \in G}
           F == (fs \ G) \cup P
           U == RunningIn(fs) \cup P
<1>1. IsFiniteSet(G) /\ IsFiniteSet(RunningIn(fs))
  BY FS_Subset, RunningIn(fs) \in SUBSET fs DEF RunningIn
<1>2. IsFiniteSet(P) /\ Cardinality(P) <= Cardinality(G)
  BY <1>1, PromotedSize
<1>3. /\ IsFiniteSet(U)
      /\ Cardinality(U) = Cardinality(RunningIn(fs)) + Cardinality(P)
                            - Cardinality(RunningIn(fs) \cap P)
  BY <1>1, <1>2, FS_Union
<1>4. IsFiniteSet(RunningIn(fs) \cap P)
  BY <1>1, FS_Subset, RunningIn(fs) \cap P \in SUBSET RunningIn(fs)
<1>5. RunningIn(F) \in SUBSET U
  BY DEF RunningIn
<1>6. IsFiniteSet(RunningIn(F)) /\ Cardinality(RunningIn(F)) <= Cardinality(U)
  BY <1>3, <1>5, FS_Subset
<1>7. /\ Cardinality(RunningIn(fs)) \in Nat /\ Cardinality(P) \in Nat
      /\ Cardinality(G) \in Nat /\ Cardinality(U) \in Nat
      /\ Cardinality(RunningIn(fs) \cap P) \in Nat
      /\ Cardinality(RunningIn(F)) \in Nat
  BY <1>1, <1>2, <1>3, <1>4, <1>6, FS_CardinalityType
<1>8. QED
  BY <1>2, <1>3, <1>6, <1>7

(* reconcile_worker_permits keeps the probes linked to their targets and     *)
(* never lets permits and running probes together exceed the capacity.       *)
LEMMA ReconcileKeeps ==
  ASSUME NEW st, NEW fs, FutsOK(fs, st),
         NEW w \in Nat \ {0}, w <= Capacity,
         permits \in Nat, permits + Cardinality(RunningIn(fs)) <= Capacity,
         Reconcile(fs, w)
  PROVE  /\ FutsOK(futs', st)
         /\ permits' \in Nat
         /\ permits' + Cardinality(RunningIn(futs')) <= Capacity
<1> DEFINE active  == Cardinality(fs)
           desired == DesiredPermits(active, w)
           queued  == {f \in fs : f.phase = "queued"}
<1>1. IsFiniteSet(fs) /\ RunningIn(fs) \in SUBSET fs /\ queued \in SUBSET fs
  BY DEF FutsOK, RunningIn
<1>2. /\ active \in Nat /\ Cardinality(RunningIn(fs)) \in Nat
      /\ Cardinality(RunningIn(fs)) <= active
      /\ IsFiniteSet(queued) /\ Cardinality(queued) \in Nat
  BY <1>1, FS_Subset, FS_CardinalityType
<1>3. Capacity \in Nat
  BY WorkerAssumption DEF Capacity
<1>4. desired \in Nat /\ desired <= w /\ (desired > 0 => desired + active = w)
  BY <1>2 DEF DesiredPermits
<1>5. CASE permits >= desired
  <2>1. permits' = desired /\ futs' = fs
    BY <1>5 DEF Reconcile
  <2>2. QED
    BY <1>2, <1>3, <1>4, <1>5, <2>1
<1>6. CASE ~(permits >= desired)
  <2>1. PICK G \in SUBSET queued :
          /\ Cardinality(G) = Least(desired - permits, Cardinality(queued))
          /\ permits' = desired - Cardinality(G)
          /\ futs' = (fs \ G) \cup {[f EXCEPT !.phase = "running"] : f \in G}
    BY <1>6 DEF Reconcile
  <2>2. G \in SUBSET fs
    BY <1>1
  <2>3. Cardinality(G) \in Nat /\ Cardinality(G) <= desired
    BY <1>2, <1>4, <1>6, <2>1 DEF Least
  <2>4. FutsOK(futs', st)
    BY <2>1, <2>2, PromoteKeepsFuts
  <2>5. /\ IsFiniteSet(RunningIn(futs'))
        /\ Cardinality(RunningIn(futs'))
             <= Cardinality(RunningIn(fs)) + Cardinality(G)
    BY <1>1, <2>1, <2>2, PromotedRunning
  <2>6. Cardinality(RunningIn(futs')) \in Nat
    BY <2>5, FS_CardinalityType
  <2>7. QED
    BY <1>2, <1>3, <1>4, <1>6, <2>1, <2>3, <2>4, <2>5, <2>6
<1>7. QED
  BY <1>5, <1>6

LEMMA ManualInRange == ASSUME override \in Nat
                       PROVE  ManualWorkers \in Nat \ {0} /\ ManualWorkers <= Capacity
BY WorkerAssumption DEF ManualWorkers, Least, Capacity

LEMMA NextWorkersInRange ==
  ASSUME PoolOK, override \in Nat, NEW w \in NextWorkers
  PROVE  w \in Nat \ {0} /\ w <= Capacity
BY WorkerAssumption, ManualInRange DEF NextWorkers, PoolOK, Capacity

LEMMA TierRange == ASSUME NEW s PROVE Tier(s) \in 0..2
BY DEF Tier
-----------------------------------------------------------------------------
(* Lemmas about targets *)

LEMMA NewTargetOK ==
  ASSUME NEW t \in Targets
  PROVE  TargetOK(NewTarget(t), IF t \in Invalid THEN 1 ELSE 0)
<1> DEFINE a == NewTarget(t)
<1>1. /\ a.warmup = IF Warmup /\ t \notin Invalid THEN "todo" ELSE "done"
      /\ a.discard = FALSE /\ a.cold = FALSE /\ a.failed = (t \in Invalid)
      /\ a.stopped = FALSE /\ a.in_flight = FALSE
      /\ a.scheduled = a.completed /\ a.fail = a.completed
      /\ a.completed = IF t \in Invalid THEN ProbeCount ELSE 0
      /\ a.ok = 0 /\ a.samples = 0 /\ a.loss_streak = 0
  BY DEF NewTarget
<1>2. a \in TargetState
  BY SizeAssumption, RuleAssumption DEF NewTarget, TargetState, WarmupPhase
<1> HIDE DEF a
<1>3. TargetOK(a, IF t \in Invalid THEN 1 ELSE 0)
  <2>1. CASE t \in Invalid
    BY <1>1, <1>2, <2>1, SizeAssumption, RuleAssumption DEF TargetOK, TargetState
  <2>2. CASE t \notin Invalid
    BY <1>1, <1>2, <2>2, SizeAssumption, RuleAssumption DEF TargetOK, TargetState
  <2>3. QED
    BY <2>1, <2>2
<1>4. QED
  BY <1>3 DEF a

(* The updates of a target's record that stay in its type, given the new     *)
(* value of every counter.                                                   *)
LEMMA UpdatesTyped ==
  ASSUME NEW s \in TargetState, NEW m \in 0..ProbeCount, NEW n \in 0..ProbeCount
  PROVE  /\ [s EXCEPT !.failed = TRUE, !.fail = n, !.scheduled = ProbeCount,
                      !.completed = ProbeCount] \in TargetState
         /\ [s EXCEPT !.in_flight = FALSE, !.completed = n] \in TargetState
         /\ [s EXCEPT !.ok = n, !.loss_streak = 0, !.discard = FALSE,
                      !.cold = TRUE] \in TargetState
         /\ [s EXCEPT !.ok = n, !.loss_streak = 0, !.samples = m] \in TargetState
         /\ [s EXCEPT !.fail = n, !.loss_streak = m] \in TargetState
<1>1. 0 \in 0..ProbeCount /\ ProbeCount \in 0..ProbeCount
  BY SizeAssumption
<1>2. [s EXCEPT !.failed = TRUE, !.fail = n, !.scheduled = ProbeCount,
                !.completed = ProbeCount] \in TargetState
  BY <1>1 DEF TargetState
<1>3. [s EXCEPT !.in_flight = FALSE, !.completed = n] \in TargetState
  BY DEF TargetState
<1>4. [s EXCEPT !.ok = n, !.loss_streak = 0, !.discard = FALSE,
                !.cold = TRUE] \in TargetState
  BY <1>1 DEF TargetState
<1>5. [s EXCEPT !.ok = n, !.loss_streak = 0, !.samples = m] \in TargetState
  BY <1>1 DEF TargetState
<1>6. [s EXCEPT !.fail = n, !.loss_streak = m] \in TargetState
  BY DEF TargetState
<1>7. QED
  BY <1>2, <1>3, <1>4, <1>5, <1>6

(* What ConstructionFailed does to the fields of a target. *)
LEMMA ConstructionFailedFields ==
  ASSUME NEW s \in TargetState, s.fail + (ProbeCount - s.completed) \in 0..ProbeCount
  PROVE  LET a == ConstructionFailed(s)
         IN /\ a \in TargetState
            /\ a.warmup = s.warmup /\ a.discard = s.discard /\ a.cold = s.cold
            /\ a.failed = TRUE /\ a.stopped = s.stopped
            /\ a.in_flight = s.in_flight
            /\ a.scheduled = ProbeCount /\ a.completed = ProbeCount
            /\ a.ok = s.ok /\ a.samples = s.samples
            /\ a.fail = s.fail + (ProbeCount - s.completed)
            /\ a.loss_streak = s.loss_streak
<1> DEFINE x == s.fail + (ProbeCount - s.completed)
           a == [s EXCEPT !.failed = TRUE, !.fail = x,
                          !.scheduled = ProbeCount, !.completed = ProbeCount]
<1>1. ConstructionFailed(s) = a
  BY DEF ConstructionFailed
<1> HIDE DEF x
<1>2. x \in 0..ProbeCount
  BY DEF x
<1>3. a \in TargetState
  BY <1>2, UpdatesTyped
<1>4. /\ a.warmup = s.warmup /\ a.discard = s.discard /\ a.cold = s.cold
      /\ a.failed = TRUE /\ a.stopped = s.stopped
      /\ a.in_flight = s.in_flight
      /\ a.scheduled = ProbeCount /\ a.completed = ProbeCount
      /\ a.ok = s.ok /\ a.samples = s.samples
      /\ a.fail = x /\ a.loss_streak = s.loss_streak
  BY DEF TargetState
<1> HIDE DEF a
<1>5. QED
  BY <1>1, <1>3, <1>4 DEF x

(* Joining a warmup probe finishes the target at most when its client failed. *)
LEMMA AfterWarmupOK ==
  ASSUME NEW s, NEW r, TargetOK(s, r), s.warmup = "flying",
         NEW o
  PROVE  LET a == AfterWarmup(s, o)
         IN TargetOK(a, IF a.failed THEN r + 1 ELSE r)
<1> DEFINE a == AfterWarmup(s, o)
           done == [s EXCEPT !.warmup = "done"]
<1>1. /\ s \in TargetState /\ s.completed = 0 /\ s.in_flight = FALSE
      /\ s.stopped = FALSE /\ s.failed = FALSE /\ s.ok = 0 /\ s.fail = 0
      /\ s.samples = 0 /\ r = 0 /\ s.scheduled = 0 /\ s.loss_streak = 0
  <2>1. s \in TargetState
    BY DEF TargetOK
  <2>2. /\ s.completed \in Nat /\ s.ok \in Nat /\ s.fail \in Nat
        /\ s.samples \in Nat /\ s.loss_streak \in Nat /\ s.scheduled \in Nat
        /\ s.in_flight \in BOOLEAN /\ s.stopped \in BOOLEAN
        /\ s.failed \in BOOLEAN
    BY <2>1, SizeAssumption DEF TargetState
  <2>3. s.completed = 0 /\ ~s.in_flight /\ ~s.stopped /\ ~s.failed
    BY SizeAssumption DEF TargetOK
  <2>4. r = 0 /\ s.ok + s.fail = 0 /\ s.scheduled = 0 /\ s.loss_streak <= 0
        /\ s.samples <= s.ok
    BY <2>3, SizeAssumption DEF TargetOK
  <2>5. QED
    BY <2>1, <2>2, <2>3, <2>4
<1>2. done \in TargetState
  BY <1>1 DEF TargetState, WarmupPhase
<1>3. /\ done.warmup = "done"
      /\ done.discard = s.discard /\ done.cold = s.cold
      /\ done.failed = FALSE /\ done.stopped = FALSE /\ done.in_flight = FALSE
      /\ done.scheduled = 0 /\ done.completed = 0 /\ done.ok = 0
      /\ done.samples = 0 /\ done.fail = 0 /\ done.loss_streak = 0
  BY <1>1 DEF TargetState
<1>4. CASE o = "ok"
  <2>1. a = [done EXCEPT !.cold = TRUE]
    BY <1>4 DEF AfterWarmup
  <2> HIDE DEF done, a
  <2>2. a \in TargetState
    BY <1>2, <2>1 DEF TargetState
  <2>3. /\ a.warmup = "done" /\ a.discard = s.discard /\ a.cold = TRUE
        /\ a.failed = FALSE /\ a.stopped = FALSE /\ a.in_flight = FALSE
        /\ a.scheduled = 0 /\ a.completed = 0 /\ a.ok = 0
        /\ a.samples = 0 /\ a.fail = 0 /\ a.loss_streak = 0
    BY <1>2, <1>3, <2>1 DEF TargetState
  <2>4. TargetOK(a, IF a.failed THEN r + 1 ELSE r)
    BY <1>1, <2>2, <2>3, SizeAssumption DEF TargetOK
  <2>5. QED
    BY <2>4 DEF a
<1>5. CASE o = "setup"
  <2>1. a = ConstructionFailed(done)
    BY <1>5 DEF AfterWarmup
  <2> HIDE DEF done, a
  <2>2. done.fail + (ProbeCount - done.completed) = ProbeCount
    BY <1>3, SizeAssumption
  <2>3. ProbeCount \in 0..ProbeCount
    BY SizeAssumption
  <2>4. /\ a \in TargetState /\ a.warmup = "done"
        /\ a.discard = s.discard /\ a.cold = s.cold
        /\ a.failed = TRUE /\ a.stopped = FALSE /\ a.in_flight = FALSE
        /\ a.scheduled = ProbeCount /\ a.completed = ProbeCount /\ a.ok = 0
        /\ a.samples = 0 /\ a.fail = ProbeCount /\ a.loss_streak = 0
    BY <1>2, <1>3, <2>1, <2>2, <2>3, ConstructionFailedFields
  <2>5. TargetOK(a, IF a.failed THEN r + 1 ELSE r)
    BY <1>1, <2>4, SizeAssumption DEF TargetOK
  <2>6. QED
    BY <2>5 DEF a
<1>6. CASE o # "ok" /\ o # "setup"
  <2>1. a = [done EXCEPT !.discard = TRUE]
    BY <1>6 DEF AfterWarmup
  <2> HIDE DEF done, a
  <2>2. a \in TargetState
    BY <1>2, <2>1 DEF TargetState
  <2>3. /\ a.warmup = "done" /\ a.discard = TRUE /\ a.cold = s.cold
        /\ a.failed = FALSE /\ a.stopped = FALSE /\ a.in_flight = FALSE
        /\ a.scheduled = 0 /\ a.completed = 0 /\ a.ok = 0
        /\ a.samples = 0 /\ a.fail = 0 /\ a.loss_streak = 0
    BY <1>2, <1>3, <2>1 DEF TargetState
  <2>4. TargetOK(a, IF a.failed THEN r + 1 ELSE r)
    BY <1>1, <2>2, <2>3, SizeAssumption DEF TargetOK
  <2>5. QED
    BY <2>4 DEF a
<1>7. QED
  BY <1>4, <1>5, <1>6

(* What stands of a target between the join of its probe and the decision    *)
(* whether the target is final.                                              *)
JoinedOK(a) ==
  /\ a \in TargetState
  /\ a.warmup = "done" /\ ~a.stopped /\ ~a.in_flight /\ a.completed # 0
  /\ a.ok + a.fail = a.completed /\ a.scheduled = a.completed
  /\ a.loss_streak <= a.completed
  /\ a.samples <= a.ok /\ a.ok <= a.samples + 1
  /\ a.discard => a.ok = 0
  /\ a.failed => a.completed = ProbeCount
  /\ Warmup /\ a.ok > 0 => a.cold
  /\ Warmup /\ ~a.failed => a.cold \/ a.discard

LEMMA AfterProbeJoined ==
  ASSUME NEW s, NEW r, TargetOK(s, r), s.in_flight, NEW o
  PROVE  JoinedOK(AfterProbe(s, o)) /\ r = 0
<1> DEFINE j == Joined(s)
           p == s.completed + 1
<1>1. /\ s \in TargetState /\ s.stopped = FALSE /\ s.failed = FALSE /\ r = 0
      /\ s.warmup = "done" /\ s.scheduled = p
      /\ s.ok + s.fail = s.completed /\ s.loss_streak <= s.completed
      /\ s.samples <= s.ok /\ s.ok <= s.samples + 1
      /\ s.discard => s.ok = 0
      /\ Warmup /\ s.ok > 0 => s.cold
      /\ Warmup => s.cold \/ s.discard
  BY SizeAssumption DEF TargetOK, TargetState
<1>2. /\ s.completed \in Nat /\ p \in 0..ProbeCount /\ s.ok \in Nat
      /\ s.fail \in Nat /\ s.samples \in Nat /\ s.loss_streak \in Nat
      /\ s.discard \in BOOLEAN /\ s.cold \in BOOLEAN
  BY <1>1, SizeAssumption DEF TargetState
<1>3. /\ s.ok + 1 \in 0..ProbeCount /\ s.fail + 1 \in 0..ProbeCount
      /\ s.samples + 1 \in 0..ProbeCount /\ s.loss_streak + 1 \in 0..ProbeCount
      /\ s.loss_streak \in 0..ProbeCount
  BY <1>1, <1>2, SizeAssumption
<1>4. j \in TargetState
  BY <1>1, <1>2, UpdatesTyped DEF Joined
<1>5. /\ j.warmup = "done" /\ j.in_flight = FALSE
      /\ j.stopped = FALSE /\ j.failed = FALSE
      /\ j.scheduled = p /\ j.completed = p
      /\ j.ok = s.ok /\ j.fail = s.fail /\ j.samples = s.samples
      /\ j.loss_streak = s.loss_streak
      /\ j.discard = s.discard /\ j.cold = s.cold
  BY <1>1 DEF Joined, TargetState
<1>6. CASE o = "ok"
  <2> DEFINE a == Succeeded(j)
  <2>1. AfterProbe(s, o) = a
    BY <1>6 DEF AfterProbe
  <2> HIDE DEF j, p
  <2>2. CASE s.discard
    <3>1. a = [j EXCEPT !.ok = s.ok + 1, !.loss_streak = 0, !.discard = FALSE,
                        !.cold = TRUE]
      BY <1>5, <2>2 DEF Succeeded
    <3> HIDE DEF a
    <3>2. a \in TargetState
      BY <1>3, <1>4, <3>1, UpdatesTyped
    <3>3. /\ a.warmup = "done" /\ a.in_flight = FALSE
          /\ a.stopped = FALSE /\ a.failed = FALSE
          /\ a.scheduled = p /\ a.completed = p
          /\ a.ok = s.ok + 1 /\ a.fail = s.fail /\ a.samples = s.samples
          /\ a.loss_streak = 0 /\ a.discard = FALSE /\ a.cold = TRUE
      BY <1>4, <1>5, <3>1 DEF TargetState
    <3>4. JoinedOK(a)
      BY <1>1, <1>2, <2>2, <3>2, <3>3 DEF JoinedOK, p
    <3>5. QED
      BY <1>1, <2>1, <3>4
  <2>3. CASE ~s.discard
    <3>1. a = [j EXCEPT !.ok = s.ok + 1, !.loss_streak = 0,
                        !.samples = s.samples + 1]
      BY <1>5, <2>3 DEF Succeeded
    <3> HIDE DEF a
    <3>2. a \in TargetState
      BY <1>3, <1>4, <3>1, UpdatesTyped
    <3>3. /\ a.warmup = "done" /\ a.in_flight = FALSE
          /\ a.stopped = FALSE /\ a.failed = FALSE
          /\ a.scheduled = p /\ a.completed = p
          /\ a.ok = s.ok + 1 /\ a.fail = s.fail /\ a.samples = s.samples + 1
          /\ a.loss_streak = 0 /\ a.discard = s.discard /\ a.cold = s.cold
      BY <1>4, <1>5, <3>1 DEF TargetState
    <3>4. JoinedOK(a)
      BY <1>1, <1>2, <2>3, <3>2, <3>3 DEF JoinedOK, p
    <3>5. QED
      BY <1>1, <2>1, <3>4
  <2>4. QED
    BY <2>2, <2>3
<1>7. CASE o # "ok"
  <2> DEFINE streak == IF o = "loss" THEN s.loss_streak + 1 ELSE s.loss_streak
             f == Failed(j, o)
  <2> HIDE DEF j, p
  <2>1. f = [j EXCEPT !.fail = s.fail + 1, !.loss_streak = streak]
    BY <1>5 DEF Failed
  <2>2. streak \in 0..ProbeCount /\ streak <= s.completed + 1
    BY <1>1, <1>2, <1>3
  <2> HIDE DEF f, streak
  <2>3. f \in TargetState
    BY <1>3, <1>4, <2>1, <2>2, UpdatesTyped
  <2>4. /\ f.warmup = "done" /\ f.in_flight = FALSE
        /\ f.stopped = FALSE /\ f.failed = FALSE
        /\ f.scheduled = p /\ f.completed = p
        /\ f.ok = s.ok /\ f.fail = s.fail + 1 /\ f.samples = s.samples
        /\ f.discard = s.discard /\ f.cold = s.cold
        /\ f.loss_streak = streak
    BY <1>4, <1>5, <2>1 DEF TargetState
  <2>5. CASE o = "setup"
    <3> DEFINE a == ConstructionFailed(f)
    <3>1. AfterProbe(s, o) = a
      BY <2>5 DEF AfterProbe, f, j
    <3>2. /\ f.fail + (ProbeCount - f.completed) \in 0..ProbeCount
          /\ f.fail + (ProbeCount - f.completed) + s.ok = ProbeCount
      BY <1>1, <1>2, <2>4, SizeAssumption DEF p
    <3>3. /\ a \in TargetState /\ a.warmup = "done" /\ a.in_flight = FALSE
          /\ a.stopped = FALSE /\ a.failed = TRUE
          /\ a.scheduled = ProbeCount /\ a.completed = ProbeCount
          /\ a.ok = s.ok /\ a.samples = s.samples
          /\ a.fail = f.fail + (ProbeCount - f.completed)
          /\ a.discard = s.discard /\ a.cold = s.cold
          /\ a.loss_streak = streak
      BY <2>3, <2>4, <3>2, ConstructionFailedFields
    <3> HIDE DEF a
    <3>4. a.ok + a.fail = a.completed
      BY <1>2, <3>2, <3>3, <2>4, SizeAssumption
    <3>5. streak <= ProbeCount
      BY <2>2, SizeAssumption
    <3>5a. a.completed # 0
      BY <1>2, <3>3, SizeAssumption
    <3>6. JoinedOK(a)
      BY <1>1, <3>3, <3>4, <3>5, <3>5a DEF JoinedOK
    <3>7. QED
      BY <1>1, <3>1, <3>6
  <2>6. CASE o # "setup"
    <3>1. AfterProbe(s, o) = f
      BY <1>7, <2>6 DEF AfterProbe, f, j
    <3>2. JoinedOK(f)
      BY <1>1, <1>2, <2>2, <2>3, <2>4 DEF JoinedOK, p
    <3>3. QED
      BY <1>1, <3>1, <3>2
  <2>7. QED
    BY <2>5, <2>6
<1>8. QED
  BY <1>6, <1>7

(* Joining a measured probe, with or without an early stop, finishes the     *)
(* target exactly when the code sends its result.                            *)
LEMMA AfterProbeOK ==
  ASSUME NEW s, NEW r, TargetOK(s, r), s.in_flight,
         NEW o, NEW stop \in BOOLEAN
  PROVE  LET a == [AfterProbe(s, o) EXCEPT !.stopped = stop]
         IN TargetOK(a, IF stop \/ a.completed = ProbeCount THEN r + 1 ELSE r)
<1> DEFINE b == AfterProbe(s, o)
           a == [b EXCEPT !.stopped = stop]
<1>1. JoinedOK(b) /\ r = 0
  BY AfterProbeJoined
<1> HIDE DEF b
<1>2. /\ a \in TargetState /\ a.warmup = b.warmup /\ a.stopped = stop
      /\ a.in_flight = b.in_flight /\ a.failed = b.failed
      /\ a.scheduled = b.scheduled /\ a.completed = b.completed
      /\ a.ok = b.ok /\ a.fail = b.fail /\ a.samples = b.samples
      /\ a.discard = b.discard /\ a.cold = b.cold
      /\ a.loss_streak = b.loss_streak
  BY <1>1 DEF JoinedOK, TargetState
<1> HIDE DEF a
<1>3. TargetOK(a, IF stop \/ a.completed = ProbeCount THEN r + 1 ELSE r)
  BY <1>1, <1>2, SizeAssumption DEF TargetOK, JoinedOK, TargetState
<1>4. QED
  BY <1>3 DEF a, b
-----------------------------------------------------------------------------
(* Lemmas about the whole state *)

(* A step that writes one target and, perhaps, its result. *)
LEMMA UpdateTarget ==
  ASSUME TargetsOK, NEW t \in Targets, NEW s, NEW r, TargetOK(s, r),
         states' = [states EXCEPT ![t] = s],
         results' = [results EXCEPT ![t] = r]
  PROVE  TargetsOK'
<1>1. s \in TargetState /\ r \in Nat
  BY DEF TargetOK
<1>2. states' \in [Targets -> TargetState] /\ results' \in [Targets -> Nat]
  BY <1>1 DEF TargetsOK
<1>3. ASSUME NEW u \in Targets PROVE TargetOK(states'[u], results'[u])
  <2>1. CASE u = t
    BY <2>1 DEF TargetsOK
  <2>2. CASE u # t
    <3>1. states'[u] = states[u] /\ results'[u] = results[u]
      BY <2>2 DEF TargetsOK
    <3>2. QED
      BY <3>1 DEF TargetsOK
  <2>3. QED
    BY <2>1, <2>2
<1>4. QED
  BY <1>2, <1>3 DEF TargetsOK

(* Probes that leave the set. *)
LEMMA DropKeepsFuts ==
  ASSUME NEW st, NEW fs, FutsOK(fs, st), NEW G \in SUBSET fs
  PROVE  /\ FutsOK(G, st)
         /\ Cardinality(RunningIn(G)) \in Nat
         /\ Cardinality(RunningIn(G)) <= Cardinality(RunningIn(fs))
<1>1. IsFiniteSet(G)
  BY FS_Subset DEF FutsOK
<1>2. RunningIn(G) \in SUBSET RunningIn(fs) /\ RunningIn(fs) \in SUBSET fs
  BY DEF RunningIn
<1>3. IsFiniteSet(RunningIn(fs)) /\ IsFiniteSet(RunningIn(G))
  BY <1>2, FS_Subset DEF FutsOK
<1>4. FutsOK(G, st)
  BY <1>1 DEF FutsOK
<1>5. QED
  BY <1>2, <1>3, <1>4, FS_Subset, FS_CardinalityType

(* The join of a probe frees its target for any update. *)
LEMMA JoinKeepsFuts ==
  ASSUME FutsOK(futs, states), TargetsOK, NEW f \in futs, NEW s
  PROVE  FutsOK(futs \ {f}, [states EXCEPT ![f.index] = s])
<1> DEFINE F == futs \ {f}
           st == [states EXCEPT ![f.index] = s]
<1>1. FutsOK(F, states)
  BY F \in SUBSET futs, DropKeepsFuts
<1>2. \A g \in F : g.index \in Targets /\ g.index # f.index
  BY DEF FutsOK, Future
<1>3. \A g \in F : st[g.index] = states[g.index]
  BY <1>2 DEF TargetsOK
<1>4. \A g \in F : Linked(g, st[g.index])
  BY <1>1, <1>3 DEF FutsOK
<1> HIDE DEF F, st
<1>5. FutsOK(F, st)
  BY <1>1, <1>4 DEF FutsOK
<1>6. QED
  BY <1>5 DEF F, st

(* A probe is spawned for a target that has none. *)
LEMMA SpawnKeepsFuts ==
  ASSUME FutsOK(futs, states), TargetsOK, NEW t \in Targets, NEW s,
         NEW k \in 0..ProbeCount, Linked(Spawned(t, k), s),
         states[t].warmup # "flying", ~states[t].in_flight
  PROVE  /\ FutsOK(futs \cup {Spawned(t, k)}, [states EXCEPT ![t] = s])
         /\ RunningIn(futs \cup {Spawned(t, k)}) = RunningIn(futs)
<1> DEFINE n == Spawned(t, k)
           st == [states EXCEPT ![t] = s]
<1>1. n \in Future /\ n.index = t /\ n.phase = "spawned"
  BY DEF Spawned, Future, Phase
<1>2. \A g \in futs : g.index \in Targets /\ g.index # t
  BY DEF FutsOK, Linked, Future
<1>3. \A g \in futs : st[g.index] = states[g.index]
  BY <1>2 DEF TargetsOK
<1>4. st[t] = s
  BY DEF TargetsOK
<1> HIDE DEF n, st
<1>5. IsFiniteSet(futs \cup {n})
  BY FS_AddElement DEF FutsOK
<1>6. \A g \in futs \cup {n} : Linked(g, st[g.index])
  BY <1>1, <1>3, <1>4 DEF FutsOK, n
<1>7. FutsOK(futs \cup {n}, st)
  BY <1>1, <1>2, <1>5, <1>6 DEF FutsOK
<1>8. RunningIn(futs \cup {n}) = RunningIn(futs)
  BY <1>1 DEF RunningIn
<1>9. QED
  BY <1>7, <1>8 DEF n, st

(* The queue stays well-typed when a target is pushed. *)
LEMMA PushKeepsQueue ==
  ASSUME generations \in [Targets -> Nat], heap \subseteq Entry,
         NEW t \in Targets, NEW s, Push(t, s)
  PROVE  generations' \in [Targets -> Nat] /\ heap' \subseteq Entry
BY TierRange DEF Push, Entry
-----------------------------------------------------------------------------
(* The steps *)

LEMMA InitEstablishes == Init => IInv
<1> SUFFICES ASSUME Init PROVE IInv
  OBVIOUS
<1>1. TargetsOK
  <2>1. ASSUME NEW t \in Targets PROVE TargetOK(states[t], results[t])
    <3>1. /\ states[t] = NewTarget(t)
          /\ results[t] = IF t \in Invalid THEN 1 ELSE 0
      BY DEF Init
    <3>2. QED
      BY <3>1, NewTargetOK
  <2>2. \A t \in Targets : NewTarget(t) \in TargetState
    BY NewTargetOK DEF TargetOK
  <2>3. states \in [Targets -> TargetState] /\ results \in [Targets -> Nat]
    BY <2>2 DEF Init
  <2>4. QED
    BY <2>1, <2>3 DEF TargetsOK
<1>2. FutsOK(futs, states)
  BY FS_EmptySet DEF Init, FutsOK
<1>3. PoolOK
  <2>1. RunningIn(futs) = {}
    BY DEF Init, RunningIn
  <2>2. Cardinality(RunningIn(futs)) = 0
    BY <2>1, FS_EmptySet
  <2>3. QED
    BY <2>2, WorkerAssumption DEF Init, PoolOK, Capacity
<1>4. RestOK
  <2>1. heap \subseteq Entry
    BY TierRange DEF Init, Entry
  <2>2. cursor \in 1..N + 1
    BY SizeAssumption DEF Init
  <2>3. generations \in [Targets -> Nat]
    BY DEF Init
  <2>4. QED
    BY <2>1, <2>2, <2>3 DEF Init, RestOK
<1>5. QED
  BY <1>1, <1>2, <1>3, <1>4 DEF IInv

LEMMA ReadOverrideStep == IInv /\ ReadOverride => IInv'
<1> SUFFICES ASSUME IInv, ReadOverride PROVE IInv'
  OBVIOUS
<1> USE DEF queueVars, userVars
<1>1. TargetsOK'
  BY DEF IInv, TargetsOK, ReadOverride
<1>2. RestOK'
  <2>1. CASE override > 0
    BY <2>1 DEF IInv, RestOK, ReadOverride
  <2>2. CASE ~(override > 0)
    BY <2>2 DEF IInv, RestOK, ReadOverride
  <2>3. QED
    BY <2>1, <2>2
<1>3. FutsOK(futs', states) /\ PoolOK'
  <2>1. CASE override > 0
    <3>1. workers' = ManualWorkers /\ Reconcile(futs, ManualWorkers)
      BY <2>1 DEF ReadOverride
    <3>2. ManualWorkers \in Nat \ {0} /\ ManualWorkers <= Capacity
      BY ManualInRange DEF IInv, RestOK
    <3>3. /\ FutsOK(futs', states) /\ permits' \in Nat
          /\ permits' + Cardinality(RunningIn(futs')) <= Capacity
      BY <3>1, <3>2, ReconcileKeeps DEF IInv, PoolOK
    <3>4. QED
      BY <3>1, <3>2, <3>3 DEF PoolOK
  <2>2. CASE ~(override > 0)
    BY <2>2 DEF IInv, PoolOK, ReadOverride
  <2>3. QED
    BY <2>1, <2>2
<1>4. states' = states
  BY DEF ReadOverride
<1>5. QED
  BY <1>1, <1>2, <1>3, <1>4 DEF IInv

LEMMA LaunchWarmupStep == IInv /\ LaunchWarmup => IInv'
<1> SUFFICES ASSUME IInv, LaunchWarmup PROVE IInv'
  OBVIOUS
<1> USE DEF queueVars, userVars
<1>1. PICK t \in cursor..N :
        /\ WarmupCursor(t) /\ cursor' = t + 1
        /\ states' = [states EXCEPT ![t].warmup = "flying"]
        /\ futs' = futs \cup {Spawned(t, 0)}
  BY DEF LaunchWarmup
<1> DEFINE s == [states[t] EXCEPT !.warmup = "flying"]
<1>2. cursor \in 1..N + 1 /\ t \in Targets
  BY SizeAssumption DEF IInv, RestOK, Targets
<1>3. AwaitsWarmup(t)
  BY <1>1, <1>2, SizeAssumption DEF WarmupCursor
<1>4. TargetOK(states[t], results[t])
  BY <1>2 DEF IInv, TargetsOK
<1>5. TargetOK(s, results[t])
  <2>1. s \in TargetState
    BY <1>4 DEF TargetOK, TargetState, WarmupPhase
  <2>2. /\ s.warmup = "flying" /\ s.discard = states[t].discard
        /\ s.cold = states[t].cold /\ s.failed = states[t].failed
        /\ s.stopped = states[t].stopped /\ s.in_flight = states[t].in_flight
        /\ s.scheduled = states[t].scheduled
        /\ s.completed = states[t].completed
        /\ s.ok = states[t].ok /\ s.samples = states[t].samples
        /\ s.fail = states[t].fail /\ s.loss_streak = states[t].loss_streak
    BY <1>4 DEF TargetOK, TargetState
  <2>3. states[t].warmup = "todo"
    BY <1>3 DEF AwaitsWarmup
  <2> HIDE DEF s
  <2>4. QED
    BY <1>4, <2>1, <2>2, <2>3 DEF TargetOK
<1>6. states' = [states EXCEPT ![t] = s]
  BY <1>1, <1>2 DEF IInv, TargetsOK
<1>7. TargetsOK'
  <2>1. results' = [results EXCEPT ![t] = results[t]]
    BY <1>2 DEF LaunchWarmup, IInv, TargetsOK
  <2> HIDE DEF s
  <2>2. QED
    BY <1>2, <1>5, <1>6, <2>1, UpdateTarget DEF IInv
<1>8. FutsOK(futs', states') /\ RunningIn(futs') = RunningIn(futs)
  <2>1. s.warmup = "flying"
    BY <1>4 DEF TargetOK, TargetState
  <2>2. Linked(Spawned(t, 0), s)
    BY <2>1 DEF Linked, Spawned
  <2>3. states[t].warmup # "flying" /\ ~states[t].in_flight
    BY <1>3 DEF AwaitsWarmup
  <2>4. 0 \in 0..ProbeCount
    BY SizeAssumption
  <2> HIDE DEF s
  <2>5. futs' = futs \cup {Spawned(t, 0)}
    BY <1>1
  <2>6. FutsOK(futs, states) /\ TargetsOK
    BY DEF IInv
  <2>7. /\ FutsOK(futs \cup {Spawned(t, 0)}, [states EXCEPT ![t] = s])
        /\ RunningIn(futs \cup {Spawned(t, 0)}) = RunningIn(futs)
    BY <1>2, <2>2, <2>3, <2>4, <2>6, SpawnKeepsFuts
  <2>8. QED
    BY <1>6, <2>5, <2>7
<1>9. PoolOK'
  BY <1>8 DEF IInv, PoolOK, LaunchWarmup
<1>10. RestOK'
  <2>1. cursor' \in 1..N + 1
    BY <1>1, <1>2, SizeAssumption
  <2>2. heap' \subseteq Entry
    BY DEF LaunchWarmup, IInv, RestOK
  <2>3. QED
    BY <2>1, <2>2 DEF LaunchWarmup, IInv, RestOK
<1>11. QED
  BY <1>7, <1>8, <1>9, <1>10 DEF IInv

LEMMA LaunchMeasuredStep == IInv /\ LaunchMeasured => IInv'
<1> SUFFICES ASSUME IInv, LaunchMeasured PROVE IInv'
  OBVIOUS
<1> USE DEF queueVars, userVars
<1>1. PICK e \in FirstEntries :
        /\ heap' = Beyond(e)
        /\ states' = [states EXCEPT
              ![e.index].scheduled = states[e.index].scheduled + 1,
              ![e.index].in_flight = TRUE]
        /\ futs' = futs \cup {Spawned(e.index, states[e.index].scheduled + 1)}
  BY DEF LaunchMeasured
<1> DEFINE t == e.index
           k == states[t].scheduled + 1
           s == [states[t] EXCEPT !.scheduled = k, !.in_flight = TRUE]
<1>2. e \in heap /\ t \in Targets /\ HasRemainingProbe(states[t])
  BY DEF FirstEntries, LiveEntries, Live, IInv, RestOK, Entry
<1>3. TargetOK(states[t], results[t])
  BY <1>2 DEF IInv, TargetsOK
<1>4. /\ k \in 0..ProbeCount /\ states[t].warmup = "done"
      /\ states[t].in_flight = FALSE /\ states[t].stopped = FALSE
      /\ states[t].failed = FALSE /\ states[t].completed # ProbeCount
      /\ k = states[t].completed + 1
  BY <1>2, <1>3, SizeAssumption DEF HasRemainingProbe, TargetOK, TargetState
<1>5. /\ s.warmup = "done" /\ s.discard = states[t].discard
      /\ s.cold = states[t].cold /\ s.failed = FALSE
      /\ s.stopped = FALSE /\ s.in_flight = TRUE /\ s.scheduled = k
      /\ s.completed = states[t].completed
      /\ s.ok = states[t].ok /\ s.samples = states[t].samples
      /\ s.fail = states[t].fail /\ s.loss_streak = states[t].loss_streak
  BY <1>3, <1>4 DEF TargetOK, TargetState
<1>6. s \in TargetState
  <2> HIDE DEF k
  <2>1. QED
    BY <1>3, <1>4 DEF TargetOK, TargetState
<1>7. states' = [states EXCEPT ![t] = s]
  BY <1>1, <1>2 DEF IInv, TargetsOK
<1> HIDE DEF s, k
<1>8. TargetOK(s, results[t])
  BY <1>3, <1>4, <1>5, <1>6 DEF TargetOK
<1>9. TargetsOK'
  <2>1. results' = [results EXCEPT ![t] = results[t]]
    BY <1>2 DEF LaunchMeasured, IInv, TargetsOK
  <2>2. QED
    BY <1>2, <1>7, <1>8, <2>1, UpdateTarget DEF IInv
<1>10. FutsOK(futs', states') /\ RunningIn(futs') = RunningIn(futs)
  <2>1. k # 0 /\ Spawned(t, k).attempt = k
    BY <1>3, <1>4, SizeAssumption DEF Spawned, k, TargetOK, TargetState
  <2>2. Linked(Spawned(t, k), s)
    BY <1>5, <2>1 DEF Linked
  <2>3. futs' = futs \cup {Spawned(t, k)}
    BY <1>1 DEF k
  <2>4. QED
    BY <1>2, <1>4, <1>7, <2>2, <2>3, SpawnKeepsFuts DEF IInv
<1>11. PoolOK'
  BY <1>10 DEF IInv, PoolOK, LaunchMeasured
<1>12. RestOK'
  <2>1. PICK c \in cursor..N + 1 : cursor' = c /\ preferWarmup' = (c <= N)
    BY DEF LaunchMeasured
  <2>2. cursor' \in 1..N + 1 /\ preferWarmup' \in BOOLEAN
    BY <2>1, SizeAssumption DEF IInv, RestOK
  <2>3. heap' \subseteq Entry
    BY <1>1 DEF Beyond, IInv, RestOK
  <2>4. QED
    BY <2>2, <2>3 DEF LaunchMeasured, IInv, RestOK
<1>13. QED
  BY <1>9, <1>10, <1>11, <1>12 DEF IInv

LEMMA LaunchNothingStep == IInv /\ LaunchNothing => IInv'
<1> SUFFICES ASSUME IInv, LaunchNothing PROVE IInv'
  OBVIOUS
<1>1. PICK c \in cursor..N + 1 : cursor' = c
  BY DEF LaunchNothing
<1>2. cursor' \in 1..N + 1
  BY <1>1, SizeAssumption DEF IInv, RestOK
<1>3. RestOK'
  BY <1>2 DEF LaunchNothing, IInv, RestOK, userVars
<1>4. QED
  BY <1>3 DEF LaunchNothing, IInv, TargetsOK, FutsOK, PoolOK, userVars

LEMMA LaunchBlockedStep == IInv /\ LaunchBlocked => IInv'
BY DEF LaunchBlocked, IInv, TargetsOK, FutsOK, PoolOK, RestOK, queueVars, userVars

LEMMA NothingInFlightStep == IInv /\ NothingInFlight => IInv'
BY DEF NothingInFlight, AfterDrain, IInv, TargetsOK, FutsOK, PoolOK, RestOK,
       queueVars, userVars

(* Dropping probes changes neither the targets nor the queue. *)
LEMMA DropStep ==
  ASSUME IInv, futs' \in SUBSET futs, pc' \in {"top", "done", "dead"},
         UNCHANGED <<states, queueVars, workers, permits, best, results, userVars>>
  PROVE  IInv'
<1> USE DEF queueVars, userVars
<1>1. /\ FutsOK(futs', states) /\ Cardinality(RunningIn(futs')) \in Nat
      /\ Cardinality(RunningIn(futs')) <= Cardinality(RunningIn(futs))
  BY DropKeepsFuts DEF IInv
<1>2. Cardinality(RunningIn(futs)) \in Nat
  BY DropKeepsFuts, futs \in SUBSET futs DEF IInv
<1>3. PoolOK'
  BY <1>1, <1>2, WorkerAssumption DEF IInv, PoolOK, Capacity
<1>4. QED
  BY <1>1, <1>3 DEF IInv, TargetsOK, RestOK

LEMMA NoticeCancelStep == IInv /\ NoticeCancel => IInv'
BY DropStep, {} \in SUBSET futs DEF NoticeCancel

LEMMA JoinPanickedStep == IInv /\ JoinPanicked => IInv'
BY DropStep DEF JoinPanicked

LEMMA JoinAndDieStep == IInv /\ JoinAndDie => IInv'
BY DropStep, {} \in SUBSET futs DEF JoinAndDie

(* The join of a probe of target t, which pushes the target or leaves the    *)
(* queue alone, changes its record and its result, and maybe the pool.       *)
LEMMA JoinStep ==
  ASSUME IInv, NEW f \in futs, NEW s, NEW r, TargetOK(s, r),
         states' = [states EXCEPT ![f.index] = s],
         results' = [results EXCEPT ![f.index] = r],
         FutsOK(futs', states'), PoolOK', best' \in Nat, pc' = "top",
         Push(f.index, s) \/ UNCHANGED <<heap, generations>>,
         UNCHANGED <<cursor, preferWarmup, userVars>>
  PROVE  IInv'
<1>1. f.index \in Targets
  BY DEF IInv, FutsOK, Future
<1>2. TargetsOK'
  BY <1>1, UpdateTarget DEF IInv
<1>3. generations' \in [Targets -> Nat] /\ heap' \subseteq Entry
  <2>1. CASE Push(f.index, s)
    BY <1>1, <2>1, PushKeepsQueue DEF IInv, RestOK
  <2>2. CASE UNCHANGED <<heap, generations>>
    BY <2>2 DEF IInv, RestOK
  <2>3. QED
    BY <2>1, <2>2
<1>4. RestOK'
  BY <1>3 DEF IInv, RestOK, userVars
<1>5. QED
  BY <1>2, <1>4 DEF IInv

LEMMA JoinWarmupStep == IInv /\ JoinWarmup => IInv'
<1> SUFFICES ASSUME IInv, JoinWarmup PROVE IInv'
  OBVIOUS
<1> USE DEF userVars
<1>1. PICK f \in InPhase("finished") :
        LET t == f.index
            s == AfterWarmup(states[t], f.sample)
        IN /\ f.attempt = 0
           /\ f.sample # "panic"
           /\ futs' = futs \ {f}
           /\ states' = [states EXCEPT ![t] = s]
           /\ results' = [results EXCEPT ![t] = IF s.failed THEN @ + 1 ELSE @]
           /\ IF Requeued(s, f.sample)
              THEN Push(t, s)
              ELSE UNCHANGED <<heap, generations>>
  BY DEF JoinWarmup
<1> DEFINE t == f.index
           s == AfterWarmup(states[t], f.sample)
           r == IF s.failed THEN results[t] + 1 ELSE results[t]
<1>2. f \in futs /\ t \in Targets
  BY DEF InPhase, IInv, FutsOK, Future
<1>3. TargetOK(states[t], results[t]) /\ states[t].warmup = "flying"
  BY <1>1, <1>2 DEF IInv, TargetsOK, FutsOK, Linked
<1>4. TargetOK(s, r)
  BY <1>3, AfterWarmupOK
<1>5. /\ states' = [states EXCEPT ![f.index] = s]
      /\ Push(f.index, s) \/ UNCHANGED <<heap, generations>>
      /\ futs' = futs \ {f}
  BY <1>1
<1>6. results' = [results EXCEPT ![f.index] = r]
  BY <1>1
<1> HIDE DEF s, r
<1>7. FutsOK(futs', states')
  BY <1>2, <1>5, JoinKeepsFuts DEF IInv
<1>8. PoolOK'
  <2>1. futs' \in SUBSET futs
    BY <1>5
  <2>2. /\ Cardinality(RunningIn(futs')) <= Cardinality(RunningIn(futs))
        /\ Cardinality(RunningIn(futs')) \in Nat
        /\ Cardinality(RunningIn(futs)) \in Nat
    BY <2>1, futs \in SUBSET futs, DropKeepsFuts DEF IInv
  <2>3. QED
    BY <2>2, WorkerAssumption DEF IInv, PoolOK, Capacity, JoinWarmup
<1>9. QED
  BY <1>2, <1>4, <1>5, <1>6, <1>7, <1>8, JoinStep DEF JoinWarmup, IInv, RestOK

LEMMA JoinMeasuredStep == IInv /\ JoinMeasured => IInv'
<1> SUFFICES ASSUME IInv, JoinMeasured PROVE IInv'
  OBVIOUS
<1> USE DEF userVars
<1>1. PICK f \in InPhase("finished") :
        LET t      == f.index
            joined == [states EXCEPT ![t] = AfterProbe(states[t], f.sample)]
        IN /\ f.attempt > 0
           /\ \E stop \in StopDecisions(t, joined), w \in NextWorkers :
                LET s     == [joined[t] EXCEPT !.stopped = stop]
                    final == stop \/ s.completed = ProbeCount
                IN /\ states' = [states EXCEPT ![t] = s]
                   /\ results' = [results EXCEPT ![t] = IF final THEN @ + 1 ELSE @]
                   /\ best' = IF final THEN RecordBest(s) ELSE best
                   /\ workers' = w
                   /\ Reconcile(futs \ {f}, w)
                   /\ IF HasRemainingProbe(s)
                      THEN Push(t, s)
                      ELSE UNCHANGED <<heap, generations>>
  BY DEF JoinMeasured
<1> DEFINE t == f.index
           joined == [states EXCEPT ![t] = AfterProbe(states[t], f.sample)]
<1>2. f \in futs /\ t \in Targets /\ f.attempt \in 0..ProbeCount
  BY DEF InPhase, IInv, FutsOK, Future
<1>3. joined[t] = AfterProbe(states[t], f.sample)
  BY <1>2 DEF IInv, TargetsOK
<1>4. PICK stop \in BOOLEAN, w \in NextWorkers :
        LET s     == [AfterProbe(states[t], f.sample) EXCEPT !.stopped = stop]
            final == stop \/ s.completed = ProbeCount
        IN /\ states' = [states EXCEPT ![t] = s]
           /\ results' = [results EXCEPT ![t] = IF final THEN @ + 1 ELSE @]
           /\ best' = IF final THEN RecordBest(s) ELSE best
           /\ workers' = w
           /\ Reconcile(futs \ {f}, w)
           /\ Push(t, s) \/ UNCHANGED <<heap, generations>>
  <2>1. StopDecisions(t, joined) \subseteq BOOLEAN
    BY DEF StopDecisions
  <2> HIDE DEF joined
  <2>2. QED
    BY <1>1, <1>3, <2>1 DEF joined
<1> DEFINE s == [AfterProbe(states[t], f.sample) EXCEPT !.stopped = stop]
           r == IF stop \/ s.completed = ProbeCount
                THEN results[t] + 1 ELSE results[t]
<1>5. TargetOK(states[t], results[t]) /\ states[t].in_flight
  BY <1>1, <1>2 DEF IInv, TargetsOK, FutsOK, Linked
<1>6. TargetOK(s, r)
  BY <1>5, AfterProbeOK
<1>7. /\ states' = [states EXCEPT ![f.index] = s]
      /\ Push(f.index, s) \/ UNCHANGED <<heap, generations>>
      /\ results' = [results EXCEPT ![f.index] = r]
      /\ workers' = w /\ Reconcile(futs \ {f}, w)
      /\ best' = RecordBest(s) \/ best' = best
  BY <1>4
<1> HIDE DEF s, r
<1>8. best' \in Nat
  BY <1>7 DEF RecordBest, IInv, RestOK
<1>9. /\ FutsOK(futs \ {f}, states')
      /\ Cardinality(RunningIn(futs \ {f})) \in Nat
      /\ Cardinality(RunningIn(futs \ {f})) <= Cardinality(RunningIn(futs))
  BY <1>2, <1>7, futs \ {f} \in SUBSET futs, JoinKeepsFuts, DropKeepsFuts DEF IInv
<1>10. w \in Nat \ {0} /\ w <= Capacity
  BY NextWorkersInRange DEF IInv, RestOK
<1>11. permits \in Nat /\ permits + Cardinality(RunningIn(futs \ {f})) <= Capacity
  <2>1. Cardinality(RunningIn(futs)) \in Nat
    BY futs \in SUBSET futs, DropKeepsFuts DEF IInv
  <2>2. QED
    BY <1>9, <2>1, WorkerAssumption DEF IInv, PoolOK, Capacity
<1>12. /\ FutsOK(futs', states') /\ permits' \in Nat
       /\ permits' + Cardinality(RunningIn(futs')) <= Capacity
  BY <1>7, <1>9, <1>10, <1>11, ReconcileKeeps
<1>13. PoolOK'
  BY <1>7, <1>10, <1>12 DEF PoolOK, Capacity
<1>14. QED
  BY <1>2, <1>6, <1>7, <1>8, <1>12, <1>13, JoinStep DEF JoinMeasured

(* A task's step keeps the probes linked; the targets and the queue stay.    *)
LEMMA TaskStep ==
  ASSUME IInv, FutsOK(futs', states), permits' \in Nat,
         permits' + Cardinality(RunningIn(futs')) <= Capacity,
         UNCHANGED taskVars
  PROVE  IInv'
BY DEF taskVars, queueVars, userVars, IInv, TargetsOK, PoolOK, RestOK, Capacity

(* Moving probe f to phase p adds at most one running probe, none unless p   *)
(* is "running", and takes one away when f was running.                      *)
LEMMA MovedRunning ==
  ASSUME FutsOK(futs, states), NEW f \in futs,
         NEW p \in Phase, NEW o
  PROVE  LET R == RunningIn(Moved(f, p, o))
         IN /\ Cardinality(R) \in Nat
            /\ f.phase # "running" =>
                 Cardinality(R) <= Cardinality(RunningIn(futs))
                                     + (IF p = "running" THEN 1 ELSE 0)
            /\ f.phase = "running" /\ p # "running" =>
                 Cardinality(R) = Cardinality(RunningIn(futs)) - 1
<1> DEFINE m == [f EXCEPT !.phase = p, !.sample = o]
           R == RunningIn(Moved(f, p, o))
           S == RunningIn(futs)
<1>1. m.phase = p
  BY DEF FutsOK, Future
<1> HIDE DEF m
<1>2. Moved(f, p, o) = (futs \ {f}) \cup {m}
  BY DEF Moved, m
<1>3. S \in SUBSET futs /\ IsFiniteSet(S)
  BY FS_Subset DEF FutsOK, RunningIn
<1>4. Cardinality(S) \in Nat
  BY <1>3, FS_CardinalityType
<1>5. CASE p = "running"
  <2>1. R \in SUBSET (S \cup {m})
    BY <1>2 DEF RunningIn
  <2>2. /\ IsFiniteSet(S \cup {m})
        /\ Cardinality(S \cup {m}) <= Cardinality(S) + 1
    BY <1>3, <1>4, FS_AddElement
  <2>3. /\ IsFiniteSet(R) /\ Cardinality(R) <= Cardinality(S \cup {m})
    BY <2>1, <2>2, FS_Subset
  <2>4. Cardinality(R) \in Nat /\ Cardinality(S \cup {m}) \in Nat
    BY <2>2, <2>3, FS_CardinalityType
  <2>5. QED
    BY <1>4, <1>5, <2>2, <2>3, <2>4
<1>6. CASE p # "running" /\ f.phase = "running"
  <2>1. R = S \ {f} /\ f \in S
    BY <1>1, <1>2, <1>6 DEF RunningIn
  <2>2. IsFiniteSet(R) /\ Cardinality(R) = Cardinality(S) - 1
    BY <1>3, <2>1, FS_RemoveElement
  <2>3. Cardinality(R) \in Nat
    BY <2>2, FS_CardinalityType
  <2>4. QED
    BY <1>6, <2>2, <2>3
<1>7. CASE p # "running" /\ f.phase # "running"
  <2>1. R = S
    BY <1>1, <1>2, <1>7 DEF RunningIn
  <2>2. QED
    BY <1>4, <1>7, <2>1
<1>8. QED
  BY <1>5, <1>6, <1>7

LEMMA PollTaskStep == ASSUME IInv, NEW f \in futs, PollTask(f) PROVE IInv'
<1>1. FutsOK(futs, states) /\ "running" \in Phase /\ "queued" \in Phase
  BY DEF IInv, Phase
<1>2. Cardinality(RunningIn(futs)) \in Nat
  BY <1>1, futs \in SUBSET futs, DropKeepsFuts
<1>3. /\ permits \in Nat /\ Capacity \in Nat
      /\ permits + Cardinality(RunningIn(futs)) <= Capacity
  BY WorkerAssumption DEF IInv, PoolOK, Capacity
<1>4. f.phase # "running"
  BY DEF PollTask
<1>5. CASE permits > 0
  <2>1. permits' = permits - 1 /\ futs' = Moved(f, "running", "none")
    BY <1>5 DEF PollTask
  <2>2. FutsOK(futs', states)
    BY <1>1, <2>1, MoveKeepsFuts DEF Moved
  <2>3. /\ Cardinality(RunningIn(futs')) \in Nat
        /\ Cardinality(RunningIn(futs')) <= Cardinality(RunningIn(futs)) + 1
    BY <1>1, <1>4, <2>1, MovedRunning
  <2>4. permits' \in Nat /\ permits' + Cardinality(RunningIn(futs')) <= Capacity
    BY <1>2, <1>3, <1>5, <2>1, <2>3
  <2>5. QED
    BY <2>2, <2>4, TaskStep DEF PollTask
<1>6. CASE ~(permits > 0)
  <2>1. permits' = permits /\ futs' = Moved(f, "queued", "none")
    BY <1>6 DEF PollTask
  <2>2. FutsOK(futs', states)
    BY <1>1, <2>1, MoveKeepsFuts DEF Moved
  <2>3. /\ Cardinality(RunningIn(futs')) \in Nat
        /\ Cardinality(RunningIn(futs')) <= Cardinality(RunningIn(futs)) + 0
    BY <1>1, <1>4, <2>1, MovedRunning
  <2>4. permits' \in Nat /\ permits' + Cardinality(RunningIn(futs')) <= Capacity
    BY <1>2, <1>3, <2>1, <2>3
  <2>5. QED
    BY <2>2, <2>4, TaskStep DEF PollTask
<1>7. QED
  BY <1>5, <1>6

LEMMA GiveUpTaskStep == ASSUME IInv, NEW f \in futs, GiveUpTask(f) PROVE IInv'
<1>1. FutsOK(futs, states) /\ "finished" \in Phase
  BY DEF IInv, Phase
<1>2. /\ f.phase # "running" /\ permits' = permits
      /\ futs' = Moved(f, "finished", "cancelled")
  BY DEF GiveUpTask
<1>3. FutsOK(futs', states)
  BY <1>1, <1>2, MoveKeepsFuts DEF Moved
<1>4. /\ Cardinality(RunningIn(futs')) \in Nat
      /\ Cardinality(RunningIn(futs')) <= Cardinality(RunningIn(futs)) + 0
  BY <1>1, <1>2, MovedRunning
<1>5. Cardinality(RunningIn(futs)) \in Nat
  BY <1>1, futs \in SUBSET futs, DropKeepsFuts
<1>6. permits' \in Nat /\ permits' + Cardinality(RunningIn(futs')) <= Capacity
  BY <1>2, <1>4, <1>5, WorkerAssumption DEF IInv, PoolOK, Capacity
<1>7. QED
  BY <1>3, <1>6, TaskStep DEF GiveUpTask

LEMMA FinishTaskStep == ASSUME IInv, NEW f \in futs, FinishTask(f) PROVE IInv'
<1>1. FutsOK(futs, states) /\ "finished" \in Phase
  BY DEF IInv, Phase
<1>2. Cardinality(RunningIn(futs)) \in Nat
  BY <1>1, futs \in SUBSET futs, DropKeepsFuts
<1>3. /\ permits \in Nat /\ Capacity \in Nat
      /\ permits + Cardinality(RunningIn(futs)) <= Capacity
  BY WorkerAssumption DEF IInv, PoolOK, Capacity
<1>4. f.phase = "running"
  BY DEF FinishTask
<1>5. PICK o \in Outcomes(f) :
        IF InPhase("queued") = {}
        THEN permits' = permits + 1 /\ futs' = Moved(f, "finished", o)
        ELSE /\ permits' = permits
             /\ \E g \in InPhase("queued") :
                  futs' = (Moved(f, "finished", o) \ {g})
                            \cup {[g EXCEPT !.phase = "running"]}
  BY DEF FinishTask
<1> DEFINE F == Moved(f, "finished", o)
<1>6. o \in Sample
  BY InputAssumption DEF Outcomes
<1>7. FutsOK(F, states)
  BY <1>1, <1>6, MoveKeepsFuts DEF Moved
<1>8. /\ Cardinality(RunningIn(F)) \in Nat
      /\ Cardinality(RunningIn(F)) = Cardinality(RunningIn(futs)) - 1
  BY <1>1, <1>4, MovedRunning
<1>9. CASE InPhase("queued") = {}
  <2>1. permits' = permits + 1 /\ futs' = F
    BY <1>5, <1>9
  <2>2. permits' \in Nat /\ permits' + Cardinality(RunningIn(futs')) <= Capacity
    BY <1>2, <1>3, <1>8, <2>1
  <2>3. QED
    BY <1>7, <2>1, <2>2, TaskStep DEF FinishTask
<1>10. CASE InPhase("queued") # {}
  <2>1. PICK g \in InPhase("queued") :
          /\ permits' = permits
          /\ futs' = (F \ {g}) \cup {[g EXCEPT !.phase = "running"]}
    BY <1>5, <1>10
  <2>2. g \in F
    BY <1>4 DEF InPhase, Moved
  <2> HIDE DEF F
  <2>3. futs' = (F \ {g}) \cup {[h EXCEPT !.phase = "running"] : h \in {g}}
    BY <2>1
  <2>4. {g} \in SUBSET F
    BY <2>2
  <2>5. FutsOK(futs', states)
    BY <1>7, <2>3, <2>4, PromoteKeepsFuts
  <2>6. /\ IsFiniteSet(RunningIn(futs'))
        /\ Cardinality(RunningIn(futs'))
             <= Cardinality(RunningIn(F)) + Cardinality({g})
    BY <1>7, <2>3, <2>4, PromotedRunning DEF FutsOK
  <2>7. Cardinality({g}) = 1 /\ Cardinality(RunningIn(futs')) \in Nat
    BY <2>6, FS_Singleton, FS_CardinalityType
  <2>8. permits' \in Nat /\ permits' + Cardinality(RunningIn(futs')) <= Capacity
    BY <1>2, <1>3, <1>8, <2>1, <2>6, <2>7
  <2>9. QED
    BY <2>5, <2>8, TaskStep DEF FinishTask
<1>11. QED
  BY <1>9, <1>10

LEMMA UserStep == IInv /\ (TogglePause \/ Cancel \/ SetOverride) => IInv'
<1> USE DEF scanVars, queueVars, IInv, TargetsOK, FutsOK, PoolOK, RestOK
<1>1. IInv /\ TogglePause => IInv'
  BY DEF TogglePause
<1>2. IInv /\ Cancel => IInv'
  BY DEF Cancel
<1>3. IInv /\ SetOverride => IInv'
  BY InputAssumption DEF SetOverride
<1>4. QED
  BY <1>1, <1>2, <1>3

LEMMA StutterStep == IInv /\ UNCHANGED vars => IInv'
BY DEF vars, IInv, TargetsOK, FutsOK, PoolOK, RestOK

LEMMA NextStep == IInv /\ [Next]_vars => IInv'
<1>1. IInv /\ Loop => IInv'
  BY ReadOverrideStep, LaunchWarmupStep, LaunchMeasuredStep, LaunchNothingStep,
     LaunchBlockedStep, NothingInFlightStep, NoticeCancelStep, JoinPanickedStep,
     JoinWarmupStep, JoinMeasuredStep, JoinAndDieStep DEF Loop
<1>2. ASSUME IInv, NEW f \in futs, Task(f) PROVE IInv'
  BY <1>2, PollTaskStep, GiveUpTaskStep, FinishTaskStep DEF Task
<1>3. QED
  BY <1>1, <1>2, UserStep, StutterStep DEF Next, Ended

(* The invariant holds in every state of every scan. *)
THEOREM Invariance == Spec => []IInv
<1>1. QED
  BY InitEstablishes, NextStep, PTL DEF Spec
-----------------------------------------------------------------------------
(* Every variable keeps its type. *)
THEOREM TypeCorrect == Spec => []TypeOK
<1>1. IInv => TypeOK
  BY DEF IInv, TargetsOK, FutsOK, PoolOK, RestOK, TypeOK
<1>2. QED
  BY <1>1, Invariance, PTL

(* No probe is lost or counted twice, whatever its outcome and the schedule. *)
THEOREM AccountingHolds == Spec => []Accounting
<1>1. IInv => Accounting
  BY DEF IInv, TargetsOK, TargetOK, Accounting
<1>2. QED
  BY <1>1, Invariance, PTL

(* Probes of one target never overlap. *)
THEOREM OneProbePerTargetHolds == Spec => []OneProbePerTarget
<1>1. IInv => OneProbePerTarget
  BY DEF IInv, FutsOK, OneProbePerTarget
<1>2. QED
  BY <1>1, Invariance, PTL

(* The books of the scan balance for any number of targets and any options.  *)
THEOREM BooksBalanceHolds == Spec => []BooksBalance
<1>1. Accounting /\ OneProbePerTarget => BooksBalance
  BY DEF BooksBalance
<1>2. QED
  BY <1>1, AccountingHolds, OneProbePerTargetHolds, PTL

(* The result of a target is sent once, and only when the target is final.   *)
THEOREM ResultOnceHolds == Spec => []ResultOnce
<1>1. IInv => ResultOnce
  <2>1. ASSUME NEW s, NEW r, TargetOK(s, r)
        PROVE  r <= 1 /\ (r = 1 <=> (s.stopped \/ s.completed = ProbeCount))
    BY <2>1 DEF TargetOK
  <2>2. QED
    BY <2>1 DEF IInv, TargetsOK, ResultOnce
<1>2. QED
  BY <1>1, Invariance, PTL

LEMMA SilentFact == IInv => SilentAfterResult
<1> SUFFICES ASSUME IInv, NEW f \in futs PROVE results[f.index] = 0
  BY DEF SilentAfterResult
<1> DEFINE s == states[f.index]
           r == results[f.index]
<1>1. f.index \in Targets
  BY DEF IInv, FutsOK, Future
<1>2. TargetOK(s, r) /\ Linked(f, s)
  BY <1>1 DEF IInv, TargetsOK, FutsOK
<1> HIDE DEF s, r
<1>3. s.stopped \in BOOLEAN /\ s.completed \in 0..ProbeCount
      /\ s.scheduled \in 0..ProbeCount
  BY <1>2 DEF TargetOK, TargetState
<1>4. ~s.stopped /\ s.completed # ProbeCount
  <2>1. CASE f.attempt = 0
    BY <1>2, <2>1, SizeAssumption DEF TargetOK, Linked
  <2>2. CASE f.attempt # 0
    <3>1. s.in_flight
      BY <1>2, <2>2 DEF Linked
    <3>2. ~s.stopped /\ s.scheduled = s.completed + 1
      BY <1>2, <3>1 DEF TargetOK
    <3>3. QED
      BY <1>3, <3>2, SizeAssumption
  <2>3. QED
    BY <2>1, <2>2
<1>5. r = 0
  BY <1>2, <1>4 DEF TargetOK
<1>6. QED
  BY <1>5 DEF r

(* Once its result was sent, a target has no probe left anywhere. *)
THEOREM SilentAfterResultHolds == Spec => []SilentAfterResult
<1>1. QED
  BY SilentFact, Invariance, PTL

(* The cold request never mixes with the steady-state samples. *)
THEOREM ColdRequestApartHolds == Spec => []ColdRequestApart
<1>1. IInv => ColdRequestApart
  BY DEF IInv, TargetsOK, TargetOK, ColdRequestApart
<1>2. QED
  BY <1>1, Invariance, PTL

(* The semaphore never exceeds the capacity of the configuration. *)
THEOREM PoolBoundHolds == Spec => []PoolBound
<1>1. IInv => PoolBound
  BY DEF IInv, PoolOK, PoolBound, Capacity, RunningIn, InPhase
<1>2. QED
  BY <1>1, Invariance, PTL
-----------------------------------------------------------------------------
(* A pool that never shrinks.  Reconcile sees the probes in flight, those    *)
(* that hold no permit included, so what saves a waiting probe is that there *)
(* is always room for one more: fewer probes than workers whenever the pool  *)
(* is reconciled.                                                            *)

Supplied ==
  /\ Active => permits > 0 \/ RunningIn(futs) # {}
  /\ ~Active => futs = {}
  /\ Cardinality(futs) <= workers
  /\ pc = "top" => Cardinality(futs) < workers
  /\ override \in Overrides \cup {0}
  /\ Overrides \subseteq {0} \/ workers <= MaxWorkers

Typed ==
  /\ IsFiniteSet(futs) /\ futs \subseteq Future
  /\ permits \in Nat /\ workers \in Nat \ {0}
  /\ Cardinality(futs) \in Nat

LEMMA IInvTyped == IInv => Typed
BY FS_CardinalityType DEF IInv, FutsOK, PoolOK, Typed

LEMMA IInvTypedNext == IInv' => Typed'
BY FS_CardinalityType DEF IInv, FutsOK, PoolOK, Typed

(* A probe moved to another phase is still one probe. *)
LEMMA MovedSize ==
  ASSUME NEW fs, IsFiniteSet(fs), NEW f \in fs, NEW m
  PROVE  LET F == (fs \ {f}) \cup {m}
         IN IsFiniteSet(F) /\ Cardinality(F) <= Cardinality(fs)
<1> DEFINE G == fs \ {f}
           F == G \cup {m}
<1>1. IsFiniteSet(G) /\ Cardinality(G) = Cardinality(fs) - 1
  BY FS_RemoveElement
<1>2. Cardinality(fs) \in Nat /\ Cardinality(G) \in Nat
  BY <1>1, FS_CardinalityType
<1> HIDE DEF G
<1>3. /\ IsFiniteSet(F)
      /\ Cardinality(F) = IF m \in G THEN Cardinality(G) ELSE Cardinality(G) + 1
  BY <1>1, FS_AddElement
<1>4. Cardinality(F) <= Cardinality(fs)
  BY <1>1, <1>2, <1>3
<1>5. QED
  BY <1>3, <1>4 DEF G

(* With room for one more probe, reconcile_worker_permits leaves a permit or *)
(* a probe that holds one.                                                   *)
LEMMA ReconcileSupplies ==
  ASSUME NEW fs, IsFiniteSet(fs), fs \subseteq Future, permits \in Nat,
         NEW w \in Nat, Cardinality(fs) < w, Reconcile(fs, w)
  PROVE  /\ permits' > 0 \/ RunningIn(futs') # {}
         /\ Cardinality(futs') <= Cardinality(fs)
<1> DEFINE desired == DesiredPermits(Cardinality(fs), w)
           queued  == {f \in fs : f.phase = "queued"}
<1>1. Cardinality(fs) \in Nat
  BY FS_CardinalityType
<1>2. desired \in Nat /\ desired > 0
  BY <1>1 DEF DesiredPermits
<1>3. CASE permits >= desired
  BY <1>1, <1>2, <1>3 DEF Reconcile
<1>4. CASE ~(permits >= desired)
  <2>1. PICK G \in SUBSET queued :
          /\ permits' = desired - Cardinality(G)
          /\ futs' = (fs \ G) \cup {[f EXCEPT !.phase = "running"] : f \in G}
    BY <1>4 DEF Reconcile
  <2> DEFINE R == fs \ G
             P == {[f EXCEPT !.phase = "running"] : f \in G}
  <2>2. G \in SUBSET fs
    OBVIOUS
  <2>3. /\ IsFiniteSet(G) /\ IsFiniteSet(R)
        /\ Cardinality(R) = Cardinality(fs) - Cardinality(fs \cap G)
    BY <2>2, FS_Subset, FS_Difference
  <2>4. fs \cap G = G /\ futs' = R \cup P
    BY <2>1, <2>2
  <2>5. IsFiniteSet(P) /\ Cardinality(P) <= Cardinality(G)
    BY <2>3, PromotedSize
  <2>6. /\ Cardinality(G) \in Nat /\ Cardinality(P) \in Nat
        /\ Cardinality(R) \in Nat /\ Cardinality(R \cap P) \in Nat
    BY <2>3, <2>5, FS_CardinalityType, FS_Intersection
  <2>7. Cardinality(R \cup P) =
          Cardinality(R) + Cardinality(P) - Cardinality(R \cap P)
    BY <2>3, <2>5, FS_Union
  <2>8. Cardinality(futs') <= Cardinality(fs)
    <3>1. Cardinality(R) = Cardinality(fs) - Cardinality(G)
      BY <2>3, <2>4
    <3> HIDE DEF R, P
    <3>2. QED
      BY <1>1, <2>4, <2>5, <2>6, <2>7, <3>1
  <2>9. CASE G = {}
    <3>1. Cardinality(G) = 0
      BY <2>9, FS_EmptySet
    <3>2. QED
      BY <1>2, <2>1, <2>8, <3>1
  <2>10. CASE G # {}
    <3>1. PICK g \in G : TRUE
      BY <2>10
    <3>2. g \in Future
      BY <2>2
    <3>3. [g EXCEPT !.phase = "running"].phase = "running"
      BY <3>2 DEF Future
    <3>4. [g EXCEPT !.phase = "running"] \in RunningIn(futs')
      BY <2>1, <3>3 DEF RunningIn
    <3>5. QED
      BY <2>8, <3>4
  <2>11. QED
    BY <2>9, <2>10
<1>5. QED
  BY <1>3, <1>4

(* Under GrowingPool every worker target the loop adopts is at least the old. *)
LEMMA ManualGrows ==
  ASSUME GrowingPool, Typed, Supplied, override > 0
  PROVE  /\ ManualWorkers \in Nat /\ workers <= ManualWorkers
         /\ ManualWorkers = MaxWorkers /\ ~(Overrides \subseteq {0})
<1>1. override \in Overrides /\ override \in Nat /\ override # 0
  BY InputAssumption DEF Supplied
<1>2. ~(Overrides \subseteq {0})
  BY <1>1
<1>3. override >= MaxWorkers
  BY <1>1, <1>2 DEF GrowingPool
<1>4. ManualWorkers = MaxWorkers
  BY <1>1, <1>3, WorkerAssumption DEF ManualWorkers, Least
<1>5. QED
  BY <1>2, <1>4, WorkerAssumption DEF Supplied

LEMMA NextWorkersGrow ==
  ASSUME GrowingPool, Typed, Supplied, NEW w \in NextWorkers
  PROVE  /\ w \in Nat /\ workers <= w
         /\ Overrides \subseteq {0} \/ w <= MaxWorkers
<1>1. override \in Nat
  BY InputAssumption DEF Supplied
<1>2. CASE override > 0
  BY <1>2, ManualGrows, WorkerAssumption DEF NextWorkers
<1>3. CASE ~(override > 0)
  BY <1>3 DEF NextWorkers, GrowingPool, Typed, Supplied
<1>4. QED
  BY <1>2, <1>3

LEMMA InitSupplied == ASSUME GrowingPool, Init PROVE Supplied
BY WorkerAssumption, FS_EmptySet DEF Init, GrowingPool, Supplied, Active

LEMMA ReadOverrideSupplied ==
  ASSUME GrowingPool, Typed, Typed', Supplied, ReadOverride
  PROVE  Supplied'
<1>1. /\ Cardinality(futs) < workers /\ Active /\ Active'
      /\ pc' = "launch" /\ override' = override
  BY DEF ReadOverride, Supplied, Active, userVars
<1>2. CASE override > 0
  <2>1. /\ ManualWorkers \in Nat /\ workers <= ManualWorkers
        /\ ManualWorkers <= MaxWorkers
    BY <1>2, ManualGrows, WorkerAssumption
  <2>2. workers' = ManualWorkers /\ Reconcile(futs, ManualWorkers)
    BY <1>2 DEF ReadOverride
  <2>3. Cardinality(futs) < ManualWorkers
    BY <1>1, <2>1 DEF Typed
  <2>4. /\ permits' > 0 \/ RunningIn(futs') # {}
        /\ Cardinality(futs') <= Cardinality(futs)
    BY <2>1, <2>2, <2>3, ReconcileSupplies DEF Typed
  <2>5. Cardinality(futs) <= ManualWorkers
    BY <2>1, <2>3 DEF Typed
  <2>6. Cardinality(futs') <= ManualWorkers
    BY <2>1, <2>4, <2>5 DEF Typed
  <2>7. QED
    BY <1>1, <2>1, <2>2, <2>4, <2>6 DEF Supplied
<1>3. CASE ~(override > 0)
  <2>1. UNCHANGED <<workers, permits, futs>>
    BY <1>3 DEF ReadOverride
  <2>2. QED
    BY <1>1, <2>1 DEF Supplied
<1>4. QED
  BY <1>2, <1>3

(* A probe is spawned only where there is room for it. *)
LEMMA SpawnSupplied ==
  ASSUME Typed, Supplied, CanLaunch, pc = "launch", pc' = pc,
         NEW f, futs' = futs \cup {f},
         permits' = permits, workers' = workers, override' = override
  PROVE  Supplied'
<1>1. /\ Cardinality(futs \cup {f}) =
            IF f \in futs THEN Cardinality(futs) ELSE Cardinality(futs) + 1
  BY FS_AddElement DEF Typed
<1>2. Cardinality(futs') <= workers
  BY <1>1 DEF CanLaunch, Typed
<1>3. RunningIn(futs) \subseteq RunningIn(futs')
  BY DEF RunningIn
<1>4. QED
  BY <1>2, <1>3 DEF Supplied, Active

(* Probes that hold no permit leave: there is room for one more. *)
LEMMA LeaveSupplied ==
  ASSUME Typed, Supplied, pc = "wait", pc' = "top",
         NEW f \in InPhase("finished"), futs' = futs \ {f},
         permits' = permits, workers' = workers, override' = override
  PROVE  Supplied'
<1>1. f \in futs /\ f.phase = "finished"
  BY DEF InPhase
<1>2. Cardinality(futs') = Cardinality(futs) - 1
  BY <1>1, FS_RemoveElement DEF Typed
<1>3. RunningIn(futs') = RunningIn(futs)
  BY <1>1 DEF RunningIn
<1>4. QED
  BY <1>2, <1>3 DEF Supplied, Typed, Active

LEMMA JoinMeasuredSupplied ==
  ASSUME GrowingPool, Typed, Typed', Supplied, JoinMeasured
  PROVE  Supplied'
<1>1. PICK f \in InPhase("finished"), w \in NextWorkers :
        workers' = w /\ Reconcile(futs \ {f}, w)
  BY DEF JoinMeasured
<1>2. pc' = "top" /\ override' = override
  BY DEF JoinMeasured, userVars
<1>3. /\ w \in Nat /\ workers <= w
      /\ Overrides \subseteq {0} \/ w <= MaxWorkers
  BY <1>1, NextWorkersGrow
<1> DEFINE G == futs \ {f}
<1>4. f \in futs
  BY <1>1 DEF InPhase
<1>5. IsFiniteSet(G) /\ G \subseteq Future /\ Cardinality(G) = Cardinality(futs) - 1
  BY <1>4, FS_RemoveElement DEF Typed
<1>6. Cardinality(G) \in Nat /\ Cardinality(G) < w
  BY <1>3, <1>5, FS_CardinalityType DEF Typed, Supplied
<1> HIDE DEF G
<1>7. /\ permits' > 0 \/ RunningIn(futs') # {}
      /\ Cardinality(futs') <= Cardinality(G)
  BY <1>1, <1>3, <1>5, <1>6, ReconcileSupplies DEF G, Typed
<1>8. QED
  BY <1>1, <1>2, <1>3, <1>6, <1>7 DEF Supplied, Active, Typed

LEMMA TaskSupplied ==
  ASSUME Typed, Typed', Supplied, Active, NEW f \in futs, Task(f)
  PROVE  Supplied'
<1>1. /\ workers' = workers /\ pc' = pc /\ override' = override
  BY DEF Task, PollTask, GiveUpTask, FinishTask, taskVars, userVars
<1>2. \A p, o : Cardinality(Moved(f, p, o)) <= Cardinality(futs)
  BY MovedSize DEF Moved, Typed
<1>3. f \in Future
  BY DEF Typed
<1>4. f.phase # "running" =>
        \A p, o : RunningIn(futs) \subseteq RunningIn(Moved(f, p, o))
  BY DEF RunningIn, Moved
<1>5. ASSUME permits' > 0 \/ RunningIn(futs') # {},
             Cardinality(futs') <= Cardinality(futs)
      PROVE  Supplied'
  BY <1>1, <1>5 DEF Supplied, Active, Typed
<1>6. CASE PollTask(f)
  <2>1. CASE permits > 0
    <3>1. futs' = Moved(f, "running", "none")
      BY <1>6, <2>1 DEF PollTask
    <3>2. [f EXCEPT !.phase = "running", !.sample = "none"] \in RunningIn(futs')
      BY <1>3, <3>1 DEF RunningIn, Moved, Future
    <3>3. QED
      BY <1>2, <1>5, <3>1, <3>2
  <2>2. CASE ~(permits > 0)
    <3>1. futs' = Moved(f, "queued", "none") /\ f.phase # "running"
      BY <1>6, <2>2 DEF PollTask
    <3>2. RunningIn(futs) # {}
      BY <2>2 DEF Supplied
    <3>3. QED
      BY <1>2, <1>4, <1>5, <3>1, <3>2
  <2>3. QED
    BY <2>1, <2>2
<1>7. CASE GiveUpTask(f)
  <2>1. /\ futs' = Moved(f, "finished", "cancelled") /\ f.phase # "running"
        /\ permits' = permits
    BY <1>7 DEF GiveUpTask
  <2>2. permits' > 0 \/ RunningIn(futs') # {}
    BY <1>4, <2>1 DEF Supplied
  <2>3. QED
    BY <1>2, <1>5, <2>1, <2>2
<1>8. CASE FinishTask(f)
  <2>1. PICK o \in Outcomes(f) :
          IF InPhase("queued") = {}
          THEN permits' = permits + 1 /\ futs' = Moved(f, "finished", o)
          ELSE \E g \in InPhase("queued") :
                 futs' = (Moved(f, "finished", o) \ {g})
                           \cup {[g EXCEPT !.phase = "running"]}
    BY <1>8 DEF FinishTask
  <2>2. CASE InPhase("queued") = {}
    <3>1. permits' > 0 /\ futs' = Moved(f, "finished", o)
      BY <2>1, <2>2 DEF Typed
    <3>2. QED
      BY <1>2, <1>5, <3>1
  <2>3. CASE InPhase("queued") # {}
    <3>1. PICK g \in InPhase("queued") :
            futs' = (Moved(f, "finished", o) \ {g})
                      \cup {[g EXCEPT !.phase = "running"]}
      BY <2>1, <2>3
    <3> DEFINE F == Moved(f, "finished", o)
               m == [g EXCEPT !.phase = "running"]
    <3>2. g \in futs /\ g.phase = "queued" /\ g \in Future
      BY DEF InPhase, Typed
    <3>3. f.phase = "running"
      BY <1>8 DEF FinishTask
    <3>4. g \in F
      BY <3>2, <3>3 DEF Moved
    <3>5. IsFiniteSet(F) /\ Cardinality(F) <= Cardinality(futs)
      BY MovedSize DEF Moved, Typed
    <3>6. m.phase = "running"
      BY <3>2 DEF Future
    <3> HIDE DEF F, m
    <3>7. futs' = (F \ {g}) \cup {m}
      BY <3>1 DEF F, m
    <3>8. IsFiniteSet(futs') /\ Cardinality(futs') <= Cardinality(F)
      BY <3>4, <3>5, <3>7, MovedSize
    <3>9. Cardinality(futs') <= Cardinality(futs)
      BY <3>5, <3>8, FS_CardinalityType DEF Typed
    <3>10. m \in RunningIn(futs')
      BY <3>6, <3>7 DEF RunningIn
    <3>11. QED
      BY <1>5, <3>9, <3>10
  <2>4. QED
    BY <2>2, <2>3
<1>9. QED
  BY <1>6, <1>7, <1>8 DEF Task

LEMMA LoopSupplied ==
  ASSUME GrowingPool, Typed, Typed', Supplied, Loop
  PROVE  Supplied'
<1> USE DEF queueVars, userVars
<1>1. CASE ReadOverride
  BY <1>1, ReadOverrideSupplied
<1>2. CASE LaunchWarmup
  <2>1. PICK t \in cursor..N : futs' = futs \cup {Spawned(t, 0)}
    BY <1>2 DEF LaunchWarmup
  <2>2. QED
    BY <1>2, <2>1, SpawnSupplied DEF LaunchWarmup
<1>3. CASE LaunchMeasured
  <2>1. PICK e \in FirstEntries :
          futs' = futs \cup {Spawned(e.index, states[e.index].scheduled + 1)}
    BY <1>3 DEF LaunchMeasured
  <2>2. QED
    BY <1>3, <2>1, SpawnSupplied DEF LaunchMeasured
<1>4. CASE LaunchNothing
  BY <1>4 DEF LaunchNothing, Supplied, Active
<1>5. CASE LaunchBlocked
  BY <1>5 DEF LaunchBlocked, Supplied, Active
<1>6. CASE NothingInFlight
  <2>1. Cardinality(futs) = 0
    BY <1>6, FS_EmptySet DEF NothingInFlight
  <2>2. /\ futs = {} /\ pc = "wait" /\ pc' \in {"top", "done"}
        /\ UNCHANGED <<futs, workers, permits, override>>
    BY <1>6 DEF NothingInFlight, AfterDrain
  <2>3. QED
    BY <2>1, <2>2 DEF Supplied, Active, Typed
<1>7. CASE NoticeCancel
  BY <1>7, FS_EmptySet DEF NoticeCancel, Supplied, Active, Typed
<1>8. CASE JoinPanicked
  BY <1>8, LeaveSupplied DEF JoinPanicked
<1>9. CASE JoinWarmup
  BY <1>9, LeaveSupplied DEF JoinWarmup
<1>10. CASE JoinMeasured
  BY <1>10, JoinMeasuredSupplied
<1>11. CASE JoinAndDie
  BY <1>11, FS_EmptySet DEF JoinAndDie, Supplied, Active, Typed
<1>12. QED
  BY <1>1, <1>2, <1>3, <1>4, <1>5, <1>6, <1>7, <1>8, <1>9, <1>10, <1>11 DEF Loop

LEMMA NextSupplied ==
  ASSUME GrowingPool, Typed, Typed', Supplied, [Next]_vars
  PROVE  Supplied'
<1>1. CASE TogglePause \/ Cancel \/ SetOverride
  BY <1>1 DEF TogglePause, Cancel, SetOverride, scanVars, Supplied, Active
<1>2. CASE UNCHANGED vars
  BY <1>2 DEF vars, Supplied, Active
<1>3. QED
  BY <1>1, <1>2, LoopSupplied, TaskSupplied DEF Next, Ended

(* While the worker target never falls, no spawned probe waits for a permit  *)
(* that nobody will release.                                                 *)
THEOREM NoStrandedProbeHolds ==
  ASSUME GrowingPool
  PROVE  Spec => []NoStrandedProbe
<1>1. Init => Supplied
  BY InitSupplied
<1>2. IInv /\ Supplied /\ [Next]_vars => Supplied'
  <2>1. IInv /\ [Next]_vars => IInv' /\ Typed'
    BY NextStep, IInvTypedNext
  <2>2. QED
    BY <2>1, IInvTyped, NextSupplied
<1>3. Supplied => NoStrandedProbe
  BY DEF Supplied, NoStrandedProbe, RunningIn, InPhase
<1>4. QED
  BY <1>1, <1>2, <1>3, Invariance, PTL DEF Spec
-----------------------------------------------------------------------------
(* The ready queue.  An entry of the current generation carries the tier of  *)
(* its target, and a target that could be probed has such an entry, or its   *)
(* entry was lost around its successful warmup.                              *)

Waits(s) == HasRemainingProbe(s) \/ s.warmup # "done"

Current(e) == e.generation = generations[e.index] /\ Waits(states[e.index])

QueueOK ==
  /\ \A e \in heap : e.generation <= generations[e.index]
  /\ \A e \in heap : Current(e) => e.tier = Tier(states[e.index])
  /\ \A t \in Targets : HasRemainingProbe(states[t]) =>
       HasEntry(t) \/ Unprobed(states[t])

SampleOK(f) == f.sample \in Outcomes(f) \cup {"none", "cancelled"}

(* The outcomes are those of the configuration, and warmups only happen in   *)
(* a scan that has them.                                                     *)
OutcomesOK ==
  /\ \A f \in futs : SampleOK(f)
  /\ ~Warmup => \A t \in Targets : states[t].warmup = "done"

Queued == QueueOK /\ OutcomesOK

(* The probes of gs are those of fs, perhaps in another phase. *)
SameProbes(fs, gs) ==
  /\ \A g \in gs : \E f \in fs :
       g.index = f.index /\ g.attempt = f.attempt /\ g.sample = f.sample
  /\ \A f \in fs : \E g \in gs : g.index = f.index

(* The join of probe f: its target becomes s, of which r results were sent,  *)
(* and is queued again if it has another probe to make, unless its warmup    *)
(* succeeded.                                                                *)
JoinEffect(f, s, r) ==
  /\ f \in futs /\ f.index \in Targets
  /\ results[f.index] = 0
  /\ TargetOK(s, r) /\ s.warmup = "done" /\ ~s.in_flight
  /\ states' = [states EXCEPT ![f.index] = s]
  /\ results' = [results EXCEPT ![f.index] = r]
  /\ s.completed = 0 => r = 0 /\ states[f.index].completed = 0
  /\ SameProbes(futs \ {f}, futs')
  /\ \/ Push(f.index, s)
     \/ ~HasRemainingProbe(s) /\ UNCHANGED <<heap, generations>>
     \/ /\ Unprobed(s) /\ "warmup" \in Risks
        /\ states[f.index].warmup = "flying"
        /\ Tier(s) = Tier(states[f.index])
        /\ UNCHANGED <<heap, generations>>

LEMMA ReconcileProbes ==
  ASSUME NEW fs, fs \subseteq Future, NEW w, Reconcile(fs, w)
  PROVE  SameProbes(fs, futs')
<1>1. CASE futs' = fs
  BY <1>1 DEF SameProbes
<1>2. CASE futs' # fs
  <2>1. PICK G \in SUBSET fs :
          futs' = (fs \ G) \cup {[f EXCEPT !.phase = "running"] : f \in G}
    BY <1>2 DEF Reconcile
  <2>2. \A f \in G : LET m == [f EXCEPT !.phase = "running"]
                     IN /\ m.index = f.index /\ m.attempt = f.attempt
                        /\ m.sample = f.sample
    BY DEF Future
  <2>3. ASSUME NEW g \in futs'
        PROVE  \E f \in fs : /\ g.index = f.index /\ g.attempt = f.attempt
                             /\ g.sample = f.sample
    <3>1. CASE g \in fs
      BY <3>1
    <3>2. CASE g \notin fs
      <4>1. PICK f \in G : g = [f EXCEPT !.phase = "running"]
        BY <2>1, <3>2
      <4>2. QED
        BY <2>2, <4>1
    <3>3. QED
      BY <3>1, <3>2
  <2>4. \A f \in fs : \E g \in futs' : g.index = f.index
    BY <2>1, <2>2
  <2>5. QED
    BY <2>3, <2>4 DEF SameProbes
<1>3. QED
  BY <1>1, <1>2

LEMMA AfterWarmupFields ==
  ASSUME NEW s, NEW r, TargetOK(s, r), s.warmup = "flying", NEW o
  PROVE  LET a == AfterWarmup(s, o) IN a.warmup = "done" /\ ~a.in_flight
<1>1. s \in TargetState /\ ~s.in_flight
  BY DEF TargetOK
<1>2. QED
  BY <1>1 DEF AfterWarmup, ConstructionFailed, TargetState

LEMMA JoinWarmupEffect ==
  ASSUME IInv, Queued, JoinWarmup
  PROVE  \E f, s, r : JoinEffect(f, s, r)
<1>1. PICK f \in InPhase("finished") :
        LET t == f.index
            s == AfterWarmup(states[t], f.sample)
        IN /\ f.attempt = 0
           /\ futs' = futs \ {f}
           /\ states' = [states EXCEPT ![t] = s]
           /\ results' = [results EXCEPT ![t] = IF s.failed THEN @ + 1 ELSE @]
           /\ IF Requeued(s, f.sample)
              THEN Push(t, s)
              ELSE UNCHANGED <<heap, generations>>
  BY DEF JoinWarmup
<1> DEFINE t == f.index
           s == AfterWarmup(states[t], f.sample)
           r == IF s.failed THEN results[t] + 1 ELSE results[t]
<1>2. f \in futs /\ t \in Targets /\ f.attempt = 0
  BY <1>1 DEF InPhase, IInv, FutsOK, Future
<1>3. TargetOK(states[t], results[t]) /\ states[t].warmup = "flying"
  BY <1>1, <1>2 DEF IInv, TargetsOK, FutsOK, Linked
<1>4. TargetOK(s, r) /\ s.warmup = "done" /\ ~s.in_flight
  BY <1>3, AfterWarmupOK, AfterWarmupFields
<1>5. results[t] = 0
  BY <1>2, SilentFact DEF SilentAfterResult
<1>6. ASSUME f.sample = "ok"
      PROVE  Unprobed(s) /\ "warmup" \in Risks /\ Tier(s) = Tier(states[t])
  <2>1. f.sample \in WarmupSamples
    BY <1>2, <1>6 DEF Queued, OutcomesOK, SampleOK, Outcomes
  <2>2. states[t] \in TargetState /\ states[t].scheduled = 0
    BY <1>3, SizeAssumption DEF TargetOK, TargetState
  <2>3. s = [[states[t] EXCEPT !.warmup = "done"] EXCEPT !.cold = TRUE]
    BY <1>6 DEF AfterWarmup
  <2>4. /\ s.warmup = "done" /\ s.cold /\ s.scheduled = 0
        /\ s.completed = states[t].completed /\ s.samples = states[t].samples
    BY <2>2, <2>3 DEF TargetState
  <2>5. QED
    BY <1>6, <2>1, <2>4 DEF Unprobed, Risks, Tier
<1>6a. s.completed = 0 => r = 0 /\ states[t].completed = 0
  BY <1>3, <1>4, <1>5, SizeAssumption DEF TargetOK
<1>7. /\ states' = [states EXCEPT ![t] = s]
      /\ results' = [results EXCEPT ![t] = r]
      /\ futs' = futs \ {f}
      /\ IF Requeued(s, f.sample)
         THEN Push(t, s)
         ELSE UNCHANGED <<heap, generations>>
  BY <1>1
<1> HIDE DEF s, r
<1>8. SameProbes(futs \ {f}, futs')
  BY <1>7 DEF SameProbes
<1>9. \/ Push(t, s)
      \/ ~HasRemainingProbe(s) /\ UNCHANGED <<heap, generations>>
      \/ f.sample = "ok" /\ UNCHANGED <<heap, generations>>
  BY <1>7 DEF Requeued, HasRemainingProbe
<1>10. JoinEffect(f, s, r)
  BY <1>2, <1>3, <1>4, <1>5, <1>6, <1>7, <1>8, <1>9, <1>6a DEF JoinEffect
<1>11. QED
  BY <1>10

LEMMA JoinMeasuredEffect ==
  ASSUME IInv, JoinMeasured
  PROVE  \E f, s, r : JoinEffect(f, s, r)
<1>1. PICK f \in InPhase("finished") :
        LET t      == f.index
            joined == [states EXCEPT ![t] = AfterProbe(states[t], f.sample)]
        IN /\ f.attempt > 0
           /\ \E stop \in StopDecisions(t, joined), w \in NextWorkers :
                LET s     == [joined[t] EXCEPT !.stopped = stop]
                    final == stop \/ s.completed = ProbeCount
                IN /\ states' = [states EXCEPT ![t] = s]
                   /\ results' = [results EXCEPT ![t] = IF final THEN @ + 1 ELSE @]
                   /\ Reconcile(futs \ {f}, w)
                   /\ IF HasRemainingProbe(s)
                      THEN Push(t, s)
                      ELSE UNCHANGED <<heap, generations>>
  BY DEF JoinMeasured
<1> DEFINE t == f.index
           joined == [states EXCEPT ![t] = AfterProbe(states[t], f.sample)]
<1>2. f \in futs /\ t \in Targets /\ f.attempt \in 0..ProbeCount
  BY DEF InPhase, IInv, FutsOK, Future
<1>3. joined[t] = AfterProbe(states[t], f.sample)
  BY <1>2 DEF IInv, TargetsOK
<1>4. PICK stop \in BOOLEAN, w \in NextWorkers :
        LET s     == [AfterProbe(states[t], f.sample) EXCEPT !.stopped = stop]
            final == stop \/ s.completed = ProbeCount
        IN /\ states' = [states EXCEPT ![t] = s]
           /\ results' = [results EXCEPT ![t] = IF final THEN @ + 1 ELSE @]
           /\ Reconcile(futs \ {f}, w)
           /\ IF HasRemainingProbe(s)
              THEN Push(t, s)
              ELSE UNCHANGED <<heap, generations>>
  <2>1. StopDecisions(t, joined) \subseteq BOOLEAN
    BY DEF StopDecisions
  <2> HIDE DEF joined
  <2>2. QED
    BY <1>1, <1>3, <2>1 DEF joined
<1> DEFINE s == [AfterProbe(states[t], f.sample) EXCEPT !.stopped = stop]
           r == IF stop \/ s.completed = ProbeCount
                THEN results[t] + 1 ELSE results[t]
<1>5. TargetOK(states[t], results[t]) /\ states[t].in_flight
  BY <1>1, <1>2 DEF IInv, TargetsOK, FutsOK, Linked
<1>6. TargetOK(s, r)
  BY <1>5, AfterProbeOK
<1>7. s.warmup = "done" /\ ~s.in_flight /\ s.completed # 0
  <2> DEFINE b == AfterProbe(states[t], f.sample)
  <2>1. b \in TargetState /\ b.warmup = "done" /\ ~b.in_flight /\ b.completed # 0
    BY <1>5, AfterProbeJoined DEF JoinedOK
  <2> HIDE DEF b
  <2>2. LET a == [b EXCEPT !.stopped = stop]
        IN a.warmup = "done" /\ ~a.in_flight /\ a.completed # 0
    BY <2>1 DEF TargetState
  <2>3. QED
    BY <2>2 DEF b
<1>7a. s.completed = 0 => r = 0 /\ states[t].completed = 0
  BY <1>7
<1>8. results[t] = 0
  BY <1>2, SilentFact DEF SilentAfterResult
<1>9. /\ states' = [states EXCEPT ![t] = s]
      /\ results' = [results EXCEPT ![t] = r]
      /\ Reconcile(futs \ {f}, w)
      /\ IF HasRemainingProbe(s)
         THEN Push(t, s)
         ELSE UNCHANGED <<heap, generations>>
  BY <1>4
<1> HIDE DEF s, r
<1>10. SameProbes(futs \ {f}, futs')
  BY <1>9, ReconcileProbes DEF IInv, FutsOK
<1>11. JoinEffect(f, s, r)
  BY <1>2, <1>6, <1>7, <1>8, <1>9, <1>10, <1>7a DEF JoinEffect
<1>12. QED
  BY <1>11

LEMMA InitQueued == Init => Queued
<1> SUFFICES ASSUME Init PROVE Queued
  OBVIOUS
<1>1. /\ heap = {[index |-> t, generation |-> 1,
                  tier |-> Tier(NewTarget(t))] : t \in Targets}
      /\ generations = [t \in Targets |-> 1]
      /\ states = [t \in Targets |-> NewTarget(t)] /\ futs = {}
  BY DEF Init
<1>2. QueueOK
  <2>1. ASSUME NEW e \in heap
        PROVE  /\ e.index \in Targets /\ e.generation = 1
               /\ e.tier = Tier(NewTarget(e.index))
    BY <1>1
  <2>2. ASSUME NEW t \in Targets
        PROVE  HasEntry(t)
    <3> DEFINE e == [index |-> t, generation |-> 1, tier |-> Tier(NewTarget(t))]
    <3>1. e \in heap /\ e.index = t /\ e.generation = 1
      BY <1>1
    <3>2. QED
      BY <1>1, <3>1 DEF HasEntry
  <2>3. \A e \in heap : e.generation <= generations[e.index]
    BY <1>1, <2>1
  <2>4. \A e \in heap : e.tier = Tier(states[e.index])
    BY <1>1, <2>1
  <2>5. QED
    BY <2>2, <2>3, <2>4 DEF QueueOK
<1>3. OutcomesOK
  BY <1>1 DEF OutcomesOK, NewTarget
<1>4. QED
  BY <1>2, <1>3 DEF Queued

(* Only the state of target t changes, and t is pushed or has no probe left. *)
LEMMA WriteQueue ==
  ASSUME IInv, QueueOK, NEW t \in Targets, NEW s,
         states' = [states EXCEPT ![t] = s],
         s.warmup = "done",
         \/ Push(t, s)
         \/ ~HasRemainingProbe(s) /\ UNCHANGED <<heap, generations>>
         \/ /\ Unprobed(s) /\ states[t].warmup = "flying"
            /\ Tier(s) = Tier(states[t])
            /\ UNCHANGED <<heap, generations>>
  PROVE  QueueOK'
<1>1. /\ generations \in [Targets -> Nat] /\ heap \subseteq Entry
      /\ states \in [Targets -> TargetState]
  BY DEF IInv, RestOK, TargetsOK
<1>2. states'[t] = s /\ \A u \in Targets \ {t} : states'[u] = states[u]
  BY <1>1
<1>3. \A e \in heap : e.index \in Targets /\ e.generation \in Nat
  BY <1>1 DEF Entry
<1>4. CASE Push(t, s)
  <2> DEFINE n == [index |-> t, generation |-> generations[t] + 1, tier |-> Tier(s)]
  <2>1. /\ heap' = heap \cup {n}
        /\ n.index = t /\ n.generation = generations[t] + 1 /\ n.tier = Tier(s)
    BY <1>4 DEF Push
  <2>2. /\ generations'[t] = generations[t] + 1
        /\ \A u \in Targets \ {t} : generations'[u] = generations[u]
        /\ generations[t] \in Nat
    BY <1>1, <1>4 DEF Push
  <2> HIDE DEF n
  <2>3. \A e \in heap' : e.generation <= generations'[e.index]
    BY <1>1, <1>3, <2>1, <2>2 DEF QueueOK
  <2>4. ASSUME NEW e \in heap', e.generation = generations'[e.index],
               Waits(states'[e.index])
        PROVE  e.tier = Tier(states'[e.index])
    <3>1. CASE e = n
      BY <1>2, <2>1, <3>1
    <3>2. CASE e # n
      <4>1. e \in heap /\ e.index \in Targets /\ e.generation <= generations[e.index]
        BY <1>3, <2>1, <3>2 DEF QueueOK
      <4>2. e.index # t
        BY <1>3, <2>2, <2>4, <4>1
      <4>3. QED
        BY <1>2, <2>2, <2>4, <4>1, <4>2 DEF QueueOK, Current
    <3>3. QED
      BY <3>1, <3>2
  <2>5. ASSUME NEW u \in Targets, HasRemainingProbe(states'[u])
        PROVE  HasEntry(u)' \/ Unprobed(states'[u])
    <3>1. CASE u = t
      BY <2>1, <2>2, <3>1 DEF HasEntry
    <3>2. CASE u # t
      BY <1>2, <2>1, <2>2, <2>5, <3>2 DEF QueueOK, HasEntry
    <3>3. QED
      BY <3>1, <3>2
  <2>6. QED
    BY <2>3, <2>4, <2>5 DEF QueueOK, Current
<1>5. CASE UNCHANGED <<heap, generations>> /\
           \/ ~HasRemainingProbe(s)
           \/ Unprobed(s) /\ states[t].warmup = "flying" /\ Tier(s) = Tier(states[t])
  <2>1. ASSUME NEW e \in heap', e.generation = generations'[e.index],
               Waits(states'[e.index])
        PROVE  e.tier = Tier(states'[e.index])
    <3>1. CASE e.index = t
      <4>1. states[t].warmup = "flying" /\ Tier(s) = Tier(states[t])
        BY <1>2, <1>5, <2>1, <3>1 DEF Waits
      <4>2. QED
        BY <1>2, <1>5, <2>1, <3>1, <4>1 DEF QueueOK, Current, Waits
    <3>2. CASE e.index # t
      BY <1>2, <1>3, <1>5, <2>1, <3>2 DEF QueueOK, Current
    <3>3. QED
      BY <3>1, <3>2
  <2>2. ASSUME NEW u \in Targets, HasRemainingProbe(states'[u])
        PROVE  HasEntry(u)' \/ Unprobed(states'[u])
    <3>1. CASE u = t
      BY <1>2, <1>5, <2>2, <3>1
    <3>2. CASE u # t
      BY <1>2, <1>5, <2>2, <3>2 DEF QueueOK, HasEntry
    <3>3. QED
      BY <3>1, <3>2
  <2>3. QED
    BY <1>5, <2>1, <2>2 DEF QueueOK, Current
<1>6. QED
  BY <1>4, <1>5

(* The queue loses entries that nobody can be probed by. *)
LEMMA DropQueue ==
  ASSUME QueueOK, heap' \subseteq heap,
         UNCHANGED <<states, generations>>,
         \A e \in heap : Live(e) => e \in heap'
  PROVE  QueueOK'
<1>1. \A e \in heap' : e.generation <= generations'[e.index]
  BY DEF QueueOK
<1>2. \A e \in heap' : Current(e)' => e.tier = Tier(states'[e.index])
  BY DEF QueueOK, Current
<1>3. ASSUME NEW u \in Targets, HasRemainingProbe(states'[u]),
             ~Unprobed(states'[u])
      PROVE  \E e \in heap' : e.index = u /\ e.generation = generations'[u]
  <2>1. PICK e \in heap : e.index = u /\ e.generation = generations[u]
    BY <1>3 DEF QueueOK, HasEntry
  <2>2. Live(e)
    BY <1>3, <2>1 DEF Live
  <2>3. QED
    BY <2>1, <2>2
<1>4. QED
  BY <1>1, <1>2, <1>3 DEF QueueOK, HasEntry

LEMMA LaunchWarmupQueue ==
  ASSUME IInv, QueueOK, LaunchWarmup
  PROVE  QueueOK'
<1>1. PICK t \in cursor..N : /\ states' = [states EXCEPT ![t].warmup = "flying"]
                             /\ WarmupCursor(t)
  BY DEF LaunchWarmup
<1>2. t \in Targets /\ states \in [Targets -> TargetState]
  BY SizeAssumption DEF IInv, RestOK, Targets, TargetsOK
<1>2a. states[t].warmup = "todo"
  BY <1>1, <1>2 DEF WarmupCursor, AwaitsWarmup, Targets
<1>3. /\ states'[t].warmup = "flying"
      /\ Tier(states'[t]) = Tier(states[t])
      /\ \A u \in Targets \ {t} : states'[u] = states[u]
  BY <1>1, <1>2 DEF TargetState, Tier
<1>4. ~HasRemainingProbe(states'[t])
  BY <1>3 DEF HasRemainingProbe
<1>5. generations' = generations /\ heap' \subseteq heap
  BY DEF LaunchWarmup
<1>6. \A e \in heap : e.index \in Targets
  BY DEF IInv, RestOK, Entry
<1>7. \A e \in heap' : e.generation <= generations'[e.index]
  BY <1>5 DEF QueueOK
<1>8. \A e \in heap' : Current(e)' => e.tier = Tier(states'[e.index])
  BY <1>3, <1>4, <1>5, <1>6, <1>2a DEF QueueOK, Current, Waits
<1>9. ASSUME NEW u \in Targets, HasRemainingProbe(states'[u]),
             ~Unprobed(states'[u])
      PROVE  \E e \in heap' : e.index = u /\ e.generation = generations'[u]
  <2>1. u # t /\ HasRemainingProbe(states[u]) /\ ~Unprobed(states[u])
    BY <1>3, <1>4, <1>9
  <2>2. PICK e \in heap : e.index = u /\ e.generation = generations[u]
    BY <2>1 DEF QueueOK, HasEntry
  <2>3. e \in LiveEntries
    BY <2>1, <2>2 DEF LiveEntries, Live
  <2>4. heap' = heap
    BY <2>3 DEF LaunchWarmup
  <2>5. QED
    BY <1>5, <2>2, <2>4
<1>10. QED
  BY <1>7, <1>8, <1>9 DEF QueueOK, HasEntry

(* The measured probe that is launched is the first of the queue. *)
LEMMA LaunchMeasuredEffect ==
  ASSUME IInv, LaunchMeasured
  PROVE  \E e \in FirstEntries : \E s :
           /\ e \in heap /\ Live(e) /\ e.index \in Targets
           /\ states' = [states EXCEPT ![e.index] = s]
           /\ s.warmup = "done" /\ s.in_flight
           /\ heap' = Beyond(e) /\ generations' = generations
           /\ \E k : futs' = futs \cup {Spawned(e.index, k)}
<1>1. PICK e \in FirstEntries :
        /\ heap' = Beyond(e)
        /\ states' = [states EXCEPT
              ![e.index].scheduled = states[e.index].scheduled + 1,
              ![e.index].in_flight = TRUE]
        /\ futs' = futs \cup {Spawned(e.index, states[e.index].scheduled + 1)}
  BY DEF LaunchMeasured
<1> DEFINE t == e.index
           k == states[t].scheduled + 1
           s == [states[t] EXCEPT !.scheduled = k, !.in_flight = TRUE]
<1>2. e \in heap /\ Live(e) /\ t \in Targets
  BY DEF FirstEntries, LiveEntries, IInv, RestOK, Entry
<1>3. states[t] \in TargetState /\ states[t].warmup = "done"
  BY <1>2 DEF IInv, TargetsOK, Live, HasRemainingProbe
<1>4. s.warmup = "done" /\ s.in_flight
  BY <1>3 DEF TargetState
<1>5. states' = [states EXCEPT ![t] = s]
  BY <1>1, <1>2 DEF IInv, TargetsOK
<1> HIDE DEF s, k
<1>6. futs' = futs \cup {Spawned(t, k)}
  BY <1>1 DEF k
<1>7. generations' = generations
  BY DEF LaunchMeasured
<1>8. QED
  BY <1>1, <1>2, <1>4, <1>5, <1>6, <1>7

LEMMA LaunchMeasuredQueue ==
  ASSUME IInv, QueueOK, LaunchMeasured
  PROVE  QueueOK'
<1>1. PICK e, s :
        /\ e \in FirstEntries
        /\ e \in heap /\ Live(e) /\ e.index \in Targets
        /\ states' = [states EXCEPT ![e.index] = s]
        /\ s.warmup = "done" /\ s.in_flight
        /\ heap' = Beyond(e) /\ generations' = generations
  BY LaunchMeasuredEffect
<1> DEFINE t == e.index
<1>2. /\ states'[t] = s
      /\ \A u \in Targets \ {t} : states'[u] = states[u]
  BY <1>1 DEF IInv, TargetsOK
<1>3. ~HasRemainingProbe(states'[t]) /\ ~Waits(states'[t])
  BY <1>1, <1>2 DEF HasRemainingProbe, Waits
<1>4. \A u \in heap : u.index \in Targets
  BY DEF IInv, RestOK, Entry
<1>5. heap' \subseteq heap
  BY <1>1 DEF Beyond
<1>6. \A u \in heap' : u.generation <= generations'[u.index]
  BY <1>1, <1>5 DEF QueueOK
<1>7. \A u \in heap' : Current(u)' => u.tier = Tier(states'[u.index])
  BY <1>1, <1>2, <1>3, <1>4, <1>5 DEF QueueOK, Current
<1>8. ASSUME NEW u \in Targets, HasRemainingProbe(states'[u]),
             ~Unprobed(states'[u])
      PROVE  \E v \in heap' : v.index = u /\ v.generation = generations'[u]
  <2>1. u # t /\ HasRemainingProbe(states[u]) /\ ~Unprobed(states[u])
    BY <1>2, <1>3, <1>8
  <2>2. PICK v \in heap : v.index = u /\ v.generation = generations[u]
    BY <2>1 DEF QueueOK, HasEntry
  <2>3. Live(v) /\ v # e
    BY <2>1, <2>2 DEF Live
  <2>4. v \in heap'
    BY <1>1, <2>3 DEF Beyond
  <2>5. QED
    BY <1>1, <2>2, <2>4
<1>9. QED
  BY <1>6, <1>7, <1>8 DEF QueueOK, HasEntry

LEMMA LoopQueue ==
  ASSUME IInv, Queued, Loop
  PROVE  QueueOK'
<1> USE DEF Queued, queueVars
<1>1. CASE LaunchWarmup
  BY <1>1, LaunchWarmupQueue
<1>2. CASE LaunchMeasured
  BY <1>2, LaunchMeasuredQueue
<1>3. CASE LaunchNothing
  BY <1>3, DropQueue DEF LaunchNothing, LiveEntries
<1>4. CASE JoinWarmup \/ JoinMeasured
  <2>1. PICK f, s, r : JoinEffect(f, s, r)
    BY <1>4, JoinWarmupEffect, JoinMeasuredEffect
  <2>2. QED
    BY <2>1, WriteQueue DEF JoinEffect
<1>5. CASE \/ ReadOverride \/ LaunchBlocked \/ NothingInFlight
           \/ NoticeCancel \/ JoinPanicked \/ JoinAndDie
  <2>1. UNCHANGED <<states, heap, generations>>
    BY <1>5 DEF ReadOverride, LaunchBlocked, NothingInFlight, NoticeCancel,
                JoinPanicked, JoinAndDie
  <2>2. QED
    BY <2>1, DropQueue
<1>6. QED
  BY <1>1, <1>2, <1>3, <1>4, <1>5 DEF Loop

(* What a task does to the probes: one of them gets on. *)
LEMMA TaskProbes ==
  ASSUME IInv, OutcomesOK, NEW f \in futs, Task(f)
  PROVE  /\ \A g \in futs' : SampleOK(g)
         /\ \A g \in futs : \E h \in futs' : h.index = g.index
         /\ \A h \in futs' : \E g \in futs : g.index = h.index
         /\ UNCHANGED taskVars
<1>1. futs \subseteq Future
  BY DEF IInv, FutsOK
<1>2. UNCHANGED taskVars
  BY DEF Task, PollTask, GiveUpTask, FinishTask
<1>3. ASSUME NEW g \in futs, NEW p, NEW o
      PROVE  LET m == [g EXCEPT !.phase = p, !.sample = o]
             IN /\ m.index = g.index /\ m.attempt = g.attempt
                /\ m.sample = o /\ m.phase = p
  BY <1>1 DEF Future
<1>4. ASSUME NEW p, NEW o \in Outcomes(f) \cup {"none", "cancelled"},
             futs' = Moved(f, p, o)
      PROVE  /\ \A g \in futs' : SampleOK(g)
             /\ \A g \in futs : \E h \in futs' : h.index = g.index
             /\ \A h \in futs' : \E g \in futs : g.index = h.index
  <2> DEFINE m == [f EXCEPT !.phase = p, !.sample = o]
  <2>1. m.index = f.index /\ m.attempt = f.attempt /\ m.sample = o
    BY <1>3
  <2> HIDE DEF m
  <2>2. futs' = (futs \ {f}) \cup {m}
    BY <1>4 DEF Moved, m
  <2>3. SampleOK(m)
    BY <1>4, <2>1 DEF SampleOK, Outcomes
  <2>4. QED
    BY <2>1, <2>2, <2>3 DEF OutcomesOK
<1>5. CASE PollTask(f) \/ GiveUpTask(f)
  <2>1. \E p : \E o \in {"none", "cancelled"} : futs' = Moved(f, p, o)
    BY <1>5 DEF PollTask, GiveUpTask
  <2>2. QED
    BY <1>2, <1>4, <2>1
<1>6. CASE FinishTask(f)
  <2>1. PICK o \in Outcomes(f) :
          \/ futs' = Moved(f, "finished", o)
          \/ \E g \in InPhase("queued") :
               futs' = (Moved(f, "finished", o) \ {g})
                         \cup {[g EXCEPT !.phase = "running"]}
    BY <1>6 DEF FinishTask
  <2>2. CASE futs' = Moved(f, "finished", o)
    BY <1>2, <1>4, <2>2
  <2>3. CASE futs' # Moved(f, "finished", o)
    <3>1. PICK g \in InPhase("queued") :
            futs' = (Moved(f, "finished", o) \ {g})
                      \cup {[g EXCEPT !.phase = "running"]}
      BY <2>1, <2>3
    <3> DEFINE m == [f EXCEPT !.phase = "finished", !.sample = o]
               n == [g EXCEPT !.phase = "running"]
    <3>2. g \in futs
      BY DEF InPhase
    <3>3. n.index = g.index /\ n.attempt = g.attempt /\ n.sample = g.sample
      BY <1>1, <3>2 DEF Future
    <3>4. m.index = f.index /\ m.attempt = f.attempt /\ m.sample = o
      BY <1>3
    <3>5. g # f
      BY <1>6 DEF FinishTask, InPhase
    <3> HIDE DEF m, n
    <3>6. futs' = (((futs \ {f}) \cup {m}) \ {g}) \cup {n}
      BY <3>1 DEF Moved, m, n
    <3>7. SampleOK(m) /\ SampleOK(n)
      BY <3>2, <3>3, <3>4 DEF SampleOK, Outcomes, OutcomesOK
    <3>8. m # g
      BY <1>1, <1>6, <3>4 DEF m, FinishTask, InPhase, Future
    <3>9. m \in futs' /\ n \in futs' /\ (futs \ {f, g}) \subseteq futs'
      BY <3>6, <3>8
    <3>10. \A h \in futs' : SampleOK(h)
      BY <3>6, <3>7 DEF OutcomesOK
    <3>11. ASSUME NEW h \in futs PROVE \E k \in futs' : k.index = h.index
      BY <3>3, <3>4, <3>9
    <3>12. \A h \in futs' : \E k \in futs : k.index = h.index
      BY <3>2, <3>3, <3>4, <3>6
    <3>13. QED
      BY <1>2, <3>10, <3>11, <3>12
  <2>4. QED
    BY <2>2, <2>3
<1>7. QED
  BY <1>5, <1>6 DEF Task

(* A probe set that only lost probes, or got them on, has the same outcomes. *)
LEMMA SameOutcomes ==
  ASSUME OutcomesOK, NEW fs \in SUBSET futs, SameProbes(fs, futs')
  PROVE  \A g \in futs' : SampleOK(g)
<1>1. ASSUME NEW g \in futs' PROVE SampleOK(g)
  <2>1. PICK f \in fs :
          g.index = f.index /\ g.attempt = f.attempt /\ g.sample = f.sample
    BY DEF SameProbes
  <2>2. QED
    BY <2>1 DEF OutcomesOK, SampleOK, Outcomes
<1>2. QED
  BY <1>1

LEMMA SpawnedOutcome ==
  ASSUME OutcomesOK, NEW t, NEW k, futs' = futs \cup {Spawned(t, k)}
  PROVE  \A g \in futs' : SampleOK(g)
<1>1. SampleOK(Spawned(t, k))
  BY DEF SampleOK, Spawned
<1>2. QED
  BY <1>1 DEF OutcomesOK

(* The probes of a step of the loop. *)
LEMMA LoopOutcomes ==
  ASSUME IInv, Queued, Loop
  PROVE  OutcomesOK'
<1> USE DEF Queued
<1>1. states \in [Targets -> TargetState] /\ futs \subseteq Future
  BY DEF IInv, TargetsOK, FutsOK
<1>2. CASE LaunchWarmup
  <2>1. PICK t \in cursor..N : /\ futs' = futs \cup {Spawned(t, 0)}
                               /\ WarmupCursor(t)
    BY <1>2 DEF LaunchWarmup
  <2>2. t \in Targets /\ states[t].warmup = "todo"
    BY <2>1, SizeAssumption DEF IInv, RestOK, Targets, WarmupCursor, AwaitsWarmup
  <2>3. Warmup
    BY <2>2 DEF OutcomesOK
  <2>4. QED
    BY <2>1, <2>3, SpawnedOutcome DEF OutcomesOK
<1>3. CASE LaunchMeasured
  <2>1. PICK e, s, k :
          /\ e \in FirstEntries
          /\ e.index \in Targets
          /\ states' = [states EXCEPT ![e.index] = s] /\ s.warmup = "done"
          /\ futs' = futs \cup {Spawned(e.index, k)}
    BY <1>3, LaunchMeasuredEffect
  <2>2. \A g \in futs' : SampleOK(g)
    BY <2>1, SpawnedOutcome
  <2>3. QED
    BY <1>1, <2>1, <2>2 DEF OutcomesOK
<1>4. CASE JoinWarmup \/ JoinMeasured
  <2>1. PICK f, s, r : JoinEffect(f, s, r)
    BY <1>4, JoinWarmupEffect, JoinMeasuredEffect
  <2>2. \A g \in futs' : SampleOK(g)
    BY <2>1, futs \ {f} \in SUBSET futs, SameOutcomes DEF JoinEffect
  <2>3. QED
    BY <1>1, <2>1, <2>2 DEF OutcomesOK, JoinEffect
<1>5. CASE ReadOverride
  <2>1. futs' = futs \/ Reconcile(futs, ManualWorkers)
    BY <1>5 DEF ReadOverride
  <2>2. SameProbes(futs, futs')
    BY <1>1, <2>1, ReconcileProbes DEF SameProbes
  <2>3. \A g \in futs' : SampleOK(g)
    BY <2>2, futs \in SUBSET futs, SameOutcomes
  <2>4. QED
    BY <1>5, <2>3 DEF OutcomesOK, ReadOverride
<1>6. CASE \/ LaunchNothing \/ LaunchBlocked \/ NothingInFlight
           \/ NoticeCancel \/ JoinPanicked \/ JoinAndDie
  <2>1. states' = states /\ futs' \subseteq futs
    BY <1>6 DEF LaunchNothing, LaunchBlocked, NothingInFlight, NoticeCancel,
                JoinPanicked, JoinAndDie
  <2>2. QED
    BY <2>1 DEF OutcomesOK
<1>7. QED
  BY <1>2, <1>3, <1>4, <1>5, <1>6 DEF Loop

LEMMA NextQueued ==
  ASSUME IInv, Queued, [Next]_vars
  PROVE  Queued'
<1>1. CASE Loop
  BY <1>1, LoopQueue, LoopOutcomes DEF Queued
<1>2. ASSUME NEW f \in futs, Task(f) PROVE Queued'
  <2>1. (\A g \in futs' : SampleOK(g)) /\ UNCHANGED taskVars
    BY <1>2, TaskProbes DEF Queued
  <2>2. QueueOK'
    BY <2>1, DropQueue DEF Queued, taskVars, queueVars
  <2>3. QED
    BY <2>1, <2>2 DEF Queued, OutcomesOK, taskVars
<1>3. CASE TogglePause \/ Cancel \/ SetOverride \/ UNCHANGED vars
  <2>1. UNCHANGED <<states, heap, generations, futs>>
    BY <1>3 DEF TogglePause, Cancel, SetOverride, scanVars, queueVars, vars
  <2>2. QED
    BY <2>1, DropQueue DEF Queued, OutcomesOK
<1>4. QED
  BY <1>1, <1>2, <1>3 DEF Next, Ended

(* Whatever the probes and the user do, a target with a probe left has a     *)
(* current entry of its tier in the heap, unless its warmup succeeded and    *)
(* nothing of it was measured yet.                                           *)
THEOREM QueuedHolds == Spec => []Queued
<1>1. Init => Queued
  BY InitQueued
<1>2. IInv /\ Queued /\ [Next]_vars => Queued'
  BY NextQueued
<1>3. QED
  BY <1>1, <1>2, Invariance, PTL DEF Spec

(* Other targets keep their record when one is written. *)
LEMMA WriteOne ==
  ASSUME TargetsOK, NEW t \in Targets, NEW s, states' = [states EXCEPT ![t] = s]
  PROVE  states'[t] = s /\ \A u \in Targets \ {t} : states'[u] = states[u]
BY DEF TargetsOK

LEMMA TierOrder ==
  ASSUME ~AdaptiveProbing, NEW s \in TargetState, NEW v \in TargetState,
         Tier(s) <= Tier(v)
  PROVE  /\ v.samples > 0 => s.samples > 0
         /\ v.completed = 0 => s.samples > 0 \/ s.completed = 0
BY DEF Tier

(* A step that probes a target for measurement respects the priorities. *)
PriorityStep ==
  \A t, u \in Targets :
    LET probed == states'[t].scheduled > states[t].scheduled /\ states'[t].in_flight
        s      == states[t]
        v      == states[u]
    IN probed /\ HasRemainingProbe(v) =>
         /\ v.samples > 0 => s.samples > 0
         /\ v.completed = 0 =>
              s.samples > 0 \/ s.completed = 0 \/ Forgotten(u)

LEMMA LaunchMeasuredPriority ==
  ASSUME IInv, QueueOK, ~AdaptiveProbing, LaunchMeasured
  PROVE  PriorityStep
<1>1. PICK e, s :
        /\ e \in FirstEntries
        /\ e \in heap /\ Live(e) /\ e.index \in Targets
        /\ states' = [states EXCEPT ![e.index] = s]
  BY LaunchMeasuredEffect
<1> SUFFICES ASSUME NEW t \in Targets, NEW u \in Targets,
                    states'[t].scheduled > states[t].scheduled,
                    HasRemainingProbe(states[u])
             PROVE  /\ states[u].samples > 0 => states[t].samples > 0
                    /\ states[u].completed = 0 =>
                         \/ states[t].samples > 0 \/ states[t].completed = 0
                         \/ Forgotten(u)
  BY DEF PriorityStep
<1>2. \A w \in Targets : states[w] \in TargetState
  BY DEF IInv, TargetsOK
<1>3. t = e.index
  <2>1. CASE t # e.index
    <3>1. states'[t] = states[t]
      BY <1>1, <2>1, WriteOne DEF IInv
    <3>2. states[t].scheduled \in Nat
      BY <1>2, SizeAssumption DEF TargetState
    <3>3. QED
      BY <3>1, <3>2
  <2>2. QED
    BY <2>1
<1>4. CASE HasEntry(u)
  <2>1. PICK d \in heap : d.index = u /\ d.generation = generations[u]
    BY <1>4 DEF HasEntry
  <2>2. d \in LiveEntries
    BY <2>1 DEF LiveEntries, Live
  <2>3. e.tier <= d.tier
    BY <1>1, <2>2 DEF FirstEntries
  <2>4. e.tier = Tier(states[t]) /\ d.tier = Tier(states[u])
    BY <1>1, <1>3, <2>1 DEF QueueOK, Current, Waits, Live
  <2>5. QED
    BY <1>2, <2>3, <2>4, TierOrder
<1>5. CASE ~HasEntry(u)
  <2>1. Unprobed(states[u]) /\ Forgotten(u)
    BY <1>5 DEF QueueOK, Forgotten
  <2>2. states[u].samples = 0
    BY <2>1, SizeAssumption DEF IInv, TargetsOK, TargetOK, TargetState, Unprobed
  <2>3. QED
    BY <2>1, <2>2
<1>6. QED
  BY <1>4, <1>5

LEMMA NextPriority ==
  ASSUME IInv, Queued, ~AdaptiveProbing, [Next]_vars
  PROVE  PriorityStep \/ UNCHANGED states
<1>1. CASE LaunchMeasured
  BY <1>1, LaunchMeasuredPriority DEF Queued
<1>2. CASE JoinWarmup \/ JoinMeasured
  <2>1. PICK f, s, r : JoinEffect(f, s, r)
    BY <1>2, JoinWarmupEffect, JoinMeasuredEffect
  <2> DEFINE t == f.index
  <2>2. t \in Targets /\ states' = [states EXCEPT ![t] = s] /\ ~s.in_flight
    BY <2>1 DEF JoinEffect
  <2>3. states'[t] = s /\ \A u \in Targets \ {t} : states'[u] = states[u]
    BY <2>2, WriteOne DEF IInv
  <2>4. \A u \in Targets : states[u].scheduled \in Nat
    BY SizeAssumption DEF IInv, TargetsOK, TargetState
  <2>5. \A u \in Targets :
          ~(states'[u].scheduled > states[u].scheduled /\ states'[u].in_flight)
    BY <2>2, <2>3, <2>4
  <2>6. QED
    BY <2>5 DEF PriorityStep
<1>3. CASE LaunchWarmup
  <2>1. PICK t \in cursor..N : states' = [states EXCEPT ![t].warmup = "flying"]
    BY <1>3 DEF LaunchWarmup
  <2>2. t \in Targets /\ states \in [Targets -> TargetState]
    BY SizeAssumption DEF IInv, RestOK, Targets, TargetsOK
  <2>3. \A u \in Targets : states'[u].scheduled = states[u].scheduled
    BY <2>1, <2>2 DEF TargetState
  <2>4. \A u \in Targets : states[u].scheduled \in Nat
    BY <2>2, SizeAssumption DEF TargetState
  <2>5. \A u \in Targets : ~(states'[u].scheduled > states[u].scheduled)
    BY <2>3, <2>4
  <2>6. QED
    BY <2>5 DEF PriorityStep
<1>4. CASE \/ ReadOverride \/ LaunchNothing \/ LaunchBlocked \/ NothingInFlight
           \/ NoticeCancel \/ JoinPanicked \/ JoinAndDie
  BY <1>4 DEF ReadOverride, LaunchNothing, LaunchBlocked, NothingInFlight,
              NoticeCancel, JoinPanicked, JoinAndDie
<1>5. ASSUME NEW f \in futs, Task(f) PROVE UNCHANGED states
  BY <1>5, TaskProbes DEF Queued, taskVars
<1>6. CASE TogglePause \/ Cancel \/ SetOverride \/ UNCHANGED vars
  BY <1>6 DEF TogglePause, Cancel, SetOverride, scanVars, vars
<1>7. QED
  BY <1>1, <1>2, <1>3, <1>4, <1>5, <1>6 DEF Next, Loop, Ended

(* A measured probe never goes to a target while a better one could be had,  *)
(* unless the queue has forgotten the better one, whatever the pool, the     *)
(* outcomes of warmups and probes and the user do.  It needs fixed budgets:  *)
(* adaptive ones use other tiers.                                            *)
THEOREM PriorityRespectedHolds ==
  ASSUME ~AdaptiveProbing
  PROVE  Spec => PriorityRespected
<1>1. IInv /\ Queued /\ [Next]_vars => PriorityStep \/ UNCHANGED states
  BY NextPriority
<1>2. IInv /\ Queued /\ [Next]_vars =>
        [\A t, u \in Targets :
           LET probed == /\ states'[t].scheduled > states[t].scheduled
                         /\ states'[t].in_flight
               s      == states[t]
               v      == states[u]
           IN probed /\ HasRemainingProbe(v) =>
                /\ v.samples > 0 => s.samples > 0
                /\ v.completed = 0 =>
                     s.samples > 0 \/ s.completed = 0 \/ Forgotten(u)]_states
  BY <1>1 DEF PriorityStep
<1>3. QED
  BY <1>2, Invariance, QueuedHolds, PTL DEF Spec, PriorityRespected

-----------------------------------------------------------------------------
(* The refinement of ScanPromise.  A scan that stops waiting has drained:    *)
(* each target had its warmup and its probes, or is lost.                    *)

(* What is left to do for a target in the state s: a probe of it can be or   *)
(* is about to be spawned.                                                   *)
Left(s) == s.warmup = "todo" \/ HasRemainingProbe(s)

Idle == pc = "wait" /\ futs = {} /\ ~cancel /\ ~paused /\ ~resumed

DrainOK ==
  /\ \A t \in Targets : t < cursor => states[t].warmup # "todo"
  /\ Idle => \A t \in Targets : Left(states[t]) => Forgotten(t)
  /\ pc = "dead" => "leaderboard" \in Risks
  /\ pc = "done" /\ ~cancel /\ ~resumed =>
       \A t \in Targets : results[t] = 1 \/ Lost(t)

(* With nothing left to do and no probe in flight, a target is reported. *)
LEMMA NothingLeft ==
  ASSUME NEW s, NEW r, TargetOK(s, r), ~Left(s), s.warmup # "flying", ~s.in_flight
  PROVE  r = 1
<1>1. s \in TargetState /\ s.warmup = "done"
  BY DEF TargetOK, TargetState, WarmupPhase, Left
<1>2. s.failed \/ s.scheduled = ProbeCount \/ s.stopped
  BY <1>1, SizeAssumption DEF Left, HasRemainingProbe, TargetState
<1>3. s.scheduled = s.completed
  BY <1>1, SizeAssumption DEF TargetOK, TargetState
<1>4. s.completed = ProbeCount \/ s.stopped
  BY <1>2, <1>3 DEF TargetOK
<1>5. QED
  BY <1>4 DEF TargetOK

LEMMA InitDrain == ASSUME Init PROVE DrainOK
<1>1. cursor = 1 /\ pc = "top"
  BY DEF Init
<1>2. \A t \in Targets : ~(t < 1)
  BY SizeAssumption DEF Targets
<1>3. QED
  BY <1>1, <1>2 DEF DrainOK, Idle

(* A step that does not end the loop or begin to wait with nothing in flight. *)
LEMMA QuietDrain ==
  ASSUME \A t \in Targets : t < cursor' => states'[t].warmup # "todo",
         ~Idle', pc' \notin {"done", "dead"}
  PROVE  DrainOK'
BY DEF DrainOK

LEMMA LaunchWarmupDrain ==
  ASSUME IInv, DrainOK, LaunchWarmup
  PROVE  DrainOK'
<1>1. PICK t \in cursor..N : /\ WarmupCursor(t) /\ cursor' = t + 1
                             /\ states' = [states EXCEPT ![t].warmup = "flying"]
  BY DEF LaunchWarmup
<1>2. /\ t \in Targets /\ states \in [Targets -> TargetState]
      /\ cursor \in Nat /\ t \in Nat
  BY SizeAssumption DEF IInv, RestOK, Targets, TargetsOK
<1>3. /\ states'[t].warmup = "flying"
      /\ \A u \in Targets \ {t} : states'[u] = states[u]
  BY <1>1, <1>2 DEF TargetState
<1>4. ASSUME NEW u \in Targets, u < cursor' PROVE states'[u].warmup # "todo"
  <2>1. CASE u = t
    BY <1>3, <2>1
  <2>2. CASE u # t /\ u < cursor
    BY <1>3, <2>2 DEF DrainOK
  <2>3. CASE u # t /\ ~(u < cursor)
    <3>1. u \in cursor..t - 1
      BY <1>1, <1>2, <1>4, <2>3 DEF Targets
    <3>2. ~AwaitsWarmup(u)
      BY <1>1, <3>1 DEF WarmupCursor
    <3>3. TargetOK(states[u], results[u])
      BY DEF IInv, TargetsOK
    <3>4. states[u].warmup # "todo"
      BY <3>2, <3>3 DEF AwaitsWarmup, TargetOK
    <3>5. QED
      BY <1>3, <2>3, <3>4
  <2>4. QED
    BY <2>1, <2>2, <2>3
<1>5. pc' = "launch"
  BY DEF LaunchWarmup
<1>6. QED
  BY <1>4, <1>5, QuietDrain DEF Idle

(* Where the cursor stops, no warmup is pending before it. *)
LEMMA CursorDrain ==
  ASSUME IInv, DrainOK, NEW c \in cursor..N + 1, WarmupCursor(c)
  PROVE  \A u \in Targets : u < c => states[u].warmup # "todo"
<1> SUFFICES ASSUME NEW u \in Targets, u < c PROVE states[u].warmup # "todo"
  OBVIOUS
<1>1. CASE u < cursor
  BY <1>1 DEF DrainOK
<1>2. CASE ~(u < cursor)
  <2>1. u \in cursor..c - 1
    BY <1>2, SizeAssumption DEF IInv, RestOK, Targets
  <2>2. ~AwaitsWarmup(u) /\ TargetOK(states[u], results[u])
    BY <2>1 DEF WarmupCursor, IInv, TargetsOK
  <2>3. QED
    BY <2>2 DEF AwaitsWarmup, TargetOK
<1>3. QED
  BY <1>1, <1>2

LEMMA LaunchMeasuredDrain ==
  ASSUME IInv, DrainOK, LaunchMeasured
  PROVE  DrainOK'
<1>1. PICK e, s :
        /\ e.index \in Targets
        /\ states' = [states EXCEPT ![e.index] = s] /\ s.warmup = "done"
  BY LaunchMeasuredEffect
<1>2. /\ states'[e.index] = s
      /\ \A u \in Targets \ {e.index} : states'[u] = states[u]
  BY <1>1, WriteOne DEF IInv
<1>3. PICK c \in cursor..N + 1 : WarmupCursor(c) /\ cursor' = c
  BY DEF LaunchMeasured
<1>4. \A u \in Targets : u < cursor' => states'[u].warmup # "todo"
  BY <1>1, <1>2, <1>3, CursorDrain
<1>5. pc' = "launch"
  BY DEF LaunchMeasured
<1>6. QED
  BY <1>4, <1>5, QuietDrain DEF Idle

(* The loop waits with nothing in flight only after it found nothing to do:  *)
(* what could still be probed is what the queue has forgotten.               *)
LEMMA LaunchNothingDrain ==
  ASSUME IInv, Queued, DrainOK, LaunchNothing
  PROVE  DrainOK'
<1>1. PICK c \in cursor..N + 1 : WarmupCursor(c) /\ cursor' = c
  BY DEF LaunchNothing
<1>2. \A u \in Targets : u < cursor' => states[u].warmup # "todo"
  BY <1>1, CursorDrain
<1>3. /\ pc' = "wait" /\ ~HasWarmup /\ LiveEntries = {} /\ heap' = {}
      /\ UNCHANGED <<states, generations>>
  BY DEF LaunchNothing
<1>4. ASSUME NEW t \in Targets, Left(states[t]) PROVE Forgotten(t)'
  <2>1. TargetOK(states[t], results[t])
    BY DEF IInv, TargetsOK
  <2>2. states[t].warmup # "todo"
    <3>1. CASE t < cursor
      BY <3>1 DEF DrainOK
    <3>2. CASE ~(t < cursor)
      <4>1. t \in cursor..N
        BY <3>2, SizeAssumption DEF IInv, RestOK, Targets
      <4>2. ~AwaitsWarmup(t)
        BY <1>3, <4>1 DEF HasWarmup
      <4>3. QED
        BY <2>1, <4>2 DEF AwaitsWarmup, TargetOK
    <3>3. QED
      BY <3>1, <3>2
  <2>3. ~HasEntry(t) \/ ~HasRemainingProbe(states[t])
    BY <1>3 DEF HasEntry, LiveEntries, Live
  <2>4. Unprobed(states[t])
    BY <1>4, <2>2, <2>3 DEF Queued, QueueOK, Left
  <2>5. QED
    BY <1>3, <2>4 DEF Forgotten, HasEntry
<1>5. \A t \in Targets : Left(states'[t]) => Forgotten(t)'
  BY <1>3, <1>4
<1>6. QED
  BY <1>2, <1>3, <1>5 DEF DrainOK

LEMMA JoinDrain ==
  ASSUME IInv, DrainOK, pc' = "top", cursor' = cursor,
         NEW f, NEW s, NEW r, JoinEffect(f, s, r)
  PROVE  DrainOK'
<1>1. /\ f.index \in Targets /\ s.warmup = "done"
      /\ states' = [states EXCEPT ![f.index] = s]
  BY DEF JoinEffect
<1>2. /\ states'[f.index] = s
      /\ \A u \in Targets \ {f.index} : states'[u] = states[u]
  BY <1>1, WriteOne DEF IInv
<1>3. \A u \in Targets : u < cursor' => states'[u].warmup # "todo"
  BY <1>1, <1>2 DEF DrainOK
<1>4. QED
  BY <1>3, QuietDrain DEF Idle

LEMMA NothingInFlightDrain ==
  ASSUME IInv, DrainOK, NothingInFlight
  PROVE  DrainOK'
<1>1. /\ pc = "wait" /\ futs = {}
      /\ UNCHANGED <<states, heap, generations, results, cursor, futs,
                     cancel, paused, resumed>>
      /\ pc' \in {"top", "done"}
      /\ pc' = "done" => ~paused \/ cancel
  BY DEF NothingInFlight, AfterDrain, queueVars, userVars
<1>2. ASSUME pc' = "done", ~cancel', ~resumed', NEW t \in Targets
      PROVE  results'[t] = 1 \/ Lost(t)'
  <2>1. Left(states[t]) => Forgotten(t)
    BY <1>1, <1>2 DEF DrainOK, Idle
  <2>2. Forgotten(t)' <=> Forgotten(t)
    BY <1>1 DEF Forgotten, HasEntry
  <2>3. TargetOK(states[t], results[t])
    BY DEF IInv, TargetsOK
  <2>4. states[t].warmup = "flying" \/ states[t].in_flight => Stuck(t)'
    BY <1>1 DEF Stuck
  <2>5. QED
    BY <1>1, <2>1, <2>2, <2>3, <2>4, NothingLeft DEF Lost
<1>3. \A t \in Targets : t < cursor' => states'[t].warmup # "todo"
  BY <1>1 DEF DrainOK
<1>4. pc' # "dead" /\ ~Idle'
  BY <1>1 DEF Idle
<1>5. QED
  BY <1>2, <1>3, <1>4 DEF DrainOK

LEMMA LoopDrain ==
  ASSUME IInv, Queued, DrainOK, Loop
  PROVE  DrainOK'
<1> USE DEF queueVars, userVars
<1>1. UNCHANGED <<states, cursor>> =>
        \A t \in Targets : t < cursor' => states'[t].warmup # "todo"
  BY DEF DrainOK
<1>2. CASE ReadOverride \/ JoinPanicked
  <2>1. pc' # "wait" /\ pc' \notin {"done", "dead"} /\ UNCHANGED <<states, cursor>>
    BY <1>2 DEF ReadOverride, JoinPanicked
  <2>2. QED
    BY <1>1, <2>1, QuietDrain DEF Idle
<1>3. CASE LaunchWarmup
  BY <1>3, LaunchWarmupDrain
<1>4. CASE LaunchMeasured
  BY <1>4, LaunchMeasuredDrain
<1>5. CASE LaunchNothing
  BY <1>5, LaunchNothingDrain
<1>6. CASE LaunchBlocked
  <2>1. /\ pc' = "wait" /\ ~CanLaunch
        /\ UNCHANGED <<states, cursor, futs, cancel, paused>>
    BY <1>6 DEF LaunchBlocked
  <2>2. futs = {} => cancel \/ paused
    BY <2>1, FS_EmptySet DEF CanLaunch, IInv, PoolOK
  <2>3. QED
    BY <1>1, <2>1, <2>2, QuietDrain DEF Idle
<1>7. CASE NothingInFlight
  BY <1>7, NothingInFlightDrain
<1>8. CASE NoticeCancel
  <2>1. pc' = "done" /\ cancel' /\ UNCHANGED <<states, cursor>>
    BY <1>8 DEF NoticeCancel
  <2>2. QED
    BY <1>1, <2>1 DEF DrainOK, Idle
<1>9. CASE JoinWarmup \/ JoinMeasured
  <2>1. PICK f, s, r : JoinEffect(f, s, r)
    BY <1>9, JoinWarmupEffect, JoinMeasuredEffect
  <2>2. pc' = "top" /\ cursor' = cursor
    BY <1>9 DEF JoinWarmup, JoinMeasured
  <2>3. QED
    BY <2>1, <2>2, JoinDrain
<1>10. CASE JoinAndDie
  <2>1. pc' = "dead" /\ UNCHANGED <<states, cursor>>
    BY <1>10 DEF JoinAndDie
  <2>2. "leaderboard" \in Risks
    BY <1>10, RuleAssumption
       DEF JoinAndDie, LeaderboardPanics, ConsultsLeaderboard, Risks, IInv, RestOK
  <2>3. QED
    BY <1>1, <2>1, <2>2 DEF DrainOK, Idle
<1>11. QED
  BY <1>2, <1>3, <1>4, <1>5, <1>6, <1>7, <1>8, <1>9, <1>10 DEF Loop

LEMMA NextDrain ==
  ASSUME IInv, Queued, DrainOK, [Next]_vars
  PROVE  DrainOK'
<1>1. CASE Loop
  BY <1>1, LoopDrain
<1>2. UNCHANGED <<states, cursor>> =>
        \A t \in Targets : t < cursor' => states'[t].warmup # "todo"
  BY DEF DrainOK
<1>3. ASSUME Active, NEW f \in futs, Task(f) PROVE DrainOK'
  <2>1. /\ \A g \in futs : \E h \in futs' : h.index = g.index
        /\ UNCHANGED <<states, cursor, pc>>
    BY <1>3, TaskProbes DEF Queued, taskVars, queueVars
  <2>2. futs' # {}
    BY <2>1
  <2>3. pc' \notin {"done", "dead"}
    BY <1>3, <2>1 DEF Active
  <2>4. QED
    BY <1>2, <2>1, <2>2, <2>3, QuietDrain DEF Idle
<1>4. CASE TogglePause \/ Cancel
  <2>1. UNCHANGED <<states, cursor, pc, futs>> /\ pc \notin {"done", "dead"}
    BY <1>4 DEF TogglePause, Cancel, scanVars, queueVars, Active
  <2>2. ~Idle'
    BY <1>4, <2>1 DEF TogglePause, Cancel, Idle
  <2>3. QED
    BY <1>2, <2>1, <2>2, QuietDrain
<1>5. CASE SetOverride \/ UNCHANGED vars
  <2>1. UNCHANGED <<states, heap, generations, cursor, futs, results, pc, cancel,
                    paused, resumed>>
    BY <1>5 DEF SetOverride, scanVars, queueVars, vars
  <2>2. \A t \in Targets :
          (Forgotten(t)' <=> Forgotten(t)) /\ (Lost(t)' <=> Lost(t))
    BY <2>1 DEF Forgotten, HasEntry, Lost, Stuck
  <2>3. QED
    BY <2>1, <2>2 DEF DrainOK, Idle
<1>6. QED
  BY <1>1, <1>3, <1>4, <1>5 DEF Next, Ended

(* A scan has drained when nothing is in flight (DrainOK): what a target has  *)
(* left is out of the reach of the loop only when the queue has forgotten the *)
(* target, so that a scan which ends by itself has reported or lost each      *)
(* target (scanner.rs 2083-2096).                                             *)
THEOREM DrainHolds == Spec => []DrainOK
<1>1. Init => DrainOK
  BY InitDrain
<1>2. IInv /\ Queued /\ DrainOK /\ [Next]_vars => DrainOK'
  BY NextDrain
<1>3. QED
  BY <1>1, <1>2, QueuedHolds, Invariance, PTL DEF Spec

(* What the refinement mapping of PromiseKept maps the state to. *)
Reported == {t \in Targets : results[t] > 0}
Tried == {t \in Targets : states[t].completed > 0}
Gone == {t \in Targets : Lost(t)}

LEMMA PromiseVars ==
  /\ Promise!vars = <<Reported, Tried, Gone, resumed, Outcome>>
  /\ Promise!Init <=>
       /\ Reported = Invalid /\ Tried = Invalid /\ Gone = {}
       /\ resumed = FALSE /\ Outcome = "running"
  /\ Promise!Open = Targets \ (Reported \cup Gone)
BY DEF Promise!vars, Promise!Init, Promise!Open, Reported, Tried, Gone

LEMMA InitPromise == Init => Promise!Init
<1> SUFFICES ASSUME Init PROVE Promise!Init
  OBVIOUS
<1>1. Outcome = "running" /\ resumed = FALSE
  BY DEF Init, Outcome, Active
<1>2. Invalid \subseteq Targets
  BY SizeAssumption DEF Targets
<1>3. Reported = Invalid
  <2>1. \A t \in Targets : results[t] = IF t \in Invalid THEN 1 ELSE 0
    BY DEF Init
  <2>2. QED
    BY <1>2, <2>1 DEF Reported
<1>4. \A t \in Targets : states[t] = NewTarget(t)
  BY DEF Init
<1>5. Tried = Invalid
  <2>1. \A t \in Targets :
          NewTarget(t).completed = IF t \in Invalid THEN ProbeCount ELSE 0
    BY DEF NewTarget
  <2>2. \A t \in Targets : states[t].completed > 0 <=> t \in Invalid
    BY <1>4, <2>1, SizeAssumption
  <2>3. QED
    BY <1>2, <2>2 DEF Tried
<1>6. Gone = {}
  <2>1. \A t \in Targets : /\ NewTarget(t).warmup # "flying"
                           /\ ~NewTarget(t).in_flight /\ ~NewTarget(t).cold
    BY DEF NewTarget
  <2>2. QED
    BY <1>4, <2>1 DEF Gone, Lost, Forgotten, Unprobed, Stuck
<1>7. QED
  BY <1>1, <1>3, <1>5, <1>6, PromiseVars

(* A target whose warmup succeeded can be probed as soon as it is queued. *)
LEMMA UnprobedReady ==
  ASSUME NEW s, NEW r, TargetOK(s, r), Unprobed(s)
  PROVE  HasRemainingProbe(s) /\ s.completed = 0 /\ r = 0
<1>1. s \in TargetState /\ s.scheduled = 0 /\ s.warmup = "done"
  BY DEF TargetOK, Unprobed
<1>2. s.completed = 0 /\ ~s.in_flight
  BY <1>1, SizeAssumption DEF TargetOK, TargetState
<1>3. ~s.stopped /\ ~s.failed /\ r = 0
  BY <1>2, SizeAssumption DEF TargetOK
<1>4. QED
  BY <1>1, <1>2, <1>3, SizeAssumption DEF HasRemainingProbe

(* A lost target was not reported. *)
Unreported == \A t \in Targets : Lost(t) => results[t] = 0

LEMMA LostUnreported == ASSUME IInv PROVE Unreported
<1> SUFFICES ASSUME NEW t \in Targets, Lost(t) PROVE results[t] = 0
  BY DEF Unreported
<1>1. TargetOK(states[t], results[t])
  BY DEF IInv, TargetsOK
<1>2. CASE Forgotten(t)
  BY <1>1, <1>2, UnprobedReady DEF Forgotten
<1>3. CASE Stuck(t)
  <2>1. /\ states[t] \in TargetState /\ ~states[t].stopped
        /\ states[t].completed # ProbeCount
    BY <1>1, <1>3, SizeAssumption DEF Stuck, TargetOK, TargetState
  <2>2. QED
    BY <1>1, <2>1 DEF TargetOK
<1>4. QED
  BY <1>2, <1>3 DEF Lost

(* A target with a probe in flight is neither lost nor reported. *)
LEMMA HeldIsOpen ==
  ASSUME IInv, NEW f \in futs
  PROVE  f.index \in Targets /\ ~Lost(f.index) /\ results[f.index] = 0
<1>1. f.index \in Targets /\ Linked(f, states[f.index])
  BY DEF IInv, FutsOK, Future
<1>2. TargetOK(states[f.index], results[f.index])
  BY <1>1 DEF IInv, TargetsOK
<1>3. ~Unprobed(states[f.index])
  BY <1>1, <1>2, SizeAssumption DEF Linked, Unprobed, TargetOK, TargetState
<1>4. QED
  BY <1>1, <1>3, SilentFact DEF Lost, Forgotten, Stuck, SilentAfterResult

(* The queue drops only entries of targets that cannot be probed. *)
LEMMA EntriesKept ==
  ASSUME IInv, generations' = generations, heap' \subseteq heap,
         \A e \in heap : Live(e) => e \in heap',
         NEW u \in Targets, Unprobed(states[u])
  PROVE  HasEntry(u)' <=> HasEntry(u)
<1>1. TargetOK(states[u], results[u])
  BY DEF IInv, TargetsOK
<1>2. HasRemainingProbe(states[u])
  BY <1>1, UnprobedReady
<1>3. QED
  BY <1>2 DEF HasEntry, Live

(* Targets that keep their state, their entry and their probe stay lost or   *)
(* stay open.                                                                *)
LEMMA LostSame ==
  ASSUME NEW T,
         \A u \in T : states'[u] = states[u],
         \A u \in T : Unprobed(states[u]) => (HasEntry(u)' <=> HasEntry(u)),
         \A u \in T : (\E f \in futs : f.index = u) <=> (\E f \in futs' : f.index = u)
  PROVE  \A u \in T : Lost(u)' <=> Lost(u)
<1> SUFFICES ASSUME NEW u \in T PROVE Lost(u)' <=> Lost(u)
  OBVIOUS
<1>1. Forgotten(u)' <=> Forgotten(u)
  BY DEF Forgotten
<1>2. Stuck(u)' <=> Stuck(u)
  BY DEF Stuck
<1>3. QED
  BY <1>1, <1>2 DEF Lost

(* A step between two states of the running scan that accounts for nothing. *)
LEMMA StayPromise ==
  ASSUME Active, Active', results' = results,
         \A t \in Targets : states'[t].completed = states[t].completed,
         \A t \in Targets : Lost(t)' <=> Lost(t),
         resumed' = resumed \/ resumed' = TRUE
  PROVE  Promise!Next \/ UNCHANGED Promise!vars
<1>1. Reported' = Reported /\ Tried' = Tried /\ Gone' = Gone
  BY DEF Reported, Tried, Gone
<1>2. Outcome = "running" /\ Outcome' = "running"
  BY DEF Outcome, Active
<1>3. CASE resumed' = resumed
  BY <1>1, <1>2, <1>3 DEF Promise!vars, Reported, Tried, Gone
<1>4. CASE resumed' = TRUE
  <2>1. Promise!Resume
    BY <1>1, <1>2, <1>4 DEF Promise!Resume, Reported, Tried, Gone
  <2>2. QED
    BY <2>1 DEF Promise!Next
<1>5. QED
  BY <1>3, <1>4

LEMMA LaunchWarmupPromise ==
  ASSUME IInv, LaunchWarmup
  PROVE  Promise!Next \/ UNCHANGED Promise!vars
<1>1. PICK t \in cursor..N : /\ WarmupCursor(t)
                             /\ states' = [states EXCEPT ![t].warmup = "flying"]
                             /\ futs' = futs \cup {Spawned(t, 0)}
  BY DEF LaunchWarmup
<1>2. t \in Targets /\ states \in [Targets -> TargetState]
  BY SizeAssumption DEF IInv, RestOK, Targets, TargetsOK
<1>3. /\ states'[t].warmup = "flying"
      /\ states'[t].completed = states[t].completed
      /\ states'[t].in_flight = states[t].in_flight
      /\ \A u \in Targets \ {t} : states'[u] = states[u]
  BY <1>1, <1>2 DEF TargetState
<1>4. Spawned(t, 0).index = t
  BY DEF Spawned
<1>5. /\ generations' = generations /\ heap' \subseteq heap
      /\ \A e \in heap : Live(e) => e \in heap'
  BY DEF LaunchWarmup, LiveEntries
<1>6. \A u \in Targets \ {t} : Lost(u)' <=> Lost(u)
  <2>1. \A u \in Targets \ {t} :
          Unprobed(states[u]) => (HasEntry(u)' <=> HasEntry(u))
    BY <1>5, EntriesKept
  <2>2. \A u \in Targets \ {t} :
          (\E f \in futs : f.index = u) <=> (\E f \in futs' : f.index = u)
    BY <1>1, <1>4
  <2>3. QED
    BY <1>3, <2>1, <2>2, LostSame
<1>7. ~Lost(t) /\ ~Lost(t)'
  <2>1. states[t].warmup = "todo" /\ ~states[t].in_flight
    BY <1>1 DEF WarmupCursor, AwaitsWarmup
  <2>2. ~Unprobed(states'[t])
    BY <1>3 DEF Unprobed
  <2>3. \E f \in futs' : f.index = t
    BY <1>1, <1>4
  <2>4. QED
    BY <2>1, <2>2, <2>3 DEF Lost, Forgotten, Unprobed, Stuck
<1>8. Active /\ Active' /\ results' = results /\ resumed' = resumed
  BY DEF LaunchWarmup, Active, userVars
<1>9. QED
  BY <1>3, <1>6, <1>7, <1>8, StayPromise

LEMMA LaunchMeasuredPromise ==
  ASSUME IInv, LaunchMeasured
  PROVE  Promise!Next \/ UNCHANGED Promise!vars
<1>1. PICK e \in FirstEntries :
        /\ heap' = Beyond(e)
        /\ states' = [states EXCEPT
              ![e.index].scheduled = states[e.index].scheduled + 1,
              ![e.index].in_flight = TRUE]
        /\ futs' = futs \cup {Spawned(e.index, states[e.index].scheduled + 1)}
  BY DEF LaunchMeasured
<1> DEFINE t == e.index
           k == states[t].scheduled + 1
<1>2. e \in heap /\ Live(e) /\ t \in Targets
  BY DEF FirstEntries, LiveEntries, IInv, RestOK, Entry
<1>3. states \in [Targets -> TargetState] /\ k # 0
  BY <1>2, SizeAssumption DEF IInv, TargetsOK, TargetState
<1>4. /\ states'[t].scheduled = k
      /\ states'[t].completed = states[t].completed
      /\ \A u \in Targets \ {t} : states'[u] = states[u]
  BY <1>1, <1>2, <1>3 DEF TargetState
<1>5. Spawned(t, k).index = t
  BY DEF Spawned
<1>6. /\ generations' = generations
      /\ \A u \in heap : Live(u) /\ u # e => u \in heap'
      /\ heap' \subseteq heap
  BY <1>1 DEF LaunchMeasured, Beyond
<1>7. \A u \in Targets \ {t} : Lost(u)' <=> Lost(u)
  <2>1. ASSUME NEW u \in Targets \ {t}, Unprobed(states[u])
        PROVE  HasEntry(u)' <=> HasEntry(u)
    <3>1. TargetOK(states[u], results[u])
      BY DEF IInv, TargetsOK
    <3>2. HasRemainingProbe(states[u])
      BY <2>1, <3>1, UnprobedReady
    <3>3. QED
      BY <1>6, <3>2 DEF HasEntry, Live
  <2>2. \A u \in Targets \ {t} :
          (\E f \in futs : f.index = u) <=> (\E f \in futs' : f.index = u)
    BY <1>1, <1>5
  <2>3. QED
    BY <1>4, <2>1, <2>2, LostSame
<1>8. ~Lost(t) /\ ~Lost(t)'
  <2>1. HasEntry(t) /\ states[t].warmup = "done" /\ ~states[t].in_flight
    BY <1>2 DEF HasEntry, Live, HasRemainingProbe
  <2>2. ~Unprobed(states'[t])
    BY <1>3, <1>4 DEF Unprobed
  <2>3. \E f \in futs' : f.index = t
    BY <1>1, <1>5
  <2>4. QED
    BY <2>1, <2>2, <2>3 DEF Lost, Forgotten, Stuck
<1>9. Active /\ Active' /\ results' = results /\ resumed' = resumed
  BY DEF LaunchMeasured, Active, userVars
<1>10. QED
  BY <1>4, <1>7, <1>8, <1>9, StayPromise

(* A join gets its target on, reports it or loses it. *)
LEMMA JoinPromise ==
  ASSUME IInv, Active, Active', resumed' = resumed,
         NEW f, NEW s, NEW r, JoinEffect(f, s, r)
  PROVE  Promise!Next \/ UNCHANGED Promise!vars
<1> DEFINE t == f.index
<1>1. /\ f \in futs /\ t \in Targets /\ results[t] = 0 /\ r \in {0, 1}
      /\ TargetOK(s, r) /\ s.warmup = "done" /\ ~s.in_flight
      /\ s.completed = 0 => r = 0 /\ states[t].completed = 0
      /\ SameProbes(futs \ {f}, futs')
      /\ states' = [states EXCEPT ![t] = s]
      /\ results' = [results EXCEPT ![t] = r]
  BY DEF JoinEffect, TargetOK
<1>2. /\ states'[t] = s /\ results'[t] = r
      /\ \A u \in Targets \ {t} : states'[u] = states[u] /\ results'[u] = results[u]
  BY <1>1 DEF IInv, TargetsOK
<1>3. ~Lost(t)
  BY <1>1, HeldIsOpen
<1>4. \A u \in Targets \ {t} : HasEntry(u)' <=> HasEntry(u)
  <2>1. CASE Push(t, s)
    <3> DEFINE n == [index |-> t, generation |-> generations[t] + 1, tier |-> Tier(s)]
    <3>1. heap' = heap \cup {n} /\ n.index = t
      BY <2>1 DEF Push
    <3>2. \A u \in Targets \ {t} : generations'[u] = generations[u]
      BY <2>1 DEF Push, IInv, RestOK
    <3> HIDE DEF n
    <3>3. QED
      BY <3>1, <3>2 DEF HasEntry
  <2>2. CASE UNCHANGED <<heap, generations>>
    BY <2>2 DEF HasEntry
  <2>3. QED
    BY <2>1, <2>2 DEF JoinEffect
<1>5. \A u \in Targets \ {t} : Lost(u)' <=> Lost(u)
  <2>1. \A u \in Targets \ {t} :
          (\E g \in futs : g.index = u) <=> (\E g \in futs' : g.index = u)
    BY <1>1 DEF SameProbes
  <2>2. QED
    BY <1>2, <1>4, <2>1, LostSame
<1>6. ~Stuck(t)'
  BY <1>1, <1>2 DEF Stuck
<1>7. Outcome = "running" /\ Outcome' = "running"
  BY DEF Outcome, Active
<1>8. t \in Targets \ (Reported \cup Gone)
  BY <1>1, <1>3 DEF Reported, Gone
<1>9. s.completed \in Nat /\ states[t].completed \in Nat
  BY <1>1, SizeAssumption DEF TargetOK, TargetState, IInv, TargetsOK
<1>10. Reported' = IF r = 1 THEN Reported \cup {t} ELSE Reported
  BY <1>1, <1>2 DEF Reported
<1>11. CASE Lost(t)'
  <2>1. Forgotten(t)' /\ Unprobed(s)
    BY <1>2, <1>6, <1>11 DEF Lost, Forgotten
  <2>2. HasRemainingProbe(s) /\ s.completed = 0 /\ r = 0
    BY <1>1, <2>1, UnprobedReady
  <2>3. ~Push(t, s)
    <3> DEFINE n == [index |-> t, generation |-> generations[t] + 1, tier |-> Tier(s)]
    <3>1. ASSUME Push(t, s) PROVE HasEntry(t)'
      <4>1. n \in heap' /\ n.index = t /\ n.generation = generations[t] + 1
        BY <3>1 DEF Push
      <4>2. generations'[t] = generations[t] + 1
        BY <1>1, <3>1 DEF Push, IInv, RestOK
      <4> HIDE DEF n
      <4>3. QED
        BY <4>1, <4>2 DEF HasEntry
    <3> HIDE DEF n
    <3>2. QED
      BY <2>1, <3>1 DEF Forgotten
  <2>4. "warmup" \in Risks
    BY <2>2, <2>3 DEF JoinEffect
  <2>5. Tried' = Tried /\ t \notin Tried
    BY <1>1, <1>2, <1>9, <2>2 DEF Tried
  <2>6. Gone' = Gone \cup {t}
    BY <1>1, <1>5, <1>11 DEF Gone
  <2>7. Promise!Lose
    BY <1>7, <1>8, <1>10, <2>2, <2>4, <2>5, <2>6, PromiseVars
       DEF Promise!Lose, Reported, Tried, Gone
  <2>8. QED
    BY <2>7 DEF Promise!Next
<1>12. CASE ~Lost(t)'
  <2>1. Gone' = Gone
    BY <1>3, <1>5, <1>12 DEF Gone
  <2>2. CASE s.completed # 0
    <3>1. Tried' = Tried \cup {t}
      BY <1>1, <1>2, <1>9, <2>2 DEF Tried
    <3>2. Promise!Progress
      BY <1>7, <1>8, <1>10, <2>1, <3>1, PromiseVars
         DEF Promise!Progress, Reported, Tried, Gone
    <3>3. QED
      BY <3>2 DEF Promise!Next
  <2>3. CASE s.completed = 0
    <3>1. Tried' = Tried
      BY <1>1, <1>2, <2>3 DEF Tried
    <3>2. Reported' = Reported
      BY <1>1, <1>10, <2>3
    <3>3. QED
      BY <1>7, <2>1, <3>1, <3>2 DEF Promise!vars, Reported, Tried, Gone
  <2>4. QED
    BY <2>2, <2>3
<1>13. QED
  BY <1>11, <1>12

(* The target of a task that panicked is lost. *)
LEMMA JoinPanickedPromise ==
  ASSUME IInv, Queued, JoinPanicked
  PROVE  Promise!Next \/ UNCHANGED Promise!vars
<1>1. PICK f \in InPhase("finished") : f.sample = "panic" /\ futs' = futs \ {f}
  BY DEF JoinPanicked
<1> DEFINE t == f.index
<1>2. f \in futs /\ t \in Targets /\ ~Lost(t) /\ results[t] = 0
  BY HeldIsOpen DEF InPhase
<1>3. "panic" \in Risks
  <2>1. f.sample \in WarmupSamples \cup ProbeSamples
    BY <1>1, <1>2 DEF Queued, OutcomesOK, SampleOK, Outcomes
  <2>2. QED
    BY <1>1, <2>1 DEF Risks
<1>4. /\ UNCHANGED <<states, heap, generations, results, resumed>>
      /\ Active /\ Active'
  BY DEF JoinPanicked, queueVars, userVars, Active
<1>5. \A u \in Targets \ {t} : Lost(u)' <=> Lost(u)
  <2>1. \A u \in Targets : HasEntry(u)' <=> HasEntry(u)
    BY <1>4 DEF HasEntry
  <2>2. \A u \in Targets \ {t} :
          (\E g \in futs : g.index = u) <=> (\E g \in futs' : g.index = u)
    BY <1>1
  <2>3. QED
    BY <1>4, <2>1, <2>2, LostSame
<1>6. Lost(t)'
  <2>1. states[t].warmup = "flying" \/ states[t].in_flight
    BY <1>2 DEF IInv, FutsOK, Linked
  <2>2. \A g \in futs' : g.index # t
    BY <1>1, <1>2 DEF IInv, FutsOK
  <2>3. QED
    BY <1>4, <2>1, <2>2 DEF Lost, Stuck
<1>7. Reported' = Reported /\ Tried' = Tried /\ Gone' = Gone \cup {t}
  BY <1>2, <1>4, <1>5, <1>6 DEF Reported, Tried, Gone
<1>8. t \in Targets \ (Reported \cup Gone)
  BY <1>2 DEF Reported, Gone
<1>9. Outcome = "running" /\ Outcome' = "running"
  BY <1>4 DEF Outcome, Active
<1>10. Promise!Lose
  BY <1>3, <1>4, <1>7, <1>8, <1>9, PromiseVars
     DEF Promise!Lose, Reported, Tried, Gone
<1>11. QED
  BY <1>10 DEF Promise!Next

(* Nothing changes for a target, except that its probe may be dropped. *)
LEMMA DropPromise ==
  ASSUME Unreported', UNCHANGED <<states, heap, generations, results, resumed>>,
         futs' = {}
  PROVE  /\ Reported' = Reported /\ Tried' = Tried
         /\ Gone \subseteq Gone' /\ Gone' \subseteq Targets \ Reported
<1>1. Reported' = Reported /\ Tried' = Tried
  BY DEF Reported, Tried
<1>2. ASSUME NEW t \in Targets, Lost(t) PROVE Lost(t)'
  BY <1>2 DEF Lost, Forgotten, HasEntry, Stuck
<1>3. ASSUME NEW t \in Targets, Lost(t)' PROVE results'[t] = 0
  BY <1>3 DEF Unreported
<1>4. QED
  BY <1>1, <1>2, <1>3 DEF Reported, Gone

(* The end of the loop: by a cancel or a failure, complete or broken off. *)
LEMMA EndPromise ==
  ASSUME Unreported', DrainOK',
         UNCHANGED <<states, heap, generations, results, resumed>>,
         futs' = {}, Active, ~Active',
         pc' = "done" /\ ~cancel' => futs' = futs
  PROVE  Promise!Next \/ UNCHANGED Promise!vars
<1>1. /\ Reported' = Reported /\ Tried' = Tried
      /\ Gone \subseteq Gone' /\ Gone' \subseteq Targets \ Reported
  BY DropPromise
<1>2. Outcome = "running"
  BY DEF Outcome, Active
<1>3. CASE pc' = "dead"
  <2>1. "leaderboard" \in Risks
    BY <1>3 DEF DrainOK
  <2>2. Outcome' = "failed"
    BY <1>3 DEF Outcome, Active
  <2>3. Promise!Abandon
    BY <1>1, <1>2, <2>1, <2>2 DEF Promise!Abandon, Reported, Tried, Gone
  <2>4. QED
    BY <2>3 DEF Promise!Next
<1>4. CASE pc' = "done" /\ cancel'
  <2>1. Outcome' = "cancelled"
    BY <1>4 DEF Outcome, Active
  <2>2. Promise!Abandon
    BY <1>1, <1>2, <2>1 DEF Promise!Abandon, Reported, Tried, Gone
  <2>3. QED
    BY <2>2 DEF Promise!Next
<1>5. CASE pc' = "done" /\ ~cancel'
  <2>1. \A t \in Targets : Lost(t)' <=> Lost(t)
    BY <1>5 DEF Lost, Forgotten, HasEntry, Stuck
  <2>2. Gone' = Gone
    BY <2>1 DEF Gone
  <2>3. CASE \A t \in Targets : results'[t] > 0 \/ Lost(t)'
    <3>1. Outcome' = "complete"
      BY <1>5, <2>3 DEF Outcome, Active
    <3>2. Targets \ (Reported \cup Gone) = {}
      BY <2>1, <2>3 DEF Reported, Gone
    <3>3. Promise!Complete
      BY <1>1, <1>2, <2>2, <3>1, <3>2, PromiseVars
         DEF Promise!Complete, Reported, Tried, Gone
    <3>4. QED
      BY <3>3 DEF Promise!Next
  <2>4. CASE ~\A t \in Targets : results'[t] > 0 \/ Lost(t)'
    <3>1. Outcome' = "broken"
      BY <1>5, <2>4 DEF Outcome, Active
    <3>2. resumed
      BY <1>5, <2>4 DEF DrainOK
    <3>3. Promise!BreakOff
      BY <1>1, <1>2, <2>2, <3>1, <3>2 DEF Promise!BreakOff, Reported, Tried, Gone
    <3>4. QED
      BY <3>3 DEF Promise!Next
  <2>5. QED
    BY <2>3, <2>4
<1>6. QED
  BY <1>3, <1>4, <1>5 DEF Active

(* A step that keeps states and results and drops only useless entries. *)
LEMMA QuietPromise ==
  ASSUME IInv, Active, Active', UNCHANGED <<states, generations, results>>,
         heap' \subseteq heap, \A e \in heap : Live(e) => e \in heap',
         \A g \in futs' : \E f \in futs : f.index = g.index,
         \A f \in futs : \E g \in futs' : g.index = f.index,
         resumed' = resumed \/ resumed' = TRUE
  PROVE  Promise!Next \/ UNCHANGED Promise!vars
<1>1. \A u \in Targets : Unprobed(states[u]) => (HasEntry(u)' <=> HasEntry(u))
  BY EntriesKept
<1>2. \A u \in Targets :
        (\E f \in futs : f.index = u) <=> (\E f \in futs' : f.index = u)
  OBVIOUS
<1>3. \A u \in Targets : Lost(u)' <=> Lost(u)
  BY <1>1, <1>2, LostSame
<1>4. QED
  BY <1>3, StayPromise

LEMMA LoopPromise ==
  ASSUME IInv, Unreported', Queued, DrainOK', Loop
  PROVE  Promise!Next \/ UNCHANGED Promise!vars
<1> USE DEF queueVars, userVars
<1>1. Active
  BY DEF Active, Loop, ReadOverride, LaunchWarmup, LaunchMeasured, LaunchNothing,
         LaunchBlocked, NothingInFlight, NoticeCancel, JoinPanicked, JoinWarmup,
         JoinMeasured, JoinAndDie
<1>2. CASE ReadOverride
  <2>1. /\ UNCHANGED <<states, heap, generations, results, resumed>> /\ Active'
        /\ futs' = futs \/ Reconcile(futs, ManualWorkers)
    BY <1>2 DEF ReadOverride, Active
  <2>2. SameProbes(futs, futs')
    BY <2>1, ReconcileProbes DEF SameProbes, IInv, FutsOK
  <2>3. QED
    BY <1>1, <2>1, <2>2, QuietPromise DEF SameProbes
<1>3. CASE LaunchWarmup
  BY <1>3, LaunchWarmupPromise
<1>4. CASE LaunchMeasured
  BY <1>4, LaunchMeasuredPromise
<1>5. CASE LaunchNothing \/ LaunchBlocked
  <2>1. /\ UNCHANGED <<states, generations, results, resumed, futs>> /\ Active'
        /\ heap' \subseteq heap /\ \A e \in heap : Live(e) => e \in heap'
    BY <1>5 DEF LaunchNothing, LaunchBlocked, LiveEntries, Active
  <2>2. QED
    BY <1>1, <2>1, QuietPromise
<1>6. CASE NothingInFlight
  <2>1. /\ UNCHANGED <<states, heap, generations, results, resumed, futs>>
        /\ futs = {}
    BY <1>6 DEF NothingInFlight
  <2>2. CASE Active'
    BY <1>1, <2>1, <2>2, QuietPromise
  <2>3. CASE ~Active'
    BY <1>1, <2>1, <2>3, EndPromise
  <2>4. QED
    BY <2>2, <2>3
<1>7. CASE NoticeCancel \/ JoinAndDie
  <2>1. /\ UNCHANGED <<states, heap, generations, results, resumed>>
        /\ futs' = {} /\ ~Active' /\ (pc' = "done" => cancel')
    BY <1>7 DEF NoticeCancel, JoinAndDie, Active
  <2>2. QED
    BY <1>1, <2>1, EndPromise
<1>8. CASE JoinPanicked
  BY <1>8, JoinPanickedPromise
<1>9. CASE JoinWarmup \/ JoinMeasured
  <2>1. PICK f, s, r : JoinEffect(f, s, r)
    BY <1>9, JoinWarmupEffect, JoinMeasuredEffect
  <2>2. Active' /\ resumed' = resumed
    BY <1>9 DEF JoinWarmup, JoinMeasured, Active
  <2>3. QED
    BY <1>1, <2>1, <2>2, JoinPromise
<1>10. QED
  BY <1>2, <1>3, <1>4, <1>5, <1>6, <1>7, <1>8, <1>9 DEF Loop

LEMMA NextPromise ==
  ASSUME IInv, Unreported', Queued, DrainOK', [Next]_vars
  PROVE  Promise!Next \/ UNCHANGED Promise!vars
<1>1. CASE Loop
  BY <1>1, LoopPromise
<1>2. ASSUME Active, NEW f \in futs, Task(f)
      PROVE  Promise!Next \/ UNCHANGED Promise!vars
  <2>1. /\ \A g \in futs : \E h \in futs' : h.index = g.index
        /\ \A h \in futs' : \E g \in futs : g.index = h.index
        /\ UNCHANGED <<states, heap, generations, results, resumed, pc>>
    BY <1>2, TaskProbes DEF Queued, taskVars, queueVars, userVars
  <2>2. QED
    BY <1>2, <2>1, QuietPromise DEF Active
<1>3. CASE TogglePause \/ Cancel \/ SetOverride
  <2>1. /\ UNCHANGED <<states, heap, generations, results, futs, pc>> /\ Active
        /\ resumed' = resumed \/ resumed' = TRUE
    BY <1>3 DEF TogglePause, Cancel, SetOverride, scanVars, queueVars, IInv, RestOK
  <2>2. QED
    BY <2>1, QuietPromise DEF Active
<1>4. CASE UNCHANGED vars
  <2>1. UNCHANGED <<states, heap, generations, results, futs, resumed, pc, cancel>>
    BY <1>4 DEF vars
  <2>2. \A t \in Targets : Lost(t)' <=> Lost(t)
    BY <2>1 DEF Lost, Forgotten, HasEntry, Stuck
  <2>3. Reported' = Reported /\ Tried' = Tried /\ Gone' = Gone /\ Outcome' = Outcome
    BY <2>1, <2>2 DEF Reported, Tried, Gone, Outcome, Active
  <2>4. QED
    BY <2>1, <2>3 DEF Promise!vars, Reported, Tried, Gone
<1>5. QED
  BY <1>1, <1>2, <1>3, <1>4 DEF Next, Ended

(* The scheduler implements ScanPromise, in every configuration: to the code *)
(* that started it a scan reports each target once, invalid ones at once,    *)
(* nothing after its end, and, unless it was cancelled or resumed in the     *)
(* wrong moment, every target but those it lost to a successful warmup       *)
(* before their first measured probe, or to a panic.                         *)
THEOREM PromiseKeptHolds == Spec => PromiseKept
<1>1. IInv /\ Unreported' /\ Queued /\ DrainOK' /\ [Next]_vars
        => [Promise!Next]_(Promise!vars)
  BY NextPromise
<1>2. IInv => Unreported
  BY LostUnreported
<1>3. QED
  BY <1>1, <1>2, InitPromise, DrainHolds, QueuedHolds, Invariance, PTL
     DEF Spec, PromiseKept, Promise!Spec
=============================================================================
