--------------------------- MODULE AdaptivePolicy ---------------------------
(***************************************************************************)
(* The adaptive worker controller: AdaptivePolicy of src/adaptive.rs,      *)
(* driven the way the scheduler in src/scanner.rs drives it.  Every        *)
(* measured probe that ends is recorded; then either the user's override   *)
(* is applied, or the live minimum, an evaluation and its application.     *)
(*                                                                         *)
(* An Option is a set with at most one element.  Instants are naturals,    *)
(* ratios are percentages, and only what the policy compares of a latency  *)
(* is kept.  The history variable log remembers the resizes themselves,    *)
(* apart from the bookkeeping of the policy the properties are about.      *)
(***************************************************************************)
EXTENDS Naturals, Sequences, FiniteSets

CONSTANTS
  StartWorkers, MinWorkers, MaxWorkers,
  Window,             \* how long an observation stays relevant
  WindowCapacity,     \* window_capacity
  MinSamples,         \* min_samples
  BaselineSamples,    \* baseline_samples
  Cooldown,           \* cooldown
  Dwell,              \* scale_down_dwell
  RecoveryStreak,     \* recovery_streak
  HysteresisStreak,   \* hysteresis_streak
  UpStep, DownStep,   \* scale_up_step, scale_down_step
  TimeoutRate,        \* timeout_rate_threshold
  Degradation,        \* latency_degradation_ratio
  DegradedSamples,    \* latency_degradation_min_samples
  HealthyLatency,     \* healthy_latency_ratio
  Gain,               \* throughput_improvement_threshold
  WorkPerWorker,      \* remaining_work_per_worker
  StableRate,         \* stable_success_rate
  Observations,       \* [kind, latency] pairs a probe may end with
  Remaining,          \* values of remaining_measured_work
  Requests,           \* worker counts the user may ask for
  Floors,             \* values of runtime_min_concurrency
  MaxTime             \* bound of the clock, for TLC

Kind == {"success", "timeout", "connection", "other", "cancelled"}

(* A success kept apart from the latencies, the cold request of a target     *)
(* whose warmup failed, has latency 0.                                       *)
ASSUME PolicyAssumption ==
  /\ {StartWorkers, MinWorkers, MaxWorkers} \subseteq Nat \ {0}
  /\ MinWorkers <= StartWorkers /\ StartWorkers <= MaxWorkers
  /\ {WindowCapacity, MinSamples, BaselineSamples, RecoveryStreak,
      HysteresisStreak, UpStep, DownStep, DegradedSamples,
      WorkPerWorker} \subseteq Nat \ {0}
  /\ {Window, Cooldown, Dwell, TimeoutRate, Degradation, HealthyLatency,
      Gain, StableRate, MaxTime} \subseteq Nat

ASSUME ObservationAssumption ==
  /\ Observations \subseteq [kind : Kind, latency : Nat]
  /\ Remaining \subseteq Nat /\ Requests \subseteq Nat /\ Floors \subseteq Nat

VARIABLES
  policy,   \* the fields of AdaptivePolicy
  now,      \* the clock
  log       \* history: see LogType

vars == <<policy, now, log>>

Least(a, b)    == IF a <= b THEN a ELSE b
Greatest(a, b) == IF a >= b THEN a ELSE b
Clamp(x, lo, hi) == Least(Greatest(x, lo), hi)

(* Streaks are compared with nothing above this bound. *)
StreakCap == Greatest(RecoveryStreak, HysteresisStreak)
Longer(n) == Least(n + 1, StreakCap)
-----------------------------------------------------------------------------
(* The window *)

Options(S) == SUBSET S
AtMostOne(option) == \A x, y \in option : x = y

Observation == [kind : Kind, latency : Nat, at : Nat]

PolicyType ==
  [workers : Nat, min_workers : Nat,
   window    : Seq(Observation),
   baseline  : Options(Nat),
   latencies : Seq(Nat),                \* baseline_latency_samples
   last_resize : Options(Nat), last_scale_down : Options(Nat),
   reference : Options([anchor : Nat, count : Nat, elapsed : Nat]),
   blocked   : BOOLEAN,                 \* scale_up_blocked
   up : Nat, down : Nat, healthy : Nat] \* the three streaks

NewPolicy ==
  [workers |-> Clamp(StartWorkers, MinWorkers, MaxWorkers),
   min_workers |-> MinWorkers,
   window |-> <<>>, baseline |-> {}, latencies |-> <<>>,
   last_resize |-> {}, last_scale_down |-> {}, reference |-> {},
   blocked |-> FALSE, up |-> 0, down |-> 0, healthy |-> 0]

(* The 90th percentile of the values q[i], i in I. *)
P90(q, I) ==
  LET UpTo(v) == {i \in I : q[i] <= v}
  IN CHOOSE v \in {q[i] : i \in I} :
       /\ 10 * Cardinality(UpTo(v)) >= 9 * Cardinality(I)
       /\ \A w \in {q[i] : i \in I} :
            10 * Cardinality(UpTo(w)) >= 9 * Cardinality(I) => v <= w

Latest(q, n) == IF Len(q) <= n THEN q ELSE SubSeq(q, Len(q) - n + 1, Len(q))

(* evict: the old observations leave at the front, where they are since the  *)
(* clock never goes back.                                                    *)
Evict(q) == Latest(q, Cardinality({i \in DOMAIN q : now - q[i].at <= Window}))

(* record: observation o joins the window, and the baseline until it is set. *)
Record(p, o) ==
  LET window    == Latest(Append(Evict(p.window),
                               [kind |-> o.kind, latency |-> o.latency, at |-> now]),
                        WindowCapacity)
      learns    == p.baseline = {} /\ o.kind = "success" /\ o.latency > 0
      latencies == IF learns THEN Append(p.latencies, o.latency) ELSE p.latencies
      learned   == learns /\ Len(latencies) >= BaselineSamples
  IN [p EXCEPT !.window    = window,
               !.latencies = latencies,
               !.baseline  = IF learned THEN {P90(latencies, DOMAIN latencies)} ELSE @]

(* The indices of the observations of p that are seen now. *)
Seen(p)      == {i \in DOMAIN p.window : now - p.window[i].at <= Window}
Completed(p) == {i \in Seen(p) : p.window[i].kind # "cancelled"}
Successes(p) == {i \in Seen(p) : p.window[i].kind = "success"}
Timeouts(p)  == {i \in Seen(p) : p.window[i].kind = "timeout"}
Latencies(p) == {i \in Successes(p) : p.window[i].latency > 0}
Since(p, a)  == {i \in Completed(p) : p.window[i].at > a}

Current(p) == P90([i \in DOMAIN p.window |-> p.window[i].latency], Latencies(p))

(* The times between two completions seen: the longest is the whole span. *)
Spans(p) == {p.window[j].at - p.window[i].at : i, j \in Completed(p)}

(* throughput_per_second: the completions seen and the time they span. *)
Throughput(p) ==
  {[anchor |-> now, count |-> Cardinality(Completed(p)), elapsed |-> e] :
     e \in {d \in Spans(p) : d > 0 /\ \A x \in Spans(p) : x <= d}}
-----------------------------------------------------------------------------
(* evaluate *)

MayDecide(p) ==
  /\ p.min_workers # MaxWorkers
  /\ Seen(p) # {}
  /\ Cardinality(Completed(p)) >= MinSamples

TimeoutPressure(p) ==
  /\ Successes(p) # {}
  /\ Cardinality(Timeouts(p)) * 100 > TimeoutRate * Cardinality(Completed(p))

LatencyPressure(p) ==
  \E b \in p.baseline :
    LET Degraded(l) == l * 100 > b * Degradation
    IN /\ Latencies(p) # {}
       /\ Degraded(Current(p))
       /\ Cardinality({i \in Latencies(p) : Degraded(p.window[i].latency)})
            >= DegradedSamples

Healthy(p) ==
  \E b \in p.baseline :
    /\ Latencies(p) # {}
    /\ Cardinality(Successes(p)) * 100 >= StableRate * Cardinality(Completed(p))
    /\ Current(p) * 100 <= b * HealthyLatency

(* Mutant: the wait after a downscale is forgotten. *)
MayGrow_NoDwell(p, remaining) ==
  /\ p.workers < MaxWorkers
  /\ remaining >= (p.workers + 1) * WorkPerWorker
  /\ \A a \in p.last_resize : now - a >= Cooldown

MayGrow(p, remaining) ==
  /\ p.workers < MaxWorkers
  /\ remaining >= (p.workers + 1) * WorkPerWorker
  /\ \A a \in p.last_scale_down : now - a >= Dwell
  /\ \A a \in p.last_resize : now - a >= Cooldown

MayShrink(p) ==
  /\ p.workers > p.min_workers
  /\ \A a \in p.last_resize : now - a >= Cooldown

(* The decision: which way the signal points, and whether it asks for a      *)
(* resize.                                                                   *)
Evaluate(p, remaining) ==
  IF ~MayDecide(p) THEN [signal |-> "none", acts |-> FALSE]
  ELSE IF TimeoutPressure(p) \/ LatencyPressure(p)
       THEN [signal |-> "down", acts |-> MayShrink(p)]
  ELSE IF Healthy(p) /\ MayGrow(p, remaining)
       THEN [signal |-> "up", acts |-> p.healthy + 1 >= RecoveryStreak]
  ELSE [signal |-> "none", acts |-> FALSE]
-----------------------------------------------------------------------------
(* apply *)

(* Mutant: epochs blocked by the cooldown count as sustained pressure. *)
Counted_Preloaded(p, d) ==
  [p EXCEPT !.up      = IF d.signal = "up" THEN Longer(@) ELSE 0,
            !.healthy = IF d.signal = "up" THEN Longer(@) ELSE 0,
            !.down    = IF d.signal = "down" THEN Longer(@) ELSE 0]

(* Decision d extends one streak and breaks the others. *)
Counted(p, d) ==
  [p EXCEPT !.up      = IF d.signal = "up" THEN Longer(@) ELSE 0,
            !.healthy = IF d.signal = "up" THEN Longer(@) ELSE 0,
            !.down    = IF d.signal = "down" /\ d.acts THEN Longer(@) ELSE 0]

(* Mutant: a rate that stayed the same is taken for an improvement. *)
NotFaster_Slack(n, e, r) == n * r.elapsed * (100 + Gain) < r.count * 100 * e

(* n completions in time e are no improvement over the rate r. *)
NotFaster(n, e, r) == n * r.elapsed * 100 <= r.count * (100 + Gain) * e

(* Enough completions since the last upscale show that it did not pay. *)
Plateau(p) ==
  \E r \in p.reference :
    LET n == Cardinality(Since(p, r.anchor))
    IN n >= MinSamples /\ now > r.anchor /\ NotFaster(n, now - r.anchor, r)

Grown(p) ==
  [p EXCEPT !.workers     = Least(@ + UpStep, MaxWorkers),
            !.last_resize = {now},
            !.reference   = Throughput(p),
            !.blocked     = Throughput(p) = {},
            !.up = 0, !.down = 0]

Shrunk(p) ==
  [p EXCEPT !.workers = IF @ > p.min_workers + DownStep
                        THEN @ - DownStep ELSE p.min_workers,
            !.last_resize = {now}, !.last_scale_down = {now},
            !.reference = {}, !.blocked = FALSE,
            !.up = 0, !.down = 0, !.healthy = 0]

Apply(p, d) ==
  LET c == Counted(p, d)
  IN IF d.signal = "up" /\ d.acts
     THEN IF c.blocked THEN c
          ELSE IF Plateau(c) THEN [c EXCEPT !.blocked = TRUE]
          ELSE IF c.up >= HysteresisStreak /\ c.workers < MaxWorkers
               THEN Grown(c) ELSE c
     ELSE IF /\ d.signal = "down" /\ d.acts
             /\ c.down >= HysteresisStreak /\ c.workers > c.min_workers
          THEN Shrunk(c) ELSE c
-----------------------------------------------------------------------------
(* set_min_workers and set_workers *)

SetMinWorkers(p, requested) ==
  LET floor == Clamp(requested, 1, MaxWorkers)
  IN IF p.workers < floor
     THEN [p EXCEPT !.min_workers = floor, !.workers = floor,
                    !.reference = {}, !.blocked = FALSE]
     ELSE [p EXCEPT !.min_workers = floor]

SetWorkers(p, requested) ==
  LET w == Clamp(requested, p.min_workers, MaxWorkers)
  IN IF w = p.workers THEN p
     ELSE [p EXCEPT !.workers = w,
                    !.last_resize = {}, !.last_scale_down = {},
                    !.reference = {}, !.blocked = FALSE,
                    !.up = 0, !.down = 0, !.healthy = 0]
-----------------------------------------------------------------------------
(***************************************************************************)
(* History.  log.dir is the direction in which the last step resized by    *)
(* itself, log.resized when that last happened, log.shrunk when the last   *)
(* such resize was a downscale, log.manual when the user last changed the  *)
(* count.  As long as nothing else changed the count since an upscale,     *)
(* log.before is the throughput it was measured against, and log.blind     *)
(* says that there was none.  log.epochs counts the decisions since the    *)
(* cooldown of the last resize.  A manual change starts a new history.     *)
(***************************************************************************)
LogType ==
  [dir : {"none", "up", "down"}, resized : Options(Nat),
   shrunk : Options(Nat), manual : Options(Nat),
   before : Options([anchor : Nat, count : Nat, elapsed : Nat]),
   blind : BOOLEAN, epochs : Nat]

NewLog == [dir |-> "none", resized |-> {}, shrunk |-> {}, manual |-> {},
           before |-> {}, blind |-> FALSE, epochs |-> 0]

(* The log after a join that took policy b, the minimum applied, to a.       *)
LogJoin(b, a) ==
  IF a.workers > b.workers
  THEN [log EXCEPT !.dir = "up", !.resized = {now}, !.shrunk = {},
                   !.before = Throughput(b), !.blind = Throughput(b) = {},
                   !.epochs = 0]
  ELSE IF a.workers < b.workers
  THEN [log EXCEPT !.dir = "down", !.resized = {now}, !.shrunk = {now},
                   !.before = {}, !.blind = FALSE, !.epochs = 0]
  ELSE LET kept == b.workers = policy.workers
       IN [log EXCEPT !.dir    = "none",
                      !.before = IF kept THEN @ ELSE {},
                      !.blind  = kept /\ @,
                      !.epochs = IF \A t \in log.resized : now - t >= Cooldown
                                 THEN Longer(@) ELSE @]

LogManual(b, a) ==
  IF a.workers = b.workers THEN [log EXCEPT !.dir = "none"]
  ELSE [NewLog EXCEPT !.manual = {now}]

Init == policy = NewPolicy /\ now = 0 /\ log = NewLog

(* A measured probe ended and no override is set. *)
JoinAutomatic ==
  /\ \E o \in Observations, floor \in Floors, remaining \in Remaining :
       LET b == SetMinWorkers(Record(policy, o), floor)
           a == Apply(b, Evaluate(b, remaining))
       IN policy' = a /\ log' = LogJoin(b, a)
  /\ UNCHANGED now

(* A measured probe ended and an override is set. *)
JoinManual ==
  /\ \E o \in Observations, w \in Requests :
       LET b == Record(policy, o)
           a == SetWorkers(b, w)
       IN policy' = a /\ log' = LogManual(b, a)
  /\ UNCHANGED now

(* The head of the scheduler's loop applies an override. *)
Override ==
  /\ \E w \in Requests :
       LET a == SetWorkers(policy, w)
       IN policy' = a /\ log' = LogManual(policy, a)
  /\ UNCHANGED now

Tick ==
  /\ now < MaxTime
  /\ now' = now + 1
  /\ log' = [log EXCEPT !.dir = "none"]
  /\ UNCHANGED policy

Next == JoinAutomatic \/ JoinManual \/ Override \/ Tick

Spec == Init /\ [][Next]_vars
-----------------------------------------------------------------------------
TypeOK ==
  /\ policy \in PolicyType
  /\ \A option \in {policy.baseline, policy.last_resize, policy.last_scale_down} :
       AtMostOne(option)
  /\ AtMostOne(policy.reference)
  /\ now \in 0..MaxTime
  /\ log \in LogType

(* The count never leaves the bounds, the live minimum included, whatever    *)
(* mix of resizes, overrides and changes of the minimum came before.         *)
WorkersInBounds ==
  /\ 1 <= policy.min_workers /\ policy.min_workers <= policy.workers
  /\ policy.workers <= MaxWorkers

(* Two resizes of the controller's own are at least the cooldown apart, and  *)
(* the second follows a full streak of decisions taken after the cooldown:   *)
(* what happened while it lasted does not count towards the next resize.     *)
ResizesApart ==
  [][log'.dir # "none" =>
       \A t \in log.resized :
         now - t >= Cooldown /\ log.epochs + 1 >= HysteresisStreak]_vars

(* After a downscale the pool grows again only when the dwell has passed and *)
(* enough decisions were taken.                                              *)
RecoveryEarned ==
  [][log'.dir = "up" =>
       \A t \in log.shrunk :
         now - t >= Dwell /\ log.epochs + 1 >= RecoveryStreak]_vars

(* An upscale follows another only when the rate before the first one was    *)
(* measured, and never on a plateau: when there were enough completions      *)
(* since, their rate exceeds the rate before by more than the gain.  A       *)
(* minimum raised above the count at this very join starts over, as a        *)
(* change of the count by the user does (adaptive.rs:277).                   *)
NoBlindRamp ==
  [][log'.dir = "up" /\ policy'.min_workers <= policy.workers =>
       /\ ~log.blind
       /\ \A r \in log.before :
            LET n == Cardinality(Since(policy', r.anchor))
            IN n >= MinSamples =>
                 n * r.elapsed * 100 > r.count * (100 + Gain) * (now - r.anchor)
    ]_vars

(* set_workers: "Manual changes invalidate measurements and hysteresis       *)
(* accumulated for the old worker count, so automatic control resumes from a *)
(* clean baseline."  No resize rests on a window that is older.              *)
FreshEvidence ==
  log.dir # "none" =>
    \A t \in log.manual : \A i \in Seen(policy) : policy.window[i].at >= t
=============================================================================
