------------------------ MODULE PoolAndSweepProofs ------------------------
(***************************************************************************)
(* What bounds the work a scan does at once, and what it is done on.       *)
(*                                                                         *)
(* Theorems about AdaptivePolicy, for any tuning values, any probe         *)
(* outcomes, any requests of the user and any live minimum.  The inductive *)
(* invariant says that the streaks of the policy are never longer than the *)
(* number of decisions taken since the last cooldown, and that the policy  *)
(* remembers its own resizes until the user changes the count.  A second   *)
(* one, RInv, follows the rate that an upscale has to beat.                *)
(*                                                                         *)
(* Theorems about Sweep, for any lists of networks, any servers, any       *)
(* machine and any sizes of the windows.  The inductive invariant, SInv,   *)
(* relates the enumerator to the set of the addresses it has passed: each  *)
(* of them is counted or under way, once.                                  *)
(***************************************************************************)
EXTENDS AdaptivePolicy, Sweep, FiniteSetTheorems, SequenceTheorems, TLAPS

PolicyFields ==
  {"workers", "min_workers", "window", "baseline", "latencies", "last_resize",
   "last_scale_down", "reference", "blocked", "up", "down", "healthy"}

LogFields == {"dir", "resized", "shrunk", "manual", "before", "blind", "epochs"}

BoundsOK(p) ==
  /\ p.min_workers \in Nat /\ p.workers \in Nat
  /\ 1 <= p.min_workers /\ p.min_workers <= p.workers
  /\ p.workers <= MaxWorkers

StreaksOK(p, resized, shrunk, epochs) ==
  /\ p.up \in Nat /\ p.down \in Nat /\ p.healthy \in Nat /\ epochs \in Nat
  /\ p.last_resize = resized
  /\ resized # {} => p.up <= epochs /\ p.down <= epochs
  /\ shrunk # {} => p.last_scale_down = shrunk /\ p.healthy <= epochs

IInv ==
  /\ DOMAIN policy = PolicyFields
  /\ DOMAIN log = LogFields
  /\ BoundsOK(policy)
  /\ StreaksOK(policy, log.resized, log.shrunk, log.epochs)
-----------------------------------------------------------------------------
(* What the operations do to the fields the invariant is about *)

(* b keeps the fields of p that count the decisions. *)
SameStreaks(p, b) ==
  /\ b.last_resize = p.last_resize /\ b.last_scale_down = p.last_scale_down
  /\ b.up = p.up /\ b.down = p.down /\ b.healthy = p.healthy

LEMMA ParameterFact ==
  /\ MaxWorkers \in Nat /\ MaxWorkers >= 1 /\ MinWorkers \in Nat /\ MinWorkers >= 1
  /\ StartWorkers \in Nat /\ MinWorkers <= StartWorkers /\ StartWorkers <= MaxWorkers
  /\ RecoveryStreak \in Nat /\ HysteresisStreak \in Nat
  /\ UpStep \in Nat /\ UpStep >= 1 /\ DownStep \in Nat /\ DownStep >= 1
BY PolicyAssumption

LEMMA LongerFact == \A n \in Nat : Longer(n) \in Nat /\ Longer(n) <= n + 1
BY ParameterFact DEF Longer, Least, StreakCap, Greatest

LEMMA LongerMonotone == \A m, n \in Nat : m <= n => Longer(m) <= Longer(n)
BY ParameterFact DEF Longer, Least, StreakCap, Greatest

LEMMA ClampFact ==
  ASSUME NEW x \in Nat, NEW lo \in Nat, NEW hi \in Nat, lo <= hi
  PROVE  /\ Clamp(x, lo, hi) \in Nat
         /\ lo <= Clamp(x, lo, hi) /\ Clamp(x, lo, hi) <= hi
BY DEF Clamp, Least, Greatest

LEMMA RecordFact ==
  ASSUME NEW p, DOMAIN p = PolicyFields, NEW o
  PROVE  LET b == Record(p, o)
         IN /\ DOMAIN b = PolicyFields /\ SameStreaks(p, b)
            /\ b.workers = p.workers /\ b.min_workers = p.min_workers
BY DEF Record, PolicyFields, SameStreaks

LEMMA SetMinWorkersFact ==
  ASSUME NEW p, DOMAIN p = PolicyFields, BoundsOK(p), NEW floor \in Nat
  PROVE  LET b == SetMinWorkers(p, floor)
         IN DOMAIN b = PolicyFields /\ SameStreaks(p, b) /\ BoundsOK(b)
<1> DEFINE f == Clamp(floor, 1, MaxWorkers)
<1>1. f \in Nat /\ 1 <= f /\ f <= MaxWorkers
  BY ClampFact, ParameterFact
<1> HIDE DEF f
<1>2. CASE p.workers < f
  <2> DEFINE b == [p EXCEPT !.min_workers = f, !.workers = f,
                            !.reference = {}, !.blocked = FALSE]
  <2>1. SetMinWorkers(p, floor) = b
    BY <1>2 DEF SetMinWorkers, f
  <2>2. /\ DOMAIN b = PolicyFields /\ SameStreaks(p, b)
        /\ b.workers = f /\ b.min_workers = f
    BY DEF PolicyFields, SameStreaks
  <2> HIDE DEF b
  <2>3. BoundsOK(b)
    BY <1>1, <2>2 DEF BoundsOK
  <2>4. QED
    BY <2>1, <2>2, <2>3
<1>3. CASE ~(p.workers < f)
  <2> DEFINE b == [p EXCEPT !.min_workers = f]
  <2>1. SetMinWorkers(p, floor) = b
    BY <1>3 DEF SetMinWorkers, f
  <2>2. /\ DOMAIN b = PolicyFields /\ SameStreaks(p, b)
        /\ b.workers = p.workers /\ b.min_workers = f
    BY DEF PolicyFields, SameStreaks
  <2> HIDE DEF b
  <2>3. BoundsOK(b)
    BY <1>1, <1>3, <2>2 DEF BoundsOK
  <2>4. QED
    BY <2>1, <2>2, <2>3
<1>4. QED
  BY <1>2, <1>3

LEMMA SetWorkersFact ==
  ASSUME NEW p, DOMAIN p = PolicyFields, BoundsOK(p), NEW w \in Nat
  PROVE  LET a == SetWorkers(p, w)
         IN /\ DOMAIN a = PolicyFields /\ BoundsOK(a)
            /\ \/ a = p
               \/ /\ a.workers # p.workers /\ a.last_resize = {}
                  /\ a.up = 0 /\ a.down = 0 /\ a.healthy = 0
<1> DEFINE c == Clamp(w, p.min_workers, MaxWorkers)
<1>1. c \in Nat /\ p.min_workers <= c /\ c <= MaxWorkers
  <2>1. p.min_workers \in Nat /\ p.min_workers <= MaxWorkers /\ MaxWorkers \in Nat
    BY ParameterFact DEF BoundsOK
  <2>2. QED
    BY <2>1, ClampFact
<1> HIDE DEF c
<1>2. CASE c = p.workers
  BY <1>2 DEF SetWorkers, c
<1>3. CASE c # p.workers
  <2> DEFINE a == [p EXCEPT !.workers = c,
                    !.last_resize = {}, !.last_scale_down = {},
                    !.reference = {}, !.blocked = FALSE,
                    !.up = 0, !.down = 0, !.healthy = 0]
  <2>1. SetWorkers(p, w) = a
    BY <1>3 DEF SetWorkers, c
  <2>2. /\ DOMAIN a = PolicyFields /\ a.last_resize = {}
        /\ a.workers = c /\ a.min_workers = p.min_workers
        /\ a.up = 0 /\ a.down = 0 /\ a.healthy = 0
    BY DEF PolicyFields
  <2> HIDE DEF a
  <2>3. BoundsOK(a)
    BY <1>1, <2>2 DEF BoundsOK
  <2>4. QED
    BY <1>3, <2>1, <2>2, <2>3
<1>4. QED
  BY <1>2, <1>3

LEMMA CountedFact ==
  ASSUME NEW p, DOMAIN p = PolicyFields, NEW d
  PROVE  LET c == Counted(p, d)
         IN /\ DOMAIN c = PolicyFields
            /\ c.workers = p.workers /\ c.min_workers = p.min_workers
            /\ c.last_resize = p.last_resize
            /\ c.last_scale_down = p.last_scale_down
            /\ c.up = IF d.signal = "up" THEN Longer(p.up) ELSE 0
            /\ c.healthy = IF d.signal = "up" THEN Longer(p.healthy) ELSE 0
            /\ c.down = IF d.signal = "down" /\ d.acts THEN Longer(p.down) ELSE 0
<1> DEFINE u == IF d.signal = "up" THEN Longer(p.up) ELSE 0
           h == IF d.signal = "up" THEN Longer(p.healthy) ELSE 0
           w == IF d.signal = "down" /\ d.acts THEN Longer(p.down) ELSE 0
           c == [p EXCEPT !.up = u, !.healthy = h, !.down = w]
<1>1. Counted(p, d) = c
  BY DEF Counted
<1> HIDE DEF u, h, w
<1>2. /\ DOMAIN c = PolicyFields
      /\ c.workers = p.workers /\ c.min_workers = p.min_workers
      /\ c.last_resize = p.last_resize /\ c.last_scale_down = p.last_scale_down
      /\ c.up = u /\ c.healthy = h /\ c.down = w
  BY DEF PolicyFields
<1> HIDE DEF c
<1>3. QED
  BY <1>1, <1>2 DEF u, h, w

LEMMA GrownFact ==
  ASSUME NEW p, DOMAIN p = PolicyFields, BoundsOK(p), p.workers < MaxWorkers
  PROVE  LET a == Grown(p)
         IN /\ DOMAIN a = PolicyFields /\ BoundsOK(a) /\ a.workers > p.workers
            /\ a.last_resize = {now} /\ a.last_scale_down = p.last_scale_down
            /\ a.up = 0 /\ a.down = 0 /\ a.healthy = p.healthy
<1> DEFINE a == Grown(p)
<1>1. /\ DOMAIN a = PolicyFields
      /\ a.workers = Least(p.workers + UpStep, MaxWorkers)
      /\ a.min_workers = p.min_workers
      /\ a.last_resize = {now} /\ a.last_scale_down = p.last_scale_down
      /\ a.up = 0 /\ a.down = 0 /\ a.healthy = p.healthy
  BY DEF Grown, PolicyFields
<1> HIDE DEF a
<1>2. BoundsOK(a) /\ a.workers > p.workers
  BY <1>1, ParameterFact DEF BoundsOK, Least
<1>3. QED
  BY <1>1, <1>2 DEF a

LEMMA ShrunkFact ==
  ASSUME NEW p, DOMAIN p = PolicyFields, BoundsOK(p), p.workers > p.min_workers
  PROVE  LET a == Shrunk(p)
         IN /\ DOMAIN a = PolicyFields /\ BoundsOK(a) /\ a.workers < p.workers
            /\ a.last_resize = {now} /\ a.last_scale_down = {now}
            /\ a.up = 0 /\ a.down = 0 /\ a.healthy = 0
<1> DEFINE a == Shrunk(p)
<1>1. /\ DOMAIN a = PolicyFields
      /\ a.workers = IF p.workers > p.min_workers + DownStep
                     THEN p.workers - DownStep ELSE p.min_workers
      /\ a.min_workers = p.min_workers
      /\ a.last_resize = {now} /\ a.last_scale_down = {now}
      /\ a.up = 0 /\ a.down = 0 /\ a.healthy = 0
  BY DEF Shrunk, PolicyFields
<1> HIDE DEF a
<1>2. BoundsOK(a) /\ a.workers < p.workers
  BY <1>1, ParameterFact DEF BoundsOK
<1>3. QED
  BY <1>1, <1>2 DEF a

(* evaluate signals up, or asks for a downscale, only outside the cooldown;  *)
(* it asks for an upscale only after the dwell and a streak of decisions.    *)
LEMMA EvaluateFact ==
  ASSUME NEW p, NEW remaining
  PROVE  LET d == Evaluate(p, remaining)
         IN /\ d.signal = "up" =>
                 /\ \A t \in p.last_resize : now - t >= Cooldown
                 /\ \A t \in p.last_scale_down : now - t >= Dwell
            /\ d.signal = "up" /\ d.acts => p.healthy + 1 >= RecoveryStreak
            /\ d.signal = "down" /\ d.acts =>
                 \A t \in p.last_resize : now - t >= Cooldown
<1>1. CASE ~MayDecide(p)
  BY <1>1 DEF Evaluate
<1>2. CASE MayDecide(p) /\ (TimeoutPressure(p) \/ LatencyPressure(p))
  BY <1>2 DEF Evaluate, MayShrink
<1>3. CASE /\ MayDecide(p) /\ ~(TimeoutPressure(p) \/ LatencyPressure(p))
           /\ Healthy(p) /\ MayGrow(p, remaining)
  BY <1>3 DEF Evaluate, MayGrow
<1>4. CASE /\ MayDecide(p) /\ ~(TimeoutPressure(p) \/ LatencyPressure(p))
           /\ ~(Healthy(p) /\ MayGrow(p, remaining))
  BY <1>4 DEF Evaluate
<1>5. QED
  BY <1>1, <1>2, <1>3, <1>4

(* apply resizes in the direction of the signal once the streak is long      *)
(* enough, and otherwise only counts.                                        *)
LEMMA ApplyFact ==
  ASSUME NEW p, DOMAIN p = PolicyFields, BoundsOK(p), NEW d
  PROVE  LET a == Apply(p, d)
             c == Counted(p, d)
         IN /\ DOMAIN a = PolicyFields /\ BoundsOK(a)
            /\ \/ /\ d.signal = "up" /\ d.acts
                  /\ c.up >= HysteresisStreak /\ a.workers > p.workers
                  /\ a.last_resize = {now}
                  /\ a.last_scale_down = p.last_scale_down
                  /\ a.up = 0 /\ a.down = 0 /\ a.healthy = c.healthy
               \/ /\ d.signal = "down" /\ d.acts
                  /\ c.down >= HysteresisStreak /\ a.workers < p.workers
                  /\ a.last_resize = {now} /\ a.last_scale_down = {now}
                  /\ a.up = 0 /\ a.down = 0 /\ a.healthy = 0
               \/ /\ a.workers = p.workers
                  /\ SameStreaks(c, a)
<1> DEFINE a == Apply(p, d)
           c == Counted(p, d)
<1>1. /\ DOMAIN c = PolicyFields /\ c.workers = p.workers
      /\ c.min_workers = p.min_workers /\ c.last_scale_down = p.last_scale_down
  BY CountedFact
<1>2. BoundsOK(c)
  BY <1>1 DEF BoundsOK
<1> HIDE DEF c
<1>3. CASE a = Grown(c) /\ d.signal = "up" /\ d.acts
           /\ c.up >= HysteresisStreak /\ c.workers < MaxWorkers
  BY <1>1, <1>2, <1>3, GrownFact DEF c
<1>4. CASE a = Shrunk(c) /\ d.signal = "down" /\ d.acts
           /\ c.down >= HysteresisStreak /\ c.workers > c.min_workers
  BY <1>1, <1>2, <1>4, ShrunkFact DEF c
<1>5. CASE a = c
  BY <1>1, <1>2, <1>5 DEF SameStreaks, c
<1>6. CASE a = [c EXCEPT !.blocked = TRUE]
  <2> DEFINE e == [c EXCEPT !.blocked = TRUE]
  <2>1. /\ DOMAIN e = PolicyFields /\ SameStreaks(c, e)
        /\ e.workers = c.workers /\ e.min_workers = c.min_workers
    BY <1>1 DEF PolicyFields, SameStreaks
  <2>2. a = e
    BY <1>6
  <2> HIDE DEF e, a
  <2>3. BoundsOK(e)
    BY <1>2, <2>1 DEF BoundsOK
  <2>4. QED
    BY <1>1, <2>1, <2>2, <2>3 DEF a, c
<1>7. QED
  BY <1>3, <1>4, <1>5, <1>6 DEF Apply, c
-----------------------------------------------------------------------------
(* The steps *)

(* What a join without override does to the policy and the log. *)
LEMMA JoinFact ==
  ASSUME IInv, JoinAutomatic
  PROVE  /\ IInv'
         /\ log'.dir # "none" =>
              \A t \in log.resized :
                now - t >= Cooldown /\ log.epochs + 1 >= HysteresisStreak
         /\ log'.dir = "up" =>
              \A t \in log.shrunk :
                now - t >= Dwell /\ log.epochs + 1 >= RecoveryStreak
<1>1. PICK o \in Observations, floor \in Floors, remaining \in Remaining :
        LET b == SetMinWorkers(Record(policy, o), floor)
            a == Apply(b, Evaluate(b, remaining))
        IN policy' = a /\ log' = LogJoin(b, a)
  BY DEF JoinAutomatic
<1> DEFINE r == Record(policy, o)
           b == SetMinWorkers(r, floor)
           d == Evaluate(b, remaining)
           c == Counted(b, d)
           a == Apply(b, d)
<1>2. policy' = a /\ log' = LogJoin(b, a)
  BY <1>1
<1>3. /\ DOMAIN policy = PolicyFields /\ DOMAIN log = LogFields /\ BoundsOK(policy)
      /\ StreaksOK(policy, log.resized, log.shrunk, log.epochs)
  BY DEF IInv
<1>4. /\ DOMAIN r = PolicyFields /\ SameStreaks(policy, r)
      /\ r.workers = policy.workers /\ r.min_workers = policy.min_workers
  BY <1>3, RecordFact
<1> HIDE DEF r
<1>5. BoundsOK(r)
  BY <1>3, <1>4 DEF BoundsOK
<1>6. floor \in Nat
  BY ObservationAssumption
<1>7. DOMAIN b = PolicyFields /\ SameStreaks(r, b) /\ BoundsOK(b)
  BY <1>4, <1>5, <1>6, SetMinWorkersFact
<1> HIDE DEF b
<1>8. /\ b.last_resize = log.resized /\ b.up \in Nat /\ b.down \in Nat
      /\ b.healthy \in Nat /\ log.epochs \in Nat
      /\ log.resized # {} => b.up <= log.epochs /\ b.down <= log.epochs
      /\ log.shrunk # {} =>
           b.last_scale_down = log.shrunk /\ b.healthy <= log.epochs
  BY <1>3, <1>4, <1>7 DEF StreaksOK, SameStreaks
<1>9. /\ d.signal = "up" =>
           /\ \A t \in log.resized : now - t >= Cooldown
           /\ \A t \in b.last_scale_down : now - t >= Dwell
      /\ d.signal = "up" /\ d.acts => b.healthy + 1 >= RecoveryStreak
      /\ d.signal = "down" /\ d.acts =>
           \A t \in log.resized : now - t >= Cooldown
  BY <1>8, EvaluateFact
<1> HIDE DEF d
<1>10. /\ c.last_resize = log.resized /\ c.last_scale_down = b.last_scale_down
       /\ c.up = IF d.signal = "up" THEN Longer(b.up) ELSE 0
       /\ c.healthy = IF d.signal = "up" THEN Longer(b.healthy) ELSE 0
       /\ c.down = IF d.signal = "down" /\ d.acts THEN Longer(b.down) ELSE 0
  BY <1>7, <1>8, CountedFact
<1>11. /\ DOMAIN a = PolicyFields /\ BoundsOK(a)
       /\ \/ /\ d.signal = "up" /\ d.acts
             /\ c.up >= HysteresisStreak /\ a.workers > b.workers
             /\ a.last_resize = {now} /\ a.last_scale_down = b.last_scale_down
             /\ a.up = 0 /\ a.down = 0 /\ a.healthy = c.healthy
          \/ /\ d.signal = "down" /\ d.acts
             /\ c.down >= HysteresisStreak /\ a.workers < b.workers
             /\ a.last_resize = {now} /\ a.last_scale_down = {now}
             /\ a.up = 0 /\ a.down = 0 /\ a.healthy = 0
          \/ a.workers = b.workers /\ SameStreaks(c, a)
  BY <1>7, ApplyFact
<1>12. a.workers \in Nat /\ b.workers \in Nat
  BY <1>7, <1>11 DEF BoundsOK
<1>13. c.up \in Nat /\ c.down \in Nat /\ c.healthy \in Nat
  BY <1>8, <1>10, LongerFact
<1> HIDE DEF a, c
<1>14. CASE /\ d.signal = "up" /\ d.acts
            /\ c.up >= HysteresisStreak /\ a.workers > b.workers
            /\ a.last_resize = {now}
            /\ a.up = 0 /\ a.down = 0 /\ a.healthy = c.healthy
  <2>1. /\ DOMAIN log' = LogFields /\ log'.dir = "up" /\ log'.resized = {now}
        /\ log'.shrunk = {} /\ log'.epochs = 0
    BY <1>2, <1>3, <1>14 DEF LogJoin, LogFields
  <2>2. IInv'
    BY <1>2, <1>11, <1>13, <1>14, <2>1 DEF IInv, StreaksOK
  <2>3. b.up + 1 >= HysteresisStreak
    BY <1>8, <1>10, <1>13, <1>14, LongerFact, ParameterFact
  <2>4. QED
    BY <1>8, <1>9, <1>14, <2>1, <2>2, <2>3, ParameterFact
<1>15. CASE /\ d.signal = "down" /\ d.acts
            /\ c.down >= HysteresisStreak /\ a.workers < b.workers
            /\ a.last_resize = {now} /\ a.last_scale_down = {now}
            /\ a.up = 0 /\ a.down = 0 /\ a.healthy = 0
  <2>1. ~(a.workers > b.workers)
    BY <1>12, <1>15
  <2>2. /\ DOMAIN log' = LogFields /\ log'.dir = "down" /\ log'.resized = {now}
        /\ log'.shrunk = {now} /\ log'.epochs = 0
    BY <1>2, <1>3, <1>15, <2>1 DEF LogJoin, LogFields
  <2>3. IInv'
    BY <1>2, <1>11, <1>15, <2>2 DEF IInv, StreaksOK
  <2>4. b.down + 1 >= HysteresisStreak
    BY <1>8, <1>10, <1>13, <1>15, LongerFact, ParameterFact
  <2>5. QED
    BY <1>8, <1>9, <1>15, <2>2, <2>3, <2>4, ParameterFact
<1>16. CASE a.workers = b.workers /\ SameStreaks(c, a)
  <2> DEFINE cooled == \A t \in log.resized : now - t >= Cooldown
             epochs == IF cooled THEN Longer(log.epochs) ELSE log.epochs
  <2>1. ~(a.workers > b.workers) /\ ~(a.workers < b.workers)
    BY <1>12, <1>16
  <2>2. /\ DOMAIN log' = LogFields /\ log'.dir = "none"
        /\ log'.resized = log.resized /\ log'.shrunk = log.shrunk
        /\ log'.epochs = epochs
    BY <1>2, <1>3, <2>1 DEF LogJoin, LogFields
  <2>3. epochs \in Nat
    BY <1>8, LongerFact
  <2>4. log.resized # {} => c.up <= epochs /\ c.down <= epochs
    <3>1. CASE cooled
      BY <1>8, <1>10, <2>3, <3>1, LongerMonotone
    <3>2. CASE ~cooled
      BY <1>8, <1>9, <1>10, <2>3, <3>2
    <3>3. QED
      BY <3>1, <3>2
  <2>5. log.shrunk # {} => c.healthy <= epochs
    <3>1. CASE cooled
      BY <1>8, <1>10, <2>3, <3>1, LongerMonotone
    <3>2. CASE ~cooled
      BY <1>8, <1>9, <1>10, <2>3, <3>2
    <3>3. QED
      BY <3>1, <3>2
  <2> HIDE DEF epochs
  <2>6. StreaksOK(a, log.resized, log.shrunk, epochs)
    BY <1>8, <1>10, <1>13, <1>16, <2>3, <2>4, <2>5 DEF StreaksOK, SameStreaks
  <2>7. IInv'
    BY <1>2, <1>11, <2>2, <2>6 DEF IInv
  <2>8. QED
    BY <2>2, <2>7
<1>17. QED
  BY <1>11, <1>14, <1>15, <1>16

(* A manual change forgets the resizes, on both sides. *)
LEMMA ManualFact ==
  ASSUME IInv, NEW b, NEW w \in Nat, DOMAIN b = PolicyFields, BoundsOK(b),
         SameStreaks(policy, b),
         policy' = SetWorkers(b, w), log' = LogManual(b, SetWorkers(b, w))
  PROVE  IInv' /\ log'.dir = "none"
<1> DEFINE a == SetWorkers(b, w)
<1>1. /\ DOMAIN a = PolicyFields /\ BoundsOK(a)
      /\ \/ a = b
         \/ /\ a.workers # b.workers /\ a.last_resize = {}
            /\ a.up = 0 /\ a.down = 0 /\ a.healthy = 0
  BY SetWorkersFact
<1>2. policy' = a /\ log' = LogManual(b, a)
  OBVIOUS
<1> HIDE DEF a
<1>3. CASE a = b
  <2>1. /\ DOMAIN log' = LogFields /\ log'.dir = "none"
        /\ log'.resized = log.resized /\ log'.shrunk = log.shrunk
        /\ log'.epochs = log.epochs
    BY <1>2, <1>3 DEF LogManual, IInv, LogFields
  <2>2. StreaksOK(a, log.resized, log.shrunk, log.epochs)
    BY <1>3 DEF IInv, StreaksOK, SameStreaks
  <2>3. QED
    BY <1>1, <1>2, <2>1, <2>2 DEF IInv
<1>4. CASE /\ a.workers # b.workers /\ a.last_resize = {}
           /\ a.up = 0 /\ a.down = 0 /\ a.healthy = 0
  <2>1. /\ DOMAIN log' = LogFields /\ log'.dir = "none"
        /\ log'.resized = {} /\ log'.shrunk = {} /\ log'.epochs = 0
    BY <1>2, <1>4 DEF LogManual, NewLog, LogFields
  <2>2. StreaksOK(a, {}, {}, 0)
    BY <1>4 DEF StreaksOK
  <2>3. QED
    BY <1>1, <1>2, <2>1, <2>2 DEF IInv
<1>5. QED
  BY <1>1, <1>3, <1>4

LEMMA InitFact == Init => IInv
<1> SUFFICES ASSUME Init PROVE IInv
  OBVIOUS
<1>1. /\ DOMAIN policy = PolicyFields /\ policy.min_workers = MinWorkers
      /\ policy.workers = Clamp(StartWorkers, MinWorkers, MaxWorkers)
      /\ policy.last_resize = {} /\ policy.up = 0 /\ policy.down = 0
      /\ policy.healthy = 0
  BY DEF Init, NewPolicy, PolicyFields
<1>2. /\ DOMAIN log = LogFields /\ log.resized = {} /\ log.shrunk = {}
      /\ log.epochs = 0
  BY DEF Init, NewLog, LogFields
<1>3. MinWorkers <= MaxWorkers
  BY ParameterFact
<1>4. Clamp(StartWorkers, MinWorkers, MaxWorkers) \in MinWorkers..MaxWorkers
  BY <1>3, ParameterFact, ClampFact
<1>5. BoundsOK(policy)
  BY <1>1, <1>4, ParameterFact DEF BoundsOK
<1>6. QED
  BY <1>1, <1>2, <1>5 DEF IInv, StreaksOK

LEMMA NextFact ==
  ASSUME IInv, [Next]_vars
  PROVE  /\ IInv'
         /\ log'.dir # "none" /\ vars' # vars =>
              \A t \in log.resized :
                now - t >= Cooldown /\ log.epochs + 1 >= HysteresisStreak
         /\ log'.dir = "up" /\ vars' # vars =>
              \A t \in log.shrunk :
                now - t >= Dwell /\ log.epochs + 1 >= RecoveryStreak
<1>1. CASE JoinAutomatic
  BY <1>1, JoinFact
<1>2. CASE JoinManual
  <2>1. PICK o \in Observations, w \in Requests :
          /\ policy' = SetWorkers(Record(policy, o), w)
          /\ log' = LogManual(Record(policy, o), SetWorkers(Record(policy, o), w))
    BY <1>2 DEF JoinManual
  <2> DEFINE b == Record(policy, o)
  <2>2. /\ DOMAIN b = PolicyFields /\ SameStreaks(policy, b)
        /\ b.workers = policy.workers /\ b.min_workers = policy.min_workers
    BY RecordFact DEF IInv
  <2> HIDE DEF b
  <2>3. BoundsOK(b)
    BY <2>2 DEF IInv, BoundsOK
  <2>4. policy' = SetWorkers(b, w) /\ log' = LogManual(b, SetWorkers(b, w))
    BY <2>1 DEF b
  <2>5. w \in Nat
    BY ObservationAssumption
  <2>6. QED
    BY <2>2, <2>3, <2>4, <2>5, ManualFact
<1>3. CASE Override
  <2>1. PICK w \in Requests :
          /\ policy' = SetWorkers(policy, w)
          /\ log' = LogManual(policy, SetWorkers(policy, w))
    BY <1>3 DEF Override
  <2>2. w \in Nat
    BY ObservationAssumption
  <2>3. SameStreaks(policy, policy) /\ DOMAIN policy = PolicyFields /\ BoundsOK(policy)
    BY DEF SameStreaks, IInv
  <2>4. QED
    BY <2>1, <2>2, <2>3, ManualFact
<1>4. CASE Tick
  <2>1. /\ DOMAIN log' = LogFields /\ log'.dir = "none"
        /\ log'.resized = log.resized /\ log'.shrunk = log.shrunk
        /\ log'.epochs = log.epochs /\ policy' = policy
    BY <1>4 DEF Tick, IInv, LogFields
  <2>2. QED
    BY <2>1 DEF IInv
<1>5. CASE UNCHANGED vars
  BY <1>5 DEF vars, IInv
<1>6. QED
  BY <1>1, <1>2, <1>3, <1>4, <1>5 DEF Next

(* The invariant holds in every state. *)
THEOREM PolicyInvariance == Spec => []IInv
<1>1. QED
  BY InitFact, NextFact, PTL DEF Spec

(* The count stays between the live minimum and the maximum, whatever mix of *)
(* resizes, overrides and changes of the minimum came before.                *)
THEOREM WorkersStayInBounds == Spec => []WorkersInBounds
<1>1. IInv => WorkersInBounds
  BY DEF IInv, BoundsOK, WorkersInBounds
<1>2. QED
  BY <1>1, PolicyInvariance, PTL

(* The controller never resizes twice within a cooldown, and what happened   *)
(* during a cooldown does not count towards the streak of the next resize.   *)
THEOREM ResizesStayApart == Spec => ResizesApart
<1>1. IInv /\ [Next]_vars =>
        [log'.dir # "none" =>
           \A t \in log.resized :
             now - t >= Cooldown /\ log.epochs + 1 >= HysteresisStreak]_vars
  BY NextFact
<1>2. QED
  BY <1>1, PolicyInvariance, PTL DEF Spec, ResizesApart

(* The pool grows again only when the dwell after a downscale has passed and *)
(* a recovery streak of decisions was taken.                                 *)
THEOREM RecoveryIsEarned == Spec => RecoveryEarned
<1>1. IInv /\ [Next]_vars =>
        [log'.dir = "up" =>
           \A t \in log.shrunk :
             now - t >= Dwell /\ log.epochs + 1 >= RecoveryStreak]_vars
  BY NextFact
<1>2. QED
  BY <1>1, PolicyInvariance, PTL DEF Spec, RecoveryEarned
-----------------------------------------------------------------------------
(* The ramp.  Since an upscale, as long as nothing else changed the count,   *)
(* the policy has the rate before it as its reference, or is blocked.        *)

Rate == [anchor : Nat, count : Nat, elapsed : Nat]

Past(q) == q \in Seq(Observation) /\ \A i \in DOMAIN q : q[i].at <= now

Gated(p, before, blind) ==
  p.blocked = FALSE => blind = FALSE /\ \A r \in before : r \in p.reference

RInv ==
  /\ now \in Nat
  /\ Past(policy.window) /\ policy.blocked \in BOOLEAN
  /\ log.blind \in BOOLEAN /\ \A r \in log.before : r \in Rate
  /\ Gated(policy, log.before, log.blind)

LEMMA LastFact ==
  ASSUME NEW q, Past(q), NEW n \in Nat
  PROVE  Past(Latest(q, n))
<1>1. q \in Seq(Observation) /\ Len(q) \in Nat /\ DOMAIN q = 1..Len(q)
  BY DEF Past
<1>2. CASE Len(q) <= n
  BY <1>2 DEF Latest
<1>3. CASE ~(Len(q) <= n)
  <2> DEFINE m == Len(q) - n + 1
             e == SubSeq(q, m, Len(q))
  <2>1. m \in Nat /\ 1 <= m /\ m <= Len(q) + 1
    BY <1>1, <1>3
  <2>2. Latest(q, n) = e
    BY <1>3 DEF Latest
  <2>3. CASE m = Len(q) + 1
    <3>1. e = <<>>
      BY <1>1, <2>1, <2>3, SubSeqEmpty
    <3>2. <<>> \in Seq(Observation) /\ DOMAIN <<>> = {}
      OBVIOUS
    <3>3. Past(<<>>)
      BY <3>2 DEF Past
    <3>. QED
      BY <2>2, <3>1, <3>3
  <2>4. CASE m <= Len(q)
    <3> HIDE DEF m
    <3>1. /\ e \in Seq(Observation) /\ Len(e) = Len(q) - m + 1
          /\ \A i \in 1..Len(q) - m + 1 : e[i] = q[m + i - 1]
      BY <1>1, <2>1, <2>4, SubSeqProperties
    <3> HIDE DEF e
    <3>2. \A i \in DOMAIN e : m + i - 1 \in DOMAIN q /\ e[i] = q[m + i - 1]
      BY <1>1, <2>1, <2>4, <3>1
    <3>3. Past(e)
      BY <3>1, <3>2 DEF Past
    <3>. QED
      BY <2>2, <3>3
  <2>. QED
    BY <1>1, <2>1, <2>3, <2>4
<1>. QED
  BY <1>1, <1>2, <1>3

LEMMA RecordRamp ==
  ASSUME NEW p, DOMAIN p = PolicyFields, now \in Nat, Past(p.window), NEW o \in Observations
  PROVE  LET b == Record(p, o)
         IN Past(b.window) /\ b.reference = p.reference /\ b.blocked = p.blocked
<1> DEFINE b == Record(p, o)
           S == {i \in DOMAIN p.window : now - p.window[i].at <= Window}
           e == [kind |-> o.kind, latency |-> o.latency, at |-> now]
           w == Append(Evict(p.window), e)
<1>1. Cardinality(S) \in Nat
  <2>1. S \in SUBSET (1..Len(p.window)) /\ Len(p.window) \in Nat
    BY DEF Past
  <2> HIDE DEF S
  <2>2. IsFiniteSet(S)
    <3>1. IsFiniteSet(1..Len(p.window))
      BY <2>1, FS_Interval
    <3>. QED
      BY <2>1, <3>1, FS_Subset
  <2>. QED
    BY <2>2, FS_CardinalityType
<1>2. Past(Evict(p.window))
  BY <1>1, LastFact DEF Evict
<1>3. e \in Observation /\ e.at <= now
  BY ObservationAssumption DEF Observation
<1> HIDE DEF e
<1>4. Past(w)
  BY <1>2, <1>3 DEF Past
<1> HIDE DEF w
<1>5. Past(Latest(w, WindowCapacity))
  BY <1>4, LastFact, PolicyAssumption
<1>6. b.window = Latest(w, WindowCapacity) /\ b.reference = p.reference /\ b.blocked = p.blocked
  BY DEF Record, PolicyFields, w, e
<1>. QED
  BY <1>5, <1>6

LEMMA SetMinWorkersRamp ==
  ASSUME NEW p, DOMAIN p = PolicyFields, BoundsOK(p), NEW floor \in Nat
  PROVE  LET b == SetMinWorkers(p, floor)
         IN /\ b.window = p.window
            /\ \/ b.workers = p.workers /\ b.reference = p.reference /\ b.blocked = p.blocked
               \/ b.workers > p.workers /\ b.workers = b.min_workers /\ b.blocked = FALSE
<1> DEFINE f == Clamp(floor, 1, MaxWorkers)
<1>1. f \in Nat
  BY ClampFact, ParameterFact
<1> HIDE DEF f
<1>2. CASE p.workers < f
  <2>1. SetMinWorkers(p, floor) = [p EXCEPT !.min_workers = f, !.workers = f,
                                            !.reference = {}, !.blocked = FALSE]
    BY <1>2 DEF SetMinWorkers, f
  <2>. QED
    BY <1>1, <1>2, <2>1 DEF PolicyFields, BoundsOK
<1>3. CASE ~(p.workers < f)
  <2>1. SetMinWorkers(p, floor) = [p EXCEPT !.min_workers = f]
    BY <1>3 DEF SetMinWorkers, f
  <2>. QED
    BY <2>1 DEF PolicyFields
<1>. QED
  BY <1>2, <1>3

LEMMA SetWorkersRamp ==
  ASSUME NEW p, DOMAIN p = PolicyFields, NEW w
  PROVE  LET a == SetWorkers(p, w)
         IN /\ a.window = p.window
            /\ a = p \/ (a.workers # p.workers /\ a.blocked = FALSE)
BY DEF SetWorkers, PolicyFields

(* What was measured depends on the window alone.                            *)
LEMMA WindowFact ==
  ASSUME NEW p, NEW c, c.window = p.window
  PROVE  Throughput(c) = Throughput(p) /\ \A a : Since(c, a) = Since(p, a)
<1>1. Completed(c) = Completed(p)
  BY DEF Completed, Seen
<1>2. \A a : Since(c, a) = Since(p, a)
  BY <1>1 DEF Since
<1>3. Spans(c) = Spans(p)
  BY <1>1 DEF Spans
<1>. QED
  BY <1>1, <1>2, <1>3 DEF Throughput

LEMMA MeasuredFact ==
  ASSUME NEW p, now \in Nat, Past(p.window)
  PROVE  /\ \A r \in Throughput(p) : r \in Rate
         /\ \A a \in Nat : /\ Cardinality(Since(p, a)) \in Nat
                           /\ a >= now => Cardinality(Since(p, a)) = 0
<1>1. /\ p.window \in Seq(Observation) /\ DOMAIN p.window = 1..Len(p.window)
      /\ Len(p.window) \in Nat
      /\ \A i \in DOMAIN p.window : p.window[i].at \in Nat /\ p.window[i].at <= now
  <2>1. /\ p.window \in Seq(Observation) /\ DOMAIN p.window = 1..Len(p.window)
        /\ Len(p.window) \in Nat
        /\ \A i \in DOMAIN p.window : p.window[i] \in Observation /\ p.window[i].at <= now
    BY DEF Past
  <2>2. \A o \in Observation : o.at \in Nat
    BY DEF Observation
  <2>. QED
    BY <2>1, <2>2
<1>2. ASSUME NEW S \in SUBSET DOMAIN p.window PROVE IsFiniteSet(S) /\ Cardinality(S) \in Nat
  <2>1. IsFiniteSet(DOMAIN p.window)
    BY <1>1, FS_Interval
  <2>. QED
    BY <2>1, FS_Subset, FS_CardinalityType
<1>3. Completed(p) \in SUBSET DOMAIN p.window
  BY DEF Completed, Seen
<1>4. \A r \in Throughput(p) : r \in Rate
  <2>1. \A d \in Spans(p) : d \in Int
    BY <1>1, <1>3 DEF Spans
  <2>2. Cardinality(Completed(p)) \in Nat
    BY <1>2, <1>3
  <2>3. \A e \in Int : e > 0 => [anchor |-> now, count |-> Cardinality(Completed(p)), elapsed |-> e] \in Rate
    BY <2>2 DEF Rate
  <2>. QED
    BY <2>1, <2>3 DEF Throughput
<1>5. ASSUME NEW a \in Nat
      PROVE  /\ Cardinality(Since(p, a)) \in Nat
             /\ a >= now => Cardinality(Since(p, a)) = 0
  <2>1. Since(p, a) \in SUBSET DOMAIN p.window
    BY <1>3 DEF Since
  <2>2. a >= now => Since(p, a) = {}
    BY <1>1, <1>3 DEF Since
  <2>. QED
    BY <1>2, <2>1, <2>2, FS_EmptySet
<1>. QED
  BY <1>4, <1>5

LEMMA CountedRamp ==
  ASSUME NEW p, DOMAIN p = PolicyFields, NEW d
  PROVE  LET c == Counted(p, d)
         IN /\ c.window = p.window /\ c.reference = p.reference /\ c.blocked = p.blocked
            /\ c.workers = p.workers /\ c.min_workers = p.min_workers
BY DEF Counted, PolicyFields

(* apply grows a pool that is not blocked and not on a plateau, and keeps    *)
(* the rate before as the reference, or blocks the next growth without one.  *)
LEMMA ApplyRamp ==
  ASSUME NEW p, DOMAIN p = PolicyFields, BoundsOK(p), p.blocked \in BOOLEAN, NEW d
  PROVE  LET a == Apply(p, d)
         IN /\ a.window = p.window /\ a.min_workers = p.min_workers
            /\ \/ /\ a.workers > p.workers
                  /\ p.blocked = FALSE /\ ~Plateau(p)
                  /\ a.reference = Throughput(p)
                  /\ a.blocked = (Throughput(p) = {})
               \/ a.workers < p.workers /\ a.blocked = FALSE
               \/ /\ a.workers = p.workers /\ a.reference = p.reference
                  /\ a.blocked \in BOOLEAN /\ (a.blocked = FALSE => p.blocked = FALSE)
<1> DEFINE c == Counted(p, d)
           a == Apply(p, d)
<1>1. /\ DOMAIN c = PolicyFields /\ c.window = p.window /\ c.reference = p.reference
      /\ c.blocked = p.blocked /\ c.workers = p.workers /\ c.min_workers = p.min_workers
  BY CountedRamp, CountedFact
<1> HIDE DEF c
<1>2. Throughput(c) = Throughput(p) /\ \A t : Since(c, t) = Since(p, t)
  BY <1>1, WindowFact
<1>3. Plateau(c) <=> Plateau(p)
  BY <1>1, <1>2 DEF Plateau
<1>4. BoundsOK(c)
  BY <1>1 DEF BoundsOK
<1>5. CASE a = Grown(c) /\ c.blocked = FALSE /\ ~Plateau(c) /\ c.workers < MaxWorkers
  <2>1. Grown(c).workers > c.workers
    BY <1>1, <1>4, <1>5, GrownFact
  <2>2. /\ Grown(c).window = c.window /\ Grown(c).min_workers = c.min_workers
        /\ Grown(c).reference = Throughput(c) /\ Grown(c).blocked = (Throughput(c) = {})
    BY <1>1 DEF Grown, PolicyFields
  <2>. QED
    BY <1>1, <1>2, <1>3, <1>5, <2>1, <2>2
<1>6. CASE a = Shrunk(c) /\ c.workers > c.min_workers
  <2>1. Shrunk(c).workers < c.workers
    BY <1>1, <1>4, <1>6, ShrunkFact
  <2>2. /\ Shrunk(c).window = c.window /\ Shrunk(c).min_workers = c.min_workers
        /\ Shrunk(c).blocked = FALSE
    BY <1>1 DEF Shrunk, PolicyFields
  <2>. QED
    BY <1>1, <1>6, <2>1, <2>2
<1>7. CASE a = c
  BY <1>1, <1>7
<1>8. CASE a = [c EXCEPT !.blocked = TRUE]
  BY <1>1, <1>8 DEF PolicyFields
<1>9. \/ a = Grown(c) /\ ~c.blocked /\ ~Plateau(c) /\ c.workers < MaxWorkers
      \/ a = Shrunk(c) /\ c.workers > c.min_workers
      \/ a = c
      \/ a = [c EXCEPT !.blocked = TRUE]
  BY DEF Apply, c
<1>10. c.blocked = TRUE \/ c.blocked = FALSE
  BY <1>1
<1>. QED
  BY <1>5, <1>6, <1>7, <1>8, <1>9, <1>10

Gains(p, r) ==
  LET n == Cardinality(Since(p, r.anchor))
  IN n >= MinSamples => n * r.elapsed * 100 > r.count * (100 + Gain) * (now - r.anchor)

LEMMA GainsFact ==
  ASSUME NEW p, now \in Nat, Past(p.window), NEW r \in p.reference, r \in Rate, ~Plateau(p)
  PROVE  Gains(p, r)
<1> DEFINE n == Cardinality(Since(p, r.anchor))
           e == now - r.anchor
<1> SUFFICES ASSUME n >= MinSamples
             PROVE  n * r.elapsed * 100 > r.count * (100 + Gain) * e
  BY DEF Gains
<1>1. r.anchor \in Nat /\ r.count \in Nat /\ r.elapsed \in Nat
  BY DEF Rate
<1>2. MinSamples \in Nat \ {0} /\ Gain \in Nat
  BY PolicyAssumption
<1>3. n \in Nat /\ (r.anchor >= now => n = 0)
  BY <1>1, MeasuredFact
<1>4. now > r.anchor
  BY <1>1, <1>2, <1>3
<1>5. ~NotFaster(n, e, r)
  BY <1>4 DEF Plateau
<1> HIDE DEF n
<1>6. e \in Nat
  BY <1>1, <1>4
<1> HIDE DEF e
<1> DEFINE x == n * r.elapsed * 100
           y == r.count * (100 + Gain) * e
<1>7. x \in Nat /\ y \in Nat
  <2>1. n * r.elapsed \in Nat /\ 100 + Gain \in Nat
    BY <1>1, <1>2, <1>3
  <2>2. r.count * (100 + Gain) \in Nat
    BY <1>1, <2>1
  <2>. QED
    BY <1>6, <2>1, <2>2
<1>8. ~(x <= y)
  BY <1>5 DEF NotFaster
<1> HIDE DEF x, y
<1>9. x > y
  BY <1>7, <1>8
<1>. QED
  BY <1>9 DEF x, y

LEMMA RampNext ==
  ASSUME now \in Nat, NEW a, NEW l, policy' = a, log' = l, now' \in Nat, now' >= now,
         Past(a.window), a.blocked \in BOOLEAN,
         l.blind \in BOOLEAN, \A r \in l.before : r \in Rate, Gated(a, l.before, l.blind)
  PROVE  RInv'
<1>1. \A i \in DOMAIN a.window : a.window[i].at \in Nat
  <2>1. \A i \in DOMAIN a.window : a.window[i] \in Observation
    BY DEF Past
  <2>2. \A o \in Observation : o.at \in Nat
    BY DEF Observation
  <2>. QED
    BY <2>1, <2>2
<1>2. Past(policy.window)'
  BY <1>1 DEF Past
<1>3. Gated(policy, log.before, log.blind)'
  BY DEF Gated
<1>. QED
  BY <1>2, <1>3 DEF RInv

LEMMA JoinRamp ==
  ASSUME IInv, RInv, JoinAutomatic
  PROVE  /\ RInv'
         /\ log'.dir = "up" /\ policy'.min_workers <= policy.workers =>
              log.blind = FALSE /\ \A r \in log.before : Gains(policy', r)
<1>1. PICK o \in Observations, floor \in Floors, remaining \in Remaining :
        LET b == SetMinWorkers(Record(policy, o), floor)
            a == Apply(b, Evaluate(b, remaining))
        IN policy' = a /\ log' = LogJoin(b, a)
  BY DEF JoinAutomatic
<1> DEFINE r == Record(policy, o)
           b == SetMinWorkers(r, floor)
           a == Apply(b, Evaluate(b, remaining))
<1>2. policy' = a /\ log' = LogJoin(b, a) /\ now' = now
  BY <1>1 DEF JoinAutomatic
<1>3. /\ DOMAIN policy = PolicyFields /\ DOMAIN log = LogFields /\ BoundsOK(policy)
      /\ now \in Nat /\ Past(policy.window) /\ policy.blocked \in BOOLEAN
      /\ log.blind \in BOOLEAN /\ (\A m \in log.before : m \in Rate)
      /\ Gated(policy, log.before, log.blind)
  BY DEF IInv, RInv
<1>4. /\ DOMAIN r = PolicyFields /\ r.workers = policy.workers /\ r.min_workers = policy.min_workers
      /\ Past(r.window) /\ r.reference = policy.reference /\ r.blocked = policy.blocked
  BY <1>3, RecordFact, RecordRamp
<1> HIDE DEF r
<1>5. BoundsOK(r)
  BY <1>3, <1>4 DEF BoundsOK
<1>6. /\ DOMAIN b = PolicyFields /\ BoundsOK(b) /\ b.window = r.window
      /\ \/ b.workers = r.workers /\ b.reference = r.reference /\ b.blocked = r.blocked
         \/ b.workers > r.workers /\ b.workers = b.min_workers /\ b.blocked = FALSE
  <2>1. floor \in Nat
    BY ObservationAssumption
  <2>. QED
    BY <1>4, <1>5, <2>1, SetMinWorkersFact, SetMinWorkersRamp
<1> HIDE DEF b
<1>7. b.blocked \in BOOLEAN /\ Past(b.window)
  BY <1>3, <1>4, <1>6
<1>8. /\ a.window = b.window /\ a.min_workers = b.min_workers
      /\ \/ /\ a.workers > b.workers
            /\ b.blocked = FALSE /\ ~Plateau(b)
            /\ a.reference = Throughput(b) /\ a.blocked = (Throughput(b) = {})
         \/ a.workers < b.workers /\ a.blocked = FALSE
         \/ /\ a.workers = b.workers /\ a.reference = b.reference
            /\ a.blocked \in BOOLEAN /\ (a.blocked = FALSE => b.blocked = FALSE)
  BY <1>6, <1>7, ApplyRamp
<1>9. a.workers \in Nat /\ b.workers \in Nat /\ r.workers \in Nat /\ policy.workers \in Nat
  BY <1>2, <1>3, <1>5, <1>6, JoinFact DEF IInv, BoundsOK
<1>10. Past(a.window) /\ policy' = a /\ now' \in Nat /\ now' >= now
  BY <1>2, <1>3, <1>7, <1>8
<1> HIDE DEF a
<1>11. CASE /\ a.workers > b.workers /\ b.blocked = FALSE /\ ~Plateau(b)
            /\ a.reference = Throughput(b) /\ a.blocked = (Throughput(b) = {})
  <2>1. /\ log'.dir = "up" /\ log'.before = Throughput(b)
        /\ log'.blind = (Throughput(b) = {})
    BY <1>2, <1>3, <1>11 DEF LogJoin, LogFields
  <2>2. \A m \in Throughput(b) : m \in Rate
    BY <1>3, <1>7, MeasuredFact
  <2>3. Gated(a, log'.before, log'.blind)
    BY <1>11, <2>1 DEF Gated
  <2>4. RInv'
    <3>1. a.blocked \in BOOLEAN /\ log'.blind \in BOOLEAN
      BY <1>11, <2>1
    <3>2. \A m \in log'.before : m \in Rate
      BY <2>1, <2>2
    <3>. QED
      BY <1>3, <1>10, <2>3, <3>1, <3>2, RampNext
  <2>5. ASSUME policy'.min_workers <= policy.workers
        PROVE  log.blind = FALSE /\ \A m \in log.before : Gains(policy', m)
    <3>1. b.min_workers <= r.workers
      BY <1>2, <1>4, <1>8, <2>5
    <3>2. b.workers = r.workers /\ b.reference = policy.reference /\ policy.blocked = FALSE
      BY <1>4, <1>6, <1>9, <1>11, <3>1
    <3>3. log.blind = FALSE /\ \A m \in log.before : m \in b.reference /\ m \in Rate
      BY <1>3, <3>2 DEF Gated
    <3>4. \A m \in log.before : Gains(b, m)
      BY <1>3, <1>7, <1>11, <3>3, GainsFact
    <3>5. \A t : Since(a, t) = Since(b, t)
      BY <1>8, WindowFact
    <3>6. \A m \in log.before : Gains(a, m)
      BY <3>4, <3>5 DEF Gains
    <3>. QED
      BY <1>2, <3>3, <3>6
  <2>. QED
    BY <2>4, <2>5
<1>12. CASE a.workers < b.workers /\ a.blocked = FALSE
  <2>1. ~(a.workers > b.workers)
    BY <1>9, <1>12
  <2>2. log'.dir = "down" /\ log'.before = {} /\ log'.blind = FALSE
    BY <1>2, <1>3, <1>12, <2>1 DEF LogJoin, LogFields
  <2>3. Gated(a, log'.before, log'.blind)
    BY <2>2 DEF Gated
  <2>4. RInv'
    <3>1. a.blocked \in BOOLEAN /\ log'.blind \in BOOLEAN /\ \A m \in log'.before : m \in Rate
      BY <1>12, <2>2
    <3>. QED
      BY <1>3, <1>10, <2>3, <3>1, RampNext
  <2>. QED
    BY <2>2, <2>4
<1>13. CASE /\ a.workers = b.workers /\ a.reference = b.reference
            /\ a.blocked \in BOOLEAN /\ (a.blocked = FALSE => b.blocked = FALSE)
  <2> DEFINE kept == b.workers = policy.workers
  <2>1. ~(a.workers > b.workers) /\ ~(a.workers < b.workers)
    BY <1>9, <1>13
  <2>2. /\ log'.dir = "none" /\ log'.before = IF kept THEN log.before ELSE {}
        /\ log'.blind = (kept /\ log.blind)
    BY <1>2, <1>3, <2>1 DEF LogJoin, LogFields
  <2>3. CASE kept
    <3>1. b.reference = policy.reference /\ b.blocked = policy.blocked
      BY <1>4, <1>6, <1>9, <2>3
    <3>2. log'.before = log.before /\ log'.blind = log.blind
      BY <1>3, <2>2, <2>3
    <3>3. Gated(a, log'.before, log'.blind)
      BY <1>3, <1>13, <3>1, <3>2 DEF Gated
    <3>4. RInv'
      BY <1>2, <1>3, <1>10, <1>13, <3>2, <3>3, RampNext
    <3>. QED
      BY <2>2, <3>4
  <2>4. CASE ~kept
    <3>1. log'.before = {} /\ log'.blind = FALSE
      BY <2>2, <2>4
    <3>2. Gated(a, log'.before, log'.blind)
      BY <3>1 DEF Gated
    <3>3. log'.blind \in BOOLEAN /\ \A m \in log'.before : m \in Rate
      BY <3>1
    <3>4. RInv'
      BY <1>3, <1>10, <1>13, <3>2, <3>3, RampNext
    <3>. QED
      BY <2>2, <3>4
  <2>. QED
    BY <2>3, <2>4
<1>. QED
  BY <1>8, <1>11, <1>12, <1>13

LEMMA ManualRamp ==
  ASSUME IInv, RInv, NEW b, NEW w \in Nat, DOMAIN b = PolicyFields,
         Past(b.window), b.reference = policy.reference, b.blocked = policy.blocked,
         policy' = SetWorkers(b, w), log' = LogManual(b, SetWorkers(b, w)), now' = now
  PROVE  RInv' /\ log'.dir = "none"
<1> DEFINE a == SetWorkers(b, w)
<1>1. a.window = b.window /\ (a = b \/ (a.workers # b.workers /\ a.blocked = FALSE))
  BY SetWorkersRamp
<1>2. policy' = a /\ log' = LogManual(b, a)
  OBVIOUS
<1> HIDE DEF a
<1>3. /\ DOMAIN log = LogFields /\ now \in Nat /\ policy.blocked \in BOOLEAN
      /\ log.blind \in BOOLEAN /\ (\A m \in log.before : m \in Rate)
      /\ Gated(policy, log.before, log.blind)
  BY DEF IInv, RInv
<1>4. Past(a.window) /\ now' >= now
  BY <1>1, <1>3
<1>5. CASE a = b
  <2>1. log'.dir = "none" /\ log'.before = log.before /\ log'.blind = log.blind
    BY <1>2, <1>3, <1>5 DEF LogManual, LogFields
  <2>2. Gated(a, log'.before, log'.blind)
    BY <1>3, <1>5, <2>1 DEF Gated
  <2>3. RInv'
    BY <1>2, <1>3, <1>4, <1>5, <2>1, <2>2, RampNext
  <2>. QED
    BY <2>1, <2>3
<1>6. CASE a.workers # b.workers /\ a.blocked = FALSE
  <2>1. log'.dir = "none" /\ log'.before = {} /\ log'.blind = FALSE
    BY <1>2, <1>6 DEF LogManual, NewLog
  <2>2. Gated(a, log'.before, log'.blind)
    BY <2>1 DEF Gated
  <2>3. RInv'
    BY <1>2, <1>3, <1>4, <1>6, <2>1, <2>2, RampNext
  <2>. QED
    BY <2>1, <2>3
<1>. QED
  BY <1>1, <1>5, <1>6

LEMMA RampInit == Init => RInv
<1> SUFFICES ASSUME Init PROVE RInv
  OBVIOUS
<1>1. /\ policy.window = <<>> /\ policy.blocked = FALSE /\ log.before = {} /\ log.blind = FALSE
      /\ now = 0
  BY DEF Init, NewPolicy, NewLog
<1>2. <<>> \in Seq(Observation) /\ DOMAIN <<>> = {}
  OBVIOUS
<1>3. Past(policy.window)
  BY <1>1, <1>2 DEF Past
<1>4. Gated(policy, log.before, log.blind)
  BY <1>1 DEF Gated
<1>. QED
  BY <1>1, <1>3, <1>4 DEF RInv

LEMMA RampFact ==
  ASSUME IInv, RInv, [Next]_vars
  PROVE  /\ RInv'
         /\ log'.dir = "up" /\ policy'.min_workers <= policy.workers /\ vars' # vars =>
              log.blind = FALSE /\ \A r \in log.before : Gains(policy', r)
<1>1. CASE JoinAutomatic
  BY <1>1, JoinRamp
<1>2. CASE JoinManual
  <2>1. PICK o \in Observations, w \in Requests :
          /\ policy' = SetWorkers(Record(policy, o), w)
          /\ log' = LogManual(Record(policy, o), SetWorkers(Record(policy, o), w))
    BY <1>2 DEF JoinManual
  <2> DEFINE b == Record(policy, o)
  <2>2. /\ DOMAIN b = PolicyFields /\ Past(b.window) /\ b.reference = policy.reference
        /\ b.blocked = policy.blocked
    BY RecordFact, RecordRamp DEF IInv, RInv
  <2> HIDE DEF b
  <2>3. policy' = SetWorkers(b, w) /\ log' = LogManual(b, SetWorkers(b, w)) /\ now' = now
    BY <1>2, <2>1 DEF b, JoinManual
  <2>4. w \in Nat
    BY ObservationAssumption
  <2>. QED
    BY <2>2, <2>3, <2>4, ManualRamp
<1>3. CASE Override
  <2>1. PICK w \in Requests :
          /\ policy' = SetWorkers(policy, w)
          /\ log' = LogManual(policy, SetWorkers(policy, w))
    BY <1>3 DEF Override
  <2>2. w \in Nat /\ now' = now
    BY <1>3, ObservationAssumption DEF Override
  <2>3. DOMAIN policy = PolicyFields /\ Past(policy.window)
    BY DEF IInv, RInv
  <2>. QED
    BY <2>1, <2>2, <2>3, ManualRamp
<1>4. CASE Tick
  <2>1. /\ log'.dir = "none" /\ log'.before = log.before /\ log'.blind = log.blind
        /\ policy' = policy /\ now' = now + 1 /\ now \in Nat
    BY <1>4 DEF Tick, IInv, RInv, LogFields
  <2>2. RInv'
    BY <2>1, RampNext DEF RInv
  <2>. QED
    BY <2>1, <2>2
<1>5. CASE UNCHANGED vars
  BY <1>5 DEF vars, RInv, Past, Gated
<1>. QED
  BY <1>1, <1>2, <1>3, <1>4, <1>5 DEF Next

(* The pool does not ramp up blindly: an upscale follows another only when   *)
(* the rate before the first was measured and the rate since exceeds it by   *)
(* the gain, whatever the observations, overrides and raised minimums.       *)
THEOREM NoBlindRampHolds == Spec => NoBlindRamp
<1>1. IInv /\ RInv /\ [Next]_vars => RInv'
  BY RampFact
<1>2. IInv /\ RInv /\ [Next]_vars =>
        [log'.dir = "up" /\ policy'.min_workers <= policy.workers =>
           /\ ~log.blind
           /\ \A r \in log.before :
                LET n == Cardinality(Since(policy', r.anchor))
                IN n >= MinSamples =>
                     n * r.elapsed * 100 > r.count * (100 + Gain) * (now - r.anchor)]_vars
  BY RampFact DEF Gains
<1>. QED
  BY <1>1, <1>2, RampInit, PolicyInvariance, PTL DEF Spec, NoBlindRamp

-----------------------------------------------------------------------------
(* Addresses.                                                              *)

Address == Families \X Nat
Skipped(s) == IF Trimmed(s) THEN 1 ELSE 0

LEMMA AddressIsSome == \A a \in Address : a # None /\ a[1] \in Families
BY DEF Address, None

(* The hosts of a source follow each other; none comes twice. *)
LEMMA HostsFact ==
  ASSUME NEW s \in Source
  PROVE  /\ Hosts(s) \in Seq(Address) /\ Hosts(s) # <<>>
         /\ HostCount(s) \in Nat \ {0} /\ Len(Hosts(s)) = HostCount(s)
         /\ \A i, j \in DOMAIN Hosts(s) : Hosts(s)[i] = Hosts(s)[j] => i = j
         /\ Range(Hosts(s)) \subseteq Range(Net(s))
<1>1. s.v \in Families /\ s.base \in Nat /\ s.size \in Nat \ {0}
  BY DEF Source
<1>2. Net(s) \in Seq(Address) /\ Len(Net(s)) = s.size
  BY <1>1 DEF Net, Address
<1>3. \A i \in 1..s.size : Net(s)[i] = <<s.v, s.base + i - 1>>
  BY <1>1 DEF Net
<1>4. CASE ~Trimmed(s)
  <2>1. Hosts(s) = Net(s) /\ HostCount(s) = s.size
    BY <1>4 DEF Hosts, HostCount
  <2>2. \A i, j \in 1..s.size : Net(s)[i] = Net(s)[j] => i = j
    BY <1>1, <1>3
  <2>3. DOMAIN Net(s) = 1..s.size
    BY DEF Net
  <2>. QED
    BY <1>1, <1>2, <2>1, <2>2, <2>3
<1>5. CASE Trimmed(s)
  <2>1. Hosts(s) = SubSeq(Net(s), 2, s.size - 1) /\ HostCount(s) = s.size - 2
    BY <1>5 DEF Hosts, HostCount
  <2>2. s.size > 2
    BY <1>5 DEF Trimmed
  <2>3. \A i \in 2..(s.size - 1) : Net(s)[i] \in Address
    BY <1>1, <1>2, <1>3 DEF Address
  <2>4. /\ Hosts(s) \in Seq(Address) /\ Len(Hosts(s)) = s.size - 2
        /\ \A i \in 1..(s.size - 2) : Hosts(s)[i] = Net(s)[i + 1]
    BY <1>1, <2>1, <2>2, <2>3, SubSeqProperties
  <2>8. \A i \in 1..(s.size - 2) : i + 1 \in 1..s.size /\ Hosts(s)[i] = <<s.v, s.base + i>>
    <3>1. \A i \in 1..(s.size - 2) : i + 1 \in 1..s.size /\ s.base + (i + 1) - 1 = s.base + i
      BY <1>1
    <3>. QED
      BY <1>3, <2>4, <3>1
  <2>5. \A i, j \in 1..(s.size - 2) : Hosts(s)[i] = Hosts(s)[j] => i = j
    BY <1>1, <2>8
  <2>6. DOMAIN Hosts(s) = 1..(s.size - 2)
    BY <2>4, LenProperties
  <2>7. Range(Hosts(s)) \subseteq Range(Net(s))
    <3>1. \A i \in DOMAIN Hosts(s) : i + 1 \in DOMAIN Net(s) /\ Hosts(s)[i] = Net(s)[i + 1]
      BY <2>4, <2>6, <2>8 DEF Net
    <3>. QED
      BY <3>1 DEF Range
  <2>9. s.size - 2 \in Nat \ {0} /\ Hosts(s) # <<>>
    BY <1>1, <2>2, <2>4, EmptySeq
  <2>. QED
    BY <2>1, <2>4, <2>5, <2>6, <2>7, <2>9
<1>. QED
  BY <1>4, <1>5

(* A set of places has a first one. *)
LEMMA ForemostFact ==
  ASSUME NEW S \in SUBSET Nat, S # {}
  PROVE  Foremost(S) \in S /\ \A j \in S : Foremost(S) <= j
<1>1. IsWellFoundedOn(OpToRel(<, Nat), Nat)
  BY NatLessThanWellFounded
<1>2. PICK k \in S : \A j \in S : ~(<<j, k>> \in OpToRel(<, Nat))
  BY <1>1, WFMin
<1>3. \A j \in S : ~(j < k)
  BY <1>2 DEF OpToRel
<1>4. \E i \in S : \A j \in S : i <= j
  BY <1>3
<1>. QED
  BY <1>4 DEF Foremost

(* preferred_addresses: of a family that an interface has, an address that   *)
(* reaches beyond the link if there is one.                                  *)
LEMMA PreferredFact ==
  ASSUME NEW addrs, IsTable(addrs), NEW v \in Families
  PROVE  IF Family(addrs, v) = {} THEN Preferred(addrs, v) = NoAddr
         ELSE /\ Preferred(addrs, v) # NoAddr
              /\ \E k \in Family(addrs, v) : Preferred(addrs, v) = addrs[k]
              /\ \/ OffLink(Preferred(addrs, v))
                 \/ \A k \in Family(addrs, v) : ~OffLink(addrs[k])
<1> DEFINE far == {k \in Family(addrs, v) : OffLink(addrs[k])}
           places == IF far # {} THEN far ELSE Family(addrs, v)
<1>1. Preferred(addrs, v) = First(addrs, places)
  BY DEF Preferred
<1>2. places \subseteq Family(addrs, v) /\ Family(addrs, v) \in SUBSET Nat
  BY LenProperties DEF Family, IsTable
<1>3. CASE Family(addrs, v) = {}
  BY <1>1, <1>3 DEF First
<1>4. CASE Family(addrs, v) # {}
  <2>1. places # {} /\ places \in SUBSET Nat
    BY <1>2, <1>4
  <2>2. Foremost(places) \in places
    BY <2>1, ForemostFact
  <2>3. Preferred(addrs, v) = addrs[Foremost(places)]
    BY <1>1, <2>1 DEF First
  <2>4. addrs[Foremost(places)].v = v
    BY <1>2, <2>2 DEF Family
  <2>. QED
    BY <1>2, <1>4, <2>2, <2>3, <2>4 DEF NoAddr, Families
<1>. QED
  BY <1>3, <1>4

(* Probe n of a window is one of its addresses on one of the ports. *)
LEMMA PairFact ==
  ASSUME NEW n \in Nat, NEW m \in Nat, NEW k \in Nat \ {0}, n < m * k
  PROVE  (n \div k) + 1 \in 1..m /\ (n % k) + 1 \in 1..k
<1>1. n \div k \in Nat /\ n % k \in 0..(k - 1) /\ n = k * (n \div k) + (n % k)
  OBVIOUS
<1>2. ~(n \div k >= m)
  <2>1. SUFFICES ASSUME n \div k >= m PROVE FALSE
    OBVIOUS
  <2> DEFINE q == n \div k
  <2>2. q \in Nat /\ q >= m /\ n >= k * q
    BY <1>1, <2>1
  <2>. HIDE DEF q
  <2>3. k * q >= k * m
    BY <2>2
  <2>. QED
    BY <2>2, <2>3
<1>. QED
  BY <1>1, <1>2

-----------------------------------------------------------------------------
(* What the sweep is given never changes.                                  *)

GivenOK ==
  /\ mode \in {"connect", "syn", "sample"}
  /\ sources \in Seq(Source)
  /\ \A i \in DOMAIN sources : sources[i].net \/ sources[i].size = 1
  /\ \A i \in DOMAIN table : IsTable(table[i].addrs)

LEMMA InitGiven == SweepInit => GivenOK
<1>1. ASSUME SweepInit PROVE GivenOK
  <2>1. sources \in SourceLists /\ mode \in Modes
    BY <1>1 DEF SweepInit
  <2>2. table = <<>> \/ \E m \in Machines : table = m.table
    BY <1>1 DEF SweepInit
  <2>3. \A i \in DOMAIN table : IsTable(table[i].addrs)
    BY <2>2, SweepAssumption
  <2>. QED
    BY <2>1, <2>3, SweepAssumption DEF GivenOK
<1>. QED
  BY <1>1

Strayed == \E a \in Strangers, p \in 1..PortSpace : Stray(a, p)

LEMMA NextInput == [SweepNext]_sweepVars => UNCHANGED input
BY DEF SweepNext, sweepVars, Validate, LinkLost, Begin, Walk, Cancel, Launch, EndConnect,
       Dial, Answer, NextWindow, Collect, CloseWindow, Send, EndPass, Fail, Receive,
       Stray, Sample, Scan

LEMMA NextGiven == GivenOK /\ UNCHANGED input => GivenOK'
BY DEF GivenOK, input

-----------------------------------------------------------------------------
(* The enumerator: what it has left behind, and what it compares with.     *)

Hosted(i) == Range(Hosts(sources[i]))
Walked == IF head = None THEN index ELSE index - 1
Passed == IF head = None THEN {}
          ELSE {Hosts(sources[index])[k] :
                  k \in 1..(Len(Hosts(sources[index])) - Len(rest) - 1)}
Pulled == Passed \cup UNION {Hosted(i) : i \in 1..Walked}

WalkOK ==
  /\ index \in 0..Len(sources)
  /\ head = None => rest = <<>>
  /\ head # None =>
       /\ index # 0
       /\ LET hosts == Hosts(sources[index]) IN
            \E p \in DOMAIN hosts : head = hosts[p] /\ rest = SubSeq(hosts, p + 1, Len(hosts))
  /\ priorNets = {sources[i] : i \in {k \in 1..Walked : sources[k].net}}
  /\ priorIps = UNION {Hosted(i) : i \in {k \in 1..Walked : ~sources[k].net}}

LEMMA SourceFact ==
  ASSUME GivenOK, NEW i \in 1..Len(sources)
  PROVE  /\ sources[i] \in Source /\ Hosts(sources[i]) \in Seq(Address)
         /\ Hosts(sources[i]) # <<>> /\ Hosted(i) \subseteq Candidates
         /\ sources[i].net \/ sources[i].size = 1
<1>1. sources[i] \in Source /\ DOMAIN sources = 1..Len(sources)
  BY LenProperties DEF GivenOK
<1>. QED
  BY <1>1, HostsFact DEF Hosted, Candidates, GivenOK

LEMMA PulledFact ==
  ASSUME GivenOK, WalkOK
  PROVE  Pulled \subseteq Candidates
<1>1. \A i \in 1..Walked : i \in 1..Len(sources)
  BY DEF Walked, WalkOK, GivenOK
<1>2. \A i \in 1..Walked : Hosted(i) \subseteq Candidates
  BY <1>1, SourceFact
<1>3. CASE head = None
  BY <1>2, <1>3 DEF Pulled, Passed
<1>4. CASE head # None
  <2> DEFINE hosts == Hosts(sources[index])
  <2>1. index \in 1..Len(sources)
    BY <1>4 DEF WalkOK, GivenOK
  <2>2. hosts \in Seq(Address) /\ Hosted(index) \subseteq Candidates
    BY <2>1, SourceFact
  <2>3. rest \in Seq(Address)
    <3>1. PICK p \in DOMAIN hosts : rest = SubSeq(hosts, p + 1, Len(hosts))
      BY <1>4 DEF WalkOK
    <3>2. p \in Nat /\ Len(hosts) \in Nat /\ \A k \in (p + 1)..Len(hosts) : hosts[k] \in Address
      BY <2>2, LenProperties, ElementOfSeq
    <3>. QED
      BY <3>1, <3>2, SubSeqProperties
  <2>4. \A k \in 1..(Len(hosts) - Len(rest) - 1) : k \in DOMAIN hosts
    BY <2>2, <2>3, LenProperties
  <2>5. Passed \subseteq Hosted(index)
    BY <1>4, <2>4 DEF Passed, Hosted, Range
  <2>6. Passed \subseteq Candidates
    BY <2>2, <2>5
  <2>7. UNION {Hosted(i) : i \in 1..Walked} \subseteq Candidates
    BY <1>2
  <2>. QED
    BY <2>6, <2>7 DEF Pulled
<1>. QED
  BY <1>3, <1>4

LEMMA OpenFact ==
  ASSUME GivenOK, WalkOK, OpenSource, UNCHANGED input
  PROVE  WalkOK' /\ Pulled' = Pulled /\ head' # None
<1> DEFINE hosts == Hosts(sources[index + 1])
<1>1. index + 1 \in 1..Len(sources) /\ index \in Nat
  BY DEF OpenSource, WalkOK, GivenOK
<1>2. hosts \in Seq(Address) /\ hosts # <<>>
  BY <1>1, SourceFact
<1>3. /\ head = None /\ rest = <<>> /\ index' = index + 1
      /\ head' = Head(hosts) /\ rest' = Tail(hosts)
      /\ UNCHANGED <<priorIps, priorNets, sources>>
  BY DEF OpenSource, input
<1>4. Len(hosts) \in Nat \ {0} /\ 1 \in DOMAIN hosts /\ hosts[1] \in Address
  BY <1>2, EmptySeq, LenProperties, ElementOfSeq
<1>5. head' = hosts[1] /\ rest' = SubSeq(hosts, 2, Len(hosts))
  BY <1>2, <1>3, TailIsSubSeq
<1>6. head' # None
  BY <1>4, <1>5, AddressIsSome
<1>7. Len(rest') = Len(hosts) - 1
  BY <1>2, <1>3, HeadTailProperties
<1>8. Walked' = Walked /\ Walked = index
  BY <1>1, <1>3, <1>6 DEF Walked
<1>9. Passed = {} /\ Passed' = {}
  <2>1. Hosts(sources[index])' = hosts
    BY <1>3 DEF Hosts, Trimmed, Net
  <2>2. 1..(Len(hosts) - Len(rest') - 1) = {}
    BY <1>4, <1>7
  <2>. QED
    BY <1>3, <1>6, <2>1, <2>2 DEF Passed
<1>10. \A i : Hosted(i)' = Hosted(i)
  BY <1>3 DEF Hosted, Hosts, Trimmed, Net
<1>11. Pulled' = Pulled
  BY <1>8, <1>9, <1>10 DEF Pulled
<1>12. WalkOK'
  <2>1. Hosts(sources[index])' = hosts
    BY <1>3 DEF Hosts, Trimmed, Net
  <2>2. index' \in 0..Len(sources') /\ index' # 0
    BY <1>1, <1>3
  <2>3. \E p \in DOMAIN hosts : head' = hosts[p] /\ rest' = SubSeq(hosts, p + 1, Len(hosts))
    BY <1>4, <1>5, 1 + 1 = 2
  <2>. QED
    BY <1>3, <1>6, <1>8, <1>10, <2>1, <2>2, <2>3 DEF WalkOK
<1>. QED
  BY <1>6, <1>11, <1>12

LEMMA HeadFact ==
  ASSUME GivenOK, WalkOK, head # None
  PROVE  LET hosts == Hosts(sources[index]) IN
         /\ index \in 1..Len(sources) /\ hosts \in Seq(Address)
         /\ \E p \in 1..Len(hosts) :
              /\ head = hosts[p] /\ rest = SubSeq(hosts, p + 1, Len(hosts))
              /\ Len(rest) = Len(hosts) - p
              /\ Passed = {hosts[k] : k \in 1..(p - 1)}
<1> DEFINE hosts == Hosts(sources[index])
<1>1. index \in 1..Len(sources)
  BY DEF WalkOK, GivenOK
<1>2. hosts \in Seq(Address)
  BY <1>1, SourceFact
<1>3. Len(hosts) \in Nat /\ DOMAIN hosts = 1..Len(hosts)
  BY <1>2, LenProperties
<1>4. PICK p \in 1..Len(hosts) : head = hosts[p] /\ rest = SubSeq(hosts, p + 1, Len(hosts))
  BY <1>3 DEF WalkOK
<1>5. Len(rest) = Len(hosts) - p
  <2>1. \A k \in (p + 1)..Len(hosts) : hosts[k] \in Address
    BY <1>2, <1>3, ElementOfSeq
  <2>2. Len(SubSeq(hosts, p + 1, Len(hosts)))
          = IF p + 1 <= Len(hosts) THEN Len(hosts) - (p + 1) + 1 ELSE 0
    BY <1>3, <2>1, SubSeqProperties
  <2>. QED
    BY <1>3, <1>4, <2>2
<1>6. Len(hosts) - Len(rest) - 1 = p - 1
  BY <1>3, <1>5
<1>7. Passed = {hosts[k] : k \in 1..(p - 1)}
  BY <1>6 DEF Passed
<1>. QED
  BY <1>1, <1>2, <1>4, <1>5, <1>7

(* A step passes one address, and it is covered exactly if it was passed     *)
(* before, in whatever source.                                               *)
LEMMA StepFact ==
  ASSUME GivenOK, WalkOK, head # None, Step, UNCHANGED input
  PROVE  /\ WalkOK' /\ Pulled' = Pulled \cup {head}
         /\ Covered(head) <=> head \in Pulled
         /\ head \in Candidates
<1> DEFINE hosts == Hosts(sources[index])
           L == Len(hosts)
           source == sources[index]
<1>1. index \in 1..Len(sources) /\ hosts \in Seq(Address)
  BY HeadFact
<1>2. PICK p \in 1..L : /\ head = hosts[p] /\ rest = SubSeq(hosts, p + 1, L)
                        /\ Len(rest) = L - p
                        /\ Passed = {hosts[k] : k \in 1..(p - 1)}
  BY HeadFact
<1>3. L \in Nat /\ DOMAIN hosts = 1..L /\ \A k \in 1..L : hosts[k] \in Address
  BY <1>1, LenProperties, ElementOfSeq
<1>4. /\ source \in Source /\ (source.net \/ source.size = 1)
      /\ Hosted(index) \subseteq Candidates /\ L = HostCount(source)
      /\ \A i, j \in 1..L : hosts[i] = hosts[j] => i = j
  BY <1>1, <1>3, SourceFact, HostsFact
<1>5. Walked = index - 1 /\ index \in Nat \ {0}
  BY <1>1 DEF Walked, GivenOK
<1>6. \A i : Hosted(i)' = Hosted(i) /\ Hosts(sources[i])' = Hosts(sources[i])
  BY DEF Hosted, Hosts, Trimmed, Net, input
<1>7. head \in Hosted(index) /\ head \in Candidates
  BY <1>2, <1>3, <1>4 DEF Hosted, Range
<1>8. Covered(head) <=> head \in Pulled
  <2>1. head \notin Passed
    BY <1>2, <1>3, <1>4
  <2>2. Covered(head) <=> \E i \in 1..Walked : head \in Hosted(i)
    <3>1. head \in priorIps <=> (\E i \in 1..Walked : ~sources[i].net /\ head \in Hosted(i))
      BY DEF WalkOK
    <3>2. (\E s \in priorNets : HostsContain(s, head))
            <=> (\E i \in 1..Walked : sources[i].net /\ head \in Hosted(i))
      BY DEF WalkOK, HostsContain, Hosted
    <3>. QED
      BY <3>1, <3>2 DEF Covered
  <2>. QED
    BY <2>1, <2>2 DEF Pulled
<1>9. CASE rest = <<>>
  <2>1. p = L /\ head' = None /\ rest' = <<>> /\ index' = index
    <3>1. Len(rest) = 0
      BY <1>9
    <3>2. p = L
      BY <1>2, <1>3, <3>1
    <3>3. head' = None /\ rest' = rest /\ index' = index
      BY <1>9 DEF Step
    <3>. QED
      BY <1>9, <3>2, <3>3
  <2>2. Walked' = index
    BY <2>1 DEF Walked
  <2>3. Hosted(index) = Passed \cup {head}
    <3>1. 1..L = 1..(p - 1) \cup {p}
      BY <1>3, <2>1
    <3>2. Hosted(index) = {hosts[k] : k \in 1..L}
      BY <1>3 DEF Hosted, Range
    <3>3. Passed = {hosts[k] : k \in 1..(p - 1)} /\ head = hosts[p]
      BY <1>2
    <3>. HIDE DEF hosts, L
    <3>. QED
      BY <3>1, <3>2, <3>3
  <2>4. 1..index = 1..(index - 1) \cup {index}
    BY <1>5
  <2>5. Pulled' = UNION {Hosted(i) : i \in 1..index}
    BY <1>6, <2>1, <2>2 DEF Pulled, Passed
  <2>6. Pulled' = Pulled \cup {head}
    <3>1. Pulled = Passed \cup UNION {Hosted(i) : i \in 1..(index - 1)}
      BY <1>5 DEF Pulled
    <3>2. UNION {Hosted(i) : i \in 1..index}
            = Hosted(index) \cup UNION {Hosted(i) : i \in 1..(index - 1)}
      BY <2>4
    <3>. QED
      BY <2>3, <2>5, <3>1, <3>2
  <2>7. priorNets' = {sources[i] : i \in {k \in 1..index : sources[k].net}}
    <3>1. priorNets' = IF source.net THEN priorNets \cup {source} ELSE priorNets
      BY <1>9 DEF Step
    <3>2. priorNets = {sources[i] : i \in {k \in 1..(index - 1) : sources[k].net}}
      BY <1>5 DEF WalkOK
    <3>3. {k \in 1..index : sources[k].net}
            = {k \in 1..(index - 1) : sources[k].net}
              \cup (IF source.net THEN {index} ELSE {})
      BY <2>4
    <3>. QED
      BY <3>1, <3>2, <3>3
  <2>8. priorIps' = UNION {Hosted(i) : i \in {k \in 1..index : ~sources[k].net}}
    <3>1. priorIps' = IF source.net THEN priorIps ELSE priorIps \cup {head}
      BY DEF Step
    <3>2. priorIps = UNION {Hosted(i) : i \in {k \in 1..(index - 1) : ~sources[k].net}}
      BY <1>5 DEF WalkOK
    <3>3. {k \in 1..index : ~sources[k].net}
            = {k \in 1..(index - 1) : ~sources[k].net}
              \cup (IF source.net THEN {} ELSE {index})
      BY <2>4
    <3>4. ~source.net => Hosted(index) = {head}
      <4>1. ~source.net => L = 1
        BY <1>4 DEF HostCount, Trimmed
      <4>2. ~source.net => Passed = {}
        BY <1>2, <2>1, <4>1
      <4>. QED
        BY <2>3, <4>2
    <3>5. CASE source.net
      BY <3>1, <3>2, <3>3, <3>5
    <3>6. CASE ~source.net
      BY <3>1, <3>2, <3>3, <3>4, <3>6
    <3>. QED
      BY <3>5, <3>6
  <2>9. WalkOK'
    <3>1. UNCHANGED sources
      BY DEF input
    <3>. QED
      BY <1>1, <1>6, <2>1, <2>2, <2>7, <2>8, <3>1 DEF WalkOK
  <2>. QED
    BY <1>7, <1>8, <2>6, <2>9
<1>10. CASE rest # <<>>
  <2>1. p < L
    BY <1>2, <1>3, <1>10, SubSeqEmpty
  <2>2. p + 1 \in 1..L /\ L \in (p + 1)..L /\ (p + 1) + 1 = p + 2
    BY <1>3, <2>1
  <2>3. Head(rest) = hosts[p + 1] /\ Tail(rest) = SubSeq(hosts, p + 2, L)
    BY <1>1, <1>2, <2>2, HeadTailOfSubSeq
  <2>4. source.net
    BY <1>4, <2>1 DEF HostCount, Trimmed
  <2>5. /\ head' = hosts[p + 1] /\ rest' = SubSeq(hosts, p + 2, L) /\ index' = index
        /\ UNCHANGED <<priorNets, priorIps>>
    BY <1>10, <2>3, <2>4 DEF Step
  <2>6. head' # None
    BY <1>3, <2>2, <2>5, AddressIsSome
  <2>7. Walked' = Walked
    BY <2>5, <2>6 DEF Walked
  <2>8. WalkOK'
    <3>1. UNCHANGED sources
      BY DEF input
    <3>2. \E q \in DOMAIN hosts : head' = hosts[q] /\ rest' = SubSeq(hosts, q + 1, L)
      BY <1>3, <2>2, <2>5
    <3>. QED
      BY <1>5, <1>6, <2>5, <2>6, <2>7, <3>1, <3>2 DEF WalkOK
  <2>9. Passed' = Passed \cup {head}
    <3>1. \A k \in (p + 2)..L : hosts[k] \in Address
      BY <1>3
    <3>2. Len(rest') = IF p + 2 <= L THEN L - (p + 2) + 1 ELSE 0
      <4>1. p + 2 \in Int /\ L \in Int
        BY <1>3
      <4>. HIDE DEF hosts, L
      <4>2. Len(SubSeq(hosts, p + 2, L)) = IF p + 2 <= L THEN L - (p + 2) + 1 ELSE 0
        BY <3>1, <4>1, SubSeqProperties
      <4>. QED
        BY <2>5, <4>2
    <3>3. L - Len(rest') - 1 = p
      <4>1. p \in Nat /\ L \in Nat /\ p < L
        BY <1>3, <2>1
      <4>. HIDE DEF L
      <4>2. CASE p + 2 <= L
        BY <3>2, <4>1, <4>2
      <4>3. CASE p + 2 > L
        BY <3>2, <4>1, <4>3
      <4>. QED
        BY <4>1, <4>2, <4>3
    <3>4. Passed' = {hosts[k] : k \in 1..p}
      <4>1. Hosts(sources[index])' = hosts
        BY <1>6, <2>5
      <4>2. Passed' = {hosts[k] : k \in 1..(L - Len(rest') - 1)}
        BY <2>6, <4>1 DEF Passed
      <4>. QED
        BY <3>3, <4>2
    <3>5. 1..p = 1..(p - 1) \cup {p}
      BY <1>3
    <3>. QED
      BY <1>2, <3>4, <3>5
  <2>10. Pulled' = Pulled \cup {head}
    BY <1>6, <2>7, <2>9 DEF Pulled
  <2>. QED
    BY <1>7, <1>8, <2>8, <2>10
<1>. QED
  BY <1>9, <1>10

-----------------------------------------------------------------------------
(* The invariant, in parts.                                                *)

Sweeping == {"connect", "drain"}
Probing == {"window", "collect", "send", "receive"}

\* which phases a mode has
PhaseOK ==
  /\ pc \in Sweeping => mode = "connect"
  /\ pc \in Probing => mode = "syn"
  /\ pc \in {"sample", "scan"} => mode = "sample"
  /\ pc \in {"start", "begin"} => attempted = 0
  /\ pc = "drain" => cancel

\* connects under way are to addresses that were pulled
FlightOK ==
  /\ DOMAIN inFlight \subseteq Pulled
  /\ \A a \in DOMAIN inFlight : inFlight[a] \in 0..Len(Ports)
  /\ pc \notin Sweeping => DOMAIN inFlight = {}

\* every address pulled is counted or under way, save those a cancellation
\* or a failure leaves
Waiting == IF pc \in {"collect", "send", "receive"} THEN Len(window) ELSE 0
TallyOK ==
  /\ attempted \in Nat
  /\ attempted + Cardinality(DOMAIN inFlight) + Waiting <= Cardinality(Pulled)
  /\ ~cancel /\ pc # "failed" =>
       attempted + Cardinality(DOMAIN inFlight) + Waiting = Cardinality(Pulled)
  /\ pc = "done" /\ ~cancel => Pulled = Candidates

\* the places the first n sources offer, and how far a sample is
Slots(n) == UNION {{i} \X (1..Announced(sources[i])) : i \in 1..n}
SampleOK ==
  /\ index \in 0..Len(sources)
  /\ found \subseteq Address /\ IsFiniteSet(found)
  /\ attempted = Cardinality(found) /\ attempted <= Cardinality(Slots(index))

ShownOK ==
  /\ shown.total \in {0, Total}
  /\ shown.attempted \in Nat /\ shown.attempted <= attempted

\* found, in an answer under way, and to be sent
Listens(a) == a \in Candidates /\ \E i \in DOMAIN Ports : <<a, Ports[i]>> \in listening
Answers(a) == Listens(a) \/ (mode = "syn" /\ a \in Strangers)
FoundOK ==
  /\ \A a \in found : Answers(a)
  /\ \A m \in wire : m.kind = "synack" => Answers(m.from)
  /\ window \in Seq(Candidates)
  /\ pc = "send" => next \in 0..Pairs

\* where a connect leaves
Leaving(r) == r.to[1] \in Families /\ r.via = Pick(bound, r.to)
PathOK ==
  /\ pc \notin {"start", "failed"} => pinned = Unpinned \/ Exists(table, pinned)
  /\ pc \in Sweeping \/ (pc = "done" /\ mode = "connect") => bound = Resolved(pinned)
  /\ routes # {} => mode # "syn" /\ pc \in Sweeping \cup {"done"}
  /\ \A r \in routes : Leaving(r)
  /\ mode = "sample" /\ routes # {} =>
       /\ \A r \in routes : r.to \in found
       /\ \/ bound = AutoRoutes
          \/ /\ pinned # Unpinned /\ bound = InterfaceAddrs(table, pinned)
             /\ ServesFamilies(bound, found)

SInv ==
  /\ GivenOK /\ PhaseOK /\ ShownOK /\ PathOK
  /\ mode # "sample" => WalkOK /\ FlightOK /\ TallyOK /\ FoundOK
  /\ mode = "sample" => SampleOK

-----------------------------------------------------------------------------
(* Sizes: what the sources announce bounds what there is to try.           *)

LEMMA SlotsFact ==
  ASSUME GivenOK, NEW n \in 0..Len(sources)
  PROVE  /\ IsFiniteSet(Slots(n)) /\ Cardinality(Slots(n)) \in Nat
         /\ Total \in Nat /\ Cardinality(Slots(n)) <= Total
<1>1. Len(sources) \in Nat /\ DOMAIN sources = 1..Len(sources)
  BY LenProperties DEF GivenOK
<1>2. \A i \in 1..Len(sources) : Announced(sources[i]) \in Nat
  <2>1. SUFFICES ASSUME NEW i \in 1..Len(sources) PROVE Announced(sources[i]) \in Nat
    OBVIOUS
  <2>2. sources[i] \in Source
    BY SourceFact
  <2>. QED
    BY <2>2, HostsFact, SweepAssumption DEF Announced, Smaller, Source
<1>3. ASSUME NEW m \in 0..Len(sources) PROVE IsFiniteSet(Slots(m))
  <2> DEFINE family == {{i} \X (1..Announced(sources[i])) : i \in 1..m}
             f == [i \in 1..m |-> {i} \X (1..Announced(sources[i]))]
  <2>1. m \in Nat /\ \A i \in 1..m : i \in 1..Len(sources)
    BY <1>1
  <2>2. f \in Surjection(1..m, family)
    BY DEF Surjection
  <2>3. IsFiniteSet(1..m)
    BY <2>1, FS_Interval
  <2>4. IsFiniteSet(family)
    BY <2>2, <2>3, FS_Surjection
  <2>5. \A T \in family : IsFiniteSet(T)
    <3>1. SUFFICES ASSUME NEW i \in 1..m
                   PROVE  IsFiniteSet({i} \X (1..Announced(sources[i])))
      OBVIOUS
    <3>2. IsFiniteSet({i})
      BY FS_Singleton
    <3>3. Announced(sources[i]) \in Int
      BY <1>2, <2>1
    <3>4. IsFiniteSet(1..Announced(sources[i]))
      BY <3>3, FS_Interval
    <3>. QED
      BY <3>2, <3>4, FS_Product
  <2>. QED
    BY <2>4, <2>5, FS_UNION DEF Slots
<1>4. Total = Cardinality(Slots(Len(sources)))
  BY <1>1 DEF Total, Slots
<1>5. IsFiniteSet(Slots(Len(sources))) /\ IsFiniteSet(Slots(n))
  BY <1>1, <1>3
<1>6. Slots(n) \subseteq Slots(Len(sources))
  <2>1. \A i \in 1..n : i \in 1..Len(sources)
    BY <1>1
  <2>. QED
    BY <2>1 DEF Slots
<1>. QED
  BY <1>4, <1>5, <1>6, FS_Subset, FS_CardinalityType

LEMMA NextSlotFact ==
  ASSUME GivenOK, NEW n \in 0..(Len(sources) - 1)
  PROVE  Cardinality(Slots(n + 1)) = Cardinality(Slots(n)) + Announced(sources[n + 1])
<1> DEFINE A == Announced(sources[n + 1])
           row == {n + 1} \X (1..A)
<1>1. Len(sources) \in Nat /\ n + 1 \in 1..Len(sources) /\ n \in 0..Len(sources)
  BY LenProperties DEF GivenOK
<1>2. A \in Nat
  <2>1. sources[n + 1] \in Source
    BY <1>1, SourceFact
  <2>. QED
    BY <2>1, HostsFact, SweepAssumption DEF Announced, Smaller, Source
<1>. HIDE DEF A
<1>3. 1..(n + 1) = (1..n) \cup {n + 1}
  BY <1>1
<1>4. Slots(n + 1) = Slots(n) \cup row
  BY <1>3 DEF Slots, A
<1>5. Slots(n) \cap row = {}
  <2>1. \A i \in 1..n : i # n + 1
    BY <1>1
  <2>. QED
    BY <2>1 DEF Slots
<1>6. IsFiniteSet(row) /\ Cardinality(row) = A
  <2>1. IsFiniteSet({n + 1}) /\ Cardinality({n + 1}) = 1
    BY FS_Singleton
  <2>2. IsFiniteSet(1..A) /\ Cardinality(1..A) = A
    BY <1>2, FS_Interval
  <2>3. IsFiniteSet(row) /\ Cardinality(row) = Cardinality({n + 1}) * Cardinality(1..A)
    BY <2>1, <2>2, FS_Product
  <2>. QED
    BY <1>2, <2>1, <2>2, <2>3
<1>7. IsFiniteSet(Slots(n)) /\ Cardinality(Slots(n)) \in Nat
  BY <1>1, SlotsFact
<1>8. Cardinality(Slots(n) \cup row)
        = Cardinality(Slots(n)) + Cardinality(row) - Cardinality(Slots(n) \cap row)
  BY <1>6, <1>7, FS_Union
<1>9. Cardinality(Slots(n) \cap row) = 0
  BY <1>5, FS_EmptySet
<1>10. Cardinality(Slots(n + 1)) = Cardinality(Slots(n)) + A
  <2>1. Cardinality(Slots(n + 1)) = Cardinality(Slots(n) \cup row)
    BY <1>4
  <2>. HIDE DEF row
  <2>. QED
    BY <1>2, <1>6, <1>7, <1>8, <1>9, <2>1
<1>. QED
  BY <1>10 DEF A

LEMMA CandidatesFact ==
  ASSUME GivenOK
  PROVE  /\ Candidates \subseteq Address
         /\ Candidates = UNION {Hosted(i) : i \in 1..Len(sources)}
         /\ mode # "sample" =>
              IsFiniteSet(Candidates) /\ Cardinality(Candidates) <= Total
<1>1. Len(sources) \in Nat /\ DOMAIN sources = 1..Len(sources)
  BY LenProperties DEF GivenOK
<1>2. Candidates = UNION {Hosted(i) : i \in 1..Len(sources)}
  BY <1>1 DEF Candidates, Hosted
<1>3. \A i \in 1..Len(sources) : Hosted(i) \subseteq Address
  <2>1. \A i \in 1..Len(sources) : Hosts(sources[i]) \in Seq(Address)
    BY SourceFact
  <2>. QED
    BY <2>1, ElementOfSeq DEF Hosted, Range
<1>4. Candidates \subseteq Address
  BY <1>2, <1>3
<1>5. ASSUME mode # "sample"
      PROVE  IsFiniteSet(Candidates) /\ Cardinality(Candidates) <= Total
  <2> DEFINE slots == Slots(Len(sources))
             f == [x \in slots |-> Hosts(sources[x[1]])[x[2]]]
  <2>1. \A i \in 1..Len(sources) : DOMAIN Hosts(sources[i]) = 1..Announced(sources[i])
    <3>1. SUFFICES ASSUME NEW i \in 1..Len(sources)
                   PROVE  DOMAIN Hosts(sources[i]) = 1..Announced(sources[i])
      OBVIOUS
    <3>2. Len(Hosts(sources[i])) = HostCount(sources[i]) /\ Hosts(sources[i]) \in Seq(Address)
      BY SourceFact, HostsFact
    <3>. QED
      BY <1>5, <3>2, LenProperties DEF Announced
  <2>2. slots = {x \in (1..Len(sources)) \X Nat : x[2] \in 1..Announced(sources[x[1]])}
    <3>1. slots = UNION {{i} \X (1..Announced(sources[i])) : i \in 1..Len(sources)}
      BY DEF Slots
    <3>. QED
      BY <3>1
  <2>3. f \in [slots -> Candidates]
    <3>1. \A x \in slots : x[1] \in 1..Len(sources) /\ x[2] \in DOMAIN Hosts(sources[x[1]])
      BY <2>1, <2>2
    <3>2. \A x \in slots : Hosts(sources[x[1]])[x[2]] \in Hosted(x[1])
      BY <3>1 DEF Hosted, Range
    <3>3. \A x \in slots : Hosts(sources[x[1]])[x[2]] \in Candidates
      BY <1>2, <3>1, <3>2
    <3>. QED
      BY <3>3
  <2>4. \A a \in Candidates : \E x \in slots : f[x] = a
    <3>1. SUFFICES ASSUME NEW a \in Candidates PROVE \E x \in slots : f[x] = a
      OBVIOUS
    <3>2. PICK i \in 1..Len(sources) : a \in Range(Hosts(sources[i]))
      BY <1>2 DEF Hosted
    <3>3. PICK k \in 1..Announced(sources[i]) : Hosts(sources[i])[k] = a
      BY <2>1, <3>2 DEF Range
    <3>4. <<i, k>> \in slots
      BY <2>2
    <3>. QED
      BY <3>3, <3>4
  <2>5. f \in Surjection(slots, Candidates)
    BY <2>3, <2>4 DEF Surjection
  <2>6. IsFiniteSet(slots) /\ Cardinality(slots) \in Nat /\ Cardinality(slots) <= Total /\ Total \in Nat
    BY <1>1, SlotsFact
  <2>7. IsFiniteSet(Candidates) /\ Cardinality(Candidates) <= Cardinality(slots)
    BY <2>5, <2>6, FS_Surjection
  <2>. QED
    BY <2>6, <2>7, FS_CardinalityType
<1>. QED
  BY <1>2, <1>4, <1>5

-----------------------------------------------------------------------------
(* Every step keeps every part.                                            *)

LEMMA Frame ==
  ASSUME UNCHANGED <<input, walk>>
  PROVE  (WalkOK <=> WalkOK') /\ Pulled' = Pulled
<1>1. \A i : Hosted(i)' = Hosted(i) /\ Hosts(sources[i])' = Hosts(sources[i])
  BY DEF Hosted, Hosts, Trimmed, Net, input
<1>2. /\ Walked' = Walked /\ Passed' = Passed
      /\ UNCHANGED <<sources, index, head, rest, priorIps, priorNets>>
  BY <1>1 DEF Walked, Passed, walk, input
<1>. QED
  BY <1>1, <1>2 DEF WalkOK, Pulled

LEMMA GivenFrame ==
  ASSUME UNCHANGED input
  PROVE  Candidates' = Candidates /\ Total' = Total /\ \A n : Slots(n)' = Slots(n)
BY DEF Candidates, Hosts, Trimmed, Net, Total, Slots, Announced, HostCount, Smaller, input

LEMMA PhaseNext == PhaseOK /\ [SweepNext]_sweepVars => PhaseOK'
<1> SUFFICES ASSUME PhaseOK, [SweepNext]_sweepVars PROVE PhaseOK'
  OBVIOUS
<1> USE DEF PhaseOK, Sweeping, Probing, input
<1>1. CASE Validate
  BY <1>1 DEF Validate, result
<1>2. CASE LinkLost
  BY <1>2 DEF LinkLost, result
<1>3. CASE Begin
  BY <1>3 DEF Begin
<1>4. CASE Walk
  BY <1>4 DEF Walk
<1>5. CASE Cancel
  BY <1>5 DEF Cancel, result
<1>6. CASE Launch
  BY <1>6 DEF Launch
<1>7. CASE EndConnect
  BY <1>7 DEF EndConnect, Done
<1>8. ASSUME NEW a \in DOMAIN inFlight, Dial(a) PROVE PhaseOK'
  BY <1>8 DEF Dial
<1>9. ASSUME NEW a \in DOMAIN inFlight, NEW o \in Outcomes, Answer(a, o) PROVE PhaseOK'
  BY <1>9 DEF Answer
<1>10. CASE NextWindow
  BY <1>10 DEF NextWindow, Done
<1>11. CASE Collect
  BY <1>11 DEF Collect
<1>12. CASE CloseWindow
  BY <1>12 DEF CloseWindow, Done
<1>13. CASE Send
  BY <1>13 DEF Send
<1>14. CASE EndPass
  BY <1>14 DEF EndPass
<1>15. CASE Fail
  BY <1>15 DEF Fail
<1>16. ASSUME NEW m \in wire, Receive(m) PROVE PhaseOK'
  BY <1>16 DEF Receive
<1>17. CASE Sample
  BY <1>17 DEF Sample
<1>18. CASE Scan
  BY <1>18 DEF Scan, Done
<1>19. CASE UNCHANGED sweepVars
  BY <1>19 DEF sweepVars, result
<1>20. CASE Strayed
  BY <1>20 DEF Strayed, Stray, result
<1>. QED
  BY <1>1, <1>2, <1>3, <1>4, <1>5, <1>6, <1>7, <1>8, <1>9, <1>10, <1>11, <1>12, <1>13,
     <1>14, <1>15, <1>16, <1>17, <1>18, <1>19, <1>20 DEF SweepNext, Strayed

(* A sweep skips an address that it has passed before, and hands out one that *)
(* it has not.                                                                *)
Hands == head # None /\ head \notin Pulled /\ head \in Candidates /\ Pulled' = Pulled \cup {head}

LEMMA WalkNext ==
  ASSUME GivenOK, PhaseOK, WalkOK, mode # "sample", [SweepNext]_sweepVars
  PROVE  /\ WalkOK'
         /\ Launch \/ Collect => Hands
         /\ ~Launch /\ ~Collect => Pulled' = Pulled
<1>1. UNCHANGED input
  BY NextInput
<1>2. CASE Walk
  <2>1. head = None \/ Covered(head)
    BY <1>2 DEF Walk, OpenSource
  <2>2. ~Launch /\ ~Collect
    BY <2>1 DEF Launch, Collect
  <2>3. CASE OpenSource
    BY <1>1, <2>2, <2>3, OpenFact
  <2>4. CASE head # None /\ Covered(head) /\ Step
    <3>1. WalkOK' /\ Pulled' = Pulled \cup {head} /\ head \in Pulled
      BY <1>1, <2>4, StepFact
    <3>. QED
      BY <2>2, <3>1
  <2>. QED
    BY <1>2, <2>3, <2>4 DEF Walk
<1>3. CASE Launch \/ Collect
  <2>1. head # None /\ ~Covered(head) /\ Step
    BY <1>3 DEF Launch, Collect
  <2>2. WalkOK' /\ Hands
    BY <1>1, <2>1, StepFact DEF Hands
  <2>. QED
    BY <1>3, <2>2
<1>4. CASE ~Walk /\ ~Launch /\ ~Collect
  <2>1. UNCHANGED walk
    BY <1>4 DEF SweepNext, sweepVars, Validate, LinkLost, Begin, Cancel, EndConnect, Dial,
       Answer, NextWindow, CloseWindow, Send, EndPass, Fail, Receive, Stray, Sample, Scan,
       PhaseOK
  <2>. QED
    BY <1>1, <1>4, <2>1, Frame
<1>. QED
  BY <1>2, <1>3, <1>4

LEMMA CountFact ==
  ASSUME GivenOK, WalkOK, FlightOK, mode # "sample"
  PROVE  /\ IsFiniteSet(Pulled) /\ Cardinality(Pulled) \in Nat
         /\ IsFiniteSet(DOMAIN inFlight) /\ Cardinality(DOMAIN inFlight) \in Nat
<1>1. IsFiniteSet(Candidates) /\ Pulled \subseteq Candidates
  BY CandidatesFact, PulledFact
<1>2. IsFiniteSet(Pulled)
  BY <1>1, FS_Subset
<1>3. IsFiniteSet(DOMAIN inFlight)
  BY <1>2, FS_Subset DEF FlightOK
<1>. QED
  BY <1>2, <1>3, FS_CardinalityType

LEMMA FlightNext ==
  ASSUME GivenOK, PhaseOK, WalkOK, FlightOK, mode # "sample", [SweepNext]_sweepVars
  PROVE  FlightOK'
<1>1. Pulled \subseteq Pulled' /\ (Launch => head \in Pulled')
  BY WalkNext DEF Hands
<1>2. Len(Ports) \in Nat \ {0}
  BY SweepAssumption, EmptySeq, LenProperties
<1>3. CASE Launch
  <2>1. CASE cancel
    BY <1>1, <1>3, <2>1 DEF Launch, FlightOK, Sweeping
  <2>2. CASE ~cancel
    <3>1. inFlight' = Flying(head) /\ pc' = pc /\ pc = "connect"
      BY <1>3, <2>2 DEF Launch
    <3>2. /\ DOMAIN inFlight' = DOMAIN inFlight \cup {head}
          /\ \A b \in DOMAIN inFlight' : inFlight'[b] = IF b = head THEN 0 ELSE inFlight[b]
      BY <3>1 DEF Flying
    <3>. QED
      BY <1>1, <1>2, <1>3, <3>1, <3>2 DEF FlightOK, Sweeping
  <2>. QED
    BY <2>1, <2>2
<1>4. ASSUME NEW a \in DOMAIN inFlight, Dial(a) PROVE FlightOK'
  <2>1. pc \in Sweeping /\ pc' = pc
    BY <1>4 DEF Dial, Sweeping
  <2>2. CASE cancel
    BY <1>1, <1>4, <2>1, <2>2 DEF Dial, Ended, FlightOK
  <2>3. CASE ~cancel
    BY <1>1, <1>2, <1>4, <2>1, <2>3 DEF Dial, FlightOK
  <2>. QED
    BY <2>2, <2>3
<1>5. ASSUME NEW a \in DOMAIN inFlight, NEW o \in Outcomes, Answer(a, o) PROVE FlightOK'
  <2>1. pc \in Sweeping /\ pc' = pc
    BY <1>5 DEF Answer, Sweeping
  <2>2. CASE Reachable(o) \/ inFlight[a] = Len(Ports)
    BY <1>1, <1>5, <2>1, <2>2 DEF Answer, Ended, FlightOK
  <2>3. CASE ~(Reachable(o) \/ inFlight[a] = Len(Ports))
    <3>1. inFlight' = [inFlight EXCEPT ![a] = @ + 1]
      BY <1>5, <2>3 DEF Answer
    <3>2. inFlight[a] + 1 \in 0..Len(Ports)
      BY <1>2, <2>3 DEF FlightOK
    <3>. QED
      BY <1>1, <2>1, <3>1, <3>2 DEF FlightOK
  <2>. QED
    BY <2>2, <2>3
<1>6. CASE EndConnect
  BY <1>1, <1>6 DEF EndConnect, FlightOK
<1>7. CASE Begin
  BY <1>1, <1>7 DEF Begin, FlightOK, Sweeping
<1>8. CASE UNCHANGED inFlight /\ (pc \in Sweeping => pc' = pc)
  BY <1>1, <1>8 DEF FlightOK
<1>9. Validate \/ LinkLost \/ Walk \/ Cancel \/ NextWindow \/ Collect \/ CloseWindow \/ Send
      \/ EndPass \/ Fail \/ (\E m \in wire : Receive(m)) \/ Strayed \/ UNCHANGED sweepVars
      => UNCHANGED inFlight /\ (pc \in Sweeping => pc' = pc)
  BY DEF Validate, LinkLost, Walk, Cancel, NextWindow, Collect, CloseWindow, Send, EndPass,
     Fail, Receive, Strayed, Stray, sweepVars, Sweeping
<1>. QED
  BY <1>3, <1>4, <1>5, <1>6, <1>7, <1>8, <1>9 DEF SweepNext, Sample, Scan, PhaseOK, Strayed

LEMMA ExhaustedFact ==
  ASSUME GivenOK, Exhausted
  PROVE  Pulled = Candidates
<1>1. Walked = Len(sources) /\ Passed = {}
  BY DEF Exhausted, Walked, Passed
<1>. QED
  BY <1>1, CandidatesFact DEF Pulled

LEMMA TallyNext ==
  ASSUME GivenOK, PhaseOK, WalkOK, FlightOK, TallyOK, mode # "sample",
         window \in Seq(Candidates), [SweepNext]_sweepVars
  PROVE  TallyOK'
<1> DEFINE P == Cardinality(Pulled)
           F == Cardinality(DOMAIN inFlight)
<1>1. IsFiniteSet(Pulled) /\ IsFiniteSet(DOMAIN inFlight) /\ P \in Nat /\ F \in Nat
  BY CountFact
<1>2. Len(window) \in Nat /\ (Len(window) = 0 <=> window = <<>>)
  BY LenProperties, EmptySeq
<1>3. Waiting \in Nat /\ attempted \in Nat
  BY <1>2 DEF Waiting, TallyOK
<1>4. /\ attempted + F + Waiting <= P
      /\ ~cancel /\ pc # "failed" => attempted + F + Waiting = P
      /\ pc = "done" /\ ~cancel => Pulled = Candidates
  BY DEF TallyOK
<1>5. Candidates' = Candidates
  BY NextInput, GivenFrame
<1>6. Launch \/ Collect => Cardinality(Pulled') = P + 1
  BY <1>1, WalkNext, FS_AddElement DEF Hands
<1>7. ~Launch /\ ~Collect => Pulled' = Pulled
  BY WalkNext
<1>8. Walk \/ OpenSource => ~Launch /\ ~Collect
  BY DEF Walk, OpenSource, Launch, Collect
<1> HIDE DEF P, F
<1>9. CASE Validate
  <2>1. /\ pc = "start" /\ pc' \in {"begin", "failed"}
        /\ UNCHANGED <<cancel, inFlight, window, attempted>>
    BY <1>9 DEF Validate, result, burst
  <2>2. Pulled' = Pulled /\ Waiting' = Waiting
    BY <1>7, <2>1 DEF Launch, Collect, Waiting
  <2>. QED
    BY <1>4, <2>1, <2>2 DEF TallyOK
<1>10. CASE LinkLost \/ (\E m \in wire : Receive(m)) \/ Strayed \/ UNCHANGED sweepVars
  <2>1. UNCHANGED <<pc, walk, cancel, inFlight, window, attempted, input>>
    BY <1>10 DEF LinkLost, Receive, Strayed, Stray, sweepVars, result, burst
  <2>2. Pulled' = Pulled /\ Waiting' = Waiting
    BY <2>1, Frame DEF Waiting
  <2>. QED
    BY <1>5, <2>1, <2>2 DEF TallyOK
<1>11. CASE Begin
  <2>1. /\ pc = "begin" /\ pc' \in {"connect", "sample", "window", "failed"}
        /\ attempted' = 0 /\ UNCHANGED <<cancel, inFlight, window>>
    BY <1>11 DEF Begin, Report, burst
  <2>2. attempted = 0
    BY <2>1 DEF PhaseOK
  <2>3. Pulled' = Pulled /\ Waiting' = 0 /\ Waiting = 0
    BY <1>7, <2>1 DEF Launch, Collect, Waiting
  <2>. QED
    BY <1>4, <2>1, <2>2, <2>3 DEF TallyOK
<1>12. CASE Walk
  <2>1. /\ pc \in {"connect", "collect"}
        /\ UNCHANGED <<pc, cancel, inFlight, window, attempted>>
    BY <1>12 DEF Walk, result, burst
  <2>2. Pulled' = Pulled /\ Waiting' = Waiting
    BY <1>7, <1>8, <1>12, <2>1 DEF Waiting
  <2>. QED
    BY <2>1, <2>2 DEF TallyOK
<1>13. CASE Cancel
  <2>1. cancel' /\ UNCHANGED <<pc, walk, input, inFlight, window, attempted>>
    BY <1>13 DEF Cancel, result, burst
  <2>2. Pulled' = Pulled /\ Waiting' = Waiting
    BY <2>1, Frame DEF Waiting
  <2>. QED
    BY <2>1, <2>2 DEF TallyOK
<1>14. CASE Launch
  <2>1. pc = "connect" /\ UNCHANGED <<cancel, window, attempted>>
    BY <1>14 DEF Launch, result, burst
  <2>2. Waiting = 0
    BY <2>1 DEF Waiting
  <2>3. CASE cancel
    <3>1. pc' = "drain" /\ inFlight' = inFlight /\ cancel'
      BY <1>14, <2>1, <2>3 DEF Launch
    <3>2. Waiting' = 0
      BY <3>1 DEF Waiting
    <3>3. attempted' + Cardinality(DOMAIN inFlight') + Waiting' <= Cardinality(Pulled')
      BY <1>1, <1>3, <1>4, <1>6, <1>14, <2>1, <2>2, <3>1, <3>2 DEF F
    <3>. QED
      BY <1>3, <2>1, <3>1, <3>3 DEF TallyOK
  <2>4. CASE ~cancel
    <3>1. pc' = pc /\ inFlight' = Flying(head)
      BY <1>14, <2>4 DEF Launch
    <3>2. Waiting' = 0
      BY <2>1, <3>1 DEF Waiting
    <3>3. DOMAIN inFlight' = DOMAIN inFlight \cup {head}
      BY <3>1 DEF Flying
    <3>4. head \notin DOMAIN inFlight
      BY <1>14, WalkNext DEF Hands, FlightOK
    <3>5. Cardinality(DOMAIN inFlight') = F + 1
      BY <1>1, <3>3, <3>4, FS_AddElement DEF F
    <3>6. attempted' + Cardinality(DOMAIN inFlight') + Waiting' = Cardinality(Pulled')
      BY <1>1, <1>3, <1>4, <1>6, <1>14, <2>1, <2>2, <2>4, <3>2, <3>5
    <3>7. attempted' + Cardinality(DOMAIN inFlight') + Waiting' <= Cardinality(Pulled')
      BY <1>1, <1>3, <1>6, <1>14, <3>6
    <3>. QED
      BY <1>3, <2>1, <3>1, <3>6, <3>7 DEF TallyOK
  <2>. QED
    BY <2>3, <2>4
<1>15. ASSUME NEW a \in DOMAIN inFlight, NEW r \in BOOLEAN, Ended(a, r), pc \in Sweeping,
              UNCHANGED <<pc, cancel, input, walk>>
       PROVE  TallyOK'
  <2>1. DOMAIN inFlight' = DOMAIN inFlight \ {a} /\ attempted' = attempted + 1
    BY <1>15 DEF Ended
  <2>2. Cardinality(DOMAIN inFlight') = F - 1
    BY <1>1, <2>1, FS_RemoveElement DEF F
  <2>3. Waiting = 0 /\ Waiting' = 0
    BY <1>15 DEF Waiting, Sweeping
  <2>4. Pulled' = Pulled
    BY <1>15, Frame
  <2>5. attempted' + Cardinality(DOMAIN inFlight') + Waiting' = attempted + F + Waiting
    BY <1>1, <1>3, <2>1, <2>2, <2>3
  <2>. QED
    BY <1>3, <1>4, <1>15, <2>1, <2>4, <2>5 DEF TallyOK, P, Sweeping
<1>16. ASSUME pc \in Sweeping, DOMAIN inFlight' = DOMAIN inFlight,
              UNCHANGED <<pc, cancel, attempted, input, walk>>
       PROVE  TallyOK'
  <2>1. Waiting = 0 /\ Waiting' = 0 /\ Pulled' = Pulled
    BY <1>16, Frame DEF Waiting, Sweeping
  <2>. QED
    BY <1>4, <1>5, <1>16, <2>1 DEF TallyOK, P, F
<1>17. ASSUME NEW a \in DOMAIN inFlight, Dial(a) PROVE TallyOK'
  <2>1. pc \in Sweeping /\ UNCHANGED <<pc, cancel, input, walk>>
    BY <1>17 DEF Dial, Sweeping
  <2>2. CASE cancel
    BY <1>15, <1>17, <2>1, <2>2 DEF Dial
  <2>3. CASE ~cancel
    <3>1. DOMAIN inFlight' = DOMAIN inFlight /\ UNCHANGED attempted
      BY <1>17, <2>3 DEF Dial, result
    <3>. QED
      BY <1>16, <2>1, <3>1
  <2>. QED
    BY <2>2, <2>3
<1>18. ASSUME NEW a \in DOMAIN inFlight, NEW o \in Outcomes, Answer(a, o) PROVE TallyOK'
  <2>1. pc \in Sweeping /\ UNCHANGED <<pc, cancel, input, walk>>
    BY <1>18 DEF Answer, Sweeping
  <2>2. Reachable(o) \in BOOLEAN
    BY DEF Reachable
  <2>3. CASE Reachable(o) \/ inFlight[a] = Len(Ports)
    BY <1>15, <1>18, <2>1, <2>2, <2>3 DEF Answer
  <2>4. CASE ~(Reachable(o) \/ inFlight[a] = Len(Ports))
    <3>1. DOMAIN inFlight' = DOMAIN inFlight /\ UNCHANGED attempted
      BY <1>18, <2>4 DEF Answer, result
    <3>. QED
      BY <1>16, <2>1, <3>1
  <2>. QED
    BY <2>3, <2>4
<1>19. CASE EndConnect
  <2>1. /\ pc \in Sweeping /\ pc' = "done" /\ attempted' = attempted
        /\ UNCHANGED <<cancel, inFlight, walk, input>>
        /\ pc = "drain" \/ Exhausted
    BY <1>19 DEF EndConnect, Done, Report, Sweeping
  <2>2. Waiting = 0 /\ Waiting' = 0 /\ Pulled' = Pulled
    BY <2>1, Frame DEF Waiting, Sweeping
  <2>3. ~cancel => Pulled = Candidates
    BY <2>1, ExhaustedFact DEF PhaseOK
  <2>4. cancel' = cancel /\ pc # "failed" /\ pc' # "failed"
    BY <2>1 DEF Sweeping
  <2>. QED
    BY <1>4, <1>5, <2>1, <2>2, <2>3, <2>4 DEF TallyOK, P, F
<1>20. CASE NextWindow
  <2>1. /\ pc = "window" /\ window' = <<>> /\ UNCHANGED <<cancel, inFlight, walk, input, attempted>>
        /\ pc' = IF cancel THEN "done" ELSE "collect"
    BY <1>20 DEF NextWindow, Done, result
  <2>2. Waiting = 0 /\ Waiting' = 0 /\ Pulled' = Pulled
    BY <2>1, Frame DEF Waiting
  <2>3. pc' # "failed" /\ (pc' = "done" => cancel')
    BY <2>1
  <2>. QED
    BY <1>4, <2>1, <2>2, <2>3 DEF TallyOK, P, F
<1>21. CASE Collect
  <2>1. /\ pc = "collect" /\ pc' = "collect" /\ window' = Append(window, head)
        /\ UNCHANGED <<cancel, inFlight, attempted>>
    BY <1>21 DEF Collect, result
  <2>2. head \in Candidates
    BY <1>21, WalkNext DEF Hands
  <2>3. Waiting = Len(window) /\ Waiting' = Len(window) + 1
    BY <2>1, <2>2, AppendProperties DEF Waiting
  <2>. QED
    BY <1>1, <1>3, <1>4, <1>6, <1>21, <2>1, <2>3 DEF TallyOK, F
<1>22. CASE CloseWindow
  <2>1. /\ pc = "collect" /\ UNCHANGED <<cancel, inFlight, walk, input, attempted, window>>
        /\ Len(window) = WindowIps \/ Exhausted
        /\ pc' = IF window = <<>> THEN "done" ELSE "send"
    BY <1>22 DEF CloseWindow, Done, result
  <2>2. Pulled' = Pulled
    BY <2>1, Frame
  <2>3. Waiting' = Waiting
    BY <1>2, <2>1 DEF Waiting
  <2>4. pc' = "done" => Pulled = Candidates
    <3>1. WindowIps # 0
      BY SweepAssumption
    <3>. QED
      BY <1>2, <2>1, <3>1, ExhaustedFact
  <2>5. pc' # "failed"
    BY <2>1
  <2>. QED
    BY <1>4, <1>5, <2>1, <2>2, <2>3, <2>4, <2>5 DEF TallyOK, P, F
<1>23. CASE Send
  <2>1. /\ pc = "send" /\ pc' \in {"send", "receive"}
        /\ UNCHANGED <<cancel, inFlight, walk, input, attempted, window>>
    BY <1>23 DEF Send, result
  <2>2. Waiting' = Waiting /\ Pulled' = Pulled /\ pc' # "failed" /\ pc' # "done"
    BY <2>1, Frame DEF Waiting
  <2>. QED
    BY <1>4, <2>1, <2>2 DEF TallyOK, P, F
<1>24. CASE EndPass
  <2>1. pc = "receive" /\ UNCHANGED <<cancel, inFlight, walk, input, window>>
    BY <1>24 DEF EndPass
  <2>2. Pulled' = Pulled /\ Waiting = Len(window)
    BY <2>1, Frame DEF Waiting
  <2>3. CASE pass < Retransmits /\ ~cancel
    <3>1. pc' = "send" /\ attempted' = attempted
      BY <1>24, <2>3 DEF EndPass, result
    <3>2. Waiting' = Waiting
      BY <2>1, <2>2, <3>1 DEF Waiting
    <3>. QED
      BY <1>4, <2>1, <2>2, <3>1, <3>2 DEF TallyOK, P, F
  <2>4. CASE ~(pass < Retransmits /\ ~cancel)
    <3>1. pc' = "window" /\ attempted' = attempted + Len(window)
      BY <1>24, <2>4 DEF EndPass, Report
    <3>2. Waiting' = 0
      BY <3>1 DEF Waiting
    <3>3. attempted' \in Nat /\ attempted' + F + Waiting' = attempted + F + Waiting
      BY <1>1, <1>2, <1>3, <2>2, <3>1, <3>2
    <3>. QED
      BY <1>4, <2>1, <2>2, <3>1, <3>3 DEF TallyOK, P, F
  <2>. QED
    BY <2>3, <2>4
<1>25. CASE Fail
  <2>1. pc' = "failed" /\ UNCHANGED <<cancel, inFlight, walk, input, window, attempted>>
    BY <1>25 DEF Fail, burst
  <2>2. Pulled' = Pulled /\ Waiting' = 0
    BY <2>1, Frame DEF Waiting
  <2>3. attempted + F + 0 <= P
    BY <1>1, <1>3, <1>4
  <2>. QED
    BY <1>3, <2>1, <2>2, <2>3 DEF TallyOK, P, F
<1>. QED
  BY <1>9, <1>10, <1>11, <1>12, <1>13, <1>14, <1>17, <1>18, <1>19, <1>20, <1>21, <1>22,
     <1>23, <1>24, <1>25 DEF SweepNext, Sample, Scan, PhaseOK, Strayed

(* A sample never grows beyond what its sources offer. *)
LEMMA SampleNext ==
  ASSUME GivenOK, PhaseOK, SampleOK, mode = "sample", [SweepNext]_sweepVars
  PROVE  SampleOK'
<1>1. UNCHANGED input /\ \A n : Slots(n)' = Slots(n)
  BY NextInput, GivenFrame
<1>2. CASE Sample
  <2>1. CASE index = Len(sources)
    BY <1>1, <1>2, <2>1 DEF Sample, SampleOK, result, input
  <2>2. CASE index # Len(sources)
    <3> DEFINE s == sources[index + 1]
    <3>1. PICK D \in SUBSET Drawable(s) :
            Cardinality(D) \in 1..SamplePer /\ found' = found \cup D
      BY <1>2, <2>2 DEF Sample
    <3>2. index' = index + 1 /\ attempted' = Cardinality(found')
      BY <1>2, <2>2 DEF Sample
    <3>3. Len(sources) \in Nat /\ index \in 0..(Len(sources) - 1) /\ index + 1 \in 1..Len(sources)
      BY <2>2, LenProperties DEF SampleOK, GivenOK
    <3>4. s \in Source /\ s.size \in Nat \ {0}
      BY <3>3, SourceFact DEF Source
    <3>5. /\ Net(s) \in Seq(Address) /\ Len(Net(s)) = s.size
          /\ Range(Net(s)) \subseteq Address
      <4>1. Net(s) \in Seq(Address) /\ Len(Net(s)) = s.size
        BY <3>4 DEF Net, Address, Source
      <4>. QED
        BY <4>1, ElementOfSeq DEF Range
    <3>6. Drawable(s) \subseteq Range(Net(s))
      <4>1. CASE ~(s.net /\ s.size > 2)
        BY <4>1 DEF Drawable
      <4>2. CASE s.net /\ s.size > 2
        <5>1. \A k \in 2..(s.size - 1) : Net(s)[k] \in Address
          BY <3>4, <3>5, ElementOfSeq
        <5>2. /\ SubSeq(Net(s), 2, s.size - 1) \in Seq(Address)
              /\ Len(SubSeq(Net(s), 2, s.size - 1)) = s.size - 2
              /\ \A k \in 1..(s.size - 2) :
                   SubSeq(Net(s), 2, s.size - 1)[k] = Net(s)[k + 1]
          BY <3>4, <4>2, <5>1, SubSeqProperties
        <5>3. DOMAIN SubSeq(Net(s), 2, s.size - 1) = 1..(s.size - 2)
          BY <5>2, LenProperties
        <5>4. \A k \in 1..(s.size - 2) : k + 1 \in DOMAIN Net(s)
          BY <3>4, <4>2 DEF Net
        <5>. QED
          BY <4>2, <5>2, <5>3, <5>4 DEF Drawable, Range
      <4>. QED
        BY <4>1, <4>2
    <3>7. IsFiniteSet(Range(Net(s))) /\ Cardinality(Range(Net(s))) <= s.size
      <4>1. Net(s) \in Surjection(1..s.size, Range(Net(s)))
        <5>1. DOMAIN Net(s) = 1..s.size /\ Net(s) = [i \in 1..s.size |-> Net(s)[i]]
          BY DEF Net
        <5>2. Range(Net(s)) = {Net(s)[i] : i \in 1..s.size}
          BY <5>1 DEF Range
        <5>. HIDE DEF s
        <5>. QED
          BY <5>1, <5>2 DEF Surjection
      <4>2. IsFiniteSet(1..s.size) /\ Cardinality(1..s.size) = s.size
        <5>. HIDE DEF s
        <5>. QED
          BY <3>4, FS_Interval
      <4>. QED
        BY <4>1, <4>2, FS_Surjection
    <3>8. /\ IsFiniteSet(D) /\ Cardinality(D) \in Nat
          /\ Cardinality(D) <= s.size /\ D \subseteq Address
      <4>1. D \subseteq Range(Net(s))
        BY <3>6
      <4>2. IsFiniteSet(D) /\ Cardinality(D) <= Cardinality(Range(Net(s)))
        BY <3>7, <4>1, FS_Subset
      <4>3. Cardinality(D) \in Nat /\ Cardinality(Range(Net(s))) \in Nat
        BY <3>7, <4>2, FS_CardinalityType
      <4>. QED
        BY <3>4, <3>5, <3>7, <4>1, <4>2, <4>3
    <3>9. Cardinality(D) <= Announced(s) /\ Announced(s) \in Nat
      BY <3>1, <3>4, <3>8, SweepAssumption DEF Announced, Smaller
    <3>10. IsFiniteSet(found') /\ Cardinality(found') <= Cardinality(found) + Cardinality(D)
      <4>1. IsFiniteSet(found) /\ Cardinality(found) \in Nat
        BY FS_CardinalityType DEF SampleOK
      <4>2. /\ IsFiniteSet(found \cup D)
            /\ Cardinality(found \cup D)
                 = Cardinality(found) + Cardinality(D) - Cardinality(found \cap D)
        BY <3>8, <4>1, FS_Union
      <4>3. Cardinality(found \cap D) \in Nat
        BY <4>1, FS_Intersection, FS_CardinalityType
      <4>. QED
        BY <3>1, <3>8, <4>1, <4>2, <4>3
    <3>11. Cardinality(Slots(index + 1)) = Cardinality(Slots(index)) + Announced(s)
      BY <3>3, NextSlotFact
    <3>12. Cardinality(found') <= Cardinality(Slots(index'))
      <4>1. Cardinality(found) \in Nat /\ Cardinality(found') \in Nat
        BY <3>10, FS_CardinalityType DEF SampleOK
      <4>2. Cardinality(Slots(index)) \in Nat /\ Cardinality(found) <= Cardinality(Slots(index))
        BY <3>3, SlotsFact DEF SampleOK
      <4>3. Cardinality(Slots(index')) = Cardinality(Slots(index)) + Announced(s)
        BY <3>2, <3>11
      <4>. HIDE DEF s
      <4>. QED
        BY <3>8, <3>9, <3>10, <4>1, <4>2, <4>3
    <3>. QED
      BY <1>1, <3>1, <3>2, <3>3, <3>8, <3>10, <3>12 DEF SampleOK, input
  <2>. QED
    BY <2>1, <2>2
<1>3. CASE Begin
  <2>1. attempted' = 0 /\ attempted = 0 /\ UNCHANGED <<found, index>>
    BY <1>3 DEF Begin, Report, PhaseOK, walk
  <2>. QED
    BY <1>1, <2>1 DEF SampleOK, input
<1>4. CASE UNCHANGED <<found, attempted, index>>
  BY <1>1, <1>4 DEF SampleOK, input
<1>5. Validate \/ LinkLost \/ Cancel \/ Scan \/ UNCHANGED sweepVars
      => UNCHANGED <<found, attempted, index>>
  BY DEF Validate, LinkLost, Cancel, Scan, sweepVars, result, walk
<1>. QED
  BY <1>2, <1>3, <1>4, <1>5 DEF SweepNext, PhaseOK, Sweeping, Probing, Walk, Launch, EndConnect,
     Dial, Answer, NextWindow, Collect, CloseWindow, Send, EndPass, Fail, Receive, Stray

(* The progress that was sent is one there has been. *)
LEMMA ShownNext ==
  ASSUME GivenOK, PhaseOK, ShownOK, attempted \in Nat, window \in Seq(Address) \/ mode = "sample",
         mode = "sample" => SampleOK /\ SampleOK', [SweepNext]_sweepVars
  PROVE  ShownOK'
<1>1. Total' = Total
  BY NextInput, GivenFrame
<1>2. CASE UNCHANGED <<attempted, shown>>
  BY <1>1, <1>2 DEF ShownOK
<1>3. ASSUME NEW n \in Nat, Report(n) PROVE ShownOK'
  BY <1>1, <1>3 DEF ShownOK, Report
<1>4. ASSUME NEW a, NEW r, Ended(a, r) PROVE ShownOK'
  BY <1>1, <1>4 DEF ShownOK, Ended
<1>5. CASE Begin
  BY <1>3, <1>5 DEF Begin
<1>6. ASSUME NEW a, Dial(a) PROVE ShownOK'
  BY <1>2, <1>4, <1>6 DEF Dial, result
<1>7. ASSUME NEW a, NEW o, Answer(a, o) PROVE ShownOK'
  BY <1>2, <1>4, <1>7 DEF Answer, result
<1>8. CASE EndConnect
  BY <1>3, <1>8 DEF EndConnect
<1>9. CASE EndPass
  <2>1. mode = "syn" /\ Len(window) \in Nat
    BY <1>9, LenProperties DEF EndPass, PhaseOK, Probing
  <2>2. attempted + Len(window) \in Nat
    BY <2>1
  <2>. QED
    BY <1>2, <1>3, <1>9, <2>2 DEF EndPass, result
<1>10. CASE Sample
  <2>1. CASE index = Len(sources)
    BY <1>2, <1>10, <2>1 DEF Sample, result
  <2>2. CASE index # Len(sources)
    <3>1. PICK D : found' = found \cup D
      BY <1>10, <2>2 DEF Sample
    <3>2. mode = "sample" /\ attempted' = Cardinality(found') /\ shown' = shown
      BY <1>10, <2>2 DEF Sample, PhaseOK
    <3>3. IsFiniteSet(found) /\ IsFiniteSet(found') /\ attempted = Cardinality(found)
      BY <3>2 DEF SampleOK
    <3>4. attempted <= attempted' /\ attempted' \in Nat
      BY <3>1, <3>2, <3>3, FS_Subset, FS_CardinalityType
    <3>. QED
      BY <1>1, <3>2, <3>4 DEF ShownOK
  <2>. QED
    BY <2>1, <2>2
<1>11. Validate \/ LinkLost \/ Walk \/ Cancel \/ Launch \/ NextWindow \/ Collect \/ CloseWindow
       \/ Send \/ Fail \/ (\E m \in wire : Receive(m)) \/ Strayed \/ Scan \/ UNCHANGED sweepVars
       => UNCHANGED <<attempted, shown>>
  BY DEF Validate, LinkLost, Walk, Cancel, Launch, NextWindow, Collect, CloseWindow, Send, Fail,
     Receive, Strayed, Stray, Scan, sweepVars, result
<1>. QED
  BY <1>2, <1>5, <1>6, <1>7, <1>8, <1>9, <1>10, <1>11 DEF SweepNext, Strayed

LEMMA PulledAddress ==
  ASSUME GivenOK, WalkOK
  PROVE  Pulled \subseteq Address
BY PulledFact, CandidatesFact

(* What is found has answered: an answer to a frame is made by an address that *)
(* listens, one to an earlier window is no different, and any other is the one *)
(* that a peer of this machine gives to another connection.                    *)
LEMMA FoundNext ==
  ASSUME GivenOK, PhaseOK, WalkOK, FlightOK, FoundOK, mode # "sample", [SweepNext]_sweepVars
  PROVE  FoundOK'
<1>1. UNCHANGED input /\ Candidates' = Candidates
  BY NextInput, GivenFrame
<1>2. \A a : Answers(a)' <=> Answers(a)
  BY <1>1 DEF Answers, Listens, input
<1>3. Len(Ports) \in Nat \ {0} /\ DOMAIN Ports = 1..Len(Ports)
  BY SweepAssumption, EmptySeq, LenProperties
<1>4. Len(window) \in Nat
  BY LenProperties DEF FoundOK
<1>5. CASE UNCHANGED <<found, wire, window>> /\ pc' # "send"
  BY <1>1, <1>2, <1>5 DEF FoundOK
<1>6. CASE UNCHANGED <<found, wire, window, next, pc>>
  BY <1>1, <1>2, <1>6 DEF FoundOK, Pairs
<1>7. ASSUME NEW a \in DOMAIN inFlight, NEW o \in Outcomes, Answer(a, o) PROVE FoundOK'
  <2>1. UNCHANGED <<wire, window, pc>> /\ pc # "send"
    BY <1>7 DEF Answer, burst
  <2>2. CASE Reachable(o)
    <3>1. found' = found \cup {a} /\ inFlight[a] # 0 /\ <<a, Ports[inFlight[a]]>> \in listening
      BY <1>7, <2>2 DEF Answer, Ended, Reachable
    <3>2. inFlight[a] \in DOMAIN Ports
      BY <1>3, <3>1 DEF FlightOK
    <3>3. a \in Candidates
      BY PulledFact DEF FlightOK
    <3>4. Answers(a)
      BY <3>1, <3>2, <3>3 DEF Answers, Listens
    <3>. QED
      BY <1>1, <1>2, <2>1, <3>1, <3>4 DEF FoundOK
  <2>3. CASE ~Reachable(o)
    <3>1. found' = found
      BY <1>7, <2>3 DEF Answer, Ended, result
    <3>. QED
      BY <1>5, <2>1, <3>1
  <2>. QED
    BY <2>2, <2>3
<1>8. ASSUME NEW a \in DOMAIN inFlight, Dial(a) PROVE FoundOK'
  BY <1>5, <1>8 DEF Dial, Ended, result, burst
<1>9. CASE NextWindow
  <2>1. UNCHANGED <<found, wire>> /\ window' = <<>> /\ pc' # "send"
    BY <1>9 DEF NextWindow, Done, result
  <2>2. window' \in Seq(Candidates)
    BY <2>1, EmptySeq
  <2>. QED
    BY <1>1, <1>2, <2>1, <2>2 DEF FoundOK
<1>10. CASE Collect
  <2>1. UNCHANGED <<found, wire, pc>> /\ pc = "collect" /\ window' = Append(window, head)
    BY <1>10 DEF Collect, result
  <2>2. head \in Candidates
    BY <1>10, WalkNext DEF Hands
  <2>3. window' \in Seq(Candidates)
    BY <2>1, <2>2, AppendProperties DEF FoundOK
  <2>. QED
    BY <1>1, <1>2, <2>1, <2>3 DEF FoundOK
<1>11. CASE CloseWindow
  <2>1. UNCHANGED <<found, wire, window>> /\ next' = 0
    BY <1>11 DEF CloseWindow, result
  <2>2. next' \in 0..Pairs /\ Pairs' = Pairs
    BY <1>3, <1>4, <2>1 DEF Pairs
  <2>. QED
    BY <1>1, <1>2, <2>1, <2>2 DEF FoundOK
<1>12. CASE Send
  <2>1. pc = "send" /\ UNCHANGED <<found, window>>
    BY <1>12 DEF Send, result
  <2>2. Pairs \in Nat /\ Pairs' = Pairs /\ next \in 0..Pairs
    BY <1>3, <1>4, <2>1 DEF Pairs, FoundOK
  <2>3. CASE cancel \/ next = Pairs
    BY <1>5, <1>12, <2>1, <2>3 DEF Send
  <2>4. CASE ~(cancel \/ next = Pairs)
    <3> DEFINE a == window[(next \div Len(Ports)) + 1]
               port == Ports[(next % Len(Ports)) + 1]
               reply == [from |-> a, kind |-> IF <<a, port>> \in listening THEN "synack" ELSE "rst",
                         to |-> base + next]
    <3>1. /\ wire' = wire \/ wire' = wire \cup {reply}
          /\ next' = next + 1
      BY <1>12, <2>4 DEF Send, OnWire
    <3>2. (next \div Len(Ports)) + 1 \in 1..Len(window) /\ (next % Len(Ports)) + 1 \in 1..Len(Ports)
      <4>1. next \in Nat /\ next < Len(window) * Len(Ports)
        BY <1>3, <1>4, <2>2, <2>4 DEF Pairs
      <4>. QED
        BY <1>3, <1>4, <4>1, PairFact
    <3>3. a \in Candidates
      BY <3>2, ElementOfSeq DEF FoundOK
    <3>4. reply.kind = "synack" => Answers(reply.from)
      BY <1>3, <3>2, <3>3 DEF Answers, Listens
    <3>5. \A m \in wire' : m.kind = "synack" => Answers(m.from)
      BY <3>1, <3>4 DEF FoundOK
    <3>6. next' \in 0..Pairs
      BY <2>2, <2>4, <3>1
    <3>. QED
      BY <1>1, <1>2, <2>1, <2>2, <3>5, <3>6 DEF FoundOK
  <2>. QED
    BY <2>3, <2>4
<1>13. ASSUME NEW m \in wire, Receive(m) PROVE FoundOK'
  <2>1. wire' \subseteq wire /\ UNCHANGED <<window, pc>> /\ pc # "send"
    BY <1>13 DEF Receive, burst
  <2>2. \A a \in found' : Answers(a)
    BY <1>13 DEF Receive, Accepted, FoundOK
  <2>. QED
    BY <1>1, <1>2, <2>1, <2>2 DEF FoundOK
<1>18. ASSUME NEW a \in Strangers, NEW p \in 1..PortSpace, Stray(a, p) PROVE FoundOK'
  <2> DEFINE reply == [from |-> a, kind |-> "synack", to |-> p]
  <2>1. wire' = wire \cup {reply} /\ UNCHANGED <<found, window, next, pc>> /\ mode = "syn"
    BY <1>18 DEF Stray, OnWire, result, burst, PhaseOK, Probing
  <2>2. \A m \in wire' : m.kind = "synack" => Answers(m.from)
    BY <2>1 DEF FoundOK, Answers
  <2>. QED
    BY <1>1, <1>2, <2>1, <2>2 DEF FoundOK, Pairs
<1>14. CASE EndPass
  <2>1. UNCHANGED <<found, wire, window>> /\ (pc' = "send" => next' = 0)
    BY <1>14 DEF EndPass, result
  <2>2. 0 \in 0..Pairs /\ Pairs' = Pairs
    BY <1>3, <1>4, <2>1 DEF Pairs
  <2>. QED
    BY <1>1, <1>2, <2>1, <2>2 DEF FoundOK
<1>15. CASE Fail
  <2>1. found' = {} /\ UNCHANGED <<wire, window>> /\ pc' # "send"
    BY <1>15 DEF Fail, burst
  <2>. QED
    BY <1>1, <1>2, <2>1 DEF FoundOK
<1>16. LinkLost \/ Walk \/ Cancel \/ UNCHANGED sweepVars => UNCHANGED <<found, wire, window, next, pc>>
  BY DEF LinkLost, Walk, Cancel, sweepVars, result, burst
<1>17. Validate \/ Begin \/ Launch \/ EndConnect => UNCHANGED <<found, wire, window>> /\ pc' # "send"
  BY DEF Validate, Begin, Launch, EndConnect, Done, result, burst
<1>. QED
  BY <1>5, <1>6, <1>7, <1>8, <1>9, <1>10, <1>11, <1>12, <1>13, <1>14, <1>15, <1>16, <1>17, <1>18
     DEF SweepNext, Sample, Scan, PhaseOK

LEMMA PathNext ==
  ASSUME PhaseOK, PathOK,
         mode # "sample" => DOMAIN inFlight \subseteq Address,
         mode = "sample" => found \subseteq Address,
         [SweepNext]_sweepVars
  PROVE  PathOK'
<1>1. UNCHANGED input
  BY NextInput
<1>2. CASE UNCHANGED <<pc, pinned, bound, routes, found>>
  BY <1>1, <1>2 DEF PathOK, Leaving, Resolved, input
<1>3. CASE Validate
  <2>1. pc = "start" /\ UNCHANGED <<bound, routes, found>> /\ routes = {}
    BY <1>3 DEF Validate, result, PathOK, Sweeping
  <2>2. \/ pc' = "begin" /\ pinned' = IF There(pinned) THEN pinned ELSE Unpinned
        \/ pc' = "failed"
    BY <1>3 DEF Validate
  <2>3. pc' = "begin" => pinned' = Unpinned \/ Exists(table, pinned')
    BY <2>2 DEF There
  <2>. QED
    BY <1>1, <2>1, <2>2, <2>3 DEF PathOK, Sweeping, input
<1>4. CASE Begin
  <2>1. pc = "begin" /\ UNCHANGED <<pinned, routes, found>> /\ routes = {}
    BY <1>4 DEF Begin, PathOK, Sweeping
  <2>2. /\ pc' # "done" /\ pc' # "drain"
        /\ pc' = "connect" => bound' = Resolved(pinned)
    BY <1>4 DEF Begin
  <2>. QED
    BY <1>1, <2>1, <2>2 DEF PathOK, Sweeping, Resolved, input
<1>5. CASE Launch
  <2>1. pc \in Sweeping /\ pc' \in Sweeping /\ UNCHANGED <<pinned, bound, routes, found>>
    BY <1>5 DEF Launch, Sweeping, path, result
  <2>. QED
    BY <1>1, <2>1 DEF PathOK, Leaving, Resolved, Sweeping, input
<1>6. ASSUME NEW a \in DOMAIN inFlight, Dial(a) PROVE PathOK'
  <2>1. pc \in Sweeping /\ mode = "connect" /\ a[1] \in Families
    BY <1>6 DEF Dial, PhaseOK, Sweeping, Address
  <2>2. UNCHANGED <<pc, pinned, bound>>
    BY <1>6 DEF Dial
  <2>3. routes' = routes \/ routes' = routes \cup {[to |-> a, via |-> Pick(bound, a)]}
    BY <1>6 DEF Dial
  <2>4. \A r \in routes' : Leaving(r)
    BY <2>1, <2>3 DEF PathOK, Leaving
  <2>. QED
    BY <1>1, <2>1, <2>2, <2>4 DEF PathOK, Leaving, Resolved, Sweeping, input
<1>7. ASSUME NEW a \in DOMAIN inFlight, NEW o \in Outcomes, Answer(a, o) PROVE PathOK'
  <2>1. pc \in Sweeping /\ mode = "connect" /\ UNCHANGED <<pc, pinned, bound, routes>>
    BY <1>7 DEF Answer, PhaseOK, Sweeping, path
  <2>. QED
    BY <1>1, <2>1 DEF PathOK, Leaving, Resolved, Sweeping, input
<1>8. CASE EndConnect
  <2>1. pc \in Sweeping /\ pc' = "done" /\ mode = "connect" /\ UNCHANGED <<pinned, bound, routes>>
    BY <1>8 DEF EndConnect, Done, PhaseOK, Sweeping, path
  <2>. QED
    BY <1>1, <2>1 DEF PathOK, Leaving, Resolved, Sweeping, input
<1>9. ASSUME mode = "syn", pc # "start", UNCHANGED <<pinned, bound, routes>>,
             pc \in Probing, pc' \in Probing \cup {"done", "failed"}
      PROVE  PathOK'
  BY <1>1, <1>9 DEF PathOK, Leaving, Resolved, Sweeping, Probing, input
<1>10. NextWindow \/ Collect \/ CloseWindow \/ Send \/ EndPass \/ Fail \/ (\E m \in wire : Receive(m))
       \/ Strayed
       => /\ pc \in Probing /\ pc' \in Probing \cup {"done", "failed"}
          /\ UNCHANGED <<pinned, bound, routes>>
  BY DEF NextWindow, Collect, CloseWindow, Send, EndPass, Fail, Receive, Strayed, Stray, Done,
     Probing, path
<1>11. CASE Sample
  <2>1. pc = "sample" /\ pc' \in {"sample", "scan"} /\ UNCHANGED <<pinned, bound, routes>> /\ routes = {}
    BY <1>11 DEF Sample, PathOK, Sweeping, path
  <2>. QED
    BY <1>1, <2>1 DEF PathOK, Sweeping, input
<1>12. CASE Scan
  <2>1. pc = "scan" /\ pc' = "done" /\ mode = "sample" /\ UNCHANGED <<pinned, found>>
    BY <1>12 DEF Scan, Done, PhaseOK, result
  <2>2. /\ bound' = IF \/ pinned # Unpinned /\ ~There(pinned)
                     \/ ~ServesFamilies(Resolved(pinned), found)
                  THEN AutoRoutes ELSE Resolved(pinned)
        /\ routes' = {[to |-> a, via |-> Pick(bound', a)] : a \in found}
    BY <1>12 DEF Scan
  <2>3. \A r \in routes' : r.to \in found /\ r.via = Pick(bound', r.to)
    BY <2>2
  <2>4. \A r \in routes' : r.to[1] \in Families
    BY <2>1, <2>3 DEF Address
  <2>5. \/ bound' = AutoRoutes
        \/ /\ pinned # Unpinned /\ bound' = InterfaceAddrs(table, pinned)
           /\ ServesFamilies(bound', found)
    BY <2>2 DEF Resolved
  <2>6. pinned = Unpinned \/ Exists(table, pinned)
    BY <2>1 DEF PathOK
  <2>. QED
    BY <1>1, <2>1, <2>3, <2>4, <2>5, <2>6 DEF PathOK, Leaving, Sweeping, input
<1>13. LinkLost \/ Walk \/ Cancel \/ UNCHANGED sweepVars => UNCHANGED <<pc, pinned, bound, routes, found>>
  BY DEF LinkLost, Walk, Cancel, sweepVars, path, result
<1>. QED
  BY <1>2, <1>3, <1>4, <1>5, <1>6, <1>7, <1>8, <1>9, <1>10, <1>11, <1>12, <1>13
     DEF SweepNext, PhaseOK, Probing, Strayed

LEMMA InitSweep == SweepInit => SInv
<1> SUFFICES ASSUME SweepInit PROVE SInv
  OBVIOUS
<1>1. GivenOK
  BY InitGiven
<1>2. Len(sources) \in Nat /\ 0 \in 0..Len(sources)
  BY <1>1, LenProperties DEF GivenOK
<1>3. /\ cancel = FALSE /\ pc = "start" /\ index = 0 /\ head = None /\ rest = <<>>
      /\ priorIps = {} /\ priorNets = {} /\ inFlight = <<>> /\ window = <<>> /\ wire = {}
      /\ routes = {} /\ found = {} /\ attempted = 0 /\ shown = [attempted |-> 0, total |-> 0]
  BY DEF SweepInit
<1>4. PhaseOK /\ ShownOK /\ PathOK
  BY <1>3 DEF PhaseOK, ShownOK, PathOK, Sweeping, Probing
<1>5. WalkOK
  BY <1>2, <1>3 DEF WalkOK, Walked
<1>6. Pulled = {}
  BY <1>3 DEF Pulled, Passed, Walked
<1>7. FlightOK /\ TallyOK
  <2>1. DOMAIN inFlight = {} /\ Cardinality({}) = 0
    BY <1>3, FS_EmptySet
  <2>. QED
    BY <1>3, <1>6, <2>1 DEF FlightOK, TallyOK, Waiting, Sweeping
<1>8. FoundOK
  BY <1>3, EmptySeq DEF FoundOK
<1>9. SampleOK
  <2>1. Cardinality(Slots(0)) \in Nat
    BY <1>1, <1>2, SlotsFact
  <2>. QED
    BY <1>2, <1>3, <2>1, FS_EmptySet DEF SampleOK
<1>. QED
  BY <1>1, <1>4, <1>5, <1>7, <1>8, <1>9 DEF SInv

LEMMA NextSweep == SInv /\ [SweepNext]_sweepVars => SInv'
<1> SUFFICES ASSUME SInv, [SweepNext]_sweepVars PROVE SInv'
  OBVIOUS
<1>1. GivenOK /\ PhaseOK /\ ShownOK /\ PathOK /\ GivenOK' /\ PhaseOK' /\ mode' = mode
  BY NextInput, NextGiven, PhaseNext DEF SInv, input
<1>2. CASE mode # "sample"
  <2>1. WalkOK /\ FlightOK /\ TallyOK /\ FoundOK
    BY <1>2 DEF SInv
  <2>2. WalkOK' /\ FlightOK' /\ FoundOK'
    BY <1>1, <1>2, <2>1, WalkNext, FlightNext, FoundNext
  <2>3. TallyOK'
    BY <1>1, <1>2, <2>1, TallyNext DEF FoundOK
  <2>4. window \in Seq(Address)
    BY <1>1, <2>1, CandidatesFact, SeqMonotonic DEF FoundOK
  <2>5. ShownOK'
    BY <1>1, <1>2, <2>1, <2>4, ShownNext DEF TallyOK
  <2>6. PathOK'
    BY <1>1, <1>2, <2>1, PulledAddress, PathNext DEF FlightOK
  <2>. QED
    BY <1>1, <1>2, <2>2, <2>3, <2>5, <2>6 DEF SInv
<1>3. CASE mode = "sample"
  <2>1. SampleOK /\ SampleOK'
    BY <1>1, <1>3, SampleNext DEF SInv
  <2>2. attempted \in Nat
    BY <2>1, FS_CardinalityType DEF SampleOK
  <2>3. ShownOK'
    BY <1>1, <1>3, <2>1, <2>2, ShownNext
  <2>4. PathOK'
    BY <1>1, <1>3, <2>1, PathNext DEF SampleOK
  <2>. QED
    BY <1>1, <1>3, <2>1, <2>3, <2>4 DEF SInv
<1>. QED
  BY <1>2, <1>3

THEOREM SweepInvariance == SweepSpec => []SInv
BY InitSweep, NextSweep, PTL DEF SweepSpec

(* Whatever is lost, late or duplicated, a target that a connect sweep reports *)
(* is in its ranges and accepts connections on one of its ports; so is what a  *)
(* SYN sweep reports, unless it is the peer of another connection of this      *)
(* machine, whatever connections it has (drain_replies asks who answers only   *)
(* by port).                                                                   *)
THEOREM FoundListensHolds == SweepSpec => []FoundListens
<1>1. SInv => FoundListens
  BY DEF SInv, FoundOK, Answers, Listens, FoundListens
<1>. QED
  BY <1>1, SweepInvariance, PTL

(* A sweep that ends by itself has tried every host address of its ranges      *)
(* once, and never shows more than it announced.                               *)
THEOREM SweptOnceHolds == SweepSpec => []SweptOnce
<1>1. ASSUME SInv PROVE SweptOnce
  <2>1. GivenOK /\ ShownOK
    BY <1>1 DEF SInv
  <2>2. CASE mode # "sample"
    <3>1. WalkOK /\ FlightOK /\ TallyOK /\ FoundOK
      BY <1>1, <2>2 DEF SInv
    <3>2. /\ Cardinality(Pulled) \in Nat /\ Cardinality(DOMAIN inFlight) \in Nat
          /\ Waiting \in Nat
      BY <2>1, <2>2, <3>1, CountFact, LenProperties DEF FoundOK, Waiting
    <3>3. IsFiniteSet(Candidates) /\ Cardinality(Candidates) <= Total
      BY <2>1, <2>2, CandidatesFact
    <3>4. Cardinality(Pulled) <= Cardinality(Candidates) /\ Cardinality(Candidates) \in Nat
      BY <2>1, <3>1, <3>3, PulledFact, FS_Subset, FS_CardinalityType
    <3>5. Total \in Nat
      BY <2>1, 0 \in 0..Len(sources), SlotsFact, LenProperties DEF GivenOK
    <3>6. attempted <= Total
      BY <3>1, <3>2, <3>3, <3>4, <3>5 DEF TallyOK
    <3>7. ASSUME pc = "done", ~cancel PROVE attempted = Cardinality(Candidates)
      <4>1. DOMAIN inFlight = {} /\ Waiting = 0 /\ Pulled = Candidates
        BY <3>1, <3>7 DEF FlightOK, Sweeping, Waiting, TallyOK
      <4>2. Cardinality(DOMAIN inFlight) = 0
        BY <4>1, FS_EmptySet
      <4>. QED
        BY <3>1, <3>4, <3>7, <4>1, <4>2 DEF TallyOK
    <3>. QED
      BY <2>1, <3>6, <3>7 DEF SweptOnce, ShownOK
  <2>3. CASE mode = "sample"
    <3>1. SampleOK
      BY <1>1, <2>3 DEF SInv
    <3>2. /\ Cardinality(Slots(index)) \in Nat /\ Total \in Nat
          /\ Cardinality(Slots(index)) <= Total
      BY <2>1, <3>1, SlotsFact DEF SampleOK
    <3>3. attempted \in Nat
      BY <3>1, FS_CardinalityType DEF SampleOK
    <3>4. attempted <= Total
      BY <3>1, <3>2, <3>3 DEF SampleOK
    <3>. QED
      BY <2>1, <2>3, <3>4 DEF SweptOnce, ShownOK
  <2>. QED
    BY <2>2, <2>3
<1>. QED
  BY <1>1, SweepInvariance, PTL

(* A connect leaves by the pinned interface whenever that has an address of    *)
(* the family, with the best one, and a sample leaves by it as a whole or not  *)
(* at all.                                                                     *)
THEOREM RoutesPinnedHolds == SweepSpec => []RoutesPinned
<1>1. ASSUME SInv PROVE RoutesPinned
  <2>1. GivenOK /\ PhaseOK /\ PathOK
    BY <1>1 DEF SInv
  <2> DEFINE addrs == Entry(table, pinned).addrs
  <2>2. ASSUME NEW r \in routes
        PROVE  IF r.via # NoAddr
               THEN /\ pinned # Unpinned /\ \E k \in Family(addrs, r.to[1]) : r.via = addrs[k]
                    /\ \/ OffLink(r.via)
                       \/ \A k \in Family(addrs, r.to[1]) : ~OffLink(addrs[k])
               ELSE mode = "connect" /\ pinned # Unpinned => Family(addrs, r.to[1]) = {}
    <3>1. r.to[1] \in Families /\ r.via = bound[r.to[1]]
      BY <2>1 DEF PathOK, Leaving, Pick
    <3>2. \/ bound = AutoRoutes /\ (mode = "connect" => pinned = Unpinned)
          \/ pinned # Unpinned /\ bound = InterfaceAddrs(table, pinned)
      BY <2>1 DEF PathOK, GivenOK, Resolved
    <3>3. CASE bound = AutoRoutes /\ (mode = "connect" => pinned = Unpinned)
      BY <3>1, <3>3 DEF AutoRoutes
    <3>4. CASE pinned # Unpinned /\ bound = InterfaceAddrs(table, pinned)
      <4>1. Exists(table, pinned)
        BY <2>1, <3>4 DEF PathOK, Sweeping
      <4>2. IsTable(addrs)
        BY <2>1, <4>1 DEF Exists, Entry, GivenOK
      <4>3. r.via = Preferred(addrs, r.to[1])
        BY <3>1, <3>4 DEF InterfaceAddrs
      <4>. HIDE DEF addrs
      <4>. QED
        BY <3>1, <3>4, <4>2, <4>3, PreferredFact
    <3>. QED
      BY <3>2, <3>3, <3>4
  <2>3. ASSUME mode = "sample", NEW r \in routes, NEW q \in routes
        PROVE  r.via = NoAddr <=> q.via = NoAddr
    <3>1. /\ r.to[1] \in Families /\ r.via = bound[r.to[1]] /\ r.to \in found
          /\ q.to[1] \in Families /\ q.via = bound[q.to[1]] /\ q.to \in found
      BY <2>1, <2>3 DEF PathOK, Leaving, Pick
    <3>2. bound = AutoRoutes \/ ServesFamilies(bound, found)
      BY <2>1, <2>3 DEF PathOK
    <3>. QED
      BY <3>1, <3>2 DEF AutoRoutes, ServesFamilies
  <2>. QED
    BY <2>2, <2>3 DEF RoutesPinned
<1>. QED
  BY <1>1, SweepInvariance, PTL
=============================================================================
