----------------------------- MODULE WatchProofs -----------------------------
(***************************************************************************)
(* Theorems about Watch, for any targets, scores, seeds, profiles and      *)
(* policy, and any crashes and restarts.                                   *)
(*                                                                         *)
(* The properties compare the recommendation with the history of a state,  *)
(* which the code does not keep.  The inductive invariant says that in     *)
(* memory and on disk the counters the code does keep never claim more     *)
(* than that history.                                                      *)
(***************************************************************************)
EXTENDS Watch, FiniteSetTheorems, TLAPS

(* The counters of s claim no more than its history. *)
Honest(s) ==
  /\ s.candidate # None => s.candidate_streak <= s.log.lead[s.candidate]
  /\ s.candidate = None => s.candidate_streak = 0
  /\ s.unhealthy_streak <= s.log.down
  /\ s.stable_primary = None => s.unhealthy_streak = 0
  /\ \A a \in s.last_switch : a <= s.log.calm
  /\ s.last_switch = {} => s.log.calm = Cooldown

IInv ==
  /\ TypeOK
  /\ Honest(state)
  /\ \A s \in Seeds : \A d \in disk[s] : Honest(d)
-----------------------------------------------------------------------------
LEMMA ParameterFact ==
  /\ \A t \in Targets : t \in Nat /\ t # None
  /\ None \in Nat /\ None \notin Targets
  /\ \A x \in Scores : x \in Nat /\ x > 0
  /\ PromoteAfter \in Nat /\ PromoteAfter >= 1
  /\ DemoteAfter \in Nat /\ DemoteAfter >= 1
  /\ Margin \in Nat /\ Cooldown \in Nat /\ Backups \in Nat
BY WatchAssumption DEF None

LEMMA LeastFact ==
  \A a, b \in Nat : /\ Least(a, b) \in Nat /\ Least(a, b) <= a /\ Least(a, b) <= b
                    /\ Least(a, b) \in {a, b}
BY DEF Least

(* The ranking of advance() is a strict total order, so that a non-empty     *)
(* finite set of healthy targets has a best one: of the sets of targets      *)
(* ranked above some target, a minimal one is empty.                         *)
LEMMA BestFact ==
  ASSUME NEW r \in Results
  PROVE  Best(r) \in Healthy(r) \cup {None}
<1> DEFINE Above(u, t) == r[u] > r[t] \/ (r[u] = r[t] /\ u < t)
           Over(t) == {u \in Healthy(r) : Above(u, t)}
           All == {Over(t) : t \in Healthy(r)}
<1>1. CASE Healthy(r) = {}
  BY <1>1 DEF Best
<1>2. CASE Healthy(r) # {}
  <2>1. \A t \in Targets : r[t] \in Nat /\ t \in Nat
    BY ParameterFact DEF Results
  <2>2. Healthy(r) \subseteq Targets /\ IsFiniteSet(Healthy(r))
    BY FS_Subset, WatchAssumption DEF Healthy
  <2>3. All \subseteq FiniteSubsetsOf(Healthy(r)) /\ All # {}
    <3>1. FiniteSubsetsOf(Healthy(r)) = SUBSET Healthy(r)
      BY <2>2, FS_FiniteSubsetsOfFinite
    <3>2. \A t \in Healthy(r) : Over(t) \in SUBSET Healthy(r)
      OBVIOUS
    <3>. HIDE DEF Over
    <3>. QED
      BY <1>2, <3>1, <3>2
  <2>4. PICK X \in All : \A Y \in All :
          <<Y, X>> \notin StrictSubsetOrdering(Healthy(r))
    BY <2>3, WFMin, FS_StrictSubsetOrderingWellFounded
  <2>5. PICK t \in Healthy(r) : X = Over(t)
    BY <2>4
  <2>6. Over(t) = {}
    <3> SUFFICES ASSUME NEW u \in Over(t) PROVE FALSE
      OBVIOUS
    <3>1. u \in Healthy(r) /\ Above(u, t)
      OBVIOUS
    <3>2. Over(u) \subseteq Over(t)
      BY <2>1, <2>2, <3>1
    <3>3. u \notin Over(u)
      BY <2>1, <2>2, <3>1
    <3>4. <<Over(u), Over(t)>> \in StrictSubsetOrdering(Healthy(r))
      BY <3>2, <3>3 DEF StrictSubsetOrdering
    <3>. QED
      BY <2>4, <2>5, <3>1, <3>4
  <2>7. \A u \in Healthy(r) \ {t} : r[t] > r[u] \/ (r[t] = r[u] /\ t < u)
    BY <2>1, <2>2, <2>6
  <2>. QED
    BY <1>2, <2>7 DEF Best
<1>. QED
  BY <1>1, <1>2

LEMMA BegunFact ==
  ASSUME NEW s \in WatchState, Honest(s)
  PROVE  /\ Begun(s) \in WatchState
         /\ \A a \in Begun(s).last_switch : a <= Least(s.log.calm + 1, Cooldown)
         /\ Begun(s).last_switch = {} => s.log.calm = Cooldown
<1> DEFINE aged == {Least(a + 1, Cooldown) : a \in s.last_switch}
<1>1. aged \in SUBSET (0..Cooldown)
  BY ParameterFact, LeastFact DEF WatchState
<1>2. \A a \in aged : a <= Least(s.log.calm + 1, Cooldown)
  BY ParameterFact DEF WatchState, Log, Honest, Least
<1>3. aged = {} => s.log.calm = Cooldown
  BY DEF Honest
<1>4. Begun(s).last_switch = aged
  BY DEF Begun, WatchState
<1>5. Least(s.cycle + 1, 2) \in 0..2
  BY DEF WatchState, Least
<1> HIDE DEF aged
<1>. QED
  BY <1>1, <1>2, <1>3, <1>4, <1>5 DEF Begun, WatchState

LEMMA ObservedFact ==
  ASSUME NEW s \in WatchState, NEW b \in Targets \cup {None},
         s.candidate = None => s.candidate_streak = 0
  PROVE  /\ Observed(s, b) \in WatchState
         /\ Observed(s, b).candidate = b
         /\ Observed(s, b).stable_primary = s.stable_primary
         /\ Observed(s, b).unhealthy_streak = s.unhealthy_streak
         /\ Observed(s, b).last_switch = s.last_switch
         /\ b = None => Observed(s, b).candidate_streak = 0
         /\ b # None =>
              Observed(s, b).candidate_streak \in
                {1} \cup (IF s.candidate = b
                         THEN {Least(s.candidate_streak + 1, PromoteAfter)} ELSE {})
<1>1. CASE b = None
  <2>1. Observed(s, b) = [s EXCEPT !.candidate = b, !.candidate_streak = 0]
    BY <1>1 DEF Observed
  <2>2. Observed(s, b).candidate_streak = 0
    BY <2>1 DEF WatchState
  <2>3. Observed(s, b) \in WatchState
    <3>1. 0 \in 0..PromoteAfter
      BY ParameterFact
    <3>. QED
      BY <2>1, <3>1 DEF WatchState
  <2>4. /\ Observed(s, b).candidate = b
        /\ Observed(s, b).stable_primary = s.stable_primary
        /\ Observed(s, b).unhealthy_streak = s.unhealthy_streak
        /\ Observed(s, b).last_switch = s.last_switch
    BY <2>1 DEF WatchState
  <2>. QED
    BY <1>1, <2>2, <2>3, <2>4
<1>2. CASE b # None /\ s.candidate = b
  <2>1. Least(s.candidate_streak + 1, PromoteAfter) \in 0..PromoteAfter
    BY ParameterFact DEF Least, WatchState
  <2>2. Observed(s, b) =
          [s EXCEPT !.candidate_streak = Least(s.candidate_streak + 1, PromoteAfter)]
    BY <1>2 DEF Observed, WatchState
  <2>. QED
    BY <1>2, <2>1, <2>2 DEF WatchState
<1>3. CASE b # None /\ s.candidate # b
  <2>1. Observed(s, b) = [s EXCEPT !.candidate = b, !.candidate_streak = 1]
    BY <1>3 DEF Observed
  <2>2. Observed(s, b).candidate_streak = 1
    BY <2>1 DEF WatchState
  <2>3. Observed(s, b) \in WatchState
    <3>1. 1 \in 0..PromoteAfter
      BY ParameterFact
    <3>. QED
      BY <2>1, <3>1 DEF WatchState
  <2>4. /\ Observed(s, b).candidate = b
        /\ Observed(s, b).stable_primary = s.stable_primary
        /\ Observed(s, b).unhealthy_streak = s.unhealthy_streak
        /\ Observed(s, b).last_switch = s.last_switch
    BY <2>1 DEF WatchState
  <2>. QED
    BY <1>3, <2>2, <2>3, <2>4
<1>. QED
  BY <1>1, <1>2, <1>3

(* The state that advance() decides on. *)
Prepared(s, r) == Observed(Begun(s), Best(r))

(* What the decision may rely on: p is s with the candidate and the ages     *)
(* brought up to date.                                                       *)
LEMMA PreparedFact ==
  ASSUME NEW s \in WatchState, Honest(s), NEW r \in Results
  PROVE  LET p == Prepared(s, r)
             b == Best(r)
         IN /\ p \in WatchState
            /\ p.stable_primary = s.stable_primary
            /\ p.unhealthy_streak = s.unhealthy_streak
            /\ p.candidate = b
            /\ b = None => p.candidate_streak = 0
            /\ b # None =>
                 p.candidate_streak <= Least(s.log.lead[b] + 1, PromoteAfter)
            /\ \A a \in p.last_switch : a <= Least(s.log.calm + 1, Cooldown)
            /\ p.last_switch = {} => s.log.calm = Cooldown
<1> DEFINE g == Begun(s)
           b == Best(r)
           p == Prepared(s, r)
<1>1. b \in Targets \cup {None}
  BY BestFact DEF Healthy
<1>2. /\ g \in WatchState
      /\ \A a \in g.last_switch : a <= Least(s.log.calm + 1, Cooldown)
      /\ g.last_switch = {} => s.log.calm = Cooldown
  BY BegunFact
<1>3. /\ g.stable_primary = s.stable_primary
      /\ g.unhealthy_streak = s.unhealthy_streak
      /\ g.candidate = s.candidate
      /\ g.candidate_streak = s.candidate_streak
  BY DEF Begun, WatchState
<1>4. /\ p \in WatchState
      /\ p.stable_primary = g.stable_primary
      /\ p.unhealthy_streak = g.unhealthy_streak
      /\ p.candidate = b
      /\ p.last_switch = g.last_switch
      /\ b = None => p.candidate_streak = 0
      /\ b # None =>
           p.candidate_streak \in
             {1} \cup (IF g.candidate = b
                      THEN {Least(g.candidate_streak + 1, PromoteAfter)} ELSE {})
  BY <1>1, <1>2, <1>3, ObservedFact DEF Prepared, Honest
<1> HIDE DEF g, p, b
<1>5. ASSUME b # None
      PROVE  p.candidate_streak <= Least(s.log.lead[b] + 1, PromoteAfter)
  <2>1. s.log.lead[b] \in Nat /\ s.candidate_streak \in Nat
    BY <1>1, <1>5 DEF WatchState, Log
  <2>2. CASE p.candidate_streak = 1
    BY <2>1, <2>2, ParameterFact DEF Least
  <2>3. CASE /\ s.candidate = b
             /\ p.candidate_streak = Least(s.candidate_streak + 1, PromoteAfter)
    <3>1. s.candidate_streak <= s.log.lead[b]
      BY <1>5, <2>3 DEF Honest
    <3>. QED
      BY <2>1, <2>3, <3>1, ParameterFact DEF Least
  <2>. QED
    BY <1>3, <1>4, <1>5, <2>2, <2>3
<1>. QED
  BY <1>2, <1>3, <1>4, <1>5 DEF p, b
-----------------------------------------------------------------------------
(* The three things a decision in state p can do *)

Retained(p, r, d) ==
  /\ d.stable_primary = p.stable_primary
  /\ d.last_switch = p.last_switch
  /\ \/ d.unhealthy_streak = 0
     \/ /\ p.stable_primary \notin Healthy(r) \cup {None}
        /\ d.unhealthy_streak = p.unhealthy_streak + 1

Promotion(p, r, d) ==
  /\ d.stable_primary = Best(r)
  /\ d.stable_primary \notin {p.stable_primary, None}
  /\ d.last_switch = {0}
  /\ d.unhealthy_streak = 0
  /\ MayPromote(p)
  /\ p.stable_primary # None =>
       p.stable_primary \in Healthy(r) /\ Beats(r, Best(r), p.stable_primary)

Demotion(p, r, d) ==
  /\ d.stable_primary = None
  /\ p.stable_primary \notin Healthy(r) \cup {None}
  /\ d.last_switch = {0}
  /\ d.unhealthy_streak = 0
  /\ p.unhealthy_streak + 1 >= DemoteAfter

LEMMA DecidedFact ==
  ASSUME NEW p \in WatchState, NEW r \in Results, p.candidate = Best(r),
         Best(r) = None => p.candidate_streak = 0,
         p.stable_primary = None => p.unhealthy_streak = 0
  PROVE  LET d == Decided(p, r)
         IN /\ d \in WatchState
            /\ d.candidate = p.candidate
            /\ d.candidate_streak = p.candidate_streak
            /\ Retained(p, r, d) \/ Promotion(p, r, d) \/ Demotion(p, r, d)
<1> DEFINE b == Best(r)
           t == p.stable_primary
           d == Decided(p, r)
           k == Kept(p)
<1>1. b \in Healthy(r) \cup {None} /\ Healthy(r) \subseteq Targets /\ None \notin Healthy(r)
  BY BestFact, ParameterFact DEF Healthy
<1>2. 0 \in 0..Cooldown /\ 0 \in 0..(DemoteAfter - 1)
  BY ParameterFact
<1>3. /\ k \in WatchState
      /\ k = [p EXCEPT !.unhealthy_streak = 0]
      /\ k.unhealthy_streak = 0
      /\ k.stable_primary = t
      /\ k.last_switch = p.last_switch
      /\ k.candidate = p.candidate
      /\ k.candidate_streak = p.candidate_streak
  BY <1>2 DEF Kept, WatchState
<1>4. ASSUME NEW q \in WatchState, b # None
      PROVE  /\ Promoted(q, b) \in WatchState
             /\ Promoted(q, b).stable_primary = b
             /\ Promoted(q, b).last_switch = {0}
             /\ Promoted(q, b).unhealthy_streak = q.unhealthy_streak
             /\ Promoted(q, b).candidate = q.candidate
             /\ Promoted(q, b).candidate_streak = q.candidate_streak
  <2>1. b \in Targets /\ {0} \in SUBSET (0..Cooldown)
    BY <1>1, <1>2, <1>4
  <2>. QED
    BY <2>1 DEF Promoted, WatchState
<1> HIDE DEF k, b
<1>5. CASE t # None /\ t \in Healthy(r)
  <2>1. CASE b # t /\ Beats(r, b, t) /\ MayPromote(p)
    <3>1. b # None
      BY <2>1, ParameterFact DEF MayPromote, b
    <3>2. d = Promoted(k, b)
      BY <1>5, <2>1 DEF Decided, k, b
    <3>. QED
      BY <1>3, <1>4, <1>5, <2>1, <3>1, <3>2 DEF Promotion, b
  <2>2. CASE ~ (b # t /\ Beats(r, b, t) /\ MayPromote(p))
    <3>1. d = k
      BY <1>5, <2>2 DEF Decided, k, b
    <3>. QED
      BY <1>3, <3>1 DEF Retained
  <2>. QED
    BY <2>1, <2>2
<1>6. CASE t # None /\ t \notin Healthy(r)
  <2>1. d = Missed(p)
    BY <1>6 DEF Decided
  <2>2. CASE p.unhealthy_streak + 1 >= DemoteAfter
    <3>1. d = [p EXCEPT !.stable_primary = None, !.last_switch = {0},
                        !.unhealthy_streak = 0]
      BY <2>1, <2>2 DEF Missed
    <3>2. {0} \in SUBSET (0..Cooldown)
      BY <1>2
    <3>3. d \in WatchState
      BY <1>2, <3>1, <3>2 DEF WatchState
    <3>4. /\ d.stable_primary = None /\ d.last_switch = {0}
          /\ d.unhealthy_streak = 0 /\ d.candidate = p.candidate
          /\ d.candidate_streak = p.candidate_streak
      BY <3>1 DEF WatchState
    <3>. QED
      BY <1>6, <2>2, <3>3, <3>4 DEF Demotion
  <2>3. CASE ~ (p.unhealthy_streak + 1 >= DemoteAfter)
    <3>1. d = [p EXCEPT !.unhealthy_streak = p.unhealthy_streak + 1]
      BY <2>1, <2>3 DEF Missed
    <3>2. p.unhealthy_streak + 1 \in 0..(DemoteAfter - 1)
      BY <2>3, ParameterFact DEF WatchState
    <3>3. d \in WatchState
      BY <3>1, <3>2 DEF WatchState
    <3>4. /\ d.stable_primary = t /\ d.last_switch = p.last_switch
          /\ d.unhealthy_streak = p.unhealthy_streak + 1
          /\ d.candidate = p.candidate
          /\ d.candidate_streak = p.candidate_streak
      BY <3>1 DEF WatchState
    <3>. QED
      BY <1>6, <3>3, <3>4 DEF Retained
  <2>. QED
    BY <2>2, <2>3
<1>7. CASE t = None
  <2>1. p.unhealthy_streak = 0
    BY <1>7
  <2>2. CASE MayPromote(p)
    <3>1. b # None
      BY <2>2, ParameterFact DEF MayPromote, b
    <3>2. d = Promoted(p, b)
      BY <1>7, <2>2 DEF Decided, b
    <3>. QED
      BY <1>4, <1>7, <2>1, <2>2, <3>1, <3>2 DEF Promotion, b
  <2>3. CASE ~ MayPromote(p)
    <3>1. d = p
      BY <1>7, <2>3 DEF Decided
    <3>. QED
      BY <2>1, <3>1 DEF Retained
  <2>. QED
    BY <2>2, <2>3
<1>. QED
  BY <1>5, <1>6, <1>7

(* State a is d with the history of s one cycle longer. *)
Recorded(s, d, r, a) ==
  /\ a \in WatchState
  /\ a.candidate = d.candidate
  /\ a.candidate_streak = d.candidate_streak
  /\ a.unhealthy_streak = d.unhealthy_streak
  /\ a.stable_primary = d.stable_primary
  /\ a.last_switch = d.last_switch
  /\ Best(r) # None =>
       a.log.lead[Best(r)] = Least(s.log.lead[Best(r)] + 1, PromoteAfter)
  /\ a.log.down = IF s.stable_primary \notin Healthy(r) \cup {None}
                 THEN Least(s.log.down + 1, DemoteAfter) ELSE 0
  /\ a.log.calm = IF d.stable_primary = s.stable_primary
                 THEN Least(s.log.calm + 1, Cooldown) ELSE 0

LEMMA LoggedFact ==
  ASSUME NEW s \in WatchState, NEW d \in WatchState, NEW r \in Results
  PROVE  Recorded(s, d, r, Logged(s, d, r))
<1> DEFINE lead == [t \in Targets |-> IF t = Best(r)
                                     THEN Least(s.log.lead[t] + 1, PromoteAfter) ELSE 0]
           down == IF s.stable_primary \notin Healthy(r) \cup {None}
                   THEN Least(s.log.down + 1, DemoteAfter) ELSE 0
           calm == IF d.stable_primary = s.stable_primary
                   THEN Least(s.log.calm + 1, Cooldown) ELSE 0
           a == Logged(s, d, r)
<1>1. /\ s.log \in Log /\ s.log.lead \in [Targets -> 0..PromoteAfter]
      /\ s.log.down \in 0..DemoteAfter /\ s.log.calm \in 0..Cooldown
  BY DEF WatchState, Log
<1>2. lead \in [Targets -> 0..PromoteAfter]
  BY <1>1, ParameterFact DEF Least
<1>3. down \in 0..DemoteAfter /\ calm \in 0..Cooldown
  BY <1>1, ParameterFact DEF Least
<1>4. Best(r) # None => lead[Best(r)] = Least(s.log.lead[Best(r)] + 1, PromoteAfter)
  BY BestFact DEF Healthy
<1>5. a = [d EXCEPT !.log = [lead |-> lead, down |-> down, calm |-> calm]]
  BY DEF Logged
<1> HIDE DEF lead, down, calm, a
<1>6. [lead |-> lead, down |-> down, calm |-> calm] \in Log
  BY <1>2, <1>3 DEF Log
<1>7. a \in WatchState /\ a.log = [lead |-> lead, down |-> down, calm |-> calm]
  BY <1>5, <1>6 DEF WatchState
<1>8. /\ a.candidate = d.candidate
      /\ a.candidate_streak = d.candidate_streak
      /\ a.unhealthy_streak = d.unhealthy_streak
      /\ a.stable_primary = d.stable_primary
      /\ a.last_switch = d.last_switch
  BY <1>5 DEF WatchState
<1>9. a.log.lead = lead /\ a.log.down = down /\ a.log.calm = calm
  BY <1>7
<1>. QED
  BY <1>4, <1>7, <1>8, <1>9 DEF down, calm, a, Recorded

(* What advance() may do to a state whose counters are honest. *)
Earned(s, r, a) ==
  a.stable_primary # s.stable_primary =>
    /\ a.stable_primary # None => /\ a.log.lead[a.stable_primary] >= PromoteAfter
                                 /\ s.log.calm + 1 >= Cooldown
    /\ a.stable_primary = None => a.log.down >= DemoteAfter
    /\ None \notin {s.stable_primary, a.stable_primary} =>
         /\ s.stable_primary \in Healthy(r)
         /\ Beats(r, a.stable_primary, s.stable_primary)

LEMMA AdvancedFact ==
  ASSUME NEW s \in WatchState, Honest(s), NEW r \in Results
  PROVE  LET a == Advanced(s, r)
         IN a \in WatchState /\ Honest(a) /\ Earned(s, r, a)
<1> DEFINE b == Best(r)
           p == Prepared(s, r)
           d == Decided(p, r)
           a == Advanced(s, r)
<1>1. /\ p \in WatchState
      /\ p.stable_primary = s.stable_primary
      /\ p.unhealthy_streak = s.unhealthy_streak
      /\ p.candidate = b
      /\ b = None => p.candidate_streak = 0
      /\ b # None => p.candidate_streak <= Least(s.log.lead[b] + 1, PromoteAfter)
      /\ \A x \in p.last_switch : x <= Least(s.log.calm + 1, Cooldown)
      /\ p.last_switch = {} => s.log.calm = Cooldown
  BY PreparedFact
<1>2. /\ s.stable_primary = None => s.unhealthy_streak = 0
      /\ s.unhealthy_streak <= s.log.down
  BY DEF Honest
<1>3. /\ d \in WatchState
      /\ d.candidate = p.candidate
      /\ d.candidate_streak = p.candidate_streak
      /\ Retained(p, r, d) \/ Promotion(p, r, d) \/ Demotion(p, r, d)
  BY <1>1, <1>2, DecidedFact
<1>4. a = Logged(s, d, r)
  BY DEF Advanced, Prepared
<1> HIDE DEF a, d, p, b
<1>5. /\ a \in WatchState
      /\ a.candidate = b /\ a.candidate_streak = p.candidate_streak
      /\ a.unhealthy_streak = d.unhealthy_streak
      /\ a.stable_primary = d.stable_primary
      /\ a.last_switch = d.last_switch
      /\ b # None => a.log.lead[b] = Least(s.log.lead[b] + 1, PromoteAfter)
      /\ a.log.down = IF s.stable_primary \notin Healthy(r) \cup {None}
                     THEN Least(s.log.down + 1, DemoteAfter) ELSE 0
      /\ a.log.calm = IF d.stable_primary = s.stable_primary
                     THEN Least(s.log.calm + 1, Cooldown) ELSE 0
  <2>1. Recorded(s, d, r, a)
    BY <1>3, <1>4, LoggedFact
  <2>. QED
    BY <1>1, <1>3, <2>1 DEF Recorded, b
<1>6. /\ s.log.calm \in 0..Cooldown /\ s.log.down \in 0..DemoteAfter
      /\ s.unhealthy_streak \in 0..(DemoteAfter - 1)
      /\ d.unhealthy_streak \in 0..(DemoteAfter - 1)
      /\ p.candidate_streak \in 0..PromoteAfter
      /\ \A x \in p.last_switch : x \in 0..Cooldown
  BY <1>1, <1>3 DEF WatchState, Log
<1>7. /\ a.candidate # None => a.candidate_streak <= a.log.lead[a.candidate]
      /\ a.candidate = None => a.candidate_streak = 0
  BY <1>1, <1>5
<1>8. CASE Retained(p, r, d)
  <2>1. a.stable_primary = s.stable_primary /\ a.last_switch = p.last_switch
    BY <1>1, <1>5, <1>8 DEF Retained
  <2>2. a.log.calm = Least(s.log.calm + 1, Cooldown)
    BY <1>5, <2>1
  <2>3. /\ \A x \in a.last_switch : x <= a.log.calm
        /\ a.last_switch = {} => a.log.calm = Cooldown
    BY <1>1, <1>6, <2>1, <2>2, ParameterFact DEF Least
  <2>4. /\ a.unhealthy_streak <= a.log.down
        /\ a.stable_primary = None => a.unhealthy_streak = 0
    <3>1. CASE d.unhealthy_streak = 0
      BY <1>5, <1>6, <3>1, ParameterFact DEF Least
    <3>2. CASE /\ p.stable_primary \notin Healthy(r) \cup {None}
               /\ d.unhealthy_streak = p.unhealthy_streak + 1
      BY <1>1, <1>2, <1>5, <1>6, <2>1, <3>2, ParameterFact DEF Least
    <3>. QED
      BY <1>8, <3>1, <3>2 DEF Retained
  <2>. QED
    BY <1>5, <1>7, <2>1, <2>3, <2>4 DEF Honest, Earned, a
<1>9. CASE Promotion(p, r, d)
  <2>1. /\ a.stable_primary = b /\ b # None /\ b # s.stable_primary
        /\ a.last_switch = {0} /\ a.unhealthy_streak = 0
        /\ s.stable_primary # None =>
             s.stable_primary \in Healthy(r) /\ Beats(r, b, s.stable_primary)
    BY <1>1, <1>5, <1>9 DEF Promotion, b
  <2>2. p.candidate_streak >= PromoteAfter /\ \A x \in p.last_switch : x >= Cooldown
    BY <1>9 DEF Promotion, MayPromote
  <2>3. a.log.lead[b] >= PromoteAfter
    <3>1. a.candidate_streak <= a.log.lead[b] /\ b \in Targets
      BY <1>5, <1>7, <2>1 DEF WatchState
    <3>2. a.log.lead[b] \in Nat
      BY <1>5, <3>1 DEF WatchState, Log
    <3>. QED
      BY <1>5, <1>6, <2>2, <3>1, <3>2, ParameterFact
  <2>4. s.log.calm + 1 >= Cooldown
    <3>1. CASE p.last_switch = {}
      BY <1>1, <1>6, <3>1, ParameterFact
    <3>2. CASE p.last_switch # {}
      <4>1. PICK x \in p.last_switch : TRUE
        BY <3>2
      <4>2. x >= Cooldown /\ x <= Least(s.log.calm + 1, Cooldown) /\ x \in 0..Cooldown
        BY <1>1, <1>6, <2>2
      <4>. QED
        BY <1>6, <4>2, ParameterFact DEF Least
    <3>. QED
      BY <3>1, <3>2
  <2>5. a.log.calm = 0 /\ a.log.down >= 0
    BY <1>5, <1>6, <2>1, ParameterFact DEF Least
  <2>. QED
    BY <1>5, <1>7, <2>1, <2>3, <2>4, <2>5 DEF Honest, Earned, a
<1>10. CASE Demotion(p, r, d)
  <2>1. /\ a.stable_primary = None /\ s.stable_primary \notin Healthy(r) \cup {None}
        /\ a.last_switch = {0} /\ a.unhealthy_streak = 0
        /\ s.unhealthy_streak + 1 >= DemoteAfter
    BY <1>1, <1>5, <1>10 DEF Demotion
  <2>2. a.log.down >= DemoteAfter
    BY <1>2, <1>5, <1>6, <2>1, ParameterFact DEF Least
  <2>3. a.log.calm = 0 /\ a.log.down >= 0
    BY <1>5, <1>6, <2>1, <2>2, ParameterFact DEF Least
  <2>. QED
    BY <1>5, <1>7, <2>1, <2>2, <2>3 DEF Honest, Earned, a
<1>. QED
  BY <1>3, <1>8, <1>9, <1>10
-----------------------------------------------------------------------------
LEMMA NewStateFact ==
  ASSUME NEW s \in Seeds, NEW p \in Profiles
  PROVE  NewState(s, p) \in WatchState /\ Honest(NewState(s, p))
<1>1. [lead |-> [t \in Targets |-> 0], down |-> 0, calm |-> Cooldown] \in Log
  BY ParameterFact DEF Log
<1>2. /\ 0 \in 0..2 /\ None \in Targets \cup {None} /\ 0 \in 0..PromoteAfter
      /\ 0 \in 0..(DemoteAfter - 1) /\ {} \in SUBSET (0..Cooldown)
  BY ParameterFact
<1>3. NewState(s, p) \in WatchState
  BY <1>1, <1>2 DEF NewState, WatchState
<1>4. Honest(NewState(s, p))
  BY DEF NewState, Honest
<1>. QED
  BY <1>3, <1>4

LEMMA ManifestFact ==
  ASSUME NEW s \in WatchState, NEW r \in Results, NEW m \in Manifests(s, r)
  PROVE  /\ m \in Manifest
         /\ m.primary \in {s.stable_primary, None}
         /\ m.primary # None => m.primary \in Healthy(r)
         /\ m.backups \subseteq Healthy(r) \ {m.primary}
         /\ \A t \in Healthy(r) \ m.backups, u \in m.backups :
              t = m.primary \/ r[t] <= r[u]
<1>1. PICK B \in BackupSets(s, r) : m = [primary |-> Primary(s, r), backups |-> B]
  BY DEF Manifests
<1>2. m.primary = Primary(s, r) /\ m.backups = B
  BY <1>1
<1>3. Healthy(r) \subseteq Targets /\ None \notin Healthy(r)
  BY ParameterFact DEF Healthy
<1>4. /\ B \subseteq Healthy(r) \ {s.stable_primary}
      /\ \A t \in B, u \in (Healthy(r) \ {s.stable_primary}) \ B : r[t] >= r[u]
  BY DEF BackupSets
<1>5. /\ Primary(s, r) \in {s.stable_primary, None}
      /\ s.stable_primary \in Healthy(r) => Primary(s, r) = s.stable_primary
      /\ Primary(s, r) # None => Primary(s, r) \in Healthy(r)
  BY DEF Primary
<1>6. m \in Manifest
  BY <1>1, <1>3, <1>4, <1>5 DEF Manifest
<1>7. B \subseteq Healthy(r) \ {Primary(s, r)}
  BY <1>3, <1>4, <1>5
<1>8. ASSUME NEW t \in Healthy(r) \ B, NEW u \in B
      PROVE  t = Primary(s, r) \/ r[t] <= r[u]
  <2>1. r[t] \in Nat /\ r[u] \in Nat
    BY <1>3, <1>4, ParameterFact DEF Results
  <2>. QED
    BY <1>4, <1>5, <2>1
<1>. QED
  BY <1>2, <1>5, <1>6, <1>7, <1>8

LEMMA AlertFact ==
  ASSUME NEW m, NEW A \in AlertSets(m)
  PROVE  A \subseteq {"recommendation_changed", "regression", "no_healthy_target"}
BY DEF AlertSets

(* The invariant holds initially and every step keeps it. *)
LEMMA InitInvariant == Init => IInv
<1> SUFFICES ASSUME Init PROVE IInv
  OBVIOUS
<1>1. state \in WatchState /\ Honest(state)
  BY NewStateFact DEF Init
<1>2. results \in Results
  BY ParameterFact DEF Init, Results
<1>. QED
  BY <1>1, <1>2 DEF Init, IInv, TypeOK

LEMMA StepInvariant == IInv /\ [Next]_vars => IInv'
<1> SUFFICES ASSUME IInv, [Next]_vars PROVE IInv'
  OBVIOUS
<1> USE DEF IInv
<1>1. state.source \in Seeds
  BY DEF TypeOK, WatchState
<1>2. CASE Start
  <2>1. PICK s \in Seeds, p \in Profiles :
          \/ state' \in disk[s] /\ UNCHANGED disk
          \/ /\ state' = NewState(s, p)
             /\ disk' = [disk EXCEPT ![s] = {NewState(s, p)}]
    BY <1>2 DEF Start
  <2>2. /\ pc' = "scan" /\ prev' = {} /\ changed' = FALSE /\ alerts' = {}
        /\ results' = results /\ manifest' = manifest
    BY <1>2 DEF Start
  <2>3. CASE state' \in disk[s] /\ UNCHANGED disk
    BY <2>2, <2>3 DEF TypeOK
  <2>4. CASE /\ state' = NewState(s, p)
             /\ disk' = [disk EXCEPT ![s] = {NewState(s, p)}]
    <3>1. state' \in WatchState /\ Honest(state')
      BY <2>4, NewStateFact
    <3>2. disk' \in [Seeds -> SUBSET WatchState]
      BY <2>4, <3>1 DEF TypeOK
    <3>3. \A x \in Seeds : \A d \in disk'[x] : Honest(d)
      BY <2>4, <3>1 DEF TypeOK
    <3>. QED
      BY <2>2, <3>1, <3>2, <3>3 DEF TypeOK, Honest
  <2>. QED
    BY <2>1, <2>3, <2>4
<1>3. CASE Scan
  <2>1. PICK r \in Results : results' = r /\ state' = Advanced(state, r)
    BY <1>3 DEF Scan
  <2>2. state' \in WatchState /\ Honest(state')
    BY <2>1, AdvancedFact DEF TypeOK
  <2>. QED
    BY <1>3, <2>1, <2>2 DEF Scan, TypeOK, Honest
<1>4. CASE Publish
  <2>1. PICK m \in Manifests(state, results) :
          manifest' = {m} /\ alerts' \in AlertSets(m)
    BY <1>4 DEF Publish
  <2>2. m \in Manifest
    BY ManifestFact DEF TypeOK
  <2>3. alerts' \subseteq {"recommendation_changed", "regression", "no_healthy_target"}
    BY <2>1, AlertFact
  <2>. QED
    BY <1>4, <2>1, <2>2, <2>3 DEF Publish, TypeOK, Honest
<1>5. CASE Save
  <2>1. /\ disk' = [disk EXCEPT ![state.source] = {state}]
        /\ prev' = manifest /\ pc' \in {"stopped", "scan"}
        /\ UNCHANGED <<state, results, manifest, changed, alerts>>
    BY <1>5 DEF Save
  <2>2. /\ disk' \in [Seeds -> SUBSET WatchState]
        /\ \A x \in Seeds : \A d \in disk'[x] : Honest(d)
    BY <1>1, <2>1 DEF TypeOK
  <2>. QED
    BY <2>1, <2>2 DEF TypeOK, Honest
<1>6. CASE Crash
  BY <1>6 DEF Crash, TypeOK, Honest
<1>7. CASE UNCHANGED vars
  BY <1>7 DEF vars, TypeOK, Honest
<1>. QED
  BY <1>2, <1>3, <1>4, <1>5, <1>6, <1>7 DEF Next

(* In memory and on disk, before and after any crash, the streaks and the    *)
(* age of the last change claim no more than what happened.                  *)
THEOREM WatchInvariance == Spec => []IInv
<1>1. Init => IInv
  BY InitInvariant
<1>2. IInv /\ [Next]_vars => IInv'
  BY StepInvariant
<1>. QED
  BY <1>1, <1>2, PTL DEF Spec

(* The watch state on disk and in memory, the manifest and the alerts have   *)
(* the types cli_watch gives them.                                           *)
THEOREM TypeCorrect == Spec => []TypeOK
<1>1. IInv => TypeOK
  BY DEF IInv
<1>. QED
  BY <1>1, WatchInvariance, PTL
-----------------------------------------------------------------------------
(* Only a cycle moves the recommendation as the properties understand it,    *)
(* and it earns what it moves.                                               *)
LEMMA ChangeFact ==
  ASSUME IInv, [Next]_vars, Changes
  PROVE  Earned(state, results', state')
<1>1. Scan
  BY DEF Changes, Next, Start, Publish, Save, Crash, vars
<1>2. PICK r \in Results : results' = r /\ state' = Advanced(state, r)
  BY <1>1 DEF Scan
<1>. QED
  BY <1>2, AdvancedFact DEF IInv, TypeOK

(* A target becomes the recommendation only after promote_after consecutive  *)
(* cycles as the best healthy target, whatever crashes and restarts lie      *)
(* between them.                                                             *)
THEOREM PromotionIsEarned == Spec => PromotionEarned
<1>1. IInv /\ [Next]_vars =>
        (Changes /\ state'.stable_primary # None =>
           state'.log.lead[state'.stable_primary] >= PromoteAfter)
  BY ChangeFact DEF Earned, Changes
<1>. QED
  BY <1>1, WatchInvariance, PTL DEF Spec, PromotionEarned

(* The recommendation is withdrawn only after demote_after consecutive       *)
(* cycles in which it was not healthy.                                       *)
THEOREM DemotionIsEarned == Spec => DemotionEarned
<1>1. IInv /\ [Next]_vars =>
        (Changes /\ state'.stable_primary = None => state'.log.down >= DemoteAfter)
  BY ChangeFact DEF Earned, Changes
<1>. QED
  BY <1>1, WatchInvariance, PTL DEF Spec, DemotionEarned

(* A target becomes the recommendation only when the recommendation has been *)
(* the same for the cooldown.                                                *)
THEOREM PromotionIsSpaced == Spec => PromotionSpaced
<1>1. IInv /\ [Next]_vars =>
        (Changes /\ state'.stable_primary # None => state.log.calm + 1 >= Cooldown)
  BY ChangeFact DEF Earned, Changes
<1>. QED
  BY <1>1, WatchInvariance, PTL DEF Spec, PromotionSpaced

(* One target replaces another only by the margin, and never an unhealthy    *)
(* one without a demotion in between.                                        *)
THEOREM SwitchDoesPay == Spec => SwitchPays
<1>1. IInv /\ [Next]_vars =>
        (Changes /\ None \notin {state.stable_primary, state'.stable_primary} =>
           /\ state.stable_primary \in Healthy(results')
           /\ results'[state'.stable_primary] * 100
                >= results'[state.stable_primary] * (100 + Margin))
  BY ChangeFact DEF Earned, Changes, Beats
<1>. QED
  BY <1>1, WatchInvariance, PTL DEF Spec, SwitchPays

(* What is published was healthy in this cycle's scan, and the backups are   *)
(* the best of the rest.                                                     *)
THEOREM PublishedIsSound == Spec => []PublishedSound
<1>1. Init => PublishedSound
  BY DEF Init, PublishedSound
<1>2. IInv /\ PublishedSound /\ [Next]_vars => PublishedSound'
  <2> SUFFICES ASSUME IInv, PublishedSound, [Next]_vars PROVE PublishedSound'
    OBVIOUS
  <2>1. CASE Publish
    <3>1. PICK m \in Manifests(state, results) : manifest' = {m}
      BY <2>1 DEF Publish
    <3>2. UNCHANGED <<state, results>>
      BY <2>1 DEF Publish
    <3>3. /\ m.primary \in {state.stable_primary, None}
          /\ m.primary # None => m.primary \in Healthy(results)
          /\ m.backups \subseteq Healthy(results) \ {m.primary}
          /\ \A t \in Healthy(results) \ m.backups, u \in m.backups :
               t = m.primary \/ results[t] <= results[u]
      BY ManifestFact DEF IInv, TypeOK
    <3>4. Healthy(results)' = Healthy(results)
      BY <3>2 DEF Healthy
    <3>. QED
      BY <3>1, <3>2, <3>3, <3>4 DEF PublishedSound
  <2>2. CASE UNCHANGED vars
    BY <2>2 DEF vars, PublishedSound, Healthy
  <2>3. CASE Start \/ Scan \/ Save \/ Crash
    BY <2>3 DEF Start, Scan, Save, Crash, PublishedSound
  <2>. QED
    BY <2>1, <2>2, <2>3 DEF Next
<1>. QED
  BY <1>1, <1>2, WatchInvariance, PTL DEF Spec

(* Between publishing and saving, the manifest already belongs to the state  *)
(* in memory.                                                                *)
Pending ==
  pc = "save" =>
    manifest # {} /\ \A m \in manifest : m.primary \in {state.stable_primary, None}

(* After a cycle and after a stop, a restart goes on from the recommendation *)
(* whose primary was published last.                                         *)
THEOREM FilesDoAgree == Spec => []FilesAgree
<1>1. Init => Pending /\ FilesAgree
  BY DEF Init, Pending, FilesAgree
<1>2. IInv /\ Pending /\ FilesAgree /\ [Next]_vars => (Pending /\ FilesAgree)'
  <2> SUFFICES ASSUME IInv, Pending, FilesAgree, [Next]_vars
               PROVE  (Pending /\ FilesAgree)'
    OBVIOUS
  <2>1. CASE Publish
    <3>1. PICK m \in Manifests(state, results) : manifest' = {m}
      BY <2>1 DEF Publish
    <3>2. m.primary \in {state.stable_primary, None}
      BY ManifestFact DEF IInv, TypeOK
    <3>. QED
      BY <2>1, <3>1, <3>2 DEF Publish, Pending, FilesAgree
  <2>2. CASE Save
    <3>1. state.source \in Seeds /\ disk \in [Seeds -> SUBSET WatchState]
      BY DEF IInv, TypeOK, WatchState
    <3>2. /\ disk'[state.source] = {state} /\ pc' \in {"stopped", "scan"}
          /\ UNCHANGED <<state, manifest>>
      BY <2>2, <3>1 DEF Save
    <3>. QED
      BY <2>2, <3>2 DEF Save, Pending, FilesAgree
  <2>3. CASE UNCHANGED vars
    BY <2>3 DEF vars, Pending, FilesAgree
  <2>4. CASE Start \/ Scan \/ Crash
    BY <2>4 DEF Start, Scan, Crash, Pending, FilesAgree
  <2>. QED
    BY <2>1, <2>2, <2>3, <2>4 DEF Next
<1>3. Pending /\ FilesAgree => FilesAgree
  OBVIOUS
<1>. QED
  BY <1>1, <1>2, <1>3, WatchInvariance, PTL DEF Spec
=============================================================================
