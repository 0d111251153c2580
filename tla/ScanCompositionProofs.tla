------------------------ MODULE ScanCompositionProofs ------------------------
(***************************************************************************)
(* Theorems about ScanComposition, for any CIDRs, hosts and scans, and any *)
(* room in the progress channel.                                           *)
(***************************************************************************)
EXTENDS ScanComposition, FiniteSetTheorems, SequenceTheorems, WellFoundedInduction, TLAPS

USE DEF scan, app

Result == [works : BOOLEAN, health : BOOLEAN, score : Nat, done : Nat]
Entry == [port : Nat, check : Nat, result : Result]
RowType == [works : BOOLEAN, health : BOOLEAN, score : Nat, done : Nat,
            merged : BOOLEAN, fresh : BOOLEAN]
Message == [target : Targets, row : RowType]
Tally == [started : Nat, completed : Nat, targets : Nat]
Snapshot == [event : {"started", "completed", "none"}, target : Targets \cup {NoTarget},
             counts : Tally, total : Nat]

-----------------------------------------------------------------------------
(* Sets of results.                                                        *)

LEMMA TopFact ==
  ASSUME NEW S, IsFiniteSet(S), S # {}, \A r \in S : r.score \in Nat
  PROVE  Top(S) \in S
<1> DEFINE Above(r) == {q \in S : r.score < q.score}
           All == {Above(r) : r \in S}
<1>1. All \subseteq FiniteSubsetsOf(S) /\ All # {}
  <2>1. FiniteSubsetsOf(S) = SUBSET S
    BY FS_FiniteSubsetsOfFinite
  <2>2. \A r \in S : Above(r) \in FiniteSubsetsOf(S)
    BY <2>1
  <2>. HIDE DEF Above
  <2>3. All \subseteq FiniteSubsetsOf(S)
    BY <2>2
  <2>4. \E r : r \in S
    OBVIOUS
  <2>. QED
    BY <2>3, <2>4
<1>2. PICK W \in All : \A V \in All : ~(<<V, W>> \in StrictSubsetOrdering(S))
  BY <1>1, WFMin, FS_StrictSubsetOrderingWellFounded
<1>3. PICK r \in S : W = Above(r)
  BY <1>2
<1>4. ASSUME NEW q \in S, r.score < q.score
      PROVE  FALSE
  <2>1. Above(q) \subseteq Above(r) /\ Above(q) # Above(r)
    <3>1. q \in Above(r) /\ q \notin Above(q)
      BY <1>4
    <3>2. \A k \in Above(q) : k \in Above(r)
      BY <1>4
    <3>. QED
      BY <3>1, <3>2
  <2>2. Above(q) \in All /\ Above(q) \in SUBSET S /\ Above(r) \in SUBSET S
    OBVIOUS
  <2>3. <<Above(q), Above(r)>> \in StrictSubsetOrdering(S)
    BY <2>1, <2>2 DEF StrictSubsetOrdering
  <2>. QED
    BY <2>2, <2>3, <1>2, <1>3
<1>5. \A q \in S : q.score <= r.score
  BY <1>4
<1>. QED
  BY <1>5 DEF Top

(* The merged result of the ports is healthy iff one of them is, and works *)
(* iff one of them does.                                                   *)
LEMMA MergePortsFact ==
  ASSUME NEW S \in SUBSET Result, IsFiniteSet(S), S # {}
  PROVE  /\ MergePorts(S) \in Result
         /\ MergePorts(S).health <=> \E r \in S : r.health
         /\ (\A r \in S : r.health <=> r.works) => (MergePorts(S).works <=> \E r \in S : r.works)
<1> DEFINE healthy == {r \in S : r.health}
           working == {r \in S : r.works}
           best == IF healthy # {} THEN Top(healthy) ELSE IF working # {} THEN Top(working) ELSE Top(S)
<1>1. \A r \in S : r.score \in Nat
  BY DEF Result
<1>2. healthy # {} => Top(healthy) \in healthy
  BY <1>1, FS_Subset, TopFact
<1>3. working # {} => Top(working) \in working
  BY <1>1, FS_Subset, TopFact
<1>4. Top(S) \in S
  BY <1>1, TopFact
<1>5. best \in S
  BY <1>2, <1>3, <1>4
<1>6. healthy # {} => best.health
  BY <1>2
<1>7. healthy = {} /\ working # {} => best.works
  BY <1>3
<1>8. working = {} => ~best.works
  BY <1>5
<1>9. MergePorts(S) = [best EXCEPT !.health = healthy # {}]
  BY DEF MergePorts
<1>10. best \in Result
  BY <1>5
<1>11. healthy # {} <=> \E r \in S : r.health
  OBVIOUS
<1>12. working # {} <=> \E r \in S : r.works
  OBVIOUS
<1>13. healthy # {} /\ (\A r \in S : r.health <=> r.works) => best.works
  BY <1>2
<1>. HIDE DEF best, healthy, working
<1>14. /\ MergePorts(S) \in Result /\ (MergePorts(S).health <=> healthy # {})
       /\ MergePorts(S).works = best.works
  BY <1>9, <1>10 DEF Result
<1>. QED
  BY <1>6, <1>7, <1>8, <1>11, <1>12, <1>13, <1>14

(* The merged result of the checks is healthy iff something answered and   *)
(* every required check did.                                               *)
LEMMA MergeChecksFact ==
  ASSUME NEW E \in SUBSET Entry, IsFiniteSet(E), NEW m \in MergeChecks(E)
  PROVE  /\ m \in Result
         /\ m.health <=> /\ \A c \in run.required : \E e \in E : e.check = c /\ e.result.works
                         /\ \E e \in E : e.result.works
<1> DEFINE needed == {e \in E : e.check \in run.required}
           counted == IF needed = {} THEN E ELSE needed
           total == Cardinality(UNION {{e} \X (1..e.result.done) : e \in counted})
           health == /\ \A c \in run.required : \E e \in E : e.check = c /\ e.result.works
                     /\ \E e \in E : e.result.works
<1>1. PICK s \in {e.result.score : e \in counted} :
        m = [works |-> \E e \in counted : e.result.works, health |-> health, score |-> s, done |-> total]
  BY DEF MergeChecks
<1>2. counted \subseteq E /\ IsFiniteSet(counted)
  BY FS_Subset
<1>3. s \in Nat
  BY <1>2 DEF Entry, Result
<1>4. total \in Nat
  <2> DEFINE block(e) == {e} \X (1..e.result.done)
             blocks == {block(e) : e \in counted}
  <2>1. IsFiniteSet(blocks)
    <3> DEFINE f == [e \in counted |-> block(e)]
    <3>. HIDE DEF block
    <3>1. f \in [counted -> blocks] /\ \A b \in blocks : \E e \in counted : f[e] = b
      OBVIOUS
    <3>2. f \in Surjection(counted, blocks)
      BY <3>1 DEF Surjection
    <3>. QED
      BY <3>2, <1>2, FS_Surjection
  <2>2. ASSUME NEW e \in counted
        PROVE  IsFiniteSet(block(e))
    <3>1. e.result.done \in Nat
      <4>1. e \in Entry
        BY <1>2
      <4>2. e.result \in Result
        BY <4>1 DEF Entry
      <4>. QED
        BY <4>2 DEF Result
    <3>2. \A d \in Nat : IsFiniteSet(1..d)
      BY FS_Interval
    <3>3. IsFiniteSet(1..e.result.done) /\ IsFiniteSet({e})
      BY <3>1, <3>2, FS_Singleton
    <3>. QED
      BY <3>3, FS_Product
  <2>. HIDE DEF block
  <2>3. \A T \in blocks : IsFiniteSet(T)
    BY <2>2
  <2>4. IsFiniteSet(UNION blocks)
    BY <2>1, <2>3, FS_UNION
  <2>. QED
    BY <2>4, FS_CardinalityType DEF block
<1>5. health \in BOOLEAN /\ (\E e \in counted : e.result.works) \in BOOLEAN
  OBVIOUS
<1>. HIDE DEF total, health, counted
<1>6. m \in Result /\ m.health = health
  BY <1>1, <1>3, <1>4, <1>5 DEF Result
<1>. QED
  BY <1>6 DEF health

LEMMA SetToSeqFact ==
  ASSUME NEW S, IsFiniteSet(S)
  PROVE  /\ Cardinality(S) \in Nat
         /\ \A i \in 1..Cardinality(S) : SetToSeq(S)[i] \in S
         /\ \A i, k \in 1..Cardinality(S) : SetToSeq(S)[i] = SetToSeq(S)[k] => i = k
         /\ \A t \in S : \E i \in 1..Cardinality(S) : SetToSeq(S)[i] = t
<1> DEFINE n == Cardinality(S)
<1>1. n \in Nat /\ ExistsBijection(1..n, S)
  BY FS_CardinalityType
<1>2. \E f \in [1..n -> S] : IsInjective(f)
  BY <1>1 DEF ExistsBijection, Bijection, Injection, IsInjective
<1>3. SetToSeq(S) \in [1..n -> S] /\ IsInjective(SetToSeq(S))
  BY <1>2 DEF SetToSeq
<1>4. SetToSeq(S) \in Injection(1..n, S)
  BY <1>3 DEF Injection, IsInjective
<1>5. Cardinality(1..n) = n
  BY <1>1, FS_Interval
<1>6. SetToSeq(S) \in Surjection(1..n, S)
  BY <1>4, <1>5, FS_Injection
<1>. QED
  BY <1>1, <1>3, <1>6 DEF IsInjective, Surjection

-----------------------------------------------------------------------------
(* The inductive invariant.                                                *)

Pending == tx \o held
Index(e) == IF run.checks = 0 THEN e.port ELSE (e.port - 1) * run.checks + e.check

(* Targets of which all is known, of which a probe worked, and which are   *)
(* healthy.                                                                *)
Settled == {t \in Targets : seen[t] # {} /\ (Direct \/ t \notin list \/ pc \in {"passEnd", "done"})}
Working == {t \in Targets : \E e \in seen[t] : e.result.works}
Healthy == {t \in Targets : \E p \in 1..run.ports : /\ Worked(t, p, 0)
                                                    /\ \A c \in run.required : Worked(t, p, c)}

(* What the row of a target says in the end.                               *)
Final(t, row) ==
  /\ row.health <=> t \in Healthy
  /\ run.checks = 0 => (row.works <=> t \in Working)

TypeOK ==
  /\ run \in Runs /\ pc \in {"sweep", "part", "run", "merge", "passEnd", "done"}
  /\ pass \in {1, 2} /\ part \in Nat \ {0}
  /\ tries \in [Targets -> Nat]
  /\ seen \in [Targets -> SUBSET Entry] /\ \A t \in Targets : IsFiniteSet(seen[t])
  /\ held \in Seq(Message) /\ tx \in Seq(Message) /\ progress \in Seq(Snapshot)
  /\ counts \in Tally
  /\ rows \in [Targets -> RowType]
  /\ activity \in [Targets -> [started : Nat, completed : Nat]]
  /\ dash \in [started : Nat, completed : Nat, targets : Nat, total : Nat]
  /\ cancel \in BOOLEAN /\ complete \in BOOLEAN

(* The scan thread: who is on the list, and which rows wait.               *)
Lists ==
  /\ list \subseteq actual /\ actual \subseteq Allowed
  /\ probing \subseteq list /\ reported \subseteq list /\ probing \cap reported = {}
  /\ pc # "run" => probing = {}
  /\ pc \in {"merge", "passEnd", "done"} => reported = {}
  /\ pc = "run" => part <= Parts
  /\ pc = "sweep" => run.kind = "sweep" /\ pass = 1 /\ actual = {}
  /\ \A t \in Targets : seen[t] # {} => t \in actual
  /\ (run.kind = "twoPhase" /\ pass = 1) \/ held = <<>>
  /\ complete => pc = "done" /\ tx = <<>>
  /\ pc = "done" => held = <<>>

(* A target has one result of each part behind it, and of this part when   *)
(* it is reported.                                                         *)
EntryOK(t, e) ==
  /\ e.port \in 1..run.ports /\ e.check \in (IF run.checks = 0 THEN {0} ELSE 1..run.checks)
  /\ e.result.works <=> e.result.health
  /\ t \in list => Index(e) < part \/ (Index(e) = part /\ pc = "run" /\ t \in reported)

Seen ==
  /\ \A t \in Targets : \A e \in seen[t] : EntryOK(t, e)
  /\ \A t \in Targets : \A e, f \in seen[t] : e.port = f.port /\ e.check = f.check => e = f
  /\ pc = "run" => \A t \in reported : \E e \in seen[t] : e.port = Port /\ e.check = Check

(* Rows under way: the merged row of a target is its last.                 *)
MessageOK(i) ==
  LET m == Pending[i]
  IN /\ m.row.fresh
     /\ m.row.merged => /\ m.target \in Settled /\ Final(m.target, m.row)
                        /\ \A k \in DOMAIN Pending : k > i => Pending[k].target # m.target
     /\ run.checks = 0 /\ m.row.works => m.target \in Working

RowOK(t) ==
  /\ rows[t].fresh /\ rows[t].merged =>
       /\ t \in Settled /\ Final(t, rows[t]) /\ \A i \in DOMAIN Pending : Pending[i].target # t
  /\ rows[t].fresh /\ rows[t].works /\ run.checks = 0 => t \in Working
  /\ t \in Settled =>
       \/ \E i \in DOMAIN Pending : Pending[i].target = t /\ Pending[i].row.merged
       \/ rows[t].fresh /\ rows[t].merged

Rows ==
  /\ \A i \in DOMAIN Pending : MessageOK(i)
  /\ \A t \in Targets : RowOK(t)

(* The counters: of the scan, in the snapshots under way, and shown.       *)
SnapshotOK(p) ==
  /\ p.counts.completed <= p.counts.started
  /\ p.counts.targets <= Cardinality(actual)
  /\ p.total # 0 => p.total = Cardinality(actual) /\ pass = 2

Tallied ==
  /\ counts.completed + Cardinality(probing) <= counts.started
  /\ counts.targets = Cardinality(Settled)

Shown ==
  /\ \A i \in DOMAIN progress : SnapshotOK(progress[i])
  /\ dash.completed <= dash.started /\ dash.targets <= Cardinality(actual)
  /\ dash.total # 0 => dash.total = Cardinality(actual) /\ pass = 2
  /\ \A t \in Targets : activity[t].completed <= activity[t].started

Inv == TypeOK /\ Lists /\ Seen /\ Rows /\ Tallied /\ Shown

-----------------------------------------------------------------------------
LEMMA RunFacts ==
  ASSUME TypeOK
  PROVE  /\ run.ports \in Nat \ {0} /\ run.checks \in Nat /\ run.probes \in Nat \ {0}
         /\ run.required \subseteq 1..run.checks
         /\ run.kind \in {"list", "twoPhase", "sweep"} /\ run.hosts \subseteq Hosts
BY CompositionAssumption DEF TypeOK

LEMMA TargetsFinite ==
  /\ IsFiniteSet(Targets)
  /\ \A S \in SUBSET Targets : IsFiniteSet(S) /\ Cardinality(S) \in Nat
<1>1. IsFiniteSet(Targets)
  BY CompositionAssumption, FS_Product DEF Targets
<1>2. \A S \in SUBSET Targets : IsFiniteSet(S)
  BY <1>1, FS_Subset
<1>. QED
  BY <1>1, <1>2, FS_CardinalityType

LEMMA DivFact ==
  ASSUME NEW n \in Nat, NEW k \in Nat \ {0}
  PROVE  n \div k \in Nat /\ n % k \in 0..(k - 1) /\ n = (n \div k) * k + (n % k)
OBVIOUS

LEMMA ProductFact ==
  ASSUME NEW a \in Nat, NEW b \in Nat, NEW k \in Nat \ {0}, a * k < b * k
  PROVE  a < b
<1>. SUFFICES ASSUME b <= a PROVE FALSE
  OBVIOUS
<1>1. PICK d \in Nat : a = b + d
  <2>1. a - b \in Nat /\ a = b + (a - b)
    OBVIOUS
  <2>. QED
    BY <2>1
<1>2. a * k = b * k + d * k
  BY <1>1
<1>3. a * k \in Nat /\ b * k \in Nat /\ d * k \in Nat
  OBVIOUS
<1>. QED
  BY <1>2, <1>3

LEMMA PartFact ==
  ASSUME TypeOK, Lists, pc = "run"
  PROVE  /\ Port \in 1..run.ports /\ Check \in (IF run.checks = 0 THEN {0} ELSE 1..run.checks)
         /\ \A e : e.port = Port /\ e.check = Check => Index(e) = part
<1>1. part \in Nat \ {0} /\ part <= Parts /\ run.ports \in Nat \ {0} /\ run.checks \in Nat
  BY RunFacts DEF TypeOK, Lists
<1>2. CASE run.checks = 0
  BY <1>1, <1>2 DEF Port, Check, Parts, Index
<1>3. CASE run.checks # 0
  <2> DEFINE n == part - 1
             k == run.checks
  <2>1. n \in Nat /\ k \in Nat \ {0} /\ n < run.ports * k
    BY <1>1, <1>3 DEF Parts
  <2>2. n \div k \in Nat /\ n % k \in 0..(k - 1) /\ n = (n \div k) * k + (n % k)
    BY <2>1, DivFact
  <2>3. Port = (n \div k) + 1 /\ Check = (n % k) + 1
    BY <1>3 DEF Port, Check
  <2>4. \A e : Index(e) = (e.port - 1) * k + e.check
    BY <1>3 DEF Index
  <2>5. part = n + 1
    BY <1>1
  <2>. HIDE DEF n, k
  <2> DEFINE q == n \div k
             r == n % k
  <2>6. q \in Nat /\ r \in Nat /\ r < k /\ n = q * k + r
    BY <2>1, <2>2
  <2>7. Port = q + 1 /\ Check = r + 1
    BY <2>3
  <2>. HIDE DEF q, r
  <2>8. q * k < run.ports * k
    <3>1. q * k \in Nat /\ run.ports * k \in Nat
      BY <2>1, <2>6, <1>1
    <3>. QED
      BY <3>1, <2>1, <2>6
  <2>9. q < run.ports
    BY <2>8, <2>6, <2>1, <1>1, ProductFact
  <2>10. \A e : e.port = Port /\ e.check = Check => Index(e) = part
    <3>1. (Port - 1) * k + Check = part
      <4>1. Port - 1 = q
        BY <2>6, <2>7
      <4>2. q * k \in Nat
        BY <2>6, <2>1
      <4>. QED
        BY <4>1, <4>2, <2>5, <2>6, <2>7
    <3>. QED
      BY <3>1, <2>4
  <2>11. Check \in 1..k /\ Port \in 1..run.ports
    BY <2>1, <2>6, <2>7, <2>9, <1>1
  <2>. QED
    BY <2>10, <2>11, <1>3 DEF k
<1>. QED
  BY <1>2, <1>3

(* What one row merged of all that is known of a target says of it.        *)
LEMMA MergedFact ==
  ASSUME TypeOK, Seen, NEW t \in Targets, seen[t] # {}, NEW m \in Merged(t)
  PROVE  m \in Result /\ Final(t, Row(m, TRUE))
<1> DEFINE on(p) == {e \in seen[t] : e.port = p}
           tried == {p \in 1..run.ports : on(p) # {}}
           per == PortResults(t)
           Good(p) == Worked(t, p, 0) /\ \A c \in run.required : Worked(t, p, c)
<1>1. seen[t] \in SUBSET Entry /\ IsFiniteSet(seen[t])
  BY DEF TypeOK
<1>2. \A p : on(p) \in SUBSET Entry /\ IsFiniteSet(on(p))
  BY <1>1, FS_Subset
<1>3. DOMAIN per = tried
      /\ \A p \in tried : per[p] = IF run.checks = 0 THEN {e.result : e \in on(p)} ELSE MergeChecks(on(p))
  BY DEF PortResults
<1>4. IsFiniteSet(tried) /\ tried # {}
  <2>1. run.ports \in Nat
    BY RunFacts
  <2>2. IsFiniteSet(1..run.ports)
    BY <2>1, FS_Interval
  <2>3. PICK e \in seen[t] : TRUE
    OBVIOUS
  <2>4. e.port \in 1..run.ports
    BY <2>3 DEF Seen, EntryOK
  <2>5. e.port \in tried
    BY <2>3, <2>4
  <2>. QED
    BY <2>2, <2>5, FS_Subset
<1>5. PICK pick \in [DOMAIN per -> UNION {per[p] : p \in DOMAIN per}] :
        /\ \A p \in DOMAIN per : pick[p] \in per[p]
        /\ m = MergePorts({pick[p] : p \in DOMAIN per})
  BY DEF Merged
<1> DEFINE S == {pick[p] : p \in tried}
<1>6. ASSUME NEW p \in tried
      PROVE  /\ pick[p] \in Result /\ (pick[p].health <=> Good(p))
             /\ run.checks = 0 => (pick[p].health <=> pick[p].works) /\ (pick[p].works <=> Worked(t, p, 0))
  <2>1. pick[p] \in per[p]
    BY <1>3, <1>5
  <2>2. CASE run.checks = 0
    <3>1. PICK e \in on(p) : pick[p] = e.result
      BY <2>1, <2>2, <1>3
    <3>2. run.required = {}
      BY <2>2, RunFacts
    <3>3. \A f \in on(p) : f = e
      BY <3>1, <2>2 DEF Seen, EntryOK
    <3>4. e.result.works <=> e.result.health
      BY <3>1 DEF Seen, EntryOK
    <3>5. e \in Entry
      BY <3>1, <1>1
    <3>6. e.result \in Result
      BY <3>5 DEF Entry
    <3>7. Worked(t, p, 0) <=> e.result.works
      BY <3>1, <3>3 DEF Worked
    <3>. QED
      BY <3>1, <3>2, <3>4, <3>6, <3>7
  <2>3. CASE run.checks # 0
    <3>1. pick[p] \in MergeChecks(on(p))
      BY <2>1, <2>3, <1>3
    <3>2. \A c \in run.required : c # 0
      BY RunFacts
    <3>. HIDE DEF on
    <3>3. /\ pick[p] \in Result
          /\ pick[p].health <=> /\ \A c \in run.required : \E e \in on(p) : e.check = c /\ e.result.works
                                /\ \E e \in on(p) : e.result.works
      BY <3>1, <1>2, MergeChecksFact
    <3>4. (\E e \in on(p) : e.result.works) <=> Worked(t, p, 0)
      BY DEF Worked, on
    <3>5. \A c \in run.required : (\E e \in on(p) : e.check = c /\ e.result.works) <=> Worked(t, p, c)
      BY <3>2 DEF Worked, on
    <3>. QED
      BY <3>3, <3>4, <3>5, <2>3
  <2>. QED
    BY <2>2, <2>3
<1>7. \A p \in 1..run.ports : Worked(t, p, 0) => p \in tried
  BY DEF Worked
<1>. HIDE DEF tried, Good, per, on
<1>8. S \in SUBSET Result /\ IsFiniteSet(S) /\ S # {}
  <2>1. pick \in [tried -> S]
    BY <1>3, <1>5
  <2>2. pick \in Surjection(tried, S)
    BY <2>1 DEF Surjection
  <2>. QED
    BY <2>2, <1>4, <1>6, FS_Surjection
<1>9. m = MergePorts(S)
  BY <1>3, <1>5
<1>10. (\E r \in S : r.health) <=> \E p \in tried : Good(p)
  BY <1>6
<1>11. run.checks = 0 => /\ (\E r \in S : r.works) <=> \E p \in tried : Worked(t, p, 0)
                         /\ \A r \in S : r.health <=> r.works
  BY <1>6
<1>. HIDE DEF S
<1>12. /\ m \in Result /\ (m.health <=> \E r \in S : r.health)
       /\ (\A r \in S : r.health <=> r.works) => (m.works <=> \E r \in S : r.works)
  BY <1>8, <1>9, MergePortsFact
<1>13. m.health <=> \E p \in 1..run.ports : Good(p)
  BY <1>10, <1>12, <1>7 DEF Good, tried
<1>14. run.checks = 0 => (m.works <=> \E p \in 1..run.ports : Worked(t, p, 0))
  BY <1>11, <1>12, <1>7 DEF tried
<1>15. (\E p \in 1..run.ports : Worked(t, p, 0)) <=> t \in Working
  BY DEF Seen, EntryOK, Worked, Working
<1>16. Row(m, TRUE).health = m.health /\ Row(m, TRUE).works = m.works
  BY DEF Row
<1>. QED
  BY <1>12, <1>13, <1>14, <1>15, <1>16 DEF Final, Healthy, Good

LEMMA RowFact ==
  \A r \in Result, b \in BOOLEAN :
    /\ Row(r, b) \in RowType /\ Row(r, b).fresh /\ Row(r, b).merged = b
    /\ Row(r, b).works = r.works /\ Row(r, b).health = r.health
BY DEF Row, Result, RowType

-----------------------------------------------------------------------------
(* What a step does to the rows under way.                                 *)

LEMMA PendingFact ==
  ASSUME TypeOK
  PROVE  Pending \in Seq(Message) /\ DOMAIN Pending = 1..Len(Pending)
BY ConcatProperties, LenProperties DEF TypeOK, Pending

LEMMA ForwardFact ==
  ASSUME TypeOK, Lists
  PROVE  \A new \in Seq(Message) : Forward(new) =>
           /\ tx' \in Seq(Message) /\ held' \in Seq(Message)
           /\ Pending' = Pending \o new
           /\ (run.kind = "twoPhase" /\ pass = 1) \/ held' = <<>>
<1>. SUFFICES ASSUME NEW new \in Seq(Message)
              PROVE  Forward(new) => /\ tx' \in Seq(Message) /\ held' \in Seq(Message)
                                     /\ Pending' = Pending \o new
                                     /\ (run.kind = "twoPhase" /\ pass = 1) \/ held' = <<>>
  OBVIOUS
<1>1. tx \in Seq(Message) /\ held \in Seq(Message)
  BY DEF TypeOK
<1>2. (tx \o held) \o new = tx \o (held \o new)
  BY <1>1, ConcatAssociative
<1>3. held \o new \in Seq(Message) /\ tx \o new \in Seq(Message)
  BY <1>1, ConcatProperties
<1>4. \A s \in Seq(Message) : s \o <<>> = s
  BY ConcatEmptySeq
<1>5. CASE run.kind = "twoPhase" /\ pass = 1
  BY <1>1, <1>2, <1>3, <1>5 DEF Forward, Pending
<1>6. CASE ~(run.kind = "twoPhase" /\ pass = 1)
  <2>1. held = <<>>
    BY <1>6 DEF Lists
  <2>2. tx \o held = tx
    BY <2>1, <1>1, <1>4
  <2>3. ASSUME Forward(new)
        PROVE  tx' = tx \o new /\ held' = <<>>
    BY <2>1, <2>3, <1>6 DEF Forward
  <2>. QED
    BY <2>1, <2>2, <2>3, <1>1, <1>3, <1>4 DEF Pending
<1>. QED
  BY <1>5, <1>6

(* Rows that follow those under way keep the claims about all of them if   *)
(* they are of targets not settled so far.                                 *)
LEMMA RowsForwarded ==
  ASSUME TypeOK, TypeOK', Rows, run' = run, rows' = rows,
         Settled \subseteq Settled', Working \subseteq Working',
         \A t \in Settled : seen'[t] = seen[t]
  PROVE  \A new \in Seq(Message) :
           /\ Pending' = Pending \o new
           /\ \A i \in DOMAIN new :
                /\ new[i].row.fresh /\ new[i].target \notin Settled
                /\ new[i].row.merged =>
                     /\ new[i].target \in Settled' /\ Final(new[i].target, new[i].row)'
                     /\ \A k \in DOMAIN new : k > i => new[k].target # new[i].target
                /\ run.checks = 0 /\ new[i].row.works => new[i].target \in Working'
           /\ \A t \in Settled' \ Settled : \E i \in DOMAIN new : new[i].target = t /\ new[i].row.merged
           => Rows'
<1>. SUFFICES ASSUME NEW new \in Seq(Message),
                     Pending' = Pending \o new,
                     \A i \in DOMAIN new :
                       /\ new[i].row.fresh /\ new[i].target \notin Settled
                       /\ new[i].row.merged =>
                            /\ new[i].target \in Settled' /\ Final(new[i].target, new[i].row)'
                            /\ \A k \in DOMAIN new : k > i => new[k].target # new[i].target
                       /\ run.checks = 0 /\ new[i].row.works => new[i].target \in Working',
                     \A t \in Settled' \ Settled : \E i \in DOMAIN new : new[i].target = t /\ new[i].row.merged
              PROVE  Rows'
  OBVIOUS
<1>1. PICK n \in Nat : Pending \in Seq(Message) /\ DOMAIN Pending = 1..n /\ Len(Pending) = n
  BY PendingFact, LenProperties
<1>2. Len(new) \in Nat /\ DOMAIN new = 1..Len(new)
  BY LenProperties
<1>3. /\ Len(Pending') = n + Len(new)
      /\ \A i \in 1..(n + Len(new)) : Pending'[i] = IF i <= n THEN Pending[i] ELSE new[i - n]
  <2>1. /\ Len(Pending \o new) = n + Len(new)
        /\ \A i \in 1..(n + Len(new)) : (Pending \o new)[i] = IF i <= n THEN Pending[i] ELSE new[i - n]
    BY <1>1, ConcatProperties
  <2>. QED
    BY <2>1
<1>4. DOMAIN Pending' = 1..(n + Len(new))
  <2>1. Pending' \in Seq(Message)
    BY <1>1, ConcatProperties
  <2>. QED
    BY <2>1, <1>3, LenProperties
<1>5. /\ \A i \in 1..n : i \in DOMAIN Pending' /\ Pending'[i] = Pending[i]
      /\ \A i \in DOMAIN new : n + i \in DOMAIN Pending' /\ Pending'[n + i] = new[i]
      /\ \A i \in DOMAIN Pending' : i \in 1..n \/ \E k \in DOMAIN new : i = n + k
  <2>1. \A i \in 1..n : i \in DOMAIN Pending' /\ Pending'[i] = Pending[i]
    BY <1>2, <1>3, <1>4
  <2>2. \A i \in DOMAIN new : n + i \in DOMAIN Pending' /\ Pending'[n + i] = new[i]
    BY <1>2, <1>3, <1>4
  <2>3. ASSUME NEW i \in DOMAIN Pending', i \notin 1..n
        PROVE  \E k \in DOMAIN new : i = n + k
    <3>1. i - n \in DOMAIN new /\ i = n + (i - n)
      BY <2>3, <1>2, <1>4
    <3>. QED
      BY <3>1
  <2>. QED
    BY <2>1, <2>2, <2>3
<1>6. \A t \in Settled : (t \in Working' <=> t \in Working) /\ (t \in Healthy' <=> t \in Healthy)
  <2>. SUFFICES ASSUME NEW t \in Settled
                PROVE  (t \in Working' <=> t \in Working) /\ (t \in Healthy' <=> t \in Healthy)
    OBVIOUS
  <2>1. t \in Targets /\ seen'[t] = seen[t]
    BY DEF Settled
  <2>2. t \in Working' <=> t \in Working
    BY <2>1 DEF Working
  <2>3. t \in Healthy' <=> t \in Healthy
    <3>1. t \in Healthy <=> \E p \in 1..run.ports :
            /\ \E e \in seen[t] : e.port = p /\ (0 = 0 \/ e.check = 0) /\ e.result.works
            /\ \A c \in run.required :
                 \E e \in seen[t] : e.port = p /\ (c = 0 \/ e.check = c) /\ e.result.works
      BY <2>1 DEF Healthy, Worked
    <3>2. t \in Healthy' <=> \E p \in 1..run'.ports :
            /\ \E e \in seen'[t] : e.port = p /\ (0 = 0 \/ e.check = 0) /\ e.result.works
            /\ \A c \in run'.required :
                 \E e \in seen'[t] : e.port = p /\ (c = 0 \/ e.check = c) /\ e.result.works
      BY <2>1 DEF Healthy, Worked
    <3>. QED
      BY <2>1, <3>1, <3>2
  <2>. QED
    BY <2>2, <2>3
<1>7. \A t \in Settled : \A row : Final(t, row) => Final(t, row)'
  BY <1>6 DEF Final
<1>8. ASSUME NEW i \in 1..n
      PROVE  MessageOK(i)'
  <2>1. MessageOK(i)
    BY <1>1 DEF Rows
  <2>2. Pending'[i] = Pending[i]
    BY <1>5
  <2>3. ASSUME Pending[i].row.merged, NEW k \in DOMAIN Pending', k > i
        PROVE  Pending'[k].target # Pending[i].target
    <3>1. Pending[i].target \in Settled /\ \A l \in 1..n : l > i => Pending[l].target # Pending[i].target
      BY <1>1, <2>1, <2>3 DEF MessageOK
    <3>2. CASE k \in 1..n
      BY <3>1, <3>2, <2>3, <1>5
    <3>3. CASE k \notin 1..n
      BY <3>1, <3>3, <1>5
    <3>. QED
      BY <3>2, <3>3
  <2>4. Pending[i].row.merged => Pending[i].target \in Settled' /\ Final(Pending[i].target, Pending[i].row)'
    BY <2>1, <2>2, <1>7 DEF MessageOK
  <2>5. run.checks = 0 /\ Pending[i].row.works => Pending[i].target \in Working'
    BY <2>1 DEF MessageOK
  <2>6. Pending[i].row.fresh
    BY <2>1 DEF MessageOK
  <2>. QED
    BY <2>2, <2>3, <2>4, <2>5, <2>6 DEF MessageOK
<1>9. ASSUME NEW i \in DOMAIN Pending', i \notin 1..n
      PROVE  MessageOK(i)'
  <2>1. PICK j \in DOMAIN new : i = n + j
    BY <1>5, <1>9
  <2>2. Pending'[i] = new[j]
    BY <2>1, <1>5
  <2>3. ASSUME new[j].row.merged, NEW k \in DOMAIN Pending', k > i
        PROVE  Pending'[k].target # new[j].target
    <3>1. k \notin 1..n
      BY <2>1, <2>3, <1>2
    <3>2. PICK l \in DOMAIN new : k = n + l
      BY <3>1, <1>5
    <3>3. l > j
      BY <2>1, <2>3, <3>2, <1>2
    <3>. QED
      BY <3>2, <3>3, <2>3, <1>5
  <2>. QED
    BY <2>2, <2>3 DEF MessageOK
<1>10. \A i \in DOMAIN Pending' : MessageOK(i)'
  <2>. SUFFICES ASSUME NEW i \in DOMAIN Pending' PROVE MessageOK(i)'
    OBVIOUS
  <2>. QED
    BY <1>8, <1>9
<1>11. ASSUME NEW t \in Targets
       PROVE  RowOK(t)'
  <2>1. RowOK(t)
    BY DEF Rows
  <2>2. ASSUME rows[t].fresh, rows[t].merged
        PROVE  t \in Settled' /\ Final(t, rows[t])' /\ \A i \in DOMAIN Pending' : Pending'[i].target # t
    <3>1. t \in Settled /\ Final(t, rows[t]) /\ \A i \in 1..n : Pending[i].target # t
      BY <2>1, <2>2, <1>1 DEF RowOK
    <3>2. \A i \in DOMAIN Pending' : Pending'[i].target # t
      BY <3>1, <1>5
    <3>3. Final(t, rows[t])'
      BY <3>1, <1>7
    <3>. QED
      BY <3>1, <3>2, <3>3
  <2>3. rows[t].fresh /\ rows[t].works /\ run.checks = 0 => t \in Working'
    BY <2>1 DEF RowOK
  <2>4. ASSUME t \in Settled'
        PROVE  \/ \E i \in DOMAIN Pending' : Pending'[i].target = t /\ Pending'[i].row.merged
               \/ rows[t].fresh /\ rows[t].merged
    <3>1. CASE t \in Settled
      <4>1. \/ \E i \in 1..n : Pending[i].target = t /\ Pending[i].row.merged
            \/ rows[t].fresh /\ rows[t].merged
        BY <2>1, <3>1, <1>1 DEF RowOK
      <4>. QED
        BY <4>1, <1>5
    <3>2. CASE t \notin Settled
      <4>1. PICK i \in DOMAIN new : new[i].target = t /\ new[i].row.merged
        BY <2>4, <3>2
      <4>. QED
        BY <4>1, <1>5
    <3>. QED
      BY <3>1, <3>2
  <2>. QED
    BY <2>2, <2>3, <2>4 DEF RowOK
<1>. QED
  BY <1>10, <1>11 DEF Rows

LEMMA RowsUnmoved ==
  ASSUME Rows, run' = run, rows' = rows, seen' = seen, Pending' = Pending,
         Settled' = Settled
  PROVE  Rows'
<1>1. Working' = Working /\ Healthy' = Healthy
  BY DEF Working, Healthy, Worked
<1>2. \A t, row : Final(t, row)' <=> Final(t, row)
  BY <1>1 DEF Final
<1>3. ASSUME NEW i \in DOMAIN Pending
      PROVE  MessageOK(i)'
  <2>1. MessageOK(i)
    BY DEF Rows
  <2>. QED
    BY <2>1, <1>1, <1>2 DEF MessageOK
<1>4. ASSUME NEW t \in Targets
      PROVE  RowOK(t)'
  BY <1>1, <1>2 DEF Rows, RowOK
<1>. QED
  BY <1>3, <1>4 DEF Rows

-----------------------------------------------------------------------------
(* What a step does to the counters, and to what is known of the targets.  *)

LEMMA CardFact ==
  \A A \in SUBSET Targets : \A B \in SUBSET A :
    Cardinality(A) \in Nat /\ Cardinality(B) \in Nat /\ Cardinality(B) <= Cardinality(A)
<1>. SUFFICES ASSUME NEW A \in SUBSET Targets, NEW B \in SUBSET A
              PROVE  Cardinality(A) \in Nat /\ Cardinality(B) \in Nat /\ Cardinality(B) <= Cardinality(A)
  OBVIOUS
<1>1. IsFiniteSet(A) /\ IsFiniteSet(B) /\ Cardinality(A) \in Nat /\ Cardinality(B) \in Nat
  BY TargetsFinite
<1>. QED
  BY <1>1, FS_Subset

LEMMA ListFact ==
  ASSUME TypeOK, Lists
  PROVE  /\ actual \in SUBSET Targets /\ list \in SUBSET Targets /\ probing \in SUBSET Targets
         /\ reported \in SUBSET Targets /\ Settled \in SUBSET actual
BY RunFacts DEF Lists, Allowed, Targets, Settled

LEMMA IndexFact ==
  ASSUME TypeOK, Seen, NEW t \in Targets, NEW e \in seen[t]
  PROVE  Index(e) \in Nat \ {0}
<1>1. e.port \in 1..run.ports /\ e.check \in (IF run.checks = 0 THEN {0} ELSE 1..run.checks)
  BY DEF Seen, EntryOK
<1>2. run.ports \in Nat /\ run.checks \in Nat
  BY RunFacts
<1>3. CASE run.checks = 0
  BY <1>1, <1>2, <1>3 DEF Index
<1>4. CASE run.checks # 0
  <2>1. \A a, b \in Nat : a * b \in Nat
    OBVIOUS
  <2>2. e.port - 1 \in Nat /\ e.check \in Nat \ {0}
    BY <1>1, <1>2, <1>4
  <2>3. (e.port - 1) * run.checks \in Nat
    BY <2>1, <2>2, <1>2
  <2>4. Index(e) = (e.port - 1) * run.checks + e.check
    BY <1>4 DEF Index
  <2>. QED
    BY <2>2, <2>3, <2>4
<1>. QED
  BY <1>3, <1>4

(* Snapshots under way stay sound, and so do the figures shown.            *)
LEMMA ShownKept ==
  ASSUME TypeOK, Lists, Shown, Lists', TypeOK', actual \subseteq actual',
         (actual' = actual /\ pass' = pass) \/ pass = 1,
         dash' = dash, activity' = activity
  PROVE  \A p \in Snapshot :
           /\ progress' \in {progress, Append(progress, p)}
           /\ p.counts.completed <= p.counts.started
           /\ p.counts.targets <= Cardinality(actual')
           /\ p.total # 0 => p.total = Cardinality(actual') /\ pass' = 2
           => Shown'
<1>. SUFFICES ASSUME NEW p \in Snapshot, progress' \in {progress, Append(progress, p)},
                     p.counts.completed <= p.counts.started,
                     p.counts.targets <= Cardinality(actual'),
                     p.total # 0 => p.total = Cardinality(actual') /\ pass' = 2
              PROVE  Shown'
  OBVIOUS
<1>1. actual' \in SUBSET Targets /\ actual \in SUBSET actual'
  <2>1. run'.hosts \subseteq Hosts
    BY CompositionAssumption DEF TypeOK
  <2>. QED
    BY <2>1 DEF Lists, Allowed, Targets
<1>2. /\ Cardinality(actual') \in Nat /\ Cardinality(actual) \in Nat
      /\ Cardinality(actual) <= Cardinality(actual')
  BY <1>1, CardFact
<1>3. progress \in Seq(Snapshot) /\ DOMAIN progress = 1..Len(progress) /\ Len(progress) \in Nat
  BY LenProperties DEF TypeOK
<1>4. ASSUME NEW i \in DOMAIN progress'
      PROVE  progress'[i] = p \/ (i \in DOMAIN progress /\ progress'[i] = progress[i])
  <2>1. CASE progress' = progress
    BY <2>1
  <2>2. CASE progress' = Append(progress, p)
    <3>1. /\ Append(progress, p) \in Seq(Snapshot) /\ Len(Append(progress, p)) = Len(progress) + 1
          /\ \A k \in 1..Len(progress) : Append(progress, p)[k] = progress[k]
          /\ Append(progress, p)[Len(progress) + 1] = p
      BY <1>3, AppendProperties
    <3>2. DOMAIN Append(progress, p) = 1..(Len(progress) + 1)
      BY <3>1, LenProperties
    <3>3. i \in 1..Len(progress) \/ i = Len(progress) + 1
      BY <3>2, <2>2, <1>3
    <3>. QED
      BY <3>1, <3>3, <2>2, <1>3
  <2>. QED
    BY <2>1, <2>2
<1>5. ASSUME NEW q \in Snapshot, SnapshotOK(q)
      PROVE  SnapshotOK(q)'
  <2>1. q.counts.targets \in Nat
    <3>1. q.counts \in Tally
      BY DEF Snapshot
    <3>. QED
      BY <3>1 DEF Tally
  <2>2. q.counts.targets <= Cardinality(actual')
    BY <2>1, <1>2, <1>5 DEF SnapshotOK
  <2>3. q.total # 0 => q.total = Cardinality(actual') /\ pass' = 2
    BY <1>5 DEF SnapshotOK
  <2>. QED
    BY <2>2, <2>3, <1>5 DEF SnapshotOK
<1>6. ASSUME NEW i \in DOMAIN progress'
      PROVE  SnapshotOK(progress[i])'
  <2>1. CASE progress'[i] = p
    BY <2>1 DEF SnapshotOK
  <2>2. CASE i \in DOMAIN progress /\ progress'[i] = progress[i]
    <3>1. progress[i] \in Snapshot
      BY <2>2, <1>3, ElementOfSeq
    <3>2. SnapshotOK(progress[i])
      BY <2>2 DEF Shown
    <3>3. PICK q \in Snapshot : q = progress[i]
      BY <3>1
    <3>4. SnapshotOK(q)
      BY <3>2, <3>3
    <3>5. SnapshotOK(q)'
      BY <3>4, <1>5
    <3>. QED
      BY <3>3, <3>5, <2>2 DEF SnapshotOK
  <2>. QED
    BY <2>1, <2>2, <1>4
<1>7. dash'.completed <= dash'.started /\ dash'.targets <= Cardinality(actual')
  <2>1. dash.targets \in Nat
    BY DEF TypeOK
  <2>. QED
    BY <2>1, <1>2 DEF Shown
<1>8. dash'.total # 0 => dash'.total = Cardinality(actual') /\ pass' = 2
  BY DEF Shown
<1>9. \A t \in Targets : activity'[t].completed <= activity'[t].started
  BY DEF Shown
<1>. QED
  BY <1>6, <1>7, <1>8, <1>9 DEF Shown

LEMMA ShownSame ==
  ASSUME TypeOK, Lists, Shown, Lists', TypeOK', actual \subseteq actual',
         (actual' = actual /\ pass' = pass) \/ pass = 1,
         dash' = dash, activity' = activity, progress' = progress
  PROVE  Shown'
<1> DEFINE zero == [started |-> 0, completed |-> 0, targets |-> 0]
           p == [event |-> "none", target |-> NoTarget, counts |-> zero, total |-> 0]
<1>1. zero \in Tally
  BY DEF Tally
<1>2. p \in Snapshot /\ p.counts = zero /\ p.total = 0
  BY <1>1 DEF Snapshot
<1>3. Cardinality(actual') \in Nat
  <2>1. actual' \in SUBSET Targets
    BY CompositionAssumption DEF TypeOK, Lists, Allowed, Targets
  <2>. QED
    BY <2>1, TargetsFinite
<1>. QED
  BY <1>2, <1>3, ShownKept

LEMMA ProgressFact ==
  ASSUME TypeOK
  PROVE  \A p \in Snapshot : progress' \in {progress, Append(progress, p)} => progress' \in Seq(Snapshot)
<1>1. progress \in Seq(Snapshot)
  BY DEF TypeOK
<1>2. \A p \in Snapshot : Append(progress, p) \in Seq(Snapshot)
  BY <1>1, AppendProperties
<1>. QED
  BY <1>1, <1>2

LEMMA PartsFact ==
  ASSUME TypeOK
  PROVE  Parts \in Nat
<1>1. run.ports \in Nat /\ run.checks \in Nat
  BY RunFacts
<1>2. \A a, b \in Nat : a * b \in Nat
  OBVIOUS
<1>. QED
  BY <1>1, <1>2 DEF Parts

(* A step that reports nothing keeps what is known of the targets.         *)
LEMMA SeenKept ==
  ASSUME TypeOK, Seen, run' = run, seen' = seen,
         \A t \in Targets : \A e \in seen[t] : t \in list' =>
           Index(e) < part' \/ (Index(e) = part' /\ pc' = "run" /\ t \in reported'),
         pc' = "run" => reported' = {} \/ (reported' = reported /\ pc = "run" /\ part' = part)
  PROVE  Seen'
<1>1. ASSUME NEW t \in Targets, NEW e \in seen'[t]
      PROVE  EntryOK(t, e)'
  <2>1. EntryOK(t, e)
    BY <1>1 DEF Seen
  <2>2. Index(e)' = Index(e)
    BY DEF Index
  <2>. QED
    BY <2>1, <2>2, <1>1 DEF EntryOK
<1>2. \A t \in Targets : \A e, f \in seen'[t] : e.port = f.port /\ e.check = f.check => e = f
  BY DEF Seen
<1>3. ASSUME pc' = "run"
      PROVE  \A t \in reported' : \E e \in seen'[t] : e.port = Port' /\ e.check = Check'
  <2>1. CASE reported' = {}
    BY <2>1
  <2>2. CASE reported' = reported /\ pc = "run" /\ part' = part
    <3>1. Port' = Port /\ Check' = Check
      BY <2>2 DEF Port, Check
    <3>. QED
      BY <3>1, <2>2 DEF Seen
  <2>. QED
    BY <2>1, <2>2, <1>3
<1>. QED
  BY <1>1, <1>2, <1>3 DEF Seen

-----------------------------------------------------------------------------
(* Every step keeps the invariant.                                         *)

LEMMA SweepKeeps ==
  ASSUME Inv, Sweep
  PROVE  Inv'
<1>. USE DEF Inv, Sweep
<1>1. PICK found \in SUBSET Allowed :
        /\ list' = found /\ actual' = found
        /\ pc' = IF found = {} THEN "done" ELSE "part"
  OBVIOUS
<1>2. actual = {} /\ pass = 1 /\ \A t \in Targets : seen[t] = {}
  BY DEF Lists
<1>3. TypeOK'
  BY <1>1 DEF TypeOK
<1>4. Lists'
  BY <1>1, <1>2 DEF Lists, Allowed
<1>5. Seen'
  BY <1>1, <1>2, SeenKept
<1>6. Settled = {} /\ Settled' = {}
  BY <1>2 DEF Settled
<1>7. Rows'
  BY <1>6, RowsUnmoved DEF Pending
<1>8. Tallied'
  BY <1>6 DEF Tallied
<1>9. Shown'
  BY <1>2, <1>3, <1>4, ShownSame
<1>. QED
  BY <1>3, <1>4, <1>5, <1>7, <1>8, <1>9

LEMMA StartPartKeeps ==
  ASSUME Inv, StartPart
  PROVE  Inv'
<1>. USE DEF Inv, StartPart
<1>1. TypeOK'
  BY DEF TypeOK
<1>2. Lists'
  <2>1. Parts' = Parts /\ Parts \in Nat /\ part \in Nat
    BY PartsFact DEF Parts, TypeOK
  <2>2. pc' = "run" => part' <= Parts'
    BY <2>1
  <2>. QED
    BY <2>2 DEF Lists, Allowed
<1>3. Seen'
  <2>1. \A t \in Targets : \A e \in seen[t] : t \in list => Index(e) < part
    BY DEF Seen, EntryOK
  <2>. QED
    BY <2>1, SeenKept
<1>4. Settled' = Settled
  BY DEF Settled, Direct
<1>5. Rows'
  BY <1>4, RowsUnmoved DEF Pending
<1>6. Tallied'
  BY <1>4 DEF Tallied, Lists
<1>7. Shown'
  BY <1>1, <1>2, ShownSame
<1>. QED
  BY <1>1, <1>2, <1>3, <1>5, <1>6, <1>7

(* A step that only cancels or joins the scan, or none.                    *)
LEMMA IdleKeeps ==
  ASSUME Inv, UNCHANGED <<run, scan, tx, progress, rows, activity, dash>>,
         cancel' \in BOOLEAN, complete' \in BOOLEAN, complete' => pc = "done" /\ tx = <<>>
  PROVE  Inv'
<1>. USE DEF Inv
<1>1. TypeOK'
  BY DEF TypeOK
<1>2. Lists'
  BY DEF Lists, Allowed, Parts
<1>3. Seen'
  <2>1. \A t \in Targets : \A e \in seen[t] : t \in list =>
          Index(e) < part \/ (Index(e) = part /\ pc = "run" /\ t \in reported)
    BY DEF Seen, EntryOK
  <2>. QED
    BY <2>1, SeenKept
<1>4. Settled' = Settled
  BY DEF Settled, Direct
<1>5. Rows'
  BY <1>4, RowsUnmoved DEF Pending
<1>6. Tallied'
  BY <1>4 DEF Tallied
<1>7. Shown'
  BY <1>1, <1>2, ShownSame
<1>. QED
  BY <1>1, <1>2, <1>3, <1>5, <1>6, <1>7

LEMMA AddProgressKeeps ==
  ASSUME Inv, AddProgress
  PROVE  Inv'
<1>. USE DEF Inv
<1> DEFINE p == Head(progress)
<1>1. progress \in Seq(Snapshot) /\ progress # <<>> /\ progress' = Tail(progress)
  BY DEF AddProgress, TypeOK
<1>2. /\ Len(progress) \in Nat \ {0} /\ DOMAIN progress = 1..Len(progress)
      /\ Tail(progress) \in Seq(Snapshot) /\ DOMAIN Tail(progress) = 1..(Len(progress) - 1)
      /\ \A i \in 1..(Len(progress) - 1) : Tail(progress)[i] = progress[i + 1]
      /\ p = progress[1]
  <2>1. Tail(progress) \in Seq(Snapshot) /\ Len(Tail(progress)) = Len(progress) - 1
        /\ \A i \in 1..(Len(progress) - 1) : Tail(progress)[i] = progress[i + 1]
    BY <1>1
  <2>2. Len(progress) \in Nat \ {0}
    BY <1>1, EmptySeq
  <2>3. Head(progress) = progress[1]
    BY <1>1
  <2>. QED
    BY <1>1, <2>1, <2>2, <2>3, LenProperties
<1>3. p \in Snapshot /\ SnapshotOK(p)
  <2>1. 1 \in DOMAIN progress
    BY <1>2
  <2>2. SnapshotOK(progress[1])
    BY <2>1 DEF Shown
  <2>3. progress[1] \in Snapshot
    BY <1>1, <2>1, <1>2, ElementOfSeq
  <2>. QED
    BY <2>2, <2>3, <1>2
<1>4. p.counts \in Tally /\ p.total \in Nat
  BY <1>3 DEF Snapshot
<1>5. /\ UNCHANGED <<run, scan, tx, cancel, rows, complete>>
      /\ dash' = [started   |-> Larger(dash.started, p.counts.started),
                  completed |-> Larger(dash.completed, p.counts.completed),
                  targets   |-> Larger(dash.targets, p.counts.targets),
                  total     |-> IF p.total = 0 THEN dash.total ELSE p.total]
      /\ activity' = [t \in Targets |-> IF t = p.target THEN After(activity[t], p.event) ELSE activity[t]]
  BY DEF AddProgress
<1>. HIDE DEF p
<1>6. \A m, n \in Nat : Larger(m, n) \in Nat /\ m <= Larger(m, n) /\ n <= Larger(m, n)
                         /\ Larger(m, n) \in {m, n}
  BY DEF Larger
<1>7. dash' \in [started : Nat, completed : Nat, targets : Nat, total : Nat]
  BY <1>4, <1>5, <1>6 DEF TypeOK, Tally
<1>8. ASSUME NEW t \in Targets
      PROVE  /\ activity'[t] \in [started : Nat, completed : Nat]
             /\ activity'[t].completed <= activity'[t].started
  <2>1. activity[t] \in [started : Nat, completed : Nat] /\ activity[t].completed <= activity[t].started
    BY DEF TypeOK, Shown
  <2>2. activity[t].started \in Nat /\ activity[t].completed \in Nat
    BY <2>1
  <2>3. /\ After(activity[t], p.event) \in [started : Nat, completed : Nat]
        /\ After(activity[t], p.event).completed <= After(activity[t], p.event).started
    <3>1. CASE p.event = "started"
      <4>1. After(activity[t], p.event) = [activity[t] EXCEPT !.started = @ + 1]
        BY <3>1 DEF After
      <4>. QED
        BY <4>1, <2>1, <2>2
    <3>2. CASE p.event = "completed"
      <4>1. After(activity[t], p.event) =
              [started |-> Larger(activity[t].started, activity[t].completed + 1),
               completed |-> activity[t].completed + 1]
        BY <3>2 DEF After, Counted
      <4>. QED
        <5>1. activity[t].completed + 1 \in Nat
          BY <2>2
        <5>2. /\ Larger(activity[t].started, activity[t].completed + 1) \in Nat
              /\ activity[t].completed + 1 <= Larger(activity[t].started, activity[t].completed + 1)
          BY <5>1, <2>2, <1>6
        <5>. QED
          BY <4>1, <5>1, <5>2
    <3>3. CASE p.event \notin {"started", "completed"}
      <4>1. After(activity[t], p.event) = activity[t]
        BY <3>3 DEF After
      <4>. QED
        BY <4>1, <2>1
    <3>. QED
      BY <3>1, <3>2, <3>3
  <2>. QED
    BY <2>1, <2>3, <1>5
<1>9. TypeOK'
  <2>1. activity' \in [Targets -> [started : Nat, completed : Nat]]
    BY <1>5, <1>8
  <2>. QED
    BY <2>1, <1>1, <1>2, <1>5, <1>7 DEF TypeOK
<1>10. Lists'
  BY <1>5 DEF Lists, Allowed, Parts
<1>11. Seen'
  <2>1. \A t \in Targets : \A e \in seen[t] : t \in list =>
          Index(e) < part \/ (Index(e) = part /\ pc = "run" /\ t \in reported)
    BY DEF Seen, EntryOK
  <2>. QED
    BY <2>1, <1>5, SeenKept
<1>12. Settled' = Settled
  BY <1>5 DEF Settled, Direct
<1>13. Rows'
  BY <1>5, <1>12, RowsUnmoved DEF Pending
<1>14. Tallied'
  BY <1>5, <1>12 DEF Tallied
<1>15. Shown'
  <2>1. Cardinality(actual) \in Nat
    BY ListFact, TargetsFinite
  <2>2. dash.started \in Nat /\ dash.completed \in Nat /\ dash.targets \in Nat
    BY DEF TypeOK
  <2>3. p.counts.started \in Nat /\ p.counts.completed \in Nat /\ p.counts.targets \in Nat
    BY <1>4 DEF Tally
  <2>4. dash'.completed <= dash'.started
    <3>1. dash'.completed = Larger(dash.completed, p.counts.completed)
          /\ dash'.started = Larger(dash.started, p.counts.started)
      BY <1>5
    <3>2. dash.completed <= dash.started /\ p.counts.completed <= p.counts.started
      BY <1>3 DEF Shown, SnapshotOK
    <3>. QED
      BY <3>1, <3>2, <2>2, <2>3 DEF Larger
  <2>5. dash'.targets <= Cardinality(actual')
    <3>1. dash'.targets = Larger(dash.targets, p.counts.targets) /\ actual' = actual
      BY <1>5
    <3>2. dash.targets <= Cardinality(actual) /\ p.counts.targets <= Cardinality(actual)
      BY <1>3 DEF Shown, SnapshotOK
    <3>. QED
      BY <3>1, <3>2 DEF Larger
  <2>6. dash'.total # 0 => dash'.total = Cardinality(actual') /\ pass' = 2
    BY <1>3, <1>5 DEF Shown, SnapshotOK
  <2>7. \A i \in DOMAIN progress' : SnapshotOK(progress[i])'
    <3>. SUFFICES ASSUME NEW i \in DOMAIN progress' PROVE SnapshotOK(progress[i])'
      OBVIOUS
    <3>1. i + 1 \in DOMAIN progress /\ progress'[i] = progress[i + 1]
      BY <1>1, <1>2
    <3>2. SnapshotOK(progress[i + 1])
      BY <3>1 DEF Shown
    <3>. QED
      BY <3>1, <3>2, <1>5 DEF SnapshotOK
  <2>8. \A t \in Targets : activity'[t].completed <= activity'[t].started
    BY <1>8
  <2>. QED
    BY <2>4, <2>5, <2>6, <2>7, <2>8 DEF Shown
<1>. QED
  BY <1>9, <1>10, <1>11, <1>13, <1>14, <1>15
LEMMA StartProbeKeeps ==
  ASSUME Inv, NEW t \in Targets, StartProbe(t)
  PROVE  Inv'
<1>. USE DEF Inv
<1> DEFINE p == [event |-> "started", target |-> t, counts |-> counts', total |-> 0]
<1>1. /\ pc = "run" /\ t \in list /\ t \notin probing /\ t \notin reported
      /\ probing' = probing \cup {t} /\ tries' = [tries EXCEPT ![t] = @ + 1]
      /\ counts' = [counts EXCEPT !.started = @ + 1]
      /\ progress' \in {progress, Append(progress, p)}
      /\ UNCHANGED <<run, pc, pass, part, list, actual, reported, seen, held, tx, cancel, app>>
  BY DEF StartProbe, Startable, Notify
<1>2. counts \in Tally /\ counts' \in Tally /\ counts'.started = counts.started + 1
      /\ counts'.completed = counts.completed /\ counts'.targets = counts.targets
  <2>1. counts \in Tally
    BY DEF TypeOK
  <2>2. counts.started \in Nat /\ counts.completed \in Nat /\ counts.targets \in Nat
    BY <2>1 DEF Tally
  <2>. QED
    BY <2>1, <2>2, <1>1 DEF Tally
<1>3. p \in Snapshot /\ p.counts = counts' /\ p.total = 0
  BY <1>2 DEF Snapshot
<1>. HIDE DEF p
<1>4. TypeOK'
  <2>1. progress' \in Seq(Snapshot)
    BY <1>1, <1>3, ProgressFact
  <2>2. tries' \in [Targets -> Nat]
    BY <1>1 DEF TypeOK
  <2>. QED
    BY <2>1, <2>2, <1>1, <1>2 DEF TypeOK
<1>5. Lists'
  BY <1>1 DEF Lists, Allowed, Parts
<1>6. Seen'
  <2>1. \A u \in Targets : \A e \in seen[u] : u \in list =>
          Index(e) < part \/ (Index(e) = part /\ pc = "run" /\ u \in reported)
    BY DEF Seen, EntryOK
  <2>. QED
    BY <2>1, <1>1, SeenKept
<1>7. Settled' = Settled
  BY <1>1 DEF Settled, Direct
<1>8. Rows'
  BY <1>1, <1>7, RowsUnmoved DEF Pending
<1>9. Tallied'
  <2>1. Cardinality(probing) \in Nat /\ Cardinality(probing') = Cardinality(probing) + 1
    BY <1>1, ListFact, TargetsFinite, FS_AddElement
  <2>2. counts.completed \in Nat /\ counts.started \in Nat
    BY <1>2 DEF Tally
  <2>. QED
    BY <2>1, <2>2, <1>2, <1>7 DEF Tallied
<1>10. Shown'
  <2>1. counts'.completed <= counts'.started
    <3>1. Cardinality(probing') \in Nat
      BY <1>1, ListFact, TargetsFinite
    <3>2. /\ counts'.completed + Cardinality(probing') <= counts'.started
          /\ counts'.completed \in Nat /\ counts'.started \in Nat
      BY <1>2, <1>9 DEF Tallied, Tally
    <3>. QED
      BY <3>1, <3>2
  <2>2. counts'.targets <= Cardinality(actual')
    BY <1>1, <1>7, <1>9, ListFact, CardFact DEF Tallied
  <2>. QED
    BY <2>1, <2>2, <1>1, <1>3, <1>4, <1>5, ShownKept
<1>. QED
  BY <1>4, <1>5, <1>6, <1>8, <1>9, <1>10

LEMMA CompleteProbeKeeps ==
  ASSUME Inv, NEW t \in Targets, CompleteProbe(t)
  PROVE  Inv'
<1>. USE DEF Inv
<1> DEFINE p == [event |-> "completed", target |-> t, counts |-> counts', total |-> 0]
<1>1. /\ pc = "run" /\ t \in probing /\ probing' = probing \ {t}
      /\ counts' = [counts EXCEPT !.completed = @ + 1]
      /\ progress' \in {progress, Append(progress, p)}
      /\ UNCHANGED <<run, pc, pass, part, list, actual, tries, reported, seen, held, tx, cancel, app>>
  BY DEF CompleteProbe, Notify
<1>2. counts \in Tally /\ counts' \in Tally /\ counts'.completed = counts.completed + 1
      /\ counts'.started = counts.started /\ counts'.targets = counts.targets
  <2>1. counts \in Tally
    BY DEF TypeOK
  <2>2. counts.started \in Nat /\ counts.completed \in Nat /\ counts.targets \in Nat
    BY <2>1 DEF Tally
  <2>. QED
    BY <2>1, <2>2, <1>1 DEF Tally
<1>3. p \in Snapshot /\ p.counts = counts' /\ p.total = 0
  BY <1>2 DEF Snapshot
<1>. HIDE DEF p
<1>4. TypeOK'
  <2>1. progress' \in Seq(Snapshot)
    BY <1>1, <1>3, ProgressFact
  <2>. QED
    BY <2>1, <1>1, <1>2 DEF TypeOK
<1>5. Lists'
  BY <1>1 DEF Lists, Allowed, Parts
<1>6. Seen'
  <2>1. \A u \in Targets : \A e \in seen[u] : u \in list =>
          Index(e) < part \/ (Index(e) = part /\ pc = "run" /\ u \in reported)
    BY DEF Seen, EntryOK
  <2>. QED
    BY <2>1, <1>1, SeenKept
<1>7. Settled' = Settled
  BY <1>1 DEF Settled, Direct
<1>8. Rows'
  BY <1>1, <1>7, RowsUnmoved DEF Pending
<1>9. Tallied'
  <2>1. Cardinality(probing) \in Nat /\ Cardinality(probing') = Cardinality(probing) - 1
    BY <1>1, ListFact, TargetsFinite, FS_RemoveElement
  <2>2. counts.completed \in Nat /\ counts.started \in Nat
    BY <1>2 DEF Tally
  <2>. QED
    BY <2>1, <2>2, <1>2, <1>7 DEF Tallied
<1>10. Shown'
  <2>1. counts'.completed <= counts'.started
    <3>1. Cardinality(probing') \in Nat
      BY <1>1, ListFact, TargetsFinite
    <3>2. /\ counts'.completed + Cardinality(probing') <= counts'.started
          /\ counts'.completed \in Nat /\ counts'.started \in Nat
      BY <1>2, <1>9 DEF Tallied, Tally
    <3>. QED
      BY <3>1, <3>2
  <2>2. counts'.targets <= Cardinality(actual')
    BY <1>1, <1>7, <1>9, ListFact, CardFact DEF Tallied
  <2>. QED
    BY <2>1, <2>2, <1>1, <1>3, <1>4, <1>5, ShownKept
<1>. QED
  BY <1>4, <1>5, <1>6, <1>8, <1>9, <1>10

LEMMA ResultsFact ==
  ASSUME TypeOK, NEW t \in Targets, NEW r \in Results(tries[t]) \cup {Dead(run.probes)}
  PROVE  r \in Result /\ (r.works <=> r.health)
<1>1. tries[t] \in Nat /\ run.probes \in Nat
  BY RunFacts DEF TypeOK
<1>2. \A n \in Nat : Dead(n) \in Result /\ Dead(n).works = FALSE /\ Dead(n).health = FALSE
  BY DEF Dead, Result
<1>3. CASE r \in {Dead(tries[t]), Dead(run.probes)}
  BY <1>1, <1>2, <1>3
<1>4. CASE r \in [works : {TRUE}, health : {TRUE}, score : Scores, done : {tries[t]}]
  <2>1. Scores \subseteq Nat
    BY CompositionAssumption
  <2>2. r \in Result
    BY <2>1, <1>1, <1>4 DEF Result
  <2>3. r.works = TRUE /\ r.health = TRUE
    BY <1>4
  <2>. QED
    BY <2>2, <2>3
<1>. QED
  BY <1>3, <1>4 DEF Results

(* A target finished directly is settled by its only result.               *)
LEMMA FinishDirect ==
  ASSUME Inv, NEW t \in Targets, FinishTarget(t), Direct, NEW r \in Result, r.works <=> r.health,
         seen' = [seen EXCEPT ![t] = @ \cup {[port |-> Port, check |-> Check, result |-> r]}]
  PROVE  /\ t \notin Settled /\ Settled' = Settled \cup {t} /\ Working \subseteq Working'
         /\ (t \in Working' <=> r.works) /\ (t \in Healthy' <=> r.works)
<1>. USE DEF Inv
<1> DEFINE e0 == [port |-> Port, check |-> Check, result |-> r]
<1>1. /\ pc = "run" /\ t \in list /\ t \notin reported
      /\ UNCHANGED <<run, pc, pass, part, list, actual>>
  BY DEF FinishTarget, Lists
<1>2. run.ports = 1 /\ run.checks = 0 /\ run.required = {} /\ Parts = 1 /\ part = 1
  BY <1>1, RunFacts DEF Direct, Parts, Lists, TypeOK
<1>3. Port = 1 /\ Check = 0
  BY <1>2 DEF Port, Check
<1>4. seen[t] = {}
  <2>. SUFFICES ASSUME NEW e \in seen[t] PROVE FALSE
    OBVIOUS
  <2>1. Index(e) < 1
    BY <1>1, <1>2 DEF Seen, EntryOK
  <2>. QED
    BY <2>1, IndexFact
<1>5. seen'[t] = {e0} /\ \A u \in Targets \ {t} : seen'[u] = seen[u]
  BY <1>4 DEF TypeOK
<1>6. e0.port = 1 /\ e0.check = 0 /\ e0.result = r
  BY <1>3
<1>. HIDE DEF e0
<1>7. t \in Working' <=> r.works
  BY <1>5, <1>6 DEF Working
<1>8. t \in Healthy' <=> r.works
  <2>1. run'.ports = 1 /\ run'.required = {}
    BY <1>1, <1>2
  <2>2. 1..1 = {1}
    OBVIOUS
  <2>. QED
    BY <2>1, <2>2, <1>5, <1>6 DEF Healthy, Worked
<1>9. t \notin Settled /\ Settled' = Settled \cup {t}
  <2>1. Direct'
    BY <1>1 DEF Direct
  <2>. QED
    BY <2>1, <1>4, <1>5 DEF Settled
<1>10. Working \subseteq Working'
  BY <1>4, <1>5 DEF Working
<1>. QED
  BY <1>7, <1>8, <1>9, <1>10

LEMMA FinishTargetKeeps ==
  ASSUME Inv, NEW t \in Targets, FinishTarget(t)
  PROVE  Inv'
<1>. USE DEF Inv
<1>1. PICK r \in Results(tries[t]) \cup {Dead(run.probes)} :
        /\ seen' = [seen EXCEPT ![t] = @ \cup {[port |-> Port, check |-> Check, result |-> r]}]
        /\ IF Direct THEN Forward(<<[target |-> t, row |-> Row(r, TRUE)]>>)
                     ELSE UNCHANGED <<tx, held>>
  BY DEF FinishTarget
<1> DEFINE e0 == [port |-> Port, check |-> Check, result |-> r]
           p == [event |-> "completed", target |-> t, counts |-> counts', total |-> 0]
           msg == [target |-> t, row |-> Row(r, TRUE)]
<1>2. r \in Result /\ (r.works <=> r.health)
  BY ResultsFact
<1>3. /\ pc = "run" /\ t \in probing /\ t \in list /\ t \notin reported
      /\ probing' = probing \ {t} /\ reported' = reported \cup {t}
      /\ counts' = [counts EXCEPT !.completed = @ + 1, !.targets = IF Direct THEN @ + 1 ELSE @]
      /\ progress' \in {progress, Append(progress, p)}
      /\ UNCHANGED <<run, pc, pass, part, list, actual, tries, cancel, app>>
  BY DEF FinishTarget, Notify, Lists
<1>4. /\ counts' \in Tally /\ counts'.completed = counts.completed + 1
      /\ counts'.started = counts.started
      /\ counts'.targets = IF Direct THEN counts.targets + 1 ELSE counts.targets
  <2>1. counts \in Tally
    BY DEF TypeOK
  <2>2. counts.started \in Nat /\ counts.completed \in Nat /\ counts.targets \in Nat
    BY <2>1 DEF Tally
  <2>3. counts = [started |-> counts.started, completed |-> counts.completed, targets |-> counts.targets]
    BY <2>1 DEF Tally
  <2>4. PICK n \in Nat : n = IF Direct THEN counts.targets + 1 ELSE counts.targets
    BY <2>2
  <2>5. counts' = [started |-> counts.started, completed |-> counts.completed + 1, targets |-> n]
    BY <2>1, <2>3, <2>4, <1>3 DEF Tally
  <2>. QED
    BY <2>2, <2>4, <2>5 DEF Tally
<1>5. p \in Snapshot /\ p.counts = counts' /\ p.total = 0
  BY <1>4 DEF Snapshot
<1>6. msg \in Message /\ msg.target = t /\ msg.row = Row(r, TRUE)
  BY <1>2, RowFact DEF Message
<1>7. /\ <<msg>> \in Seq(Message) /\ DOMAIN <<msg>> = {1} /\ <<msg>>[1] = msg
  <2>. HIDE DEF msg
  <2>. QED
    BY <1>6
<1>8. /\ Port \in 1..run.ports /\ Check \in (IF run.checks = 0 THEN {0} ELSE 1..run.checks)
      /\ \A e : e.port = Port /\ e.check = Check => Index(e) = part
  BY <1>3, PartFact
<1>9. e0 \in Entry /\ e0.port = Port /\ e0.check = Check /\ e0.result = r
  BY <1>2, <1>8, RunFacts DEF Entry
<1>10. seen'[t] = seen[t] \cup {e0} /\ \A u \in Targets \ {t} : seen'[u] = seen[u]
  BY <1>1 DEF TypeOK
<1>11. IF Direct THEN Forward(<<msg>>) ELSE UNCHANGED <<tx, held>>
  BY <1>1
<1>. HIDE DEF p, msg
<1>12. /\ tx' \in Seq(Message) /\ held' \in Seq(Message)
       /\ (run.kind = "twoPhase" /\ pass = 1) \/ held' = <<>>
       /\ Pending' = IF Direct THEN Pending \o <<msg>> ELSE Pending
  BY <1>7, <1>11, ForwardFact DEF TypeOK, Lists, Pending
<1>13. TypeOK'
  <2>1. progress' \in Seq(Snapshot)
    BY <1>3, <1>5, ProgressFact
  <2>2. seen' \in [Targets -> SUBSET Entry]
    BY <1>1, <1>9 DEF TypeOK
  <2>3. \A u \in Targets : IsFiniteSet(seen'[u])
    <3>1. \A u \in Targets : IsFiniteSet(seen[u])
      BY DEF TypeOK
    <3>2. IsFiniteSet(seen[t] \cup {e0})
      BY <3>1, FS_AddElement
    <3>. HIDE DEF e0
    <3>. QED
      BY <3>1, <3>2, <1>10
  <2>. QED
    BY <2>1, <2>2, <2>3, <1>3, <1>4, <1>12 DEF TypeOK
<1>14. Lists'
  BY <1>3, <1>10, <1>12 DEF Lists, Allowed, Parts
<1>15. Seen'
  <2>1. ASSUME NEW u \in Targets, NEW e \in seen'[u]
        PROVE  EntryOK(u, e)'
    <3>1. Index(e)' = Index(e)
      BY <1>3 DEF Index
    <3>2. CASE e \in seen[u]
      <4>1. EntryOK(u, e)
        BY <3>2 DEF Seen
      <4>. QED
        BY <3>1, <4>1, <1>3 DEF EntryOK
    <3>3. CASE e \notin seen[u]
      <4>1. u = t /\ e = e0
        BY <3>3, <2>1, <1>10
      <4>2. Index(e) = part
        BY <4>1, <1>8, <1>9
      <4>. QED
        BY <3>1, <4>1, <4>2, <1>2, <1>3, <1>8, <1>9 DEF EntryOK
    <3>. QED
      BY <3>2, <3>3
  <2>2. \A e \in seen[t] : ~(e.port = e0.port /\ e.check = e0.check)
    <3>. SUFFICES ASSUME NEW e \in seen[t], e.port = e0.port, e.check = e0.check PROVE FALSE
      OBVIOUS
    <3>1. Index(e) = part
      BY <1>8, <1>9
    <3>2. Index(e) < part
      BY <1>3 DEF Seen, EntryOK
    <3>. QED
      BY <3>1, <3>2 DEF TypeOK
  <2>3. ASSUME NEW u \in Targets, NEW e \in seen'[u], NEW f \in seen'[u],
               e.port = f.port, e.check = f.check
        PROVE  e = f
    BY <2>2, <2>3, <1>10 DEF Seen
  <2>4. \A u \in reported' : \E e \in seen'[u] : e.port = Port' /\ e.check = Check'
    <3>1. Port' = Port /\ Check' = Check
      BY <1>3 DEF Port, Check
    <3>2. \A u \in reported : \E e \in seen[u] : e.port = Port /\ e.check = Check
      BY <1>3 DEF Seen
    <3>3. \A u \in reported : u \in Targets \ {t}
      BY <1>3, ListFact
    <3>. QED
      BY <3>1, <3>2, <3>3, <1>3, <1>9, <1>10
  <2>. QED
    BY <2>1, <2>3, <2>4 DEF Seen
<1>16. Rows' /\ Settled' = IF Direct THEN Settled \cup {t} ELSE Settled
  <2>1. CASE Direct
    <3>1. /\ t \notin Settled /\ Settled' = Settled \cup {t} /\ Working \subseteq Working'
          /\ (t \in Working' <=> r.works) /\ (t \in Healthy' <=> r.works)
      BY <2>1, <1>1, <1>2, FinishDirect
    <3>2. /\ msg.row.fresh /\ msg.row.merged /\ msg.target = t
          /\ msg.row.works = r.works /\ msg.row.health = r.health
      BY <1>2, <1>6, RowFact
    <3>3. Final(t, msg.row)'
      BY <3>1, <3>2, <1>2 DEF Final
    <3>4. \A u \in Settled : seen'[u] = seen[u]
      BY <3>1, <1>10 DEF Settled
    <3>5. \A i \in DOMAIN <<msg>> : i = 1 /\ <<msg>>[i] = msg
      BY <1>7
    <3> DEFINE new == <<msg>>
    <3>6. new \in Seq(Message) /\ Pending' = Pending \o new
      BY <2>1, <1>7, <1>12
    <3>7. \A i \in DOMAIN new :
            /\ new[i].row.fresh /\ new[i].target \notin Settled
            /\ new[i].row.merged =>
                 /\ new[i].target \in Settled' /\ Final(new[i].target, new[i].row)'
                 /\ \A k \in DOMAIN new : k > i => new[k].target # new[i].target
            /\ run.checks = 0 /\ new[i].row.works => new[i].target \in Working'
      BY <3>1, <3>2, <3>3, <3>5
    <3>8. \A u \in Settled' \ Settled : \E i \in DOMAIN new : new[i].target = u /\ new[i].row.merged
      BY <3>1, <3>2, <1>7
    <3>. HIDE DEF new
    <3>9. Rows'
      BY <3>1, <3>4, <3>6, <3>7, <3>8, <1>3, <1>13, RowsForwarded
    <3>. QED
      BY <2>1, <3>1, <3>9
  <2>2. CASE ~Direct
    <3>1. t \notin Settled
      BY <2>2, <1>3 DEF Settled
    <3>2. Settled' = Settled
      BY <2>2, <1>3, <1>10 DEF Settled, Direct
    <3>3. Working \subseteq Working'
      BY <1>10 DEF Working
    <3>4. \A u \in Settled : seen'[u] = seen[u]
      BY <3>1, <1>10 DEF Settled
    <3>5. <<>> \in Seq(Message) /\ DOMAIN <<>> = {} /\ Pending' = Pending \o <<>>
      BY <2>2, <1>12, PendingFact, ConcatEmptySeq
    <3>6. Rows'
      BY <3>2, <3>3, <3>4, <3>5, <1>3, <1>13, RowsForwarded
    <3>. QED
      BY <2>2, <3>2, <3>6
  <2>. QED
    BY <2>1, <2>2
<1>17. Tallied'
  <2>1. Cardinality(probing) \in Nat /\ Cardinality(probing') = Cardinality(probing) - 1
    BY <1>3, ListFact, TargetsFinite, FS_RemoveElement
  <2>2. counts.completed \in Nat /\ counts.started \in Nat
    BY DEF TypeOK, Tally
  <2>3. Direct => Cardinality(Settled') = Cardinality(Settled) + 1
    <3>1. Direct => t \notin Settled
      BY <1>1, <1>2, FinishDirect
    <3>2. IsFiniteSet(Settled)
      BY ListFact, TargetsFinite
    <3>. QED
      BY <3>1, <3>2, <1>16, FS_AddElement
  <2>. QED
    BY <2>1, <2>2, <2>3, <1>4, <1>16 DEF Tallied
<1>18. Shown'
  <2>1. counts'.completed <= counts'.started
    <3>1. Cardinality(probing') \in Nat
      BY <1>3, ListFact, TargetsFinite
    <3>2. /\ counts'.completed + Cardinality(probing') <= counts'.started
          /\ counts'.completed \in Nat /\ counts'.started \in Nat
      BY <1>4, <1>17 DEF Tallied, Tally
    <3>. QED
      BY <3>1, <3>2
  <2>2. counts'.targets <= Cardinality(actual')
    <3>1. Settled' \in SUBSET actual
      BY <1>3, <1>16, ListFact DEF Lists
    <3>. QED
      BY <3>1, <1>3, <1>17, ListFact, CardFact DEF Tallied
  <2>. QED
    BY <2>1, <2>2, <1>3, <1>5, <1>13, <1>14, ShownKept
<1>. QED
  BY <1>13, <1>14, <1>15, <1>16, <1>17, <1>18

(* The rows a part or a merge forwards: one of each target of a set.       *)
LEMMA MessagesFact ==
  ASSUME NEW S \in SUBSET Targets, NEW row \in [S -> RowType]
  PROVE  /\ Messages(S, row) \in Seq(Message) /\ DOMAIN Messages(S, row) = 1..Cardinality(S)
         /\ \A i \in DOMAIN Messages(S, row) :
              Messages(S, row)[i].target \in S /\ Messages(S, row)[i].row = row[Messages(S, row)[i].target]
         /\ \A i, k \in DOMAIN Messages(S, row) :
              Messages(S, row)[i].target = Messages(S, row)[k].target => i = k
         /\ \A t \in S : \E i \in DOMAIN Messages(S, row) : Messages(S, row)[i].target = t
<1> DEFINE at == SetToSeq(S)
           n == Cardinality(S)
           new == Messages(S, row)
<1>1. /\ n \in Nat
      /\ \A i \in 1..n : at[i] \in S
      /\ \A i, k \in 1..n : at[i] = at[k] => i = k
      /\ \A t \in S : \E i \in 1..n : at[i] = t
  BY TargetsFinite, SetToSeqFact
<1>2. new = [i \in 1..n |-> [target |-> at[i], row |-> row[at[i]]]]
  BY DEF Messages
<1>. HIDE DEF at, n, new
<1>3. \A i \in 1..n : [target |-> at[i], row |-> row[at[i]]] \in Message
  BY <1>1 DEF Message
<1>4. new \in Seq(Message)
  BY <1>1, <1>2, <1>3
<1>5. DOMAIN new = 1..n /\ \A i \in 1..n : new[i].target = at[i] /\ new[i].row = row[at[i]]
  BY <1>2
<1>6. /\ \A i \in DOMAIN new : new[i].target \in S /\ new[i].row = row[new[i].target]
      /\ \A i, k \in DOMAIN new : new[i].target = new[k].target => i = k
  BY <1>1, <1>5
<1>7. \A t \in S : \E i \in DOMAIN new : new[i].target = t
  BY <1>1, <1>5
<1>8. DOMAIN new = 1..Cardinality(S)
  BY <1>5 DEF n
<1>. QED
  BY <1>4, <1>6, <1>7, <1>8 DEF new

LEMMA EndPartKeeps ==
  ASSUME Inv, EndPart
  PROVE  Inv'
<1>. USE DEF Inv
<1> DEFINE out(t) == CHOOSE r \in Outcomes(t) : TRUE
           row == [t \in reported |-> Row(out(t), FALSE)]
           new == Messages(reported, row)
           p == [event |-> "none", target |-> NoTarget, counts |-> counts, total |-> 0]
<1>1. /\ pc = "run" /\ pc' = "part" /\ probing' = {}
      /\ part' = IF Direct THEN Parts + 1 ELSE part + 1
      /\ progress' \in {progress, Append(progress, p)}
      /\ UNCHANGED <<run, pass, list, actual, tries, reported, seen, counts, cancel, app>>
  BY DEF EndPart, Notify
<1>2. part \in Nat \ {0} /\ part' = part + 1
  <2>1. Direct => Parts = 1
    BY DEF Direct, Parts
  <2>2. part <= Parts /\ part \in Nat \ {0}
    BY <1>1 DEF Lists, TypeOK
  <2>. QED
    BY <2>1, <2>2, <1>1
<1>3. ASSUME NEW t \in reported
      PROVE  out(t) \in Result /\ (out(t).works => t \in Working)
  <2>1. t \in Targets /\ \E e \in seen[t] : e.port = Port /\ e.check = Check
    BY <1>1, ListFact DEF Seen
  <2>2. Outcomes(t) # {}
    BY <2>1 DEF Outcomes
  <2>3. out(t) \in Outcomes(t)
    BY <2>2
  <2>4. PICK e \in seen[t] : out(t) = e.result
    BY <2>3 DEF Outcomes
  <2>5. e \in Entry
    BY <2>1, <2>4 DEF TypeOK
  <2>6. e.result \in Result
    BY <2>5 DEF Entry
  <2>. QED
    BY <2>1, <2>4, <2>6 DEF Working
<1>4. \A t \in reported : /\ row[t] \in RowType /\ row[t].fresh /\ ~row[t].merged
                          /\ row[t].works => t \in Working
  <2>. HIDE DEF out
  <2>. QED
    BY <1>3, RowFact
<1>5. IF Direct THEN UNCHANGED <<tx, held>> ELSE Forward(new)
  BY DEF EndPart
<1>16. row \in [reported -> RowType]
  BY <1>4
<1>. HIDE DEF row
<1>6. /\ new \in Seq(Message)
      /\ \A i \in DOMAIN new : new[i].target \in reported /\ new[i].row = row[new[i].target]
  BY <1>16, ListFact, MessagesFact
<1>. HIDE DEF new
<1>7. /\ tx' \in Seq(Message) /\ held' \in Seq(Message)
      /\ (run.kind = "twoPhase" /\ pass = 1) \/ held' = <<>>
      /\ Pending' = IF Direct THEN Pending ELSE Pending \o new
  BY <1>5, <1>6, ForwardFact DEF TypeOK, Lists, Pending
<1>8. p \in Snapshot /\ p.counts = counts /\ p.total = 0
  BY DEF TypeOK, Snapshot
<1>. HIDE DEF p
<1>9. TypeOK'
  <2>1. progress' \in Seq(Snapshot)
    BY <1>1, <1>8, ProgressFact
  <2>. QED
    BY <2>1, <1>1, <1>2, <1>7 DEF TypeOK
<1>10. Lists'
  BY <1>1, <1>7 DEF Lists, Allowed, Parts
<1>11. Seen'
  <2>1. ASSUME NEW t \in Targets, NEW e \in seen[t], t \in list'
        PROVE  Index(e) < part'
    <3>1. Index(e) \in Nat
      BY IndexFact
    <3>2. Index(e) < part \/ Index(e) = part
      BY <2>1, <1>1 DEF Seen, EntryOK
    <3>. QED
      BY <3>1, <3>2, <1>2
  <2>. QED
    BY <2>1, <1>1, SeenKept
<1>12. Settled' = Settled /\ Working' = Working
  BY <1>1 DEF Settled, Direct, Working
<1>13. Rows'
  <2>1. CASE Direct
    BY <2>1, <1>1, <1>7, <1>12, RowsUnmoved
  <2>2. CASE ~Direct
    <3>1. \A i \in DOMAIN new :
            /\ new[i].row.fresh /\ new[i].target \notin Settled /\ ~new[i].row.merged
            /\ run.checks = 0 /\ new[i].row.works => new[i].target \in Working'
      <4>1. \A t \in reported : t \notin Settled
        BY <2>2, <1>1 DEF Lists, Settled
      <4>. QED
        BY <4>1, <1>4, <1>6, <1>12
    <3>. QED
      BY <2>2, <3>1, <1>1, <1>6, <1>7, <1>9, <1>12, RowsForwarded
  <2>. QED
    BY <2>1, <2>2
<1>17. counts.completed <= counts.started
  <2>1. Cardinality(probing) \in Nat /\ counts \in Tally
    BY ListFact, TargetsFinite DEF TypeOK
  <2>2. /\ counts.completed + Cardinality(probing) <= counts.started
        /\ counts.completed \in Nat /\ counts.started \in Nat
    BY <2>1 DEF Tallied, Tally
  <2>. QED
    BY <2>1, <2>2
<1>14. Tallied'
  <2>1. Cardinality(probing') = 0 /\ counts' = counts
    BY <1>1, FS_EmptySet
  <2>2. counts.completed \in Nat
    BY DEF TypeOK, Tally
  <2>3. counts'.completed + Cardinality(probing') <= counts'.started
    BY <2>1, <2>2, <1>17
  <2>. QED
    BY <2>1, <2>3, <1>12 DEF Tallied
<1>15. Shown'
  <2>1. counts.completed <= counts.started
    BY <1>17
  <2>2. counts.targets <= Cardinality(actual')
    BY <1>1, ListFact, CardFact DEF Tallied
  <2>. QED
    BY <2>1, <2>2, <1>1, <1>8, <1>9, <1>10, ShownKept
<1>. QED
  BY <1>9, <1>10, <1>11, <1>13, <1>14, <1>15

LEMMA MergeKeeps ==
  ASSUME Inv, Merge
  PROVE  Inv'
<1>. USE DEF Inv
<1> DEFINE done == {t \in list : seen[t] # {}}
           p == [event |-> "none", target |-> NoTarget, counts |-> counts', total |-> 0]
<1>1. /\ pc = "merge" /\ pc' = "passEnd"
      /\ UNCHANGED <<run, pass, part, list, actual, probing, tries, reported, seen, cancel, app>>
  BY DEF Merge
<1>2. done \in SUBSET Targets /\ \A t \in done : t \in Targets /\ t \in list /\ seen[t] # {}
  BY ListFact
<1>3. Working' = Working /\ Healthy' = Healthy
  BY <1>1 DEF Working, Healthy, Worked
<1>4. Settled' = IF Direct THEN Settled ELSE Settled \cup done
  BY <1>1, <1>2 DEF Settled, Direct
<1>5. ~Direct => Settled \cap done = {}
  BY <1>1 DEF Settled
<1>6. ASSUME Lists', TypeOK', counts' = counts, progress' = progress
      PROVE  Direct => Tallied' /\ Shown'
  BY <1>1, <1>4, <1>6, ShownSame DEF Tallied
<1>7. Lists' /\ Rows' /\ TypeOK' /\ Tallied' /\ Shown'
  <2>1. CASE Direct
    <3>1. UNCHANGED <<counts, progress, tx, held>>
      BY <2>1 DEF Merge
    <3>2. Lists'
      BY <1>1, <3>1 DEF Lists, Allowed, Parts
    <3>3. TypeOK'
      BY <1>1, <3>1 DEF TypeOK
    <3>4. Rows'
      BY <2>1, <3>1, <1>1, <1>4, RowsUnmoved DEF Pending
    <3>. QED
      BY <2>1, <3>1, <3>2, <3>3, <3>4, <1>6
  <2>2. CASE ~Direct
    <3>1. PICK m \in [done -> UNION {Merged(t) : t \in done}] :
            /\ \A t \in done : m[t] \in Merged(t)
            /\ Forward(Messages(done, [t \in done |-> Row(m[t], TRUE)]))
      BY <2>2 DEF Merge
    <3>2. /\ counts' = [counts EXCEPT !.targets = @ + Cardinality(done)]
          /\ progress' \in {progress, Append(progress, p)}
      BY <2>2 DEF Merge, Notify
    <3> DEFINE row == [t \in done |-> Row(m[t], TRUE)]
    <3>3. ASSUME NEW t \in done
          PROVE  /\ row[t] \in RowType /\ row[t].fresh /\ row[t].merged /\ Final(t, row[t])
                 /\ run.checks = 0 /\ row[t].works => t \in Working
      <4>1. t \in Targets /\ seen[t] # {} /\ m[t] \in Merged(t)
        BY <1>2, <3>1
      <4>2. m[t] \in Result /\ Final(t, Row(m[t], TRUE))
        BY <4>1, MergedFact
      <4>3. row[t] = Row(m[t], TRUE)
        OBVIOUS
      <4>. HIDE DEF row
      <4>4. row[t] \in RowType /\ row[t].fresh /\ row[t].merged
        BY <4>2, <4>3, RowFact
      <4>. QED
        BY <4>2, <4>3, <4>4 DEF Final
    <3>4. row \in [done -> RowType] /\ Forward(Messages(done, row))
      BY <3>1, <3>3
    <3>. HIDE DEF row, done
    <3>5. PICK new \in Seq(Message) :
            /\ Forward(new) /\ DOMAIN new = 1..Cardinality(done)
            /\ \A i \in DOMAIN new : new[i].target \in done /\ new[i].row = row[new[i].target]
            /\ \A i, k \in DOMAIN new : new[i].target = new[k].target => i = k
            /\ \A t \in done : \E i \in DOMAIN new : new[i].target = t
      BY <1>2, <3>4, MessagesFact
    <3>6. Cardinality(done) \in Nat /\ IsFiniteSet(done)
      BY <1>2, TargetsFinite
    <3>7. /\ counts' \in Tally /\ counts'.completed = counts.completed
          /\ counts'.started = counts.started
          /\ counts'.targets = counts.targets + Cardinality(done)
      <4>1. counts \in Tally
        BY DEF TypeOK
      <4>2. counts.started \in Nat /\ counts.completed \in Nat /\ counts.targets \in Nat
        BY <4>1 DEF Tally
      <4>. QED
        BY <4>1, <4>2, <3>2, <3>6 DEF Tally
    <3>8. p \in Snapshot /\ p.counts = counts' /\ p.total = 0
      BY <3>7 DEF Snapshot
    <3>. HIDE DEF p
    <3>9. /\ tx' \in Seq(Message) /\ held' \in Seq(Message) /\ Pending' = Pending \o new
          /\ (run.kind = "twoPhase" /\ pass = 1) \/ held' = <<>>
      BY <3>5, ForwardFact
    <3>10. TypeOK'
      <4>1. progress' \in Seq(Snapshot)
        BY <3>2, <3>8, ProgressFact
      <4>. QED
        BY <4>1, <1>1, <3>7, <3>9 DEF TypeOK
    <3>11. Lists'
      <4>1. ~complete
        BY <1>1 DEF Lists
      <4>. QED
        BY <4>1, <1>1, <3>9 DEF Lists, Allowed, Parts
    <3>12. Rows'
      <4>1. \A i \in DOMAIN new :
              /\ new[i].row.fresh /\ new[i].target \notin Settled
              /\ new[i].row.merged =>
                   /\ new[i].target \in Settled' /\ Final(new[i].target, new[i].row)'
                   /\ \A k \in DOMAIN new : k > i => new[k].target # new[i].target
              /\ run.checks = 0 /\ new[i].row.works => new[i].target \in Working'
        <5>. SUFFICES ASSUME NEW i \in DOMAIN new
                      PROVE  /\ new[i].row.fresh /\ new[i].target \notin Settled
                             /\ new[i].target \in Settled' /\ Final(new[i].target, new[i].row)'
                             /\ \A k \in DOMAIN new : k > i => new[k].target # new[i].target
                             /\ run.checks = 0 /\ new[i].row.works => new[i].target \in Working'
          OBVIOUS
        <5>1. new[i].target \in done /\ new[i].row = row[new[i].target]
          BY <3>5
        <5>2. new[i].target \notin Settled /\ new[i].target \in Settled'
          BY <5>1, <2>2, <1>4, <1>5
        <5>3. Final(new[i].target, new[i].row)'
          BY <5>1, <3>3, <1>1, <1>3 DEF Final
        <5>4. \A k \in DOMAIN new : k > i => new[k].target # new[i].target
          <6>1. i \in 1..Cardinality(done)
            BY <3>5
          <6>. QED
            BY <6>1, <3>5, <3>6
        <5>. QED
          BY <5>1, <5>2, <5>3, <5>4, <3>3, <1>3
      <4>2. \A t \in Settled' \ Settled : \E i \in DOMAIN new : new[i].target = t /\ new[i].row.merged
        <5>. SUFFICES ASSUME NEW t \in Settled' \ Settled
                      PROVE  \E i \in DOMAIN new : new[i].target = t /\ new[i].row.merged
          OBVIOUS
        <5>1. t \in done
          BY <2>2, <1>4
        <5>2. PICK i \in DOMAIN new : new[i].target = t
          BY <5>1, <3>5
        <5>. QED
          BY <5>1, <5>2, <3>3, <3>5
      <4>. QED
        BY <4>1, <4>2, <2>2, <3>5, <3>9, <3>10, <1>1, <1>3, <1>4, RowsForwarded
    <3>13. Tallied'
      <4>1. Cardinality(Settled') = Cardinality(Settled) + Cardinality(done)
        <5>1. IsFiniteSet(Settled) /\ Cardinality(Settled) \in Nat
          BY ListFact, TargetsFinite
        <5>2. Cardinality({}) = 0
          BY FS_EmptySet
        <5>3. Cardinality(Settled \cup done) = Cardinality(Settled) + Cardinality(done) - Cardinality(Settled \cap done)
          BY <5>1, <3>6, FS_Union
        <5>4. Settled' = Settled \cup done /\ Settled \cap done = {}
          BY <2>2, <1>4, <1>5
        <5>5. Cardinality(Settled \cap done) = 0 /\ Cardinality(Settled') = Cardinality(Settled \cup done)
          BY <5>2, <5>4
        <5>. QED
          BY <5>1, <5>3, <5>5, <3>6
      <4>. QED
        BY <4>1, <3>7, <1>1 DEF Tallied
    <3>14. Shown'
      <4>1. counts'.completed <= counts'.started
        <5>1. Cardinality(probing) \in Nat /\ counts \in Tally
          BY ListFact, TargetsFinite DEF TypeOK
        <5>2. /\ counts.completed + Cardinality(probing) <= counts.started
              /\ counts.completed \in Nat /\ counts.started \in Nat
          BY <5>1 DEF Tallied, Tally
        <5>. QED
          BY <5>1, <5>2, <3>7
      <4>2. counts'.targets <= Cardinality(actual')
        <5>1. Settled' \in SUBSET actual
          BY <2>2, <1>2, <1>4, ListFact DEF Lists
        <5>. QED
          BY <5>1, <1>1, <3>13, ListFact, CardFact DEF Tallied
      <4>. QED
        BY <4>1, <4>2, <1>1, <3>2, <3>8, <3>10, <3>11, ShownKept
    <3>. QED
      BY <3>10, <3>11, <3>12, <3>13, <3>14
  <2>. QED
    BY <2>1, <2>2
<1>8. Seen'
  <2>1. \A t \in Targets : \A e \in seen[t] : t \in list => Index(e) < part
    BY <1>1 DEF Seen, EntryOK
  <2>. QED
    BY <2>1, <1>1, SeenKept
<1>. QED
  BY <1>7, <1>8

LEMMA EndPassKeeps ==
  ASSUME Inv, EndPass
  PROVE  Inv'
<1>. USE DEF Inv
<1>1. pc = "passEnd" /\ UNCHANGED <<run, probing, tries, reported, seen, counts, cancel, app>> /\ ~complete
  BY DEF EndPass, Lists
<1>2. \A t \in Targets : \A e \in seen[t] : t \in list => Index(e) < part
  BY <1>1 DEF Seen, EntryOK
<1>3. reported = {} /\ probing = {}
  BY <1>1 DEF Lists
<1>4. Settled = {t \in Targets : seen[t] # {}}
  BY <1>1 DEF Settled
<1>5. tx' = tx \o held /\ held' = <<>> => /\ tx' \in Seq(Message) /\ held' \in Seq(Message)
                                          /\ Pending' = Pending
  <2>1. tx \o held \in Seq(Message) /\ (tx \o held) \o <<>> = tx \o held
    BY ConcatProperties, ConcatEmptySeq DEF TypeOK
  <2>. QED
    BY <2>1 DEF Pending
<1>6. CASE pc' = "done" /\ ((held' = held /\ held = <<>> /\ tx' = tx) \/ (tx' = tx \o held /\ held' = <<>>))
           /\ UNCHANGED <<pass, part, list, actual, progress>>
  <2>1. tx' \in Seq(Message) /\ held' = <<>> /\ held' \in Seq(Message) /\ Pending' = Pending
    BY <1>5, <1>6 DEF TypeOK, Pending
  <2>2. TypeOK'
    BY <1>1, <1>6, <2>1 DEF TypeOK
  <2>3. Lists'
    BY <1>1, <1>6, <2>1 DEF Lists, Allowed
  <2>4. Seen'
    BY <1>1, <1>2, <1>6, SeenKept
  <2>5. Settled' = Settled
    BY <1>1, <1>4, <1>6 DEF Settled
  <2>6. Rows'
    BY <1>1, <2>1, <2>5, RowsUnmoved
  <2>7. Tallied'
    BY <1>1, <2>5 DEF Tallied
  <2>8. Shown'
    BY <1>1, <1>6, <2>2, <2>3, ShownSame
  <2>. QED
    BY <2>2, <2>3, <2>4, <2>6, <2>7, <2>8
<1>7. CASE run.kind = "twoPhase" /\ pass = 1 /\ tx' = tx \o held /\ held' = <<>> /\
           \E more \in SUBSET Allowed :
             /\ more \cap actual = {}
             /\ actual' = actual \cup more /\ list' = more
             /\ progress' \in {progress,
                               Append(progress, [event |-> "none", target |-> NoTarget,
                                                 counts |-> [started |-> 0, completed |-> 0, targets |-> 0],
                                                 total |-> Cardinality(actual')])}
             /\ pc' = "part" /\ pass' = 2 /\ part' = 1
  <2> DEFINE zero == [started |-> 0, completed |-> 0, targets |-> 0]
             p == [event |-> "none", target |-> NoTarget, counts |-> zero, total |-> Cardinality(actual')]
  <2>1. PICK more \in SUBSET Allowed :
          /\ more \cap actual = {}
          /\ actual' = actual \cup more /\ list' = more
          /\ progress' \in {progress, Append(progress, p)}
          /\ pc' = "part" /\ pass' = 2 /\ part' = 1
    BY <1>7
  <2>2. tx' \in Seq(Message) /\ held' = <<>> /\ held' \in Seq(Message) /\ Pending' = Pending
    BY <1>5, <1>7
  <2>3. actual' \in SUBSET Targets /\ Cardinality(actual') \in Nat
    <3>1. more \subseteq Targets /\ actual \subseteq Targets
      BY ListFact, RunFacts DEF Allowed, Targets
    <3>2. actual' \in SUBSET Targets
      BY <2>1, <3>1
    <3>. QED
      BY <3>2, TargetsFinite
  <2>4. p \in Snapshot /\ p.counts.completed = 0 /\ p.counts.started = 0 /\ p.counts.targets = 0
        /\ p.total = Cardinality(actual')
    <3>1. zero \in Tally
      BY DEF Tally
    <3>. QED
      BY <2>3, <3>1 DEF Snapshot
  <2>. HIDE DEF p, zero
  <2>5. TypeOK'
    <3>1. progress' \in Seq(Snapshot)
      BY <2>1, <2>4, ProgressFact
    <3>. QED
      BY <3>1, <1>1, <2>1, <2>2 DEF TypeOK
  <2>6. Lists'
    <3>1. list' \subseteq actual' /\ actual' \subseteq Allowed'
      BY <1>1, <2>1 DEF Lists, Allowed
    <3>. QED
      BY <3>1, <1>1, <1>3, <2>1, <2>2 DEF Lists
  <2>7. \A t \in list' : seen[t] = {}
    <3>1. \A t \in more : t \in Targets /\ t \notin actual
      BY <2>1, RunFacts DEF Allowed, Targets
    <3>. QED
      BY <2>1, <3>1 DEF Lists
  <2>8. Seen'
    BY <1>1, <2>1, <2>7, SeenKept
  <2>9. Settled' = Settled
    BY <1>1, <1>4, <2>7 DEF Settled
  <2>10. Rows'
    BY <1>1, <2>2, <2>9, RowsUnmoved
  <2>11. Tallied'
    BY <1>1, <2>9 DEF Tallied
  <2>12. Shown'
    <3>1. actual \subseteq actual' /\ pass = 1 /\ dash' = dash /\ activity' = activity
      BY <1>1, <1>7, <2>1
    <3>2. /\ p.counts.completed <= p.counts.started /\ p.counts.targets <= Cardinality(actual')
          /\ p.total = Cardinality(actual') /\ pass' = 2
      BY <2>1, <2>3, <2>4
    <3>. QED
      BY <3>1, <3>2, <2>1, <2>4, <2>5, <2>6, ShownKept
  <2>. QED
    BY <2>5, <2>6, <2>8, <2>10, <2>11, <2>12
<1>8. CASE run.kind # "twoPhase" \/ pass = 2
  <2>1. held = <<>>
    BY <1>8 DEF Lists
  <2>2. pc' = "done" /\ UNCHANGED <<pass, part, list, actual, held, tx, progress>>
    BY <1>8 DEF EndPass
  <2>. QED
    BY <2>1, <2>2, <1>6
<1>9. CASE ~(run.kind # "twoPhase" \/ pass = 2)
  <2>1. pass = 1 /\ run.kind = "twoPhase" /\ tx' = tx \o held /\ held' = <<>>
    BY <1>9 DEF EndPass, TypeOK
  <2>2. CASE cancel
    BY <2>1, <2>2, <1>6, <1>9 DEF EndPass
  <2>3. CASE ~cancel
    <3>1. PICK focus \in FocusSets :
            \E S \in Draws([c \in Cidrs |-> IF c \in focus THEN FocusPer ELSE DiscoverPer]) :
              LET more == NewTargets(S)
              IN IF more = {}
                 THEN pc' = "done" /\ UNCHANGED <<pass, part, list, actual, progress>>
                 ELSE /\ actual' = actual \cup more /\ list' = more
                      /\ Notify("none", NoTarget, [started |-> 0, completed |-> 0, targets |-> 0],
                                Cardinality(actual'))
                      /\ pc' = "part" /\ pass' = 2 /\ part' = 1
      BY <2>3, <1>9 DEF EndPass
    <3>2. PICK S \in SUBSET Allowed :
            IF NewTargets(S) = {}
            THEN pc' = "done" /\ UNCHANGED <<pass, part, list, actual, progress>>
            ELSE /\ actual' = actual \cup NewTargets(S) /\ list' = NewTargets(S)
                 /\ Notify("none", NoTarget, [started |-> 0, completed |-> 0, targets |-> 0],
                           Cardinality(actual'))
                 /\ pc' = "part" /\ pass' = 2 /\ part' = 1
      BY <3>1 DEF Draws
    <3>3. NewTargets(S) \in SUBSET Allowed /\ NewTargets(S) \cap actual = {}
      BY DEF NewTargets
    <3>4. CASE NewTargets(S) = {}
      BY <3>2, <3>4, <2>1, <1>6
    <3>5. CASE NewTargets(S) # {}
      BY <3>2, <3>3, <3>5, <2>1, <1>7 DEF Notify
    <3>. QED
      BY <3>4, <3>5
  <2>. QED
    BY <2>2, <2>3
<1>. QED
  BY <1>8, <1>9

(* Taking a row from the channel takes the first of those under way.       *)
LEMMA TakenFact ==
  ASSUME Inv, AddResult
  PROVE  /\ Pending[1] = Head(tx) /\ Head(tx) \in Message /\ 1 \in DOMAIN Pending
         /\ tx' \in Seq(Message)
         /\ \A i \in DOMAIN Pending' : i + 1 \in DOMAIN Pending /\ Pending'[i] = Pending[i + 1]
         /\ \A i \in DOMAIN Pending : i # 1 => \E k \in DOMAIN Pending' : i = k + 1
         /\ \A i \in DOMAIN Pending' : i \in Nat
<1>1. tx \in Seq(Message) /\ held \in Seq(Message) /\ tx # <<>> /\ tx' = Tail(tx) /\ held' = held
  BY DEF Inv, TypeOK, AddResult
<1>2. PICK n \in Nat, h \in Nat : n = Len(tx) /\ h = Len(held)
  BY <1>1, LenProperties
<1>3. n # 0
  BY <1>1, <1>2, EmptySeq
<1>4. /\ Tail(tx) \in Seq(Message) /\ Len(Tail(tx)) = n - 1
      /\ \A i \in 1..(n - 1) : Tail(tx)[i] = tx[i + 1]
      /\ Head(tx) = tx[1]
  BY <1>1, <1>2
<1>5. /\ Pending \in Seq(Message) /\ Len(Pending) = n + h
      /\ \A i \in 1..(n + h) : Pending[i] = IF i <= n THEN tx[i] ELSE held[i - n]
  BY <1>1, <1>2, ConcatProperties DEF Pending
<1>6. /\ Tail(tx) \o held \in Seq(Message) /\ Len(Tail(tx) \o held) = (n - 1) + h
      /\ \A i \in 1..((n - 1) + h) : (Tail(tx) \o held)[i] = IF i <= n - 1 THEN Tail(tx)[i] ELSE held[i - (n - 1)]
  <2>1. Len(Tail(tx)) + Len(held) = (n - 1) + h
    BY <1>2, <1>4
  <2>. QED
    BY <2>1, <1>1, <1>2, <1>4, ConcatProperties
<1>7. Pending' = Tail(tx) \o held
  BY <1>1 DEF Pending
<1>8. DOMAIN Pending = 1..(n + h) /\ DOMAIN Pending' = 1..((n - 1) + h)
  BY <1>5, <1>6, <1>7, LenProperties
<1>9. ASSUME NEW i \in 1..((n - 1) + h)
      PROVE  i + 1 \in 1..(n + h) /\ Pending'[i] = Pending[i + 1]
  <2>1. CASE i <= n - 1
    BY <2>1, <1>3, <1>4, <1>5, <1>6, <1>7
  <2>2. CASE ~(i <= n - 1)
    <3>1. i + 1 \in 1..(n + h) /\ ~(i + 1 <= n) /\ (i + 1) - n = i - (n - 1)
      BY <2>2, <1>3
    <3>. QED
      BY <2>2, <3>1, <1>5, <1>6, <1>7
  <2>. QED
    BY <2>1, <2>2
<1>10. \A i \in 1..(n + h) : i # 1 => i - 1 \in 1..((n - 1) + h) /\ i = (i - 1) + 1
  BY <1>3
<1>11. 1 \in 1..(n + h) /\ 1 <= n
  BY <1>3
<1>12. Pending[1] = Head(tx) /\ Pending[1] \in Message
  BY <1>4, <1>5, <1>11, ElementOfSeq
<1>13. \A i \in DOMAIN Pending' : i \in Nat /\ i + 1 \in DOMAIN Pending /\ Pending'[i] = Pending[i + 1]
  BY <1>8, <1>9
<1>14. \A i \in DOMAIN Pending : i # 1 => \E k \in DOMAIN Pending' : i = k + 1
  BY <1>8, <1>10
<1>15. tx' \in Seq(Message) /\ 1 \in DOMAIN Pending
  BY <1>1, <1>4, <1>8, <1>11
<1>. QED
  BY <1>12, <1>13, <1>14, <1>15

LEMMA AddResultKeeps ==
  ASSUME Inv, AddResult
  PROVE  Inv'
<1>. USE DEF Inv
<1>1. PICK m \in Message :
        /\ m = Pending[1] /\ 1 \in DOMAIN Pending
        /\ rows' = IF Hides(rows[m.target], m.row) THEN rows ELSE [rows EXCEPT ![m.target] = m.row]
        /\ activity' = [activity EXCEPT ![m.target] = Counted(@, Larger(@.completed, m.row.done))]
        /\ UNCHANGED <<run, scan, progress, cancel, dash, complete>>
  BY TakenFact DEF AddResult
<1>2. m.target \in Targets /\ m.row \in RowType
  BY DEF Message
<1>3. /\ m.row.done \in Nat /\ m.row.works \in BOOLEAN /\ m.row.merged \in BOOLEAN
  BY <1>2 DEF RowType
<1>4. ~complete
  BY DEF AddResult, Lists
<1>5. /\ tx' \in Seq(Message)
      /\ \A i \in DOMAIN Pending' : i \in Nat /\ i + 1 \in DOMAIN Pending /\ Pending'[i] = Pending[i + 1]
      /\ \A i \in DOMAIN Pending : i # 1 => \E k \in DOMAIN Pending' : i = k + 1
  BY TakenFact
<1>6. ASSUME NEW t \in Targets
      PROVE  /\ activity'[t] \in [started : Nat, completed : Nat]
             /\ activity'[t].completed <= activity'[t].started
  <2>1. activity[t] \in [started : Nat, completed : Nat] /\ activity[t].completed <= activity[t].started
    BY DEF TypeOK, Shown
  <2>2. activity[t].started \in Nat /\ activity[t].completed \in Nat
    BY <2>1
  <2>3. \A a, b \in Nat : Larger(a, b) \in Nat /\ b <= Larger(a, b)
    BY DEF Larger
  <2>4. PICK done \in Nat : done = Larger(activity[t].completed, m.row.done)
    BY <2>2, <2>3, <1>3
  <2>5. PICK begun \in Nat : begun = Larger(activity[t].started, done) /\ done <= begun
    BY <2>2, <2>3
  <2>6. Counted(activity[t], done) = [started |-> begun, completed |-> done]
    BY <2>5 DEF Counted
  <2>7. CASE t = m.target
    <3>1. activity'[t] = [started |-> begun, completed |-> done]
      BY <2>4, <2>6, <2>7, <1>1 DEF TypeOK
    <3>. QED
      BY <3>1, <2>5
  <2>8. CASE t # m.target
    BY <2>1, <2>8, <1>1, <1>2 DEF TypeOK
  <2>. QED
    BY <2>7, <2>8
<1>7. rows' \in [Targets -> RowType] /\ activity' \in [Targets -> [started : Nat, completed : Nat]]
  <2>1. rows' \in [Targets -> RowType]
    BY <1>1, <1>2 DEF TypeOK
  <2>2. DOMAIN activity' = Targets /\ activity' = [t \in Targets |-> activity'[t]]
    BY <1>1 DEF TypeOK
  <2>. QED
    BY <2>1, <2>2, <1>6
<1>8. TypeOK'
  BY <1>1, <1>5, <1>7 DEF TypeOK
<1>9. Lists'
  BY <1>1, <1>4 DEF Lists, Allowed, Parts
<1>10. Seen'
  <2>1. \A t \in Targets : \A e \in seen[t] : t \in list =>
          Index(e) < part \/ (Index(e) = part /\ pc = "run" /\ t \in reported)
    BY DEF Seen, EntryOK
  <2>. QED
    BY <2>1, <1>1, SeenKept
<1>11. Settled' = Settled /\ Working' = Working /\ Healthy' = Healthy
  BY <1>1 DEF Settled, Direct, Working, Healthy, Worked
<1>12. \A t, row : Final(t, row)' <=> Final(t, row)
  BY <1>1, <1>11 DEF Final
<1>13. ASSUME NEW i \in DOMAIN Pending'
       PROVE  MessageOK(i)'
  <2>1. i + 1 \in DOMAIN Pending /\ Pending'[i] = Pending[i + 1] /\ i \in Nat
    BY <1>5
  <2>2. MessageOK(i + 1)
    BY <2>1 DEF Rows
  <2>3. ASSUME Pending[i + 1].row.merged, NEW k \in DOMAIN Pending', k > i
        PROVE  Pending'[k].target # Pending[i + 1].target
    <3>1. k + 1 \in DOMAIN Pending /\ Pending'[k] = Pending[k + 1] /\ k \in Nat
      BY <1>5
    <3>2. k + 1 > i + 1
      BY <2>1, <2>3, <3>1
    <3>. QED
      BY <2>2, <2>3, <3>1, <3>2 DEF MessageOK
  <2>4. Pending[i + 1].row.merged => /\ Pending[i + 1].target \in Settled'
                                     /\ Final(Pending[i].target, Pending[i].row)'
    BY <2>1, <2>2, <1>11, <1>1 DEF MessageOK, Final
  <2>5. /\ Pending[i + 1].row.fresh
        /\ run.checks = 0 /\ Pending[i + 1].row.works => Pending[i + 1].target \in Working'
    BY <2>2, <1>11 DEF MessageOK
  <2>. QED
    BY <2>1, <2>3, <2>4, <2>5, <1>1, <1>11, <2>2 DEF MessageOK, Final
<1>14. ASSUME NEW t \in Targets
       PROVE  RowOK(t)'
  <2>1. RowOK(t) /\ MessageOK(1)
    BY <1>1 DEF Rows
  <2>2. \A i \in DOMAIN Pending : i # 1 /\ Pending[i].target = t /\ Pending[i].row.merged =>
          \E k \in DOMAIN Pending' : Pending'[k].target = t /\ Pending'[k].row.merged
    BY <1>5
  <2>3. CASE rows'[t] = rows[t] /\ (t # m.target \/ ~m.row.merged)
    <3>1. rows[t].fresh /\ rows[t].merged =>
            /\ t \in Settled' /\ Final(t, rows[t])' /\ \A i \in DOMAIN Pending' : Pending'[i].target # t
      <4>. SUFFICES ASSUME rows[t].fresh, rows[t].merged
                    PROVE  t \in Settled /\ Final(t, rows[t])' /\ \A i \in DOMAIN Pending' : Pending'[i].target # t
        BY <1>11
      <4>1. t \in Settled /\ Final(t, rows[t]) /\ \A i \in DOMAIN Pending : Pending[i].target # t
        BY <2>1 DEF RowOK
      <4>2. Final(t, rows[t])'
        BY <4>1, <2>3, <1>1, <1>11 DEF Final
      <4>. QED
        BY <4>1, <4>2, <1>5
    <3>2. rows[t].fresh /\ rows[t].works /\ run.checks = 0 => t \in Working'
      BY <2>1, <1>11 DEF RowOK
    <3>3. t \in Settled =>
            \/ \E i \in DOMAIN Pending' : Pending'[i].target = t /\ Pending'[i].row.merged
            \/ rows[t].fresh /\ rows[t].merged
      BY <2>1, <2>2, <2>3, <1>1 DEF RowOK
    <3>. QED
      BY <3>1, <3>2, <3>3, <2>3, <1>1, <1>11 DEF RowOK, Final
  <2>4. CASE t = m.target /\ rows'[t] = m.row
    <3>1. m.row.merged => /\ t \in Settled' /\ Final(t, rows[t])'
                          /\ \A i \in DOMAIN Pending' : Pending'[i].target # t
      <4>. SUFFICES ASSUME m.row.merged
                    PROVE  t \in Settled /\ Final(t, rows[t])' /\ \A i \in DOMAIN Pending' : Pending'[i].target # t
        BY <1>11
      <4>1. t \in Settled /\ Final(t, m.row) /\ \A k \in DOMAIN Pending : k > 1 => Pending[k].target # t
        BY <2>1, <2>4, <1>1 DEF MessageOK
      <4>2. Final(t, rows[t])'
        BY <4>1, <2>4, <1>1, <1>11 DEF Final
      <4>3. \A i \in DOMAIN Pending' : i + 1 > 1 /\ i + 1 \in DOMAIN Pending /\ Pending'[i] = Pending[i + 1]
        <5>1. \A i \in DOMAIN Pending' : i # 0
          BY <1>5, <1>8, PendingFact, LenProperties DEF Pending, TypeOK
        <5>. QED
          BY <5>1, <1>5
      <4>. QED
        BY <4>1, <4>2, <4>3
    <3>2. m.row.works /\ run.checks = 0 => t \in Working'
      BY <2>1, <2>4, <1>1, <1>11 DEF MessageOK
    <3>3. ~m.row.merged /\ t \in Settled =>
            \E i \in DOMAIN Pending' : Pending'[i].target = t /\ Pending'[i].row.merged
      BY <2>1, <2>2, <2>4, <1>1 DEF RowOK
    <3>4. m.row.fresh
      BY <2>1, <1>1 DEF MessageOK
    <3>. QED
      BY <3>1, <3>2, <3>3, <3>4, <2>4, <1>1, <1>11 DEF RowOK, Final
  <2>5. Hides(rows[m.target], m.row) => ~m.row.merged
    BY DEF Hides
  <2>6. CASE t # m.target \/ Hides(rows[m.target], m.row)
    BY <2>3, <2>5, <2>6, <1>1 DEF TypeOK
  <2>7. CASE t = m.target /\ ~Hides(rows[m.target], m.row)
    BY <2>4, <2>7, <1>1 DEF TypeOK
  <2>. QED
    BY <2>6, <2>7
<1>15. Rows'
  BY <1>13, <1>14 DEF Rows
<1>16. Tallied'
  BY <1>1, <1>11 DEF Tallied
<1>17. Shown'
  <2>1. \A i \in DOMAIN progress' : SnapshotOK(progress[i])'
    BY <1>1 DEF Shown, SnapshotOK
  <2>. QED
    BY <2>1, <1>1, <1>6 DEF Shown
<1>. QED
  BY <1>8, <1>9, <1>10, <1>15, <1>16, <1>17

-----------------------------------------------------------------------------
LEMMA InitHolds == Init => Inv
<1>. SUFFICES ASSUME Init
              PROVE  Inv
  OBVIOUS
<1>1. run \in Runs /\ run.hosts \subseteq Hosts
  BY CompositionAssumption DEF Init
<1>2. list \in SUBSET Allowed /\ actual = list
  BY DEF Init, Draws
<1>3. TypeOK
  <2>1. <<>> \in Seq(Message) /\ <<>> \in Seq(Snapshot)
    OBVIOUS
  <2>2. NoRow \in RowType /\ OldRow \in RowType
    BY DEF NoRow, OldRow, RowType
  <2>3. rows \in [Targets -> RowType]
    BY <2>2 DEF Init
  <2>4. [started |-> 0, completed |-> 0] \in [started : Nat, completed : Nat]
    OBVIOUS
  <2>5. activity \in [Targets -> [started : Nat, completed : Nat]]
    BY <2>4 DEF Init
  <2>6. seen \in [Targets -> SUBSET Entry] /\ \A t \in Targets : IsFiniteSet(seen[t])
    BY FS_EmptySet DEF Init
  <2>7. tries \in [Targets -> Nat]
    BY DEF Init
  <2>8. /\ counts \in Tally /\ dash \in [started : Nat, completed : Nat, targets : Nat, total : Nat]
    BY DEF Init, Tally
  <2>9. pc \in {"sweep", "part"}
    BY DEF Init
  <2>10. held \in Seq(Message) /\ tx \in Seq(Message) /\ progress \in Seq(Snapshot)
    BY <2>1 DEF Init
  <2>11. pass = 1 /\ part = 1 /\ cancel \in BOOLEAN /\ complete \in BOOLEAN
    BY DEF Init
  <2>. QED
    BY <2>3, <2>5, <2>6, <2>7, <2>8, <2>9, <2>10, <2>11, <1>1 DEF TypeOK
<1>4. Lists
  BY <1>1, <1>2 DEF Init, Lists
<1>5. \A t \in Targets : seen[t] = {}
  BY DEF Init
<1>6. Seen
  BY <1>5 DEF Init, Seen
<1>7. Settled = {}
  BY <1>5 DEF Settled
<1>8. Rows
  <2>1. Pending = <<>>
    BY ConcatEmptySeq DEF Init, Pending
  <2>2. DOMAIN Pending = {}
    BY <2>1
  <2>3. \A t \in Targets : rows[t].fresh = FALSE
    BY DEF Init, NoRow, OldRow
  <2>. QED
    BY <2>2, <2>3, <1>7 DEF Rows, RowOK
<1>9. Tallied
  BY <1>7, FS_EmptySet DEF Init, Tallied
<1>10. Shown
  <2>1. Cardinality(actual) \in Nat
    BY <1>3, <1>4, ListFact, TargetsFinite
  <2>2. DOMAIN progress = {}
    BY DEF Init
  <2>. QED
    BY <2>1, <2>2 DEF Init, Shown
<1>. QED
  BY <1>3, <1>4, <1>6, <1>8, <1>9, <1>10 DEF Inv

LEMMA NextKeeps == Inv /\ [Next]_vars => Inv'
<1>. SUFFICES ASSUME Inv, [Next]_vars
              PROVE  Inv'
  OBVIOUS
<1>1. CASE Cancel
  BY <1>1, IdleKeeps DEF Cancel, Inv, TypeOK, Lists
<1>2. CASE JoinScan
  BY <1>2, IdleKeeps DEF JoinScan, Inv, TypeOK
<1>3. CASE UNCHANGED vars
  BY <1>3, IdleKeeps DEF vars, Inv, TypeOK, Lists
<1>4. CASE \E t \in Targets : StartProbe(t) \/ CompleteProbe(t) \/ FinishTarget(t)
  BY <1>4, StartProbeKeeps, CompleteProbeKeeps, FinishTargetKeeps
<1>. QED
  BY <1>1, <1>2, <1>3, <1>4, SweepKeeps, StartPartKeeps, EndPartKeeps, MergeKeeps, EndPassKeeps,
     AddResultKeeps, AddProgressKeeps DEF Next

(* The inductive invariant of a scan.                                      *)
THEOREM InvHolds == Spec => []Inv
<1>1. Init => Inv
  BY InitHolds
<1>2. Inv /\ [Next]_vars => Inv'
  BY NextKeeps
<1>. QED
  BY <1>1, <1>2, PTL DEF Spec

(* What the dashboard counts is never impossible, whichever snapshots and  *)
(* events are lost (scanner.rs ProgressOffsets, tui/mod.rs                 *)
(* apply_scan_progress).                                                   *)
THEOREM CountsHonestHolds == Spec => []CountsHonest
<1>1. Inv => CountsHonest
  BY DEF Inv, Shown, CountsHonest
<1>. QED
  BY <1>1, InvHolds, PTL

(* The rows of the parts, of the passes and of an earlier run end in the   *)
(* merged row of each address, which says what all its ports and checks    *)
(* say together (scanner.rs merge_port_results, merge_profile_results,     *)
(* tui/mod.rs add_result).                                                 *)
THEOREM TableSettlesHolds == Spec => []TableSettles
<1>1. ASSUME Inv
      PROVE  TableSettles
  <2>. SUFFICES ASSUME complete, NEW t \in Targets, seen[t] # {}
                PROVE  /\ rows[t].merged /\ rows[t].fresh
                       /\ rows[t].health <=> \E p \in 1..run.ports :
                                               /\ Worked(t, p, 0)
                                               /\ \A c \in run.required : Worked(t, p, c)
                       /\ run.checks = 0 => (rows[t].works <=> \E p \in 1..run.ports : Worked(t, p, 0))
    BY DEF TableSettles
  <2>1. pc = "done" /\ tx = <<>> /\ held = <<>>
    BY <1>1 DEF Inv, Lists
  <2>2. t \in Settled
    BY <2>1 DEF Settled
  <2>3. DOMAIN Pending = {}
    <3>1. Pending = <<>>
      BY <2>1, ConcatEmptySeq DEF Pending
    <3>. QED
      BY <3>1
  <2>4. RowOK(t)
    BY <1>1 DEF Inv, Rows
  <2>5. rows[t].fresh /\ rows[t].merged
    BY <2>2, <2>3, <2>4 DEF RowOK
  <2>6. Final(t, rows[t])
    BY <2>4, <2>5 DEF RowOK
  <2>7. (\E p \in 1..run.ports : Worked(t, p, 0)) <=> t \in Working
    BY <1>1 DEF Inv, Seen, EntryOK, Worked, Working
  <2>. QED
    BY <2>5, <2>6, <2>7 DEF Final, Healthy
<1>. QED
  BY <1>1, InvHolds, PTL

(* A row that shows an address as working is not replaced by a failed one  *)
(* (tui/mod.rs add_result).                                                *)
THEOREM WorkingStaysHolds == Spec => WorkingStays
<1> DEFINE Stays == \A t \in Targets : run.checks = 0 /\ rows[t].fresh /\ rows[t].works => rows'[t].works
<1>1. ASSUME Inv, [Next]_vars
      PROVE  [Stays]_vars
  <2>1. CASE AddResult
    <3>. SUFFICES ASSUME NEW t \in Targets, run.checks = 0, rows[t].fresh, rows[t].works
                  PROVE  rows'[t].works
      OBVIOUS
    <3>1. PICK m \in Message :
            /\ m = Pending[1] /\ 1 \in DOMAIN Pending
            /\ rows' = IF Hides(rows[m.target], m.row) THEN rows ELSE [rows EXCEPT ![m.target] = m.row]
      BY <1>1, <2>1, TakenFact DEF AddResult
    <3>2. CASE t # m.target \/ Hides(rows[m.target], m.row)
      BY <3>1, <3>2, <1>1 DEF Inv, TypeOK
    <3>3. CASE t = m.target /\ ~Hides(rows[m.target], m.row)
      <4>1. rows'[t] = m.row
        BY <3>1, <3>3, <1>1 DEF Inv, TypeOK
      <4>2. t \in Working
        BY <1>1 DEF Inv, Rows, RowOK
      <4>3. ~complete
        BY <1>1, <2>1 DEF Inv, Lists, AddResult
      <4>4. CASE m.row.merged
        <5>1. Final(t, m.row)
          BY <1>1, <3>1, <3>3, <4>4 DEF Inv, Rows, MessageOK
        <5>. QED
          BY <4>1, <4>2, <5>1 DEF Final
      <4>5. CASE ~m.row.merged
        BY <3>3, <4>1, <4>3, <4>5 DEF Hides
      <4>. QED
        BY <4>4, <4>5
    <3>. QED
      BY <3>2, <3>3
  <2>2. ASSUME ~AddResult
        PROVE  rows' = rows
    BY <1>1, <2>2 DEF Next, vars, Sweep, StartPart, EndPart, Merge, EndPass, Cancel, StartProbe,
                      CompleteProbe, FinishTarget, AddProgress, JoinScan
  <2>. QED
    BY <2>1, <2>2
<1>2. Spec => [][Stays]_vars
  BY <1>1, InvHolds, PTL DEF Spec
<1>. QED
  BY <1>2 DEF WorkingStays
=============================================================================
