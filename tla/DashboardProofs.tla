--------------------------- MODULE DashboardProofs ---------------------------
(***************************************************************************)
(* Theorems about Dashboard, for any addresses, grades and filters, and a  *)
(* run log of any capacity of at least two.                                *)
(***************************************************************************)
EXTENDS Dashboard, FiniteSetTheorems, SequenceTheorems, WellFoundedInduction, TLAPS

USE DEF table, look, place, run, want, log, screen

Entry == [id: Nat \ {0}, source: Nat]

(* An investigation, in the log before the run it was of: its source is    *)
(* the current run, or a run that was archived after it.                   *)
Traced(h, c, j) ==
  h[j].source = c.id \/ \E i \in DOMAIN h : i < j /\ h[j].source = h[i].id

(* Every entry of the log h is another run than the current run c, and     *)
(* nothing is compared with an investigation.                              *)
Sound(h, c) ==
  /\ h \in Seq(Entry)
  /\ \A i, j \in DOMAIN h : h[i].id = h[j].id => i = j
  /\ \A j \in DOMAIN h :
       /\ h[j].id # c.id /\ h[j].source # h[j].id
       /\ Traced(h, c, j) => /\ c.source # h[j].id
                             /\ \A i \in DOMAIN h : h[i].source # h[j].id

Chained ==
  /\ nextId \in Nat /\ current \in Entry /\ current.source < current.id /\ current.id < nextId
  /\ pending.source \in {0, current.id}
  /\ investigation # NoInvestigation =>
       /\ investigation \in Entry /\ investigation.source = current.id
       /\ current.id < investigation.id /\ investigation.id < nextId
       /\ \A i \in DOMAIN history : history[i].id # investigation.id
  /\ Sound(history, current)
  /\ \A i \in DOMAIN history : history[i].id < nextId /\ history[i].source <= current.id
  /\ comparable => \E i \in DOMAIN history : history[i].id = current.source

-----------------------------------------------------------------------------
LEMMA GreatestFact ==
  ASSUME NEW n \in Nat, NEW S \in SUBSET (1..n), S # {}
  PROVE  \E i \in S : \A j \in S : j <= i
<1> DEFINE Over(i) == {j \in S : j > i}
           All == {Over(i) : i \in S}
<1>1. IsFiniteSet(S) /\ \A i \in S : i \in Nat
  <2>1. IsFiniteSet(1..n)
    BY FS_Interval
  <2>2. IsFiniteSet(S)
    BY <2>1, FS_Subset
  <2>. QED
    BY <2>2
<1>2. All \subseteq FiniteSubsetsOf(S) /\ All # {}
  <2>1. FiniteSubsetsOf(S) = SUBSET S
    BY <1>1, FS_FiniteSubsetsOfFinite
  <2>2. \A i \in S : Over(i) \in FiniteSubsetsOf(S)
    BY <2>1
  <2>. HIDE DEF Over
  <2>3. All \subseteq FiniteSubsetsOf(S)
    BY <2>2
  <2>4. \E i : i \in S
    OBVIOUS
  <2>. QED
    BY <2>3, <2>4
<1>3. PICK X \in All : \A Y \in All : <<Y, X>> \notin StrictSubsetOrdering(S)
  BY <1>1, <1>2, WFMin, FS_StrictSubsetOrderingWellFounded
<1>4. PICK i \in S : X = Over(i)
  BY <1>3
<1>5. SUFFICES ASSUME NEW j \in S, j > i PROVE FALSE
  BY <1>1
<1>6. Over(j) \subseteq Over(i) /\ j \in Over(i) /\ j \notin Over(j)
  <2>1. i \in Nat /\ j \in Nat /\ \A k \in S : k \in Nat
    BY <1>1
  <2>2. j \in Over(i) /\ j \notin Over(j)
    BY <1>5, <2>1
  <2>3. \A k \in S : k > j => k > i
    BY <1>5, <2>1
  <2>. QED
    BY <2>2, <2>3
<1>7. <<Over(j), Over(i)>> \in StrictSubsetOrdering(S)
  BY <1>6 DEF StrictSubsetOrdering
<1>. QED
  BY <1>3, <1>4, <1>7

(* e is h or h without its entry v.                                        *)
Drops(h, e) ==
  \/ e = h
  \/ \E v \in DOMAIN h :
       /\ Len(e) = Len(h) - 1
       /\ \A i \in DOMAIN e : e[i] = IF i < v THEN h[i] ELSE h[i + 1]

LEMMA DropsSound ==
  ASSUME NEW h \in Seq(Entry), NEW e \in Seq(Entry), NEW c, Sound(h, c), Drops(h, e)
  PROVE  /\ Sound(e, c)
         /\ \A i \in DOMAIN e : \E k \in DOMAIN h : e[i] = h[k]
<1>1. CASE e = h
  BY <1>1
<1>2. ASSUME NEW v \in DOMAIN h, Len(e) = Len(h) - 1,
             \A i \in DOMAIN e : e[i] = IF i < v THEN h[i] ELSE h[i + 1]
      PROVE  /\ Sound(e, c)
             /\ \A i \in DOMAIN e : \E k \in DOMAIN h : e[i] = h[k]
  <2> DEFINE f(i) == IF i < v THEN i ELSE i + 1
  <2>1. \A i \in DOMAIN e : f(i) \in DOMAIN h /\ e[i] = h[f(i)]
    BY <1>2
  <2>2. \A i, j \in DOMAIN e : /\ (f(i) = f(j) => i = j)
                               /\ (i < j => f(i) < f(j))
    OBVIOUS
  <2> HIDE DEF f
  <2>3. \A j \in DOMAIN e : Traced(e, c, j) => Traced(h, c, f(j))
    BY <2>1, <2>2 DEF Traced
  <2>. QED
    BY <2>1, <2>2, <2>3 DEF Sound
<1>. QED
  BY <1>1, <1>2 DEF Drops

(* What follows place v of the log.                                        *)
LEMMA TailFact ==
  ASSUME NEW h \in Seq(Entry), NEW v \in DOMAIN h
  PROVE  /\ SubSeq(h, v + 1, Len(h)) \in Seq(Entry)
         /\ Len(SubSeq(h, v + 1, Len(h))) = Len(h) - v
         /\ \A i \in 1..(Len(h) - v) : SubSeq(h, v + 1, Len(h))[i] = h[v + i]
<1>1. v \in Nat /\ 1 <= v /\ v <= Len(h) /\ Len(h) \in Nat
  OBVIOUS
<1>2. CASE v < Len(h)
  <2>1. v + 1 \in Nat /\ 1 <= v + 1 /\ v + 1 <= Len(h)
    BY <1>1, <1>2
  <2>. QED
    BY <1>1, <2>1
<1>3. CASE v = Len(h)
  <2>1. SubSeq(h, v + 1, Len(h)) = <<>>
    BY <1>1, <1>3, SubSeqEmpty
  <2>. QED
    BY <1>1, <1>3, <2>1
<1>. QED
  BY <1>1, <1>2, <1>3

Free(h) == {i \in 2..Len(h) : h[i].id \notin Linked(h)}

(* A full log loses the oldest free run, or the last one if none is free.  *)
LEMMA EvictFact ==
  ASSUME NEW h \in Seq(Entry)
  PROVE  /\ Evicted(h) \in Seq(Entry)
         /\ \/ Evicted(h) = h
            \/ \E v \in DOMAIN h :
                 /\ Len(h) > HistoryCap
                 /\ v \in Free(h) \/ (Free(h) = {} /\ v = Len(h))
                 /\ Len(Evicted(h)) = Len(h) - 1
                 /\ \A i \in DOMAIN Evicted(h) :
                      Evicted(h)[i] = IF i < v THEN h[i] ELSE h[i + 1]
<1>1. CASE Len(h) <= HistoryCap
  BY <1>1 DEF Evicted
<1>2. CASE Len(h) > HistoryCap
  <2> DEFINE v == IF Free(h) = {} THEN Len(h)
                  ELSE CHOOSE i \in Free(h) : \A j \in Free(h) : j <= i
             e == SubSeq(h, 1, v - 1) \o SubSeq(h, v + 1, Len(h))
  <2>1. Evicted(h) = e
    <3>1. ~(Len(h) <= HistoryCap)
      BY <1>2, DashboardAssumption DEF DashboardAssumption
    <3>. QED
      BY <3>1 DEF Evicted, Free
  <2>2. Len(h) \in Nat /\ Len(h) >= 3 /\ DOMAIN h = 1..Len(h)
    BY <1>2, DashboardAssumption DEF DashboardAssumption
  <2>3. v \in Free(h) \/ (Free(h) = {} /\ v = Len(h))
    <3>1. CASE Free(h) = {}
      BY <3>1
    <3>2. CASE Free(h) # {}
      <4>1. Free(h) \in SUBSET (1..Len(h))
        BY <2>2 DEF Free
      <4>2. \E i \in Free(h) : \A j \in Free(h) : j <= i
        BY <2>2, <3>2, <4>1, GreatestFact
      <4>. QED
        BY <3>2, <4>2
    <3>. QED
      BY <3>1, <3>2
  <2>4. v \in DOMAIN h
    BY <2>2, <2>3 DEF Free
  <2> HIDE DEF v
  <2> DEFINE a == SubSeq(h, 1, v - 1)
             b == SubSeq(h, v + 1, Len(h))
  <2>5. v \in Nat /\ 1 <= v /\ v <= Len(h)
    BY <2>2, <2>4
  <2>6. a \in Seq(Entry) /\ Len(a) = v - 1 /\ \A i \in 1..(v - 1) : a[i] = h[i]
    BY <2>2, <2>5
  <2>7. b \in Seq(Entry) /\ Len(b) = Len(h) - v /\ \A i \in 1..(Len(h) - v) : b[i] = h[v + i]
    BY <2>4, TailFact
  <2>8. e = a \o b
    OBVIOUS
  <2> HIDE DEF a, b, e
  <2>9. e \in Seq(Entry) /\ Len(e) = Len(h) - 1
    <3>1. e \in Seq(Entry) /\ Len(e) = Len(a) + Len(b)
      BY <2>6, <2>7, <2>8
    <3>. QED
      BY <2>2, <2>5, <2>6, <2>7, <3>1
  <2>10. \A i \in DOMAIN e : e[i] = IF i < v THEN h[i] ELSE h[i + 1]
    <3> SUFFICES ASSUME NEW i \in DOMAIN e PROVE e[i] = IF i < v THEN h[i] ELSE h[i + 1]
      OBVIOUS
    <3>1. i \in Nat /\ 1 <= i /\ i <= Len(h) - 1
      BY <2>2, <2>9
    <3>2. CASE i < v
      <4>1. e[i] = a[i]
        BY <2>5, <2>6, <2>7, <2>8, <3>1, <3>2
      <4>. QED
        BY <2>5, <2>6, <3>1, <3>2, <4>1
    <3>3. CASE i >= v
      <4>1. e[i] = b[i - (v - 1)]
        BY <2>2, <2>5, <2>6, <2>7, <2>8, <3>1, <3>3
      <4>2. i - (v - 1) \in 1..(Len(h) - v) /\ v + (i - (v - 1)) = i + 1
        BY <2>2, <2>5, <3>1, <3>3
      <4>. QED
        BY <2>5, <2>7, <3>1, <3>3, <4>1, <4>2
    <3>. QED
      BY <2>5, <3>1, <3>2, <3>3
  <2>. QED
    BY <1>2, <2>1, <2>3, <2>4, <2>9, <2>10
<1>. QED
  BY <1>1, <1>2, DashboardAssumption DEF DashboardAssumption

LEMMA EvictSound ==
  ASSUME NEW h \in Seq(Entry), NEW c, Sound(h, c)
  PROVE  /\ Sound(Evicted(h), c)
         /\ \A i \in DOMAIN Evicted(h) : \E k \in DOMAIN h : Evicted(h)[i] = h[k]
BY EvictFact, DropsSound DEF Drops

(* The log before one run goes: the new run and the old ones.              *)
LEMMA PushedFact ==
  ASSUME NEW h \in Seq(Entry), NEW r \in Entry
  PROVE  /\ <<r>> \o h \in Seq(Entry) /\ Len(<<r>> \o h) = Len(h) + 1 /\ Len(h) \in Nat
         /\ \A i \in 1..Len(h) + 1 : (<<r>> \o h)[i] = IF i = 1 THEN r ELSE h[i - 1]
OBVIOUS

-----------------------------------------------------------------------------
(* An investigation never pushes the source of the current run out.        *)
LEMMA JoinKeeps == ASSUME Chained, JoinInvestigator PROVE Chained'
<1> DEFINE h == <<investigation>> \o history
<1>1. /\ history \in Seq(Entry) /\ investigation \in Entry /\ investigation # NoInvestigation
      /\ history' = Evicted(h) /\ investigation' = NoInvestigation
      /\ UNCHANGED <<current, pending, nextId, comparable>>
  BY DEF JoinInvestigator, Push, Chained, Sound
<1>2. /\ h \in Seq(Entry) /\ Len(h) = Len(history) + 1 /\ Len(history) \in Nat
      /\ \A i \in 1..Len(h) : h[i] = IF i = 1 THEN investigation ELSE history[i - 1]
  BY <1>1, PushedFact
<1> HIDE DEF h
<1>3. /\ DOMAIN h = 1..Len(h) /\ DOMAIN history = 1..Len(history)
      /\ \A i \in DOMAIN history : i + 1 \in DOMAIN h /\ h[i + 1] = history[i]
      /\ \A i \in DOMAIN h : i = 1 \/ (i - 1 \in DOMAIN history /\ h[i] = history[i - 1])
  BY <1>2
<1>4. /\ current.id \in Nat /\ current.source \in Nat /\ current.source < current.id
      /\ current.id < investigation.id
      /\ investigation.source = current.id /\ investigation.id < nextId
      /\ investigation.id \in Nat /\ nextId \in Nat
      /\ \A i \in DOMAIN history : /\ history[i] \in Entry /\ history[i].id \in Nat \ {0}
                                   /\ history[i].id < nextId
                                   /\ history[i].id # investigation.id /\ history[i].id # current.id
                                   /\ history[i].source \in Nat /\ history[i].source <= current.id
  <2>1. /\ current \in Entry /\ investigation \in Entry /\ nextId \in Nat
        /\ current.source < current.id /\ current.id < investigation.id
        /\ investigation.source = current.id /\ investigation.id < nextId
    BY <1>1 DEF Chained
  <2>2. \A i \in DOMAIN history : /\ history[i].id < nextId
                                  /\ history[i].id # investigation.id /\ history[i].id # current.id
                                  /\ history[i].source <= current.id
    BY <1>1 DEF Chained, Sound
  <2>3. \A i \in DOMAIN history : history[i] \in Entry
    BY <1>1
  <2>. QED
    BY <2>1, <2>2, <2>3 DEF Entry
<1>5. \A j \in DOMAIN history : Traced(h, current, j + 1) => Traced(history, current, j)
  <2> SUFFICES ASSUME NEW j \in DOMAIN history, Traced(h, current, j + 1)
               PROVE  Traced(history, current, j)
    OBVIOUS
  <2>1. CASE history[j].source = current.id
    BY <2>1 DEF Traced
  <2>2. CASE \E i \in DOMAIN h : i < j + 1 /\ history[j].source = h[i].id
    <3>1. PICK i \in DOMAIN h : i < j + 1 /\ history[j].source = h[i].id
      BY <2>2
    <3>2. i # 1
      BY <1>2, <1>3, <1>4, <3>1
    <3>. QED
      BY <1>3, <3>1, <3>2 DEF Traced
  <2>. QED
    BY <1>3, <2>1, <2>2 DEF Traced
<1>6. Sound(h, current)
  <2>1. \A i, j \in DOMAIN h : h[i].id = h[j].id => i = j
    <3> SUFFICES ASSUME NEW i \in DOMAIN h, NEW j \in DOMAIN h, h[i].id = h[j].id PROVE i = j
      OBVIOUS
    <3>1. \A p, q \in DOMAIN history : history[p].id = history[q].id => p = q
      BY DEF Chained, Sound
    <3>2. CASE i = 1 \/ j = 1
      BY <1>2, <1>3, <1>4, <3>2
    <3>3. CASE i # 1 /\ j # 1
      <4>1. i - 1 = j - 1
        BY <1>3, <3>1, <3>3
      <4>. QED
        BY <1>3, <4>1
    <3>. QED
      BY <3>2, <3>3
  <2>2. \A j \in DOMAIN h : h[j].id # current.id /\ h[j].source # h[j].id
    BY <1>2, <1>3, <1>4 DEF Chained, Sound
  <2>3. \A j \in DOMAIN h : Traced(h, current, j) =>
          /\ current.source # h[j].id
          /\ \A i \in DOMAIN h : h[i].source # h[j].id
    <3> SUFFICES ASSUME NEW j \in DOMAIN h, Traced(h, current, j)
                 PROVE  /\ current.source # h[j].id
                        /\ \A i \in DOMAIN h : h[i].source # h[j].id
      OBVIOUS
    <3>1. CASE j = 1
      <4>1. h[j].id = investigation.id /\ current.source < investigation.id
        BY <1>2, <1>3, <1>4, <3>1
      <4>2. \A i \in DOMAIN h : h[i].source <= current.id /\ h[i].source \in Nat
        BY <1>2, <1>3, <1>4
      <4>. QED
        BY <1>4, <4>1, <4>2
    <3>2. CASE j # 1
      <4>1. j - 1 \in DOMAIN history /\ h[j] = history[j - 1] /\ (j - 1) + 1 = j
        BY <1>3, <3>2
      <4>2. Traced(history, current, j - 1)
        BY <1>5, <4>1
      <4>3. /\ current.source # h[j].id
            /\ \A i \in DOMAIN history : history[i].source # h[j].id
        BY <4>1, <4>2 DEF Chained, Sound
      <4>4. investigation.source # h[j].id
        BY <1>4, <4>1
      <4>. QED
        BY <1>2, <1>3, <4>3, <4>4
    <3>. QED
      BY <3>1, <3>2
  <2>. QED
    BY <1>2, <2>1, <2>2, <2>3 DEF Sound
<1>7. /\ Sound(history', current)
      /\ \A i \in DOMAIN history' : \E k \in DOMAIN h : history'[i] = h[k]
  BY <1>1, <1>2, <1>6, EvictSound
<1>8. ASSUME comparable PROVE \E i \in DOMAIN history' : history'[i].id = current.source
  <2>1. PICK s \in DOMAIN h : s # 1 /\ h[s].id = current.source
    BY <1>3, <1>8 DEF Chained
  <2>2. CASE history' = h
    BY <2>1, <2>2
  <2>3. ASSUME NEW v \in DOMAIN h, Len(h) > HistoryCap,
               v \in Free(h) \/ (Free(h) = {} /\ v = Len(h)),
               Len(history') = Len(h) - 1,
               \A i \in DOMAIN history' : history'[i] = IF i < v THEN h[i] ELSE h[i + 1]
        PROVE  \E i \in DOMAIN history' : history'[i].id = current.source
    <3>1. v # s
      <4>1. CASE v \in Free(h)
        BY <2>1, <4>1 DEF Free, Linked
      <4>2. CASE Free(h) = {} /\ v = Len(h)
        <5>1. Len(h) >= 3 /\ Len(h) \in Nat /\ 2 \in DOMAIN h
          BY <1>2, <1>3, <2>3, DashboardAssumption DEF DashboardAssumption
        <5>2. h[2].id \in Linked(h)
          BY <4>2, <5>1 DEF Free
        <5>3. h[2].id # pending.source /\ h[2].id # current.id
          <6>1. h[2] = history[1] /\ 1 \in DOMAIN history
            BY <1>3, <5>1
          <6>. QED
            BY <1>4, <6>1 DEF Chained
        <5>4. \A j \in DOMAIN h : h[j].source # h[2].id
          <6> SUFFICES ASSUME NEW j \in DOMAIN h, h[j].source = h[2].id PROVE FALSE
            OBVIOUS
          <6>1. CASE j = 1
            BY <1>2, <1>4, <5>3, <6>1
          <6>2. CASE j = 2
            BY <1>6, <5>1, <6>2 DEF Sound
          <6>3. CASE j > 2
            <7>1. Traced(h, current, j)
              BY <5>1, <6>3 DEF Traced
            <7>2. h[j].id \in Linked(h)
              BY <1>3, <4>2, <6>3 DEF Free
            <7>3. h[j].id # pending.source
              BY <1>3, <1>4, <6>3 DEF Chained
            <7>. QED
              BY <1>6, <7>1, <7>2, <7>3 DEF Linked, Sound
          <6>. QED
            BY <1>3, <6>1, <6>2, <6>3
        <5>5. h[2].id = current.source
          BY <5>2, <5>3, <5>4 DEF Linked
        <5>6. s = 2
          BY <1>6, <2>1, <5>1, <5>5 DEF Sound
        <5>. QED
          BY <4>2, <5>1, <5>6
      <4>. QED
        BY <2>3, <4>1, <4>2
    <3>2. DOMAIN history' = 1..(Len(h) - 1)
      BY <1>1, <1>2, <2>3, EvictFact
    <3>3. CASE s < v
      BY <1>3, <2>1, <2>3, <3>2, <3>3
    <3>4. CASE s > v
      <4>1. s - 1 \in DOMAIN history' /\ history'[s - 1] = h[s]
        BY <1>2, <1>3, <2>3, <3>2, <3>4
      <4>. QED
        BY <2>1, <4>1
    <3>. QED
      BY <1>3, <3>1, <3>3, <3>4
  <2>. QED
    BY <1>1, <1>2, <2>2, <2>3, EvictFact
<1>9. \A i \in DOMAIN history' : history'[i].id < nextId /\ history'[i].source <= current.id
  <2>1. \A k \in DOMAIN h : h[k].id < nextId /\ h[k].source <= current.id
    BY <1>2, <1>3, <1>4
  <2>. QED
    BY <1>7, <2>1
<1>. QED
  BY <1>1, <1>7, <1>8, <1>9 DEF Chained

(* A run begins: what it is compared with is the run before it, or nothing. *)
LEMMA BeginKeeps == ASSUME Chained, BeginScan PROVE Chained'
<1> DEFINE h == IF Archives(rows, complete)
                THEN <<Record(current.id, current.source)>> \o history ELSE history
<1>1. /\ history \in Seq(Entry) /\ current \in Entry
      /\ current' = Record(nextId, pending.source) /\ nextId' = nextId + 1
      /\ pending' = [targeted |-> FALSE, source |-> 0] /\ investigation' = NoInvestigation
      /\ comparable' = (pending.source \in {history'[i].id : i \in DOMAIN history'})
      /\ nextId \in Nat /\ current.id < nextId /\ current.source < current.id
      /\ pending.source \in {0, current.id}
  BY DEF BeginScan, Begin, Chained, Sound
<1>2. current = Record(current.id, current.source) /\ current.id \in Nat \ {0}
      /\ current.source \in Nat
  BY <1>1 DEF Entry, Record
<1>3. history' = h \/ history' = Evicted(h)
  BY DEF BeginScan, Begin, Push
<1>4. \A i \in DOMAIN history : /\ history[i].id \in Nat \ {0} /\ history[i].source \in Nat
                                /\ history[i].id # current.id /\ history[i].id < nextId
                                /\ history[i].source <= current.id
  <2>1. \A i \in DOMAIN history : history[i] \in Entry
    BY <1>1
  <2>2. \A i \in DOMAIN history : /\ history[i].id # current.id /\ history[i].id < nextId
                                  /\ history[i].source <= current.id
    BY DEF Chained, Sound
  <2>. QED
    BY <2>1, <2>2 DEF Entry
<1>5. current'.id = nextId /\ current'.source = pending.source /\ current' \in Entry
  BY <1>1, <1>2 DEF Record, Entry
<1>6. /\ h \in Seq(Entry) /\ Sound(h, current')
      /\ \A i \in DOMAIN h : h[i].id < nextId /\ h[i].source <= nextId
  <2>1. CASE ~Archives(rows, complete)
    <3>1. h = history
      BY <2>1
    <3> HIDE DEF h
    <3>2. \A j \in DOMAIN history : Traced(history, current', j) => Traced(history, current, j)
      BY <1>1, <1>2, <1>4, <1>5 DEF Traced
    <3>3. \A j \in DOMAIN history : history[j].id # current'.id /\ history[j].id # current'.source
      BY <1>1, <1>4, <1>5
    <3>4. Sound(history, current')
      BY <3>2, <3>3 DEF Chained, Sound
    <3>5. \A i \in DOMAIN history : history[i].id < nextId /\ history[i].source <= nextId
      BY <1>1, <1>2, <1>4
    <3>. QED
      BY <1>1, <3>1, <3>4, <3>5
  <2>2. CASE Archives(rows, complete)
    <3>1. h = <<current>> \o history
      BY <1>2, <2>2
    <3> HIDE DEF h
    <3>2. /\ h \in Seq(Entry) /\ Len(h) = Len(history) + 1 /\ Len(history) \in Nat
          /\ \A i \in 1..Len(h) : h[i] = IF i = 1 THEN current ELSE history[i - 1]
      BY <1>1, <3>1, PushedFact
    <3>3. /\ DOMAIN h = 1..Len(h) /\ DOMAIN history = 1..Len(history)
          /\ \A i \in DOMAIN history : i + 1 \in DOMAIN h /\ h[i + 1] = history[i]
          /\ \A i \in DOMAIN h : i = 1 \/ (i - 1 \in DOMAIN history /\ h[i] = history[i - 1])
          /\ 1 \in DOMAIN h /\ h[1] = current
      BY <3>2
    <3>4. \A i, j \in DOMAIN h : h[i].id = h[j].id => i = j
      <4> SUFFICES ASSUME NEW i \in DOMAIN h, NEW j \in DOMAIN h, h[i].id = h[j].id PROVE i = j
        OBVIOUS
      <4>1. \A p, q \in DOMAIN history : history[p].id = history[q].id => p = q
        BY DEF Chained, Sound
      <4>2. CASE i = 1 \/ j = 1
        BY <1>4, <3>3, <4>2
      <4>3. CASE i # 1 /\ j # 1
        <5>1. i - 1 = j - 1
          BY <3>3, <4>1, <4>3
        <5>. QED
          BY <3>3, <5>1
      <4>. QED
        BY <4>2, <4>3
    <3>5. \A j \in DOMAIN history : history[j].source # history[j].id
      BY DEF Chained, Sound
    <3>6. \A j \in DOMAIN h : h[j].id # current'.id /\ h[j].source # h[j].id
      BY <1>1, <1>2, <1>4, <1>5, <3>3, <3>5
    <3>7. \A j \in DOMAIN h : Traced(h, current', j) =>
            /\ current'.source # h[j].id
            /\ \A i \in DOMAIN h : h[i].source # h[j].id
      <4> SUFFICES ASSUME NEW j \in DOMAIN h, Traced(h, current', j)
                   PROVE  /\ current'.source # h[j].id
                          /\ \A i \in DOMAIN h : h[i].source # h[j].id
        OBVIOUS
      <4>1. h[j].source <= current.id
        BY <1>1, <1>2, <1>4, <3>3
      <4>2. h[j].source # current'.id
        <5>1. h[j].source \in Nat
          BY <1>2, <1>4, <3>3
        <5>. QED
          BY <1>1, <1>2, <1>5, <4>1, <5>1
      <4>3. PICK i \in DOMAIN h : i < j /\ h[j].source = h[i].id
        BY <4>2 DEF Traced
      <4>4. j - 1 \in DOMAIN history /\ h[j] = history[j - 1]
        BY <3>3, <4>3
      <4>5. Traced(history, current, j - 1)
        <5>1. CASE i = 1
          BY <3>3, <4>3, <4>4, <5>1 DEF Traced
        <5>2. CASE i # 1
          <6>1. i - 1 \in DOMAIN history /\ h[i] = history[i - 1] /\ i - 1 < j - 1
            BY <3>3, <4>3, <5>2
          <6>. QED
            BY <4>3, <4>4, <6>1 DEF Traced
        <5>. QED
          BY <5>1, <5>2
      <4>6. /\ current.source # history[j - 1].id
            /\ \A k \in DOMAIN history : history[k].source # history[j - 1].id
        BY <4>4, <4>5 DEF Chained, Sound
      <4>7. current'.source # h[j].id
        BY <1>1, <1>4, <1>5, <4>4
      <4>. QED
        BY <3>3, <4>4, <4>6, <4>7
    <3>8. \A i \in DOMAIN h : h[i].id < nextId /\ h[i].source <= nextId
      BY <1>1, <1>2, <1>4, <3>3
    <3>. QED
      BY <3>2, <3>4, <3>6, <3>7, <3>8 DEF Sound
  <2>. QED
    BY <2>1, <2>2
<1> HIDE DEF h
<1>7. /\ Sound(history', current')
      /\ \A i \in DOMAIN history' : \E k \in DOMAIN h : history'[i] = h[k]
  BY <1>3, <1>6, EvictSound
<1>8. \A i \in DOMAIN history' : history'[i].id < nextId' /\ history'[i].source <= nextId
  <2>1. \A i \in DOMAIN history' : history'[i].id < nextId /\ history'[i].source <= nextId
    BY <1>6, <1>7
  <2>2. \A i \in DOMAIN history' : history'[i] \in Entry
    BY <1>7 DEF Sound
  <2>3. \A i \in DOMAIN history' : history'[i].id \in Nat
    BY <2>2 DEF Entry
  <2>. QED
    BY <1>1, <2>1, <2>3
<1>9. /\ nextId' \in Nat /\ current'.source < current'.id /\ current'.id < nextId'
      /\ pending'.source = 0
  BY <1>1, <1>2, <1>5
<1>10. comparable' => \E i \in DOMAIN history' : history'[i].id = current'.source
  BY <1>1, <1>5
<1>. QED
  BY <1>1, <1>5, <1>7, <1>8, <1>9, <1>10 DEF Chained

(* What a key asks for is compared with the current run, or with nothing;   *)
(* an investigation is one of the current run.                              *)
LEMMA AskedKeeps ==
  ASSUME Chained,
         UNCHANGED <<history, current, nextId, investigation, comparable>>,
         pending' = pending \/ pending'.source \in {0, current.id}
  PROVE  Chained'
<1>1. pending'.source \in {0, current.id}
  BY DEF Chained
<1>. QED
  BY <1>1 DEF Chained

LEMMA InvestigationKeeps == ASSUME Chained, StartInvestigation PROVE Chained'
<1>1. /\ investigation' = Record(nextId, current.id) /\ nextId' = nextId + 1
      /\ UNCHANGED <<history, current, pending, comparable>>
      /\ nextId \in Nat /\ current \in Entry /\ current.id < nextId
      /\ \A i \in DOMAIN history : history[i].id < nextId
      /\ history \in Seq(Entry)
  BY DEF StartInvestigation, Chained, Sound
<1>2. current.id \in Nat \ {0} /\ \A i \in DOMAIN history : history[i].id \in Nat
  <2>1. \A i \in DOMAIN history : history[i] \in Entry
    BY <1>1
  <2>. QED
    BY <1>1, <2>1 DEF Entry
<1>3. /\ investigation'.id = nextId /\ investigation'.source = current.id
      /\ investigation' \in Entry
  BY <1>1, <1>2 DEF Record, Entry
<1>4. /\ nextId' \in Nat /\ current.id < nextId' /\ investigation'.id < nextId'
      /\ \A i \in DOMAIN history : history[i].id < nextId' /\ history[i].id # investigation'.id
  BY <1>1, <1>2, <1>3
<1>. QED
  BY <1>1, <1>3, <1>4 DEF Chained

LEMMA ChainedInductive == ASSUME Chained, [Next]_vars PROVE Chained'
<1>1. ASSUME NEW ip \in Ips, NEW grade \in Grades, NEW partial \in BOOLEAN,
             AddResult(ip, grade, partial)
      PROVE  Chained'
  BY <1>1, AskedKeeps DEF AddResult
<1>2. CASE JoinScanner
  BY <1>2, AskedKeeps DEF JoinScanner
<1>3. CASE WatchCycle
  BY <1>3, AskedKeeps DEF WatchCycle
<1>4. CASE RefuseStart
  BY <1>4, AskedKeeps DEF RefuseStart
<1>5. CASE Draw
  BY <1>5, AskedKeeps DEF Draw
<1>6. CASE NoKey
  BY <1>6, AskedKeeps DEF NoKey
<1>7. CASE MoveCursor
  BY <1>7, AskedKeeps DEF MoveCursor
<1>8. ASSUME NEW k \in 0..Visible - 1, ClickRow(k) PROVE Chained'
  BY <1>8, AskedKeeps DEF ClickRow
<1>9. ASSUME NEW col \in {0, 1}, SortBy(col) PROVE Chained'
  BY <1>9, AskedKeeps DEF SortBy
<1>10. ASSUME NEW S \in Filters, FilterBy(S) PROVE Chained'
  BY <1>10, AskedKeeps DEF FilterBy
<1>11. ASSUME NEW v \in {"results", "targets", "log"}, NEW key \in BOOLEAN, ShowView(v, key)
       PROVE  Chained'
  BY <1>11, AskedKeeps DEF ShowView
<1>12. CASE ToggleFailures
  BY <1>12, AskedKeeps DEF ToggleFailures
<1>13. CASE ToggleMark
  BY <1>13, AskedKeeps DEF ToggleMark
<1>14. CASE RerunSelected
  BY <1>14, AskedKeeps DEF RerunSelected
<1>15. ASSUME NEW what \in {"retest", "repeat"}, AskRerun(what) PROVE Chained'
  BY <1>15, AskedKeeps DEF AskRerun
<1>16. CASE ConfirmRerun
  BY <1>16, AskedKeeps DEF ConfirmRerun
<1>17. CASE DismissDialog
  BY <1>17, AskedKeeps DEF DismissDialog
<1>18. CASE StartFromWizard
  BY <1>18, AskedKeeps DEF StartFromWizard
<1>19. CASE UNCHANGED vars
  BY <1>19, AskedKeeps DEF vars
<1>. QED
  BY <1>1, <1>2, <1>3, <1>4, <1>5, <1>6, <1>7, <1>8, <1>9, <1>10, <1>11, <1>12, <1>13, <1>14,
     <1>15, <1>16, <1>17, <1>18, <1>19, JoinKeeps, BeginKeeps, InvestigationKeeps DEF Next

(* The source of the current run, when the log had it as the run began,     *)
(* stays in the log however many investigations come after it: a full log   *)
(* only gives up a run nothing is compared with, or else the oldest, and    *)
(* the oldest is then not that source (mod.rs:922; README.md:335).          *)
THEOREM ComparisonKeptHolds == Spec => []ComparisonKept
<1>1. Init => Chained
  BY DEF Init, Chained, Sound, Entry, Record, NoInvestigation
<1>2. Chained => ComparisonKept
  <2> SUFFICES ASSUME Chained, comparable PROVE Compared(current)
    BY DEF ComparisonKept
  <2>1. PICK i \in DOMAIN history : history[i].id = current.source
    BY DEF Chained
  <2>2. history[i] \in Entry /\ current \in Entry /\ current.source < current.id
    BY DEF Chained, Sound
  <2>3. current.source # 0 /\ current.source # current.id
    BY <2>1, <2>2 DEF Entry
  <2>. QED
    BY <2>1, <2>3 DEF Compared
<1>. QED
  BY <1>1, <1>2, ChainedInductive, PTL DEF Spec

-----------------------------------------------------------------------------
(* The table.  What the cache holds is the order of the rows for the key it *)
(* was made with, and every change of the rows empties it; so what the keys  *)
(* read is the order of the rows as they are.                                *)

(* Of a finite set under a strict total order, B[i] being what comes before  *)
(* i, there is for every place one element with that many before it.         *)
LEMMA RankFact ==
  ASSUME NEW S, IsFiniteSet(S), NEW B \in [S -> SUBSET S],
         \A i \in S : i \notin B[i],
         \A i, j \in S : i \in B[j] => B[i] \subseteq B[j],
         \A i, j \in S : i = j \/ i \in B[j] \/ j \in B[i]
  PROVE  /\ Cardinality(S) \in Nat
         /\ \A k \in 1..Cardinality(S) : \E i \in S : Cardinality(B[i]) = k - 1
         /\ \A i, j \in S : i \in B[j] => Cardinality(B[i]) < Cardinality(B[j])
<1> DEFINE n == Cardinality(S)
           c(i) == Cardinality(B[i])
<1>1. n \in Nat /\ \A i \in S : IsFiniteSet(B[i]) /\ c(i) \in Nat
  BY FS_CardinalityType, FS_Subset
<1>2. ASSUME NEW T \in SUBSET S, NEW i \in S, i \in T, B[i] \subseteq T
      PROVE  c(i) < Cardinality(T)
  <2>1. IsFiniteSet(T) /\ Cardinality(T) \in Nat
    BY FS_CardinalityType, FS_Subset
  <2>2. B[i] \cup {i} \in SUBSET T
    BY <1>2
  <2>3. Cardinality(B[i] \cup {i}) <= Cardinality(T)
    BY <2>1, <2>2, FS_Subset
  <2>4. Cardinality(B[i] \cup {i}) = Cardinality(B[i]) + 1
    BY <1>1, FS_AddElement
  <2>. QED
    BY <1>1, <2>1, <2>3, <2>4
<1>3. \A i, j \in S : i \in B[j] => c(i) < c(j)
  BY <1>2
<1>4. \A i \in S : c(i) < n
  BY <1>2
<1> DEFINE f == [i \in S |-> c(i)]
           T == 0..(n - 1)
<1> HIDE DEF n, c
<1>5. f \in [S -> T]
  BY <1>1, <1>4
<1>6. \A i, j \in S : f[i] = f[j] => i = j
  BY <1>1, <1>3
<1>7. f \in Injection(S, T)
  BY <1>5, <1>6 DEF Injection, IsInjective
<1>8. IsFiniteSet(T) /\ Cardinality(T) = n
  BY <1>1, FS_Interval
<1>9. f \in Surjection(S, T)
  BY <1>7, <1>8, FS_Injection DEF n
<1>10. \A k \in 1..n : \E i \in S : c(i) = k - 1
  <2> TAKE k \in 1..n
  <2>1. k - 1 \in T
    BY <1>1
  <2>2. PICK i \in S : f[i] = k - 1
    BY <1>9, <2>1 DEF Surjection
  <2>. QED
    BY <2>2
<1>. QED
  BY <1>1, <1>3, <1>10 DEF n, c

RowSet == [ip : Ips, grade : Grades]
Orders == [col : {0, 1}, asc : BOOLEAN]

(* The order of the rows rs for a key: Admitted, Before and Ordered with     *)
(* what they read as parameters.                                             *)
Admits(rs, f, A) == {i \in DOMAIN rs : (f \/ rs[i].grade > 0) /\ rs[i].ip \in A}
Precedes(rs, o, i, j) ==
  LET up == IF o.col = 0 THEN rs[i].grade > rs[j].grade ELSE rs[i].ip < rs[j].ip
      down == IF o.col = 0 THEN rs[i].grade < rs[j].grade ELSE rs[i].ip > rs[j].ip
      first == IF o.asc THEN up ELSE down
      last == IF o.asc THEN down ELSE up
  IN first \/ (~last /\ i < j)
OrderedBy(rs, o, f, A) ==
  LET S == Admits(rs, f, A)
  IN [k \in 1..Cardinality(S) |->
        CHOOSE i \in S : Cardinality({j \in S \ {i} : Precedes(rs, o, j, i)}) = k - 1]

LEMMA OrderedFact == Ordered = OrderedBy(rows, order, failures, filter)
BY DEF Ordered, OrderedBy, Admits, Admitted, Precedes, Before

LEMMA SortedFact ==
  ASSUME NEW rs \in Seq(RowSet), NEW o \in Orders, NEW f \in BOOLEAN, NEW A,
         DashboardAssumption
  PROVE  LET L == OrderedBy(rs, o, f, A)
             S == Admits(rs, f, A)
         IN /\ Len(L) = Cardinality(S) /\ Len(L) \in Nat /\ DOMAIN L = 1..Len(L)
            /\ \A k \in DOMAIN L : L[k] \in S /\ L[k] \in DOMAIN rs
            /\ \A k, l \in DOMAIN L : k < l => L[k] # L[l] /\ Precedes(rs, o, L[k], L[l])
<1> DEFINE S == Admits(rs, f, A)
           below(i) == {j \in S \ {i} : Precedes(rs, o, j, i)}
           B == [i \in S |-> below(i)]
           L == OrderedBy(rs, o, f, A)
<1>1. /\ S \subseteq DOMAIN rs /\ DOMAIN rs = 1..Len(rs) /\ Len(rs) \in Nat
      /\ \A i \in S : i \in Nat /\ rs[i].grade \in Nat /\ rs[i].ip \in Nat
  <2>1. S \subseteq DOMAIN rs /\ DOMAIN rs = 1..Len(rs) /\ Len(rs) \in Nat
    BY DEF Admits
  <2> HIDE DEF S
  <2>2. \A i \in S : rs[i] \in RowSet /\ i \in Nat
    BY <2>1
  <2>3. Ips \subseteq Nat /\ Grades \subseteq Nat
    BY DEF DashboardAssumption
  <2>4. \A i \in S : rs[i].grade \in Nat /\ rs[i].ip \in Nat
    BY <2>2, <2>3 DEF RowSet
  <2>. QED
    BY <2>1, <2>2, <2>4
<1>2. IsFiniteSet(S)
  <2> HIDE DEF S
  <2>1. IsFiniteSet(1..Len(rs)) /\ S \in SUBSET (1..Len(rs))
    BY <1>1, FS_Interval
  <2>. QED
    BY <2>1, FS_Subset
<1>3. \A i, j \in S : i # j => (Precedes(rs, o, i, j) <=> ~Precedes(rs, o, j, i))
  <2> TAKE i, j \in S
  <2>. QED
    BY <1>1 DEF Precedes
<1>4. \A i, j, k \in S : Precedes(rs, o, i, j) /\ Precedes(rs, o, j, k) /\ i # j /\ j # k
                         => Precedes(rs, o, i, k) /\ i # k
  <2> TAKE i, j, k \in S
  <2>. QED
    BY <1>1 DEF Precedes
<1>5. L = [k \in 1..Cardinality(S) |-> CHOOSE i \in S : Cardinality(below(i)) = k - 1]
  BY DEF OrderedBy
<1> HIDE DEF S, L
<1>6. B \in [S -> SUBSET S] /\ \A i \in S : i \notin B[i]
  OBVIOUS
<1>7. \A i, j \in S : i \in B[j] => B[i] \subseteq B[j]
  BY <1>4
<1>8. \A i, j \in S : i = j \/ i \in B[j] \/ j \in B[i]
  BY <1>3
<1>9. \A i, j \in S : i \in B[j] => Precedes(rs, o, i, j)
  OBVIOUS
<1>10. \A i \in S : B[i] = below(i)
  OBVIOUS
<1> HIDE DEF B, below
<1>11. /\ Cardinality(S) \in Nat
       /\ \A k \in 1..Cardinality(S) : \E i \in S : Cardinality(B[i]) = k - 1
       /\ \A i, j \in S : i \in B[j] => Cardinality(B[i]) < Cardinality(B[j])
  BY <1>2, <1>6, <1>7, <1>8, RankFact
<1>12. DOMAIN L = 1..Cardinality(S) /\ Len(L) = Cardinality(S)
  BY <1>5, <1>11
<1>13. \A k \in 1..Cardinality(S) : L[k] \in S /\ Cardinality(B[L[k]]) = k - 1
  <2> TAKE k \in 1..Cardinality(S)
  <2>1. \E i \in S : Cardinality(below(i)) = k - 1
    BY <1>11, <1>10
  <2>2. L[k] = CHOOSE i \in S : Cardinality(below(i)) = k - 1
    BY <1>5
  <2>3. L[k] \in S /\ Cardinality(below(L[k])) = k - 1
    BY <2>1, <2>2
  <2>. QED
    BY <1>10, <2>3
<1>14. ASSUME NEW k \in DOMAIN L, NEW l \in DOMAIN L, k < l
       PROVE  L[k] # L[l] /\ Precedes(rs, o, L[k], L[l])
  <2>1. /\ k \in Nat /\ l \in Nat /\ L[k] \in S /\ L[l] \in S
        /\ Cardinality(B[L[k]]) = k - 1 /\ Cardinality(B[L[l]]) = l - 1
    BY <1>11, <1>12, <1>13
  <2>2. L[k] # L[l] /\ ~(L[l] \in B[L[k]])
    BY <1>11, <1>14, <2>1
  <2>. QED
    BY <1>8, <1>9, <2>1, <2>2
<1>. QED
  BY <1>1, <1>11, <1>12, <1>13, <1>14 DEF L, S

CacheOK == \/ cache = NoCache
           \/ \E o, f, A : cache = [key |-> <<revision, o, f, A>>, indices |-> OrderedBy(rows, o, f, A)]

Viewed == /\ rows \in Seq(RowSet) /\ order \in Orders /\ failures \in BOOLEAN
          /\ cursor \in Nat /\ scroll \in Nat
          /\ CacheOK

(* A stale cache is never read.                                              *)
LEMMA IndicesFact == ASSUME CacheOK PROVE Indices = OrderedBy(rows, order, failures, filter)
<1>1. CASE cache = NoCache
  <2>1. cache.key # Key
    BY <1>1 DEF NoCache, Key
  <2>. QED
    BY <2>1, OrderedFact DEF Indices
<1>2. CASE \E o, f, A : cache = [key |-> <<revision, o, f, A>>, indices |-> OrderedBy(rows, o, f, A)]
  <2>1. PICK o, f, A : cache = [key |-> <<revision, o, f, A>>, indices |-> OrderedBy(rows, o, f, A)]
    BY <1>2
  <2>2. cache.key = <<revision, o, f, A>> /\ cache.indices = OrderedBy(rows, o, f, A)
    BY <2>1
  <2>3. CASE cache.key = Key
    <3>1. o = order /\ f = failures /\ A = filter
      BY <2>2, <2>3 DEF Key
    <3>. QED
      BY <2>2, <2>3, <3>1 DEF Indices
  <2>4. CASE cache.key # Key
    BY <2>4, OrderedFact DEF Indices
  <2>. QED
    BY <2>3, <2>4
<1>. QED
  BY <1>1, <1>2 DEF CacheOK

LEMMA ListedFact ==
  ASSUME Viewed
  PROVE  /\ Len(Indices) = Cardinality({i \in DOMAIN rows : Admitted(i)}) /\ Len(Indices) \in Nat
         /\ DOMAIN Indices = 1..Len(Indices)
         /\ \A k \in DOMAIN Indices : Indices[k] \in DOMAIN rows /\ Admitted(Indices[k])
         /\ \A k, l \in DOMAIN Indices : k < l =>
              Indices[k] # Indices[l] /\ InOrder(rows[Indices[k]], rows[Indices[l]])
<1>1. Indices = OrderedBy(rows, order, failures, filter) /\ rows \in Seq(RowSet) /\ order \in Orders
      /\ failures \in BOOLEAN
  BY IndicesFact DEF Viewed
<1> DEFINE S == Admits(rows, failures, filter)
<1>2. S = {i \in DOMAIN rows : Admitted(i)}
  BY DEF Admits, Admitted
<1> HIDE DEF S
<1>3. /\ Len(Indices) = Cardinality(S) /\ Len(Indices) \in Nat /\ DOMAIN Indices = 1..Len(Indices)
      /\ \A k \in DOMAIN Indices : Indices[k] \in S /\ Indices[k] \in DOMAIN rows
      /\ \A k, l \in DOMAIN Indices : k < l =>
           Indices[k] # Indices[l] /\ Precedes(rows, order, Indices[k], Indices[l])
  BY <1>1, SortedFact, DashboardAssumption DEF S
<1>4. ASSUME NEW i \in DOMAIN rows, NEW j \in DOMAIN rows, Precedes(rows, order, i, j)
      PROVE  InOrder(rows[i], rows[j])
  <2>1. rows[i] \in RowSet /\ rows[j] \in RowSet
    BY <1>1
  <2>2. Ips \subseteq Nat /\ Grades \subseteq Nat
    BY DashboardAssumption DEF DashboardAssumption
  <2>3. /\ rows[i].ip \in Nat /\ rows[i].grade \in Nat
        /\ rows[j].ip \in Nat /\ rows[j].grade \in Nat
    BY <2>1, <2>2 DEF RowSet
  <2>. QED
    BY <1>1, <1>4, <2>3 DEF Precedes, InOrder, Orders
<1>5. \A k, l \in DOMAIN Indices : k < l =>
        Indices[k] # Indices[l] /\ InOrder(rows[Indices[k]], rows[Indices[l]])
  BY <1>3, <1>4
<1>6. \A k \in DOMAIN Indices : Indices[k] \in DOMAIN rows /\ Admitted(Indices[k])
  BY <1>2, <1>3
<1>. QED
  BY <1>2, <1>3, <1>5, <1>6

(* What a draw leaves on the screen holds the cursor.                        *)
LEMMA ScrolledFact ==
  ASSUME NEW first \in Nat, NEW at \in Nat, NEW length \in Nat, Visible \in Nat \ {0}
  PROVE  /\ Scrolled(first, at, length) \in Nat
         /\ at < length => /\ Scrolled(first, at, length) <= at
                           /\ at < Scrolled(first, at, length) + Visible
BY DEF Scrolled, Least, Most, Minus

LitOK == step = "input" /\ view = "results" =>
           (Shown > 0 => lit # 0 /\ Selected = lit /\ Copied = lit)

LEMMA DrawLights == ASSUME Viewed, Draw PROVE Viewed' /\ LitOK'
<1>1. /\ UNCHANGED <<rows, revision, order, failures, filter, view>>
      /\ rows \in Seq(RowSet) /\ order \in Orders /\ failures \in BOOLEAN
      /\ cursor \in Nat /\ scroll \in Nat /\ CacheOK
      /\ Top \in Nat /\ Visible \in Nat \ {0}
  BY DashboardAssumption DEF Draw, Viewed, DashboardAssumption
<1>2. CASE view = "results"
  <2> DEFINE length == Least(Len(Indices), Top)
             at == Least(cursor, Minus(length, 1))
             first == Scrolled(Least(scroll, Minus(length, Visible)), at, length)
  <2>1. Len(Indices) \in Nat /\ length \in Nat /\ at \in Nat /\ length <= Len(Indices)
    BY <1>1, ListedFact DEF Least, Minus
  <2>2. Least(scroll, Minus(length, Visible)) \in Nat
    BY <1>1, <2>1 DEF Least, Minus
  <2>3. DrawTable
    BY <1>2, <1>1 DEF Draw, DrawTable, DrawLog, DrawTargets
  <2>4. cache' = [key |-> Key, indices |-> Indices]
    BY <2>3 DEF DrawTable, Consult
  <2>5. cache'.indices = Indices
    BY <2>4
  <2>6. cursor' = at /\ scroll' = first /\ lit' = Lit(Indices, at, first)
    BY <2>3, <2>5 DEF DrawTable
  <2>7. first \in Nat /\ (at < length => first <= at /\ at < first + Visible)
    BY <1>1, <2>1, <2>2, ScrolledFact
  <2>8. length > 0 => at < length
    BY <1>1, <2>1 DEF Least, Minus
  <2>9. Indices = OrderedBy(rows, order, failures, filter)
    BY <1>1, IndicesFact
  <2>10. cache' = [key |-> <<revision', order', failures', filter'>>,
                   indices |-> OrderedBy(rows', order', failures', filter')]
    BY <1>1, <2>4, <2>9 DEF Key
  <2>11. CacheOK'
    BY <2>10 DEF CacheOK
  <2> HIDE DEF length, at, first
  <2>12. Viewed'
    BY <1>1, <2>1, <2>6, <2>7, <2>11 DEF Viewed
  <2>13. Indices' = Indices
    <3>1. cache'.key = Key' /\ cache'.indices = Indices
      BY <1>1, <2>4 DEF Key
    <3>. QED
      BY <3>1 DEF Indices
  <2>14. Shown' = length
    BY <2>13 DEF Shown, length
  <2>15. ASSUME length > 0 PROVE lit' # 0 /\ Selected' = lit' /\ Copied' = lit'
    <3>1. at < length /\ first <= at /\ at < first + Visible /\ at + 1 \in 1..Len(Indices)
      BY <2>1, <2>7, <2>8, <2>15
    <3>2. at < Least(first + Visible, length)
      BY <2>1, <2>7, <3>1 DEF Least
    <3>3. lit' = rows[Indices[at + 1]].ip
      BY <2>6, <3>1, <3>2 DEF Lit, length
    <3>4. Selected' = rows[Indices[at + 1]].ip /\ Copied' = rows[Indices[at + 1]].ip
      BY <1>1, <2>1, <2>6, <2>13, <2>14, <3>1 DEF Selected, Copied
    <3>5. rows[Indices[at + 1]] \in RowSet
      <4>1. Indices[at + 1] \in DOMAIN rows
        BY <3>1, ListedFact
      <4>. QED
        BY <1>1, <4>1
    <3>6. rows[Indices[at + 1]].ip # 0
      BY <3>5, DashboardAssumption DEF RowSet, DashboardAssumption
    <3>. QED
      BY <3>3, <3>4, <3>6
  <2>. QED
    BY <2>12, <2>14, <2>15 DEF LitOK
<1>3. CASE view # "results"
  <2>1. UNCHANGED <<cursor, scroll, cache>>
    BY <1>3 DEF Draw, DrawTable, DrawLog, DrawTargets
  <2>2. CacheOK'
    BY <1>1, <2>1 DEF CacheOK
  <2>3. LitOK'
    BY <1>1, <1>3 DEF LitOK
  <2>. QED
    BY <1>1, <2>1, <2>2, <2>3 DEF Viewed
<1>. QED
  BY <1>2, <1>3

LEMMA CacheKept == ASSUME CacheOK, UNCHANGED table PROVE CacheOK'
BY DEF CacheOK

LEMMA CacheEmptied == ASSUME Invalidated PROVE CacheOK'
BY DEF Invalidated, CacheOK, NoCache

(* The keys that leave the rows alone.                                       *)
LEMMA PlaceKeeps ==
  ASSUME Viewed, UNCHANGED table, order' \in Orders, failures' \in BOOLEAN,
         cursor' \in Nat, scroll' \in Nat
  PROVE  Viewed'
<1>1. CacheOK'
  BY CacheKept DEF Viewed
<1>. QED
  BY <1>1 DEF Viewed

LEMMA LookKeeps == ASSUME Viewed, UNCHANGED <<table, look, place>> PROVE Viewed'
<1>1. order \in Orders /\ failures \in BOOLEAN /\ cursor \in Nat /\ scroll \in Nat
  BY DEF Viewed
<1>. QED
  BY <1>1, PlaceKeeps

(* A result is one row more, or another grade of a row.                      *)
LEMMA ResultKeeps ==
  ASSUME Viewed, NEW ip \in Ips, NEW grade \in Grades, NEW partial, AddResult(ip, grade, partial)
  PROVE  Viewed'
<1>1. /\ rows \in Seq(RowSet) /\ order \in Orders /\ failures \in BOOLEAN
      /\ cursor \in Nat /\ scroll \in Nat /\ UNCHANGED <<order, failures, filter, cursor, scroll>>
  BY DEF Viewed, AddResult
<1>2. CASE UNCHANGED table
  BY <1>1, <1>2, PlaceKeeps
<1>3. CASE rows' = Append(rows, Row(ip, grade)) /\ Invalidated
  <2>1. Row(ip, grade) \in RowSet
    BY DEF Row, RowSet
  <2>2. rows' \in Seq(RowSet)
    BY <1>1, <1>3, <2>1
  <2>. QED
    BY <1>1, <1>3, <2>2, CacheEmptied DEF Viewed
<1>4. ASSUME NEW i \in DOMAIN rows, rows' = [rows EXCEPT ![i].grade = grade], Invalidated
      PROVE  Viewed'
  <2>1. rows[i] \in RowSet
    BY <1>1
  <2>2. [rows[i] EXCEPT !.grade = grade] \in RowSet
    BY <2>1 DEF RowSet
  <2>3. rows' = [rows EXCEPT ![i] = [rows[i] EXCEPT !.grade = grade]]
    BY <1>4
  <2>4. rows' \in Seq(RowSet)
    BY <1>1, <2>2, <2>3
  <2>. QED
    BY <1>1, <1>4, <2>4, CacheEmptied DEF Viewed
<1>. QED
  BY <1>2, <1>3, <1>4 DEF AddResult

LEMMA CycleKeeps == ASSUME Viewed, WatchCycle PROVE Viewed'
<1>1. /\ rows' = <<>> /\ rows' \in Seq(RowSet) /\ Invalidated
      /\ UNCHANGED <<order, failures, cursor, scroll>>
  BY DEF WatchCycle
<1>. QED
  BY <1>1, CacheEmptied DEF Viewed

LEMMA BeginViews == ASSUME Viewed, BeginScan PROVE Viewed'
<1>1. /\ rows' = rows \/ rows' = <<>>
      /\ Invalidated /\ order' = [col |-> 0, asc |-> TRUE] /\ failures' = FALSE
      /\ cursor' = 0 /\ scroll' = 0
  BY DEF BeginScan, Begin
<1>2. rows' \in Seq(RowSet)
  <2>1. rows \in Seq(RowSet) /\ <<>> \in Seq(RowSet)
    BY DEF Viewed
  <2>. QED
    BY <1>1, <2>1
<1>3. order' \in Orders
  BY <1>1 DEF Orders
<1>. QED
  BY <1>1, <1>2, <1>3, CacheEmptied DEF Viewed

LEMMA MoveKeeps == ASSUME Viewed, MoveCursor PROVE Viewed'
<1>1. Len(Indices) \in Nat /\ Top \in Nat
  BY ListedFact, DashboardAssumption DEF DashboardAssumption
<1>2. Shown \in Nat /\ cursor \in Nat /\ scroll \in Nat /\ order \in Orders /\ failures \in BOOLEAN
  BY <1>1 DEF Shown, Least, Viewed
<1>3. UNCHANGED <<table, look>>
  BY DEF MoveCursor
<1>4. cursor' \in Nat /\ scroll' \in Nat
  <2>1. CASE UNCHANGED place
    BY <1>2, <2>1
  <2>2. ASSUME NEW at \in {Minus(cursor, 1), Least(cursor + 1, Minus(Shown, 1)), 0, Minus(Shown, 1)},
               cursor' = at, scroll' \in {at, Least(scroll, at)}
        PROVE  cursor' \in Nat /\ scroll' \in Nat
    <3>1. at \in Nat
      BY <1>2 DEF Least, Minus
    <3>. QED
      BY <1>2, <2>2, <3>1 DEF Least
  <2>. QED
    BY <2>1, <2>2 DEF MoveCursor
<1>. QED
  BY <1>2, <1>3, <1>4, PlaceKeeps

LEMMA ClickKeeps == ASSUME Viewed, NEW k \in 0..Visible - 1, ClickRow(k) PROVE Viewed'
<1>1. Len(Indices) \in Nat /\ Top \in Nat /\ Visible \in Nat
  BY ListedFact, DashboardAssumption DEF DashboardAssumption
<1>2. /\ Shown \in Nat /\ scroll \in Nat /\ k \in Nat /\ order \in Orders /\ failures \in BOOLEAN
      /\ UNCHANGED <<table, look, scroll>>
  BY <1>1 DEF Shown, Least, Viewed, ClickRow
<1>3. cursor' \in Nat
  BY <1>2 DEF ClickRow, Least, Minus
<1>. QED
  BY <1>2, <1>3, PlaceKeeps

LEMMA SortKeeps == ASSUME Viewed, NEW col \in {0, 1}, SortBy(col) PROVE Viewed'
<1>1. /\ order \in Orders /\ failures \in BOOLEAN /\ cursor \in Nat /\ scroll \in Nat
      /\ UNCHANGED <<table, failures, place>>
  BY DEF Viewed, SortBy
<1>2. order' \in Orders
  BY <1>1 DEF SortBy, Orders
<1>. QED
  BY <1>1, <1>2, PlaceKeeps

LEMMA FilterKeeps == ASSUME Viewed, NEW S, FilterBy(S) PROVE Viewed'
<1>1. /\ order \in Orders /\ failures \in BOOLEAN /\ cursor \in Nat /\ scroll \in Nat
      /\ UNCHANGED <<table, order, failures, place>>
  BY DEF Viewed, FilterBy
<1>. QED
  BY <1>1, PlaceKeeps

LEMMA ViewKeeps == ASSUME Viewed, NEW v, NEW key \in BOOLEAN, ShowView(v, key) PROVE Viewed'
<1>1. /\ order \in Orders /\ failures \in BOOLEAN /\ cursor \in Nat /\ scroll \in Nat
      /\ UNCHANGED <<table, look, cursor>> /\ scroll' = IF key THEN 0 ELSE scroll
  BY DEF Viewed, ShowView
<1>. QED
  BY <1>1, PlaceKeeps

LEMMA LeastFact ==
  ASSUME NEW n \in Nat, NEW S \in SUBSET (1..n), S # {}
  PROVE  \E i \in S : \A j \in S : i <= j
<1> DEFINE T == {m \in 1..n : n + 1 - m \in S}
<1>1. \A i \in S : i \in Nat /\ n + 1 - i \in 1..n /\ n + 1 - (n + 1 - i) = i
  OBVIOUS
<1>2. \A i \in S : n + 1 - i \in T
  BY <1>1
<1>3. T \in SUBSET (1..n) /\ \A m \in T : m \in Nat /\ n + 1 - m \in S
  OBVIOUS
<1> HIDE DEF T
<1>4. PICK m \in T : \A j \in T : j <= m
  <2>1. PICK i : i \in S
    OBVIOUS
  <2>2. T # {}
    BY <1>2, <2>1
  <2>. QED
    BY <1>3, <2>2, GreatestFact
<1>5. \A j \in S : n + 1 - j <= m
  BY <1>2, <1>4
<1>. QED
  BY <1>1, <1>3, <1>4, <1>5

(* f fills the cache for the new key, and finds its row in that list.        *)
LEMMA FailuresKeep == ASSUME Viewed, ToggleFailures PROVE Viewed'
<1>1. /\ rows \in Seq(RowSet) /\ order \in Orders /\ failures \in BOOLEAN /\ CacheOK
      /\ UNCHANGED <<rows, revision, order, filter>> /\ failures' = ~failures /\ scroll' = 0
  BY DEF Viewed, ToggleFailures
<1>2. CASE ~failures'
  <2>1. cursor' = 0 /\ UNCHANGED table
    BY <1>1, <1>2 DEF ToggleFailures
  <2>. QED
    BY <1>1, <2>1, PlaceKeeps
<1>3. CASE failures'
  <2> DEFINE L == OrderedBy(rows, order, failures', filter)
             failed == {k \in DOMAIN cache'.indices : rows[cache'.indices[k]].grade < Healthy}
  <2>1. Ordered' = L
    BY <1>1 DEF Ordered, OrderedBy, Admits, Admitted, Precedes, Before
  <2>2. cache' = [key |-> Key', indices |-> Ordered']
    BY <1>3 DEF ToggleFailures
  <2>3. cursor' = IF failed = {} THEN 0 ELSE (CHOOSE k \in failed : \A l \in failed : k <= l) - 1
    BY <1>1, <1>3 DEF ToggleFailures
  <2>4. cache'.indices = L
    BY <2>1, <2>2
  <2>5. Len(L) \in Nat /\ DOMAIN L = 1..Len(L)
    BY <1>1, SortedFact, DashboardAssumption
  <2>6. failed \in SUBSET (1..Len(L))
    BY <2>4, <2>5
  <2>7. CacheOK'
    <3>1. cache' = [key |-> <<revision', order', failures', filter'>>,
                    indices |-> OrderedBy(rows', order', failures', filter')]
      BY <1>1, <2>1, <2>2 DEF Key
    <3>. QED
      BY <3>1 DEF CacheOK
  <2> HIDE DEF L, failed
  <2>8. cursor' \in Nat
    <3>1. CASE failed = {}
      BY <2>3, <3>1
    <3>2. CASE failed # {}
      <4>1. \E k \in failed : \A l \in failed : k <= l
        BY <2>5, <2>6, <3>2, LeastFact
      <4>2. (CHOOSE k \in failed : \A l \in failed : k <= l) \in 1..Len(L)
        BY <2>6, <4>1
      <4>. QED
        BY <2>3, <2>5, <3>2, <4>2
    <3>. QED
      BY <3>1, <3>2
  <2>. QED
    BY <1>1, <2>7, <2>8 DEF Viewed
<1>. QED
  BY <1>2, <1>3

LEMMA ViewedInductive == ASSUME Viewed, [Next]_vars PROVE Viewed'
<1>1. ASSUME JoinScanner \/ StartInvestigation \/ JoinInvestigator \/ RefuseStart \/ NoKey
      PROVE  Viewed'
  BY <1>1, LookKeeps DEF JoinScanner, StartInvestigation, JoinInvestigator, RefuseStart, NoKey
<1>2. ASSUME ToggleMark \/ RerunSelected \/ ConfirmRerun \/ DismissDialog \/ StartFromWizard
      PROVE  Viewed'
  BY <1>2, LookKeeps DEF ToggleMark, RerunSelected, ConfirmRerun, DismissDialog, StartFromWizard
<1>3. ASSUME NEW what, AskRerun(what) PROVE Viewed'
  BY <1>3, LookKeeps DEF AskRerun
<1>4. CASE UNCHANGED vars
  BY <1>4, LookKeeps DEF vars
<1>. QED
  BY <1>1, <1>2, <1>3, <1>4, ResultKeeps, CycleKeeps, BeginViews, DrawLights, MoveKeeps,
     ClickKeeps, SortKeeps, FilterKeeps, ViewKeeps, FailuresKeep DEF Next

LEMMA LitInductive == ASSUME Viewed, LitOK, [Next]_vars PROVE LitOK'
<1>1. ASSUME step' = "drain" PROVE LitOK'
  BY <1>1 DEF LitOK
<1>2. ASSUME NEW ip, NEW grade, NEW partial, AddResult(ip, grade, partial) PROVE LitOK'
  BY <1>1, <1>2 DEF AddResult
<1>3. ASSUME \/ JoinScanner \/ StartInvestigation \/ JoinInvestigator \/ WatchCycle \/ BeginScan
             \/ RefuseStart
      PROVE  LitOK'
  BY <1>1, <1>3 DEF JoinScanner, StartInvestigation, JoinInvestigator, WatchCycle, BeginScan,
                    Begin, RefuseStart
<1>4. ASSUME \/ NoKey \/ MoveCursor \/ ToggleFailures \/ ToggleMark \/ RerunSelected
             \/ ConfirmRerun \/ DismissDialog \/ StartFromWizard
      PROVE  LitOK'
  BY <1>1, <1>4 DEF NoKey, MoveCursor, ToggleFailures, ToggleMark, RerunSelected, ConfirmRerun,
                    DismissDialog, StartFromWizard, PressedFor, Pressed, Input
<1>5. ASSUME NEW k, ClickRow(k) \/ SortBy(k) \/ FilterBy(k) \/ AskRerun(k) PROVE LitOK'
  BY <1>1, <1>5 DEF ClickRow, SortBy, FilterBy, AskRerun, PressedFor, Pressed, Input
<1>6. ASSUME NEW v, NEW key, ShowView(v, key) PROVE LitOK'
  BY <1>1, <1>6 DEF ShowView, PressedFor, Pressed, Input
<1>7. CASE UNCHANGED vars
  <2>1. /\ UNCHANGED <<rows, revision, cache, order, failures, filter, cursor, step, view, lit>>
    BY <1>7 DEF vars
  <2>2. Ordered' = Ordered
    BY <2>1 DEF Ordered, Admitted, Before
  <2>3. Indices' = Indices
    BY <2>1, <2>2 DEF Indices, Key
  <2>4. Shown' = Shown
    BY <2>3 DEF Shown
  <2>5. Selected' = Selected /\ Copied' = Copied
    BY <2>1, <2>3, <2>4 DEF Selected, Copied
  <2>. QED
    BY <2>1, <2>4, <2>5 DEF LitOK
<1>. QED
  BY <1>2, <1>3, <1>4, <1>5, <1>6, <1>7, DrawLights DEF Next

(* Between a draw and the next key the table is true: it lists the current   *)
(* rows that the filters admit, each once and in order, although the order   *)
(* comes from a cache; one of the rows on the screen is highlighted, and it  *)
(* is the one the keys act on (mod.rs:1488, mod.rs:2786, dashboard.rs:1569). *)
THEOREM TableTrueHolds == Spec => []TableTrue
<1>1. Init => Viewed /\ LitOK
  <2>1. Init => CacheOK
    BY DEF Init, CacheOK
  <2>2. Init => order \in Orders /\ failures \in BOOLEAN /\ cursor \in Nat /\ scroll \in Nat
    <3>1. [col |-> 0, asc |-> TRUE] \in Orders
      BY DEF Orders
    <3>2. Init => order = [col |-> 0, asc |-> TRUE] /\ failures = FALSE /\ cursor = 0 /\ scroll = 0
      BY Zenon DEF Init
    <3>3. FALSE \in BOOLEAN /\ 0 \in Nat
      OBVIOUS
    <3>. QED
      BY <3>1, <3>2, <3>3, Zenon
  <2>3. Init => rows \in Seq(RowSet)
    <3>1. <<>> \in Seq(RowSet)
      OBVIOUS
    <3>. QED
      BY <3>1 DEF Init
  <2>. QED
    BY <2>1, <2>2, <2>3 DEF Init, Viewed, LitOK
<1>2. Viewed /\ LitOK /\ [Next]_vars => (Viewed /\ LitOK)'
  BY ViewedInductive, LitInductive
<1>3. Viewed /\ LitOK => TableTrue
  BY ListedFact DEF TableTrue, LitOK
<1>. QED
  BY <1>1, <1>2, <1>3, PTL DEF Spec
=============================================================================
