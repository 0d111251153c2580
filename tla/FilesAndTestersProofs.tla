----------------------- MODULE FilesAndTestersProofs -----------------------
(***************************************************************************)
(* Theorems about the two modules of what runs beside a scan: Testers, for *)
(* any profiles, addresses, rates, speed settings and flights of the TLS   *)
(* client; and Files, for any processes, jobs and process ids.  First come *)
(* the rows of the two tests, then what a connection of the fragment test  *)
(* sends, and last the files; they share nothing but the facts about       *)
(* sequences.                                                              *)
(***************************************************************************)
EXTENDS Files, Testers, FunctionTheorems, FiniteSetTheorems, SequenceTheorems,
        WellFoundedInduction, TLAPS

-----------------------------------------------------------------------------
(* Rows on their way.                                                      *)

\* what is shown and what was sent make one list, whenever a row is received
LEMMA MoveFact ==
  ASSUME NEW S, NEW s \in Seq(S), NEW t \in Seq(S), t # <<>>
  PROVE  /\ Append(s, t[1]) \in Seq(S) /\ Tail(t) \in Seq(S)
         /\ Append(s, t[1]) \o Tail(t) = s \o t
<1>1. Len(s) \in Nat /\ Len(t) \in Nat \ {0} /\ t[1] \in S
  BY LenProperties, EmptySeq, ElementOfSeq
<1>2. /\ Append(s, t[1]) \in Seq(S) /\ Len(Append(s, t[1])) = Len(s) + 1
      /\ \A i \in 1..Len(s) : Append(s, t[1])[i] = s[i]
      /\ Append(s, t[1])[Len(s) + 1] = t[1]
  BY <1>1, AppendProperties
<1>3. /\ Tail(t) \in Seq(S) /\ Len(Tail(t)) = Len(t) - 1
      /\ \A i \in 1..(Len(t) - 1) : Tail(t)[i] = t[i + 1]
  BY HeadTailProperties
<1> DEFINE a == Append(s, t[1])  b == Tail(t)
<1>4. /\ a \o b \in Seq(S) /\ Len(a \o b) = Len(a) + Len(b)
      /\ \A i \in 1..(Len(a) + Len(b)) :
           (a \o b)[i] = IF i <= Len(a) THEN a[i] ELSE b[i - Len(a)]
  BY <1>2, <1>3, ConcatProperties
<1>5. /\ s \o t \in Seq(S) /\ Len(s \o t) = Len(s) + Len(t)
      /\ \A i \in 1..(Len(s) + Len(t)) :
           (s \o t)[i] = IF i <= Len(s) THEN s[i] ELSE t[i - Len(s)]
  BY ConcatProperties
<1>6. Len(a \o b) = Len(s \o t)
  BY <1>1, <1>2, <1>3, <1>4, <1>5
<1>7. ASSUME NEW i \in 1..Len(a \o b) PROVE (a \o b)[i] = (s \o t)[i]
  <2>1. i \in 1..(Len(a) + Len(b)) /\ i \in 1..(Len(s) + Len(t)) /\ i \in Nat \ {0}
    BY <1>1, <1>4, <1>5, <1>6, <1>7
  <2>2. CASE i <= Len(s)
    <3>1. (a \o b)[i] = a[i] /\ a[i] = s[i] /\ (s \o t)[i] = s[i]
      BY <1>1, <1>2, <1>4, <1>5, <2>1, <2>2
    <3>. QED
      BY <3>1
  <2>3. CASE i = Len(s) + 1
    <3>1. (a \o b)[i] = a[i] /\ a[i] = t[1] /\ (s \o t)[i] = t[i - Len(s)] /\ i - Len(s) = 1
      BY <1>1, <1>2, <1>4, <1>5, <2>1, <2>3
    <3>. QED
      BY <3>1
  <2>4. CASE i > Len(s) + 1
    <3>1. (a \o b)[i] = b[i - (Len(s) + 1)] /\ (s \o t)[i] = t[i - Len(s)]
      BY <1>1, <1>2, <1>4, <1>5, <2>1, <2>4
    <3>2. i - (Len(s) + 1) \in 1..(Len(t) - 1) /\ (i - (Len(s) + 1)) + 1 = i - Len(s)
      BY <1>1, <2>1, <2>4
    <3>3. b[i - (Len(s) + 1)] = t[i - Len(s)]
      BY <1>3, <3>2
    <3>. QED
      BY <3>1, <3>3
  <2>. QED
    BY <1>1, <2>1, <2>2, <2>3, <2>4
<1>. QED
  BY <1>2, <1>3, <1>4, <1>5, <1>6, <1>7, SeqEqual

LEMMA AddedFact ==
  ASSUME NEW S, NEW s \in Seq(S), NEW t \in Seq(S), NEW r \in S
  PROVE  s \o Append(t, r) = Append(s \o t, r)
<1>1. <<r>> \in Seq(S)
  OBVIOUS
<1>2. Append(t, r) = t \o <<r>> /\ s \o t \in Seq(S)
  BY AppendIsConcat, ConcatProperties
<1>3. Append(s \o t, r) = (s \o t) \o <<r>>
  BY <1>2, AppendIsConcat
<1>. QED
  BY <1>1, <1>2, <1>3, ConcatAssociative

\* the profile that comes next is the first of those left
LEMMA ForemostOf ==
  ASSUME NEW S \in SUBSET Nat, S # {}
  PROVE  Foremost(S) \in S /\ \A q \in S : Foremost(S) <= q
<1>1. IsWellFoundedOn(OpToRel(<, Nat), Nat)
  BY NatLessThanWellFounded
<1>2. PICK k \in S : \A j \in S : ~(<<j, k>> \in OpToRel(<, Nat))
  BY <1>1, WFMin
<1>3. \A j \in S : ~(j < k)
  BY <1>2 DEF OpToRel
<1>4. \E i \in S : \A j \in S : i <= j
  BY <1>3
<1>. QED
  BY <1>4 DEF Foremost

-----------------------------------------------------------------------------
(* The rows of a fragment test.                                            *)

FragmentRow == [preset : Nat, ip : Ips \cup {NoIp}, works : BOOLEAN]
Thread == [ip : Ips \cup {NoIp}, left : SUBSET All, status : {"none", "running", "ended"}]
SpeedScreens == {"scanning", "gone", "speed select", "speed testing", "speed results"}

Of(rows, a) == \A i \in 1..Len(rows) : rows[i].ip = a
Increasing(rows) ==
  \A i, j \in 1..Len(rows) : i < j => rows[i].preset < rows[j].preset
Tried(rows) == {rows[i].preset : i \in 1..Len(rows)}
Arrived == results \o channel

\* of the kind of session, and of the connection of the thread
SessionOK ==
  /\ presets \in Seq(Seq(Stage)) /\ ip \in Ips \cup {NoIp} /\ enabled \subseteq All
  /\ runner \in Thread
  /\ results \in Seq(FragmentRow) /\ channel \in Seq(FragmentRow)
  /\ IF presets = <<>> THEN screen \in SpeedScreens
     ELSE screen \in {"scanning", "gone", "select", "testing", "results"}
  /\ step # "idle" => Alive /\ runner.left # {}

\* no thread and no row is left over, unless a relaunch has come between
IdleOK == ~taken /\ screen \notin {"testing", "gone"} => runner.status = "none" /\ channel = <<>>

TestOK ==
  ~taken /\ screen = "testing" =>
    /\ runner.ip = ip /\ runner.left \subseteq enabled
    /\ Of(Arrived, ip) /\ Increasing(Arrived) /\ Tried(Arrived) = enabled \ runner.left
    /\ \A p \in Tried(Arrived), q \in runner.left : p < q
    /\ runner.status = "ended" /\ ~cancel => runner.left = {}

ResultsOK ==
  ~taken /\ screen = "results" =>
    /\ Of(results, ip) /\ Increasing(results) /\ Tried(results) \subseteq enabled
    /\ ~cancel => Tried(results) = enabled

FInv == SessionOK /\ IdleOK /\ TestOK /\ ResultsOK

LEMMA AllFact == presets \in Seq(Seq(Stage)) => All \subseteq Nat /\ (presets = <<>> <=> All = {})
<1>1. ASSUME presets \in Seq(Seq(Stage)) PROVE All \subseteq Nat /\ (presets = <<>> <=> All = {})
  <2>1. All = 1..Len(presets) /\ Len(presets) \in Nat
    BY <1>1, LenProperties DEF All
  <2>2. presets # <<>> => Len(presets) # 0
    BY <1>1, EmptySeq
  <2>3. presets = <<>> => Len(presets) = 0
    BY EmptySeq
  <2>. QED
    BY <2>1, <2>2, <2>3
<1>. QED
  BY <1>1

LEMMA InitFragment == TestersInit => FInv
<1> SUFFICES ASSUME TestersInit PROVE FInv
  OBVIOUS
<1>1. /\ presets \in Sweeps /\ ip = NoIp /\ enabled = All /\ results = <<>>
      /\ runner = None /\ channel = <<>> /\ screen = "scanning" /\ step = "idle"
  BY DEF TestersInit, FragmentInit
<1>2. presets \in Seq(Seq(Stage))
  BY <1>1, SweepsAssumption
<1>3. runner \in Thread /\ runner.status = "none"
  BY <1>1 DEF None, Thread
<1>4. SessionOK
  BY <1>1, <1>2, <1>3, EmptySeq DEF SessionOK, SpeedScreens
<1>. QED
  BY <1>1, <1>3, <1>4 DEF FInv, IdleOK, TestOK, ResultsOK

\* a test begins with nothing tried and nothing shown
LEMMA StartFragment ==
  ASSUME FInv, NEW a \in Ips \cup {NoIp}, NEW on \in SUBSET All, NEW otherwise,
         screen \in {"scanning", "select"}, screen' \in {"testing", "select", "gone"},
         StartPending(a, on, otherwise), runner.status = "none",
         ip' = a, enabled' = on, results' = <<>>, UNCHANGED <<presets, taken, step>>, presets # <<>>
  PROVE  FInv'
<1>1. /\ runner' = [ip |-> a, left |-> on, status |-> "running"]
      /\ screen' = "testing" /\ channel' = channel
  BY DEF StartPending
<1>2. runner' \in Thread /\ runner'.ip = a /\ runner'.left = on /\ runner'.status = "running"
  BY <1>1 DEF Thread, All
<1>3. SessionOK'
  <2>1. step = "idle"
    BY DEF FInv, SessionOK, Alive
  <2>2. results' \in Seq(FragmentRow)
    BY EmptySeq
  <2>. QED
    BY <1>1, <1>2, <2>1, <2>2 DEF FInv, SessionOK, All, Thread
<1>4. TestOK'
  <2>1. ASSUME ~taken PROVE Arrived' = <<>>
    <3>1. channel = <<>>
      BY <2>1 DEF FInv, IdleOK
    <3>. QED
      BY <1>1, <3>1, ConcatEmptySeq, EmptySeq DEF Arrived
  <2>2. ~taken => Of(Arrived', a) /\ Increasing(Arrived') /\ Tried(Arrived') = {}
    BY <2>1, EmptySeq DEF Of, Increasing, Tried
  <2>. QED
    BY <1>1, <1>2, <2>2 DEF TestOK
<1>. QED
  BY <1>1, <1>3, <1>4 DEF FInv, IdleOK, ResultsOK

\* the thread ends, by itself or since the flag is up, and no row is dropped
LEMMA EndFragment ==
  ASSUME FInv, Alive, cancel \/ runner.left = {}, step' = "idle",
         runner' = [runner EXCEPT !.status = "ended"],
         UNCHANGED <<screen, presets, form, results, flags, channel, tests, taken>>
  PROVE  FInv'
<1>1. runner \in Thread /\ runner.status = "running"
  BY DEF FInv, SessionOK, Alive
<1>2. /\ runner' \in Thread /\ runner'.ip = runner.ip /\ runner'.left = runner.left
      /\ runner'.status = "ended"
  BY <1>1 DEF Thread
<1>3. SessionOK'
  BY <1>2 DEF FInv, SessionOK, form, flags, Thread, All
<1>4. IdleOK'
  BY <1>1 DEF FInv, IdleOK, flags
<1>5. TestOK'
  BY <1>2 DEF FInv, TestOK, Arrived, form, flags
<1>6. ResultsOK'
  BY DEF FInv, ResultsOK, form, flags
<1>. QED
  BY <1>3, <1>4, <1>5, <1>6 DEF FInv

LEMMA TryFragment == FInv /\ TryNext => FInv'
<1> SUFFICES ASSUME FInv, TryNext PROVE FInv'
  OBVIOUS
<1>1. CASE cancel \/ runner.left = {}
  <2>1. step' = "idle" /\ runner' = [runner EXCEPT !.status = "ended"] /\ Alive
    BY <1>1 DEF TryNext, connection
  <2>. QED
    BY <1>1, <2>1, EndFragment DEF TryNext
<1>2. CASE ~(cancel \/ runner.left = {})
  <2>1. UNCHANGED <<screen, presets, form, results, flags, runner, channel, taken>> /\ Alive
    BY <1>2 DEF TryNext
  <2>2. SessionOK'
    BY <1>2, <2>1 DEF FInv, SessionOK, form, flags, Alive, Thread, All
  <2>. QED
    BY <2>1, <2>2 DEF FInv, IdleOK, TestOK, ResultsOK, Arrived, form, flags
<1>. QED
  BY <1>1, <1>2

LEMMA AbortFragment == FInv /\ Abort => FInv'
<1> SUFFICES ASSUME FInv, Abort PROVE FInv'
  OBVIOUS
<1>1. Alive /\ cancel /\ step' = "idle" /\ runner' = [runner EXCEPT !.status = "ended"]
  BY DEF Abort, Watched, Unconnected
<1>. QED
  BY <1>1, EndFragment DEF Abort

\* what one more row does to the rows there are
LEMMA RowAdded ==
  ASSUME NEW rows \in Seq(FragmentRow), NEW r \in FragmentRow,
         \A p \in Tried(rows) : p < r.preset, Increasing(rows)
  PROVE  /\ Increasing(Append(rows, r)) /\ Tried(Append(rows, r)) = Tried(rows) \cup {r.preset}
         /\ \A a : Of(rows, a) /\ r.ip = a => Of(Append(rows, r), a)
<1> DEFINE n == Len(rows)  more == Append(rows, r)
<1>1. /\ n \in Nat /\ Len(more) = n + 1 /\ more[n + 1] = r
      /\ \A i \in 1..n : more[i] = rows[i]
  BY LenProperties, AppendProperties
<1>2. Increasing(more)
  <2> SUFFICES ASSUME NEW i \in 1..Len(more), NEW j \in 1..Len(more), i < j
               PROVE  more[i].preset < more[j].preset
    BY DEF Increasing
  <2>1. i \in 1..n /\ more[i] = rows[i]
    BY <1>1
  <2>2. CASE j = n + 1
    <3>1. rows[i].preset \in Tried(rows)
      BY <2>1 DEF Tried
    <3>. QED
      BY <1>1, <2>1, <2>2, <3>1
  <2>3. CASE j \in 1..n
    BY <1>1, <2>1, <2>3 DEF Increasing
  <2>. QED
    BY <1>1, <2>2, <2>3
<1>3. Tried(more) = Tried(rows) \cup {r.preset}
  <2>1. ASSUME NEW p \in Tried(more) PROVE p \in Tried(rows) \cup {r.preset}
    <3>1. PICK i \in 1..Len(more) : p = more[i].preset
      BY DEF Tried
    <3>2. i = n + 1 \/ i \in 1..n
      BY <1>1
    <3>. QED
      BY <1>1, <3>1, <3>2 DEF Tried
  <2>2. ASSUME NEW p \in Tried(rows) PROVE p \in Tried(more)
    <3>1. PICK i \in 1..n : p = rows[i].preset
      BY DEF Tried
    <3>2. i \in 1..Len(more) /\ more[i] = rows[i]
      BY <1>1
    <3>. QED
      BY <3>1, <3>2 DEF Tried
  <2>3. r.preset \in Tried(more)
    <3>1. n + 1 \in 1..Len(more) /\ more[n + 1] = r
      BY <1>1
    <3>. QED
      BY <3>1 DEF Tried
  <2>. QED
    BY <2>1, <2>2, <2>3
<1>4. ASSUME NEW a, Of(rows, a), r.ip = a PROVE Of(more, a)
  <2> SUFFICES ASSUME NEW i \in 1..Len(more) PROVE more[i].ip = a
    BY DEF Of
  <2>1. i = n + 1 \/ i \in 1..n
    BY <1>1
  <2>. QED
    BY <1>1, <1>4, <2>1 DEF Of
<1>. QED
  BY <1>2, <1>3, <1>4

LEMMA SendFragment == FInv /\ Send => FInv'
<1> SUFFICES ASSUME FInv, Send PROVE FInv'
  OBVIOUS
<1> DEFINE row == Row(Upcoming, runner.ip, verdict.tls /\ verdict.http)
<1>1. /\ runner \in Thread /\ runner.status = "running" /\ runner.left # {}
      /\ presets \in Seq(Seq(Stage)) /\ results \in Seq(FragmentRow) /\ channel \in Seq(FragmentRow)
  BY DEF FInv, SessionOK, Alive, Send
<1>2. runner.left \subseteq Nat /\ runner.left \subseteq All
  BY <1>1, AllFact DEF Thread
<1>3. Upcoming \in runner.left /\ \A q \in runner.left : Upcoming <= q
  BY <1>1, <1>2, ForemostOf DEF Upcoming
<1>4. row \in FragmentRow /\ row.preset = Upcoming /\ row.ip = runner.ip
  BY <1>1, <1>2, <1>3 DEF Row, FragmentRow, Thread
<1>5. /\ channel' = Append(channel, row) /\ step' = "idle" /\ results' = results
      /\ runner' = [runner EXCEPT !.left = @ \ {Upcoming}]
      /\ UNCHANGED <<screen, presets, ip, enabled, cancel, taken>>
  BY DEF Send, Unconnected, form, flags
<1>6. /\ runner' \in Thread /\ runner'.ip = runner.ip /\ runner'.status = "running"
      /\ runner'.left = runner.left \ {Upcoming}
  BY <1>1, <1>5 DEF Thread, All
<1>7. channel' \in Seq(FragmentRow)
  BY <1>1, <1>4, <1>5, AppendProperties
<1>8. SessionOK'
  BY <1>5, <1>6, <1>7 DEF FInv, SessionOK, Thread, All
<1>9. IdleOK'
  BY <1>1, <1>5 DEF FInv, IdleOK
<1>10. TestOK'
  <2> SUFFICES ASSUME ~taken, screen = "testing"
               PROVE  /\ runner'.ip = ip /\ runner'.left \subseteq enabled
                      /\ Of(Arrived', ip) /\ Increasing(Arrived')
                      /\ Tried(Arrived') = enabled \ runner'.left
                      /\ \A p \in Tried(Arrived'), q \in runner'.left : p < q
    BY <1>5, <1>6 DEF TestOK
  <2>1. /\ runner.ip = ip /\ runner.left \subseteq enabled
        /\ Of(Arrived, ip) /\ Increasing(Arrived) /\ Tried(Arrived) = enabled \ runner.left
        /\ \A p \in Tried(Arrived), q \in runner.left : p < q
    BY DEF FInv, TestOK
  <2>2. Arrived' = Append(Arrived, row) /\ Arrived \in Seq(FragmentRow)
    BY <1>1, <1>4, <1>5, AddedFact, ConcatProperties DEF Arrived
  <2>3. \A p \in Tried(Arrived) : p < row.preset
    BY <1>3, <1>4, <2>1
  <2>4. /\ Increasing(Arrived') /\ Tried(Arrived') = Tried(Arrived) \cup {Upcoming}
        /\ Of(Arrived', ip)
    BY <1>4, <2>1, <2>2, <2>3, RowAdded
  <2>5. Tried(Arrived') = enabled \ runner'.left
    BY <1>3, <1>6, <2>1, <2>4
  <2>6. \A q \in runner'.left : Upcoming < q
    BY <1>2, <1>3, <1>6
  <2>. QED
    BY <1>6, <2>1, <2>4, <2>5, <2>6
<1>11. ResultsOK'
  BY <1>5 DEF FInv, ResultsOK
<1>. QED
  BY <1>8, <1>9, <1>10, <1>11 DEF FInv

LEMMA CheckFragment == FInv /\ Check => FInv'
<1> SUFFICES ASSUME FInv, Check PROVE FInv'
  OBVIOUS
<1>1. UNCHANGED <<screen, presets, form, results, flags, thread, taken>> /\ Alive
  BY DEF Check
<1>2. step # "idle" \/ step' = step
  BY DEF Check, Connection, Connect, PollWrite, Cut, NextStage, Wake, Deliver, ServerFlight,
         Hold, Reply, Broken
<1>3. SessionOK'
  BY <1>1, <1>2 DEF FInv, SessionOK, form, flags, thread, Alive, Thread, All
<1>. QED
  BY <1>1, <1>3 DEF FInv, IdleOK, TestOK, ResultsOK, Arrived, form, flags, thread

LEMMA ReceiveFragment == FInv /\ Receive => FInv'
<1> SUFFICES ASSUME FInv, Receive PROVE FInv'
  OBVIOUS
<1>1. /\ results \in Seq(FragmentRow) /\ channel \in Seq(FragmentRow) /\ channel # <<>>
      /\ screen # "gone"
  BY DEF FInv, SessionOK, Receive
<1>2. /\ results' = Append(results, channel[1]) /\ channel' = Tail(channel)
      /\ UNCHANGED <<screen, presets, ip, enabled, cancel, runner, taken, step>>
  BY DEF Receive, form, flags, connection
<1>3. results' \in Seq(FragmentRow) /\ channel' \in Seq(FragmentRow) /\ Arrived' = Arrived
  BY <1>1, <1>2, MoveFact DEF Arrived
<1>4. SessionOK'
  BY <1>2, <1>3 DEF FInv, SessionOK, Alive, Thread, All
<1>5. taken \/ screen = "testing"
  BY <1>1 DEF FInv, IdleOK
<1>6. TestOK'
  BY <1>2, <1>3 DEF FInv, TestOK
<1>. QED
  BY <1>2, <1>4, <1>5, <1>6 DEF FInv, IdleOK, ResultsOK

LEMMA JoinFragment == FInv /\ Join => FInv'
<1> SUFFICES ASSUME FInv, Join PROVE FInv'
  OBVIOUS
<1>1. /\ results \in Seq(FragmentRow) /\ channel \in Seq(FragmentRow)
      /\ screen = "testing" /\ runner.status = "ended"
  BY DEF FInv, SessionOK, Join
<1>2. /\ results' = Arrived /\ runner' = None /\ screen' \in {"gone", "results"}
      /\ UNCHANGED <<presets, ip, enabled, cancel, taken, step>>
  BY DEF Join, Collected, Arrived, form, flags, connection
<1>3. channel' = <<>>
  <2>1. channel' = SubSeq(channel, Len(channel) + 1, Len(channel)) /\ Len(channel) \in Nat
    BY <1>1, LenProperties DEF Join, Collected
  <2>2. Len(channel') = 0 /\ channel' \in Seq(FragmentRow)
    <3>1. \A i \in (Len(channel) + 1)..Len(channel) : channel[i] \in FragmentRow
      BY <2>1
    <3>. QED
      BY <2>1, <3>1, SubSeqProperties
  <2>. QED
    BY <2>2, EmptySeq
<1>4. runner' \in Thread /\ runner'.status = "none"
  BY <1>2 DEF None, Thread
<1>5. results' \in Seq(FragmentRow) /\ channel' \in Seq(FragmentRow)
  BY <1>1, <1>2, <1>3, ConcatProperties, EmptySeq DEF Arrived
<1>6. SessionOK'
  <2>1. step = "idle" /\ presets # <<>>
    BY <1>1 DEF FInv, SessionOK, Alive, SpeedScreens
  <2>. QED
    BY <1>2, <1>4, <1>5, <2>1 DEF FInv, SessionOK, Thread, All
<1>7. ResultsOK'
  <2> SUFFICES ASSUME ~taken
               PROVE  /\ Of(Arrived, ip) /\ Increasing(Arrived) /\ Tried(Arrived) \subseteq enabled
                      /\ ~cancel => Tried(Arrived) = enabled
    BY <1>2 DEF ResultsOK
  <2>. QED
    BY <1>1 DEF FInv, TestOK
<1>. QED
  BY <1>2, <1>3, <1>4, <1>6, <1>7 DEF FInv, IdleOK, TestOK

\* a step that opens, edits or leaves a screen: what it changes is the screen,
\* and the form and its rows before a test; a test loses its screen only to a
\* relaunch
LEMMA KeyFragment ==
  ASSUME FInv, UNCHANGED <<presets, runner, channel, step>>,
         taken \/ screen = "testing" => taken', screen # "gone" \/ screen' = screen,
         ip' \in Ips \cup {NoIp}, enabled' \subseteq All, results' \in Seq(FragmentRow),
         screen' \notin {"testing", "results"},
         IF presets = <<>> THEN screen' \in SpeedScreens
                           ELSE screen' \in {"scanning", "gone", "select"}
  PROVE  FInv'
<1>1. SessionOK'
  BY DEF FInv, SessionOK, Alive, Thread, All
<1>2. IdleOK'
  <2> SUFFICES ASSUME ~taken', screen' # "gone" PROVE runner.status = "none" /\ channel = <<>>
    BY DEF IdleOK
  <2>. QED
    BY DEF FInv, IdleOK
<1>. QED
  BY <1>1, <1>2 DEF FInv, TestOK, ResultsOK

\* what the loop does in a session of speed tests leaves nothing to be said
LEMMA StillFragment ==
  ASSUME FInv, UNCHANGED <<screen, presets, ip, enabled, results, cancel, runner, channel, step, taken>>
  PROVE  FInv'
BY DEF FInv, SessionOK, IdleOK, TestOK, ResultsOK, Arrived, Alive, Thread, All

LEMMA OpenFragment ==
  /\ FInv /\ presets # <<>>
  /\ (\E a \in Ips : OpenAuto(a)) \/ (\E a \in Ips \cup {NoIp} : OpenSelect(a)) \/ PressStart
  => FInv'
<1> SUFFICES ASSUME FInv, presets # <<>>,
                    (\E a \in Ips : OpenAuto(a)) \/ (\E a \in Ips \cup {NoIp} : OpenSelect(a))
                      \/ PressStart
             PROVE  FInv'
  OBVIOUS
<1> USE DEF form, flags, thread, connection
<1>1. ASSUME NEW a \in Ips, OpenAuto(a) PROVE FInv'
  <2>1. /\ screen = "scanning" /\ ip' = a /\ enabled' = All /\ results' = <<>>
        /\ StartPending(a, All, "testing") /\ UNCHANGED <<presets, taken, step>>
    BY <1>1 DEF OpenAuto
  <2>2. CASE runner.status = "none"
    <3>1. screen' = "testing"
      BY <2>1, <2>2 DEF StartPending
    <3>. QED
      BY <2>1, <2>2, <3>1, StartFragment
  <2>3. CASE runner.status # "none"
    <3>1. taken /\ taken' /\ screen' = "testing" /\ UNCHANGED <<runner, channel>>
      BY <2>1, <2>3 DEF FInv, IdleOK, StartPending
    <3>2. SessionOK'
      <4>1. results' \in Seq(FragmentRow)
        BY <2>1, EmptySeq
      <4>. QED
        BY <2>1, <3>1, <4>1 DEF FInv, SessionOK, Alive, Thread, All
    <3>. QED
      BY <3>1, <3>2 DEF FInv, IdleOK, TestOK, ResultsOK
  <2>. QED
    BY <2>2, <2>3
<1>2. ASSUME NEW a \in Ips \cup {NoIp}, OpenSelect(a) PROVE FInv'
  <2>1. /\ screen = "scanning" /\ screen' = "select" /\ ip' = a /\ results' = <<>>
        /\ UNCHANGED <<presets, enabled, runner, channel, taken, step>>
    BY <1>2 DEF OpenSelect
  <2>2. enabled' \subseteq All /\ results' \in Seq(FragmentRow)
    BY <2>1, EmptySeq DEF FInv, SessionOK
  <2>. QED
    BY <2>1, <2>2, KeyFragment
<1>3. ASSUME PressStart PROVE FInv'
  <2>1. /\ screen = "select" /\ StartPending(ip, enabled, "select")
        /\ UNCHANGED <<presets, ip, enabled, taken, step>>
        /\ IF runner.status = "none" THEN results' = <<>> /\ cancel' = FALSE
                                     ELSE UNCHANGED <<results, cancel>>
        /\ ip \in Ips \cup {NoIp} /\ enabled \subseteq All
    BY <1>3 DEF PressStart, FInv, SessionOK
  <2>2. CASE runner.status = "none"
    <3>1. screen' = "testing"
      BY <2>1, <2>2 DEF StartPending
    <3>. QED
      BY <2>1, <2>2, <3>1, StartFragment
  <2>3. CASE runner.status # "none"
    <3>1. UNCHANGED <<screen, runner, channel, results, cancel>>
      BY <2>1, <2>3 DEF StartPending
    <3>. QED
      BY <2>1, <3>1, StillFragment
  <2>. QED
    BY <2>2, <2>3
<1>. QED
  BY <1>1, <1>2, <1>3

LEMMA EditFragment ==
  /\ FInv /\ presets # <<>>
  /\ (\E a \in Ips : EditIp(a)) \/ (\E p \in All : Toggle(p)) \/ Back \/ Esc
  => FInv'
<1> SUFFICES ASSUME FInv, presets # <<>>,
                    (\E a \in Ips : EditIp(a)) \/ (\E p \in All : Toggle(p)) \/ Back \/ Esc
             PROVE  FInv'
  OBVIOUS
<1> USE DEF form, flags, thread, connection
<1>1. ip \in Ips \cup {NoIp} /\ enabled \subseteq All /\ results \in Seq(FragmentRow)
  BY DEF FInv, SessionOK
<1>2. ASSUME NEW a \in Ips, EditIp(a) PROVE FInv'
  <2>1. /\ screen = "select" /\ ip' = a
        /\ UNCHANGED <<screen, presets, enabled, results, runner, channel, step, taken>>
    BY <1>2 DEF EditIp
  <2>. QED
    BY <1>1, <2>1, KeyFragment
<1>3. ASSUME NEW p \in All, Toggle(p) PROVE FInv'
  <2>1. /\ screen = "select" /\ enabled' \subseteq enabled \cup {p}
        /\ UNCHANGED <<screen, presets, ip, results, runner, channel, step, taken>>
    BY <1>3 DEF Toggle
  <2>2. enabled' \subseteq All
    BY <1>1, <2>1
  <2>. QED
    BY <1>1, <2>1, <2>2, KeyFragment
<1>4. ASSUME Back PROVE FInv'
  <2>1. /\ screen \in {"select", "results"} /\ screen' = "scanning"
        /\ UNCHANGED <<presets, ip, enabled, results, runner, channel, step, taken>>
    BY <1>4 DEF Back
  <2>. QED
    BY <1>1, <2>1, KeyFragment
<1>5. ASSUME Esc PROVE FInv'
  <2>1. /\ screen = "testing" /\ cancel'
        /\ UNCHANGED <<screen, presets, ip, enabled, results, runner, channel, step, taken>>
    BY <1>5 DEF Esc
  <2>2. SessionOK'
    BY <2>1 DEF FInv, SessionOK, Alive, Thread, All
  <2>. QED
    BY <2>1, <2>2 DEF FInv, IdleOK, TestOK, ResultsOK, Arrived
<1>. QED
  BY <1>2, <1>3, <1>4, <1>5

\* the speed tests of a session without profiles, as far as the other tester
\* can tell
LEMMA SpeedScreenFact ==
  ASSUME Speed, screen \in SpeedScreens
  PROVE  screen' \in SpeedScreens /\ (screen # "gone" \/ screen' = screen)
<1>1. SpeedStep
  BY DEF Speed
<1>2. CASE SpeedThreadStep
  BY <1>2 DEF SpeedThreadStep
<1>3. CASE ReceiveSpeed
  BY <1>3 DEF ReceiveSpeed
<1>4. CASE JoinSpeed
  BY <1>4 DEF JoinSpeed, SpeedScreens
<1>5. CASE OpenSpeed
  BY <1>5 DEF OpenSpeed, StartSpeed, SpeedScreens
<1>6. CASE Confirm
  BY <1>6 DEF Confirm, StartSpeed, SpeedScreens
<1>7. CASE BackSpeed
  BY <1>7 DEF BackSpeed, SpeedScreens
<1>8. CASE CancelSpeed
  BY <1>8 DEF CancelSpeed, SpeedScreens
<1>9. CASE SelectAll \/ AskSpeed \/ Decline
  BY <1>9 DEF SelectAll, AskSpeed, Decline
<1>10. CASE \E a \in Ips : ToggleSpeed(a)
  BY <1>10 DEF ToggleSpeed
<1>11. CASE \E d \in Directions : Direct(d)
  BY <1>11 DEF Direct
<1>. QED
  BY <1>1, <1>2, <1>3, <1>4, <1>5, <1>6, <1>7, <1>8, <1>9, <1>10, <1>11 DEF SpeedStep

LEMMA QuitFragment == FInv /\ Quit => FInv'
<1> SUFFICES ASSUME FInv, Quit PROVE FInv'
  OBVIOUS
<1>1. /\ screen \notin {"gone", "speed testing"}
      /\ IF screen = "testing" THEN cancel' = TRUE /\ UNCHANGED screen
                               ELSE screen' = "gone" /\ UNCHANGED cancel
      /\ UNCHANGED <<presets, ip, enabled, results, runner, channel, step, taken>>
  BY DEF Quit, form, flags, thread, connection
<1>2. ip \in Ips \cup {NoIp} /\ enabled \subseteq All /\ results \in Seq(FragmentRow)
  BY DEF FInv, SessionOK
<1>3. CASE screen = "testing"
  <2>1. SessionOK'
    BY <1>1, <1>3 DEF FInv, SessionOK, Alive, Thread, All
  <2>. QED
    BY <1>1, <1>3, <2>1 DEF FInv, IdleOK, TestOK, ResultsOK, Arrived
<1>4. CASE screen # "testing"
  BY <1>1, <1>2, <1>4, KeyFragment DEF SpeedScreens
<1>. QED
  BY <1>3, <1>4

LEMMA LeaveFragment == FInv /\ Leave => FInv'
<1> SUFFICES ASSUME FInv, Leave PROVE FInv'
  OBVIOUS
<1>1. /\ screen = "gone" /\ cancel' = TRUE
      /\ runner' = IF runner.status = "ended" THEN None ELSE runner
      /\ UNCHANGED <<screen, presets, ip, enabled, results, channel, step, taken>>
  BY DEF Leave, form, connection
<1>2. runner' \in Thread
  BY <1>1 DEF None, Thread, FInv, SessionOK
<1>3. SessionOK'
  BY <1>1, <1>2 DEF FInv, SessionOK, Alive, Thread, All
<1>. QED
  BY <1>1, <1>3 DEF FInv, IdleOK, TestOK, ResultsOK

LEMMA NextFragment == FInv /\ [TestersNext]_testersVars => FInv'
<1> SUFFICES ASSUME FInv, [TestersNext]_testersVars PROVE FInv'
  OBVIOUS
<1>1. CASE Fragment
  <2>1. FragmentStep /\ presets # <<>>
    BY <1>1 DEF Fragment
  <2>. QED
    BY <2>1, TryFragment, AbortFragment, SendFragment, CheckFragment, ReceiveFragment,
       JoinFragment, OpenFragment, EditFragment DEF FragmentStep
<1>2. CASE Speed
  <2>1. /\ presets = <<>> /\ screen \in SpeedScreens
        /\ UNCHANGED <<presets, ip, enabled, results, cancel, runner, channel, step, taken>>
        /\ ip \in Ips \cup {NoIp} /\ enabled \subseteq All /\ results \in Seq(FragmentRow)
    BY <1>2 DEF Speed, fragmentTest, form, thread, connection, FInv, SessionOK
  <2>2. screen' \in SpeedScreens /\ (screen # "gone" \/ screen' = screen)
    BY <1>2, <2>1, SpeedScreenFact
  <2>3. cancel' = cancel
    BY <2>1
  <2>. QED
    BY <2>1, <2>2, KeyFragment DEF SpeedScreens
<1>3. CASE Quit
  BY <1>3, QuitFragment
<1>4. CASE Relaunch
  <2>1. /\ screen # "gone" /\ screen' = "scanning" /\ taken' = (taken \/ screen = "testing")
        /\ UNCHANGED <<presets, ip, enabled, results, runner, channel, step>>
    BY <1>4 DEF Relaunch, form, flags, thread, connection
  <2>2. ip \in Ips \cup {NoIp} /\ enabled \subseteq All /\ results \in Seq(FragmentRow)
    BY DEF FInv, SessionOK
  <2>. QED
    BY <2>1, <2>2, KeyFragment DEF SpeedScreens
<1>5. CASE LeaveSpeed
  BY <1>5, StillFragment DEF LeaveSpeed, fragmentTest, form, thread, connection
<1>6. CASE Leave
  BY <1>6, LeaveFragment
<1>7. CASE UNCHANGED testersVars
  BY <1>7, StillFragment DEF testersVars, fragmentTest, form, thread, connection
<1>. QED
  BY <1>1, <1>2, <1>3, <1>4, <1>5, <1>6, <1>7 DEF TestersNext

-----------------------------------------------------------------------------
(* The rows are as many as the profiles that were tried.                   *)

LEMMA TriedCount ==
  ASSUME NEW rows \in Seq(FragmentRow), Increasing(rows)
  PROVE  Cardinality(Tried(rows)) = Len(rows)
<1> DEFINE n == Len(rows)  f == [i \in 1..n |-> rows[i].preset]
<1>1. n \in Nat
  BY LenProperties
<1>2. f \in [1..n -> Tried(rows)] /\ \A i \in 1..n : f[i] = rows[i].preset
  BY DEF Tried
<1> HIDE DEF f
<1>3. ASSUME NEW i \in 1..n, NEW j \in 1..n, f[i] = f[j] PROVE i = j
  <2>1. rows[i].preset = rows[j].preset /\ rows[i].preset \in Nat /\ rows[j].preset \in Nat
    <3>1. rows[i] \in FragmentRow /\ rows[j] \in FragmentRow
      BY ElementOfSeq
    <3>. QED
      BY <1>2, <1>3, <3>1 DEF FragmentRow
  <2>2. ~(i < j) /\ ~(j < i)
    <3>1. i < j => rows[i].preset < rows[j].preset
      BY DEF Increasing
    <3>2. j < i => rows[j].preset < rows[i].preset
      BY DEF Increasing
    <3>. QED
      BY <2>1, <3>1, <3>2
  <2>. QED
    BY <1>1, <2>2
<1>4. \A p \in Tried(rows) : \E i \in 1..n : f[i] = p
  BY <1>2 DEF Tried
<1>5. f \in Bijection(1..n, Tried(rows))
  BY <1>2, <1>3, <1>4, Fun_IsBij
<1>. QED
  BY <1>1, <1>5, FS_CountingElements DEF ExistsBijection

LEMMA FragmentImplies == FInv => RowsOfTest
<1> SUFFICES ASSUME FInv, screen \in {"testing", "results"}, ~taken
             PROVE  /\ \A i \in DOMAIN results : results[i].ip = ip /\ results[i].preset \in enabled
                    /\ \A i, j \in DOMAIN results : i < j => results[i].preset < results[j].preset
                    /\ screen = "results" /\ ~cancel => Len(results) = Cardinality(enabled)
  BY DEF RowsOfTest
<1>1. /\ results \in Seq(FragmentRow) /\ channel \in Seq(FragmentRow)
      /\ DOMAIN results = 1..Len(results) /\ Len(results) \in Nat
  BY LenProperties DEF FInv, SessionOK
<1>2. Of(results, ip) /\ Increasing(results) /\ Tried(results) \subseteq enabled
  <2>1. CASE screen = "results"
    BY <2>1 DEF FInv, ResultsOK
  <2>2. CASE screen = "testing"
    <3>1. Of(Arrived, ip) /\ Increasing(Arrived) /\ Tried(Arrived) \subseteq enabled
      BY <2>2 DEF FInv, TestOK
    <3>2. Len(channel) \in Nat /\ Len(Arrived) = Len(results) + Len(channel)
      BY <1>1, LenProperties, ConcatProperties DEF Arrived
    <3>3. \A i \in 1..Len(results) : i \in 1..Len(Arrived) /\ Arrived[i] = results[i]
      BY <1>1, <3>2, ConcatProperties DEF Arrived
    <3>4. Of(results, ip)
      BY <3>1, <3>3 DEF Of
    <3>5. Increasing(results)
      BY <3>1, <3>3 DEF Increasing
    <3>6. Tried(results) \subseteq Tried(Arrived)
      BY <3>3 DEF Tried
    <3>. QED
      BY <3>1, <3>4, <3>5, <3>6
  <2>. QED
    BY <2>1, <2>2
<1>3. \A i \in 1..Len(results) : results[i].preset \in Tried(results)
  BY DEF Tried
<1>4. screen = "results" /\ ~cancel => Len(results) = Cardinality(enabled)
  BY <1>1, <1>2, TriedCount DEF FInv, ResultsOK
<1>. QED
  BY <1>1, <1>2, <1>3, <1>4 DEF Of, Increasing

\* The rows shown by the fragment tester are those of the test on the screen:
\* of its address, each chosen profile at most once and in the order of the
\* presets, and every one of them when the test was not cancelled - whenever
\* the loop reads the channel and whatever the connections do.
THEOREM RowsOfTestHolds == TestersSpec => []RowsOfTest
<1>1. TestersInit => FInv
  BY InitFragment
<1>2. FInv /\ [TestersNext]_testersVars => FInv'
  BY NextFragment
<1>3. FInv => RowsOfTest
  BY FragmentImplies
<1>. QED
  BY <1>1, <1>2, <1>3, PTL DEF TestersSpec

-----------------------------------------------------------------------------
(* The average of the rates.                                               *)

\* a list of rates that is not empty has a largest one
LEMMA LargestRate ==
  \A n \in Nat \ {0} : \A f \in [1..n -> Nat] : \E i \in 1..n : \A j \in 1..n : f[j] <= f[i]
<1> DEFINE Top(n, f) == \E i \in 1..n : \A j \in 1..n : f[j] <= f[i]
           Bad == {n \in Nat \ {0} : \E f \in [1..n -> Nat] : ~Top(n, f)}
<1> SUFFICES ASSUME Bad # {} PROVE FALSE
  OBVIOUS
<1>1. PICK n \in Bad : \A m \in Bad : n <= m
  <2>1. Bad \in SUBSET Nat
    OBVIOUS
  <2>. HIDE DEF Bad
  <2>. QED
    BY <2>1, ForemostOf
<1>2. PICK f \in [1..n -> Nat] : ~Top(n, f)
  OBVIOUS
<1>3. n \in Nat \ {0} /\ \A m \in Nat \ {0} : m < n => \A h \in [1..m -> Nat] : Top(m, h)
  <2>1. n \in Nat \ {0}
    OBVIOUS
  <2>2. ASSUME NEW m \in Nat \ {0}, m < n PROVE m \notin Bad
    <3>. HIDE DEF Bad
    <3>. QED
      BY <1>1, <2>1, <2>2
  <2>. QED
    BY <2>1, <2>2
<1> HIDE DEF Bad
<1>4. \A j \in 1..n : f[j] \in Nat
  OBVIOUS
<1>5. n # 1
  <2>1. ASSUME n = 1 PROVE FALSE
    <3>1. f[1] \in Nat /\ 1 \in 1..n /\ \A j \in 1..n : j = 1
      BY <1>4, <2>1
    <3>2. \A j \in 1..n : f[j] <= f[1]
      <4>1. ASSUME NEW j \in 1..n PROVE f[j] <= f[1]
        <5>1. j = 1
          BY <3>1
        <5>. QED
          BY <3>1, <5>1
      <4>. QED
        BY <4>1
    <3>. QED
      BY <1>2, <3>1, <3>2
  <2>. QED
    BY <2>1
<1>6. n - 1 \in Nat \ {0} /\ n - 1 < n /\ n \in 1..n
      /\ \A j \in 1..n : j \in 1..(n - 1) \/ j = n
  BY <1>3, <1>5
<1> DEFINE g == [i \in 1..(n - 1) |-> f[i]]
<1>7. g \in [1..(n - 1) -> Nat]
  BY <1>3, <1>4
<1>8. PICK i \in 1..(n - 1) : \A j \in 1..(n - 1) : g[j] <= g[i]
  BY <1>3, <1>6, <1>7
<1>9. i \in 1..n /\ \A j \in 1..(n - 1) : f[j] <= f[i]
  BY <1>3, <1>8
<1> HIDE DEF g
<1>10. CASE f[n] <= f[i]
  <2>1. \A j \in 1..n : f[j] <= f[i]
    BY <1>6, <1>9, <1>10
  <2>. QED
    BY <1>2, <1>9, <2>1
<1>11. CASE f[i] <= f[n]
  <2>1. ASSUME NEW j \in 1..n PROVE f[j] <= f[n]
    <3>1. j = n \/ f[j] <= f[i]
      BY <1>6, <1>9
    <3>2. f[j] \in Nat /\ f[i] \in Nat /\ f[n] \in Nat
      BY <1>4, <1>6, <1>9
    <3>. QED
      BY <1>11, <3>1, <3>2
  <2>. QED
    BY <1>2, <1>6, <2>1
<1>12. f[i] \in Nat /\ f[n] \in Nat
  BY <1>4, <1>6, <1>9
<1>. QED
  BY <1>10, <1>11, <1>12

\* the k-th of the rates when they are sorted, and what is known of a later one
LEMMA SortedFact ==
  ASSUME NEW rates \in Seq(Nat), NEW k \in 1..Len(rates)
  PROVE  /\ Sorted(rates, k) \in Nat
         /\ \A m \in 1..Len(rates) : k <= m => Sorted(rates, k) <= Sorted(rates, m)
<1> DEFINE n == Len(rates)
<1>1. n \in Nat \ {0} /\ rates \in [1..n -> Nat] /\ DOMAIN rates = 1..n
  <2>1. n \in Nat /\ rates \in [1..n -> Nat] /\ DOMAIN rates = 1..n
    BY LenProperties
  <2>. QED
    BY <2>1
<1>2. \A v : IsFiniteSet(AtMost(rates, v)) /\ Cardinality(AtMost(rates, v)) \in Nat
  <2> SUFFICES ASSUME NEW v PROVE IsFiniteSet(AtMost(rates, v)) /\ Cardinality(AtMost(rates, v)) \in Nat
    OBVIOUS
  <2>1. AtMost(rates, v) \subseteq 1..n /\ IsFiniteSet(1..n)
    BY <1>1, FS_Interval DEF AtMost
  <2>2. IsFiniteSet(AtMost(rates, v))
    BY <2>1, FS_Subset
  <2>. QED
    BY <2>2, FS_CardinalityType
<1>3. \A m \in 1..n : Ranked(rates, m) \subseteq Nat /\ Ranked(rates, m) # {}
  <2> SUFFICES ASSUME NEW m \in 1..n PROVE Ranked(rates, m) \subseteq Nat /\ Ranked(rates, m) # {}
    OBVIOUS
  <2>1. Ranked(rates, m) \subseteq Nat
    BY <1>1 DEF Ranked, Range
  <2>2. PICK i \in 1..n : \A j \in 1..n : rates[j] <= rates[i]
    BY <1>1, LargestRate
  <2>3. AtMost(rates, rates[i]) = 1..n
    BY <1>1, <2>2 DEF AtMost
  <2>4. Cardinality(AtMost(rates, rates[i])) = n
    <3>1. n \in Int /\ 1 \in Int /\ ~(1 > n) /\ (n - 1) + 1 = n
      BY <1>1
    <3>2. Cardinality(1..n) = n
      BY <3>1, FS_Interval
    <3>. QED
      BY <2>3, <3>2
  <2>5. rates[i] \in Range(rates)
    BY <1>1 DEF Range
  <2>6. rates[i] \in Ranked(rates, m)
    BY <1>1, <2>4, <2>5 DEF Ranked
  <2>. QED
    BY <2>1, <2>6
<1>4. \A m \in 1..n : Sorted(rates, m) \in Ranked(rates, m)
                       /\ \A v \in Ranked(rates, m) : Sorted(rates, m) <= v
  BY <1>3, ForemostOf DEF Sorted
<1>5. ASSUME NEW m \in 1..n, k <= m PROVE Sorted(rates, k) <= Sorted(rates, m)
  <2>1. Ranked(rates, m) \subseteq Ranked(rates, k)
    <3> SUFFICES ASSUME NEW v \in Ranked(rates, m) PROVE v \in Ranked(rates, k)
      OBVIOUS
    <3>1. v \in Range(rates) /\ Cardinality(AtMost(rates, v)) >= m
      BY DEF Ranked
    <3>2. Cardinality(AtMost(rates, v)) >= k
      BY <1>1, <1>2, <1>5, <3>1
    <3>. QED
      BY <3>1, <3>2 DEF Ranked
  <2>. QED
    BY <1>4, <2>1
<1>. QED
  BY <1>3, <1>4, <1>5

\* the median lies between the percentiles
LEMMA AverageFact ==
  ASSUME NEW rates \in Seq(Nat), Len(rates) # 0
  PROVE  LET m == Average(rates)
         IN /\ m # <<>> /\ m[1].n = Len(rates)
            /\ 2 * m[1].p10 <= m[1].median2 /\ m[1].median2 <= 2 * m[1].p90
<1> DEFINE n == Len(rates)  middle == n \div 2 + 1
           low == IF n % 2 = 0 THEN n \div 2 ELSE middle
           At10 == (n * 10 + 99) \div 100  At90 == (n * 90 + 99) \div 100
           p == IF At10 < 1 THEN 1 ELSE At10  q == IF At90 < 1 THEN 1 ELSE At90
<1>1. n \in Nat \ {0}
  BY LenProperties
<1>2. p \in 1..n /\ low \in 1..n /\ middle \in 1..n /\ q \in 1..n
  BY <1>1
<1>3. p <= low /\ low <= middle /\ middle <= q
  BY <1>1
<1>4. /\ Percentile(rates, 10) = Sorted(rates, p) /\ Percentile(rates, 90) = Sorted(rates, q)
  BY DEF Percentile
<1> DEFINE a == Sorted(rates, p)  b == Sorted(rates, low)  c == Sorted(rates, middle)
           d == Sorted(rates, q)
<1>5. a \in Nat /\ b \in Nat /\ c \in Nat /\ d \in Nat
  BY <1>2, SortedFact
<1>6. a <= b /\ b <= c /\ c <= d
  BY <1>2, <1>3, SortedFact
<1>7. Average(rates) = <<[n |-> n, p10 |-> a, p90 |-> d, median2 |-> c + b]>>
  BY <1>1, <1>4 DEF Average
<1> HIDE DEF a, b, c, d
<1>8. Average(rates) # <<>> /\ Average(rates)[1] = [n |-> n, p10 |-> a, p90 |-> d, median2 |-> c + b]
  BY <1>7
<1>9. 2 * a <= c + b /\ c + b <= 2 * d
  BY <1>5, <1>6
<1>. QED
  BY <1>8, <1>9

-----------------------------------------------------------------------------
(* The rows of a bandwidth test.                                           *)

Bearings == {"download", "upload", "both"}
Task == [round : Nat, turn : {1, 2}, down : Seq(Rates), up : Seq(Rates), failed : BOOLEAN]
Measurer == [status : {"none", "running", "ended"}, direction : Bearings, todo : SUBSET Ips,
             tasks : UNION {[W -> Task] : W \in SUBSET Ips}]
Outcome == {Measured(a, t) : a \in Ips, t \in Task}
Sent == speedResults \o speedChannel

\* what a task has measured in the direction of turn p, warm-up left out: the
\* transfers of the rounds before its own, and that of its own if it is over
Due(task, p) == IF task.round = 0 THEN 0 ELSE IF p < task.turn THEN task.round ELSE task.round - 1
Holds(task, rates, way) ==
  IF way \notin Range(Ways(direction)) THEN rates = <<>>
  ELSE \A p \in DOMAIN Ways(direction) : Ways(direction)[p] = way =>
         Len(rates) <= Due(task, p) /\ (~task.failed => Len(rates) = Due(task, p))
TaskOK(task) ==
  /\ task.turn <= Len(Ways(direction))
  /\ task.round <= Repeats \/ (task.round = Repeats + 1 /\ task.turn = 1)
  /\ Holds(task, task.down, "down") /\ Holds(task, task.up, "up")

RowOK(row) ==
  row.ip \in asked /\ Covers(row.download, "down", row) /\ Covers(row.upload, "up", row)
RowsOK(rows) ==
  /\ \A i \in 1..Len(rows) : RowOK(rows[i])
  /\ \A i, j \in 1..Len(rows) : rows[i].ip = rows[j].ip => i = j
Addresses(rows) == {rows[i].ip : i \in 1..Len(rows)}

SpeedTypes ==
  /\ listed = Ips /\ good \subseteq Ips /\ asked \subseteq Ips /\ direction \in Bearings
  /\ speed \in Measurer /\ speedResults \in Seq(Outcome) /\ speedChannel \in Seq(Outcome)

\* a dialog lies over the form, and no start, thread or row is left over, unless
\* a relaunch has come between
SpeedIdle ==
  ~speedTaken =>
    /\ ~pendingSpeed /\ (confirming => screen = "speed select")
    /\ screen \notin {"speed testing", "gone"} => speed.status = "none" /\ speedChannel = <<>>

SelectOK ==
  ~speedTaken /\ screen = "speed select" =>
    speedTargets = listed /\ speedSelected \subseteq good /\ (confirming => speedSelected # {})

\* every address asked for waits, is at work or has its row
MeasureOK ==
  ~speedTaken /\ screen = "speed testing" =>
    /\ asked # {} /\ asked \subseteq good /\ RowsOK(Sent)
    /\ speed.status = "running" =>
         /\ speed.direction = direction
         /\ speed.todo \cup Working \cup Addresses(Sent) = asked
         /\ speed.todo \cap Working = {} /\ (speed.todo \cup Working) \cap Addresses(Sent) = {}
         /\ \A a \in Working : TaskOK(speed.tasks[a])
    /\ speed.status = "ended" /\ ~stopped => Addresses(Sent) = asked

MeasuredOK ==
  ~speedTaken /\ screen = "speed results" =>
    /\ asked # {} /\ asked \subseteq good /\ RowsOK(speedResults)
    /\ ~stopped => Addresses(speedResults) = asked

QInv == SpeedTypes /\ SpeedIdle /\ SelectOK /\ MeasureOK /\ MeasuredOK

-----------------------------------------------------------------------------
(* The measuring of one address.                                           *)

LEMMA RepeatsFact == Repeats \in Nat \ {0}
BY SpeedAssumption DEF Repeats

\* the turns of a round are the directions asked for, each of them once
LEMMA WaysFact ==
  ASSUME NEW d \in Bearings
  PROVE  /\ Len(Ways(d)) \in {1, 2} /\ DOMAIN Ways(d) = 1..Len(Ways(d))
         /\ \A p, q \in DOMAIN Ways(d) : Ways(d)[p] = Ways(d)[q] => p = q
         /\ \A way : way \in Range(Ways(d)) <=> \E p \in DOMAIN Ways(d) : Ways(d)[p] = way
<1>1. d = "both" \/ d = "download" \/ d = "upload"
  BY DEF Bearings
<1>2. CASE d = "both"
  <2>1. Ways(d) = <<"down", "up">>
    BY <1>2 DEF Ways
  <2>. QED
    BY <2>1 DEF Range
<1>3. CASE d = "download"
  <2>1. Ways(d) = <<"down">>
    BY <1>3 DEF Ways
  <2>. QED
    BY <2>1 DEF Range
<1>4. CASE d = "upload"
  <2>1. Ways(d) = <<"up">>
    BY <1>4 DEF Ways
  <2>. QED
    BY <2>1 DEF Range
<1>. QED
  BY <1>1, <1>2, <1>3, <1>4

LEMMA MovedFact ==
  ASSUME NEW task \in Task, NEW rate \in Rates \cup {NoRate}, speed.direction \in Bearings
  PROVE  LET n == Len(Ways(speed.direction))
             m == Moved(task, rate)
         IN /\ m \in Task
            /\ m.round = (IF task.turn < n THEN task.round ELSE task.round + 1)
            /\ m.turn = (IF task.turn < n THEN task.turn + 1 ELSE 1)
            /\ m.down = Kept(task, "down", rate) /\ m.up = Kept(task, "up", rate)
            /\ m.failed = (task.failed \/ rate = NoRate)
<1> DEFINE n == Len(Ways(speed.direction))  m == Moved(task, rate)  a == Advanced(task)
<1>1. n \in {1, 2}
  BY WaysFact
<1>2. /\ task.round \in Nat /\ task.turn \in {1, 2} /\ task.down \in Seq(Rates)
      /\ task.up \in Seq(Rates) /\ task.failed \in BOOLEAN
  BY DEF Task
<1>3. /\ Kept(task, "down", rate) \in Seq(Rates) /\ Kept(task, "up", rate) \in Seq(Rates)
  <2>1. Counts(task, rate) => rate \in Rates
    BY DEF Counts
  <2>. QED
    BY <1>2, <2>1, AppendProperties DEF Kept
<1>4. /\ a \in Task /\ a.failed = task.failed
      /\ a.round = (IF task.turn < n THEN task.round ELSE task.round + 1)
      /\ a.turn = (IF task.turn < n THEN task.turn + 1 ELSE 1)
  <2>1. CASE task.turn < n
    <3>1. a = [task EXCEPT !.turn = @ + 1]
      BY <2>1 DEF Advanced
    <3>2. task.turn + 1 \in {1, 2}
      <4>. HIDE DEF n
      <4>. QED
        BY <1>1, <1>2, <2>1
    <3>. QED
      BY <1>2, <2>1, <3>1, <3>2 DEF Task
  <2>2. CASE ~(task.turn < n)
    <3>1. a = [task EXCEPT !.turn = 1, !.round = @ + 1] /\ task.round + 1 \in Nat
      BY <1>2, <2>2 DEF Advanced
    <3>. QED
      BY <1>2, <2>2, <3>1 DEF Task
  <2>. QED
    BY <2>1, <2>2
<1>5. m = [a EXCEPT !.down = Kept(task, "down", rate), !.up = Kept(task, "up", rate),
                    !.failed = @ \/ rate = NoRate]
  BY DEF Moved
<1> HIDE DEF a
<1>6. m \in Task /\ m.round = a.round /\ m.turn = a.turn
  <2>1. (a.failed \/ rate = NoRate) \in BOOLEAN
    BY <1>2, <1>4
  <2>. QED
    BY <1>3, <1>4, <1>5, <2>1 DEF Task
<1>7. m.down = Kept(task, "down", rate) /\ m.up = Kept(task, "up", rate)
  BY <1>4, <1>5 DEF Task
<1>8. m.failed = (task.failed \/ rate = NoRate)
  BY <1>4, <1>5 DEF Task
<1>. QED
  BY <1>4, <1>6, <1>7, <1>8

\* a transfer of the turn at hand is kept in its direction, and no other
LEMMA HoldsStep ==
  ASSUME NEW task \in Task, NEW rate \in Rates \cup {NoRate}, NEW way \in {"down", "up"},
         direction \in Bearings, speed.direction = direction,
         task.turn <= Len(Ways(direction)), Holds(task, task[way], way)
  PROVE  Holds(Moved(task, rate), Kept(task, way, rate), way)
<1> DEFINE n == Len(Ways(direction))  m == Moved(task, rate)  kept == Kept(task, way, rate)
           old == task[way]
<1>1. /\ n \in {1, 2} /\ DOMAIN Ways(direction) = 1..n
      /\ \A p, q \in 1..n : Ways(direction)[p] = Ways(direction)[q] => p = q
      /\ way \in Range(Ways(direction)) <=> \E p \in 1..n : Ways(direction)[p] = way
  BY WaysFact
<1>2. /\ task.round \in Nat /\ task.turn \in 1..n /\ task.failed \in BOOLEAN
      /\ old \in Seq(Rates) /\ Len(old) \in Nat
  <2>1. old \in Seq(Rates)
    BY DEF Task
  <2>. QED
    BY <1>1, <2>1, LenProperties DEF Task
<1>3. /\ m.round = (IF task.turn < n THEN task.round ELSE task.round + 1)
      /\ m.turn = (IF task.turn < n THEN task.turn + 1 ELSE 1)
      /\ m.failed = (task.failed \/ rate = NoRate)
  BY MovedFact
<1>4. kept = IF Counts(task, rate) /\ Ways(direction)[task.turn] = way THEN Append(old, rate) ELSE old
  BY DEF Kept
<1> HIDE DEF m, kept, n, old
<1>5. CASE way \notin Range(Ways(direction))
  <2>1. Ways(direction)[task.turn] # way
    BY <1>1, <1>2, <1>5
  <2>2. kept = old /\ old = <<>>
    BY <1>4, <1>5, <2>1 DEF Holds, old
  <2>. QED
    BY <1>5, <2>2 DEF Holds, m, kept
<1>6. CASE way \in Range(Ways(direction))
  <2> SUFFICES ASSUME NEW p \in 1..n, Ways(direction)[p] = way
               PROVE  Len(kept) <= Due(m, p) /\ (~m.failed => Len(kept) = Due(m, p))
    BY <1>1, <1>6 DEF Holds, m, kept, n
  <2>1. Len(old) <= Due(task, p) /\ (~task.failed => Len(old) = Due(task, p))
    BY <1>1, <1>6 DEF Holds, n, old
  <2>2. CASE task.turn = p
    <3>1. Due(m, p) = task.round
      BY <1>1, <1>2, <1>3, <2>2 DEF Due
    <3>2. Due(task, p) = IF task.round = 0 THEN 0 ELSE task.round - 1
      BY <1>2, <2>2 DEF Due
    <3>3. CASE Counts(task, rate)
      <4>1. kept = Append(old, rate) /\ task.round > 0 /\ rate \in Rates
        BY <1>4, <2>2, <3>3 DEF Counts
      <4>2. Len(kept) = Len(old) + 1
        BY <1>2, <4>1, AppendProperties
      <4>3. Due(task, p) + 1 = Due(m, p)
        BY <1>2, <3>1, <3>2, <4>1
      <4>4. ~m.failed => ~task.failed
        BY <1>2, <1>3
      <4>5. Due(task, p) \in Nat
        BY <1>2, <3>2
      <4>. QED
        BY <1>2, <2>1, <4>2, <4>3, <4>4, <4>5
    <3>4. CASE ~Counts(task, rate)
      <4>1. kept = old /\ (rate = NoRate \/ task.round = 0)
        BY <1>2, <1>4, <3>4 DEF Counts
      <4>2. Due(task, p) <= Due(m, p) /\ (task.round = 0 => Due(task, p) = Due(m, p))
        BY <1>2, <3>1, <3>2
      <4>3. ~m.failed => ~task.failed /\ task.round = 0
        BY <1>2, <1>3, <4>1
      <4>4. Due(task, p) \in Nat /\ Due(m, p) \in Nat
        BY <1>2, <3>1, <3>2
      <4>. QED
        BY <1>2, <2>1, <4>1, <4>2, <4>3, <4>4
    <3>. QED
      BY <3>3, <3>4
  <2>3. CASE task.turn # p
    <3>1. Ways(direction)[task.turn] # way
      BY <1>1, <1>2, <2>3
    <3>2. kept = old
      BY <1>4, <3>1
    <3>3. Due(m, p) = Due(task, p)
      BY <1>1, <1>2, <1>3, <2>3 DEF Due
    <3>4. ~m.failed => ~task.failed
      BY <1>2, <1>3
    <3>. QED
      BY <2>1, <3>2, <3>3, <3>4
  <2>. QED
    BY <2>2, <2>3
<1>. QED
  BY <1>5, <1>6

LEMMA TransferTask ==
  ASSUME NEW task \in Task, NEW rate \in Rates \cup {NoRate}, direction \in Bearings,
         speed.direction = direction, TaskOK(task), ~Ready(task)
  PROVE  TaskOK(Moved(task, rate))
<1> DEFINE n == Len(Ways(direction))  m == Moved(task, rate)
<1>1. n \in {1, 2} /\ Repeats \in Nat \ {0} /\ task.round \in Nat /\ task.turn \in {1, 2}
  BY WaysFact, RepeatsFact DEF Task
<1>2. /\ m.round = (IF task.turn < n THEN task.round ELSE task.round + 1)
      /\ m.turn = (IF task.turn < n THEN task.turn + 1 ELSE 1)
      /\ m.down = Kept(task, "down", rate) /\ m.up = Kept(task, "up", rate)
  BY MovedFact
<1>3. task.turn <= n /\ task.round <= Repeats
  BY <1>1 DEF TaskOK, Ready
<1>4. Holds(task, task.down, "down") /\ Holds(task, task.up, "up")
  BY DEF TaskOK
<1>5. Holds(m, m.down, "down")
  BY <1>2, <1>3, <1>4, HoldsStep
<1>6. Holds(m, m.up, "up")
  BY <1>2, <1>3, <1>4, HoldsStep
<1> HIDE DEF m
<1>7. m.turn <= n /\ (m.round <= Repeats \/ (m.round = Repeats + 1 /\ m.turn = 1))
  BY <1>1, <1>2, <1>3
<1>. QED
  BY <1>5, <1>6, <1>7 DEF TaskOK, m

LEMMA NewTaskFact ==
  ASSUME direction \in Bearings
  PROVE  NewTask \in Task /\ TaskOK(NewTask)
<1>1. /\ NewTask \in Task /\ NewTask.round = 0 /\ NewTask.turn = 1
      /\ NewTask.down = <<>> /\ NewTask.up = <<>>
  BY DEF NewTask, Task
<1>2. \A way : Holds(NewTask, <<>>, way)
  BY <1>1, EmptySeq DEF Holds, Due
<1>3. 1 <= Len(Ways(direction)) /\ 0 <= Repeats
  BY WaysFact, RepeatsFact
<1>. QED
  BY <1>1, <1>2, <1>3 DEF TaskOK

\* the row of an address that is done says what was asked
LEMMA DoneCovers ==
  ASSUME NEW task \in Task, NEW a \in Ips, direction \in Bearings, TaskOK(task), Ready(task)
  PROVE  LET row == Measured(a, task)
         IN row.ip = a /\ Covers(row.download, "down", row) /\ Covers(row.upload, "up", row)
<1> DEFINE row == Measured(a, task)
<1>1. row = [ip |-> a, download |-> Average(task.down), upload |-> Average(task.up), failed |-> task.failed]
  BY DEF Measured
<1>2. /\ row.ip = a /\ row.download = Average(task.down) /\ row.upload = Average(task.up)
      /\ row.failed = task.failed
  BY <1>1
<1>3. Repeats \in Nat \ {0} /\ task.round \in Nat /\ task.turn \in {1, 2}
  BY RepeatsFact DEF Task
<1>4. task.round = Repeats + 1 /\ task.turn = 1
  BY <1>3 DEF TaskOK, Ready
<1> HIDE DEF row
<1>5. ASSUME NEW way, NEW rates \in Seq(Rates), Holds(task, rates, way)
      PROVE  Covers(Average(rates), way, row)
  <2>1. Len(rates) \in Nat /\ rates \in Seq(Nat)
    <3>1. rates \in [1..Len(rates) -> Nat] /\ Len(rates) \in Nat
      BY LenProperties, SpeedAssumption
    <3>. QED
      BY <3>1, IsASeq
  <2>2. Len(rates) = 0 => Average(rates) = <<>>
    BY DEF Average
  <2>3. CASE way \notin Range(Ways(direction))
    <3>1. rates = <<>>
      BY <1>5, <2>3 DEF Holds
    <3>2. Len(rates) = 0
      BY <3>1, EmptySeq
    <3>. QED
      BY <2>2, <2>3, <3>2 DEF Covers
  <2>4. CASE way \in Range(Ways(direction))
    <3>1. PICK p \in DOMAIN Ways(direction) : Ways(direction)[p] = way
      BY <2>4, WaysFact
    <3>2. Len(rates) <= Due(task, p) /\ (~task.failed => Len(rates) = Due(task, p))
      BY <1>5, <2>4, <3>1 DEF Holds
    <3>3. p \in Nat /\ ~(p < 1)
      BY WaysFact, <3>1
    <3>4. Due(task, p) = Repeats
      BY <1>3, <1>4, <3>3 DEF Due
    <3>5. CASE Len(rates) = 0
      BY <1>2, <1>3, <2>2, <2>4, <3>2, <3>4, <3>5 DEF Covers
    <3>6. CASE Len(rates) # 0
      <4>1. LET m == Average(rates)
            IN /\ m # <<>> /\ m[1].n = Len(rates)
               /\ 2 * m[1].p10 <= m[1].median2 /\ m[1].median2 <= 2 * m[1].p90
        BY <2>1, <3>6, AverageFact
      <4>2. Average(rates)[1].n <= Repeats /\ (Average(rates)[1].n < Repeats => row.failed)
        BY <1>2, <1>3, <2>1, <3>2, <3>4, <4>1
      <4>. QED
        BY <2>4, <4>1, <4>2 DEF Covers
    <3>. QED
      BY <3>5, <3>6
  <2>. QED
    BY <2>3, <2>4
<1>6. /\ task.down \in Seq(Rates) /\ task.up \in Seq(Rates)
      /\ Holds(task, task.down, "down") /\ Holds(task, task.up, "up")
  BY DEF TaskOK, Task
<1>7. Covers(row.download, "down", row) /\ Covers(row.upload, "up", row)
  BY <1>2, <1>5, <1>6
<1>. QED
  BY <1>2, <1>7 DEF row

-----------------------------------------------------------------------------
(* The thread of a bandwidth test.                                         *)

LEMMA MeasurerFact ==
  ASSUME speed \in Measurer
  PROVE  /\ Working \subseteq Ips /\ speed.tasks \in [Working -> Task] /\ speed.todo \subseteq Ips
         /\ speed.direction \in Bearings /\ speed.status \in {"none", "running", "ended"}
<1>1. PICK W \in SUBSET Ips : speed.tasks \in [W -> Task]
  BY DEF Measurer
<1>2. Working = W
  BY <1>1 DEF Working
<1>. QED
  BY <1>1, <1>2 DEF Measurer

LEMMA NoSpeedFact ==
  /\ NoSpeed \in Measurer /\ NoSpeed.status = "none" /\ NoSpeed.todo = {}
  /\ DOMAIN NoSpeed.tasks = {}
<1> DEFINE t == <<>>
<1>1. t \in [{} -> Task] /\ DOMAIN t = {}
  <2>1. <<>> \in Seq(Task) /\ Len(<<>>) = 0
    BY EmptySeq
  <2>2. <<>> \in [1..0 -> Task] /\ 1..0 = {}
    BY <2>1, LenProperties
  <2>. QED
    BY <2>2
<1>2. NoSpeed = [status |-> "none", direction |-> "both", todo |-> {}, tasks |-> t]
  BY DEF NoSpeed
<1> HIDE DEF t
<1>3. \E W \in SUBSET Ips : t \in [W -> Task]
  BY <1>1
<1>4. t \in UNION {[W -> Task] : W \in SUBSET Ips}
  BY <1>3
<1>. QED
  BY <1>1, <1>2, <1>4 DEF Measurer, Bearings

LEMMA RowsAdded ==
  ASSUME NEW rows \in Seq(Outcome), NEW row \in Outcome, RowsOK(rows), RowOK(row),
         row.ip \notin Addresses(rows)
  PROVE  /\ RowsOK(Append(rows, row))
         /\ Addresses(Append(rows, row)) = Addresses(rows) \cup {row.ip}
<1> DEFINE n == Len(rows)  more == Append(rows, row)
<1>1. /\ n \in Nat /\ Len(more) = n + 1 /\ more[n + 1] = row
      /\ \A i \in 1..n : more[i] = rows[i]
  BY LenProperties, AppendProperties
<1>2. \A i \in 1..Len(more) : i \in 1..n \/ i = n + 1
  BY <1>1
<1>3. \A i \in 1..n : rows[i].ip \in Addresses(rows)
  BY DEF Addresses
<1>4. \A i \in 1..Len(more) : RowOK(more[i])
  BY <1>1, <1>2 DEF RowsOK
<1>5. ASSUME NEW i \in 1..Len(more), NEW j \in 1..Len(more), more[i].ip = more[j].ip PROVE i = j
  <2>1. CASE i \in 1..n /\ j \in 1..n
    BY <1>1, <1>5, <2>1 DEF RowsOK
  <2>2. CASE i \in 1..n /\ j = n + 1
    BY <1>1, <1>3, <1>5, <2>2
  <2>3. CASE j \in 1..n /\ i = n + 1
    BY <1>1, <1>3, <1>5, <2>3
  <2>. QED
    BY <1>2, <2>1, <2>2, <2>3
<1>6. Addresses(more) = Addresses(rows) \cup {row.ip}
  <2>1. ASSUME NEW a \in Addresses(more) PROVE a \in Addresses(rows) \cup {row.ip}
    <3>1. PICK i \in 1..Len(more) : a = more[i].ip
      BY DEF Addresses
    <3>. QED
      BY <1>1, <1>2, <1>3, <3>1
  <2>2. ASSUME NEW a \in Addresses(rows) PROVE a \in Addresses(more)
    <3>1. PICK i \in 1..n : a = rows[i].ip
      BY DEF Addresses
    <3>2. i \in 1..Len(more) /\ more[i] = rows[i]
      BY <1>1
    <3>. QED
      BY <3>1, <3>2 DEF Addresses
  <2>3. row.ip \in Addresses(more)
    <3>1. n + 1 \in 1..Len(more) /\ more[n + 1] = row
      BY <1>1
    <3>. QED
      BY <3>1 DEF Addresses
  <2>. QED
    BY <2>1, <2>2, <2>3
<1>. QED
  BY <1>4, <1>5, <1>6 DEF RowsOK

\* a step of the thread is seen on the screen of its test only
LEMMA ThreadFrame ==
  ASSUME QInv, Measuring, speed' \in Measurer, speedChannel' \in Seq(Outcome), MeasureOK',
         UNCHANGED <<screen, table, speedForm, dialog, speedResults, stopped, asked, speedTaken>>
  PROVE  QInv'
<1> USE DEF table, speedForm, dialog
<1>1. SpeedTypes'
  BY DEF QInv, SpeedTypes
<1>2. ~speedTaken => screen \in {"speed testing", "gone"}
  BY DEF QInv, SpeedIdle, Measuring
<1>3. SpeedIdle' /\ SelectOK'
  BY <1>2 DEF QInv, SpeedIdle, SelectOK
<1>4. MeasuredOK'
  BY <1>2 DEF MeasuredOK
<1>. QED
  BY <1>1, <1>3, <1>4 DEF QInv

\* what the thread has sent is judged by the test it was started for
LEMMA RowsStill ==
  ASSUME UNCHANGED <<asked, direction, speedResults, speedChannel>>
  PROVE  /\ Sent' = Sent /\ Addresses(Sent)' = Addresses(Sent)
         /\ RowsOK(Sent) => RowsOK(Sent)'
         /\ RowsOK(speedResults) => RowsOK(speedResults)'
BY DEF Sent, Addresses, RowsOK, RowOK, Covers

LEMMA EndedThread ==
  ASSUME QInv, Measuring, stopped \/ (speed.todo = {} /\ Working = {}),
         speed' = [NoSpeed EXCEPT !.status = "ended"],
         UNCHANGED <<screen, table, speedForm, dialog, speedResults, speedChannel, stopped, asked,
                     speedTaken>>
  PROVE  QInv'
<1>1. speed' \in Measurer /\ speed'.status = "ended"
  BY NoSpeedFact DEF Measurer
<1>2. speedChannel' \in Seq(Outcome)
  BY DEF QInv, SpeedTypes
<1>3. MeasureOK'
  <2> SUFFICES ASSUME ~speedTaken, screen = "speed testing"
               PROVE  /\ asked # {} /\ asked \subseteq good /\ RowsOK(Sent)'
                      /\ ~stopped => Addresses(Sent)' = asked
    BY <1>1 DEF MeasureOK, table
  <2>1. /\ asked # {} /\ asked \subseteq good /\ RowsOK(Sent)
        /\ speed.todo \cup Working \cup Addresses(Sent) = asked
    BY DEF QInv, MeasureOK, Measuring
  <2>. QED
    BY <2>1, RowsStill DEF speedForm
<1>. QED
  BY <1>1, <1>2, <1>3, ThreadFrame

LEMMA SpawnSpeed == QInv /\ (\E a \in Ips : Spawn(a)) /\ UNCHANGED screen => QInv'
<1> SUFFICES ASSUME QInv, NEW a \in Ips, Spawn(a), UNCHANGED screen PROVE QInv'
  OBVIOUS
<1> DEFINE tasks == [b \in Working \cup {a} |-> IF b = a THEN NewTask ELSE speed.tasks[b]]
<1>1. /\ Measuring /\ a \in speed.todo
      /\ speed' = [speed EXCEPT !.todo = @ \ {a}, !.tasks = tasks]
      /\ UNCHANGED <<table, speedForm, dialog, speedResults, speedChannel, stopped, asked, speedTaken>>
  BY DEF Spawn, speedRun
<1>2. /\ speed \in Measurer /\ Working \subseteq Ips /\ speed.tasks \in [Working -> Task]
      /\ speed.todo \subseteq Ips /\ direction \in Bearings
  BY MeasurerFact DEF QInv, SpeedTypes
<1>3. tasks \in [Working \cup {a} -> Task]
  BY <1>2, NewTaskFact
<1>4. /\ speed' \in Measurer /\ speed'.tasks = tasks /\ speed'.todo = speed.todo \ {a}
      /\ speed'.status = speed.status /\ speed'.direction = speed.direction
  <2>1. tasks \in UNION {[W -> Task] : W \in SUBSET Ips}
    BY <1>2, <1>3
  <2>. HIDE DEF tasks
  <2>. QED
    BY <1>1, <1>2, <2>1 DEF Measurer
<1>5. Working' = Working \cup {a}
  BY <1>3, <1>4 DEF Working
<1>6. speedChannel' \in Seq(Outcome)
  BY <1>1 DEF QInv, SpeedTypes
<1>7. MeasureOK'
  <2> SUFFICES ASSUME ~speedTaken, screen = "speed testing"
               PROVE  /\ asked # {} /\ asked \subseteq good /\ RowsOK(Sent)'
                      /\ speed.direction = direction
                      /\ speed'.todo \cup Working' \cup Addresses(Sent)' = asked
                      /\ speed'.todo \cap Working' = {}
                      /\ (speed'.todo \cup Working') \cap Addresses(Sent)' = {}
                      /\ \A b \in Working' : TaskOK(speed.tasks[b])'
    BY <1>1, <1>4 DEF MeasureOK, Measuring, table, speedForm
  <2>1. /\ asked # {} /\ asked \subseteq good /\ RowsOK(Sent)
        /\ speed.direction = direction
        /\ speed.todo \cup Working \cup Addresses(Sent) = asked
        /\ speed.todo \cap Working = {} /\ (speed.todo \cup Working) \cap Addresses(Sent) = {}
        /\ \A b \in Working : TaskOK(speed.tasks[b])
    BY <1>1 DEF QInv, MeasureOK, Measuring
  <2>2. RowsOK(Sent)' /\ Addresses(Sent)' = Addresses(Sent)
    BY <1>1, <2>1, RowsStill DEF speedForm
  <2>3. ASSUME NEW b \in Working' PROVE TaskOK(speed.tasks[b])'
    <3>1. direction' = direction
      BY <1>1 DEF speedForm
    <3>2. speed'.tasks[b] = IF b = a THEN NewTask ELSE speed.tasks[b]
      BY <1>4, <1>5
    <3>3. TaskOK(speed'.tasks[b])
      BY <1>2, <1>5, <2>1, <3>2, NewTaskFact
    <3>. QED
      BY <3>1, <3>3 DEF TaskOK, Holds
  <2>. QED
    BY <1>1, <1>4, <1>5, <2>1, <2>2, <2>3
<1>. QED
  BY <1>1, <1>4, <1>6, <1>7, ThreadFrame

LEMMA TransferSpeed == QInv /\ (\E a \in Ips : Transfer(a)) /\ UNCHANGED screen => QInv'
<1> SUFFICES ASSUME QInv, NEW a \in Ips, Transfer(a), UNCHANGED screen PROVE QInv'
  OBVIOUS
<1>1. /\ Measuring /\ a \in Working /\ ~Ready(speed.tasks[a])
      /\ UNCHANGED <<table, speedForm, dialog, speedResults, speedChannel, stopped, asked, speedTaken>>
  BY DEF Transfer, speedRun
<1>2. PICK rate \in Rates \cup {NoRate} : speed' = [speed EXCEPT !.tasks[a] = Moved(@, rate)]
  BY DEF Transfer
<1>3. /\ speed \in Measurer /\ Working \subseteq Ips /\ speed.tasks \in [Working -> Task]
      /\ speed.todo \subseteq Ips /\ direction \in Bearings /\ speed.direction \in Bearings
  BY MeasurerFact DEF QInv, SpeedTypes
<1> DEFINE tasks == [speed.tasks EXCEPT ![a] = Moved(@, rate)]
<1>4. speed.tasks[a] \in Task /\ Moved(speed.tasks[a], rate) \in Task
  BY <1>1, <1>3, MovedFact
<1>5. /\ tasks \in [Working -> Task]
      /\ \A b \in Working : tasks[b] = IF b = a THEN Moved(speed.tasks[a], rate) ELSE speed.tasks[b]
  BY <1>1, <1>3, <1>4
<1>6. speed' = [speed EXCEPT !.tasks = tasks]
  BY <1>2, <1>3 DEF Measurer
<1> HIDE DEF tasks
<1>7. /\ speed' \in Measurer /\ speed'.tasks = tasks /\ speed'.todo = speed.todo
      /\ speed'.status = speed.status /\ speed'.direction = speed.direction
  <2>1. tasks \in UNION {[W -> Task] : W \in SUBSET Ips}
    BY <1>3, <1>5
  <2>. QED
    BY <1>3, <1>6, <2>1 DEF Measurer
<1>8. Working' = Working
  BY <1>5, <1>7 DEF Working
<1>9. speedChannel' \in Seq(Outcome)
  BY <1>1 DEF QInv, SpeedTypes
<1>10. MeasureOK'
  <2> SUFFICES ASSUME ~speedTaken, screen = "speed testing"
               PROVE  /\ asked # {} /\ asked \subseteq good /\ RowsOK(Sent)'
                      /\ speed.direction = direction
                      /\ speed.todo \cup Working \cup Addresses(Sent)' = asked
                      /\ speed.todo \cap Working = {}
                      /\ (speed.todo \cup Working) \cap Addresses(Sent)' = {}
                      /\ \A b \in Working : TaskOK(speed.tasks[b])'
    BY <1>1, <1>7, <1>8 DEF MeasureOK, Measuring, table, speedForm
  <2>1. /\ asked # {} /\ asked \subseteq good /\ RowsOK(Sent)
        /\ speed.direction = direction
        /\ speed.todo \cup Working \cup Addresses(Sent) = asked
        /\ speed.todo \cap Working = {} /\ (speed.todo \cup Working) \cap Addresses(Sent) = {}
        /\ \A b \in Working : TaskOK(speed.tasks[b])
    BY <1>1 DEF QInv, MeasureOK, Measuring
  <2>2. RowsOK(Sent)' /\ Addresses(Sent)' = Addresses(Sent)
    BY <1>1, <2>1, RowsStill DEF speedForm
  <2>3. ASSUME NEW b \in Working PROVE TaskOK(speed.tasks[b])'
    <3>1. direction' = direction
      BY <1>1 DEF speedForm
    <3>2. TaskOK(Moved(speed.tasks[a], rate))
      BY <1>1, <1>3, <1>4, <2>1, TransferTask
    <3>3. TaskOK(speed'.tasks[b])
      BY <1>5, <1>7, <2>1, <3>2
    <3>. QED
      BY <3>1, <3>3 DEF TaskOK, Holds
  <2>. QED
    BY <2>1, <2>2, <2>3
<1>. QED
  BY <1>1, <1>7, <1>9, <1>10, ThreadFrame

LEMMA CollectSpeed == QInv /\ (\E a \in Ips : Collect(a)) /\ UNCHANGED screen => QInv'
<1> SUFFICES ASSUME QInv, NEW a \in Ips, Collect(a), UNCHANGED screen PROVE QInv'
  OBVIOUS
<1> DEFINE tasks == [b \in Working \ {a} |-> speed.tasks[b]]
           row == Measured(a, speed.tasks[a])
<1>1. /\ Measuring /\ a \in Working /\ Ready(speed.tasks[a])
      /\ speedChannel' = Append(speedChannel, row)
      /\ speed' = [speed EXCEPT !.tasks = tasks]
      /\ UNCHANGED <<table, speedForm, dialog, speedResults, stopped, asked, speedTaken>>
  BY DEF Collect, speedRun
<1>2. /\ speed \in Measurer /\ Working \subseteq Ips /\ speed.tasks \in [Working -> Task]
      /\ speed.todo \subseteq Ips /\ direction \in Bearings
      /\ speedResults \in Seq(Outcome) /\ speedChannel \in Seq(Outcome)
  BY MeasurerFact DEF QInv, SpeedTypes
<1>3. tasks \in [Working \ {a} -> Task] /\ \A b \in Working \ {a} : tasks[b] = speed.tasks[b]
  BY <1>2
<1> HIDE DEF tasks
<1>4. /\ speed' \in Measurer /\ speed'.tasks = tasks /\ speed'.todo = speed.todo
      /\ speed'.status = speed.status /\ speed'.direction = speed.direction
  <2>1. tasks \in UNION {[W -> Task] : W \in SUBSET Ips}
    BY <1>2, <1>3
  <2>. QED
    BY <1>1, <1>2, <2>1 DEF Measurer
<1>5. Working' = Working \ {a}
  BY <1>3, <1>4 DEF Working
<1>6. speed.tasks[a] \in Task /\ row \in Outcome
  BY <1>1, <1>2 DEF Outcome
<1>7. /\ speedChannel' \in Seq(Outcome) /\ Sent \in Seq(Outcome)
      /\ Sent' = Append(Sent, row)
  BY <1>1, <1>2, <1>6, AppendProperties, ConcatProperties, AddedFact DEF Sent
<1>8. MeasureOK'
  <2> SUFFICES ASSUME ~speedTaken, screen = "speed testing"
               PROVE  /\ asked # {} /\ asked \subseteq good /\ RowsOK(Sent)'
                      /\ speed.direction = direction
                      /\ speed.todo \cup Working' \cup Addresses(Sent)' = asked
                      /\ speed.todo \cap Working' = {}
                      /\ (speed.todo \cup Working') \cap Addresses(Sent)' = {}
                      /\ \A b \in Working' : TaskOK(speed.tasks[b])'
    BY <1>1, <1>4 DEF MeasureOK, Measuring, table, speedForm
  <2>1. /\ asked # {} /\ asked \subseteq good /\ RowsOK(Sent)
        /\ speed.direction = direction
        /\ speed.todo \cup Working \cup Addresses(Sent) = asked
        /\ speed.todo \cap Working = {} /\ (speed.todo \cup Working) \cap Addresses(Sent) = {}
        /\ \A b \in Working : TaskOK(speed.tasks[b])
    BY <1>1 DEF QInv, MeasureOK, Measuring
  <2>2. direction' = direction /\ asked' = asked
    BY <1>1 DEF speedForm
  <2>3. row.ip = a /\ RowOK(row)
    <3>1. TaskOK(speed.tasks[a]) /\ a \in asked
      BY <1>1, <2>1
    <3>2. row.ip = a /\ Covers(row.download, "down", row) /\ Covers(row.upload, "up", row)
      BY <1>1, <1>2, <1>6, <3>1, DoneCovers
    <3>. QED
      BY <3>1, <3>2 DEF RowOK
  <2>4. RowsOK(Append(Sent, row)) /\ Addresses(Append(Sent, row)) = Addresses(Sent) \cup {a}
    <3>1. row.ip \notin Addresses(Sent)
      BY <1>1, <2>1, <2>3
    <3>. HIDE DEF row
    <3>. QED
      BY <1>6, <1>7, <2>1, <2>3, <3>1, RowsAdded
  <2>5. RowsOK(Sent)' /\ Addresses(Sent)' = Addresses(Sent) \cup {a}
    <3>. HIDE DEF row
    <3>. QED
      BY <1>7, <2>2, <2>4 DEF RowsOK, RowOK, Covers, Addresses
  <2>6. ASSUME NEW b \in Working' PROVE TaskOK(speed.tasks[b])'
    <3>1. TaskOK(speed'.tasks[b])
      BY <1>3, <1>4, <1>5, <2>1
    <3>. QED
      BY <2>2, <3>1 DEF TaskOK, Holds
  <2>. QED
    BY <1>1, <1>5, <2>1, <2>5, <2>6
<1>. QED
  BY <1>1, <1>4, <1>7, <1>8, ThreadFrame

LEMMA ThreadSpeed == QInv /\ SpeedThreadStep => QInv'
<1> SUFFICES ASSUME QInv, SpeedThreadStep PROVE QInv'
  OBVIOUS
<1>1. UNCHANGED screen
  BY DEF SpeedThreadStep
<1>2. CASE EndSpeed
  BY <1>1, <1>2, EndedThread DEF EndSpeed, speedRun
<1>3. CASE AbortAll
  BY <1>1, <1>3, EndedThread DEF AbortAll, Aborts, speedRun
<1>. QED
  BY <1>1, <1>2, <1>3, SpawnSpeed, TransferSpeed, CollectSpeed DEF SpeedThreadStep

-----------------------------------------------------------------------------
(* The loop and the keys of a bandwidth test.                              *)

\* a step that moves no row in or out and starts or ends nothing
LEMMA MeasureStill ==
  ASSUME MeasureOK, Sent' = Sent, UNCHANGED <<good, asked, direction, speed, speedTaken>>,
         screen' = screen, stopped => stopped'
  PROVE  MeasureOK'
<1> SUFFICES ASSUME ~speedTaken, screen = "speed testing"
             PROVE  /\ asked # {} /\ asked \subseteq good /\ RowsOK(Sent)'
                    /\ speed.status = "running" =>
                         /\ speed.direction = direction
                         /\ speed.todo \cup Working \cup Addresses(Sent)' = asked
                         /\ speed.todo \cap Working = {}
                         /\ (speed.todo \cup Working) \cap Addresses(Sent)' = {}
                         /\ \A a \in Working : TaskOK(speed.tasks[a])'
                    /\ speed.status = "ended" /\ ~stopped => Addresses(Sent)' = asked
  BY DEF MeasureOK, Working
<1>1. /\ asked # {} /\ asked \subseteq good /\ RowsOK(Sent)
      /\ speed.status = "running" =>
           /\ speed.direction = direction
           /\ speed.todo \cup Working \cup Addresses(Sent) = asked
           /\ speed.todo \cap Working = {} /\ (speed.todo \cup Working) \cap Addresses(Sent) = {}
           /\ \A a \in Working : TaskOK(speed.tasks[a])
      /\ speed.status = "ended" /\ ~stopped => Addresses(Sent) = asked
  BY DEF MeasureOK
<1>2. RowsOK(Sent)' /\ Addresses(Sent)' = Addresses(Sent)
  <2>1. Addresses(Sent)' = Addresses(Sent)
    BY DEF Addresses
  <2>2. \A row : RowOK(row) => RowOK(row)'
    BY DEF RowOK, Covers
  <2>3. RowsOK(Sent)'
    BY <1>1, <2>2 DEF RowsOK
  <2>. QED
    BY <2>1, <2>3
<1>3. ASSUME NEW a \in Working, TaskOK(speed.tasks[a]) PROVE TaskOK(speed.tasks[a])'
  BY <1>3 DEF TaskOK, Holds
<1>. QED
  BY <1>1, <1>2, <1>3

LEMMA ReceiveSpeedRow == QInv /\ ReceiveSpeed => QInv'
<1> SUFFICES ASSUME QInv, ReceiveSpeed PROVE QInv'
  OBVIOUS
<1> USE DEF table, speedForm, dialog, speedRun
<1>1. /\ screen # "gone" /\ speedChannel # <<>>
      /\ speedResults' = Append(speedResults, speedChannel[1]) /\ speedChannel' = Tail(speedChannel)
      /\ UNCHANGED <<screen, table, speedForm, dialog, speedRun, speed, asked, speedTaken>>
  BY DEF ReceiveSpeed
<1>2. speedResults \in Seq(Outcome) /\ speedChannel \in Seq(Outcome)
  BY DEF QInv, SpeedTypes
<1>3. speedResults' \in Seq(Outcome) /\ speedChannel' \in Seq(Outcome) /\ Sent' = Sent
  BY <1>1, <1>2, MoveFact DEF Sent
<1>4. SpeedTypes'
  BY <1>1, <1>3 DEF QInv, SpeedTypes
<1>5. speedTaken \/ screen = "speed testing"
  BY <1>1 DEF QInv, SpeedIdle
<1>6. SpeedIdle' /\ SelectOK' /\ MeasuredOK'
  BY <1>1, <1>5 DEF QInv, SpeedIdle, SelectOK, MeasuredOK
<1>7. MeasureOK'
  BY <1>1, <1>3, MeasureStill DEF QInv
<1>. QED
  BY <1>4, <1>6, <1>7 DEF QInv

LEMMA JoinSpeedThread == QInv /\ JoinSpeed => QInv'
<1> SUFFICES ASSUME QInv, JoinSpeed PROVE QInv'
  OBVIOUS
<1> USE DEF table, speedForm, dialog
<1>1. /\ screen = "speed testing" /\ speed.status = "ended"
      /\ speedResults' = Sent /\ speedChannel' = <<>> /\ speed' = NoSpeed
      /\ screen' \in {"gone", "speed results"}
      /\ UNCHANGED <<table, speedForm, dialog, stopped, asked, speedTaken>>
  BY DEF JoinSpeed, Sent
<1>2. SpeedTypes'
  <2>1. speedResults' \in Seq(Outcome) /\ speedChannel' \in Seq(Outcome)
    BY <1>1, ConcatProperties, EmptySeq DEF QInv, SpeedTypes, Sent
  <2>. QED
    BY <1>1, <2>1, NoSpeedFact DEF QInv, SpeedTypes
<1>3. SpeedIdle'
  BY <1>1, NoSpeedFact DEF QInv, SpeedIdle
<1>4. SelectOK' /\ MeasureOK'
  BY <1>1 DEF SelectOK, MeasureOK
<1>5. MeasuredOK'
  <2> SUFFICES ASSUME ~speedTaken
               PROVE  /\ asked # {} /\ asked \subseteq good /\ RowsOK(speedResults)'
                      /\ ~stopped => Addresses(speedResults)' = asked
    BY <1>1 DEF MeasuredOK
  <2>1. /\ asked # {} /\ asked \subseteq good /\ RowsOK(Sent) /\ (~stopped => Addresses(Sent) = asked)
    BY <1>1 DEF QInv, MeasureOK
  <2>2. RowsOK(speedResults)'
    BY <1>1, <2>1 DEF RowsOK, RowOK, Covers
  <2>3. Addresses(speedResults)' = Addresses(Sent)
    BY <1>1 DEF Addresses
  <2>. QED
    BY <1>1, <2>1, <2>2, <2>3
<1>. QED
  BY <1>2, <1>3, <1>4, <1>5 DEF QInv

\* the form: what is chosen there has answered the scan
LEMMA FormFrame ==
  ASSUME QInv, UNCHANGED <<screen, table, speedTargets, pendingSpeed, speedResults, stopped, speed,
                           speedChannel, asked, speedTaken>>,
         direction' \in Bearings, direction' = direction \/ screen = "speed select",
         screen = "speed select" => speedSelected' \subseteq good \/ speedSelected' = speedSelected,
         confirming' => (confirming /\ speedSelected' = speedSelected)
                          \/ (screen = "speed select" /\ speedSelected' # {})
  PROVE  QInv'
<1> USE DEF table
<1>1. SpeedTypes'
  BY DEF QInv, SpeedTypes
<1>2. SpeedIdle' /\ SelectOK'
  BY DEF QInv, SpeedIdle, SelectOK
<1>3. MeasureOK'
  <2>1. screen # "speed testing" => MeasureOK'
    BY DEF MeasureOK
  <2>2. direction' = direction => MeasureOK'
    BY MeasureStill DEF QInv, Sent
  <2>. QED
    BY <2>1, <2>2
<1>4. MeasuredOK'
  <2>1. screen # "speed results" => MeasuredOK'
    BY DEF MeasuredOK
  <2>2. direction' = direction => MeasuredOK'
    BY DEF QInv, MeasuredOK, RowsOK, RowOK, Covers, Addresses
  <2>. QED
    BY <2>1, <2>2
<1>. QED
  BY <1>1, <1>2, <1>3, <1>4 DEF QInv

\* a step to or on a screen without a bandwidth test
LEMMA AwayFrame ==
  ASSUME QInv, UNCHANGED <<table, speedTargets, speedSelected, direction, pendingSpeed, speedResults,
                           speedChannel, asked, confirming>>,
         speed' \in Measurer, screen' \notin {"speed select", "speed testing", "speed results"},
         ~speedTaken' => ~speedTaken /\ ~confirming,
         ~speedTaken' /\ screen' # "gone" => screen \notin {"speed testing", "gone"} /\ speed' = speed
  PROVE  QInv'
<1> USE DEF table
<1>1. SpeedTypes'
  BY DEF QInv, SpeedTypes
<1>2. SpeedIdle'
  BY DEF QInv, SpeedIdle
<1>. QED
  BY <1>1, <1>2 DEF QInv, SelectOK, MeasureOK, MeasuredOK

LEMMA FormSpeed ==
  QInv /\ ((\E a \in Ips : ToggleSpeed(a)) \/ SelectAll \/ AskSpeed \/ Decline
            \/ (\E d \in Directions : Direct(d))) => QInv'
<1> SUFFICES ASSUME QInv, (\E a \in Ips : ToggleSpeed(a)) \/ SelectAll \/ AskSpeed \/ Decline
                          \/ (\E d \in Directions : Direct(d))
             PROVE  QInv'
  OBVIOUS
<1> USE DEF table, speedForm, dialog, speedRun, speedThread
<1>1. direction \in Bearings
  BY DEF QInv, SpeedTypes
<1>2. ASSUME NEW a \in Ips, ToggleSpeed(a) PROVE QInv'
  <2>1. /\ screen = "speed select" /\ ~confirming /\ a \in good
        /\ speedSelected' = IF a \in speedSelected THEN speedSelected \ {a} ELSE speedSelected \cup {a}
        /\ UNCHANGED <<screen, table, speedTargets, direction, pendingSpeed, confirming, speedResults,
                       stopped, speed, speedChannel, asked, speedTaken>>
    BY <1>2 DEF ToggleSpeed, Selects, Selectable
  <2>2. CASE speedTaken
    <3>1. SpeedTypes' /\ SpeedIdle' /\ SelectOK' /\ MeasureOK' /\ MeasuredOK'
      BY <2>1, <2>2 DEF QInv, SpeedTypes, SpeedIdle, SelectOK, MeasureOK, MeasuredOK
    <3>. QED
      BY <3>1 DEF QInv
  <2>3. CASE ~speedTaken
    <3>1. speedSelected' \subseteq good
      BY <2>1, <2>3 DEF QInv, SelectOK
    <3>. QED
      BY <1>1, <2>1, <3>1, FormFrame
  <2>. QED
    BY <2>2, <2>3
<1>3. CASE SelectAll
  BY <1>1, <1>3, FormFrame DEF SelectAll, Selects
<1>4. CASE AskSpeed
  BY <1>1, <1>4, FormFrame DEF AskSpeed, Selects
<1>5. CASE Decline
  BY <1>1, <1>5, FormFrame DEF Decline
<1>6. ASSUME NEW d \in Directions, Direct(d) PROVE QInv'
  <2>1. d \in Bearings
    BY SpeedAssumption DEF Bearings
  <2>. QED
    BY <1>6, <2>1, FormFrame DEF Direct, Selects
<1>. QED
  BY <1>2, <1>3, <1>4, <1>5, <1>6

LEMMA EmptyFact == Len(<<>>) = 0 /\ 1..0 = {}
<1>1. \A S : <<>> \in Seq(S)
  BY EmptySeq
<1>. QED
  BY <1>1, EmptySeq

LEMMA FrontFact == \A k, m \in Nat : \A i \in 1..k : i \in 1..(k + m) /\ i <= k
OBVIOUS

\* the start: the addresses asked for are those selected, all of them
LEMMA StartSpeedFact ==
  ASSUME QInv, NEW pending, NEW on, NEW targets, NEW selected, NEW way \in Bearings,
         StartSpeed(pending, on, targets, selected, way), direction' = way,
         UNCHANGED <<table, stopped, speedChannel, speedTaken>>, ~confirming',
         speedTests' = speedTests => speedResults' \in Seq(Outcome),
         speedTests' # speedTests => speedResults' = <<>>,
         speedTests \in Nat,
         ~speedTaken => /\ on = "speed select" /\ speed.status = "none" /\ speedChannel = <<>>
                        /\ IF pending THEN selected \subseteq good /\ selected # {} /\ targets = listed
                           ELSE speedTargets' = listed /\ speedSelected' \subseteq good
  PROVE  QInv'
<1> USE DEF table
<1> DEFINE begins == pending /\ on = "speed select" /\ speed.status = "none"
<1>1. CASE begins
  <2>1. /\ speedTests' = speedTests + 1 /\ ~pendingSpeed' /\ asked' = targets \cap selected \cap listed
        /\ speed' = [NoSpeed EXCEPT !.status = "running", !.direction = way, !.todo = asked']
        /\ screen' = "speed testing" /\ speedResults' = <<>>
    BY <1>1 DEF StartSpeed
  <2>2. asked' \subseteq Ips
    BY <2>1 DEF QInv, SpeedTypes
  <2>3. /\ speed' \in Measurer /\ speed'.status = "running" /\ speed'.direction = way
        /\ speed'.todo = asked' /\ Working' = {}
    <3>1. /\ speed' \in Measurer /\ speed'.status = "running" /\ speed'.direction = way
          /\ speed'.todo = asked' /\ speed'.tasks = NoSpeed.tasks
      BY <2>1, <2>2, NoSpeedFact DEF Measurer
    <3>. QED
      BY <3>1, NoSpeedFact DEF Working
  <2>4. SpeedTypes'
    <3>1. speedResults' \in Seq(Outcome)
      BY <2>1, EmptySeq
    <3>. QED
      BY <2>2, <2>3, <3>1 DEF QInv, SpeedTypes
  <2>5. MeasureOK'
    <3> SUFFICES ASSUME ~speedTaken PROVE MeasureOK'
      BY DEF MeasureOK
    <3>1. asked' = selected /\ asked' # {} /\ asked' \subseteq good
      BY <1>1, <2>1 DEF QInv, SpeedTypes
    <3>2. Len(Sent') = 0 /\ 1..Len(Sent') = {}
      <4>1. speedResults' = <<>> /\ speedChannel' = <<>>
        BY <2>1
      <4>2. Sent' = <<>>
        <5>1. <<>> \in Seq(Outcome) /\ <<>> \o <<>> = <<>>
          BY ConcatEmptySeq, EmptySeq
        <5>. QED
          BY <4>1, <5>1 DEF Sent
      <4>. QED
        BY <4>2, EmptyFact
    <3>3. Addresses(Sent)' = {} /\ RowsOK(Sent)'
      BY <3>2 DEF Addresses, RowsOK
    <3>. QED
      BY <2>3, <3>1, <3>3 DEF MeasureOK
  <2>. QED
    BY <2>1, <2>4, <2>5 DEF QInv, SpeedIdle, SelectOK, MeasuredOK
<1>2. CASE ~begins
  <2>1. pendingSpeed' = pending /\ screen' = on /\ UNCHANGED <<speed, speedTests, asked>>
    BY <1>2 DEF StartSpeed
  <2>2. SpeedTypes'
    BY <2>1 DEF QInv, SpeedTypes
  <2>3. ~speedTaken => ~pending
    BY <1>2
  <2>. QED
    BY <2>1, <2>2, <2>3 DEF QInv, SpeedIdle, SelectOK, MeasureOK, MeasuredOK
<1>. QED
  BY <1>1, <1>2

LEMMA OpenSpeedForm == QInv /\ speedTests \in Nat /\ (OpenSpeed \/ Confirm) => QInv'
<1> SUFFICES ASSUME QInv, speedTests \in Nat, OpenSpeed \/ Confirm PROVE QInv'
  OBVIOUS
<1>1. direction \in Bearings /\ "both" \in Bearings
  BY DEF QInv, SpeedTypes, Bearings
<1>2. CASE OpenSpeed
  <2>1. /\ screen = "scanning" /\ ~confirming /\ ~confirming'
        /\ speedTargets' = listed /\ speedSelected' = {} /\ direction' = "both" /\ speedResults' = <<>>
        /\ StartSpeed(pendingSpeed, "speed select", listed, {}, "both")
        /\ UNCHANGED <<table, stopped, speedChannel, speedTaken>>
    BY <1>2 DEF OpenSpeed
  <2>2. ~speedTaken => ~pendingSpeed /\ speed.status = "none" /\ speedChannel = <<>>
    BY <2>1 DEF QInv, SpeedIdle
  <2>3. speedResults' \in Seq(Outcome)
    BY <2>1, EmptySeq
  <2>. QED
    BY <1>1, <2>1, <2>2, <2>3, StartSpeedFact
<1>3. CASE Confirm
  <2>1. /\ confirming /\ ~confirming'
        /\ StartSpeed(TRUE, screen, speedTargets, speedSelected, direction)
        /\ IF speedTests' = speedTests THEN UNCHANGED speedResults ELSE speedResults' = <<>>
        /\ UNCHANGED <<table, speedForm, stopped, speedChannel, speedTaken>>
    BY <1>3 DEF Confirm
  <2>2. ~speedTaken => /\ screen = "speed select" /\ speed.status = "none" /\ speedChannel = <<>>
                       /\ speedSelected \subseteq good /\ speedSelected # {} /\ speedTargets = listed
    BY <2>1 DEF QInv, SpeedIdle, SelectOK
  <2>3. speedTests' = speedTests => speedResults' \in Seq(Outcome)
    BY <2>1 DEF QInv, SpeedTypes
  <2>4. direction' = direction
    BY <2>1 DEF speedForm
  <2>. QED
    BY <1>1, <2>1, <2>2, <2>3, <2>4, StartSpeedFact
<1>. QED
  BY <1>2, <1>3

LEMMA AwaySpeed == QInv /\ (BackSpeed \/ CancelSpeed) => QInv'
<1> SUFFICES ASSUME QInv, BackSpeed \/ CancelSpeed PROVE QInv'
  OBVIOUS
<1> USE DEF table, speedForm, dialog, speedRun, speedThread
<1>1. speed \in Measurer
  BY DEF QInv, SpeedTypes
<1>2. CASE BackSpeed
  BY <1>1, <1>2, AwayFrame DEF BackSpeed
<1>3. CASE CancelSpeed /\ lifecycle = "running"
  <2>1. /\ screen = "speed testing" /\ stopped' /\ UNCHANGED screen
        /\ UNCHANGED <<table, speedForm, dialog, speedResults, speedThread, speedTaken>>
    BY <1>3 DEF CancelSpeed
  <2>2. SpeedTypes' /\ SpeedIdle' /\ SelectOK' /\ MeasuredOK'
    BY <2>1 DEF QInv, SpeedTypes, SpeedIdle, SelectOK, MeasuredOK
  <2>3. MeasureOK'
    BY <2>1, MeasureStill DEF QInv, Sent
  <2>. QED
    BY <2>2, <2>3 DEF QInv
<1>4. CASE CancelSpeed /\ lifecycle # "running"
  BY <1>1, <1>4, AwayFrame DEF CancelSpeed
<1>. QED
  BY <1>2, <1>3, <1>4

LEMMA StillSpeed ==
  ASSUME QInv, UNCHANGED <<screen, speedTest>>
  PROVE  QInv'
<1> USE DEF table, speedForm, dialog, speedRun, speedThread, speedTest
<1>1. direction \in Bearings
  BY DEF QInv, SpeedTypes
<1>. QED
  BY <1>1, FormFrame

\* the fragment tester keeps off the screens of the other
LEMMA FragmentScreenFact ==
  ASSUME FInv, presets # <<>>, FragmentStep
  PROVE  screen = "gone" => screen' = "gone"
<1>1. CASE TryNext \/ Abort \/ Send \/ Check \/ Receive \/ Join \/ Back \/ Esc \/ PressStart
  BY <1>1 DEF TryNext, Abort, Send, Check, Receive, Join, Back, Esc, PressStart
<1>2. CASE \E a \in Ips : OpenAuto(a) \/ EditIp(a)
  BY <1>2 DEF OpenAuto, EditIp
<1>3. CASE \E a \in Ips \cup {NoIp} : OpenSelect(a)
  BY <1>3 DEF OpenSelect
<1>4. CASE \E p \in All : Toggle(p)
  BY <1>4 DEF Toggle
<1>. QED
  BY <1>1, <1>2, <1>3, <1>4 DEF FragmentStep

LEMMA InitSpeed == TestersInit => QInv /\ speedTests \in Nat
<1> SUFFICES ASSUME TestersInit PROVE QInv /\ speedTests \in Nat
  OBVIOUS
<1>1. /\ screen = "scanning" /\ listed = Ips /\ good \in SUBSET listed /\ direction = "both"
      /\ ~confirming /\ ~pendingSpeed /\ speedResults = <<>> /\ speed = NoSpeed
      /\ speedChannel = <<>> /\ speedTests = 0 /\ asked = {}
  BY DEF TestersInit, SpeedInit
<1>2. SpeedTypes
  BY <1>1, NoSpeedFact, EmptySeq DEF SpeedTypes, Bearings
<1>. QED
  BY <1>1, <1>2, NoSpeedFact DEF QInv, SpeedIdle, SelectOK, MeasureOK, MeasuredOK

LEMMA CountSpeed == speedTests \in Nat /\ [TestersNext]_testersVars => speedTests' \in Nat
<1> SUFFICES ASSUME speedTests \in Nat, [TestersNext]_testersVars PROVE speedTests' \in Nat
  OBVIOUS
<1> USE DEF speedTest, speedThread
<1>1. CASE SpeedStep
  <2>1. ASSUME NEW p, NEW on, NEW t, NEW s, NEW w, StartSpeed(p, on, t, s, w)
        PROVE  speedTests' \in Nat
    <3>1. speedTests' = speedTests + 1 \/ speedTests' = speedTests
      BY <2>1, Zenon DEF StartSpeed
    <3>. QED
      BY <3>1
  <2>2. CASE OpenSpeed
    BY <2>1, <2>2 DEF OpenSpeed
  <2>3. CASE Confirm
    BY <2>1, <2>3 DEF Confirm
  <2>4. CASE SpeedThreadStep
    BY <2>4 DEF SpeedThreadStep, Spawn, Transfer, Collect, EndSpeed, AbortAll
  <2>5. CASE ReceiveSpeed \/ JoinSpeed \/ SelectAll \/ AskSpeed \/ Decline \/ BackSpeed \/ CancelSpeed
    BY <2>5 DEF ReceiveSpeed, JoinSpeed, SelectAll, AskSpeed, Decline, BackSpeed, CancelSpeed
  <2>6. CASE \E a \in Ips : ToggleSpeed(a)
    BY <2>6 DEF ToggleSpeed
  <2>7. CASE \E d \in Directions : Direct(d)
    BY <2>7 DEF Direct
  <2>. QED
    BY <1>1, <2>2, <2>3, <2>4, <2>5, <2>6, <2>7 DEF SpeedStep
<1>2. CASE Fragment \/ Quit \/ Relaunch \/ LeaveSpeed \/ Leave \/ UNCHANGED testersVars
  BY <1>2 DEF Fragment, Quit, Relaunch, LeaveSpeed, Leave, testersVars
<1>. QED
  BY <1>1, <1>2 DEF TestersNext, Speed

LEMMA NextSpeed ==
  FInv /\ FInv' /\ QInv /\ speedTests \in Nat /\ [TestersNext]_testersVars => QInv'
<1> SUFFICES ASSUME FInv, FInv', QInv, speedTests \in Nat, [TestersNext]_testersVars PROVE QInv'
  OBVIOUS
<1>1. speed \in Measurer
  BY DEF QInv, SpeedTypes
<1>2. CASE Fragment
  <2>1. FragmentStep /\ presets # <<>> /\ UNCHANGED <<speedTest, presets>>
    BY <1>2 DEF Fragment, FragmentStep, TryNext, Abort, Send, Check, Receive, Join, OpenAuto, EditIp,
                OpenSelect, Toggle, PressStart, Back, Esc
  <2>2. /\ screen \in {"scanning", "gone", "select", "testing", "results"}
        /\ screen' \in {"scanning", "gone", "select", "testing", "results"}
    BY <2>1 DEF FInv, SessionOK
  <2>3. screen = "gone" => screen' = "gone"
    BY <2>1, FragmentScreenFact
  <2>4. ~speedTaken => ~confirming
    BY <2>2 DEF QInv, SpeedIdle
  <2>. QED
    BY <1>1, <2>1, <2>2, <2>3, <2>4, AwayFrame DEF speedTest, speedForm, dialog, speedThread
<1>3. CASE Speed
  <2>1. SpeedStep
    BY <1>3 DEF Speed
  <2>. QED
    BY <2>1, ThreadSpeed, ReceiveSpeedRow, JoinSpeedThread, OpenSpeedForm, FormSpeed, AwaySpeed
    DEF SpeedStep
<1>4. CASE Quit
  <2>1. /\ ~confirming /\ screen \notin {"gone", "speed testing"} /\ UNCHANGED speedTest
        /\ IF screen = "testing" THEN UNCHANGED screen ELSE screen' = "gone"
    BY <1>4 DEF Quit
  <2>. QED
    BY <1>1, <2>1, AwayFrame DEF speedTest, speedForm, dialog, speedThread
<1>5. CASE Relaunch
  <2>1. /\ screen # "gone" /\ screen' = "scanning"
        /\ speedTaken' = (speedTaken \/ screen = "speed testing" \/ confirming)
        /\ UNCHANGED <<table, speedForm, dialog, speedResults, speedRun, speedThread>>
    BY <1>5 DEF Relaunch
  <2>2. ~speedTaken' => ~speedTaken /\ screen # "speed testing" /\ ~confirming
    BY <2>1
  <2>. QED
    BY <1>1, <2>1, <2>2, AwayFrame DEF speedForm, dialog, speedThread
<1>6. CASE LeaveSpeed
  <2>1. /\ screen = "gone" /\ (speed' = NoSpeed \/ speed' = speed)
        /\ UNCHANGED <<screen, table, speedForm, dialog, speedResults, speedChannel, asked, speedTaken>>
    BY <1>6 DEF LeaveSpeed
  <2>2. speed' \in Measurer
    BY <1>1, <2>1, NoSpeedFact
  <2>3. ~speedTaken => ~confirming
    BY <2>1 DEF QInv, SpeedIdle
  <2>. QED
    BY <2>1, <2>2, <2>3, AwayFrame DEF speedForm, dialog
<1>7. CASE Leave
  BY <1>7, StillSpeed DEF Leave
<1>8. CASE UNCHANGED testersVars
  BY <1>8, StillSpeed DEF testersVars
<1>. QED
  BY <1>2, <1>3, <1>4, <1>5, <1>6, <1>7, <1>8 DEF TestersNext

LEMMA SpeedImplies == QInv => SpeedRows
<1> SUFFICES ASSUME QInv, screen \in {"speed testing", "speed results"}, ~speedTaken
             PROVE  /\ asked # {} /\ asked \subseteq good
                    /\ \A i \in DOMAIN speedResults :
                         /\ RowOK(speedResults[i])
                         /\ \A j \in DOMAIN speedResults :
                              speedResults[i].ip = speedResults[j].ip => i = j
                    /\ screen = "speed results" /\ ~stopped =>
                         asked = {speedResults[i].ip : i \in DOMAIN speedResults}
  BY DEF SpeedRows, RowOK
<1>1. /\ speedResults \in Seq(Outcome) /\ speedChannel \in Seq(Outcome)
      /\ DOMAIN speedResults = 1..Len(speedResults) /\ Len(speedResults) \in Nat
  BY LenProperties DEF QInv, SpeedTypes
<1>2. CASE screen = "speed results"
  BY <1>1, <1>2 DEF QInv, MeasuredOK, RowsOK, Addresses
<1>3. CASE screen = "speed testing"
  <2>1. asked # {} /\ asked \subseteq good /\ RowsOK(Sent)
    BY <1>3 DEF QInv, MeasureOK
  <2>2. Len(speedChannel) \in Nat /\ Len(Sent) = Len(speedResults) + Len(speedChannel)
    BY <1>1, LenProperties, ConcatProperties DEF Sent
  <2>3. \A i \in 1..Len(speedResults) : i \in 1..Len(Sent) /\ Sent[i] = speedResults[i]
    <3>1. \A i \in 1..(Len(speedResults) + Len(speedChannel)) :
            Sent[i] = IF i <= Len(speedResults) THEN speedResults[i]
                      ELSE speedChannel[i - Len(speedResults)]
      BY <1>1, ConcatProperties DEF Sent
    <3>2. ASSUME NEW i \in 1..Len(speedResults)
          PROVE  i \in 1..Len(Sent) /\ Sent[i] = speedResults[i]
      <4>1. i \in 1..(Len(speedResults) + Len(speedChannel)) /\ i <= Len(speedResults)
        BY <1>1, <2>2, FrontFact
      <4>. QED
        BY <2>2, <3>1, <4>1
    <3>. QED
      BY <3>2
  <2>. QED
    BY <1>1, <1>3, <2>1, <2>3 DEF RowsOK
<1>. QED
  BY <1>2, <1>3

\* The rows of a bandwidth test are those of the addresses it was asked for,
\* one each, all of them unless it was cancelled, none of an address that
\* every probe failed on, each with as many measurements as were asked for
\* or an error - however the transfers of the addresses overlap, whatever keys
\* come meanwhile, and whatever the configuration asks for.
THEOREM SpeedRowsHolds == TestersSpec => []SpeedRows
<1>1. TestersInit => FInv /\ QInv /\ speedTests \in Nat
  BY InitFragment, InitSpeed
<1>2. FInv /\ QInv /\ speedTests \in Nat /\ [TestersNext]_testersVars
        => (FInv /\ QInv /\ speedTests \in Nat)'
  BY NextFragment, NextSpeed, CountSpeed
<1>3. QInv => SpeedRows
  BY SpeedImplies
<1>. QED
  BY <1>1, <1>2, <1>3, PTL DEF TestersSpec

-----------------------------------------------------------------------------
(* Reading what a connection sends.  A reader knows how many payload units *)
(* it has had, how many its record still owes, how many records have begun *)
(* and, where pauses matter, whether a unit has come since the last one.   *)

Unit == [kind : {"header", "byte", "pause"}, n : Nat]
Item == [bytes : Seq(Unit), delay : Nat]
Place == [k : Nat, left : Nat, h : Nat, o : BOOLEAN]
Mode == [cap : Nat, gap : BOOLEAN]

\* units of a record come in order; no header comes early, none without a pause
\* where the hello is at stake; and no unit of the hello in a record too many
StartsRecord(m, a, u, b) ==
  /\ u.kind = "header" /\ u.n > 0 /\ a.left = 0
  /\ m.gap /\ a.o => a.k > Hello \/ a.k >= Before(2)
  /\ b = [k |-> a.k, left |-> u.n, h |-> a.h + 1, o |-> m.gap]
FillsRecord(m, a, u, b) ==
  /\ u.kind = "byte" /\ u.n = a.k + 1 /\ a.left > 0
  /\ m.cap = 0 \/ a.k >= Hello \/ a.h <= m.cap
  /\ b = [k |-> a.k + 1, left |-> a.left - 1, h |-> a.h, o |-> m.gap]
Rests(a, u, b) ==
  u.kind = "pause" /\ b = [k |-> a.k, left |-> a.left, h |-> a.h, o |-> FALSE]
Reads(m, a, u, b) == StartsRecord(m, a, u, b) \/ FillsRecord(m, a, u, b) \/ Rests(a, u, b)

\* a walk from a to b along s
Chain(rel, s, a, b) ==
  \E f \in [0..Len(s) -> Place] :
    /\ f[0] = a /\ f[Len(s)] = b
    /\ \A i \in 1..Len(s) : <<f[i - 1], f[i]>> \in rel[s[i]]

Places(m) == {p \in Place : p.o => m.gap}
Readings(m) == [u \in Unit |-> {ab \in Places(m) \X Places(m) : Reads(m, ab[1], u, ab[2])}]
Leads(m, s, a, b) == Chain(Readings(m), s, a, b)

\* a piece, with the pause that comes before it
Leaving(x) == IF x.delay > 0 THEN <<Pause>> \o x.bytes ELSE x.bytes
Moves(m) == [x \in Item |-> {ab \in Places(m) \X Places(m) : Leads(m, Leaving(x), ab[1], ab[2])}]
ItemsLead(m, q, a, b) == Chain(Moves(m), q, a, b)

LEMMA ChainType ==
  ASSUME NEW rel, NEW S, NEW s \in Seq(S), NEW a, NEW b, Chain(rel, s, a, b)
  PROVE  a \in Place /\ b \in Place
<1>1. Len(s) \in Nat
  BY LenProperties
<1>2. PICK f \in [0..Len(s) -> Place] : f[0] = a /\ f[Len(s)] = b
  BY DEF Chain
<1>. QED
  BY <1>1, <1>2

LEMMA ChainNil ==
  ASSUME NEW rel, NEW a \in Place, NEW b
  PROVE  Chain(rel, <<>>, a, b) <=> a = b
<1>1. Len(<<>>) = 0
  BY EmptySeq
<1>2. ASSUME Chain(rel, <<>>, a, b) PROVE a = b
  BY <1>1, <1>2 DEF Chain
<1>3. ASSUME a = b PROVE Chain(rel, <<>>, a, b)
  <2> DEFINE f == [i \in 0..0 |-> a]
  <2>1. f \in [0..Len(<<>>) -> Place] /\ f[0] = a /\ f[Len(<<>>)] = b
    BY <1>1, <1>3
  <2>2. 1..Len(<<>>) = {}
    BY <1>1
  <2>. QED
    BY <2>1, <2>2 DEF Chain
<1>. QED
  BY <1>2, <1>3

LEMMA ChainOne ==
  ASSUME NEW rel, NEW x, NEW a \in Place, NEW b \in Place
  PROVE  Chain(rel, <<x>>, a, b) <=> <<a, b>> \in rel[x]
<1>1. Len(<<x>>) = 1 /\ <<x>>[1] = x
  OBVIOUS
<1>2. ASSUME Chain(rel, <<x>>, a, b) PROVE <<a, b>> \in rel[x]
  <2>1. PICK f \in [0..1 -> Place] : f[0] = a /\ f[1] = b /\ <<f[1 - 1], f[1]>> \in rel[<<x>>[1]]
    BY <1>1, <1>2 DEF Chain
  <2>. QED
    BY <1>1, <2>1
<1>3. ASSUME <<a, b>> \in rel[x] PROVE Chain(rel, <<x>>, a, b)
  <2> DEFINE f == [i \in 0..1 |-> IF i = 0 THEN a ELSE b]
  <2>1. f \in [0..Len(<<x>>) -> Place] /\ f[0] = a /\ f[Len(<<x>>)] = b
    BY <1>1
  <2>2. ASSUME NEW i \in 1..Len(<<x>>) PROVE <<f[i - 1], f[i]>> \in rel[<<x>>[i]]
    <3>1. i = 1 /\ i - 1 = 0
      BY <1>1
    <3>. QED
      BY <1>1, <1>3, <2>1, <3>1
  <2>. QED
    BY <2>1, <2>2 DEF Chain
<1>. QED
  BY <1>2, <1>3

LEMMA ChainConcat ==
  ASSUME NEW rel, NEW S, NEW s \in Seq(S), NEW t \in Seq(S), NEW a, NEW c
  PROVE  Chain(rel, s \o t, a, c) <=> \E b \in Place : Chain(rel, s, a, b) /\ Chain(rel, t, b, c)
<1> DEFINE m == Len(s)  n == Len(t)
<1>1. m \in Nat /\ n \in Nat
  BY LenProperties
<1>2. /\ Len(s \o t) = m + n
      /\ \A i \in 1..(m + n) : (s \o t)[i] = IF i <= m THEN s[i] ELSE t[i - m]
  BY ConcatProperties
<1>3. ASSUME Chain(rel, s \o t, a, c)
      PROVE  \E b \in Place : Chain(rel, s, a, b) /\ Chain(rel, t, b, c)
  <2>1. PICK f \in [0..(m + n) -> Place] :
          /\ f[0] = a /\ f[m + n] = c
          /\ \A i \in 1..(m + n) : <<f[i - 1], f[i]>> \in rel[(s \o t)[i]]
    BY <1>2, <1>3 DEF Chain
  <2> HIDE DEF m, n
  <2> DEFINE g == [i \in 0..m |-> f[i]]  h == [i \in 0..n |-> f[m + i]]
  <2>2. g \in [0..m -> Place] /\ h \in [0..n -> Place] /\ g[0] = a /\ g[m] = f[m]
        /\ h[0] = f[m] /\ h[n] = c /\ f[m] \in Place
    BY <1>1, <2>1
  <2>3. ASSUME NEW i \in 1..m PROVE <<g[i - 1], g[i]>> \in rel[s[i]]
    <3>1. i \in 1..(m + n) /\ i <= m /\ i - 1 \in 0..m /\ i \in 0..m
      BY <1>1
    <3>2. (s \o t)[i] = s[i] /\ g[i - 1] = f[i - 1] /\ g[i] = f[i]
      BY <1>2, <3>1
    <3>. QED
      BY <2>1, <3>1, <3>2
  <2>4. ASSUME NEW i \in 1..n PROVE <<h[i - 1], h[i]>> \in rel[t[i]]
    <3>1. /\ m + i \in 1..(m + n) /\ ~(m + i <= m) /\ i - 1 \in 0..n /\ i \in 0..n
          /\ (m + i) - m = i /\ (m + i) - 1 = m + (i - 1)
      BY <1>1
    <3>2. (s \o t)[m + i] = t[i] /\ h[i - 1] = f[(m + i) - 1] /\ h[i] = f[m + i]
      BY <1>2, <3>1
    <3>. QED
      BY <2>1, <3>1, <3>2
  <2>5. Chain(rel, s, a, f[m])
    BY <2>2, <2>3 DEF Chain, m
  <2>6. Chain(rel, t, f[m], c)
    BY <2>2, <2>4 DEF Chain, n
  <2>. QED
    BY <2>2, <2>5, <2>6
<1>4. ASSUME NEW b \in Place, Chain(rel, s, a, b), Chain(rel, t, b, c)
      PROVE  Chain(rel, s \o t, a, c)
  <2>1. PICK g \in [0..m -> Place] :
          g[0] = a /\ g[m] = b /\ \A i \in 1..m : <<g[i - 1], g[i]>> \in rel[s[i]]
    BY <1>4 DEF Chain
  <2>2. PICK h \in [0..n -> Place] :
          h[0] = b /\ h[n] = c /\ \A i \in 1..n : <<h[i - 1], h[i]>> \in rel[t[i]]
    BY <1>4 DEF Chain
  <2> HIDE DEF m, n
  <2> DEFINE f == [i \in 0..(m + n) |-> IF i <= m THEN g[i] ELSE h[i - m]]
  <2>3. f \in [0..(m + n) -> Place] /\ f[0] = a
    BY <1>1, <2>1, <2>2
  <2>4. f[m + n] = c
    <3>1. CASE n = 0
      BY <1>1, <2>1, <2>2, <3>1
    <3>2. CASE n > 0
      <4>1. ~(m + n <= m) /\ (m + n) - m = n /\ m + n \in 0..(m + n)
        BY <1>1, <3>2
      <4>. QED
        BY <2>2, <4>1
    <3>. QED
      BY <1>1, <3>1, <3>2
  <2>5. ASSUME NEW i \in 1..(m + n) PROVE <<f[i - 1], f[i]>> \in rel[(s \o t)[i]]
    <3>1. CASE i <= m
      <4>1. i \in 1..m /\ i - 1 <= m /\ i - 1 \in 0..(m + n) /\ i \in 0..(m + n)
        BY <1>1, <3>1
      <4>2. f[i - 1] = g[i - 1] /\ f[i] = g[i] /\ (s \o t)[i] = s[i]
        BY <1>2, <3>1, <4>1
      <4>. QED
        BY <2>1, <4>1, <4>2
    <3>2. CASE i > m
      <4>1. /\ i - m \in 1..n /\ ~(i <= m) /\ i - 1 \in 0..(m + n) /\ i \in 0..(m + n)
            /\ (i - m) - 1 = (i - 1) - m
        BY <1>1, <3>2
      <4>2. f[i] = h[i - m] /\ (s \o t)[i] = t[i - m]
        BY <1>2, <4>1
      <4>3. f[i - 1] = h[(i - m) - 1]
        <5>1. CASE i - 1 <= m
          <6>1. i - 1 = m /\ (i - m) - 1 = 0
            BY <1>1, <3>2, <5>1
          <6>. QED
            BY <2>1, <2>2, <4>1, <6>1
        <5>2. CASE ~(i - 1 <= m)
          BY <4>1, <5>2
        <5>. QED
          BY <5>1, <5>2
      <4>. QED
        BY <2>2, <4>1, <4>2, <4>3
    <3>3. i <= m \/ i > m
      BY <1>1
    <3>. QED
      BY <3>1, <3>2, <3>3
  <2>6. /\ f \in [0..Len(s \o t) -> Place] /\ f[0] = a /\ f[Len(s \o t)] = c
        /\ \A i \in 1..Len(s \o t) : <<f[i - 1], f[i]>> \in rel[(s \o t)[i]]
    BY <1>2, <2>3, <2>4, <2>5 DEF m, n
  <2>. QED
    BY <2>6 DEF Chain
<1>. QED
  BY <1>3, <1>4

LEMMA UnitFact ==
  /\ Pause \in Unit /\ \A n \in Nat : Header(n) \in Unit /\ Byte(n) \in Unit
  /\ \A n : Header(n).kind = "header" /\ Header(n).n = n /\ Byte(n).kind = "byte" /\ Byte(n).n = n
  /\ Pause.kind = "pause"
BY DEF Pause, Header, Byte, Unit

LEMMA SentType == \A x \in Item : Leaving(x) \in Seq(Unit)
<1> SUFFICES ASSUME NEW x \in Item PROVE Leaving(x) \in Seq(Unit)
  OBVIOUS
<1>1. x.bytes \in Seq(Unit) /\ <<Pause>> \in Seq(Unit)
  BY UnitFact DEF Item
<1>2. <<Pause>> \o x.bytes \in Seq(Unit)
  BY <1>1, ConcatProperties
<1>. QED
  BY <1>1, <1>2 DEF Leaving

LEMMA ReadingsFact ==
  ASSUME NEW m, NEW u \in Unit, NEW a, NEW b
  PROVE  <<a, b>> \in Readings(m)[u] <=> a \in Places(m) /\ b \in Places(m) /\ Reads(m, a, u, b)
BY DEF Readings

LEMMA MovesFact ==
  ASSUME NEW m, NEW x \in Item, NEW a, NEW b
  PROVE  <<a, b>> \in Moves(m)[x] <=> a \in Places(m) /\ b \in Places(m) /\ Leads(m, Leaving(x), a, b)
BY DEF Moves

\* what is read is not read again
LEMMA Onward ==
  ASSUME NEW m, NEW s \in Seq(Unit), NEW a, NEW b, Leads(m, s, a, b)
  PROVE  a \in Place /\ b \in Place /\ b.k >= a.k
<1>1. Len(s) \in Nat
  BY LenProperties
<1>2. PICK f \in [0..Len(s) -> Place] :
        f[0] = a /\ f[Len(s)] = b /\ \A i \in 1..Len(s) : <<f[i - 1], f[i]>> \in Readings(m)[s[i]]
  BY DEF Leads, Chain
<1>3. \A i \in 0..Len(s) : f[i] \in Place /\ f[i].k \in Nat
  BY <1>2 DEF Place
<1>4. a.k \in Nat
  BY <1>1, <1>2, <1>3
<1> DEFINE Bad == {i \in 0..Len(s) : f[i].k < a.k}
<1>5. CASE Bad = {}
  <2>1. Len(s) \in 0..Len(s) /\ ~(f[Len(s)].k < a.k)
    BY <1>1, <1>5
  <2>. QED
    BY <1>1, <1>2, <1>3, <1>4, <2>1
<1>6. CASE Bad # {}
  <2>0. Bad \in SUBSET Nat
    BY <1>1
  <2>1. PICK i \in Bad : \A j \in Bad : i <= j
    BY <1>6, <2>0, ForemostOf
  <2>2. i # 0
    BY <1>2, <1>4, <2>1
  <2>3. i - 1 \in 0..Len(s) /\ i - 1 \notin Bad /\ i \in 1..Len(s)
    BY <1>1, <2>1, <2>2
  <2>4. Reads(m, f[i - 1], s[i], f[i])
    BY <1>2, <2>3, ReadingsFact, ElementOfSeq
  <2>5. f[i].k >= f[i - 1].k
    <3>1. f[i - 1].k \in Nat
      BY <1>3, <2>3
    <3>2. f[i].k = f[i - 1].k \/ f[i].k = f[i - 1].k + 1
      BY <2>4 DEF Reads, StartsRecord, FillsRecord, Rests
    <3>. QED
      BY <3>1, <3>2
  <2>. QED
    BY <1>3, <1>4, <2>1, <2>3, <2>5
<1>. QED
  BY <1>5, <1>6

LEMMA SubFact ==
  ASSUME NEW S, NEW s \in Seq(S), NEW p \in 0..Len(s), NEW q \in 0..Len(s), p <= q
  PROVE  /\ SubSeq(s, p + 1, q) \in Seq(S) /\ Len(SubSeq(s, p + 1, q)) = q - p
         /\ \A i \in 1..(q - p) : SubSeq(s, p + 1, q)[i] = s[p + i]
<1> DEFINE t == SubSeq(s, p + 1, q)
<1>1. Len(s) \in Nat /\ p \in Nat /\ q \in Nat /\ q - p \in Nat
  BY LenProperties
<1>2. \A i \in (p + 1)..q : s[i] \in S
  BY <1>1, ElementOfSeq
<1>3. /\ t \in Seq(S) /\ Len(t) = IF p + 1 <= q THEN q - (p + 1) + 1 ELSE 0
      /\ \A i \in 1..(q - (p + 1) + 1) : t[i] = s[(p + 1) + i - 1]
  BY <1>1, <1>2, SubSeqProperties
<1>4. q - (p + 1) + 1 = q - p /\ (~(p + 1 <= q) => q - p = 0)
  BY <1>1
<1>5. \A i \in 1..(q - p) : (p + 1) + i - 1 = p + i
  BY <1>1
<1>. QED
  BY <1>3, <1>4, <1>5

\* a walk, part by part
LEMMA PartOfWalk ==
  ASSUME NEW rel, NEW S, NEW s \in Seq(S), NEW f \in [0..Len(s) -> Place],
         \A i \in 1..Len(s) : <<f[i - 1], f[i]>> \in rel[s[i]],
         NEW p \in 0..Len(s), NEW q \in 0..Len(s), p <= q
  PROVE  Chain(rel, SubSeq(s, p + 1, q), f[p], f[q])
<1> DEFINE n == q - p  t == SubSeq(s, p + 1, q)
<1>1. Len(s) \in Nat /\ p \in Nat /\ q \in Nat /\ n \in Nat
  BY LenProperties
<1>3. Len(t) = n /\ \A i \in 1..n : t[i] = s[p + i]
  BY SubFact
<1> DEFINE g == [i \in 0..n |-> f[p + i]]
<1> HIDE DEF n, t
<1>4. \A i \in 0..n : p + i \in 0..Len(s)
  BY <1>1 DEF n
<1>5. g \in [0..n -> Place] /\ g[0] = f[p] /\ g[n] = f[q]
  <2>1. p + 0 = p /\ p + n = q /\ 0 \in 0..n /\ n \in 0..n
    BY <1>1 DEF n
  <2>. QED
    BY <1>4, <2>1
<1>6. ASSUME NEW i \in 1..n PROVE <<g[i - 1], g[i]>> \in rel[t[i]]
  <2>1. i - 1 \in 0..n /\ i \in 0..n /\ p + i \in 1..Len(s) /\ p + (i - 1) = (p + i) - 1
    BY <1>1 DEF n
  <2>2. g[i - 1] = f[(p + i) - 1] /\ g[i] = f[p + i] /\ t[i] = s[p + i]
    BY <1>3, <2>1
  <2>. QED
    BY <2>1, <2>2
<1>7. Chain(rel, t, f[p], f[q])
  BY <1>3, <1>5, <1>6 DEF Chain
<1>. QED
  BY <1>7 DEF t

\* where pauses do not matter, neither do the delays of pieces
LEMMA SameMoves ==
  ASSUME NEW m \in Mode, ~m.gap, NEW x \in Item, NEW y \in Item, x.bytes = y.bytes
  PROVE  Moves(m)[x] = Moves(m)[y]
<1>1. ASSUME NEW z \in Item, NEW a \in Places(m), NEW b \in Places(m)
      PROVE  Leads(m, Leaving(z), a, b) <=> Leads(m, z.bytes, a, b)
  <2>1. CASE ~(z.delay > 0)
    BY <2>1 DEF Leaving
  <2>2. CASE z.delay > 0
    <3>1. z.bytes \in Seq(Unit) /\ <<Pause>> \in Seq(Unit) /\ Pause \in Unit
      BY UnitFact DEF Item
    <3>2. Leads(m, Leaving(z), a, b)
            <=> \E c \in Place : Leads(m, <<Pause>>, a, c) /\ Leads(m, z.bytes, c, b)
      BY <2>2, <3>1, ChainConcat DEF Leads, Leaving
    <3>3. ASSUME NEW c \in Place PROVE Leads(m, <<Pause>>, a, c) <=> c = a
      <4>1. Leads(m, <<Pause>>, a, c) <=> <<a, c>> \in Readings(m)[Pause]
        BY <3>1, ChainOne DEF Leads, Places
      <4>2. Reads(m, a, Pause, c) <=> c = [k |-> a.k, left |-> a.left, h |-> a.h, o |-> FALSE]
        BY UnitFact DEF Reads, StartsRecord, FillsRecord, Rests
      <4>3. a \in Place /\ a.o = FALSE
        BY DEF Places, Place
      <4>4. a = [k |-> a.k, left |-> a.left, h |-> a.h, o |-> FALSE]
        BY <4>3 DEF Place
      <4>5. Reads(m, a, Pause, c) <=> c = a
        BY <4>2, <4>4
      <4>. QED
        BY <3>1, <4>1, <4>5, ReadingsFact
    <3>4. a \in Place
      BY DEF Places
    <3>. QED
      BY <3>2, <3>3, <3>4
  <2>. QED
    BY <2>1, <2>2
<1>. QED
  BY <1>1 DEF Moves

LEMMA Redelayed ==
  ASSUME NEW m \in Mode, ~m.gap, NEW q \in Seq(Item), NEW r \in Seq(Item), Len(r) = Len(q),
         \A i \in 1..Len(q) : r[i].bytes = q[i].bytes, NEW a, NEW b, ItemsLead(m, q, a, b)
  PROVE  ItemsLead(m, r, a, b)
<1>1. PICK f \in [0..Len(q) -> Place] :
        f[0] = a /\ f[Len(q)] = b /\ \A i \in 1..Len(q) : <<f[i - 1], f[i]>> \in Moves(m)[q[i]]
  BY DEF ItemsLead, Chain
<1>2. \A i \in 1..Len(q) : Moves(m)[q[i]] = Moves(m)[r[i]]
  BY ElementOfSeq, SameMoves
<1>. QED
  BY <1>1, <1>2 DEF ItemsLead, Chain

\* the places where the parts of n units end
CutOf(c, n) ==
  /\ c \in Seq(Nat) /\ Len(c) > 0 /\ c[Len(c)] = n
  /\ \A k \in 1..Len(c) : c[k] <= n
  /\ \A j, k \in 1..Len(c) : j < k => c[j] < c[k]

LEMMA CutFact ==
  ASSUME NEW n \in Nat, NEW c, CutOf(c, n), NEW k \in 1..Len(c)
  PROVE  /\ Len(c) \in Nat /\ DOMAIN c = 1..Len(c)
         /\ c[k] \in 0..n /\ Edge(c, k) \in 0..n /\ Edge(c, k) <= c[k]
         /\ k > 1 => k - 1 \in 1..Len(c) /\ Edge(c, k) = c[k - 1] /\ Edge(c, k) < c[k]
<1>1. c \in Seq(Nat)
  BY DEF CutOf
<1>2. Len(c) \in Nat /\ DOMAIN c = 1..Len(c) /\ \A j \in 1..Len(c) : c[j] \in Nat
  BY <1>1, LenProperties, ElementOfSeq
<1>3. c[k] \in 0..n
  BY <1>2 DEF CutOf
<1>4. CASE k = 1
  BY <1>2, <1>3, <1>4 DEF Edge
<1>5. CASE k > 1
  <2>1. k - 1 \in 1..Len(c) /\ k - 1 < k /\ k # 1
    BY <1>2, <1>5
  <2>2. Edge(c, k) = c[k - 1] /\ c[k - 1] < c[k] /\ c[k - 1] \in Nat
    BY <1>2, <2>1 DEF CutOf, Edge
  <2>. QED
    BY <1>2, <1>3, <2>1, <2>2
<1>. QED
  BY <1>2, <1>4, <1>5

LEMMA PiecesLead ==
  ASSUME NEW m \in Mode, ~m.gap, NEW whole \in Seq(Unit), NEW a \in Places(m), NEW b,
         Leads(m, whole, a, b), NEW c, CutOf(c, Len(whole)),
         NEW q \in Seq(Item), Len(q) = Len(c),
         \A k \in 1..Len(q) : q[k].bytes = SubSeq(whole, Edge(c, k) + 1, c[k])
  PROVE  ItemsLead(m, q, a, b)
<1> DEFINE n == Len(whole)
<1>1. n \in Nat /\ Len(c) \in Nat /\ Len(c) > 0 /\ Len(q) \in Nat /\ c[Len(c)] = n
  BY LenProperties DEF CutOf
<1>2. PICK f \in [0..n -> Place] :
        f[0] = a /\ f[n] = b /\ \A i \in 1..n : <<f[i - 1], f[i]>> \in Readings(m)[whole[i]]
  BY DEF Leads, Chain
<1>3. \A k \in 1..Len(c) : /\ c[k] \in 0..n /\ Edge(c, k) \in 0..n /\ Edge(c, k) <= c[k]
                           /\ k > 1 => Edge(c, k) = c[k - 1]
  BY <1>1, CutFact
<1>4. \A i \in 0..n : f[i] \in Places(m)
  <2> TAKE i \in 0..n
  <2>1. CASE i = 0
    BY <1>2, <2>1
  <2>2. CASE i # 0
    <3>1. i \in 1..n
      BY <1>1, <2>2
    <3>. QED
      BY <1>2, <3>1, ReadingsFact, ElementOfSeq
  <2>. QED
    BY <2>1, <2>2
<1> DEFINE g == [k \in 0..Len(q) |-> f[IF k = 0 THEN 0 ELSE c[k]]]
<1>5. \A k \in 0..Len(q) : (IF k = 0 THEN 0 ELSE c[k]) \in 0..n
  BY <1>1, <1>3
<1>6. g \in [0..Len(q) -> Place] /\ g[0] = a /\ g[Len(q)] = b
  BY <1>1, <1>2, <1>5
<1>7. ASSUME NEW k \in 1..Len(q) PROVE <<g[k - 1], g[k]>> \in Moves(m)[q[k]]
  <2>1. k \in 1..Len(c) /\ k - 1 \in 0..Len(q) /\ k # 0
    BY <1>1
  <2>2. g[k] = f[c[k]]
    BY <2>1
  <2>3. g[k - 1] = f[Edge(c, k)]
    <3>1. CASE k = 1
      BY <1>1, <3>1 DEF Edge
    <3>2. CASE k > 1
      <4>1. k - 1 # 0 /\ Edge(c, k) = c[k - 1]
        BY <1>1, <1>3, <2>1, <3>2
      <4>. QED
        BY <2>1, <4>1
    <3>3. k = 1 \/ k > 1
      BY <1>1
    <3>. QED
      BY <3>1, <3>2, <3>3
  <2> HIDE DEF g, n
  <2>4. Leads(m, SubSeq(whole, Edge(c, k) + 1, c[k]), f[Edge(c, k)], f[c[k]])
    <3>1. c[k] \in 0..Len(whole) /\ Edge(c, k) \in 0..Len(whole) /\ Edge(c, k) <= c[k]
      BY <1>3, <2>1 DEF n
    <3>2. f \in [0..Len(whole) -> Place]
      BY <1>2 DEF n
    <3>3. \A i \in 1..Len(whole) : <<f[i - 1], f[i]>> \in Readings(m)[whole[i]]
      BY <1>2 DEF n
    <3>. QED
      BY <3>1, <3>2, <3>3, PartOfWalk DEF Leads
  <2> DEFINE x == [bytes |-> q[k].bytes, delay |-> 0]
  <2>5. q[k] \in Item /\ x \in Item /\ Leaving(x) = q[k].bytes /\ x.bytes = q[k].bytes
    <3>1. q[k] \in Item
      BY ElementOfSeq
    <3>. QED
      BY <3>1 DEF Item, Leaving
  <2>6. f[Edge(c, k)] \in Places(m) /\ f[c[k]] \in Places(m)
    BY <1>3, <1>4, <2>1
  <2>7. Leads(m, Leaving(x), f[Edge(c, k)], f[c[k]])
    BY <2>4, <2>5
  <2>8. <<f[Edge(c, k)], f[c[k]]>> \in Moves(m)[x]
    BY <2>5, <2>6, <2>7, MovesFact
  <2>. QED
    BY <2>2, <2>3, <2>5, <2>8, SameMoves
<1>. QED
  BY <1>6, <1>7 DEF ItemsLead, Chain

\* one record around units of the payload
LEMMA RewrappedLeads ==
  ASSUME NEW m \in Mode, NEW p \in Seq(Unit), Len(p) > 0, NEW a \in Places(m), a.left = 0,
         \A i \in 1..Len(p) : p[i] = Byte(a.k + i),
         m.gap /\ a.o => a.k > Hello \/ a.k >= Before(2),
         m.cap = 0 \/ a.h + 1 <= m.cap
  PROVE  /\ [k |-> a.k + Len(p), left |-> 0, h |-> a.h + 1, o |-> m.gap] \in Places(m)
         /\ Rewrapped(p) \in Seq(Unit)
         /\ Leads(m, Rewrapped(p), a, [k |-> a.k + Len(p), left |-> 0, h |-> a.h + 1, o |-> m.gap])
<1> DEFINE n == Len(p)
           b(i) == [k |-> a.k + i, left |-> n - i, h |-> a.h + 1, o |-> m.gap]
           r == Rewrapped(p)
<1>1. n \in Nat /\ n > 0 /\ a.k \in Nat /\ a.h \in Nat /\ a.left = 0 /\ a \in Place /\ m.gap \in BOOLEAN
  BY LenProperties DEF Places, Place, Mode
<1>2. r \in Seq(Unit) /\ Len(r) = n + 1 /\ r[1] = Header(n) /\ \A i \in 2..(n + 1) : r[i] = p[i - 1]
  <2>1. <<Header(n)>> \in Seq(Unit) /\ Len(<<Header(n)>>) = 1 /\ <<Header(n)>>[1] = Header(n)
    BY <1>1, UnitFact
  <2>2. /\ r \in Seq(Unit) /\ Len(r) = 1 + n
        /\ \A i \in 1..(1 + n) : r[i] = IF i <= 1 THEN <<Header(n)>>[i] ELSE p[i - 1]
    BY <2>1, ConcatProperties DEF Rewrapped
  <2>3. 1 \in 1..(1 + n) /\ \A i \in 2..(n + 1) : i \in 1..(1 + n) /\ ~(i <= 1)
    BY <1>1
  <2>. QED
    BY <1>1, <2>1, <2>2, <2>3
<1>3. \A i \in 0..n : b(i) \in Places(m)
  BY <1>1 DEF Places, Place
<1> DEFINE f == [i \in 0..(n + 1) |-> IF i = 0 THEN a ELSE b(i - 1)]
<1> HIDE DEF n, r
<1>4. f \in [0..(n + 1) -> Places(m)] /\ f[0] = a /\ f[n + 1] = b(n) /\ f[1] = b(0)
  <2>1. \A i \in 1..(n + 1) : i - 1 \in 0..n
    BY <1>1
  <2>2. (n + 1) - 1 = n /\ n + 1 # 0 /\ n + 1 \in 0..(n + 1) /\ 0 \in 0..(n + 1) /\ 1 \in 0..(n + 1)
    BY <1>1
  <2>. QED
    BY <1>1, <1>3, <2>1, <2>2
<1>5. ASSUME NEW i \in 1..(n + 1) PROVE <<f[i - 1], f[i]>> \in Readings(m)[r[i]]
  <2>1. CASE i = 1
    <3>1. f[i - 1] = a /\ f[i] = b(0)
      BY <1>4, <2>1
    <3>2. StartsRecord(m, a, Header(n), b(0))
      BY <1>1, UnitFact DEF StartsRecord, n
    <3>. QED
      BY <1>1, <1>2, <1>3, <2>1, <3>1, <3>2, ReadingsFact, UnitFact DEF Reads
  <2>2. CASE i # 1
    <3>1. /\ i \in 2..(n + 1) /\ i - 1 \in 1..n /\ i - 1 # 0 /\ i # 0 /\ i - 1 \in 0..(n + 1)
          /\ i - 2 \in 0..n /\ i - 1 \in 0..n /\ (i - 1) - 1 = i - 2 /\ i \in 0..(n + 1)
      BY <1>1, <2>2
    <3>2. f[i - 1] = b(i - 2) /\ f[i] = b(i - 1)
      BY <3>1
    <3>3. r[i] = Byte(a.k + (i - 1))
      BY <1>2, <3>1 DEF n
    <3>4. FillsRecord(m, b(i - 2), Byte(a.k + (i - 1)), b(i - 1))
      <4>1. a.k + (i - 1) = (a.k + (i - 2)) + 1 /\ n - (i - 1) = (n - (i - 2)) - 1 /\ n - (i - 2) > 0
        BY <1>1, <3>1
      <4>. QED
        BY <1>1, <4>1, UnitFact DEF FillsRecord
    <3>5. Byte(a.k + (i - 1)) \in Unit
      <4>1. a.k + (i - 1) \in Nat
        BY <1>1, <3>1
      <4>. QED
        BY <4>1, UnitFact
    <3>6. b(i - 2) \in Places(m) /\ b(i - 1) \in Places(m)
      BY <1>3, <3>1
    <3>. QED
      BY <3>2, <3>3, <3>4, <3>5, <3>6, ReadingsFact DEF Reads
  <2>. QED
    BY <2>1, <2>2
<1>6. f \in [0..Len(r) -> Place] /\ f[0] = a /\ f[Len(r)] = b(n)
  BY <1>2, <1>4 DEF Places
<1>7. Leads(m, r, a, b(n))
  BY <1>2, <1>5, <1>6 DEF Leads, Chain
<1>8. b(n) = [k |-> a.k + n, left |-> 0, h |-> a.h + 1, o |-> m.gap] /\ n \in 0..n
  BY <1>1
<1>. QED
  BY <1>2, <1>3, <1>7, <1>8 DEF n, r

-----------------------------------------------------------------------------
(* Records: their headers, and the units behind them.                      *)

\* records that are not empty, and where they end
EndsOf(e, n) == CutOf(e, n) /\ e[1] > 0

\* after p units of records: in which one the last is, how many units of the
\* payload there were, and how many the record still owes
PartAt(e, p) == IF p = 0 THEN 0 ELSE Part(e, p)
Had(e, p) == p - PartAt(e, p)
Owes(e, p) == IF p = 0 THEN 0 ELSE e[Part(e, p)] + Part(e, p) - p

LEMMA EndsFact ==
  ASSUME NEW n \in Nat, NEW e, EndsOf(e, n)
  PROVE  /\ Len(e) \in Nat /\ Len(e) > 0 /\ DOMAIN e = 1..Len(e) /\ n > 0 /\ e[Len(e)] = n
         /\ \A r \in 1..Len(e) : /\ e[r] \in 1..n /\ Edge(e, r) \in 0..n /\ Edge(e, r) < e[r]
                                 /\ r > 1 => r - 1 \in 1..Len(e) /\ Edge(e, r) = e[r - 1]
         /\ Edge(e, 1) = 0
<1>1. CutOf(e, n) /\ e[1] > 0 /\ Len(e) > 0 /\ e[Len(e)] = n
  BY DEF EndsOf, CutOf
<1>2. Len(e) \in Nat /\ DOMAIN e = 1..Len(e)
  BY <1>1, LenProperties DEF CutOf
<1>3. ASSUME NEW r \in 1..Len(e)
      PROVE  /\ e[r] \in 1..n /\ Edge(e, r) \in 0..n /\ Edge(e, r) < e[r]
             /\ r > 1 => r - 1 \in 1..Len(e) /\ Edge(e, r) = e[r - 1]
  <2>1. /\ e[r] \in 0..n /\ Edge(e, r) \in 0..n
        /\ r > 1 => r - 1 \in 1..Len(e) /\ Edge(e, r) = e[r - 1] /\ Edge(e, r) < e[r]
    BY <1>1, CutFact
  <2>2. r = 1 => Edge(e, r) = 0
    BY DEF Edge
  <2>3. r = 1 \/ r > 1
    BY <1>2
  <2>. QED
    BY <1>1, <2>1, <2>2, <2>3
<1>4. Len(e) \in 1..Len(e)
  BY <1>1, <1>2
<1>. QED
  BY <1>1, <1>2, <1>3, <1>4 DEF Edge

LEMMA PartFact ==
  ASSUME NEW n \in Nat, NEW e, EndsOf(e, n), NEW p \in 1..(n + Len(e))
  PROVE  /\ Part(e, p) \in 1..Len(e) /\ p >= Edge(e, Part(e, p)) + Part(e, p)
         /\ p <= e[Part(e, p)] + Part(e, p)
         /\ \A r \in 1..Len(e) : p >= Edge(e, r) + r /\ p <= e[r] + r => r = Part(e, p)
<1>1. /\ Len(e) \in Nat /\ Len(e) > 0 /\ DOMAIN e = 1..Len(e) /\ n > 0 /\ e[Len(e)] = n
      /\ \A r \in 1..Len(e) : /\ e[r] \in 1..n /\ Edge(e, r) \in 0..n /\ Edge(e, r) < e[r]
                              /\ r > 1 => r - 1 \in 1..Len(e) /\ Edge(e, r) = e[r - 1]
  BY EndsFact
<1>2. \E r \in 1..Len(e) : p >= Edge(e, r) + r /\ p <= e[r] + r
  <2> DEFINE Far == {r \in 1..Len(e) : p <= e[r] + r}
  <2>1. Far \in SUBSET Nat /\ Len(e) \in Far
    BY <1>1
  <2>2. PICK r \in Far : \A j \in Far : r <= j
    BY <2>1, ForemostOf
  <2>3. r \in 1..Len(e) /\ p <= e[r] + r
    BY <2>2
  <2>4. CASE r = 1
    BY <1>1, <2>3, <2>4, EndsFact
  <2>5. CASE r # 1
    <3>1. r > 1 /\ r - 1 \in 1..Len(e) /\ r - 1 \notin Far /\ Edge(e, r) = e[r - 1]
      BY <1>1, <2>2, <2>3, <2>5
    <3>2. p > e[r - 1] + (r - 1) /\ e[r - 1] \in Nat
      BY <1>1, <3>1
    <3>. QED
      BY <2>3, <3>1, <3>2
  <2>. QED
    BY <2>4, <2>5
<1>3. ASSUME NEW r \in 1..Len(e), NEW s \in 1..Len(e), r < s,
             p <= e[r] + r, p >= Edge(e, s) + s
      PROVE  FALSE
  <2>1. s > 1 /\ s - 1 \in 1..Len(e) /\ Edge(e, s) = e[s - 1]
    BY <1>1, <1>3
  <2>2. e[r] <= e[s - 1]
    <3>1. CASE r = s - 1
      BY <1>1, <3>1
    <3>2. CASE r # s - 1
      <4>1. r < s - 1
        BY <1>3, <3>2
      <4>2. e[r] < e[s - 1]
        BY <2>1, <4>1 DEF EndsOf, CutOf
      <4>3. e[r] \in Int /\ e[s - 1] \in Int
        BY <1>1, <2>1
      <4>. QED
        BY <4>2, <4>3
    <3>. QED
      BY <3>1, <3>2
  <2>. QED
    BY <1>1, <1>3, <2>1, <2>2
<1>4. \A r, s \in 1..Len(e) :
        p >= Edge(e, r) + r /\ p <= e[r] + r /\ p >= Edge(e, s) + s /\ p <= e[s] + s => r = s
  <2> TAKE r, s \in 1..Len(e)
  <2>1. r < s \/ s < r \/ r = s
    BY <1>1
  <2>2. ASSUME p >= Edge(e, r) + r, p <= e[r] + r, p >= Edge(e, s) + s, p <= e[s] + s PROVE r = s
    BY <1>3, <2>1, <2>2
  <2>. QED
    BY <2>2
<1>5. \A r \in 1..Len(e) : p \in (Edge(e, r) + r)..(e[r] + r)
                             <=> p >= Edge(e, r) + r /\ p <= e[r] + r
  <2> TAKE r \in 1..Len(e)
  <2>1. Edge(e, r) + r \in Int /\ e[r] + r \in Int
    BY <1>1
  <2>. QED
    BY <2>1
<1>6. Part(e, p) = CHOOSE r \in 1..Len(e) : p \in (Edge(e, r) + r)..(e[r] + r)
  BY <1>1 DEF Part
<1>7. Part(e, p) \in 1..Len(e) /\ p \in (Edge(e, Part(e, p)) + Part(e, p))..(e[Part(e, p)] + Part(e, p))
  BY <1>2, <1>5, <1>6
<1>. QED
  BY <1>4, <1>5, <1>7

LEMMA PartStep ==
  ASSUME NEW n \in Nat, NEW e, EndsOf(e, n), NEW p \in 1..(n + Len(e))
  PROVE  LET r == Part(e, p) IN
         /\ r \in 1..Len(e) /\ Had(e, p) = p - r /\ p - r \in 0..n
         /\ Owes(e, p) = e[r] + r - p /\ Owes(e, p) \in Nat
         /\ p = Edge(e, r) + r => /\ PartAt(e, p - 1) = r - 1 /\ Owes(e, p - 1) = 0
                                  /\ Had(e, p - 1) = Had(e, p) /\ Had(e, p) = Edge(e, r)
                                  /\ Owes(e, p) = e[r] - Edge(e, r)
         /\ p # Edge(e, r) + r => /\ PartAt(e, p - 1) = r /\ Owes(e, p - 1) = Owes(e, p) + 1
                                  /\ Had(e, p) = Had(e, p - 1) + 1 /\ p - r \in 1..n
<1> DEFINE r == Part(e, p)
<1>1. /\ Len(e) \in Nat /\ Len(e) > 0 /\ n > 0 /\ e[Len(e)] = n /\ Edge(e, 1) = 0
      /\ \A s \in 1..Len(e) : /\ e[s] \in 1..n /\ Edge(e, s) \in 0..n /\ Edge(e, s) < e[s]
                              /\ s > 1 => s - 1 \in 1..Len(e) /\ Edge(e, s) = e[s - 1]
  BY EndsFact
<1>2. r \in 1..Len(e) /\ p >= Edge(e, r) + r /\ p <= e[r] + r /\ p # 0
  BY PartFact
<1> HIDE DEF r
<1>3. /\ Had(e, p) = p - r /\ p - r \in 0..n /\ Owes(e, p) = e[r] + r - p /\ Owes(e, p) \in Nat
      /\ PartAt(e, p) = r
  <2>1. Had(e, p) = p - r /\ Owes(e, p) = e[r] + r - p /\ PartAt(e, p) = r
    BY <1>2 DEF Had, Owes, PartAt, r
  <2>2. Edge(e, r) \in Nat /\ e[r] \in 1..n /\ r \in Nat /\ p \in Nat /\ n \in Nat
    BY <1>1, <1>2
  <2>3. p - r \in 0..n /\ e[r] + r - p \in Nat
    BY <1>2, <2>2
  <2>. QED
    BY <2>1, <2>3
<1>4. ASSUME p = Edge(e, r) + r
      PROVE  /\ PartAt(e, p - 1) = r - 1 /\ Owes(e, p - 1) = 0
             /\ Had(e, p - 1) = Had(e, p) /\ Had(e, p) = Edge(e, r) /\ Owes(e, p) = e[r] - Edge(e, r)
  <2>1. Had(e, p) = Edge(e, r) /\ Owes(e, p) = e[r] - Edge(e, r)
    <3>1. Edge(e, r) \in Int /\ e[r] \in Int /\ r \in Int
      BY <1>1, <1>2
    <3>2. Had(e, p) = (Edge(e, r) + r) - r /\ Owes(e, p) = e[r] + r - (Edge(e, r) + r)
      BY <1>3, <1>4
    <3>. QED
      BY <3>1, <3>2
  <2>2. CASE r = 1
    <3>1. p - 1 = 0 /\ p = 1
      BY <1>1, <1>4, <2>2
    <3>2. PartAt(e, p - 1) = 0 /\ Owes(e, p - 1) = 0 /\ Had(e, p - 1) = 0
      BY <3>1 DEF PartAt, Owes, Had
    <3>. QED
      BY <1>1, <2>1, <2>2, <3>2
  <2>3. CASE r > 1
    <3>1. /\ r - 1 \in 1..Len(e) /\ Edge(e, r) = e[r - 1] /\ e[r - 1] \in 1..n
          /\ Edge(e, r - 1) \in 0..n /\ Edge(e, r - 1) < e[r - 1]
      BY <1>1, <1>2, <2>3
    <3>2. /\ p - 1 \in 1..(n + Len(e)) /\ p - 1 >= Edge(e, r - 1) + (r - 1)
          /\ p - 1 <= e[r - 1] + (r - 1) /\ p - 1 # 0 /\ p - 1 = e[r - 1] + (r - 1)
      <4>1. n \in Nat /\ Len(e) \in Nat /\ r \in Nat /\ p \in Nat /\ p <= n + Len(e)
        BY <1>1, <1>2
      <4>2. p = e[r - 1] + r
        BY <1>4, <3>1
      <4>3. e[r - 1] \in Nat /\ e[r - 1] > 0 /\ Edge(e, r - 1) \in Nat
        BY <3>1
      <4>4. p - 1 = e[r - 1] + (r - 1) /\ p - 1 > 0
        BY <2>3, <4>1, <4>2, <4>3
      <4>5. Edge(e, r - 1) + (r - 1) <= e[r - 1] + (r - 1) /\ e[r - 1] + (r - 1) \in Nat
        BY <2>3, <3>1, <4>1, <4>3
      <4>. QED
        BY <4>1, <4>4, <4>5
    <3>3. Part(e, p - 1) = r - 1
      BY <3>1, <3>2, PartFact
    <3>4. PartAt(e, p - 1) = r - 1 /\ Owes(e, p - 1) = e[r - 1] + (r - 1) - (p - 1)
          /\ Had(e, p - 1) = (p - 1) - (r - 1)
      BY <3>2, <3>3 DEF PartAt, Owes, Had
    <3>5. e[r - 1] + (r - 1) - (p - 1) = 0 /\ (p - 1) - (r - 1) = p - r
      <4>1. e[r - 1] \in Int /\ r \in Int /\ p \in Int
        BY <1>2, <3>1
      <4>2. p - 1 = e[r - 1] + (r - 1)
        BY <3>2
      <4>. QED
        BY <4>1, <4>2
    <3>. QED
      BY <1>3, <2>1, <3>4, <3>5
  <2>4. r = 1 \/ r > 1
    BY <1>1, <1>2
  <2>. QED
    BY <2>2, <2>3, <2>4
<1>5. ASSUME p # Edge(e, r) + r
      PROVE  /\ PartAt(e, p - 1) = r /\ Owes(e, p - 1) = Owes(e, p) + 1
             /\ Had(e, p) = Had(e, p - 1) + 1 /\ p - r \in 1..n
  <2>1. /\ p - 1 \in 1..(n + Len(e)) /\ p - 1 >= Edge(e, r) + r /\ p - 1 <= e[r] + r /\ p - 1 # 0
    BY <1>1, <1>2, <1>5
  <2>2. Part(e, p - 1) = r
    BY <1>2, <2>1, PartFact
  <2>3. /\ PartAt(e, p - 1) = r /\ Owes(e, p - 1) = e[r] + r - (p - 1)
        /\ Had(e, p - 1) = (p - 1) - r
    BY <2>1, <2>2 DEF PartAt, Owes, Had
  <2>4. p - r \in 1..n /\ e[r] + r - (p - 1) = (e[r] + r - p) + 1 /\ p - r = ((p - 1) - r) + 1
    <3>1. e[r] \in Int /\ r \in Int /\ p \in Int /\ Edge(e, r) \in Nat /\ n \in Int
      BY <1>1, <1>2
    <3>2. p - 1 >= Edge(e, r) + r /\ p - r \in 0..n
      BY <1>3, <2>1
    <3>. QED
      BY <3>1, <3>2
  <2>. QED
    BY <1>3, <2>3, <2>4
<1>. QED
  BY <1>2, <1>3, <1>4, <1>5 DEF r

LEMMA HadOrder ==
  ASSUME NEW n \in Nat, NEW e, EndsOf(e, n), NEW p \in 0..(n + Len(e)), NEW q \in 0..p
  PROVE  /\ PartAt(e, p) \in 0..Len(e) /\ Had(e, p) \in 0..n /\ Owes(e, p) \in Nat
         /\ PartAt(e, q) \in 0..Len(e) /\ Had(e, q) \in 0..n /\ Owes(e, q) \in Nat
         /\ PartAt(e, q) <= PartAt(e, p) /\ Had(e, q) <= Had(e, p)
         /\ q < p /\ Owes(e, q) = 0 /\ Owes(e, p) = 0 => Had(e, q) < Had(e, p)
<1> DEFINE D == n + Len(e)
<1>1. /\ Len(e) \in Nat /\ D \in Nat /\ p \in Nat /\ q \in Nat /\ q <= p /\ q \in 0..D
      /\ \A r \in 1..Len(e) : e[r] \in 1..n
  BY EndsFact
<1>2. \A i \in 1..D :
        /\ PartAt(e, i) = Part(e, i) /\ Part(e, i) \in 1..Len(e) /\ Had(e, i) \in 0..n /\ Owes(e, i) \in Nat
        /\ Had(e, i) = i - Part(e, i) /\ Owes(e, i) = e[Part(e, i)] + Part(e, i) - i
        /\ PartAt(e, i - 1) = PartAt(e, i) \/ PartAt(e, i - 1) = PartAt(e, i) - 1
        /\ Had(e, i - 1) = Had(e, i) \/ Had(e, i - 1) = Had(e, i) - 1
  <2> TAKE i \in 1..D
  <2>1. PartAt(e, i) = Part(e, i) /\ Part(e, i) \in 1..Len(e) /\ Had(e, i) \in 0..n /\ Owes(e, i) \in Nat
        /\ Had(e, i) = i - Part(e, i) /\ Owes(e, i) = e[Part(e, i)] + Part(e, i) - i
    BY PartStep DEF PartAt
  <2>2. PartAt(e, i - 1) = PartAt(e, i) \/ PartAt(e, i - 1) = PartAt(e, i) - 1
    BY <2>1, PartStep
  <2>3. Had(e, i - 1) = Had(e, i) \/ Had(e, i) = Had(e, i - 1) + 1
    BY PartStep
  <2>4. Had(e, i - 1) \in Int
    <3>1. PartAt(e, i - 1) \in Int
      BY <1>1, <2>1, <2>2
    <3>. QED
      BY <3>1 DEF Had
  <2>. QED
    BY <2>1, <2>2, <2>3, <2>4
<1>3. PartAt(e, 0) = 0 /\ Had(e, 0) = 0 /\ Owes(e, 0) = 0
  BY DEF PartAt, Had, Owes
<1>4. \A i \in 0..D : PartAt(e, i) \in 0..Len(e) /\ Had(e, i) \in 0..n /\ Owes(e, i) \in Nat
  <2> TAKE i \in 0..D
  <2>1. CASE i = 0
    BY <1>1, <1>3, <2>1
  <2>2. CASE i # 0
    <3>1. i \in 1..D
      BY <1>1, <2>2
    <3>. QED
      BY <1>1, <1>2, <3>1
  <2>. QED
    BY <2>1, <2>2
<1> HIDE DEF D
<1>5. PartAt(e, q) <= PartAt(e, p) /\ Had(e, q) <= Had(e, p)
  <2> DEFINE Low == {i \in q..D : PartAt(e, i) < PartAt(e, q) \/ Had(e, i) < Had(e, q)}
  <2>1. CASE Low # {}
    <3>1. Low \in SUBSET Nat
      BY <1>1
    <3>2. PICK i \in Low : \A j \in Low : i <= j
      BY <2>1, <3>1, ForemostOf
    <3>3. PartAt(e, q) \in Int /\ Had(e, q) \in Int
      BY <1>1, <1>4
    <3>4. i # q /\ i \in q..D /\ i \in Nat
      BY <1>1, <3>2, <3>3
    <3>5. i - 1 \in q..D /\ i \in 1..D /\ i - 1 \in 0..D /\ i \in 0..D
      BY <1>1, <3>4
    <3>6. i - 1 \notin Low
      BY <3>2, <3>4
    <3>7. PartAt(e, i - 1) >= PartAt(e, q) /\ Had(e, i - 1) >= Had(e, q)
      <4>1. ~(PartAt(e, i - 1) < PartAt(e, q)) /\ ~(Had(e, i - 1) < Had(e, q))
        BY <3>5, <3>6
      <4>2. PartAt(e, i - 1) \in Int /\ Had(e, i - 1) \in Int
        BY <1>1, <1>4, <3>5
      <4> HIDE DEF Low
      <4>. QED
        BY <3>3, <4>1, <4>2
    <3>8. PartAt(e, i) >= PartAt(e, i - 1) /\ Had(e, i) >= Had(e, i - 1)
      <4>1. /\ PartAt(e, i - 1) = PartAt(e, i) \/ PartAt(e, i - 1) = PartAt(e, i) - 1
            /\ Had(e, i - 1) = Had(e, i) \/ Had(e, i - 1) = Had(e, i) - 1
        BY <1>2, <3>5
      <4>2. PartAt(e, i) \in Int /\ Had(e, i) \in Int
        BY <1>1, <1>4, <3>5
      <4>. QED
        BY <4>1, <4>2
    <3>9. /\ PartAt(e, i) \in Int /\ PartAt(e, i - 1) \in Int
          /\ Had(e, i) \in Int /\ Had(e, i - 1) \in Int
      BY <1>1, <1>4, <3>5
    <3>. QED
      BY <3>2, <3>3, <3>7, <3>8, <3>9
  <2>2. CASE Low = {}
    <3>1. p \in q..D /\ p \in 0..D /\ q \in 0..D
      BY <1>1 DEF D
    <3>2. ~(PartAt(e, p) < PartAt(e, q)) /\ ~(Had(e, p) < Had(e, q))
      BY <2>2, <3>1
    <3>. QED
      BY <1>1, <1>4, <3>1, <3>2
  <2>. QED
    BY <2>1, <2>2
<1>6. ASSUME q < p, Owes(e, q) = 0, Owes(e, p) = 0 PROVE Had(e, q) < Had(e, p)
  <2> DEFINE u == Part(e, p)  t == Part(e, q)
  <2>1. p \in 1..D
    BY <1>1, <1>6 DEF D
  <2>2. u \in 1..Len(e) /\ Had(e, p) = p - u /\ Owes(e, p) = e[u] + u - p /\ PartAt(e, p) = u
    BY <1>2, <2>1
  <2>3. CASE q = 0
    <3>. HIDE DEF u
    <3>1. e[u] \in 1..n
      BY <1>1, <2>2
    <3>2. Had(e, p) = e[u]
      <4>1. u \in Int /\ e[u] \in Int /\ p \in Int
        BY <1>1, <2>2, <3>1
      <4>2. e[u] + u - p = 0 /\ Had(e, p) = p - u
        BY <1>6, <2>2
      <4>. QED
        BY <4>1, <4>2
    <3>. QED
      BY <1>3, <2>3, <3>1, <3>2
  <2>4. CASE q # 0
    <3>1. q \in 1..D
      BY <1>1, <2>4
    <3>2. t \in 1..Len(e) /\ Had(e, q) = q - t /\ Owes(e, q) = e[t] + t - q /\ PartAt(e, q) = t
      BY <1>2, <3>1
    <3>. HIDE DEF u, t
    <3>3. e[u] \in 1..n /\ e[t] \in 1..n /\ u \in Nat /\ t \in Nat
      BY <1>1, <2>2, <3>2
    <3>4. Had(e, p) = e[u] /\ Had(e, q) = e[t] /\ p = e[u] + u /\ q = e[t] + t
      <4>1. e[u] + u - p = 0 /\ e[t] + t - q = 0
        BY <1>6, <2>2, <3>2
      <4>2. p \in Nat /\ q \in Nat /\ u \in Nat /\ t \in Nat /\ e[u] \in Nat /\ e[t] \in Nat
        BY <1>1, <3>3
      <4> DEFINE x == e[u]  y == e[t]
      <4> HIDE DEF x, y
      <4>3. p = x + u /\ p - u = x
        <5>1. x + u - p = 0 /\ x \in Nat /\ u \in Nat /\ p \in Nat
          BY <4>1, <4>2 DEF x
        <5>. QED
          BY <5>1
      <4>4. q = y + t /\ q - t = y
        <5>1. y + t - q = 0 /\ y \in Nat /\ t \in Nat /\ q \in Nat
          BY <4>1, <4>2 DEF y
        <5>. QED
          BY <5>1
      <4> USE DEF x, y
      <4>. QED
        BY <2>2, <3>2, <4>3, <4>4
    <3>5. t # u /\ t <= u
      BY <1>5, <1>6, <2>2, <3>2, <3>3, <3>4
    <3>6. e[t] < e[u]
      BY <2>2, <3>2, <3>3, <3>5 DEF EndsOf, CutOf
    <3>. QED
      BY <3>4, <3>6
  <2>. QED
    BY <2>3, <2>4
<1>7. p \in 0..D
  BY DEF D
<1>. QED
  BY <1>1, <1>4, <1>5, <1>6, <1>7

LEMMA HelloFact == Hello \in Nat /\ Before(2) \in Nat /\ Hello > 0
<1>1. Flights \in Seq(Seq(Nat) \ {<<>>}) /\ Len(Flights) > 1 /\ DOMAIN Flights = 1..Len(Flights)
      /\ Len(Flights) \in Nat
  BY FlightsAssumption, LenProperties
<1>2. 1 \in DOMAIN Flights /\ Flights[1] \in Seq(Nat) /\ Flights[1] # <<>>
  BY <1>1, ElementOfSeq
<1>3. Len(Flights[1]) \in Nat \ {0} /\ DOMAIN Flights[1] = 1..Len(Flights[1])
  BY <1>2, EmptySeq, LenProperties
<1>4. 1 \in DOMAIN Flights[1] /\ Flights[1][1] \in Nat
  BY <1>2, <1>3, ElementOfSeq
<1>5. Flights[1][1] > Before(1) /\ Before(1) = 0
  BY <1>2, <1>4, FlightsAssumption DEF Before
<1>6. Before(2) = Flights[1][Len(Flights[1])]
  BY DEF Before, Last
<1>. QED
  BY <1>2, <1>3, <1>4, <1>5, <1>6, ElementOfSeq DEF Hello

LEMMA FramedFact ==
  ASSUME NEW n \in Nat, NEW e, EndsOf(e, n), NEW units \in Seq(Unit), Len(units) = n
  PROVE  /\ Framed(units, e) \in Seq(Unit) /\ Len(Framed(units, e)) = n + Len(e)
         /\ \A p \in 1..(n + Len(e)) : LET r == Part(e, p) IN
              Framed(units, e)[p] = IF p = Edge(e, r) + r THEN Header(e[r] - Edge(e, r))
                                                          ELSE units[p - r]
<1> DEFINE D == n + Len(e)
           at(p) == IF p = Edge(e, Part(e, p)) + Part(e, p)
                    THEN Header(e[Part(e, p)] - Edge(e, Part(e, p))) ELSE units[p - Part(e, p)]
<1>1. Len(e) \in Nat /\ D \in Nat /\ DOMAIN e = 1..Len(e)
  BY EndsFact
<1>2. Framed(units, e) = [p \in 1..D |-> at(p)]
  BY <1>1 DEF Framed
<1>3. ASSUME NEW p \in 1..D PROVE at(p) \in Unit
  <2>1. p # Edge(e, Part(e, p)) + Part(e, p) => p - Part(e, p) \in 1..Len(units)
    BY PartStep
  <2>2. p = Edge(e, Part(e, p)) + Part(e, p) => e[Part(e, p)] - Edge(e, Part(e, p)) \in Nat
    BY PartStep
  <2>. QED
    BY <2>1, <2>2, UnitFact, ElementOfSeq
<1> HIDE DEF at, D
<1>4. Framed(units, e) \in Seq(Unit) /\ Len(Framed(units, e)) = D
  BY <1>1, <1>2, <1>3, IsASeq
<1>. QED
  BY <1>2, <1>4 DEF at, D

(* Records in one piece lead on, from the first or from the end of a record. *)
LEMMA FramedLeads ==
  ASSUME NEW m \in Mode, NEW n \in Nat, NEW e, EndsOf(e, n),
         NEW units \in Seq(Unit), Len(units) = n, NEW k0 \in Nat,
         \A j \in 1..n : units[j] = Byte(k0 + j),
         NEW q \in 0..(n + Len(e)), Owes(e, q) = 0, PartAt(e, q) \in Nat,
         NEW a \in Places(m), a.k = k0 + Had(e, q), a.left = 0,
         m.cap = 0 \/ a.k >= Hello \/ a.h + (Len(e) - PartAt(e, q)) <= m.cap,
         m.gap => a.k >= Hello /\ (a.o => a.k > Hello \/ a.k >= Before(2))
  PROVE  LET b == [k |-> k0 + n, left |-> 0, h |-> a.h + (Len(e) - PartAt(e, q)),
                   o |-> IF n + Len(e) > q THEN m.gap ELSE a.o]
         IN b \in Places(m) /\ Leads(m, SubSeq(Framed(units, e), q + 1, n + Len(e)), a, b)
<1> DEFINE D == n + Len(e)
           F == Framed(units, e)
           s == SubSeq(F, q + 1, D)
           b(p) == [k |-> k0 + Had(e, p), left |-> Owes(e, p), h |-> a.h + (PartAt(e, p) - PartAt(e, q)),
                    o |-> IF p > q THEN m.gap ELSE a.o]
           z == D - q
<1>1. /\ Len(e) \in Nat /\ Len(e) > 0 /\ n > 0 /\ e[Len(e)] = n
      /\ \A r \in 1..Len(e) : /\ e[r] \in 1..n /\ Edge(e, r) \in 0..n /\ Edge(e, r) < e[r]
                              /\ r > 1 => r - 1 \in 1..Len(e) /\ Edge(e, r) = e[r - 1]
  BY EndsFact
<1>2. /\ F \in Seq(Unit) /\ Len(F) = D
      /\ \A p \in 1..D : LET r == Part(e, p) IN
           F[p] = IF p = Edge(e, r) + r THEN Header(e[r] - Edge(e, r)) ELSE units[p - r]
  BY FramedFact
<1>3. D \in Nat /\ q \in Nat /\ D - q \in Nat /\ a \in Place /\ m.gap \in BOOLEAN /\ m.cap \in Nat
      /\ a.k \in Nat /\ a.h \in Nat /\ a.o \in BOOLEAN /\ PartAt(e, q) \in Nat
  BY <1>1 DEF Places, Place, Mode
<1> HIDE DEF D, F
<1>4. s \in Seq(Unit) /\ Len(s) = z /\ \A i \in 1..z : s[i] = F[q + i]
  <2>1. q \in 0..Len(F) /\ D \in 0..Len(F) /\ q <= D
    BY <1>2, <1>3
  <2>2. s \in Seq(Unit) /\ Len(s) = D - q /\ \A i \in 1..(D - q) : s[i] = F[q + i]
    BY <1>2, <2>1, SubFact
  <2>. QED
    BY <1>3, <2>2
<1> HIDE DEF s, z
\* the parts do not go back
<1>5. \A p \in q..D : /\ PartAt(e, p) >= PartAt(e, q) /\ PartAt(e, p) \in 0..Len(e)
                      /\ Had(e, p) >= Had(e, q) /\ Had(e, p) \in 0..n /\ Owes(e, p) \in Nat
                      /\ q < p /\ Owes(e, p) = 0 => Had(e, q) < Had(e, p)
  <2> TAKE p \in q..D
  <2>1. p \in 0..(n + Len(e)) /\ q \in 0..p
    BY <1>3 DEF D
  <2>. QED
    BY <2>1, HadOrder
<1>6. \A p \in q..D : Had(e, p) \in 0..n /\ Owes(e, p) \in Nat
  BY <1>5
<1>7. \A p \in q..D : b(p) \in Places(m)
  <2> TAKE p \in q..D
  <2>1. k0 + Had(e, p) \in Nat /\ Owes(e, p) \in Nat /\ a.h + (PartAt(e, p) - PartAt(e, q)) \in Nat
    <3>1. Had(e, p) \in Nat /\ Owes(e, p) \in Nat
      BY <1>6
    <3>2. PartAt(e, p) \in Nat /\ PartAt(e, p) >= PartAt(e, q) /\ PartAt(e, q) \in Nat
      BY <1>1, <1>3, <1>5
    <3>3. k0 + Had(e, p) \in Nat
      BY <3>1
    <3>4. PartAt(e, p) - PartAt(e, q) \in Nat
      BY <3>2
    <3>5. a.h + (PartAt(e, p) - PartAt(e, q)) \in Nat
      BY <1>3, <3>4
    <3>. QED
      BY <3>1, <3>3, <3>5
  <2>2. (IF p > q THEN m.gap ELSE a.o) \in BOOLEAN /\ ((IF p > q THEN m.gap ELSE a.o) => m.gap)
    BY <1>3 DEF Places
  <2>. QED
    BY <2>1, <2>2 DEF Places, Place
<1>8. b(q) = a
  <2>1. Had(e, q) \in Nat /\ PartAt(e, q) - PartAt(e, q) = 0 /\ a.h + 0 = a.h
    BY <1>3, <1>6
  <2>2. ~(q > q)
    BY <1>3
  <2>3. a = [k |-> a.k, left |-> a.left, h |-> a.h, o |-> a.o]
    BY <1>3 DEF Place
  <2>. QED
    BY <2>1, <2>2, <2>3
<1>9. ASSUME NEW p \in (q + 1)..D PROVE <<b(p - 1), b(p)>> \in Readings(m)[F[p]]
  <2> DEFINE r == Part(e, p)
  <2>1. p \in 1..D /\ p # 0 /\ p - 1 \in q..D /\ p \in q..D /\ p > q
    BY <1>3
  <2>2. PartAt(e, p) = r /\ r \in 1..Len(e)
    BY <2>1, PartStep DEF PartAt, D
  <2>3. F[p] = IF p = Edge(e, r) + r THEN Header(e[r] - Edge(e, r)) ELSE units[p - r]
    BY <1>2, <2>1
  <2>4. CASE p = Edge(e, r) + r
    <3>1. /\ PartAt(e, p - 1) = r - 1 /\ Owes(e, p - 1) = 0 /\ Had(e, p - 1) = Had(e, p)
          /\ Had(e, p) = Edge(e, r) /\ Owes(e, p) = e[r] - Edge(e, r)
      BY <2>1, <2>4, PartStep DEF D
    <3> HIDE DEF r
    <3>2. e[r] - Edge(e, r) \in Nat /\ e[r] - Edge(e, r) > 0 /\ Edge(e, r) \in Nat
      BY <1>1, <2>2
    <3>3. m.gap /\ b(p - 1).o => b(p - 1).k > Hello \/ b(p - 1).k >= Before(2)
      <4>1. CASE p - 1 = q
        BY <1>8, <4>1
      <4>2. CASE p - 1 > q
        <5>2. Had(e, q) < Edge(e, r)
          BY <1>5, <2>1, <3>1, <4>2
        <5>3. b(p - 1).k = k0 + Edge(e, r) /\ Had(e, q) \in Nat
          BY <1>3, <1>6, <3>1
        <5>4. m.gap => a.k >= Hello
          OBVIOUS
        <5>5. Hello \in Int
          BY HelloFact
        <5>. QED
          BY <1>3, <3>2, <5>2, <5>3, <5>4, <5>5
      <4>. QED
        BY <1>3, <2>1, <4>1, <4>2
    <3>4. StartsRecord(m, b(p - 1), Header(e[r] - Edge(e, r)), b(p))
      <4>1. b(p - 1).left = 0 /\ b(p).left = e[r] - Edge(e, r) /\ b(p).k = b(p - 1).k
            /\ b(p).h = b(p - 1).h + 1 /\ b(p).o = m.gap
        <5>1. a.h + (r - PartAt(e, q)) = (a.h + ((r - 1) - PartAt(e, q))) + 1
          BY <1>3, <2>2
        <5>. QED
          BY <2>1, <2>2, <3>1, <5>1
      <4>. QED
        BY <3>2, <3>3, <4>1, UnitFact DEF StartsRecord
    <3>5. Header(e[r] - Edge(e, r)) \in Unit
      BY <3>2, UnitFact
    <3>. QED
      BY <1>7, <2>1, <2>3, <2>4, <3>4, <3>5, ReadingsFact DEF Reads
  <2>5. CASE p # Edge(e, r) + r
    <3>1. /\ PartAt(e, p - 1) = r /\ Owes(e, p - 1) = Owes(e, p) + 1 /\ Owes(e, p) \in Nat
          /\ Had(e, p) = Had(e, p - 1) + 1 /\ p - r \in 1..n /\ Had(e, p) = p - r
      BY <2>1, <2>5, PartStep DEF D
    <3> HIDE DEF r
    <3>2. F[p] = Byte(k0 + Had(e, p)) /\ Had(e, p - 1) \in Nat /\ Had(e, p) \in Nat
      BY <1>6, <2>1, <2>3, <2>5, <3>1
    <3>3. m.cap = 0 \/ b(p - 1).k >= Hello \/ b(p - 1).h <= m.cap
      <4>1. CASE a.h + (Len(e) - PartAt(e, q)) <= m.cap
        <5>1. b(p - 1).h = a.h + (r - PartAt(e, q)) /\ r \in Nat /\ r <= Len(e)
          BY <1>1, <2>2, <3>1
        <5>2. Len(e) \in Nat /\ a.h \in Nat /\ PartAt(e, q) \in Nat /\ m.cap \in Nat
          BY <1>1, <1>3
        <5>3. a.h + (r - PartAt(e, q)) <= m.cap
          BY <4>1, <5>1, <5>2
        <5>. QED
          BY <5>1, <5>3
      <4>2. CASE a.k >= Hello
        <5>1. Had(e, p - 1) >= Had(e, q) /\ Had(e, q) \in Nat
          <6>1. q \in q..D
            BY <1>3
          <6>. QED
            BY <1>5, <2>1, <6>1
        <5>2. b(p - 1).k = k0 + Had(e, p - 1) /\ b(p - 1).k >= a.k /\ b(p - 1).k \in Nat
          BY <3>2, <5>1
        <5>. QED
          BY <1>3, <4>2, <5>2, HelloFact
      <4>. QED
        BY <4>1, <4>2
    <3>4. FillsRecord(m, b(p - 1), Byte(k0 + Had(e, p)), b(p))
      <4>1. /\ b(p).k = b(p - 1).k + 1 /\ b(p - 1).left > 0 /\ b(p).left = b(p - 1).left - 1
            /\ b(p).h = b(p - 1).h /\ b(p).o = m.gap /\ k0 + Had(e, p) = b(p - 1).k + 1
        <5>1. b(p).o = m.gap
          BY <2>1
        <5>2. /\ b(p).k = k0 + Had(e, p) /\ b(p - 1).k = k0 + Had(e, p - 1)
              /\ b(p - 1).left = Owes(e, p - 1) /\ b(p).left = Owes(e, p)
          OBVIOUS
        <5>3. b(p).h = b(p - 1).h
          BY <2>2, <3>1
        <5>4. k0 + Had(e, p) = (k0 + Had(e, p - 1)) + 1
          BY <3>1, <3>2
        <5>5. Owes(e, p - 1) > 0 /\ Owes(e, p) = Owes(e, p - 1) - 1
          <6>1. Owes(e, p - 1) = Owes(e, p) + 1 /\ Owes(e, p) \in Nat
            BY <3>1
          <6>2. \A x, y : x = y + 1 /\ y \in Nat => x > 0 /\ y = x - 1
            OBVIOUS
          <6>. QED
            BY <6>1, <6>2
        <5>. HIDE DEF b
        <5>. QED
          BY <5>1, <5>2, <5>3, <5>4, <5>5
      <4>. QED
        BY <3>3, <4>1, UnitFact DEF FillsRecord
    <3>5. Byte(k0 + Had(e, p)) \in Unit
      BY <3>2, UnitFact
    <3>. QED
      BY <1>7, <2>1, <3>2, <3>4, <3>5, ReadingsFact DEF Reads
  <2>. QED
    BY <2>4, <2>5
<1> DEFINE f == [i \in 0..z |-> b(q + i)]
<1> HIDE DEF b
<1>10. \A i \in 0..z : q + i \in q..D
  BY <1>3 DEF z
<1>11. f \in [0..z -> Place] /\ f[0] = a /\ f[z] = b(D)
  <2>1. q + 0 = q /\ q + z = D /\ 0 \in 0..z /\ z \in 0..z
    BY <1>3 DEF z
  <2>. QED
    BY <1>7, <1>8, <1>10, <2>1 DEF Places
<1>12. ASSUME NEW i \in 1..z PROVE <<f[i - 1], f[i]>> \in Readings(m)[s[i]]
  <2>1. i - 1 \in 0..z /\ i \in 0..z /\ q + i \in (q + 1)..D /\ q + (i - 1) = (q + i) - 1
    BY <1>3 DEF z
  <2>2. f[i - 1] = b((q + i) - 1) /\ f[i] = b(q + i)
    BY <2>1
  <2>. QED
    BY <1>4, <1>9, <2>1, <2>2
<1>13. Leads(m, s, a, b(D))
  BY <1>4, <1>11, <1>12 DEF Leads, Chain
<1>14. b(D) = [k |-> k0 + n, left |-> 0, h |-> a.h + (Len(e) - PartAt(e, q)), o |-> IF D > q THEN m.gap ELSE a.o]
  <2>1. D \in 1..(n + Len(e)) /\ D # 0 /\ Len(e) \in 1..Len(e)
    BY <1>1, <1>3 DEF D
  <2>2. D >= Edge(e, Len(e)) + Len(e) /\ D <= e[Len(e)] + Len(e)
    BY <1>1, <2>1 DEF D
  <2>3. Part(e, D) = Len(e)
    BY <2>1, <2>2, PartFact
  <2>4. Had(e, D) = n /\ Owes(e, D) = 0 /\ PartAt(e, D) = Len(e)
    <3>1. Had(e, D) = D - Len(e) /\ Owes(e, D) = e[Len(e)] + Len(e) - D /\ PartAt(e, D) = Len(e)
      BY <2>1, <2>3 DEF Had, Owes, PartAt
    <3>. QED
      BY <1>1, <3>1 DEF D
  <2>. QED
    BY <2>4 DEF b
<1>15. D \in q..D
  BY <1>3, <1>10 DEF z
<1>. QED
  BY <1>7, <1>13, <1>14, <1>15 DEF b, D, s, F

LEMMA Ascending ==
  ASSUME NEW s \in Seq(Nat), \A r \in 2..Len(s) : s[r - 1] < s[r]
  PROVE  \A j, k \in 1..Len(s) : j < k => s[j] < s[k]
<1>1. Len(s) \in Nat /\ \A i \in 1..Len(s) : s[i] \in Nat
  BY LenProperties, ElementOfSeq
<1> SUFFICES ASSUME NEW j \in 1..Len(s) PROVE \A k \in 1..Len(s) : j < k => s[j] < s[k]
  OBVIOUS
<1> DEFINE Bad == {k \in 1..Len(s) : j < k /\ ~(s[j] < s[k])}
<1>2. CASE Bad # {}
  <2>1. Bad \in SUBSET Nat
    BY <1>1
  <2>2. PICK k \in Bad : \A i \in Bad : k <= i
    BY <1>2, <2>1, ForemostOf
  <2>3. k \in 2..Len(s) /\ k - 1 \in 1..Len(s) /\ k - 1 \notin Bad /\ j <= k - 1
    BY <1>1, <2>2
  <2>4. s[k - 1] < s[k] /\ s[k - 1] \in Nat /\ s[k] \in Nat /\ s[j] \in Nat
    BY <1>1, <2>3
  <2>5. s[j] <= s[k - 1]
    <3>1. CASE j = k - 1
      BY <2>4, <3>1
    <3>2. CASE j # k - 1
      BY <1>1, <2>3, <2>4, <3>2
    <3>. QED
      BY <3>1, <3>2
  <2>6. s[j] < s[k]
    BY <2>4, <2>5
  <2>. QED
    BY <2>2, <2>6
<1>3. CASE Bad = {}
  BY <1>3
<1>. QED
  BY <1>2, <1>3

\* a write of the client as records
FlightEnds(w) == [r \in DOMAIN Flights[w] |-> Flights[w][r] - Before(w)]
Payload(w) == [j \in 1..(Before(w + 1) - Before(w)) |-> Byte(Before(w) + j)]

LEMMA FlightFact ==
  ASSUME NEW w \in 1..Len(Flights)
  PROVE  /\ Before(w) \in Nat /\ Before(w + 1) \in Nat /\ Before(w) < Before(w + 1)
         /\ EndsOf(FlightEnds(w), Before(w + 1) - Before(w)) /\ Len(FlightEnds(w)) = Len(Flights[w])
         /\ w = 1 => Before(w) = 0 /\ FlightEnds(w)[1] = Hello
         /\ Buffer(w) = Framed(Payload(w), FlightEnds(w))
         /\ Payload(w) \in Seq(Unit) /\ Len(Payload(w)) = Before(w + 1) - Before(w)
         /\ \A j \in 1..(Before(w + 1) - Before(w)) : Payload(w)[j] = Byte(Before(w) + j)
<1> DEFINE F == Flights[w]  B == Before(w)  e == FlightEnds(w)
<1>1. /\ Flights \in Seq(Seq(Nat) \ {<<>>}) /\ DOMAIN Flights = 1..Len(Flights) /\ Len(Flights) \in Nat
      /\ \A v \in 1..Len(Flights) : Flights[v] \in Seq(Nat) /\ Flights[v] # <<>>
      /\ \A v \in 1..Len(Flights) : \A r \in DOMAIN Flights[v] :
           Flights[v][r] > IF r = 1 THEN Before(v) ELSE Flights[v][r - 1]
  <2>1. Flights \in Seq(Seq(Nat) \ {<<>>})
    BY FlightsAssumption
  <2>2. DOMAIN Flights = 1..Len(Flights) /\ Len(Flights) \in Nat
    BY <2>1, LenProperties
  <2>3. \A v \in 1..Len(Flights) : Flights[v] \in Seq(Nat) \ {<<>>}
    BY <2>1, ElementOfSeq
  <2>. QED
    BY <2>1, <2>2, <2>3, FlightsAssumption
<1>2. \A v \in 1..Len(Flights) : Len(Flights[v]) \in Nat /\ Len(Flights[v]) > 0
        /\ DOMAIN Flights[v] = 1..Len(Flights[v]) /\ \A r \in 1..Len(Flights[v]) : Flights[v][r] \in Nat
  <2> TAKE v \in 1..Len(Flights)
  <2>1. Flights[v] \in Seq(Nat) /\ Flights[v] # <<>>
    BY <1>1
  <2>2. Len(Flights[v]) \in Nat /\ DOMAIN Flights[v] = 1..Len(Flights[v])
    BY <2>1, LenProperties
  <2>3. Len(Flights[v]) # 0
    BY <2>1, EmptySeq
  <2>4. \A r \in 1..Len(Flights[v]) : Flights[v][r] \in Nat
    BY <2>1, ElementOfSeq
  <2>. QED
    BY <2>2, <2>3, <2>4
<1>3. \A v \in 1..Len(Flights) : Last(Flights[v]) \in Nat
  BY <1>2 DEF Last
<1>4. B \in Nat
  <2>1. CASE w = 1
    BY <2>1 DEF Before
  <2>2. CASE w # 1
    <3>1. w - 1 \in 1..Len(Flights) /\ B = Last(Flights[w - 1])
      BY <1>1, <2>2 DEF Before
    <3>. QED
      BY <1>3, <3>1
  <2>. QED
    BY <2>1, <2>2
<1>5. Before(w + 1) = F[Len(F)] /\ Before(w + 1) \in Nat
  <2>1. w + 1 # 1 /\ (w + 1) - 1 = w
    BY <1>1
  <2>2. Before(w + 1) = Last(F)
    BY <2>1 DEF Before
  <2>. QED
    BY <1>3, <2>2 DEF Last
<1>6. F \in Seq(Nat) /\ Len(F) \in Nat /\ Len(F) > 0 /\ DOMAIN F = 1..Len(F) /\ \A r \in 1..Len(F) : F[r] \in Nat
  BY <1>1, <1>2
<1>7. F[1] > B /\ \A r \in 2..Len(F) : F[r - 1] < F[r]
  <2>1. 1 \in DOMAIN F
    BY <1>6
  <2>2. F[1] > B
    BY <1>1, <2>1
  <2>3. ASSUME NEW r \in 2..Len(F) PROVE F[r - 1] < F[r]
    <3>1. r \in DOMAIN F /\ r # 1 /\ r - 1 \in 1..Len(F) /\ r \in 1..Len(F)
      BY <1>6
    <3>2. F[r] > F[r - 1]
      BY <1>1, <3>1
    <3>. QED
      BY <1>6, <3>1, <3>2
  <2>. QED
    BY <2>2, <2>3
<1>8. \A j, k \in 1..Len(F) : j < k => F[j] < F[k]
  BY <1>6, <1>7, Ascending
<1>9. \A r \in 1..Len(F) : F[r] > B /\ F[r] <= F[Len(F)]
  <2> TAKE r \in 1..Len(F)
  <2>1. 1 \in 1..Len(F) /\ Len(F) \in 1..Len(F) /\ (r = 1 \/ 1 < r) /\ (r = Len(F) \/ r < Len(F))
    BY <1>6
  <2>2. r = 1 \/ F[1] < F[r]
    BY <1>8, <2>1
  <2>3. r = Len(F) \/ F[r] < F[Len(F)]
    BY <1>8, <2>1
  <2>4. F[r] \in Nat /\ F[1] \in Nat /\ F[Len(F)] \in Nat
    BY <1>6, <2>1
  <2>. QED
    BY <1>4, <1>7, <2>2, <2>3, <2>4
<1>10. e = [r \in 1..Len(F) |-> F[r] - B]
  BY <1>6 DEF FlightEnds
<1>11. EndsOf(e, Before(w + 1) - B) /\ Len(e) = Len(F)
  <2>1. \A r \in 1..Len(F) : F[r] - B \in Nat
    BY <1>4, <1>6, <1>9
  <2> DEFINE at(r) == F[r] - B
  <2> HIDE DEF at, e, F, B
  <2>2. \A r \in 1..Len(F) : at(r) \in Nat
    BY <2>1 DEF at
  <2>3. e = [r \in 1..Len(F) |-> at(r)]
    BY <1>10 DEF at
  <2>4. e \in Seq(Nat) /\ Len(e) = Len(F)
    BY <1>6, <2>2, <2>3, IsASeq
  <2>5. \A r \in 1..Len(F) : e[r] = F[r] - B
    BY <1>10
  <2>6. /\ e[Len(e)] = Before(w + 1) - B /\ \A k \in 1..Len(e) : e[k] <= Before(w + 1) - B
        /\ \A j, k \in 1..Len(e) : j < k => e[j] < e[k]
    <3>1. Len(F) \in 1..Len(F)
      BY <1>6
    <3>2. \A r \in 1..Len(F) : F[r] <= Before(w + 1) /\ F[r] \in Nat
      BY <1>5, <1>6, <1>9 DEF F
    <3>3. \A k \in 1..Len(F) : F[k] - B <= Before(w + 1) - B
      BY <1>4, <1>5, <3>2
    <3>4. \A j, k \in 1..Len(F) : j < k => F[j] - B < F[k] - B
      BY <1>4, <1>8, <3>2
    <3>. QED
      BY <1>5, <2>4, <2>5, <3>1, <3>3, <3>4 DEF F
  <2>7. e[1] > 0
    <3>1. 1 \in 1..Len(F) /\ F[1] \in Nat
      BY <1>6
    <3>. QED
      BY <1>4, <1>7, <2>5, <3>1
  <2>. QED
    BY <1>6, <2>4, <2>6, <2>7 DEF EndsOf, CutOf
<1>12. Before(w) < Before(w + 1)
  <2>1. Len(F) \in 1..Len(F)
    BY <1>6
  <2>. QED
    BY <1>4, <1>5, <1>9, <2>1
<1>13. w = 1 => B = 0 /\ e[1] = Hello
  <2>1. 1 \in 1..Len(F) /\ F[1] \in Nat
    BY <1>6
  <2>2. w = 1 => B = 0
    BY DEF Before
  <2>. QED
    BY <1>10, <2>1, <2>2 DEF Hello
<1>14. Buffer(w) = Framed(Payload(w), FlightEnds(w))
  BY DEF Buffer, Payload, FlightEnds
<1>15. Payload(w) \in Seq(Unit) /\ Len(Payload(w)) = Before(w + 1) - Before(w)
  <2> DEFINE n == Before(w + 1) - Before(w)  at(j) == Byte(Before(w) + j)
  <2>1. n \in Nat
    BY <1>4, <1>5, <1>12
  <2>2. \A j \in 1..n : at(j) \in Unit
    BY <1>4, <2>1, UnitFact
  <2>3. Payload(w) = [j \in 1..n |-> at(j)]
    BY DEF Payload
  <2> HIDE DEF n, at
  <2>4. Payload(w) \in Seq(Unit) /\ Len(Payload(w)) = n
    BY <2>1, <2>2, <2>3, IsASeq
  <2>. QED
    BY <2>4 DEF n
<1>. QED
  BY <1>4, <1>5, <1>11, <1>12, <1>13, <1>14, <1>15 DEF Payload

LEMMA BeforeFact ==
  /\ Hello <= Before(2)
  /\ \A w \in 2..(Len(Flights) + 1) : Before(w) \in Nat /\ Before(w) >= Before(2)
<1>1. Len(Flights) \in Nat /\ Len(Flights) > 1
  BY FlightsAssumption, LenProperties
<1>2. \A w \in 1..Len(Flights) : Before(w) \in Nat /\ Before(w + 1) \in Nat /\ Before(w) < Before(w + 1)
  BY FlightFact
<1>3. Hello <= Before(2)
  <2>1. 1 \in 1..Len(Flights) /\ 1 + 1 = 2
    BY <1>1
  <2>2. EndsOf(FlightEnds(1), Before(2) - Before(1)) /\ FlightEnds(1)[1] = Hello /\ Before(1) = 0 /\ Before(2) \in Nat
    BY <2>1, FlightFact
  <2>3. 1 \in 1..Len(FlightEnds(1)) /\ Before(2) - 0 = Before(2)
    BY <2>2, EndsFact
  <2>4. FlightEnds(1)[1] <= Before(2) - Before(1)
    BY <2>2, <2>3 DEF EndsOf, CutOf
  <2>. QED
    BY <2>2, <2>3, <2>4
<1>4. \A w \in 2..(Len(Flights) + 1) : Before(w) \in Nat
  <2> TAKE w \in 2..(Len(Flights) + 1)
  <2>1. w - 1 \in 1..Len(Flights) /\ (w - 1) + 1 = w
    BY <1>1
  <2>. QED
    BY <1>2, <2>1
<1>5. \A w \in 2..(Len(Flights) + 1) : Before(w) >= Before(2)
  <2> DEFINE Bad == {w \in 2..(Len(Flights) + 1) : Before(w) < Before(2)}
  <2>1. CASE Bad # {}
    <3>1. Bad \in SUBSET Nat
      BY <1>1
    <3>2. PICK w \in Bad : \A v \in Bad : w <= v
      BY <2>1, <3>1, ForemostOf
    <3>3. w # 2 /\ w \in 2..(Len(Flights) + 1) /\ Before(2) \in Nat
      BY <1>1, <1>4, <3>2
    <3>4. w - 1 \in 2..(Len(Flights) + 1) /\ w - 1 \in 1..Len(Flights) /\ (w - 1) + 1 = w /\ w - 1 \notin Bad
      BY <1>1, <3>2, <3>3
    <3>5. Before(w - 1) < Before(w) /\ Before(w - 1) \in Nat /\ Before(w) \in Nat /\ ~(Before(w - 1) < Before(2))
      BY <1>2, <3>4
    <3>. QED
      BY <3>2, <3>3, <3>5
  <2>2. CASE Bad = {}
    <3> TAKE w \in 2..(Len(Flights) + 1)
    <3>1. ~(Before(w) < Before(2)) /\ Before(w) \in Nat /\ Before(2) \in Nat
      BY <1>1, <1>4, <2>2
    <3>. QED
      BY <3>1
  <2>. QED
    BY <2>1, <2>2
<1>. QED
  BY <1>3, <1>4, <1>5

LEMMA StartOfFramed == \A e : PartAt(e, 0) = 0 /\ Had(e, 0) = 0 /\ Owes(e, 0) = 0
BY DEF PartAt, Had, Owes

\* a write that no stage cuts as a hello
LEMMA BufferLeads ==
  ASSUME NEW m \in Mode, NEW w \in 1..Len(Flights), NEW a \in Places(m), a.k = Before(w), a.left = 0,
         w > 1 \/ (m.cap = 0 /\ ~m.gap)
  PROVE  /\ Buffer(w) \in Seq(Unit)
         /\ \E b \in Places(m) : Leads(m, Buffer(w), a, b) /\ b.k = Before(w + 1) /\ b.left = 0
<1> DEFINE n == Before(w + 1) - Before(w)  e == FlightEnds(w)  u == Payload(w)
<1>1. /\ Before(w) \in Nat /\ Before(w + 1) \in Nat /\ n \in Nat /\ EndsOf(e, n) /\ Buffer(w) = Framed(u, e)
      /\ u \in Seq(Unit) /\ Len(u) = n /\ \A j \in 1..n : u[j] = Byte(Before(w) + j)
  BY FlightFact
<1>2. Len(e) \in Nat /\ Len(e) > 0 /\ n > 0
  BY <1>1, EndsFact
<1>3. w > 1 => a.k >= Hello /\ a.k >= Before(2)
  <2>1. w > 1 => w \in 2..(Len(Flights) + 1)
    BY FlightsAssumption, LenProperties
  <2>. QED
    BY <1>1, <2>1, BeforeFact, HelloFact
<1>4. m.cap = 0 \/ a.k >= Hello \/ a.h + (Len(e) - PartAt(e, 0)) <= m.cap
  BY <1>3
<1>5. m.gap => a.k >= Hello /\ (a.o => a.k > Hello \/ a.k >= Before(2))
  BY <1>3
<1> DEFINE q == 0
<1>6. /\ q \in 0..(n + Len(e)) /\ Owes(e, q) = 0 /\ PartAt(e, q) \in Nat /\ Had(e, q) = 0
      /\ a.k = Before(w) + Had(e, q) /\ q + 1 = 1
  BY <1>1, <1>2, StartOfFramed
<1>11. m.cap = 0 \/ a.k >= Hello \/ a.h + (Len(e) - PartAt(e, q)) <= m.cap
  BY <1>4
<1> DEFINE b == [k |-> Before(w) + n, left |-> 0, h |-> a.h + (Len(e) - PartAt(e, q)),
                 o |-> IF n + Len(e) > q THEN m.gap ELSE a.o]
<1> HIDE DEF n, e, u, q
<1>7. b \in Places(m) /\ Leads(m, SubSeq(Framed(u, e), q + 1, n + Len(e)), a, b)
  BY <1>1, <1>5, <1>6, <1>11, FramedLeads
<1>8. Framed(u, e) \in Seq(Unit) /\ Len(Framed(u, e)) = n + Len(e)
  BY <1>1, FramedFact
<1>9. SubSeq(Framed(u, e), 1, n + Len(e)) = Framed(u, e)
  BY <1>8, SubSeqFull
<1>10. Before(w) + n = Before(w + 1)
  BY <1>1 DEF n
<1>. QED
  BY <1>1, <1>6, <1>7, <1>8, <1>9, <1>10

\* the hello comes in a record of its own
LEMMA HelloBuffer ==
  LET whole == Buffer(1)  all == Before(2) + Len(Flights[1]) IN
  /\ whole \in Seq(Unit) /\ Len(whole) = all /\ all \in Nat /\ Hello + 1 \in 1..all /\ whole[1] = Header(Hello)
  /\ \A j \in 1..Hello : whole[j + 1] = Byte(j)
  /\ Hello + 1 = all => Before(2) = Hello
<1> DEFINE n == Before(2)  e == FlightEnds(1)  u == Payload(1)  D == n + Len(e)
<1>1. Len(Flights) \in Nat /\ Len(Flights) > 1 /\ 1 \in 1..Len(Flights) /\ 1 + 1 = 2
  BY FlightsAssumption, LenProperties
<1>2. /\ Before(1) = 0 /\ n \in Nat /\ n - 0 = n /\ EndsOf(e, n) /\ Buffer(1) = Framed(u, e) /\ e[1] = Hello
      /\ u \in Seq(Unit) /\ Len(u) = n /\ Len(e) = Len(Flights[1])
      /\ \A j \in 1..n : u[j] = Byte(j)
  <2>1. /\ Before(1) = 0 /\ Before(2) \in Nat /\ EndsOf(e, Before(2) - Before(1)) /\ Buffer(1) = Framed(u, e)
        /\ e[1] = Hello /\ u \in Seq(Unit) /\ Len(u) = Before(2) - Before(1) /\ Len(e) = Len(Flights[1])
        /\ \A j \in 1..(Before(2) - Before(1)) : u[j] = Byte(Before(1) + j)
    BY <1>1, FlightFact
  <2>2. Before(2) - 0 = Before(2) /\ \A j \in 1..Before(2) : 0 + j = j
    BY <2>1
  <2>. QED
    BY <2>1, <2>2
<1> HIDE DEF n, e, u, D
<1>3. Len(e) \in Nat /\ Len(e) > 0 /\ n > 0 /\ Edge(e, 1) = 0 /\ Hello \in 1..n
  <2>1. Len(e) \in Nat /\ Len(e) > 0 /\ n > 0 /\ Edge(e, 1) = 0 /\ e[1] \in 1..n
    <3>1. Len(e) \in Nat /\ Len(e) > 0
      BY <1>2, EndsFact
    <3>2. 1 \in 1..Len(e)
      BY <3>1
    <3>. QED
      BY <1>2, <3>1, <3>2, EndsFact
  <2>. QED
    BY <1>2, <2>1
<1>4. /\ Framed(u, e) \in Seq(Unit) /\ Len(Framed(u, e)) = D /\ D \in Nat
      /\ \A p \in 1..D : LET r == Part(e, p) IN
           Framed(u, e)[p] = IF p = Edge(e, r) + r THEN Header(e[r] - Edge(e, r)) ELSE u[p - r]
  <2>1. n + Len(e) = D /\ D \in Nat
    BY <1>2, <1>3 DEF D
  <2>2. /\ Framed(u, e) \in Seq(Unit) /\ Len(Framed(u, e)) = n + Len(e)
        /\ \A p \in 1..(n + Len(e)) : LET r == Part(e, p) IN
             Framed(u, e)[p] = IF p = Edge(e, r) + r THEN Header(e[r] - Edge(e, r)) ELSE u[p - r]
    BY <1>2, FramedFact
  <2>. QED
    BY <2>1, <2>2
<1>5. \A p \in 1..(Hello + 1) : p \in 1..D /\ Part(e, p) = 1
  <2> TAKE p \in 1..(Hello + 1)
  <2>1. p \in 1..D /\ 1 \in 1..Len(e) /\ p >= 0 + 1 /\ p <= Hello + 1
    BY <1>2, <1>3 DEF D
  <2>. QED
    BY <1>2, <1>3, <2>1, PartFact DEF D
<1>6. Buffer(1)[1] = Header(Hello)
  <2>1. 1 \in 1..(Hello + 1) /\ 0 + 1 = 1 /\ Hello - 0 = Hello
    BY <1>3
  <2>. QED
    BY <1>2, <1>3, <1>4, <1>5, <2>1
<1>7. \A j \in 1..Hello : Buffer(1)[j + 1] = Byte(j)
  <2> TAKE j \in 1..Hello
  <2>0. Hello \in Nat /\ Hello <= n /\ n \in Nat /\ j \in Nat /\ j > 0 /\ j <= Hello
    BY <1>2, <1>3
  <2>1. j + 1 \in 1..(Hello + 1) /\ j + 1 # 0 + 1 /\ (j + 1) - 1 = j /\ j \in 1..n
    BY <2>0
  <2>2. Framed(u, e)[j + 1] = u[j]
    BY <1>3, <1>4, <1>5, <2>1
  <2>. QED
    BY <1>2, <2>1, <2>2
<1>8. Hello + 1 \in 1..D /\ (Hello + 1 = D => n = Hello)
  BY <1>2, <1>3 DEF D
<1>9. D = Before(2) + Len(Flights[1])
  BY <1>2 DEF D, n
<1>. QED
  BY <1>2, <1>4, <1>6, <1>7, <1>8, <1>9 DEF n

LEMMA HelloTail ==
  ASSUME NEW m \in Mode, NEW a \in Places(m), a.k = Hello, a.left = 0,
         m.gap => ~a.o, Len(Buffer(1)) > Hello + 1
  PROVE  \E b \in Places(m) :
           /\ Leads(m, SubSeq(Buffer(1), Hello + 2, Len(Buffer(1))), a, b)
           /\ b.k = Before(2) /\ b.left = 0
<1> DEFINE n == Before(2)  e == FlightEnds(1)  u == Payload(1)  q == Hello + 1
<1>1. Len(Flights) \in Nat /\ Len(Flights) > 1 /\ 1 \in 1..Len(Flights) /\ 1 + 1 = 2
  BY FlightsAssumption, LenProperties
<1>2. /\ Before(1) = 0 /\ n \in Nat /\ EndsOf(e, n) /\ Buffer(1) = Framed(u, e) /\ e[1] = Hello
      /\ u \in Seq(Unit) /\ Len(u) = n /\ \A j \in 1..n : u[j] = Byte(0 + j)
  <2>1. /\ Before(1) = 0 /\ Before(2) \in Nat /\ EndsOf(e, Before(2) - Before(1)) /\ Buffer(1) = Framed(u, e)
        /\ e[1] = Hello /\ u \in Seq(Unit) /\ Len(u) = Before(2) - Before(1)
        /\ \A j \in 1..(Before(2) - Before(1)) : u[j] = Byte(Before(1) + j)
    BY <1>1, FlightFact
  <2>2. Before(2) - 0 = Before(2)
    BY <2>1
  <2>. QED
    BY <2>1, <2>2
<1>3. Len(e) \in Nat /\ Len(e) > 0
  BY <1>2, EndsFact
<1>4. Edge(e, 1) = 0 /\ Hello \in Nat /\ 1 \in 1..Len(e)
  BY <1>2, <1>3, EndsFact, HelloFact
<1>5. Len(Buffer(1)) = n + Len(e)
  BY <1>2, FramedFact
<1> HIDE DEF n, e, u
<1>6. q \in 1..(n + Len(e)) /\ q # 0
  BY <1>2, <1>3, <1>4, <1>5
<1>7. Part(e, q) = 1
  BY <1>2, <1>4, <1>6, PartFact
<1>8. PartAt(e, q) = 1 /\ Had(e, q) = Hello /\ Owes(e, q) = 0
  <2>1. PartAt(e, q) = 1 /\ Had(e, q) = q - 1 /\ Owes(e, q) = Hello + 1 - q
    BY <1>2, <1>6, <1>7 DEF PartAt, Had, Owes
  <2>2. q - 1 = Hello /\ Hello + 1 - q = 0
    BY <1>4
  <2>. QED
    BY <2>1, <2>2
<1> DEFINE b == [k |-> 0 + n, left |-> 0, h |-> a.h + (Len(e) - PartAt(e, q)),
                 o |-> IF n + Len(e) > q THEN m.gap ELSE a.o]
<1>9. b \in Places(m) /\ Leads(m, SubSeq(Framed(u, e), q + 1, n + Len(e)), a, b)
  <2>1. a.k = 0 + Had(e, q) /\ a.k >= Hello
    BY <1>4, <1>8
  <2>2. m.cap = 0 \/ a.k >= Hello \/ a.h + (Len(e) - PartAt(e, q)) <= m.cap
    BY <2>1
  <2>3. m.gap => a.k >= Hello /\ (a.o => a.k > Hello \/ a.k >= Before(2))
    BY <2>1
  <2>4. q \in 0..(n + Len(e)) /\ 0 \in Nat /\ PartAt(e, q) \in Nat
    BY <1>2, <1>3, <1>6, <1>8
  <2> HIDE DEF q
  <2>. QED
    BY <1>2, <1>8, <2>1, <2>2, <2>3, <2>4, FramedLeads
<1>10. q + 1 = Hello + 2 /\ 0 + n = n
  BY <1>2, <1>4
<1>. QED
  BY <1>2, <1>5, <1>9, <1>10 DEF n

-----------------------------------------------------------------------------
(* How a stage cuts.                                                       *)

\* the k-th of a finite set of numbers
LEMMA InOrderFact ==
  ASSUME NEW S \in SUBSET Nat, IsFiniteSet(S)
  PROVE  /\ InOrder(S) \in Seq(S) /\ Len(InOrder(S)) = Cardinality(S) /\ Cardinality(S) \in Nat
         /\ \A j, k \in 1..Cardinality(S) : j < k => InOrder(S)[j] < InOrder(S)[k]
         /\ \A v \in S : \E k \in 1..Cardinality(S) : InOrder(S)[k] = v
<1> DEFINE n == Cardinality(S)
           B(v) == {w \in S : w < v}
           c(v) == Cardinality(B(v))
           at(k) == CHOOSE v \in S : c(v) = k - 1
<1>1. n \in Nat /\ \A v \in S : IsFiniteSet(B(v)) /\ c(v) \in Nat /\ v \in Nat
  BY FS_CardinalityType, FS_Subset
<1>2. ASSUME NEW T \in SUBSET S, NEW v \in S, v \in T, B(v) \subseteq T PROVE c(v) < Cardinality(T)
  <2>1. IsFiniteSet(T) /\ Cardinality(T) \in Nat
    BY FS_CardinalityType, FS_Subset
  <2>2. B(v) \cup {v} \in SUBSET T
    BY <1>2
  <2>3. Cardinality(B(v) \cup {v}) <= Cardinality(T)
    BY <2>1, <2>2, FS_Subset
  <2>4. v \notin B(v)
    BY <1>1
  <2>5. Cardinality(B(v) \cup {v}) = Cardinality(B(v)) + 1
    BY <1>1, <2>4, FS_AddElement
  <2>. QED
    BY <1>1, <2>1, <2>3, <2>5
<1>3. \A v, w \in S : v < w => c(v) < c(w)
  <2> TAKE v, w \in S
  <2>1. ASSUME v < w PROVE c(v) < c(w)
    <3>1. v \in Nat /\ w \in Nat /\ \A u \in S : u \in Nat
      BY <1>1
    <3>2. \A u \in S : u < v => u < w
      BY <2>1, <3>1
    <3>3. B(w) \in SUBSET S /\ v \in B(w)
      BY <2>1
    <3>4. B(v) \subseteq B(w)
      BY <3>2
    <3>. QED
      BY <1>2, <3>3, <3>4
  <2>. QED
    BY <2>1
<1>4. \A v \in S : c(v) < n
  BY <1>2
<1> DEFINE f == [v \in S |-> c(v)]
           T == 0..(n - 1)
<1> HIDE DEF n, c
<1>15. \A v \in S : c(v) \in T /\ c(v) \in Nat
  <2> TAKE v \in S
  <2>1. c(v) \in Nat /\ c(v) < n /\ n \in Nat
    BY <1>1, <1>4
  <2>. QED
    BY <2>1
<1>5. f \in [S -> T]
  BY <1>15
<1>6. \A v, w \in S : f[v] = f[w] => v = w
  <2> TAKE v, w \in S
  <2>1. v < w \/ w < v \/ v = w
    BY <1>1
  <2>2. c(v) \in Nat /\ c(w) \in Nat
    BY <1>1
  <2>. QED
    BY <1>3, <2>1, <2>2
<1>7. f \in Injection(S, T)
  BY <1>5, <1>6 DEF Injection, IsInjective
<1>8. IsFiniteSet(T) /\ Cardinality(T) = n
  BY <1>1, FS_Interval
<1>9. f \in Surjection(S, T)
  BY <1>7, <1>8, FS_Injection DEF n
<1>10. \A k \in 1..n : at(k) \in S /\ c(at(k)) = k - 1
  <2> TAKE k \in 1..n
  <2>1. k - 1 \in T
    BY <1>1
  <2>2. PICK v \in S : f[v] = k - 1
    BY <1>9, <2>1 DEF Surjection
  <2>3. c(v) = k - 1
    BY <2>2
  <2>. QED
    BY <2>3
<1>11. InOrder(S) = [k \in 1..n |-> at(k)]
  BY DEF InOrder, n, c
<1> HIDE DEF at
<1>12. InOrder(S) \in Seq(S) /\ Len(InOrder(S)) = n
  BY <1>1, <1>10, <1>11, IsASeq
<1>13. \A j, k \in 1..n : j < k => InOrder(S)[j] < InOrder(S)[k]
  <2> TAKE j, k \in 1..n
  <2> DEFINE v == at(j)  w == at(k)
  <2>1. v \in S /\ w \in S /\ c(v) = j - 1 /\ c(w) = k - 1
    BY <1>10
  <2> HIDE DEF v, w
  <2>2. v < w \/ w < v \/ v = w
    BY <1>1, <2>1
  <2>3. j < k => ~(w < v) /\ v # w
    BY <1>1, <1>3, <2>1
  <2>. QED
    BY <1>11, <2>2, <2>3 DEF v, w
<1>14. \A v \in S : \E k \in 1..n : InOrder(S)[k] = v
  <2> TAKE v \in S
  <2>0. c(v) \in Nat /\ c(v) < n /\ n \in Nat
    BY <1>1, <1>4
  <2>1. c(v) + 1 \in 1..n /\ (c(v) + 1) - 1 = c(v)
    BY <2>0
  <2>2. at(c(v) + 1) \in S /\ c(at(c(v) + 1)) = c(v)
    BY <1>10, <2>1
  <2>3. at(c(v) + 1) = v
    BY <1>6, <2>2
  <2>. QED
    BY <1>11, <2>1, <2>3
<1>. QED
  BY <1>1, <1>12, <1>13, <1>14 DEF n

LEMMA CutsFact ==
  ASSUME NEW s, NEW n \in Nat, NEW cap, NEW c \in Cuts(s, n, cap)
  PROVE  CutOf(c, n) /\ (n > 0 => EndsOf(c, n)) /\ (cap = 0 \/ Len(c) <= cap)
<1>1. PICK points \in SUBSET (1..(n - 1)) : c = InOrder(points \cup {n})
  BY DEF Cuts, Shaped
<1> DEFINE S == points \cup {n}
<1>2. S \in SUBSET Nat /\ n \in S /\ IsFiniteSet(S) /\ \A v \in S : v <= n /\ (n > 0 => v > 0)
  <2>1. IsFiniteSet(0..n) /\ S \in SUBSET (0..n)
    BY <1>1, FS_Interval
  <2>2. IsFiniteSet(S)
    BY <2>1, FS_Subset
  <2>. QED
    BY <1>1, <2>1, <2>2
<1> HIDE DEF S
<1> DEFINE N == Cardinality(S)
<1>3. /\ c \in Seq(S) /\ Len(c) = N /\ N \in Nat
      /\ \A j, k \in 1..N : j < k => c[j] < c[k]
      /\ \A v \in S : \E k \in 1..N : c[k] = v
  BY <1>1, <1>2, InOrderFact DEF S
<1> HIDE DEF N
<1>4. c \in Seq(Nat) /\ \A k \in 1..N : c[k] \in S
  BY <1>2, <1>3, SeqMonotonic, ElementOfSeq
<1>5. PICK k \in 1..N : c[k] = n
  BY <1>2, <1>3
<1>6. N \in 1..N /\ N > 0
  BY <1>3
<1>7. c[N] = n
  <2>1. CASE k = N
    BY <1>5, <2>1
  <2>2. CASE k # N
    <3>1. k < N
      BY <1>3, <2>2
    <3>2. c[k] < c[N]
      BY <1>3, <1>6, <3>1
    <3>3. c[N] <= n /\ c[N] \in Nat
      BY <1>2, <1>4, <1>6
    <3>. QED
      BY <1>5, <3>2, <3>3
  <2>. QED
    BY <2>1, <2>2
<1>8. CutOf(c, n)
  BY <1>2, <1>3, <1>4, <1>6, <1>7 DEF CutOf
<1>9. n > 0 => EndsOf(c, n)
  <2>1. 1 \in 1..N
    BY <1>3, <1>6
  <2>. QED
    BY <1>2, <1>4, <1>8, <2>1 DEF EndsOf
<1>10. cap = 0 \/ Len(c) <= cap
  BY DEF Cuts
<1>. QED
  BY <1>8, <1>9, <1>10

LEMMA BetweenFact ==
  ASSUME NEW r \in Span, NEW x \in Between(r)
  PROVE  x \in Nat /\ x >= r[1] /\ x <= r[2] /\ r[1] \in Nat /\ r[2] \in Nat
BY DEF Span, Between

LEMMA DrawFact ==
  ASSUME NEW pattern \in Seq(Span) \ {<<>>}, NEW n \in Nat \ {0}, NEW d \in Draws(pattern, n)
  PROVE  /\ d \in Seq(Nat) /\ Len(d) = n /\ \A k \in 1..n : d[k] \in Nat
         /\ (\A i \in DOMAIN pattern : pattern[i][1] > 0) => \A k \in 1..n : d[k] > 0
<1>1. Len(pattern) \in Nat \ {0} /\ DOMAIN pattern = 1..Len(pattern)
  BY EmptySeq, LenProperties
<1>2. d \in [1..n -> UNION {Between(pattern[i]) : i \in DOMAIN pattern}]
      /\ \A k \in 1..n : d[k] \in Between(At(pattern, k))
  BY DEF Draws
<1>3. ASSUME NEW k \in 1..n
      PROVE  \E i \in DOMAIN pattern : At(pattern, k) = pattern[i] /\ pattern[i] \in Span
  <2>1. \A i \in DOMAIN pattern : pattern[i] \in Span
    BY <1>1, ElementOfSeq
  <2>2. CASE k > Len(pattern)
    <3>1. At(pattern, k) = pattern[Len(pattern)] /\ Len(pattern) \in DOMAIN pattern
      BY <1>1, <2>2 DEF At
    <3>. QED
      BY <2>1, <3>1
  <2>3. CASE ~(k > Len(pattern))
    <3>1. At(pattern, k) = pattern[k] /\ k \in DOMAIN pattern
      BY <1>1, <2>3 DEF At
    <3>. QED
      BY <2>1, <3>1
  <2>. QED
    BY <2>2, <2>3
<1>4. ASSUME NEW k \in 1..n
      PROVE  d[k] \in Nat /\ ((\A i \in DOMAIN pattern : pattern[i][1] > 0) => d[k] > 0)
  <2>1. PICK i \in DOMAIN pattern : At(pattern, k) = pattern[i] /\ pattern[i] \in Span
    BY <1>3
  <2>2. d[k] \in Between(pattern[i])
    BY <1>2, <2>1
  <2>. QED
    BY <2>1, <2>2, BetweenFact
<1>5. d = [k \in 1..n |-> d[k]]
  BY <1>2
<1>6. d \in [1..n -> Nat]
  BY <1>4, <1>5
<1> DEFINE at(k) == d[k]
<1>7. \A k \in 1..n : at(k) \in Nat
  BY <1>4
<1>8. d = [k \in 1..n |-> at(k)]
  BY <1>5
<1> HIDE DEF at
<1>9. d \in Seq(Nat) /\ Len(d) = n
  BY <1>7, <1>8, IsASeq
<1>. QED
  BY <1>4, <1>9

\* pieces that are owed a pause
Emitted(q, delta, carry) == Emit([q EXCEPT ![1].delay = @ + delta], carry)

LEMMA EmitFact ==
  ASSUME NEW q \in Seq(Item), q # <<>>, NEW delta \in Nat, NEW carry \in Nat
  PROVE  LET r == Emitted(q, delta, carry) IN
         /\ r \in Seq(Item) /\ Len(r) = Len(q) /\ \A i \in 1..Len(q) : r[i].bytes = q[i].bytes
         /\ \A i \in 1..Len(q) : r[i].delay = IF i = 1 THEN q[1].delay + delta + carry ELSE q[i].delay
         /\ delta = 0 /\ carry = 0 => r = q
<1> DEFINE y == [q EXCEPT ![1].delay = @ + delta]
           x == [bytes |-> q[1].bytes, delay |-> q[1].delay + delta + carry]
           r == Emit(y, carry)
<1>1. Len(q) \in Nat \ {0} /\ 1 \in 1..Len(q) /\ DOMAIN q = 1..Len(q) /\ \A i \in 1..Len(q) : q[i] \in Item
  BY EmptySeq, LenProperties, ElementOfSeq
<1>2. q[1] = [bytes |-> q[1].bytes, delay |-> q[1].delay] /\ q[1].bytes \in Seq(Unit) /\ q[1].delay \in Nat
  BY <1>1 DEF Item
<1> DEFINE z == [q[1] EXCEPT !.delay = @ + delta]
<1>3. z = [bytes |-> q[1].bytes, delay |-> q[1].delay + delta] /\ z \in Item
  <2>1. \A b, t, v : [[bytes |-> b, delay |-> t] EXCEPT !.delay = v] = [bytes |-> b, delay |-> v]
    OBVIOUS
  <2>2. z = [[bytes |-> q[1].bytes, delay |-> q[1].delay] EXCEPT !.delay = q[1].delay + delta]
    BY <1>2
  <2>3. z = [bytes |-> q[1].bytes, delay |-> q[1].delay + delta]
    BY <2>1, <2>2
  <2>4. q[1].delay + delta \in Nat
    BY <1>2
  <2>. QED
    BY <1>2, <2>3, <2>4 DEF Item
<1>4. y = [q EXCEPT ![1] = z]
  OBVIOUS
<1>5. /\ y \in Seq(Item) /\ Len(y) = Len(q)
      /\ \A j \in 1..Len(q) : y[j] = IF j = 1 THEN z ELSE q[j]
  BY <1>1, <1>3, <1>4, ExceptSeq
<1> HIDE DEF y, z
<1>6. Owed(y[1], carry) = x /\ x \in Item
  <2>1. y[1] = [bytes |-> q[1].bytes, delay |-> q[1].delay + delta]
    BY <1>1, <1>3, <1>5
  <2>2. Owed(y[1], carry) = [bytes |-> q[1].bytes, delay |-> (q[1].delay + delta) + carry]
    BY <2>1 DEF Owed
  <2>3. (q[1].delay + delta) + carry = q[1].delay + delta + carry /\ q[1].delay + delta + carry \in Nat
    BY <1>2
  <2>. QED
    BY <1>2, <2>2, <2>3 DEF Item
<1>7. y # <<>> /\ Tail(y) \in Seq(Item) /\ Len(Tail(y)) = Len(q) - 1
      /\ \A i \in 1..(Len(q) - 1) : Tail(y)[i] = y[i + 1]
  <2>1. y # <<>>
    BY <1>1, <1>5, EmptySeq
  <2>. QED
    BY <1>5, <2>1, HeadTailProperties
<1> HIDE DEF x
<1>8. /\ r \in Seq(Item) /\ Len(r) = Len(q)
      /\ \A i \in 1..Len(q) : r[i] = IF i = 1 THEN x ELSE q[i]
  <2>1. r = <<x>> \o Tail(y)
    BY <1>6 DEF Emit
  <2>2. <<x>> \in Seq(Item) /\ Len(<<x>>) = 1 /\ <<x>>[1] = x
    BY <1>6
  <2>3. /\ r \in Seq(Item) /\ Len(r) = 1 + (Len(q) - 1)
        /\ \A i \in 1..(1 + (Len(q) - 1)) : r[i] = IF i <= 1 THEN <<x>>[i] ELSE Tail(y)[i - 1]
    BY <1>7, <2>1, <2>2, ConcatProperties
  <2>4. 1 + (Len(q) - 1) = Len(q)
    BY <1>1
  <2>5. ASSUME NEW i \in 1..Len(q) PROVE r[i] = IF i = 1 THEN x ELSE q[i]
    <3>1. CASE i = 1
      BY <2>2, <2>3, <2>4, <3>1
    <3>2. CASE i # 1
      <4>1. ~(i <= 1) /\ i - 1 \in 1..(Len(q) - 1) /\ (i - 1) + 1 = i
        BY <1>1, <3>2
      <4>. QED
        BY <1>5, <1>7, <2>3, <2>4, <3>2, <4>1
    <3>. QED
      BY <3>1, <3>2
  <2>. QED
    BY <2>3, <2>4, <2>5
<1> HIDE DEF r
<1>9. x.bytes = q[1].bytes /\ x.delay = q[1].delay + delta + carry
  BY DEF x
<1>10. delta = 0 /\ carry = 0 => r = q
  <2>1. delta = 0 /\ carry = 0 => x = q[1]
    BY <1>2 DEF x
  <2>2. delta = 0 /\ carry = 0 => \A i \in 1..Len(q) : r[i] = q[i]
    BY <1>8, <2>1
  <2>. QED
    BY <1>8, <2>2, SeqEqual
<1>11. \A i \in 1..Len(q) : r[i].bytes = q[i].bytes
  BY <1>8, <1>9
<1>12. \A i \in 1..Len(q) : r[i].delay = IF i = 1 THEN q[1].delay + delta + carry ELSE q[i].delay
  BY <1>8, <1>9
<1>. QED
  BY <1>8, <1>10, <1>11, <1>12 DEF r, y, Emitted

LEMMA PausedFact ==
  ASSUME NEW n \in Nat \ {0}, NEW ps \in Seq(Seq(Unit)), Len(ps) = n, NEW d \in Seq(Nat), Len(d) = n
  PROVE  /\ Paused(ps, d) \in Seq(Item) /\ Len(Paused(ps, d)) = n
         /\ \A k \in 1..n : Paused(ps, d)[k].bytes = ps[k]
         /\ \A k \in 1..n : Paused(ps, d)[k].delay = IF k = 1 THEN 0 ELSE d[k - 1]
<1> DEFINE at(k) == [bytes |-> ps[k], delay |-> IF k = 1 THEN 0 ELSE d[k - 1]]
<1>1. DOMAIN ps = 1..n
  BY LenProperties
<1>2. Paused(ps, d) = [k \in 1..n |-> at(k)]
  BY <1>1 DEF Paused
<1>3. ASSUME NEW k \in 1..n PROVE at(k) \in Item
  <2>1. ps[k] \in Seq(Unit)
    BY ElementOfSeq
  <2>2. (IF k = 1 THEN 0 ELSE d[k - 1]) \in Nat
    <3>1. k # 1 => k - 1 \in 1..n
      OBVIOUS
    <3>2. k # 1 => d[k - 1] \in Nat
      BY <3>1, ElementOfSeq
    <3>. QED
      BY <3>2
  <2>. QED
    BY <2>1, <2>2 DEF Item
<1>4. \A k \in 1..n : at(k).bytes = ps[k] /\ at(k).delay = IF k = 1 THEN 0 ELSE d[k - 1]
  OBVIOUS
<1> HIDE DEF at
<1>5. Paused(ps, d) \in Seq(Item) /\ Len(Paused(ps, d)) = n
  BY <1>2, <1>3, IsASeq
<1>. QED
  BY <1>2, <1>4, <1>5

LEMMA PiecesFact ==
  ASSUME NEW whole \in Seq(Unit), NEW c, CutOf(c, Len(whole))
  PROVE  /\ Pieces(whole, c) \in Seq(Seq(Unit)) /\ Len(Pieces(whole, c)) = Len(c) /\ Len(c) \in Nat \ {0}
         /\ \A k \in 1..Len(c) : /\ Pieces(whole, c)[k] = SubSeq(whole, Edge(c, k) + 1, c[k])
                                 /\ Len(Pieces(whole, c)[k]) = c[k] - Edge(c, k)
                                 /\ \A i \in 1..(c[k] - Edge(c, k)) : Pieces(whole, c)[k][i] = whole[Edge(c, k) + i]
<1> DEFINE at(k) == SubSeq(whole, Edge(c, k) + 1, c[k])  n == Len(c)
<1>1. Len(whole) \in Nat
  BY LenProperties
<1>2. n \in Nat \ {0} /\ DOMAIN c = 1..n
  <2>1. c \in Seq(Nat) /\ n > 0
    BY DEF CutOf
  <2>. QED
    BY <2>1, LenProperties
<1>3. ASSUME NEW k \in 1..n
      PROVE  /\ at(k) \in Seq(Unit) /\ Len(at(k)) = c[k] - Edge(c, k)
             /\ \A i \in 1..(c[k] - Edge(c, k)) : at(k)[i] = whole[Edge(c, k) + i]
  <2>1. c[k] \in 0..Len(whole) /\ Edge(c, k) \in 0..Len(whole) /\ Edge(c, k) <= c[k]
    BY <1>1, CutFact
  <2>. QED
    BY <2>1, SubFact
<1>4. Pieces(whole, c) = [k \in 1..n |-> at(k)]
  BY <1>2 DEF Pieces
<1> HIDE DEF at, n
<1>5. Pieces(whole, c) \in Seq(Seq(Unit)) /\ Len(Pieces(whole, c)) = n
  BY <1>2, <1>3, <1>4, IsASeq
<1>6. \A k \in 1..n : /\ Pieces(whole, c)[k] = at(k)
                      /\ Len(Pieces(whole, c)[k]) = c[k] - Edge(c, k)
                      /\ \A i \in 1..(c[k] - Edge(c, k)) : Pieces(whole, c)[k][i] = whole[Edge(c, k) + i]
  BY <1>3, <1>4
<1>. QED
  BY <1>2, <1>5, <1>6 DEF at, n

-----------------------------------------------------------------------------
(* What the profile at work promises of what it sends.                     *)

\* a profile: where it paces the hello, and how often it may be cut
OfStages(p) == p \in Seq(Stage) /\ Hellos(p)
ModeOf(p) ==
  [cap |-> IF p # <<>> /\ p[1].packets = "tlshello" /\ p[1].split[1] > 0 THEN p[1].split[2] ELSE 0,
   gap |-> Len(p) = 1 /\ p[1].packets = "tlshello" /\ AllDelayed(p[1])]

LEMMA ModeFact ==
  ASSUME NEW p, OfStages(p)
  PROVE  /\ ModeOf(p) \in Mode
         /\ p # <<>> => /\ Len(p) \in Nat \ {0} /\ p[1] \in Stage /\ DOMAIN p = 1..Len(p)
                        /\ \A i \in 1..Len(p) : p[i] \in Stage
         /\ p # <<>> /\ p[1].packets # "tlshello" => ModeOf(p).cap = 0 /\ ~ModeOf(p).gap
         /\ p # <<>> /\ p[1].packets = "tlshello" => Len(p) = 1 \/ Combines(p[1])
         /\ ModeOf(p).gap => p # <<>> /\ Len(p) = 1 /\ AllDelayed(p[1]) /\ p[1].packets = "tlshello"
         /\ Len(p) # 1 => ~ModeOf(p).gap
         /\ p = <<>> => ModeOf(p).cap = 0 /\ ~ModeOf(p).gap
<1>1. p \in Seq(Stage) /\ Len(p) \in Nat /\ DOMAIN p = 1..Len(p)
  BY LenProperties DEF OfStages
<1>2. p # <<>> => Len(p) \in Nat \ {0} /\ p[1] \in Stage
  <2>1. p # <<>> => Len(p) \in Nat \ {0}
    BY <1>1, EmptySeq
  <2>2. p # <<>> => 1 \in 1..Len(p)
    BY <2>1
  <2>. QED
    BY <1>1, <2>1, <2>2, ElementOfSeq
<1>3. p = <<>> => Len(p) = 0
  BY EmptySeq
<1>4. p # <<>> => p[1].split[2] \in Nat
  BY <1>2 DEF Stage, Span
<1>5. ModeOf(p) \in Mode
  <2>1. (IF p # <<>> /\ p[1].packets = "tlshello" /\ p[1].split[1] > 0 THEN p[1].split[2] ELSE 0) \in Nat
    BY <1>4
  <2>2. (Len(p) = 1 /\ p[1].packets = "tlshello" /\ AllDelayed(p[1])) \in BOOLEAN
    OBVIOUS
  <2>. QED
    BY <2>1, <2>2 DEF Mode, ModeOf
<1>6. p # <<>> /\ p[1].packets = "tlshello" => Len(p) = 1 \/ Combines(p[1])
  <2>1. p # <<>> => 1 \in DOMAIN p
    BY <1>1, <1>2
  <2>. QED
    BY <2>1 DEF OfStages, Hellos
<1>7. ModeOf(p).gap <=> Len(p) = 1 /\ p[1].packets = "tlshello" /\ AllDelayed(p[1])
  BY DEF ModeOf
<1>8. ModeOf(p).cap = IF p # <<>> /\ p[1].packets = "tlshello" /\ p[1].split[1] > 0 THEN p[1].split[2] ELSE 0
  BY DEF ModeOf
<1>9. \A i \in 1..Len(p) : p[i] \in Stage
  BY <1>1, ElementOfSeq
<1>. QED
  BY <1>1, <1>2, <1>3, <1>5, <1>6, <1>7, <1>8, <1>9

LEMMA SentLeads ==
  ASSUME NEW m \in Mode, NEW x \in Item, NEW a \in Places(m), NEW b \in Places(m),
         Leads(m, x.bytes, IF x.delay > 0 THEN [k |-> a.k, left |-> a.left, h |-> a.h, o |-> FALSE]
                                          ELSE a, b)
  PROVE  <<a, b>> \in Moves(m)[x]
<1> DEFINE c == [k |-> a.k, left |-> a.left, h |-> a.h, o |-> FALSE]
<1>1. c \in Places(m) /\ c \in Place
  BY DEF Places, Place
<1>2. Leads(m, Leaving(x), a, b)
  <2>1. CASE ~(x.delay > 0)
    BY <2>1 DEF Leaving
  <2>2. CASE x.delay > 0
    <3>1. x.bytes \in Seq(Unit) /\ <<Pause>> \in Seq(Unit) /\ Pause \in Unit
      BY UnitFact DEF Item
    <3>2. <<a, c>> \in Readings(m)[Pause]
      <4>1. Reads(m, a, Pause, c)
        BY UnitFact DEF Reads, Rests
      <4>. QED
        BY <1>1, <3>1, <4>1, ReadingsFact
    <3>3. Leads(m, <<Pause>>, a, c)
      BY <1>1, <3>2, ChainOne DEF Leads, Places
    <3>4. Leads(m, x.bytes, c, b)
      BY <2>2
    <3>. QED
      BY <1>1, <2>2, <3>1, <3>3, <3>4, ChainConcat DEF Leads, Leaving
  <2>. QED
    BY <2>1, <2>2
<1>. QED
  BY <1>2, MovesFact

\* what follows the hello in its write
LEMMA BehindLeads ==
  ASSUME NEW m \in Mode, NEW a \in Places(m), a.k = Hello, a.left = 0, NEW delay \in Nat,
         m.gap => delay > 0
  PROVE  LET tail == SubSeq(Buffer(1), Hello + 2, Len(Buffer(1)))
             q == IF tail = <<>> THEN <<>> ELSE <<[bytes |-> tail, delay |-> delay]>>
         IN q \in Seq(Item) /\ \E b \in Places(m) : ItemsLead(m, q, a, b) /\ b.k = Before(2) /\ b.left = 0
<1> DEFINE whole == Buffer(1)  all == Len(whole)  tail == SubSeq(whole, Hello + 2, all)
           x == [bytes |-> tail, delay |-> delay]
           q == IF tail = <<>> THEN <<>> ELSE <<x>>
<1>1. whole \in Seq(Unit) /\ all \in Nat /\ Hello + 1 \in 1..all /\ (Hello + 1 = all => Before(2) = Hello)
  BY HelloBuffer
<1>2. Hello \in Nat
  BY HelloFact
<1>3. tail \in Seq(Unit) /\ Len(tail) = all - (Hello + 1)
  <2>1. Hello + 1 \in 0..all /\ all \in 0..all /\ Hello + 1 <= all /\ (Hello + 1) + 1 = Hello + 2
    BY <1>1, <1>2
  <2> HIDE DEF whole
  <2>. QED
    BY <1>1, <2>1, SubFact
<1> HIDE DEF whole, all, tail
<1>4. CASE tail = <<>>
  <2>1. Hello + 1 = all
    <3>1. Len(tail) = 0
      BY <1>4, EmptySeq
    <3>. QED
      BY <1>1, <1>2, <1>3, <3>1
  <2>2. ItemsLead(m, q, a, a)
    BY <1>4, ChainNil DEF ItemsLead, Places
  <2>3. q \in Seq(Item)
    BY <1>4, EmptySeq
  <2>. QED
    BY <1>1, <2>1, <2>2, <2>3 DEF tail, whole, all
<1>5. CASE tail # <<>>
  <2>1. all > Hello + 1
    <3>1. Len(tail) # 0
      BY <1>3, <1>5, EmptySeq
    <3>. QED
      BY <1>1, <1>2, <1>3, <3>1
  <2> DEFINE a0 == IF delay > 0 THEN [k |-> a.k, left |-> a.left, h |-> a.h, o |-> FALSE] ELSE a
  <2>2. a0 \in Places(m) /\ a0.k = Hello /\ a0.left = 0 /\ (m.gap => ~a0.o)
    BY DEF Places, Place
  <2>3. PICK b \in Places(m) : Leads(m, tail, a0, b) /\ b.k = Before(2) /\ b.left = 0
    BY <2>1, <2>2, HelloTail DEF tail, whole, all
  <2>4. x \in Item /\ x.bytes = tail /\ x.delay = delay
    BY <1>3 DEF Item
  <2>5. <<a, b>> \in Moves(m)[x]
    BY <2>3, <2>4, SentLeads
  <2>6. ItemsLead(m, <<x>>, a, b)
    BY <2>5, ChainOne DEF ItemsLead, Places
  <2>7. <<x>> \in Seq(Item)
    BY <2>4
  <2>. QED
    BY <1>5, <2>3, <2>6, <2>7 DEF tail, whole, all
<1>. QED
  BY <1>4, <1>5

\* the hello in records of its own making, a pause before each but the first
LEMMA SplitLeads ==
  ASSUME NEW m \in Mode, NEW u \in Seq(Unit), Len(u) = Hello, \A j \in 1..Hello : u[j] = Byte(j),
         NEW c, EndsOf(c, Hello), m.cap = 0 \/ Len(c) <= m.cap,
         NEW d \in Seq(Nat), Len(d) = Len(c), m.gap => \A k \in 1..Len(c) : d[k] > 0,
         NEW a \in Places(m), a.k = 0, a.left = 0, a.h = 0, a.o = FALSE
  PROVE  LET ps == Pieces(u, c)  q == Paused([k \in DOMAIN ps |-> Rewrapped(ps[k])], d)
             b == [k |-> Hello, left |-> 0, h |-> Len(c), o |-> m.gap]
         IN q \in Seq(Item) /\ Len(q) = Len(c) /\ b \in Places(m) /\ ItemsLead(m, q, a, b)
<1> DEFINE ps == Pieces(u, c)  at(k) == Rewrapped(ps[k])  rs == [k \in DOMAIN ps |-> Rewrapped(ps[k])]
           q == Paused(rs, d)  n == Len(c)
           b(k) == [k |-> IF k = 0 THEN 0 ELSE c[k], left |-> 0, h |-> k, o |-> IF k = 0 THEN FALSE ELSE m.gap]
<1>1. CutOf(c, Hello) /\ Hello \in Nat
  BY HelloFact DEF EndsOf
<1>2. /\ ps \in Seq(Seq(Unit)) /\ Len(ps) = n /\ n \in Nat \ {0} /\ DOMAIN ps = 1..n
      /\ \A k \in 1..n : /\ ps[k] \in Seq(Unit) /\ Len(ps[k]) = c[k] - Edge(c, k)
                         /\ \A i \in 1..(c[k] - Edge(c, k)) : ps[k][i] = u[Edge(c, k) + i]
  <2>1. /\ ps \in Seq(Seq(Unit)) /\ Len(ps) = n /\ n \in Nat \ {0}
        /\ \A k \in 1..n : /\ ps[k] = SubSeq(u, Edge(c, k) + 1, c[k]) /\ Len(ps[k]) = c[k] - Edge(c, k)
                           /\ \A i \in 1..(c[k] - Edge(c, k)) : ps[k][i] = u[Edge(c, k) + i]
    BY <1>1, PiecesFact
  <2>2. DOMAIN ps = 1..n
    BY <2>1, LenProperties
  <2>3. \A k \in 1..n : ps[k] \in Seq(Unit)
    BY <2>1, ElementOfSeq
  <2>. QED
    BY <2>1, <2>2, <2>3
<1> HIDE DEF ps
<1>3. \A k \in 1..n : /\ c[k] \in 1..Hello /\ Edge(c, k) \in 0..Hello /\ Edge(c, k) < c[k]
                      /\ k > 1 => Edge(c, k) = c[k - 1]
  BY <1>1, EndsFact
<1>4. Edge(c, 1) = 0 /\ c[n] = Hello
  BY <1>1, EndsFact
<1>5. m.gap \in BOOLEAN /\ m.cap \in Nat
  BY DEF Mode
<1>6. \A k \in 0..n : b(k) \in Places(m)
  <2> TAKE k \in 0..n
  <2>1. k \in Nat
    BY <1>2
  <2>2. CASE k = 0
    <3>1. b(k) = [k |-> 0, left |-> 0, h |-> k, o |-> FALSE]
      BY <2>2
    <3>. QED
      BY <2>1, <3>1 DEF Places, Place
  <2>3. CASE k # 0
    <3>1. k \in 1..n
      BY <1>2, <2>3
    <3>2. c[k] \in Nat
      BY <1>3, <3>1
    <3>3. b(k) = [k |-> c[k], left |-> 0, h |-> k, o |-> m.gap]
      BY <2>3
    <3>. QED
      BY <1>5, <2>1, <3>2, <3>3 DEF Places, Place
  <2>. QED
    BY <2>2, <2>3
<1>7. ASSUME NEW k \in 1..n, NEW a1 \in Places(m), a1.k = Edge(c, k), a1.left = 0, a1.h = k - 1,
             m.gap => ~a1.o
      PROVE  Rewrapped(ps[k]) \in Seq(Unit) /\ Leads(m, Rewrapped(ps[k]), a1, b(k))
  <2> DEFINE p1 == ps[k]
  <2>1. p1 \in Seq(Unit) /\ Len(p1) = c[k] - Edge(c, k) /\ Len(p1) > 0 /\ k # 0
        /\ Edge(c, k) \in Nat /\ c[k] \in Nat /\ c[k] <= Hello
    BY <1>1, <1>2, <1>3
  <2>2. \A i \in 1..Len(p1) : p1[i] = Byte(a1.k + i)
    <3> TAKE i \in 1..Len(p1)
    <3>1. Edge(c, k) + i \in 1..Hello
      BY <1>1, <2>1
    <3>2. p1[i] = u[Edge(c, k) + i]
      BY <1>2, <2>1
    <3>. QED
      BY <1>7, <3>1, <3>2
  <2>3. m.cap = 0 \/ a1.h + 1 <= m.cap
    BY <1>2, <1>5, <1>7
  <2>4. m.gap /\ a1.o => a1.k > Hello \/ a1.k >= Before(2)
    BY <1>7
  <2> HIDE DEF p1
  <2>5. /\ Rewrapped(p1) \in Seq(Unit)
        /\ Leads(m, Rewrapped(p1), a1, [k |-> a1.k + Len(p1), left |-> 0, h |-> a1.h + 1, o |-> m.gap])
    BY <1>7, <2>1, <2>2, <2>3, <2>4, RewrappedLeads
  <2>6. a1.k + Len(p1) = c[k] /\ a1.h + 1 = k
    BY <1>2, <1>7, <2>1
  <2>7. b(k) = [k |-> a1.k + Len(p1), left |-> 0, h |-> a1.h + 1, o |-> m.gap]
    BY <2>1, <2>6
  <2>. QED
    BY <2>5, <2>7 DEF p1
<1>8. b(0) = a /\ b(n) = [k |-> Hello, left |-> 0, h |-> n, o |-> m.gap]
  <2>1. a = [k |-> a.k, left |-> a.left, h |-> a.h, o |-> a.o]
    BY DEF Places, Place
  <2>2. n # 0
    BY <1>2
  <2>. QED
    BY <1>4, <2>1, <2>2
\* the place before piece k, and the pause
<1>9. ASSUME NEW k \in 1..n
      PROVE  /\ b(k - 1).k = Edge(c, k) /\ b(k - 1).left = 0 /\ b(k - 1).h = k - 1
             /\ (k = 1 => ~b(k - 1).o) /\ k - 1 \in 0..n /\ k \in 0..n
  <2>1. CASE k = 1
    BY <1>2, <1>4, <2>1
  <2>2. CASE k # 1
    <3>1. k > 1 /\ k - 1 # 0 /\ k - 1 \in 0..n /\ k \in 0..n
      BY <1>2, <2>2
    <3>2. Edge(c, k) = c[k - 1]
      BY <1>3, <3>1
    <3>. QED
      BY <2>2, <3>1, <3>2
  <2>. QED
    BY <2>1, <2>2
<1> HIDE DEF b
<1>10. rs \in Seq(Seq(Unit)) /\ Len(rs) = n /\ \A k \in 1..n : rs[k] = at(k)
  <2>1. \A k \in 1..n : at(k) \in Seq(Unit)
    <3> TAKE k \in 1..n
    <3>1. ps[k] \in Seq(Unit) /\ Len(ps[k]) = c[k] - Edge(c, k) /\ c[k] - Edge(c, k) \in Nat
      BY <1>2, <1>3
    <3>2. <<Header(Len(ps[k]))>> \in Seq(Unit)
      BY <3>1, UnitFact
    <3>. QED
      BY <3>1, <3>2, ConcatProperties DEF Rewrapped
  <2>2. rs = [k \in 1..n |-> at(k)]
    BY <1>2
  <2> HIDE DEF rs, at
  <2>3. rs \in Seq(Seq(Unit)) /\ Len(rs) = n
    BY <1>2, <2>1, <2>2, IsASeq
  <2>. QED
    BY <2>2, <2>3
<1> HIDE DEF rs
<1>11. /\ q \in Seq(Item) /\ Len(q) = n /\ \A k \in 1..n : q[k].bytes = rs[k]
       /\ \A k \in 1..n : q[k].delay = IF k = 1 THEN 0 ELSE d[k - 1]
  BY <1>2, <1>10, PausedFact
<1> HIDE DEF q
<1>12. ASSUME NEW k \in 1..n PROVE <<b(k - 1), b(k)>> \in Moves(m)[q[k]]
  <2>1. q[k] \in Item /\ q[k].bytes = Rewrapped(ps[k]) /\ q[k].delay = IF k = 1 THEN 0 ELSE d[k - 1]
    BY <1>10, <1>11, ElementOfSeq
  <2> DEFINE a1 == IF q[k].delay > 0
                   THEN [k |-> b(k - 1).k, left |-> b(k - 1).left, h |-> b(k - 1).h, o |-> FALSE]
                   ELSE b(k - 1)
  <2>2. b(k - 1) \in Places(m) /\ b(k) \in Places(m)
    BY <1>6, <1>9
  <2>3. a1 \in Places(m) /\ a1.k = Edge(c, k) /\ a1.left = 0 /\ a1.h = k - 1
    <3>1. b(k - 1).k = Edge(c, k) /\ b(k - 1).left = 0 /\ b(k - 1).h = k - 1
      BY <1>9
    <3>2. b(k - 1) \in Place
      BY <2>2 DEF Places
    <3>3. [k |-> b(k - 1).k, left |-> b(k - 1).left, h |-> b(k - 1).h, o |-> FALSE] \in Places(m)
      BY <3>2 DEF Places, Place
    <3>. QED
      BY <2>2, <3>1, <3>3
  <2>4. m.gap => ~a1.o
    <3>1. CASE k = 1
      <4>1. ~(q[k].delay > 0)
        BY <2>1, <3>1
      <4>. QED
        BY <1>9, <3>1, <4>1
    <3>2. CASE k # 1
      <4>1. k - 1 \in 1..n
        BY <1>2, <3>2
      <4>2. m.gap => q[k].delay > 0
        BY <2>1, <3>2, <4>1
      <4>. QED
        BY <4>2
    <3>. QED
      BY <3>1, <3>2
  <2> HIDE DEF a1
  <2>5. Leads(m, q[k].bytes, a1, b(k))
    BY <1>7, <2>1, <2>3, <2>4
  <2>. QED
    BY <2>1, <2>2, <2>5, SentLeads DEF a1
<1> DEFINE f == [k \in 0..n |-> b(k)]
<1>13. f \in [0..n -> Place] /\ f[0] = b(0) /\ f[n] = b(n)
  BY <1>2, <1>6 DEF Places
<1>14. \A k \in 1..n : <<f[k - 1], f[k]>> \in Moves(m)[q[k]]
  <2> TAKE k \in 1..n
  <2>1. f[k - 1] = b(k - 1) /\ f[k] = b(k)
    BY <1>9
  <2>. QED
    BY <1>12, <2>1
<1>15. ItemsLead(m, q, b(0), b(n))
  BY <1>11, <1>13, <1>14 DEF ItemsLead, Chain
<1>16. n \in 0..n
  BY <1>2
<1>. QED
  BY <1>6, <1>8, <1>11, <1>15, <1>16 DEF ps, rs, q, b

LEMMA HelloLeads ==
  ASSUME OfStages(profile), profile # <<>>, profile[1].packets = "tlshello",
         NEW cap \in Between(profile[1].split), NEW c \in Cuts(profile[1], Hello, cap),
         NEW d \in Draws(profile[1].delays, Len(c)),
         NEW a \in Places(ModeOf(profile)), a.k = 0, a.left = 0, a.h = 0, a.o = FALSE
  PROVE  LET q == HelloItems(profile[1], Buffer(1), c, d)  m == ModeOf(profile)
         IN /\ q \in Seq(Item) /\ q # <<>> /\ Last(d) \in Nat /\ Hello = Buffer(1)[1].n
            /\ \E b \in Places(m) : ItemsLead(m, q, a, b) /\ b.k = Before(2) /\ b.left = 0
<1> DEFINE m == ModeOf(profile)  s == profile[1]  whole == Buffer(1)  all == Len(whole)
           u == SubSeq(whole, 2, Hello + 1)  tail == SubSeq(whole, Hello + 2, all)
           q == HelloItems(s, whole, c, d)
           Behind(delay) == IF tail = <<>> THEN <<>> ELSE <<[bytes |-> tail, delay |-> delay]>>
<1>1. /\ m \in Mode /\ s \in Stage /\ (Len(profile) = 1 \/ Combines(s))
      /\ (m.gap => Len(profile) = 1 /\ AllDelayed(s))
  BY ModeFact
<1>2. /\ s.lengths \in Seq(Span) \ {<<>>} /\ s.delays \in Seq(Span) \ {<<>>} /\ s.split \in Span
  BY <1>1 DEF Stage
<1>3. m.cap = 0 \/ (cap # 0 /\ cap <= m.cap)
  <2>1. cap \in Nat /\ cap >= s.split[1] /\ cap <= s.split[2] /\ s.split[1] \in Nat
    BY <1>2, BetweenFact
  <2>2. m.cap = 0 \/ (s.split[1] > 0 /\ m.cap = s.split[2])
    BY DEF ModeOf
  <2>. QED
    BY <2>1, <2>2
<1>4. CutOf(c, Hello) /\ EndsOf(c, Hello) /\ (cap = 0 \/ Len(c) <= cap)
  BY HelloFact, CutsFact
<1>5. Len(c) \in Nat \ {0} /\ c \in Seq(Nat)
  BY <1>4, LenProperties DEF CutOf
<1>6. m.cap = 0 \/ Len(c) <= m.cap
  <2>1. cap \in Nat /\ m.cap \in Nat
    BY <1>1, <1>2, BetweenFact DEF Mode
  <2>. QED
    BY <1>3, <1>4, <1>5, <2>1
<1>7. /\ d \in Seq(Nat) /\ Len(d) = Len(c) /\ \A k \in 1..Len(c) : d[k] \in Nat
      /\ m.gap => \A k \in 1..Len(c) : d[k] > 0
  BY <1>1, <1>2, <1>5, DrawFact DEF AllDelayed
<1>8. Last(d) \in Nat /\ (m.gap => Last(d) > 0)
  <2>1. Last(d) = d[Len(c)] /\ Len(c) \in 1..Len(c)
    BY <1>5, <1>7 DEF Last
  <2>. QED
    BY <1>7, <2>1
<1>9. /\ whole \in Seq(Unit) /\ all \in Nat /\ Hello + 1 \in 1..all /\ whole[1] = Header(Hello)
      /\ \A j \in 1..Hello : whole[j + 1] = Byte(j)
  BY HelloBuffer
<1>10. whole[1].n = Hello
  BY <1>9, UnitFact
<1>11. Hello \in Nat /\ Hello > 0
  BY HelloFact
<1> HIDE DEF whole
<1>12. u \in Seq(Unit) /\ Len(u) = Hello /\ \A j \in 1..Hello : u[j] = Byte(j)
  <2>1. 1 \in 0..all /\ Hello + 1 \in 0..all /\ 1 <= Hello + 1 /\ (Hello + 1) - 1 = Hello /\ 1 + 1 = 2
    BY <1>9, <1>11
  <2>2. u \in Seq(Unit) /\ Len(u) = Hello /\ \A j \in 1..Hello : u[j] = whole[1 + j]
    BY <1>9, <2>1, SubFact
  <2>3. \A j \in 1..Hello : 1 + j = j + 1
    OBVIOUS
  <2>. QED
    BY <1>9, <2>2, <2>3
<1> HIDE DEF u, all, tail
<1>13. q = IF Combines(s) THEN <<[bytes |-> Framed(u, c), delay |-> 0]>> \o Behind(0)
           ELSE Paused([k \in DOMAIN Pieces(u, c) |-> Rewrapped(Pieces(u, c)[k])], d)
                  \o (IF Len(profile) = 1 THEN Behind(Last(d)) ELSE <<>>)
  BY <1>10 DEF HelloItems, u, tail, all
<1>14. ASSUME NEW b \in Places(m), b.k = Hello, b.left = 0, NEW delay \in Nat, m.gap => delay > 0
       PROVE  /\ Behind(delay) \in Seq(Item)
              /\ \E z \in Places(m) : ItemsLead(m, Behind(delay), b, z) /\ z.k = Before(2) /\ z.left = 0
  BY <1>1, <1>14, BehindLeads DEF tail, all, whole
<1> HIDE DEF Behind
<1>15. CASE Combines(s)
  <2>1. ~m.gap
    <3>1. Len(s.delays) = 1 /\ s.delays[1][2] = 0
      BY <1>15 DEF Combines
    <3>2. 1 \in DOMAIN s.delays /\ s.delays[1] \in Span
      <4>1. 1 \in 1..Len(s.delays) /\ s.delays \in Seq(Span)
        BY <1>2, <3>1
      <4>. QED
        BY <4>1, LenProperties, ElementOfSeq
    <3>3. s.delays[1][1] \in Nat /\ s.delays[1][1] <= 0
      BY <3>1, <3>2 DEF Span
    <3>. QED
      BY <1>1, <3>2, <3>3 DEF AllDelayed
  <2> DEFINE z0 == 0  n == Hello + Len(c)
             b == [k |-> z0 + Hello, left |-> 0, h |-> a.h + (Len(c) - PartAt(c, z0)),
                   o |-> IF Hello + Len(c) > z0 THEN m.gap ELSE a.o]
  <2>2. Owes(c, z0) = 0 /\ PartAt(c, z0) = 0 /\ Had(c, z0) = 0 /\ z0 \in Nat /\ z0 = 0
    BY StartOfFramed
  <2> HIDE DEF z0
  <2>3. /\ z0 \in 0..(Hello + Len(c)) /\ a.k = z0 + Had(c, z0) /\ PartAt(c, z0) \in Nat
        /\ m.cap = 0 \/ a.k >= Hello \/ a.h + (Len(c) - PartAt(c, z0)) <= m.cap
        /\ \A j \in 1..Hello : u[j] = Byte(z0 + j)
    <3>1. \A j \in 1..Hello : z0 + j = j
      BY <2>2
    <3>. QED
      BY <1>5, <1>6, <1>11, <1>12, <2>2, <3>1
  <2>4. m.gap => a.k >= Hello /\ (a.o => a.k > Hello \/ a.k >= Before(2))
    BY <2>1
  <2> HIDE DEF m
  <2>16. a \in Places(m)
    BY DEF m
  <2>17. EndsOf(c, Hello) /\ Hello \in Nat /\ u \in Seq(Unit) /\ Len(u) = Hello /\ m \in Mode
    BY <1>1, <1>4, <1>11, <1>12
  <2> HIDE DEF s, q, n
  <2>5. b \in Places(m) /\ Leads(m, SubSeq(Framed(u, c), z0 + 1, Hello + Len(c)), a, b)
    <3>1. Owes(c, z0) = 0 /\ z0 \in Nat
      BY <2>2
    <3>. QED
      BY <2>3, <2>4, <2>16, <2>17, <3>1, FramedLeads
  <2>6. Framed(u, c) \in Seq(Unit) /\ Len(Framed(u, c)) = Hello + Len(c)
    BY <1>4, <1>11, <1>12, FramedFact
  <2>7. Leads(m, Framed(u, c), a, b)
    <3>1. z0 + 1 = 1
      BY <2>2
    <3>2. SubSeq(Framed(u, c), 1, Hello + Len(c)) = Framed(u, c)
      BY <2>6, SubSeqFull
    <3>. QED
      BY <2>5, <3>1, <3>2
  <2>8. b.k = Hello /\ b.left = 0
    BY <1>11, <2>2
  <2> HIDE DEF b
  <2> DEFINE x == [bytes |-> Framed(u, c), delay |-> 0]
  <2>9. x \in Item /\ x.bytes = Framed(u, c) /\ ~(x.delay > 0)
    BY <2>6 DEF Item
  <2> HIDE DEF x
  <2>10. <<a, b>> \in Moves(m)[x]
    BY <1>1, <2>5, <2>7, <2>9, SentLeads DEF m
  <2>11. ItemsLead(m, <<x>>, a, b) /\ <<x>> \in Seq(Item)
    BY <2>5, <2>9, <2>10, ChainOne DEF ItemsLead, Places, m
  <2>12. Behind(0) \in Seq(Item) /\ \E z \in Places(m) : ItemsLead(m, Behind(0), b, z) /\ z.k = Before(2) /\ z.left = 0
    BY <1>14, <2>1, <2>5, <2>8 DEF m
  <2>13. q = <<x>> \o Behind(0)
    BY <1>13, <1>15 DEF x, q, s
  <2>14. q \in Seq(Item) /\ q # <<>>
    BY <2>11, <2>12, <2>13, ConcatProperties, ConcatSimplifications, EmptySeq
  <2>15. \E z \in Places(m) : ItemsLead(m, q, a, z) /\ z.k = Before(2) /\ z.left = 0
    <3>1. PICK z \in Places(m) : ItemsLead(m, Behind(0), b, z) /\ z.k = Before(2) /\ z.left = 0
      BY <2>12
    <3>2. b \in Place
      BY <2>5 DEF Places
    <3>3. ItemsLead(m, q, a, z)
      BY <2>11, <2>12, <2>13, <3>1, <3>2, ChainConcat DEF ItemsLead
    <3>. QED
      BY <3>1, <3>3
  <2>. QED
    BY <1>8, <1>10, <2>14, <2>15 DEF m, whole, q, s
<1>16. CASE ~Combines(s)
  <2> DEFINE ps == Pieces(u, c)  q1 == Paused([k \in DOMAIN ps |-> Rewrapped(ps[k])], d)
             b == [k |-> Hello, left |-> 0, h |-> Len(c), o |-> m.gap]
  <2>1. q1 \in Seq(Item) /\ Len(q1) = Len(c) /\ b \in Places(m) /\ ItemsLead(m, q1, a, b)
    BY <1>1, <1>4, <1>6, <1>7, <1>12, SplitLeads
  <2>2. b.k = Hello /\ b.left = 0
    OBVIOUS
  <2>3. q = q1 \o Behind(Last(d))
    BY <1>1, <1>13, <1>16
  <2> HIDE DEF b, q1
  <2>4. /\ Behind(Last(d)) \in Seq(Item)
        /\ \E z \in Places(m) : ItemsLead(m, Behind(Last(d)), b, z) /\ z.k = Before(2) /\ z.left = 0
    BY <1>8, <1>14, <2>1, <2>2
  <2>5. q1 # <<>>
    BY <1>5, <2>1, EmptySeq
  <2>6. q \in Seq(Item) /\ q # <<>>
    BY <2>1, <2>3, <2>4, <2>5, ConcatProperties, ConcatSimplifications
  <2>7. PICK z \in Places(m) : ItemsLead(m, Behind(Last(d)), b, z) /\ z.k = Before(2) /\ z.left = 0
    BY <2>4
  <2>8. b \in Place
    BY <2>1 DEF Places
  <2>9. ItemsLead(m, q, a, z)
    BY <2>1, <2>3, <2>4, <2>7, <2>8, ChainConcat DEF ItemsLead
  <2>. QED
    BY <1>8, <1>10, <2>6, <2>7, <2>9 DEF whole
<1>. QED
  BY <1>15, <1>16

LEMMA HeadFact ==
  ASSUME NEW S, NEW q \in Seq(S), q # <<>>
  PROVE  /\ q[1] \in S /\ Tail(q) \in Seq(S) /\ q = <<q[1]>> \o Tail(q) /\ <<q[1]>> \in Seq(S)
<1>1. Len(q) \in Nat \ {0} /\ 1 \in 1..Len(q) /\ q[1] \in S
  BY EmptySeq, ElementOfSeq
<1>2. Tail(q) \in Seq(S) /\ Len(Tail(q)) = Len(q) - 1 /\ \A i \in 1..Len(Tail(q)) : Tail(q)[i] = q[i + 1]
  BY HeadTailProperties
<1>3. <<q[1]>> \in Seq(S) /\ Len(<<q[1]>>) = 1 /\ <<q[1]>>[1] = q[1]
  BY <1>1
<1> DEFINE r == <<q[1]>> \o Tail(q)
<1>4. /\ r \in Seq(S) /\ Len(r) = 1 + Len(Tail(q))
      /\ \A i \in 1..(1 + Len(Tail(q))) : r[i] = IF i <= 1 THEN <<q[1]>>[i] ELSE Tail(q)[i - 1]
  BY <1>2, <1>3, ConcatProperties
<1>5. Len(r) = Len(q)
  BY <1>1, <1>2, <1>4
<1>6. ASSUME NEW i \in 1..Len(q) PROVE r[i] = q[i]
  <2>1. CASE i = 1
    BY <1>1, <1>2, <1>3, <1>4, <2>1
  <2>2. CASE i # 1
    <3>1. ~(i <= 1) /\ i - 1 \in 1..Len(Tail(q)) /\ (i - 1) + 1 = i /\ i \in 1..(1 + Len(Tail(q)))
      BY <1>1, <1>2, <2>2
    <3>. QED
      BY <1>2, <1>4, <3>1
  <2>. QED
    BY <2>1, <2>2
<1>7. r = q
  BY <1>4, <1>5, <1>6, SeqEqual
<1>. QED
  BY <1>1, <1>2, <1>3, <1>7

LEMMA ItemsHead ==
  ASSUME NEW m, NEW q \in Seq(Item), q # <<>>, NEW a \in Place, NEW c \in Place
  PROVE  ItemsLead(m, q, a, c) <=> \E b \in Place : <<a, b>> \in Moves(m)[q[1]] /\ ItemsLead(m, Tail(q), b, c)
<1>1. q[1] \in Item /\ Tail(q) \in Seq(Item) /\ q = <<q[1]>> \o Tail(q) /\ <<q[1]>> \in Seq(Item)
  BY HeadFact
<1>2. ItemsLead(m, q, a, c)
        <=> \E b \in Place : ItemsLead(m, <<q[1]>>, a, b) /\ ItemsLead(m, Tail(q), b, c)
  BY <1>1, ChainConcat DEF ItemsLead
<1>3. \A b \in Place : ItemsLead(m, <<q[1]>>, a, b) <=> <<a, b>> \in Moves(m)[q[1]]
  BY ChainOne DEF ItemsLead
<1>. QED
  BY <1>2, <1>3

\* a piece cut otherwise than as a hello, or not at all
LEMMA PlainLeads ==
  ASSUME NEW m \in Mode, ~m.gap, NEW x \in Item, NEW a, NEW b, <<a, b>> \in Moves(m)[x],
         NEW q \in Seq(Item),
         \/ Len(q) = 1 /\ q[1].bytes = x.bytes
         \/ \E c : /\ CutOf(c, Len(x.bytes)) /\ Len(q) = Len(c)
                   /\ \A k \in 1..Len(q) : q[k].bytes = SubSeq(x.bytes, Edge(c, k) + 1, c[k])
  PROVE  ItemsLead(m, q, a, b)
<1>1. a \in Places(m) /\ b \in Places(m) /\ a \in Place /\ b \in Place
  BY MovesFact DEF Places
<1>2. CASE Len(q) = 1 /\ q[1].bytes = x.bytes
  <2>1. <<x>> \in Seq(Item) /\ Len(<<x>>) = 1 /\ <<x>>[1] = x
    OBVIOUS
  <2>2. ItemsLead(m, <<x>>, a, b)
    BY <1>1, ChainOne DEF ItemsLead
  <2>3. \A i \in 1..Len(<<x>>) : q[i].bytes = <<x>>[i].bytes
    BY <1>2, <2>1
  <2>. QED
    BY <1>2, <2>1, <2>2, <2>3, Redelayed
<1>3. CASE \E c : /\ CutOf(c, Len(x.bytes)) /\ Len(q) = Len(c)
                  /\ \A k \in 1..Len(q) : q[k].bytes = SubSeq(x.bytes, Edge(c, k) + 1, c[k])
  <2>1. PICK c : /\ CutOf(c, Len(x.bytes)) /\ Len(q) = Len(c)
                 /\ \A k \in 1..Len(q) : q[k].bytes = SubSeq(x.bytes, Edge(c, k) + 1, c[k])
    BY <1>3
  <2> DEFINE y == [bytes |-> x.bytes, delay |-> 0]
  <2>2. x.bytes \in Seq(Unit) /\ y \in Item /\ y.bytes = x.bytes /\ Leaving(y) = x.bytes
    BY DEF Item, Leaving
  <2>3. <<a, b>> \in Moves(m)[y]
    BY <2>2, SameMoves
  <2>4. Leads(m, x.bytes, a, b)
    BY <2>2, <2>3, MovesFact
  <2>. QED
    BY <1>1, <2>1, <2>2, <2>4, PiecesLead
<1>. QED
  BY <1>2, <1>3

-----------------------------------------------------------------------------
(* The invariant of a connection.                                          *)

Current == ModeOf(profile)
Zero == [k |-> 0, left |-> 0, h |-> 0, o |-> FALSE]
\* the write has not come to a stage
Uncut == stage = 1 /\ todo # <<>>
HelloFirst == profile # <<>> /\ profile[1].packets = "tlshello"

\* types, and how far the parts of a connection agree
WriterOK ==
  /\ OfStages(profile) /\ stage \in Nat /\ (stage <= Len(profile) \/ (stage = 1 /\ profile = <<>>))
  /\ call \in 1..(Len(Flights) + 1) /\ flushed \in BOOLEAN
  /\ (~flushed \/ step \in {"connect", "handshake", "request", "server", "hold"}) => call <= Len(Flights)
  /\ counts \in [DOMAIN profile -> Nat] /\ carries \in [DOMAIN profile -> Nat]
  /\ todo \in Seq(Item) /\ out \in Seq(Item) /\ queue \in Seq(Item) /\ wire \in Seq(Unit)
  /\ flushed \/ stage # 0 => queue = <<>>
  /\ stage # 0 => ~flushed
  /\ Uncut => todo = <<[bytes |-> Buffer(call), delay |-> 0]>> /\ out = <<>>
  /\ call = 1 /\ (flushed \/ Uncut) => wire = <<>>
  /\ HelloFirst => counts[1] = IF flushed \/ Uncut THEN call - 1 ELSE call
  /\ Current.gap => carries[1] = 0

\* what has left leads to a place, and what is under way leads on from there to
\* the end of the write
Flow ==
  \E x \in Places(Current) :
    /\ Leads(Current, wire, Zero, x) /\ x.k >= Before(call)
    /\ stage = 0 => \E y \in Places(Current) : /\ ItemsLead(Current, queue, x, y) /\ y.left = 0
                                         /\ y.k = Before(IF flushed THEN call ELSE call + 1)
    /\ Uncut => x.k = Before(call) /\ x.left = 0
    /\ stage # 0 /\ ~Uncut =>
         \E y, z \in Places(Current) : /\ ItemsLead(Current, out, x, y) /\ ItemsLead(Current, todo, y, z)
                                 /\ z.left = 0 /\ z.k = Before(call + 1)

WInv == WriterOK /\ Flow

\* what the stage at work may make of the piece at hand
Made(q) ==
  LET s == profile[stage]  item == todo[1]  count == counts[stage] + 1 IN
  \/ q = <<[item EXCEPT !.delay = 0]>> /\ ~Matches(s, item.bytes, count)
  \/ /\ s.packets = "tlshello" /\ stage = 1 /\ item.bytes = Buffer(1) /\ call = 1 /\ Uncut
     /\ \E cap \in Between(s.split) :
        \E c \in Cuts(s, Hello, cap) :
        \E d \in Draws(s.delays, Len(c)) : q = HelloItems(s, item.bytes, c, d)
  \/ /\ s.packets # "tlshello"
     /\ \E c : /\ CutOf(c, Len(item.bytes)) /\ Len(q) = Len(c)
               /\ \A k \in 1..Len(q) : q[k].bytes = SubSeq(item.bytes, Edge(c, k) + 1, c[k])

LEMMA CutEmits ==
  ASSUME WriterOK, Cut
  PROVE  \E q \in Seq(Item), trailing \in Nat, carry \in Nat :
           /\ q # <<>> /\ carry = carries[stage] /\ Made(q)
           /\ out' = out \o Emitted(q, todo[1].delay, carry)
           /\ carries' = [carries EXCEPT ![stage] = trailing]
           /\ profile[stage].packets = "tlshello" /\ Current.gap => trailing = 0
<1> DEFINE s == profile[stage]  item == todo[1]  count == counts[stage] + 1
           Passes(items, trailing) ==
             /\ out' = out \o Emitted(items, item.delay, carries[stage])
             /\ carries' = [carries EXCEPT ![stage] = trailing]
<1>1. /\ stage \in DOMAIN profile /\ todo # <<>> /\ profile # <<>> /\ stage \in 1..Len(profile)
      /\ s \in Stage /\ Current \in Mode /\ OfStages(profile) /\ carries[stage] \in Nat
  <2>1. stage \in DOMAIN profile /\ todo # <<>> /\ OfStages(profile)
    BY DEF Cut, WriterOK
  <2>2. DOMAIN profile = 1..Len(profile)
    BY <2>1, LenProperties DEF OfStages
  <2>3. profile # <<>>
    BY <2>1, <2>2, EmptySeq
  <2>. QED
    BY <2>1, <2>2, <2>3, ModeFact DEF WriterOK, Current
<1>2. item \in Item /\ item.bytes \in Seq(Unit) /\ Len(item.bytes) \in Nat
  <2>1. item \in Item
    BY <1>1, HeadFact DEF WriterOK
  <2>. QED
    BY <2>1, LenProperties DEF Item
<1>3. s.lengths \in Seq(Span) \ {<<>>} /\ s.delays \in Seq(Span) \ {<<>>} /\ s.split \in Span
  BY <1>1 DEF Stage
<1>4. CASE ~Matches(s, item.bytes, count)
  <2> DEFINE y == [item EXCEPT !.delay = 0]
  <2>1. Passes(<<y>>, 0)
    BY <1>4 DEF Cut, Emitted
  <2>2. y \in Item
    BY <1>2 DEF Item
  <2>3. <<y>> \in Seq(Item) /\ <<y>> # <<>>
    BY <2>2
  <2>4. Made(<<y>>)
    BY <1>4 DEF Made
  <2> HIDE DEF y
  <2>. QED
    BY <1>1, <2>1, <2>3, <2>4
<1>5. CASE Matches(s, item.bytes, count) /\ s.packets = "tlshello"
  <2>1. PICK cap \in Between(s.split) :
        \E c \in Cuts(s, item.bytes[1].n, cap) :
        \E d \in Draws(s.delays, Len(c)) :
          Passes(HelloItems(s, item.bytes, c, d), IF Len(profile) = 1 \/ Combines(s) THEN 0 ELSE Last(d))
    BY <1>5 DEF Cut, Emitted
  <2>2. stage = 1
    BY <1>1, <1>5 DEF OfStages, Hellos
  <2>3. HelloFirst /\ Uncut
    BY <1>1, <1>5, <2>2 DEF HelloFirst, Uncut
  <2>4. count = 1
    BY <1>5 DEF Matches
  <2>5. call = 1 /\ item.bytes = Buffer(1)
    <3>1. counts[1] = call - 1 /\ call \in Nat /\ counts[1] \in Nat
      BY <1>1, <2>2, <2>3 DEF WriterOK
    <3>2. call = 1
      BY <2>2, <2>4, <3>1
    <3>3. todo = <<[bytes |-> Buffer(call), delay |-> 0]>>
      BY <2>3 DEF WriterOK
    <3>. QED
      BY <3>2, <3>3
  <2>6. item.bytes[1].n = Hello
    BY <2>5, HelloBuffer, UnitFact
  <2>7. PICK c \in Cuts(s, Hello, cap) : \E d \in Draws(s.delays, Len(c)) :
          Passes(HelloItems(s, item.bytes, c, d), IF Len(profile) = 1 \/ Combines(s) THEN 0 ELSE Last(d))
    BY <2>1, <2>6
  <2>8. PICK d \in Draws(s.delays, Len(c)) :
          Passes(HelloItems(s, item.bytes, c, d), IF Len(profile) = 1 \/ Combines(s) THEN 0 ELSE Last(d))
    BY <2>7
  <2> DEFINE q == HelloItems(s, item.bytes, c, d)
             t == IF Len(profile) = 1 \/ Combines(s) THEN 0 ELSE Last(d)
  <2>9. Zero \in Places(Current) /\ Zero.k = 0 /\ Zero.left = 0 /\ Zero.h = 0 /\ Zero.o = FALSE
    BY DEF Zero, Places, Place
  <2>10. q \in Seq(Item) /\ q # <<>> /\ Last(d) \in Nat
    <3>1. s = profile[1]
      BY <2>2
    <3>. QED
      BY <1>1, <1>5, <2>5, <2>9, <3>1, HelloLeads DEF Current
  <2>11. t \in Nat /\ (Current.gap => t = 0)
    <3>1. Current.gap => Len(profile) = 1
      BY <1>1, ModeFact DEF Current
    <3>. QED
      BY <2>10, <3>1
  <2>12. Passes(q, t)
    BY <2>8
  <2>13. Made(q)
    BY <1>5, <2>2, <2>3, <2>5 DEF Made
  <2> HIDE DEF q, t
  <2>. QED
    BY <1>1, <2>10, <2>11, <2>12, <2>13
<1>6. CASE Matches(s, item.bytes, count) /\ s.packets # "tlshello"
  <2>1. PICK cap \in Between(s.split) :
        \E c \in Cuts(s, Len(item.bytes), cap) :
        \E d \in Draws(s.delays, Len(c)) : Passes(Paused(Pieces(item.bytes, c), d), Last(d))
    BY <1>6 DEF Cut, Emitted
  <2>2. PICK c \in Cuts(s, Len(item.bytes), cap) :
        \E d \in Draws(s.delays, Len(c)) : Passes(Paused(Pieces(item.bytes, c), d), Last(d))
    BY <2>1
  <2>3. PICK d \in Draws(s.delays, Len(c)) : Passes(Paused(Pieces(item.bytes, c), d), Last(d))
    BY <2>2
  <2>4. CutOf(c, Len(item.bytes))
    BY <1>2, CutsFact
  <2> DEFINE ps == Pieces(item.bytes, c)  q == Paused(ps, d)
  <2>5. /\ ps \in Seq(Seq(Unit)) /\ Len(ps) = Len(c) /\ Len(c) \in Nat \ {0}
        /\ \A k \in 1..Len(c) : ps[k] = SubSeq(item.bytes, Edge(c, k) + 1, c[k])
    BY <1>2, <2>4, PiecesFact
  <2>6. d \in Seq(Nat) /\ Len(d) = Len(c) /\ Last(d) \in Nat
    <3>1. d \in Seq(Nat) /\ Len(d) = Len(c) /\ \A k \in 1..Len(c) : d[k] \in Nat
      BY <1>3, <2>5, DrawFact
    <3>2. Last(d) = d[Len(c)] /\ Len(c) \in 1..Len(c)
      BY <2>5, <3>1 DEF Last
    <3>. QED
      BY <3>1, <3>2
  <2> HIDE DEF ps
  <2>7. q \in Seq(Item) /\ Len(q) = Len(c) /\ \A k \in 1..Len(c) : q[k].bytes = ps[k]
    BY <2>5, <2>6, PausedFact
  <2> HIDE DEF q
  <2>8. q # <<>>
    BY <2>5, <2>7, EmptySeq
  <2>9. Passes(q, Last(d))
    BY <2>3 DEF q, ps
  <2>10. \A k \in 1..Len(q) : q[k].bytes = SubSeq(item.bytes, Edge(c, k) + 1, c[k])
    BY <2>5, <2>7
  <2>11. Made(q)
    BY <1>6, <2>4, <2>5, <2>7, <2>10 DEF Made
  <2>. QED
    BY <1>1, <1>6, <2>6, <2>7, <2>8, <2>9, <2>11
<1>. QED
  BY <1>4, <1>5, <1>6

\* the units of a write, as the first stage has it
LEMMA WholeLeads ==
  ASSUME WriterOK, Uncut, NEW x \in Places(Current), x.k = Before(call), x.left = 0,
         ~HelloFirst \/ call > 1
  PROVE  \E z \in Places(Current) : <<x, z>> \in Moves(Current)[todo[1]] /\ z.k = Before(call + 1) /\ z.left = 0
<1>1. todo[1] = [bytes |-> Buffer(call), delay |-> 0] /\ call \in 1..Len(Flights) /\ Current \in Mode
  BY ModeFact DEF WriterOK, Uncut, Current
<1>2. call > 1 \/ (Current.cap = 0 /\ ~Current.gap)
  BY ModeFact DEF WriterOK, HelloFirst, Current
<1>3. PICK z \in Places(Current) : Leads(Current, Buffer(call), x, z) /\ z.k = Before(call + 1) /\ z.left = 0
  BY <1>1, <1>2, BufferLeads
<1>4. todo[1] \in Item /\ todo[1].bytes = Buffer(call) /\ ~(todo[1].delay > 0)
  <2>1. Buffer(call) \in Seq(Unit)
    BY <1>1, <1>2, BufferLeads
  <2>. QED
    BY <1>1, <2>1 DEF Item
<1>5. <<x, z>> \in Moves(Current)[todo[1]]
  BY <1>1, <1>3, <1>4, SentLeads
<1>. QED
  BY <1>3, <1>5

LEMMA FirstStage ==
  ASSUME WriterOK, Cut, Uncut, NEW x \in Places(Current), x.k = Before(call), x.left = 0,
         call = 1 => x = Zero, NEW q \in Seq(Item), q # <<>>, NEW carry \in Nat, carry = carries[1],
         Made(q)
  PROVE  \E z \in Places(Current) :
           /\ ItemsLead(Current, Emitted(q, todo[1].delay, carry), x, z)
           /\ z.left = 0 /\ z.k = Before(call + 1)
<1> DEFINE s == profile[stage]  item == todo[1]  count == counts[stage] + 1
           r == Emitted(q, todo[1].delay, carry)
<1>1. /\ stage = 1 /\ item = [bytes |-> Buffer(call), delay |-> 0] /\ item.delay = 0 /\ Current \in Mode
      /\ s = profile[1] /\ OfStages(profile) /\ item \in Item
  <2>1. todo \in Seq(Item) /\ todo # <<>>
    BY DEF WriterOK, Uncut
  <2>2. item \in Item
    BY <2>1, HeadFact
  <2>. QED
    BY <2>2, ModeFact DEF WriterOK, Uncut, Current
<1>2. profile # <<>>
  BY <1>1, EmptySeq DEF Cut
<1>3. /\ r \in Seq(Item) /\ Len(r) = Len(q) /\ \A i \in 1..Len(q) : r[i].bytes = q[i].bytes
      /\ carry = 0 => r = q
  <2>1. item.delay \in Nat
    BY <1>1
  <2>. QED
    BY <1>1, <2>1, EmitFact
<1>4. Current.gap => r = q
  BY <1>1, <1>3 DEF WriterOK
<1> HIDE DEF r
<1>5. ASSUME NEW z, ItemsLead(Current, q, x, z) PROVE ItemsLead(Current, r, x, z)
  <2>1. CASE Current.gap
    BY <1>4, <1>5, <2>1
  <2>2. CASE ~Current.gap
    BY <1>1, <1>3, <1>5, <2>2, Redelayed
  <2>. QED
    BY <2>1, <2>2
<1>6. SUFFICES \E z \in Places(Current) : ItemsLead(Current, q, x, z) /\ z.left = 0 /\ z.k = Before(call + 1)
  BY <1>5 DEF r
<1>7. CASE q = <<[item EXCEPT !.delay = 0]>> /\ ~Matches(s, item.bytes, count)
  <2>1. q = <<item>>
    BY <1>1, <1>7
  <2>2. ~HelloFirst \/ call > 1
    <3>1. SUFFICES ASSUME HelloFirst, call = 1 PROVE FALSE
      BY DEF WriterOK
    <3>2. counts[1] = 0
      BY <3>1 DEF WriterOK
    <3>3. count = 1
      BY <1>1, <3>2
    <3>4. item.bytes = Buffer(1)
      BY <1>1, <3>1
    <3>5. Buffer(1)[1] = Header(Hello) /\ Len(Buffer(1)) > Hello
      BY HelloBuffer, HelloFact
    <3>6. Buffer(1)[1].kind = "header" /\ Buffer(1)[1].n = Hello
      BY <3>5, UnitFact
    <3>7. s.packets = "tlshello"
      BY <1>1, <3>1 DEF HelloFirst
    <3>. QED
      BY <1>7, <3>3, <3>4, <3>5, <3>6, <3>7 DEF Matches
  <2>3. PICK z \in Places(Current) : <<x, z>> \in Moves(Current)[item] /\ z.k = Before(call + 1) /\ z.left = 0
    BY <1>2, <2>2, WholeLeads
  <2>4. ItemsLead(Current, q, x, z)
    BY <2>1, <2>3, ChainOne DEF ItemsLead, Places
  <2>. QED
    BY <2>3, <2>4
<1>8. CASE /\ s.packets = "tlshello" /\ call = 1 /\ item.bytes = Buffer(1)
           /\ \E cap \in Between(s.split) :
              \E c \in Cuts(s, Hello, cap) :
              \E d \in Draws(s.delays, Len(c)) : q = HelloItems(s, item.bytes, c, d)
  <2>1. PICK cap \in Between(profile[1].split) :
          \E c \in Cuts(profile[1], Hello, cap) :
          \E d \in Draws(profile[1].delays, Len(c)) : q = HelloItems(profile[1], Buffer(1), c, d)
    BY <1>1, <1>8
  <2>2. PICK c \in Cuts(profile[1], Hello, cap) :
          \E d \in Draws(profile[1].delays, Len(c)) : q = HelloItems(profile[1], Buffer(1), c, d)
    BY <2>1
  <2>3. PICK d \in Draws(profile[1].delays, Len(c)) : q = HelloItems(profile[1], Buffer(1), c, d)
    BY <2>2
  <2>4. x.k = 0 /\ x.left = 0 /\ x.h = 0 /\ x.o = FALSE
    BY <1>8 DEF Zero
  <2>5. x \in Places(ModeOf(profile)) /\ profile[1].packets = "tlshello"
    BY <1>1, <1>8 DEF Current
  <2>6. \E z \in Places(ModeOf(profile)) :
          ItemsLead(ModeOf(profile), q, x, z) /\ z.k = Before(2) /\ z.left = 0
    BY <1>1, <1>2, <2>3, <2>4, <2>5, HelloLeads
  <2>7. call + 1 = 2
    BY <1>8
  <2>. QED
    BY <2>6, <2>7 DEF Current
<1>9. CASE /\ s.packets # "tlshello"
           /\ \E c : /\ CutOf(c, Len(item.bytes)) /\ Len(q) = Len(c)
                     /\ \A k \in 1..Len(q) : q[k].bytes = SubSeq(item.bytes, Edge(c, k) + 1, c[k])
  <2>1. ~HelloFirst /\ ~Current.gap
    BY <1>1, <1>2, <1>9, ModeFact DEF HelloFirst, Current
  <2>2. PICK z \in Places(Current) : <<x, z>> \in Moves(Current)[item] /\ z.k = Before(call + 1) /\ z.left = 0
    BY <1>2, <2>1, WholeLeads
  <2>3. ItemsLead(Current, q, x, z)
    BY <1>1, <1>9, <2>1, <2>2, PlainLeads
  <2>. QED
    BY <2>2, <2>3
<1>. QED
  BY <1>7, <1>8, <1>9 DEF Made

\* a stage after the first: its pieces lead where the one it cut did
LEMMA LaterStage ==
  ASSUME WriterOK, Cut, stage # 1, NEW y \in Places(Current), NEW b \in Places(Current),
         <<y, b>> \in Moves(Current)[todo[1]],
         NEW q \in Seq(Item), q # <<>>, NEW carry \in Nat,
         Made(q)
  PROVE  ItemsLead(Current, Emitted(q, todo[1].delay, carry), y, b)
<1> DEFINE item == todo[1]
           r == Emitted(q, todo[1].delay, carry)
<1>1. item \in Item /\ item.delay \in Nat /\ Current \in Mode /\ OfStages(profile)
  <2>1. todo \in Seq(Item) /\ todo # <<>>
    BY DEF WriterOK, Cut
  <2>2. item \in Item
    BY <2>1, HeadFact
  <2>. QED
    BY <2>2, ModeFact DEF WriterOK, Current, Item
<1>2. ~Current.gap
  <2>1. stage \in DOMAIN profile /\ DOMAIN profile = 1..Len(profile) /\ Len(profile) \in Nat
    BY <1>1, LenProperties DEF Cut, OfStages
  <2>2. Len(profile) # 1
    BY <2>1
  <2>. QED
    BY <1>1, <2>2, ModeFact DEF Current
<1>3. r \in Seq(Item) /\ Len(r) = Len(q) /\ \A i \in 1..Len(q) : r[i].bytes = q[i].bytes
  BY <1>1, EmitFact
<1> HIDE DEF r
<1>4. ItemsLead(Current, q, y, b)
  <2>1. CASE q = <<[item EXCEPT !.delay = 0]>>
    <3>1. Len(q) = 1 /\ q[1].bytes = item.bytes
      BY <1>1, <2>1 DEF Item
    <3>. QED
      BY <1>1, <1>2, <3>1, PlainLeads
  <2>2. CASE \E c : /\ CutOf(c, Len(item.bytes)) /\ Len(q) = Len(c)
                    /\ \A k \in 1..Len(q) : q[k].bytes = SubSeq(item.bytes, Edge(c, k) + 1, c[k])
    BY <1>1, <1>2, <2>2, PlainLeads
  <2>. QED
    BY <2>1, <2>2 DEF Made
<1>. QED
  BY <1>1, <1>2, <1>3, <1>4, Redelayed DEF r

LEMMA ZeroFact ==
  /\ Zero \in Places(Current) /\ Zero \in Place
  /\ Zero.k = 0 /\ Zero.left = 0 /\ Zero.h = 0 /\ Zero.o = FALSE
BY DEF Zero, Places, Place

LEMMA CutKeeps ==
  ASSUME WInv, Cut
  PROVE  WInv'
<1>1. /\ stage \in DOMAIN profile /\ todo # <<>> /\ profile # <<>> /\ stage \in 1..Len(profile)
      /\ stage # 0 /\ ~flushed /\ Current \in Mode /\ OfStages(profile)
  <2>1. stage \in DOMAIN profile /\ todo # <<>> /\ OfStages(profile) /\ stage \in Nat
    BY DEF Cut, WInv, WriterOK
  <2>2. DOMAIN profile = 1..Len(profile) /\ Len(profile) \in Nat
    BY <2>1, LenProperties DEF OfStages
  <2>3. profile # <<>>
    BY <2>1, <2>2, EmptySeq
  <2>. QED
    BY <2>1, <2>2, <2>3, ModeFact DEF WInv, WriterOK, Current
<1>2. PICK q \in Seq(Item), trailing \in Nat, carry \in Nat :
        /\ q # <<>> /\ carry = carries[stage] /\ Made(q)
        /\ out' = out \o Emitted(q, todo[1].delay, carry)
        /\ carries' = [carries EXCEPT ![stage] = trailing]
        /\ profile[stage].packets = "tlshello" /\ Current.gap => trailing = 0
  BY CutEmits DEF WInv
<1> DEFINE r == Emitted(q, todo[1].delay, carry)
<1>3. r \in Seq(Item)
  <2>1. todo[1] \in Item
    BY <1>1, HeadFact DEF WInv, WriterOK
  <2>2. todo[1].delay \in Nat
    BY <2>1 DEF Item
  <2>. QED
    BY <1>2, <2>2, EmitFact
<1>4. out' = out \o r
  BY <1>2
<1> HIDE DEF r
<1>5. out' \in Seq(Item)
  BY <1>3, <1>4, ConcatProperties DEF WInv, WriterOK
<1>6. UNCHANGED <<profile, step, call, flushed, stage, queue, wire>> /\ Current' = Current /\ HelloFirst' = HelloFirst
  BY DEF Cut, sending, Current, HelloFirst
<1>7. todo' = Tail(todo) /\ todo' \in Seq(Item)
  <2>1. Tail(todo) \in Seq(Item)
    BY <1>1, HeadFact DEF WInv, WriterOK
  <2>. QED
    BY <2>1 DEF Cut
<1>8. counts' = [counts EXCEPT ![stage] = counts[stage] + 1] /\ counts' \in [DOMAIN profile -> Nat]
  <2>3. counts \in [DOMAIN profile -> Nat]
    BY DEF WInv, WriterOK
  <2>4. counts[stage] \in Nat
    BY <1>1, <2>3
  <2>1. counts \in [DOMAIN profile -> Nat] /\ counts[stage] + 1 \in Nat
    BY <2>3, <2>4
  <2>2. counts' = [counts EXCEPT ![stage] = counts[stage] + 1]
    BY DEF Cut
  <2>. QED
    BY <2>1, <2>2
<1>9. carries' \in [DOMAIN profile -> Nat]
  BY <1>1, <1>2 DEF WInv, WriterOK
<1>10. stage = 1 <=> Uncut
  BY <1>1 DEF Uncut
<1>11. ~Uncut'
  <2>1. CASE stage = 1
    <3>1. todo = <<[bytes |-> Buffer(call), delay |-> 0]>>
      BY <1>10, <2>1 DEF WInv, WriterOK
    <3>2. Tail(todo) = <<>>
      BY <3>1
    <3>. QED
      BY <1>7, <3>2 DEF Uncut
  <2>2. CASE stage # 1
    BY <1>6, <2>2 DEF Uncut
  <2>. QED
    BY <2>1, <2>2
<1>12. HelloFirst => counts'[1] = call
  <2>1. ASSUME HelloFirst PROVE 1 \in DOMAIN profile /\ counts[1] \in Nat /\ call \in Nat
    <3>1. DOMAIN profile = 1..Len(profile) /\ Len(profile) \in Nat
      BY <1>1, LenProperties DEF OfStages
    <3>2. 1 \in DOMAIN profile
      BY <1>1, <3>1
    <3>. QED
      BY <3>2 DEF WInv, WriterOK
  <2>2. CASE stage = 1
    BY <1>8, <1>10, <2>1, <2>2 DEF WInv, WriterOK
  <2>3. CASE stage # 1
    BY <1>1, <1>8, <1>10, <2>1, <2>3 DEF WInv, WriterOK
  <2>. QED
    BY <2>2, <2>3
<1>13. Current.gap => carries'[1] = 0
  <2>1. SUFFICES ASSUME Current.gap PROVE carries'[1] = 0
    OBVIOUS
  <2>2. Len(profile) = 1 /\ profile[1].packets = "tlshello"
    BY <1>1, <2>1, ModeFact DEF Current
  <2>3. stage = 1
    BY <1>1, <2>2
  <2>4. trailing = 0
    BY <1>2, <2>1, <2>2, <2>3
  <2>5. 1 \in DOMAIN carries
    BY <1>1, <2>3 DEF WInv, WriterOK
  <2>. QED
    BY <1>2, <2>3, <2>4, <2>5
<1>14. WriterOK'
  BY <1>1, <1>5, <1>6, <1>7, <1>8, <1>9, <1>11, <1>12, <1>13 DEF WInv, WriterOK
<1>15. Flow'
  <2>1. PICK x \in Places(Current) :
          /\ Leads(Current, wire, Zero, x) /\ x.k >= Before(call)
          /\ Uncut => x.k = Before(call) /\ x.left = 0
          /\ ~Uncut => \E y, z \in Places(Current) : /\ ItemsLead(Current, out, x, y) /\ ItemsLead(Current, todo, y, z)
                                               /\ z.left = 0 /\ z.k = Before(call + 1)
    BY <1>1 DEF WInv, Flow
  <2>2. SUFFICES \E y, z \in Places(Current) : /\ ItemsLead(Current, out', x, y) /\ ItemsLead(Current, todo', y, z)
                                         /\ z.left = 0 /\ z.k = Before(call + 1)
    BY <1>1, <1>6, <1>11, <2>1 DEF Flow
  <2>3. CASE Uncut
    <3>1. call = 1 => x = Zero
      <4>1. SUFFICES ASSUME call = 1 PROVE x = Zero
        OBVIOUS
      <4>2. wire = <<>>
        BY <2>3, <4>1 DEF WInv, WriterOK
      <4>. QED
        BY <2>1, <4>2, ZeroFact, ChainNil DEF Leads
    <3>2. stage = 1 /\ WriterOK
      BY <2>3 DEF Uncut, WInv
    <3>3. PICK z \in Places(Current) : ItemsLead(Current, r, x, z) /\ z.left = 0 /\ z.k = Before(call + 1)
      BY <1>2, <2>1, <2>3, <3>1, <3>2, FirstStage DEF r
    <3>4. out = <<>> /\ Tail(todo) = <<>>
      <4>1. todo = <<[bytes |-> Buffer(call), delay |-> 0]>> /\ out = <<>>
        BY <2>3 DEF WInv, WriterOK
      <4>2. \A v : Tail(<<v>>) = <<>>
        OBVIOUS
      <4>. QED
        BY <4>1, <4>2
    <3>5. out' = r
      BY <1>3, <1>4, <3>4, ConcatSimplifications
    <3>6. ItemsLead(Current, todo', z, z)
      <4>1. todo' = <<>> /\ z \in Place
        BY <1>7, <3>3, <3>4 DEF Places
      <4>. QED
        BY <4>1, ChainNil DEF ItemsLead
    <3>. QED
      BY <3>3, <3>5, <3>6
  <2>4. CASE ~Uncut
    <3>1. PICK y \in Places(Current), z \in Places(Current) :
            ItemsLead(Current, out, x, y) /\ ItemsLead(Current, todo, y, z) /\ z.left = 0 /\ z.k = Before(call + 1)
      BY <2>1, <2>4
    <3>2. todo \in Seq(Item) /\ out \in Seq(Item) /\ WriterOK /\ stage # 1
      BY <1>10, <2>4 DEF WInv, WriterOK
    <3>3. y \in Place /\ z \in Place
      BY <3>1 DEF Places
    <3>4. PICK b \in Place : <<y, b>> \in Moves(Current)[todo[1]] /\ ItemsLead(Current, Tail(todo), b, z)
      BY <1>1, <3>1, <3>2, <3>3, ItemsHead
    <3>5. b \in Places(Current)
      BY <1>1, <3>2, <3>4, HeadFact, MovesFact
    <3>6. ItemsLead(Current, r, y, b)
      BY <1>2, <3>1, <3>2, <3>4, <3>5, LaterStage DEF r
    <3>7. ItemsLead(Current, out', x, b)
      BY <1>3, <1>4, <3>1, <3>2, <3>3, <3>6, ChainConcat DEF ItemsLead
    <3>. QED
      BY <1>7, <3>1, <3>4, <3>5, <3>7
  <2>. QED
    BY <2>3, <2>4
<1>. QED
  BY <1>14, <1>15 DEF WInv

LEMMA BufferType == \A w \in 1..Len(Flights) : Buffer(w) \in Seq(Unit)
<1> SUFFICES ASSUME NEW w \in 1..Len(Flights) PROVE Buffer(w) \in Seq(Unit)
  OBVIOUS
<1> DEFINE n == Before(w + 1) - Before(w)
<1>1. /\ EndsOf(FlightEnds(w), n) /\ Buffer(w) = Framed(Payload(w), FlightEnds(w))
      /\ Payload(w) \in Seq(Unit) /\ Len(Payload(w)) = n /\ n \in Nat
  <2>1. /\ Before(w) \in Nat /\ Before(w + 1) \in Nat /\ Before(w) < Before(w + 1)
        /\ EndsOf(FlightEnds(w), n) /\ Buffer(w) = Framed(Payload(w), FlightEnds(w))
        /\ Payload(w) \in Seq(Unit) /\ Len(Payload(w)) = n
    BY FlightFact
  <2>. QED
    BY <2>1
<1> HIDE DEF n
<1>2. Framed(Payload(w), FlightEnds(w)) \in Seq(Unit)
  BY <1>1, FramedFact
<1>. QED
  BY <1>1, <1>2

LEMMA NextStageKeeps ==
  ASSUME WInv, NextStage
  PROVE  WInv'
<1> DEFINE done == IF todo = <<>> THEN out ELSE todo
<1>1. /\ stage \in Nat /\ stage # 0 /\ ~flushed /\ Current \in Mode /\ OfStages(profile) /\ Len(profile) \in Nat
      /\ DOMAIN profile = 1..Len(profile) /\ queue = <<>> /\ todo \in Seq(Item) /\ out \in Seq(Item)
      /\ (profile = <<>> => Len(profile) = 0) /\ WriterOK
  <2>1. OfStages(profile) /\ stage \in Nat /\ stage # 0
    BY DEF NextStage, WInv, WriterOK
  <2>2. DOMAIN profile = 1..Len(profile) /\ Len(profile) \in Nat
    BY <2>1, LenProperties DEF OfStages
  <2>. QED
    BY <2>1, <2>2, ModeFact, EmptySeq DEF WInv, WriterOK, Current
<1>2. UNCHANGED <<profile, step, call, flushed, counts, carries, wire>> /\ Current' = Current /\ HelloFirst' = HelloFirst
      /\ out' = <<>>
  BY DEF NextStage, stages, Current, HelloFirst
<1>3. IF stage < Len(profile)
      THEN stage' = stage + 1 /\ todo' = done /\ UNCHANGED queue
      ELSE stage' = 0 /\ todo' = <<>> /\ queue' = done
  BY DEF NextStage
<1>4. done \in Seq(Item)
  BY <1>1
<1>5. Uncut => profile = <<>> /\ done = todo
  <2>1. SUFFICES ASSUME Uncut PROVE profile = <<>>
    BY DEF Uncut
  <2>2. stage = 1 /\ todo # <<>> /\ stage \notin DOMAIN profile
    BY <2>1 DEF Uncut, NextStage
  <2>. QED
    BY <1>1, <2>2 DEF WriterOK
<1>6. ~Uncut => todo = <<>> /\ done = out
  <2>1. SUFFICES ASSUME ~Uncut, todo # <<>> PROVE FALSE
    OBVIOUS
  <2>2. stage # 1 /\ stage \notin DOMAIN profile
    BY <2>1 DEF Uncut, NextStage
  <2>3. stage <= Len(profile)
    BY <1>1, <2>2 DEF WriterOK
  <2>. QED
    BY <1>1, <2>2, <2>3
<1> HIDE DEF done
<1>7. stage' # 1 /\ ~Uncut' /\ stage' \in Nat /\ stage' <= Len(profile)
  <2>1. stage' # 1 /\ stage' \in Nat /\ stage' <= Len(profile)
    BY <1>1, <1>3
  <2>. QED
    BY <2>1 DEF Uncut
<1>8. todo' \in Seq(Item) /\ queue' \in Seq(Item) /\ (stage' # 0 => queue' = <<>>)
  <2>1. <<>> \in Seq(Item)
    BY EmptySeq
  <2>2. CASE stage < Len(profile)
    BY <1>1, <1>3, <1>4, <2>1, <2>2
  <2>3. CASE ~(stage < Len(profile))
    BY <1>3, <1>4, <2>1, <2>3
  <2>. QED
    BY <2>2, <2>3
<1>9. WriterOK'
  <2>1. HelloFirst => ~Uncut
    BY <1>5 DEF HelloFirst
  <2>2. HelloFirst => counts[1] = call
    BY <1>1, <2>1 DEF WriterOK
  <2>. QED
    BY <1>1, <1>2, <1>7, <1>8, <2>2 DEF WriterOK
<1>10. Flow'
  <2>1. PICK x \in Places(Current) :
          /\ Leads(Current, wire, Zero, x) /\ x.k >= Before(call)
          /\ Uncut => x.k = Before(call) /\ x.left = 0
          /\ ~Uncut => \E y, z \in Places(Current) : /\ ItemsLead(Current, out, x, y) /\ ItemsLead(Current, todo, y, z)
                                               /\ z.left = 0 /\ z.k = Before(call + 1)
    BY <1>1 DEF WInv, Flow
  <2>2. x \in Place
    BY <2>1 DEF Places
  <2>3. \E z \in Places(Current) : ItemsLead(Current, done, x, z) /\ z.left = 0 /\ z.k = Before(call + 1)
    <3>1. CASE Uncut
      <4>1. ~HelloFirst
        BY <1>5, <3>1 DEF HelloFirst
      <4>2. PICK z \in Places(Current) : <<x, z>> \in Moves(Current)[todo[1]] /\ z.k = Before(call + 1) /\ z.left = 0
        BY <1>1, <2>1, <3>1, <4>1, WholeLeads
      <4>3. done = <<todo[1]>>
        <5>1. \A v : <<v>> = <<(<<v>>[1])>>
          OBVIOUS
        <5>2. todo = <<[bytes |-> Buffer(call), delay |-> 0]>>
          BY <1>1, <3>1 DEF WriterOK
        <5>. QED
          BY <1>5, <3>1, <5>1, <5>2
      <4>4. ItemsLead(Current, done, x, z)
        BY <2>2, <4>2, <4>3, ChainOne DEF ItemsLead, Places
      <4>. QED
        BY <4>2, <4>4
    <3>2. CASE ~Uncut
      <4>1. PICK y \in Places(Current), z \in Places(Current) :
              ItemsLead(Current, out, x, y) /\ ItemsLead(Current, todo, y, z) /\ z.left = 0 /\ z.k = Before(call + 1)
        BY <2>1, <3>2
      <4>2. y \in Place
        BY <4>1 DEF Places
      <4>3. y = z
        BY <1>6, <3>2, <4>1, <4>2, ChainNil DEF ItemsLead
      <4>. QED
        BY <1>6, <3>2, <4>1, <4>3
    <3>. QED
      BY <3>1, <3>2
  <2>4. PICK z \in Places(Current) : ItemsLead(Current, done, x, z) /\ z.left = 0 /\ z.k = Before(call + 1)
    BY <2>3
  <2>5. CASE stage < Len(profile)
    <3>1. todo' = done /\ stage' # 0
      BY <1>1, <1>3, <2>5
    <3>2. ItemsLead(Current, out', x, x)
      BY <1>2, <2>2, ChainNil DEF ItemsLead
    <3>. QED
      BY <1>2, <1>7, <2>1, <2>4, <3>1, <3>2 DEF Flow
  <2>6. CASE ~(stage < Len(profile))
    <3>1. queue' = done /\ stage' = 0
      BY <1>3, <2>6
    <3>. QED
      BY <1>1, <1>2, <1>7, <2>1, <2>4, <3>1 DEF Flow
  <2>. QED
    BY <2>5, <2>6
<1>. QED
  BY <1>9, <1>10 DEF WInv

LEMMA PollWriteKeeps ==
  ASSUME WInv, PollWrite
  PROVE  WInv'
<1>1. /\ stage = 0 /\ queue = <<>> /\ ~Uncut /\ step \in {"handshake", "request"} /\ WriterOK
      /\ UNCHANGED <<profile, counts, carries, queue, wire>> /\ Current' = Current /\ HelloFirst' = HelloFirst
      /\ call <= Len(Flights) /\ call \in 1..Len(Flights) /\ Len(Flights) \in Nat /\ Len(Flights) > 1
  <2>1. /\ stage = 0 /\ queue = <<>> /\ step \in {"handshake", "request"} /\ WriterOK
        /\ UNCHANGED <<profile, counts, carries, queue, wire>>
    BY DEF PollWrite, Drained, WInv, stages, sending
  <2>2. ~Uncut /\ Current' = Current /\ HelloFirst' = HelloFirst
    BY <2>1 DEF Uncut, Current, HelloFirst
  <2>3. Len(Flights) \in Nat /\ Len(Flights) > 1
    BY FlightsAssumption, LenProperties
  <2>4. call <= Len(Flights) /\ call \in 1..Len(Flights)
    BY <2>1, <2>3 DEF WriterOK
  <2>. QED
    BY <2>1, <2>2, <2>3, <2>4
<1>2. PICK x \in Places(Current) : /\ Leads(Current, wire, Zero, x) /\ x.k >= Before(call) /\ x.left = 0
                             /\ x.k = Before(IF flushed THEN call ELSE call + 1)
                             /\ ItemsLead(Current, queue, x, x)
  <2>1. PICK x \in Places(Current) :
          /\ Leads(Current, wire, Zero, x) /\ x.k >= Before(call)
          /\ \E y \in Places(Current) : /\ ItemsLead(Current, queue, x, y) /\ y.left = 0
                                  /\ y.k = Before(IF flushed THEN call ELSE call + 1)
    BY <1>1 DEF WInv, Flow
  <2>2. x \in Place
    BY <2>1 DEF Places
  <2>3. \A y : ItemsLead(Current, queue, x, y) <=> x = y
    BY <1>1, <2>2, ChainNil DEF ItemsLead
  <2>. QED
    BY <2>1, <2>3
<1>3. CASE flushed
  <2>1. /\ flushed' = FALSE /\ stage' = 1 /\ todo' = <<[bytes |-> Buffer(call), delay |-> 0]>>
        /\ out' = <<>> /\ UNCHANGED <<step, call>>
    BY <1>3 DEF PollWrite, New
  <2>2. todo' # <<>> /\ todo' \in Seq(Item)
    <3>1. [bytes |-> Buffer(call), delay |-> 0] \in Item
      BY <1>1, BufferType DEF Item
    <3>. QED
      BY <2>1, <3>1
  <2>3. Uncut'
    BY <2>1, <2>2 DEF Uncut
  <2>4. stage' <= Len(profile) \/ (stage' = 1 /\ profile = <<>>)
    <3>1. profile # <<>> => Len(profile) \in Nat /\ Len(profile) >= 1
      BY <1>1, ModeFact DEF WriterOK
    <3>. QED
      BY <2>1, <3>1
  <2>5. WriterOK'
    BY <1>1, <1>3, <2>1, <2>2, <2>3, <2>4 DEF WriterOK
  <2>6. Flow'
    BY <1>1, <1>2, <1>3, <2>1, <2>3 DEF Flow
  <2>. QED
    BY <2>5, <2>6 DEF WInv
<1>4. CASE ~flushed
  <2>1. /\ flushed' = TRUE /\ call' = call + 1 /\ step' = After(call)
        /\ UNCHANGED <<stage, todo, out>>
    BY <1>4 DEF PollWrite, New, cutting
  <2>2. ~Uncut'
    BY <1>1, <2>1 DEF Uncut
  <2>3. step' \in {"connect", "handshake", "request", "server", "hold"} => call' <= Len(Flights)
    <3>1. CASE call = 1
      BY <1>1, <2>1, <3>1
    <3>2. CASE call # 1 /\ call = Len(Flights)
      BY <2>1, <3>2 DEF After
    <3>3. CASE call # 1 /\ call # Len(Flights)
      BY <1>1, <2>1, <3>3
    <3>. QED
      BY <3>1, <3>2, <3>3
  <2>4. call' \in 1..(Len(Flights) + 1) /\ call' # 1
    BY <1>1, <2>1
  <2>5. HelloFirst => counts[1] = call' - 1
    <3>1. HelloFirst => counts[1] = call
      BY <1>1, <1>4 DEF WriterOK
    <3>. QED
      BY <1>1, <2>1, <3>1
  <2>6. WriterOK'
    BY <1>1, <2>1, <2>2, <2>3, <2>4, <2>5 DEF WriterOK
  <2>7. x.k = Before(call') /\ Before(call') \in Nat
    <3>1. x.k = Before(call + 1)
      BY <1>2, <1>4
    <3>2. Before(call + 1) \in Nat
      BY <1>1, FlightFact
    <3>. QED
      BY <2>1, <3>1, <3>2
  <2>8. Flow'
    <3>1. x.k >= Before(call')
      BY <2>7
    <3>. QED
      BY <1>1, <1>2, <2>1, <2>2, <2>7, <3>1 DEF Flow
  <2>. QED
    BY <2>6, <2>8 DEF WInv
<1>. QED
  BY <1>3, <1>4

LEMMA PlacesKept ==
  ASSUME NEW m, NEW s \in Seq(Unit), NEW a \in Places(m), NEW b, Leads(m, s, a, b)
  PROVE  b \in Places(m)
<1>1. Len(s) \in Nat
  BY LenProperties
<1>2. PICK f \in [0..Len(s) -> Place] :
        f[0] = a /\ f[Len(s)] = b /\ \A i \in 1..Len(s) : <<f[i - 1], f[i]>> \in Readings(m)[s[i]]
  BY DEF Leads, Chain
<1>3. CASE Len(s) = 0
  BY <1>2, <1>3
<1>4. CASE Len(s) # 0
  <2>1. Len(s) \in 1..Len(s)
    BY <1>1, <1>4
  <2>2. s[Len(s)] \in Unit
    BY <2>1, ElementOfSeq
  <2>. QED
    BY <1>2, <2>1, <2>2, ReadingsFact
<1>. QED
  BY <1>3, <1>4

\* the first piece has changed, the others wait
LEMMA FirstChanged ==
  ASSUME NEW q \in Seq(Item), q # <<>>, NEW z \in Item, NEW m,
         NEW a \in Place, NEW b \in Place, NEW c \in Place,
         <<a, b>> \in Moves(m)[z], ItemsLead(m, Tail(q), b, c)
  PROVE  [q EXCEPT ![1] = z] \in Seq(Item) /\ ItemsLead(m, [q EXCEPT ![1] = z], a, c)
<1> DEFINE y == [q EXCEPT ![1] = z]
<1>1. Len(q) \in Nat \ {0} /\ 1 \in 1..Len(q)
  BY EmptySeq, LenProperties
<1>2. y \in Seq(Item) /\ Len(y) = Len(q) /\ \A j \in 1..Len(q) : y[j] = IF j = 1 THEN z ELSE q[j]
  BY <1>1, ExceptSeq
<1> HIDE DEF y
<1>3. y # <<>> /\ y[1] = z
  BY <1>1, <1>2, EmptySeq
<1>4. Tail(y) = Tail(q)
  <2>1. Tail(q) \in Seq(Item) /\ Len(Tail(q)) = Len(q) - 1 /\ \A i \in 1..Len(Tail(q)) : Tail(q)[i] = q[i + 1]
    BY HeadTailProperties
  <2>2. Tail(y) \in Seq(Item) /\ Len(Tail(y)) = Len(q) - 1 /\ \A i \in 1..Len(Tail(y)) : Tail(y)[i] = y[i + 1]
    BY <1>2, <1>3, HeadTailProperties
  <2>3. \A i \in 1..(Len(q) - 1) : Tail(y)[i] = Tail(q)[i]
    <3>1. \A i \in 1..(Len(q) - 1) : i + 1 \in 1..Len(q) /\ i + 1 # 1
      BY <1>1
    <3>. QED
      BY <1>2, <2>1, <2>2, <3>1
  <2>. QED
    BY <2>1, <2>2, <2>3, SeqEqual
<1>5. ItemsLead(m, y, a, c)
  BY <1>2, <1>3, <1>4, ItemsHead
<1>. QED
  BY <1>2, <1>5 DEF y

\* the pieces on their way out
LEMMA QueueFact ==
  ASSUME WInv, stage = 0, queue # <<>>
  PROVE  /\ ~flushed /\ ~Uncut /\ WriterOK /\ Current \in Mode /\ queue[1] \in Item /\ Tail(queue) \in Seq(Item)
         /\ \E x, b, y \in Places(Current) :
              /\ Leads(Current, wire, Zero, x) /\ x.k >= Before(call)
              /\ Leads(Current, Leaving(queue[1]), x, b) /\ ItemsLead(Current, Tail(queue), b, y)
              /\ y.left = 0 /\ y.k = Before(call + 1)
<1>1. ~flushed /\ ~Uncut /\ WriterOK /\ Current \in Mode /\ queue \in Seq(Item)
  BY ModeFact DEF WInv, WriterOK, Uncut, Current
<1>2. queue[1] \in Item /\ Tail(queue) \in Seq(Item)
  BY <1>1, HeadFact
<1>3. PICK x \in Places(Current), y \in Places(Current) :
        /\ Leads(Current, wire, Zero, x) /\ x.k >= Before(call)
        /\ ItemsLead(Current, queue, x, y) /\ y.left = 0 /\ y.k = Before(call + 1)
  BY <1>1 DEF WInv, Flow
<1>4. x \in Place /\ y \in Place
  BY <1>3 DEF Places
<1>5. PICK b \in Place : <<x, b>> \in Moves(Current)[queue[1]] /\ ItemsLead(Current, Tail(queue), b, y)
  BY <1>1, <1>3, <1>4, ItemsHead
<1>6. b \in Places(Current) /\ Leads(Current, Leaving(queue[1]), x, b)
  BY <1>2, <1>5, MovesFact
<1>. QED
  BY <1>1, <1>2, <1>3, <1>5, <1>6

LEMMA WakeKeeps ==
  ASSUME WInv, Wake
  PROVE  WInv'
<1> DEFINE z == [bytes |-> queue[1].bytes, delay |-> 0]
<1>1. /\ stage = 0 /\ queue # <<>> /\ queue[1].delay > 0 /\ wire' = Append(wire, Pause)
      /\ queue' = [queue EXCEPT ![1].delay = 0]
      /\ UNCHANGED <<profile, step, call, flushed, counts, carries, stage, todo, out>>
  BY DEF Wake, stages, cutting
<1>2. /\ ~flushed /\ ~Uncut /\ WriterOK /\ Current \in Mode /\ queue[1] \in Item /\ Tail(queue) \in Seq(Item)
      /\ Current' = Current /\ HelloFirst' = HelloFirst /\ Uncut' = Uncut
  BY <1>1, QueueFact DEF Current, HelloFirst, Uncut
<1>3. PICK x \in Places(Current), b \in Places(Current), y \in Places(Current) :
        /\ Leads(Current, wire, Zero, x) /\ x.k >= Before(call)
        /\ Leads(Current, Leaving(queue[1]), x, b) /\ ItemsLead(Current, Tail(queue), b, y)
        /\ y.left = 0 /\ y.k = Before(call + 1)
  BY <1>1, QueueFact
<1>4. x \in Place /\ b \in Place /\ y \in Place
  BY <1>3 DEF Places
<1>5. queue[1].bytes \in Seq(Unit) /\ <<Pause>> \in Seq(Unit) /\ wire \in Seq(Unit) /\ queue \in Seq(Item)
  BY <1>2, UnitFact DEF Item, WriterOK
<1>6. z \in Item /\ Leaving(z) = queue[1].bytes
  BY <1>5 DEF Item, Leaving
<1>7. queue' = [queue EXCEPT ![1] = z]
  <2>1. queue[1] = [bytes |-> queue[1].bytes, delay |-> queue[1].delay]
    BY <1>2 DEF Item
  <2>2. \A u, t, v : [[bytes |-> u, delay |-> t] EXCEPT !.delay = v] = [bytes |-> u, delay |-> v]
    OBVIOUS
  <2>3. [queue[1] EXCEPT !.delay = 0] = z
    BY <2>1, <2>2
  <2>. QED
    BY <1>1, <2>3
<1> HIDE DEF z
<1>8. PICK p \in Place : Leads(Current, <<Pause>>, x, p) /\ Leads(Current, queue[1].bytes, p, b)
  <2>1. Leaving(queue[1]) = <<Pause>> \o queue[1].bytes
    BY <1>1 DEF Leaving
  <2>. QED
    BY <1>3, <1>5, <2>1, ChainConcat DEF Leads
<1>9. p \in Places(Current) /\ p.k >= x.k
  BY <1>3, <1>5, <1>8, PlacesKept, Onward
<1>10. wire' = wire \o <<Pause>> /\ wire' \in Seq(Unit)
  <2>1. Append(wire, Pause) = wire \o <<Pause>>
    BY <1>5, UnitFact, AppendIsConcat
  <2>2. wire \o <<Pause>> \in Seq(Unit)
    BY <1>5, ConcatProperties
  <2>. QED
    BY <1>1, <2>1, <2>2
<1>11. Leads(Current, wire', Zero, p)
  BY <1>3, <1>4, <1>5, <1>8, <1>10, ChainConcat DEF Leads
<1>12. <<p, b>> \in Moves(Current)[z]
  BY <1>3, <1>6, <1>8, <1>9, MovesFact
<1>13. queue' \in Seq(Item) /\ ItemsLead(Current, queue', p, y)
  <2>1. ItemsLead(Current, Tail(queue), b, y) /\ queue # <<>>
    BY <1>1, <1>3
  <2>2. [queue EXCEPT ![1] = z] \in Seq(Item) /\ ItemsLead(Current, [queue EXCEPT ![1] = z], p, y)
    BY <1>4, <1>5, <1>6, <1>12, <2>1, FirstChanged
  <2>. QED
    BY <1>7, <2>2
<1>14. WriterOK'
  BY <1>1, <1>2, <1>10, <1>13 DEF WriterOK
<1>15. p.k >= Before(call)
  <2>1. x.k \in Nat /\ p.k \in Nat
    BY <1>4 DEF Place
  <2>2. Before(call) \in Nat
    <3>1. call \in 1..Len(Flights)
      BY <1>2, FlightsAssumption, LenProperties DEF WriterOK
    <3>. QED
      BY <3>1, FlightFact
  <2>. QED
    BY <1>3, <1>9, <2>1, <2>2
<1>16. Flow'
  BY <1>1, <1>2, <1>3, <1>9, <1>11, <1>13, <1>15 DEF Flow
<1>. QED
  BY <1>14, <1>16 DEF WInv

\* what leaves of a piece, and what stays
LEMMA HeadSplit ==
  ASSUME NEW piece \in Seq(Unit), NEW n \in 1..Len(piece)
  PROVE  LET sent == SubSeq(piece, 1, n)  left == SubSeq(piece, n + 1, Len(piece))
         IN /\ sent \in Seq(Unit) /\ left \in Seq(Unit) /\ Len(sent) = n /\ piece = sent \o left
            /\ Len(left) = Len(piece) - n
<1> DEFINE sent == SubSeq(piece, 1, n)  left == SubSeq(piece, n + 1, Len(piece))
<1>0. Len(piece) \in Nat
  BY LenProperties
<1>1. 0 \in 0..Len(piece) /\ n \in 0..Len(piece) /\ 0 <= n /\ 0 + 1 = 1 /\ n - 0 = n
      /\ Len(piece) \in 0..Len(piece) /\ n <= Len(piece)
  <2>1. n \in 1..Len(piece) /\ Len(piece) \in Nat
    BY LenProperties
  <2>. QED
    BY <2>1
<1>2. SubSeq(piece, 0 + 1, n) \in Seq(Unit) /\ Len(SubSeq(piece, 0 + 1, n)) = n - 0
      /\ \A i \in 1..(n - 0) : SubSeq(piece, 0 + 1, n)[i] = piece[0 + i]
  BY <1>0, <1>1, SubFact
<1>3. left \in Seq(Unit) /\ Len(left) = Len(piece) - n /\ \A i \in 1..(Len(piece) - n) : left[i] = piece[n + i]
  BY <1>0, <1>1, SubFact
<1>4. sent \in Seq(Unit) /\ Len(sent) = n /\ \A i \in 1..n : sent[i] = piece[i]
  BY <1>1, <1>2
<1> HIDE DEF sent, left
<1>5. /\ sent \o left \in Seq(Unit) /\ Len(sent \o left) = n + (Len(piece) - n)
      /\ \A i \in 1..(n + (Len(piece) - n)) : (sent \o left)[i] = IF i <= n THEN sent[i] ELSE left[i - n]
  <2>1. sent \in Seq(Unit) /\ left \in Seq(Unit) /\ Len(sent) = n /\ Len(left) = Len(piece) - n
    BY <1>3, <1>4
  <2>2. /\ sent \o left \in Seq(Unit) /\ Len(sent \o left) = Len(sent) + Len(left)
        /\ \A i \in 1..(Len(sent) + Len(left)) :
             (sent \o left)[i] = IF i <= Len(sent) THEN sent[i] ELSE left[i - Len(sent)]
    BY <2>1, ConcatProperties
  <2>. QED
    BY <2>1, <2>2
<1>6. n + (Len(piece) - n) = Len(piece)
  BY <1>0, <1>1
<1>7. \A i \in 1..Len(piece) : (sent \o left)[i] = piece[i]
  <2>1. SUFFICES ASSUME NEW i \in 1..Len(piece) PROVE (sent \o left)[i] = piece[i]
    OBVIOUS
  <2>2. CASE i <= n
    BY <1>0, <1>1, <1>4, <1>5, <1>6, <2>2
  <2>3. CASE ~(i <= n)
    <3>1. i - n \in 1..(Len(piece) - n) /\ n + (i - n) = i
      BY <1>0, <1>1, <2>3
    <3>. QED
      BY <1>3, <1>5, <1>6, <2>3, <3>1
  <2>. QED
    BY <2>2, <2>3
<1>8. piece = sent \o left
  BY <1>5, <1>6, <1>7, SeqEqual
<1>. QED
  BY <1>3, <1>4, <1>8 DEF sent, left

LEMMA DeliverKeeps ==
  ASSUME WInv, NEW n \in 1..Writes, Deliver(n)
  PROVE  WInv'
<1> DEFINE piece == queue[1].bytes  sent == SubSeq(piece, 1, n)  left == SubSeq(piece, n + 1, Len(piece))
           z == [bytes |-> left, delay |-> 0]
<1>1. /\ stage = 0 /\ queue # <<>> /\ queue[1].delay = 0 /\ wire' = wire \o sent /\ n \in 1..Len(piece)
      /\ queue' = IF left = <<>> THEN Tail(queue) ELSE [queue EXCEPT ![1].bytes = left]
      /\ UNCHANGED <<profile, step, call, flushed, counts, carries, stage, todo, out>>
  BY DEF Deliver, stages, cutting
<1>2. /\ ~flushed /\ ~Uncut /\ WriterOK /\ Current \in Mode /\ queue[1] \in Item /\ Tail(queue) \in Seq(Item)
      /\ Current' = Current /\ HelloFirst' = HelloFirst /\ Uncut' = Uncut
  BY <1>1, QueueFact DEF Current, HelloFirst, Uncut
<1>3. PICK x \in Places(Current), b \in Places(Current), y \in Places(Current) :
        /\ Leads(Current, wire, Zero, x) /\ x.k >= Before(call)
        /\ Leads(Current, Leaving(queue[1]), x, b) /\ ItemsLead(Current, Tail(queue), b, y)
        /\ y.left = 0 /\ y.k = Before(call + 1)
  BY <1>1, QueueFact
<1>4. x \in Place /\ b \in Place /\ y \in Place
  BY <1>3 DEF Places
<1>5. piece \in Seq(Unit) /\ wire \in Seq(Unit) /\ queue \in Seq(Item) /\ Len(piece) \in Nat
  BY <1>2, LenProperties DEF Item, WriterOK
<1>6. Leaving(queue[1]) = piece
  BY <1>1 DEF Leaving
<1> HIDE DEF piece
<1>7. sent \in Seq(Unit) /\ left \in Seq(Unit) /\ Len(sent) = n /\ piece = sent \o left
  <2>1. n \in 1..Len(piece)
    BY <1>1
  <2>. QED
    BY <1>5, <2>1, HeadSplit
<1> HIDE DEF sent, left
<1>8. PICK p \in Place : Leads(Current, sent, x, p) /\ Leads(Current, left, p, b)
  BY <1>3, <1>6, <1>7, ChainConcat DEF Leads
<1>9. p \in Places(Current) /\ p.k >= x.k
  BY <1>3, <1>7, <1>8, PlacesKept, Onward
<1>10. wire' \in Seq(Unit)
  BY <1>1, <1>5, <1>7, ConcatProperties
<1>11. Leads(Current, wire', Zero, p)
  BY <1>1, <1>3, <1>4, <1>5, <1>7, <1>8, ChainConcat DEF Leads
<1>12. queue' \in Seq(Item) /\ ItemsLead(Current, queue', p, y)
  <2>1. CASE left = <<>>
    <3>1. p = b
      BY <1>8, <2>1, ChainNil DEF Leads
    <3>. QED
      BY <1>1, <1>2, <1>3, <2>1, <3>1
  <2>2. CASE left # <<>>
    <3>1. z \in Item /\ Leaving(z) = left
      BY <1>7 DEF Item, Leaving
    <3>2. queue' = [queue EXCEPT ![1] = z]
      <4>1. queue[1] = [bytes |-> queue[1].bytes, delay |-> 0]
        BY <1>1, <1>2 DEF Item
      <4>2. \A u, t, v : [[bytes |-> u, delay |-> t] EXCEPT !.bytes = v] = [bytes |-> v, delay |-> t]
        OBVIOUS
      <4>3. [queue[1] EXCEPT !.bytes = left] = z
        BY <4>1, <4>2
      <4>. QED
        BY <1>1, <2>2, <4>3
    <3> HIDE DEF z
    <3>3. <<p, b>> \in Moves(Current)[z]
      BY <1>3, <1>8, <1>9, <3>1, MovesFact
    <3>4. ItemsLead(Current, Tail(queue), b, y) /\ queue # <<>>
      BY <1>1, <1>3
    <3>5. [queue EXCEPT ![1] = z] \in Seq(Item) /\ ItemsLead(Current, [queue EXCEPT ![1] = z], p, y)
      BY <1>4, <1>5, <3>1, <3>3, <3>4, FirstChanged
    <3>. QED
      BY <3>2, <3>5
  <2>. QED
    BY <2>1, <2>2
<1>13. WriterOK'
  BY <1>1, <1>2, <1>10, <1>12 DEF WriterOK
<1>14. p.k >= Before(call)
  <2>1. x.k \in Nat /\ p.k \in Nat
    BY <1>4 DEF Place
  <2>2. Before(call) \in Nat
    <3>1. call \in 1..Len(Flights)
      BY <1>2, FlightsAssumption, LenProperties DEF WriterOK
    <3>. QED
      BY <3>1, FlightFact
  <2>. QED
    BY <1>3, <1>9, <2>1, <2>2
<1>15. Flow'
  BY <1>1, <1>2, <1>3, <1>9, <1>11, <1>12, <1>14 DEF Flow
<1>. QED
  BY <1>13, <1>15 DEF WInv

\* the steps that only go on to the next phase
LEMMA PhaseKeeps ==
  ASSUME WInv, Connect \/ ServerFlight \/ Hold \/ Reply \/ Broken
  PROVE  WInv'
<1>1. /\ UNCHANGED <<profile, call, flushed, counts, carries, stage, todo, out, queue, wire>>
      /\ step \in {"connect", "server", "hold", "reply", "handshake", "request"}
      /\ step' \in {"connect", "handshake", "request", "server", "hold"} =>
           step \in {"connect", "handshake", "request", "server", "hold"}
  BY DEF Connect, ServerFlight, Hold, Reply, Broken, stages, cutting, sending
<1>2. Current' = Current /\ HelloFirst' = HelloFirst /\ Uncut' = Uncut
  BY <1>1 DEF Current, HelloFirst, Uncut
<1>3. WriterOK'
  BY <1>1, <1>2 DEF WInv, WriterOK
<1>4. Flow'
  BY <1>1, <1>2 DEF WInv, Flow
<1>. QED
  BY <1>3, <1>4 DEF WInv

LEMMA ConnectionKeeps ==
  ASSUME WInv, Connection
  PROVE  WInv'
BY CutKeeps, NextStageKeeps, PollWriteKeeps, WakeKeeps, DeliverKeeps, PhaseKeeps DEF Connection

\* a connection that has not been made
LEMMA FreshConnection ==
  ASSUME NEW p, OfStages(p), NEW s, Unconnected(p, s)
  PROVE  WInv'
<1>1. /\ profile' = p /\ step' = s /\ call' = 1 /\ flushed' = TRUE /\ stage' = 0 /\ todo' = <<>> /\ out' = <<>>
      /\ queue' = <<>> /\ wire' = <<>>
      /\ counts' = [i \in DOMAIN p |-> 0] /\ carries' = [i \in DOMAIN p |-> 0]
  BY DEF Unconnected
<1>2. ~Uncut'
  BY <1>1 DEF Uncut
<1>3. Len(Flights) \in Nat /\ Len(Flights) > 1
  BY FlightsAssumption, LenProperties
<1>4. Current' = ModeOf(p) /\ Current' \in Mode
  BY <1>1, ModeFact DEF Current
<1>5. p # <<>> => 1 \in DOMAIN p
  <2>1. p # <<>> => Len(p) \in Nat \ {0} /\ DOMAIN p = 1..Len(p)
    BY ModeFact
  <2>. QED
    BY <2>1
<1>6. OfStages(p)'
  BY <1>1
<1>7. WriterOK'
  <2>1. Len(p) \in Nat
    BY LenProperties DEF OfStages
  <2>2. /\ stage' \in Nat /\ stage' <= Len(profile') /\ call' \in 1..(Len(Flights) + 1) /\ call' <= Len(Flights)
        /\ flushed' \in BOOLEAN
    BY <1>1, <1>3, <2>1
  <2>3. counts' \in [DOMAIN p -> Nat] /\ carries' \in [DOMAIN p -> Nat]
    BY <1>1
  <2>4. /\ <<>> \in Seq(Item) /\ <<>> \in Seq(Unit)
    BY EmptySeq
  <2>5. (HelloFirst => counts[1] = call - 1)'
    BY <1>1, <1>5 DEF HelloFirst
  <2>6. (Current.gap => carries[1] = 0)'
    <3>1. ModeOf(p).gap => p # <<>>
      BY ModeFact
    <3>. QED
      BY <1>1, <1>4, <1>5, <3>1
  <2>. QED
    BY <1>1, <1>2, <2>2, <2>3, <2>4, <2>5, <2>6 DEF WriterOK
<1>8. Flow'
  <2>1. Zero \in Places(ModeOf(p)) /\ Zero \in Place /\ Zero.k = 0 /\ Zero.left = 0
    BY DEF Zero, Places, Place
  <2>2. Leads(ModeOf(p), <<>>, Zero, Zero) /\ ItemsLead(ModeOf(p), <<>>, Zero, Zero)
    BY <2>1, ChainNil DEF Leads, ItemsLead
  <2>3. Before(1) = 0
    BY DEF Before
  <2>. QED
    BY <1>1, <1>2, <1>4, <2>1, <2>2, <2>3 DEF Flow
<1>. QED
  BY <1>7, <1>8 DEF WInv

-----------------------------------------------------------------------------
(* It is kept, whichever profile comes next.                               *)

ListOK == \A i \in DOMAIN presets : Hellos(presets[i])

LEMMA InitWriter == TestersInit => WInv /\ ListOK
<1> SUFFICES ASSUME TestersInit PROVE WInv /\ ListOK
  OBVIOUS
<1>1. /\ presets \in Sweeps /\ profile = <<>> /\ step = "idle" /\ call = 1 /\ flushed = TRUE
      /\ counts = <<>> /\ carries = <<>> /\ stage = 0 /\ todo = <<>> /\ out = <<>>
      /\ queue = <<>> /\ wire = <<>>
  BY DEF TestersInit, FragmentInit
<1>2. ListOK
  BY <1>1, SweepsAssumption DEF ListOK
<1>3. OfStages(<<>>)
  <2>1. <<>> \in Seq(Stage) /\ DOMAIN <<>> = {}
    BY EmptySeq
  <2>. QED
    BY <2>1 DEF OfStages, Hellos
<1>4. ~Uncut /\ ~HelloFirst
  BY <1>1 DEF Uncut, HelloFirst
<1>5. Len(Flights) \in Nat /\ Len(Flights) > 1 /\ Len(<<>>) = 0
  BY FlightsAssumption, LenProperties, EmptySeq
<1>6. Current = ModeOf(<<>>) /\ ~Current.gap
  BY <1>1, <1>3, ModeFact DEF Current
<1>7. <<>> \in [DOMAIN profile -> Nat] /\ <<>> \in Seq(Item) /\ <<>> \in Seq(Unit)
  <2>1. <<>> \in [{} -> Nat] /\ DOMAIN <<>> = {}
    BY EmptySeq
  <2>. QED
    BY <1>1, <2>1, EmptySeq
<1>8. WriterOK
  BY <1>1, <1>3, <1>4, <1>5, <1>6, <1>7 DEF WriterOK
<1>9. Flow
  <2>1. Leads(Current, <<>>, Zero, Zero) /\ ItemsLead(Current, <<>>, Zero, Zero)
    BY ZeroFact, ChainNil DEF Leads, ItemsLead
  <2>2. Before(1) = 0
    BY DEF Before
  <2>. QED
    BY <1>1, <1>4, <2>1, <2>2, ZeroFact DEF Flow
<1>. QED
  BY <1>2, <1>8, <1>9 DEF WInv

LEMMA StillConnection == WInv /\ UNCHANGED connection => WInv'
<1> SUFFICES ASSUME WInv, UNCHANGED connection PROVE WInv'
  OBVIOUS
<1>1. UNCHANGED <<profile, step, call, flushed, counts, carries, stage, todo, out, queue, wire>>
  BY DEF connection, stages, cutting, sending
<1>2. Current' = Current /\ HelloFirst' = HelloFirst /\ Uncut' = Uncut
  BY <1>1 DEF Current, HelloFirst, Uncut
<1>3. WriterOK'
  BY <1>1, <1>2 DEF WInv, WriterOK
<1>4. Flow'
  BY <1>1, <1>2 DEF WInv, Flow
<1>. QED
  BY <1>3, <1>4 DEF WInv

\* the profile that comes next
LEMMA UpcomingFact ==
  ASSUME FInv, ListOK, ~(cancel \/ runner.left = {})
  PROVE  OfStages(presets[Upcoming])
<1>1. runner \in Thread /\ presets \in Seq(Seq(Stage))
  BY DEF FInv, SessionOK
<1>2. runner.left \in SUBSET Nat /\ runner.left \subseteq All
  BY <1>1, AllFact DEF Thread
<1>3. Upcoming \in DOMAIN presets
  BY <1>2, ForemostOf DEF Upcoming, All
<1>4. DOMAIN presets = 1..Len(presets)
  BY <1>1, LenProperties
<1>5. presets[Upcoming] \in Seq(Stage)
  BY <1>1, <1>3, <1>4, ElementOfSeq
<1>. QED
  BY <1>3, <1>5 DEF OfStages, ListOK

LEMMA NextWriter == FInv /\ WInv /\ ListOK /\ [TestersNext]_testersVars => WInv' /\ ListOK'
<1> SUFFICES ASSUME FInv, WInv, ListOK, [TestersNext]_testersVars PROVE WInv' /\ ListOK'
  OBVIOUS
<1>1. OfStages(<<>>)
  <2>1. <<>> \in Seq(Stage) /\ DOMAIN <<>> = {}
    BY EmptySeq
  <2>. QED
    BY <2>1 DEF OfStages, Hellos
<1>2. ASSUME TryNext PROVE WInv'
  <2>1. CASE cancel \/ runner.left = {}
    BY <1>2, <2>1, StillConnection DEF TryNext
  <2>2. CASE ~(cancel \/ runner.left = {})
    <3>1. OfStages(presets[Upcoming])
      BY <2>2, UpcomingFact
    <3>2. Unconnected(presets[Upcoming], "connect")
      BY <1>2, <2>2 DEF TryNext
    <3>. QED
      BY <3>1, <3>2, FreshConnection
  <2>. QED
    BY <2>1, <2>2
<1>3. ASSUME Abort \/ Send PROVE WInv'
  BY <1>1, <1>3, FreshConnection DEF Abort, Send
<1>4. ASSUME Check PROVE WInv'
  BY <1>4, ConnectionKeeps DEF Check
<1>5. ASSUME Receive \/ Join PROVE WInv'
  BY <1>5, StillConnection DEF Receive, Join
<1>6. ASSUME NEW a \in Ips \cup {NoIp}, OpenAuto(a) \/ EditIp(a) \/ OpenSelect(a) PROVE WInv'
  BY <1>6, StillConnection DEF OpenAuto, EditIp, OpenSelect
<1>7. ASSUME (\E p \in All : Toggle(p)) \/ PressStart \/ Back \/ Esc PROVE WInv'
  BY <1>7, StillConnection DEF Toggle, PressStart, Back, Esc
<1>8. ASSUME Fragment PROVE WInv'
  BY <1>2, <1>3, <1>4, <1>5, <1>6, <1>7, <1>8 DEF Fragment, FragmentStep
<1>9. ASSUME Speed \/ Quit \/ Relaunch \/ LeaveSpeed \/ Leave PROVE UNCHANGED connection
  BY <1>9 DEF Speed, Quit, Relaunch, LeaveSpeed, Leave, fragmentTest
<1>10. ASSUME UNCHANGED testersVars PROVE UNCHANGED connection
  BY <1>10 DEF testersVars, fragmentTest
<1>11. WInv'
  BY <1>8, <1>9, <1>10, StillConnection DEF TestersNext
<1>12. UNCHANGED presets
  BY DEF TestersNext, Fragment, FragmentStep, TryNext, Abort, Send, Check, Receive, Join, OpenAuto, EditIp,
         OpenSelect, Toggle, PressStart, Back, Esc, Speed, fragmentTest, Quit, Relaunch, LeaveSpeed, Leave,
         testersVars
<1>. QED
  BY <1>11, <1>12 DEF ListOK

-----------------------------------------------------------------------------
(* What has left, read from its beginning.                                 *)

LEMMA CountFact ==
  ASSUME wire \in Seq(Unit), NEW which
  PROVE  /\ Count(which, 0) = 0
         /\ \A i \in 0..Len(wire) : Count(which, i) \in Nat
         /\ \A i \in 1..Len(wire) :
              Count(which, i) = IF wire[i].kind = which THEN Count(which, i - 1) + 1 ELSE Count(which, i - 1)
<1> DEFINE At1(i) == {j \in 1..i : wire[j].kind = which}
<1>1. Len(wire) \in Nat
  BY LenProperties
<1>2. At1(0) = {}
  OBVIOUS
<1>3. ASSUME NEW i \in 0..Len(wire) PROVE IsFiniteSet(At1(i)) /\ Cardinality(At1(i)) \in Nat
  <2>1. IsFiniteSet(1..i)
    BY <1>1, FS_Interval
  <2>2. At1(i) \subseteq 1..i
    OBVIOUS
  <2> HIDE DEF At1
  <2>. QED
    BY <2>1, <2>2, FS_Subset, FS_CardinalityType
<1>4. ASSUME NEW i \in 1..Len(wire)
      PROVE  Count(which, i) = IF wire[i].kind = which THEN Count(which, i - 1) + 1 ELSE Count(which, i - 1)
  <2>1. i - 1 \in 0..Len(wire) /\ i \in 0..Len(wire) /\ i \notin 1..(i - 1) /\ i \in Nat
        /\ \A j : j \in 1..i <=> j \in 1..(i - 1) \/ j = i
    BY <1>1
  <2>2. IsFiniteSet(At1(i - 1)) /\ i \notin At1(i - 1)
    BY <1>3, <2>1
  <2>3. wire[i].kind = which => At1(i) = At1(i - 1) \cup {i}
    BY <2>1
  <2>4. wire[i].kind # which => At1(i) = At1(i - 1)
    BY <2>1
  <2> HIDE DEF At1
  <2>5. Cardinality(At1(i)) = IF wire[i].kind = which THEN Cardinality(At1(i - 1)) + 1 ELSE Cardinality(At1(i - 1))
    BY <2>2, <2>3, <2>4, FS_AddElement
  <2>. QED
    BY <2>5 DEF Count, At1
<1>5. Count(which, 0) = 0
  <2>1. Cardinality(At1(0)) = 0
    BY <1>2, FS_EmptySet
  <2>. QED
    BY <2>1 DEF Count
<1>. QED
  BY <1>3, <1>4, <1>5 DEF Count

\* the places on the way
WalkOf(f) ==
  /\ f \in [0..Len(wire) -> Place] /\ f[0] = Zero /\ f[Len(wire)].k >= Before(call)
  /\ \A i \in 1..Len(wire) : Reads(Current, f[i - 1], wire[i], f[i])

LEMMA WalkExists == WInv => \E f : WalkOf(f)
<1> SUFFICES ASSUME WInv PROVE \E f : WalkOf(f)
  OBVIOUS
<1>1. PICK x \in Places(Current) : Leads(Current, wire, Zero, x) /\ x.k >= Before(call)
  BY DEF WInv, Flow
<1>2. wire \in Seq(Unit)
  BY DEF WInv, WriterOK
<1>3. PICK f \in [0..Len(wire) -> Place] :
        /\ f[0] = Zero /\ f[Len(wire)] = x
        /\ \A i \in 1..Len(wire) : <<f[i - 1], f[i]>> \in Readings(Current)[wire[i]]
  BY <1>1 DEF Leads, Chain
<1>4. ASSUME NEW i \in 1..Len(wire) PROVE Reads(Current, f[i - 1], wire[i], f[i])
  <2>1. wire[i] \in Unit
    BY <1>2, ElementOfSeq
  <2>. QED
    BY <1>3, <2>1, ReadingsFact
<1>. QED
  BY <1>1, <1>3, <1>4 DEF WalkOf

LEMMA WalkCounts ==
  ASSUME WInv, NEW f, WalkOf(f)
  PROVE  \A i \in 0..Len(wire) : Count("byte", i) = f[i].k /\ Count("header", i) = f[i].h
<1> DEFINE Bad == {i \in 0..Len(wire) : ~(Count("byte", i) = f[i].k /\ Count("header", i) = f[i].h)}
<1> SUFFICES ASSUME Bad # {} PROVE FALSE
  OBVIOUS
<1>1. wire \in Seq(Unit) /\ Len(wire) \in Nat
  BY LenProperties DEF WInv, WriterOK
<1>2. Bad \in SUBSET Nat
  BY <1>1
<1>3. PICK i \in Bad : \A j \in Bad : i <= j
  <2> HIDE DEF Bad
  <2>. QED
    BY <1>2, ForemostOf
<1>4. i # 0
  <2>1. f[0].k = 0 /\ f[0].h = 0
    BY ZeroFact DEF WalkOf
  <2>2. Count("byte", 0) = 0 /\ Count("header", 0) = 0
    BY <1>1, CountFact
  <2>. QED
    BY <2>1, <2>2
<1>5. i \in 1..Len(wire) /\ i - 1 \in 0..Len(wire) /\ i - 1 \notin Bad
  <2>1. i \in 0..Len(wire)
    OBVIOUS
  <2>2. i \in 1..Len(wire) /\ i - 1 \in 0..Len(wire) /\ ~(i <= i - 1)
    BY <1>1, <1>4, <2>1
  <2> HIDE DEF Bad
  <2>. QED
    BY <1>3, <2>2
<1>6. Count("byte", i - 1) = f[i - 1].k /\ Count("header", i - 1) = f[i - 1].h
  BY <1>5
<1>7. Reads(Current, f[i - 1], wire[i], f[i])
  BY <1>5 DEF WalkOf
<1>8. /\ Count("byte", i) = IF wire[i].kind = "byte" THEN Count("byte", i - 1) + 1 ELSE Count("byte", i - 1)
      /\ Count("header", i) = IF wire[i].kind = "header" THEN Count("header", i - 1) + 1 ELSE Count("header", i - 1)
  BY <1>1, <1>5, CountFact
<1>9. Count("byte", i) = f[i].k /\ Count("header", i) = f[i].h
  <2>1. CASE StartsRecord(Current, f[i - 1], wire[i], f[i])
    <3>1. wire[i].kind = "header" /\ f[i].k = f[i - 1].k /\ f[i].h = f[i - 1].h + 1
      BY <2>1 DEF StartsRecord
    <3>. QED
      BY <1>6, <1>8, <3>1
  <2>2. CASE FillsRecord(Current, f[i - 1], wire[i], f[i])
    <3>1. wire[i].kind = "byte" /\ f[i].k = f[i - 1].k + 1 /\ f[i].h = f[i - 1].h
      BY <2>2 DEF FillsRecord
    <3>. QED
      BY <1>6, <1>8, <3>1
  <2>3. CASE Rests(f[i - 1], wire[i], f[i])
    <3>1. wire[i].kind = "pause" /\ f[i].k = f[i - 1].k /\ f[i].h = f[i - 1].h
      BY <2>3 DEF Rests
    <3>. QED
      BY <1>6, <1>8, <3>1
  <2>. QED
    BY <1>7, <2>1, <2>2, <2>3 DEF Reads
<1>. QED
  BY <1>9

\* a record has the units that its header says
LEMMA RecordFilled ==
  ASSUME WInv, NEW i \in DOMAIN wire, NEW j \in DOMAIN wire
  PROVE  LET place == Cardinality({m \in (i + 1)..j : wire[m].kind # "pause"})
         IN wire[i].kind = "header" /\ i < j /\ wire[j].kind # "pause" /\ place <= wire[i].n + 1
              => (wire[j].kind = "byte" <=> place <= wire[i].n)
<1> DEFINE S(t) == {m \in (i + 1)..t : wire[m].kind # "pause"}
           n == wire[i].n
<1> SUFFICES ASSUME wire[i].kind = "header", i < j, wire[j].kind # "pause", Cardinality(S(j)) <= n + 1
             PROVE  wire[j].kind = "byte" <=> Cardinality(S(j)) <= n
  OBVIOUS
<1>1. /\ wire \in Seq(Unit) /\ Len(wire) \in Nat /\ DOMAIN wire = 1..Len(wire)
      /\ i \in 1..Len(wire) /\ j \in 1..Len(wire) /\ i \in Nat /\ j \in Nat
  <2>1. wire \in Seq(Unit)
    BY DEF WInv, WriterOK
  <2>2. DOMAIN wire = 1..Len(wire) /\ Len(wire) \in Nat
    BY <2>1, LenProperties
  <2>. QED
    BY <2>1, <2>2
<1>2. PICK f : WalkOf(f)
  BY WalkExists
<1>3. \A t \in 1..Len(wire) : Reads(Current, f[t - 1], wire[t], f[t])
  BY <1>2 DEF WalkOf
<1>4. f[i].left = n /\ n \in Nat
  <2>1. wire[i] \in Unit
    BY <1>1, ElementOfSeq
  <2>2. n \in Nat
    BY <2>1 DEF Unit
  <2>3. f[i].left = n
    <3>1. Reads(Current, f[i - 1], wire[i], f[i])
      BY <1>1, <1>3
    <3>2. f[i].left = wire[i].n
      BY <3>1 DEF Reads, StartsRecord, FillsRecord, Rests
    <3>. QED
      BY <3>2
  <2>. QED
    BY <2>2, <2>3
<1>5. ASSUME NEW t \in i..Len(wire) PROVE IsFiniteSet(S(t)) /\ Cardinality(S(t)) \in Nat
  <2>1. IsFiniteSet((i + 1)..t)
    BY <1>1, FS_Interval
  <2>2. S(t) \subseteq (i + 1)..t
    OBVIOUS
  <2> HIDE DEF S
  <2>. QED
    BY <2>1, <2>2, FS_Subset, FS_CardinalityType
<1>6. Cardinality(S(i)) = 0
  <2>1. S(i) = {}
    BY <1>1
  <2> HIDE DEF S
  <2>. QED
    BY <2>1, FS_EmptySet
<1>7. ASSUME NEW t \in (i + 1)..Len(wire)
      PROVE  /\ t - 1 \in i..Len(wire) /\ t \in i..Len(wire) /\ t \in 1..Len(wire)
             /\ Cardinality(S(t)) = IF wire[t].kind # "pause" THEN Cardinality(S(t - 1)) + 1 ELSE Cardinality(S(t - 1))
  <2>1. t - 1 \in i..Len(wire) /\ t \in i..Len(wire) /\ t \in 1..Len(wire) /\ t \notin (i + 1)..(t - 1)
        /\ \A m : m \in (i + 1)..t <=> m \in (i + 1)..(t - 1) \/ m = t
    BY <1>1
  <2>2. IsFiniteSet(S(t - 1)) /\ t \notin S(t - 1)
    BY <1>5, <2>1
  <2>3. wire[t].kind # "pause" => S(t) = S(t - 1) \cup {t}
    BY <2>1
  <2>4. wire[t].kind = "pause" => S(t) = S(t - 1)
    BY <2>1
  <2> HIDE DEF S
  <2>. QED
    BY <2>1, <2>2, <2>3, <2>4, FS_AddElement
<1> HIDE DEF S, n
<1>8. \A t \in i..Len(wire) : Cardinality(S(t)) <= n => f[t].left = n - Cardinality(S(t))
  <2> DEFINE Bad == {t \in i..Len(wire) : Cardinality(S(t)) <= n /\ f[t].left # n - Cardinality(S(t))}
  <2> SUFFICES ASSUME Bad # {} PROVE FALSE
    OBVIOUS
  <2>1. Bad \in SUBSET Nat
    BY <1>1
  <2>2. PICK t \in Bad : \A r \in Bad : t <= r
    <3> HIDE DEF Bad
    <3>. QED
      BY <2>1, ForemostOf
  <2>3. t \in i..Len(wire) /\ Cardinality(S(t)) <= n /\ f[t].left # n - Cardinality(S(t))
    OBVIOUS
  <2>4. t # i
    BY <1>4, <1>6, <2>3
  <2>5. t \in (i + 1)..Len(wire)
    BY <1>1, <2>3, <2>4
  <2>6. /\ t - 1 \in i..Len(wire) /\ t \in 1..Len(wire)
        /\ Cardinality(S(t)) = IF wire[t].kind # "pause" THEN Cardinality(S(t - 1)) + 1 ELSE Cardinality(S(t - 1))
    BY <1>7, <2>5
  <2>7. t - 1 \notin Bad
    <3>1. ~(t <= t - 1)
      BY <1>1, <2>5
    <3> HIDE DEF Bad
    <3>. QED
      BY <2>2, <3>1
  <2>8. Cardinality(S(t - 1)) \in Nat
    BY <1>5, <2>6
  <2>9. f[t - 1].left = n - Cardinality(S(t - 1))
    <3>1. Cardinality(S(t - 1)) <= n
      BY <1>4, <2>3, <2>6, <2>8
    <3>. QED
      BY <2>6, <2>7, <3>1
  <2> HIDE DEF Bad
  <2>10. Reads(Current, f[t - 1], wire[t], f[t])
    BY <1>3, <2>6
  <2>11. CASE StartsRecord(Current, f[t - 1], wire[t], f[t])
    <3>1. wire[t].kind # "pause" /\ f[t - 1].left = 0
      BY <2>11 DEF StartsRecord
    <3>. QED
      BY <1>4, <2>3, <2>6, <2>8, <2>9, <3>1
  <2>12. CASE FillsRecord(Current, f[t - 1], wire[t], f[t])
    <3>1. wire[t].kind # "pause" /\ f[t].left = f[t - 1].left - 1
      BY <2>12 DEF FillsRecord
    <3>. QED
      BY <1>4, <2>3, <2>6, <2>8, <2>9, <3>1
  <2>13. CASE Rests(f[t - 1], wire[t], f[t])
    <3>1. wire[t].kind = "pause" /\ f[t].left = f[t - 1].left
      BY <2>13 DEF Rests
    <3>. QED
      BY <1>4, <2>3, <2>6, <2>8, <2>9, <3>1
  <2>. QED
    BY <2>10, <2>11, <2>12, <2>13 DEF Reads
<1>9. j \in (i + 1)..Len(wire)
  BY <1>1
<1>10. /\ j - 1 \in i..Len(wire) /\ j \in 1..Len(wire) /\ Cardinality(S(j)) = Cardinality(S(j - 1)) + 1
       /\ Cardinality(S(j - 1)) \in Nat
  BY <1>5, <1>7, <1>9
<1>11. f[j - 1].left = n - Cardinality(S(j - 1))
  BY <1>4, <1>8, <1>10
<1>12. Reads(Current, f[j - 1], wire[j], f[j])
  BY <1>3, <1>10
<1>13. CASE StartsRecord(Current, f[j - 1], wire[j], f[j])
  <2>1. wire[j].kind = "header" /\ f[j - 1].left = 0
    BY <1>13 DEF StartsRecord
  <2>. QED
    BY <1>4, <1>10, <1>11, <2>1
<1>14. CASE FillsRecord(Current, f[j - 1], wire[j], f[j])
  <2>1. wire[j].kind = "byte" /\ f[j - 1].left > 0
    BY <1>14 DEF FillsRecord
  <2>. QED
    BY <1>4, <1>10, <1>11, <2>1
<1>. QED
  BY <1>12, <1>13, <1>14 DEF Reads, Rests

LEMMA HelloCapped == WInv => SplitCapped
<1> SUFFICES ASSUME WInv, NEW x \in DOMAIN profile, profile[x].packets = "tlshello", profile[x].split[1] > 0,
                    NEW i \in DOMAIN wire, wire[i].kind = "byte", Count("byte", i) <= Hello
             PROVE  Count("header", i) <= profile[x].split[2]
  BY DEF SplitCapped
<1>1. /\ x = 1 /\ profile # <<>> /\ Current.cap = profile[1].split[2] /\ profile[1].split \in Span
      /\ wire \in Seq(Unit)
  <2>1. OfStages(profile) /\ wire \in Seq(Unit)
    BY DEF WInv, WriterOK
  <2>2. x = 1
    BY <2>1 DEF OfStages, Hellos
  <2>3. profile # <<>>
    BY <2>2, EmptySeq
  <2>4. profile[1] \in Stage
    BY <2>1, <2>3, ModeFact
  <2>. QED
    BY <2>1, <2>2, <2>3, <2>4 DEF Current, ModeOf, Stage
<1>2. Current.cap > 0
  <2>1. profile[1].split[1] \in Nat /\ profile[1].split[2] \in Nat /\ profile[1].split[1] <= profile[1].split[2]
    BY <1>1 DEF Span
  <2>. QED
    BY <1>1, <2>1
<1>3. i \in 1..Len(wire) /\ i \in 0..Len(wire) /\ i - 1 \in 0..Len(wire)
  <2>1. DOMAIN wire = 1..Len(wire) /\ Len(wire) \in Nat
    BY <1>1, LenProperties
  <2>. QED
    BY <2>1
<1>4. PICK f : WalkOf(f)
  BY WalkExists
<1>5. Count("byte", i) = f[i].k /\ Count("header", i) = f[i].h
  BY <1>3, <1>4, WalkCounts
<1>6. Reads(Current, f[i - 1], wire[i], f[i]) /\ f[i - 1] \in Place
  BY <1>3, <1>4 DEF WalkOf
<1>7. /\ f[i].k = f[i - 1].k + 1 /\ f[i].h = f[i - 1].h
      /\ Current.cap = 0 \/ f[i - 1].k >= Hello \/ f[i - 1].h <= Current.cap
  BY <1>6 DEF Reads, StartsRecord, FillsRecord, Rests
<1>8. f[i - 1].k \in Nat /\ Hello \in Nat
  BY <1>6, HelloFact DEF Place
<1>. QED
  BY <1>1, <1>2, <1>5, <1>7, <1>8

LEMMA WriterImplies == WInv => Reassembles
<1> SUFFICES ASSUME WInv PROVE Reassembles
  OBVIOUS
<1>1. wire \in Seq(Unit) /\ Len(wire) \in Nat /\ DOMAIN wire = 1..Len(wire)
  <2>1. wire \in Seq(Unit)
    BY DEF WInv, WriterOK
  <2>. QED
    BY <2>1, LenProperties
<1>2. PICK f : WalkOf(f)
  BY WalkExists
<1>3. ASSUME NEW i \in DOMAIN wire, wire[i].kind = "byte" PROVE wire[i].n = Count("byte", i)
  <2>1. i \in 1..Len(wire) /\ i \in 0..Len(wire)
    BY <1>1
  <2>2. Reads(Current, f[i - 1], wire[i], f[i])
    BY <1>2, <2>1 DEF WalkOf
  <2>3. wire[i].n = f[i].k
    BY <1>3, <2>2 DEF Reads, StartsRecord, FillsRecord, Rests
  <2>. QED
    BY <1>2, <2>1, <2>3, WalkCounts
<1>4. Count("byte", Len(wire)) >= Before(call)
  <2>1. Len(wire) \in 0..Len(wire)
    BY <1>1
  <2>2. f[Len(wire)].k >= Before(call)
    BY <1>2 DEF WalkOf
  <2>. QED
    BY <1>2, <2>1, <2>2, WalkCounts
<1>. QED
  BY <1>3, <1>4, RecordFilled, HelloCapped DEF Reassembles

\* However a flight is cut, whatever part of a piece the stream takes and
\* however often the client offers its write again, the payload leaves in order,
\* once, in records whose headers are right, cut into no more than the profile's
\* cap; a write reported done has left as a whole.
THEOREM ReassemblesHolds == TestersSpec => []Reassembles
<1>1. TestersInit => FInv /\ WInv /\ ListOK
  BY InitFragment, InitWriter
<1>2. FInv /\ WInv /\ ListOK /\ [TestersNext]_testersVars => (FInv /\ WInv /\ ListOK)'
  BY NextFragment, NextWriter
<1>3. FInv /\ WInv /\ ListOK => Reassembles
  BY WriterImplies
<1>. QED
  BY <1>1, <1>2, <1>3, PTL DEF TestersSpec

-----------------------------------------------------------------------------
(* Pauses.                                                                 *)

\* between two records of a hello with an interval there is a pause
LEMMA HelloPaused ==
  ASSUME WInv, Len(profile) = 1, profile[1].packets = "tlshello", AllDelayed(profile[1]),
         NEW i \in DOMAIN wire, NEW j \in DOMAIN wire, i < j, Unpaused(i, j),
         Count("byte", j) <= Hello, Count("byte", j) < Before(2)
  PROVE  ~(wire[i].kind = "header" /\ wire[j].kind = "header")
<1> SUFFICES ASSUME wire[i].kind = "header", wire[j].kind = "header" PROVE FALSE
  OBVIOUS
<1>1. /\ wire \in Seq(Unit) /\ Len(wire) \in Nat /\ DOMAIN wire = 1..Len(wire)
      /\ i \in 1..Len(wire) /\ j \in 1..Len(wire) /\ i \in Nat /\ j \in Nat
  <2>1. wire \in Seq(Unit)
    BY DEF WInv, WriterOK
  <2>2. DOMAIN wire = 1..Len(wire) /\ Len(wire) \in Nat
    BY <2>1, LenProperties
  <2>. QED
    BY <2>1, <2>2
<1>2. PICK f : WalkOf(f)
  BY WalkExists
<1>3. \A t \in 1..Len(wire) : Reads(Current, f[t - 1], wire[t], f[t])
  BY <1>2 DEF WalkOf
<1>4. Current.gap = TRUE
  BY DEF Current, ModeOf
<1>5. f[i].o = TRUE
  <2>1. Reads(Current, f[i - 1], wire[i], f[i])
    BY <1>1, <1>3
  <2>2. StartsRecord(Current, f[i - 1], wire[i], f[i])
    BY <2>1 DEF Reads, FillsRecord, Rests
  <2>. QED
    BY <1>4, <2>2 DEF StartsRecord
<1>6. \A t \in i..j : f[t].o = TRUE
  <2> DEFINE Bad == {t \in i..j : f[t].o # TRUE}
  <2> SUFFICES ASSUME Bad # {} PROVE FALSE
    OBVIOUS
  <2>1. Bad \in SUBSET Nat
    <3>1. i..j \in SUBSET Nat
      BY <1>1
    <3>. QED
      BY <3>1, Zenon
  <2>2. PICK t \in Bad : \A r \in Bad : t <= r
    <3> HIDE DEF Bad
    <3>. QED
      BY <2>1, ForemostOf
  <2>3. t \in i..j /\ f[t].o # TRUE
    OBVIOUS
  <2>4. t \in 1..Len(wire) /\ t # i /\ t - 1 \in i..j /\ ~(t <= t - 1)
    <3>1. t # i
      BY <1>5, <2>3
    <3>2. t \in i..j
      BY <2>3
    <3> HIDE DEF Bad
    <3>. QED
      BY <1>1, <3>1, <3>2
  <2>5. wire[t].kind # "pause"
    BY <2>3 DEF Unpaused
  <2>6. Reads(Current, f[t - 1], wire[t], f[t])
    BY <1>3, <2>4
  <2>7. f[t].o = Current.gap
    BY <2>5, <2>6 DEF Reads, StartsRecord, FillsRecord, Rests
  <2>. QED
    BY <1>4, <2>3, <2>7
<1>7. j - 1 \in i..j /\ j \in 0..Len(wire)
  BY <1>1
<1>8. Reads(Current, f[j - 1], wire[j], f[j])
  BY <1>1, <1>3
<1>9. StartsRecord(Current, f[j - 1], wire[j], f[j])
  BY <1>8 DEF Reads, FillsRecord, Rests
<1>10. f[j].k = f[j - 1].k /\ (f[j - 1].k > Hello \/ f[j - 1].k >= Before(2))
  BY <1>4, <1>6, <1>7, <1>9 DEF StartsRecord
<1>11. f[j].k = Count("byte", j) /\ Count("byte", j) \in Nat /\ Hello \in Nat /\ Before(2) \in Nat
  <2>1. Count("byte", j) \in Nat
    BY <1>1, <1>7, CountFact
  <2>. QED
    BY <1>2, <1>7, <2>1, WalkCounts, HelloFact
<1>. QED
  BY <1>10, <1>11

\* a pattern has a longest entry
LEMMA LongestFact ==
  ASSUME NEW s \in Stage
  PROVE  /\ Longest(s) \in Nat
         /\ \A i \in DOMAIN s.lengths : \A l \in Between(s.lengths[i]) : l <= Longest(s)
<1> DEFINE pattern == s.lengths  n == Len(pattern)
           top(i) == IF pattern[i][1] = pattern[i][2] THEN pattern[i][1] ELSE pattern[i][2] - 1
           ls == UNION {Between(pattern[i]) : i \in DOMAIN pattern}
<1>1. pattern \in Seq(Span) /\ pattern # <<>>
  BY DEF Stage
<1> HIDE DEF pattern
<1>2. n \in Nat \ {0} /\ DOMAIN pattern = 1..n /\ \A i \in 1..n : pattern[i] \in Span
  <2>1. n \in Nat /\ DOMAIN pattern = 1..n
    BY <1>1, LenProperties
  <2>2. n # 0
    BY <1>1, EmptySeq
  <2>. QED
    BY <1>1, <2>1, <2>2, ElementOfSeq
<1> HIDE DEF n
<1>3. ASSUME NEW i \in 1..n
      PROVE  top(i) \in Nat /\ top(i) \in Between(pattern[i]) /\ \A l \in Between(pattern[i]) : l \in Nat /\ l <= top(i)
  <2>1. pattern[i][1] \in Nat /\ pattern[i][2] \in Nat /\ pattern[i][1] <= pattern[i][2]
    BY <1>2 DEF Span
  <2>2. CASE pattern[i][1] = pattern[i][2]
    BY <2>1, <2>2 DEF Between
  <2>3. CASE pattern[i][1] # pattern[i][2]
    BY <2>1, <2>3 DEF Between
  <2>. QED
    BY <2>2, <2>3
<1> HIDE DEF top
<1> DEFINE f == [i \in 1..n |-> top(i)]
<1>4. f \in [1..n -> Nat]
  BY <1>3
<1>5. PICK i \in 1..n : \A j \in 1..n : f[j] <= f[i]
  <2> HIDE DEF f
  <2>. QED
    BY <1>2, <1>4, LargestRate
<1>6. \A j \in 1..n : top(j) <= top(i)
  BY <1>5
<1> HIDE DEF f
<1>7. top(i) \in ls /\ \A l \in ls : l \in Nat /\ l <= top(i)
  <2>1. top(i) \in ls
    BY <1>2, <1>3
  <2>2. ASSUME NEW l \in ls PROVE l \in Nat /\ l <= top(i)
    <3>1. PICK j \in 1..n : l \in Between(pattern[j])
      BY <1>2
    <3>2. l \in Nat /\ l <= top(j) /\ top(j) \in Nat /\ top(i) \in Nat /\ top(j) <= top(i)
      BY <1>3, <1>6, <3>1
    <3>. QED
      BY <3>2
  <2>. QED
    BY <2>1, <2>2
<1>8. Longest(s) = CHOOSE l \in ls : \A m \in ls : m <= l
  BY DEF Longest, pattern
<1>9. Longest(s) \in ls /\ \A m \in ls : m <= Longest(s)
  <2> HIDE DEF ls
  <2>. QED
    BY <1>7, <1>8
<1>10. Longest(s) \in Nat
  BY <1>7, <1>9
<1>11. \A j \in DOMAIN pattern : \A l \in Between(pattern[j]) : l <= Longest(s)
  BY <1>9
<1>. QED
  BY <1>10, <1>11 DEF pattern

\* units are tallied between pauses; at a pause the tally may begin anew
Tally(most) ==
  [u \in Unit |-> {ab \in Place \X Place :
     ab[2].k <= most /\ (u.kind = "pause" \/ ab[2].k = ab[1].k + 1)}]

LEMMA TallyOn ==
  ASSUME NEW most \in Nat, NEW s \in Seq(Unit), NEW a \in Place, a.k + Len(s) <= most
  PROVE  LET b == [k |-> a.k + Len(s), left |-> a.left, h |-> a.h, o |-> a.o]
         IN b \in Place /\ Chain(Tally(most), s, a, b)
<1> DEFINE b(i) == [k |-> a.k + i, left |-> a.left, h |-> a.h, o |-> a.o]
           f == [i \in 0..Len(s) |-> b(i)]
<1>1. Len(s) \in Nat /\ a.k \in Nat /\ a.left \in Nat /\ a.h \in Nat /\ a.o \in BOOLEAN
  BY LenProperties DEF Place
<1>2. \A i \in 0..Len(s) : b(i) \in Place /\ b(i).k = a.k + i
  BY <1>1 DEF Place
<1>3. b(0) = a
  BY <1>1 DEF Place
<1> HIDE DEF b
<1>4. f \in [0..Len(s) -> Place] /\ f[0] = a /\ f[Len(s)] = b(Len(s))
  BY <1>1, <1>2, <1>3
<1>5. ASSUME NEW i \in 1..Len(s) PROVE <<f[i - 1], f[i]>> \in Tally(most)[s[i]]
  <2>1. s[i] \in Unit /\ i - 1 \in 0..Len(s) /\ i \in 0..Len(s)
    BY <1>1, ElementOfSeq
  <2>2. f[i - 1] = b(i - 1) /\ f[i] = b(i)
    BY <2>1
  <2>3. b(i).k <= most /\ b(i).k = b(i - 1).k + 1 /\ b(i) \in Place /\ b(i - 1) \in Place
    BY <1>1, <1>2, <2>1
  <2> HIDE DEF f
  <2>. QED
    BY <2>1, <2>2, <2>3 DEF Tally
<1>6. Chain(Tally(most), s, a, b(Len(s)))
  <2>1. \A i \in 1..Len(s) : <<f[i - 1], f[i]>> \in Tally(most)[s[i]]
    BY <1>5
  <2> HIDE DEF f
  <2>2. \E g \in [0..Len(s) -> Place] :
          /\ g[0] = a /\ g[Len(s)] = b(Len(s))
          /\ \A i \in 1..Len(s) : <<g[i - 1], g[i]>> \in Tally(most)[s[i]]
    <3>1. f \in [0..Len(s) -> Place] /\ f[0] = a /\ f[Len(s)] = b(Len(s))
      BY <1>4
    <3>. USE <3>1
    <3>. WITNESS f \in [0..Len(s) -> Place]
    <3>. QED
      BY <2>1
  <2>. QED
    BY <2>2 DEF Chain
<1>7. b(Len(s)) = [k |-> a.k + Len(s), left |-> a.left, h |-> a.h, o |-> a.o]
  BY DEF b
<1>8. b(Len(s)) \in Place
  <2>. Len(s) \in 0..Len(s)
    BY <1>1
  <2>. QED
    BY <1>2
<1>. QED
  BY <1>6, <1>7, <1>8, Zenon

\* units that no pause parts are at most as many as the longest piece
LEMMA TallyBounds ==
  ASSUME NEW most \in Nat, wire \in Seq(Unit), NEW a, NEW b, Chain(Tally(most), wire, a, b),
         NEW i \in DOMAIN wire, NEW j \in DOMAIN wire, i < j, Unpaused(i, j)
  PROVE  j - i < most
<1>1. Len(wire) \in Nat /\ DOMAIN wire = 1..Len(wire) /\ i \in 1..Len(wire) /\ j \in 1..Len(wire)
      /\ i \in Nat /\ j \in Nat
  BY LenProperties
<1>2. PICK f \in [0..Len(wire) -> Place] :
        \A t \in 1..Len(wire) : <<f[t - 1], f[t]>> \in Tally(most)[wire[t]]
  BY DEF Chain
<1>3. \A t \in 0..Len(wire) : f[t] \in Place /\ f[t].k \in Nat
  BY <1>2 DEF Place
<1>4. ASSUME NEW t \in 1..Len(wire)
      PROVE  f[t].k <= most /\ (wire[t].kind # "pause" => f[t].k = f[t - 1].k + 1)
  <2>1. wire[t] \in Unit
    BY ElementOfSeq
  <2>. QED
    BY <1>2, <2>1 DEF Tally
<1>5. f[i].k > 0
  <2>1. wire[i].kind # "pause"
    BY <1>1 DEF Unpaused
  <2>2. i - 1 \in 0..Len(wire)
    BY <1>1
  <2>3. f[i - 1].k \in Nat
    BY <1>3, <2>2
  <2>. QED
    BY <1>1, <1>4, <2>1, <2>3
<1>6. \A t \in i..j : f[t].k = f[i].k + (t - i)
  <2> DEFINE Bad == {t \in i..j : f[t].k # f[i].k + (t - i)}
  <2> SUFFICES ASSUME Bad # {} PROVE FALSE
    OBVIOUS
  <2>1. Bad \in SUBSET Nat
    BY <1>1
  <2>2. PICK t \in Bad : \A r \in Bad : t <= r
    <3> HIDE DEF Bad
    <3>. QED
      BY <2>1, ForemostOf
  <2>3. t \in i..j /\ f[t].k # f[i].k + (t - i)
    OBVIOUS
  <2>4. t # i
    <3>1. i \in 0..Len(wire)
      BY <1>1
    <3>2. f[i].k \in Nat
      BY <1>3, <3>1
    <3>. QED
      BY <1>1, <2>3, <3>2
  <2>5. t \in 1..Len(wire) /\ t - 1 \in i..j /\ ~(t <= t - 1) /\ t - 1 \in 0..Len(wire)
    BY <1>1, <2>3, <2>4
  <2>6. t - 1 \notin Bad
    <3> HIDE DEF Bad
    <3>. QED
      BY <2>2, <2>5
  <2>7. f[t - 1].k = f[i].k + ((t - 1) - i)
    BY <2>5, <2>6
  <2> HIDE DEF Bad
  <2>8. wire[t].kind # "pause"
    BY <2>3 DEF Unpaused
  <2>9. f[t].k = f[t - 1].k + 1
    BY <1>4, <2>5, <2>8
  <2>10. f[i].k \in Nat /\ t \in Nat
    BY <1>1, <1>3, <2>3
  <2>. QED
    BY <1>1, <2>3, <2>7, <2>9, <2>10
<1>7. f[j].k = f[i].k + (j - i) /\ f[j].k <= most
  BY <1>1, <1>4, <1>6
<1>8. f[i].k \in Nat
  BY <1>1, <1>3
<1>. QED
  BY <1>1, <1>5, <1>7, <1>8

\* a profile with an interval that cuts every write
Spaced ==
  /\ Len(profile) = 1 /\ profile[1].packets = "all"
  /\ AllDelayed(profile[1]) /\ profile[1].split = <<0, 0>>
Most == Longest(profile[1])

\* the pieces that are ready to leave when the tally is at c
Going(q, c) ==
  \A i \in 1..Len(q) :
    /\ Len(q[i].bytes) <= Most
    /\ i > 1 => q[i].delay > 0
    /\ i = 1 /\ q[i].delay = 0 => c.k + Len(q[i].bytes) <= Most

\* a tally leads through what has left, and what is under way can follow it
Wave ==
  Spaced =>
    /\ todo = <<>> \/ Uncut
    /\ stage = 0 => out = <<>>
    /\ carries[1] > 0 \/ (wire = <<>> /\ out = <<>> /\ queue = <<>>)
    /\ \E c \in Place : Chain(Tally(Most), wire, Zero, c) /\ Going(out, c) /\ Going(queue, c)

LEMMA ReadyNone == \A c : Going(<<>>, c)
<1>1. Len(<<>>) = 0 /\ 1..0 = {}
  BY EmptySeq
<1>. QED
  BY <1>1 DEF Going

LEMMA SpacedFact ==
  ASSUME WInv, Spaced
  PROVE  /\ profile[1] \in Stage /\ Most \in Nat /\ DOMAIN profile = {1} /\ carries[1] \in Nat
         /\ wire \in Seq(Unit) /\ queue \in Seq(Item) /\ out \in Seq(Item)
<1>1. OfStages(profile) /\ Len(profile) = 1
  BY DEF WInv, WriterOK, Spaced
<1>2. profile # <<>>
  BY <1>1, EmptySeq
<1>3. profile[1] \in Stage /\ DOMAIN profile = 1..Len(profile)
  BY <1>1, <1>2, ModeFact
<1>4. DOMAIN profile = {1}
  BY <1>1, <1>3
<1>. QED
  BY <1>3, <1>4, LongestFact DEF WInv, WriterOK, Most

\* no piece is longer than the pattern allows
LEMMA PieceLength ==
  ASSUME NEW s \in Stage, NEW n \in Nat, NEW c \in Cuts(s, n, 0), NEW k \in 1..Len(c)
  PROVE  c[k] - Edge(c, k) <= Longest(s)
<1>1. CutOf(c, n)
  BY CutsFact
<1>2. Len(c) \in Nat /\ c[k] \in 0..n /\ Edge(c, k) \in 0..n /\ Edge(c, k) <= c[k]
  BY <1>1, CutFact
<1>3. s.lengths \in Seq(Span) /\ s.lengths # <<>>
  BY DEF Stage
<1>4. \A m \in 1..Len(c) : \A l \in Between(At(s.lengths, m)) : l <= Longest(s) /\ l \in Nat
  <2>1. SUFFICES ASSUME NEW m \in 1..Len(c), NEW l \in Between(At(s.lengths, m)) PROVE l <= Longest(s) /\ l \in Nat
    OBVIOUS
  <2>2. Len(s.lengths) \in Nat \ {0} /\ DOMAIN s.lengths = 1..Len(s.lengths)
    BY <1>3, LenProperties, EmptySeq
  <2> DEFINE i == IF m > Len(s.lengths) THEN Len(s.lengths) ELSE m
  <2>3. i \in 1..Len(s.lengths) /\ At(s.lengths, m) = s.lengths[i]
    BY <1>2, <2>2 DEF At
  <2> HIDE DEF i
  <2>4. s.lengths[i] \in Span
    BY <1>3, <2>3, ElementOfSeq
  <2>. QED
    BY <2>2, <2>3, <2>4, LongestFact, BetweenFact
<1>5. CASE k \in 1..(Len(c) - 1)
  <2>1. Size(c, k) \in Between(At(s.lengths, k))
    BY <1>5 DEF Cuts, Shaped
  <2>. QED
    BY <1>4, <2>1 DEF Size
<1>6. CASE k = Len(c)
  <2>1. Len(c) # 0
    BY <1>6
  <2>2. Fits(s, c)
    BY <2>1 DEF Cuts
  <2>3. PICK l \in Between(At(s.lengths, Len(c))) : l >= Size(c, Len(c))
    BY <2>2 DEF Fits
  <2>4. l <= Longest(s) /\ l \in Nat /\ Longest(s) \in Nat
    BY <1>4, <1>6, <2>3, LongestFact
  <2>5. Size(c, Len(c)) = c[k] - Edge(c, k)
    BY <1>6 DEF Size
  <2>. QED
    BY <1>2, <2>3, <2>4, <2>5
<1>. QED
  BY <1>2, <1>5, <1>6

LEMMA CutWaves ==
  ASSUME WInv, Wave, Cut
  PROVE  Wave'
<1>0. UNCHANGED <<profile, stage, queue, wire>>
  BY DEF Cut, sending
<1> SUFFICES ASSUME Spaced PROVE Wave'
  BY <1>0 DEF Wave, Spaced
<1> DEFINE s == profile[1]  bytes == Buffer(call)
<1>1. /\ s \in Stage /\ Most \in Nat /\ DOMAIN profile = {1} /\ carries[1] \in Nat /\ s.packets = "all"
      /\ AllDelayed(s) /\ s.split = <<0, 0>>
  BY SpacedFact DEF Spaced
<1>2. stage = 1 /\ todo # <<>> /\ Uncut
  BY <1>1 DEF Cut, Uncut
<1>3. todo = <<[bytes |-> bytes, delay |-> 0]>> /\ out = <<>> /\ queue = <<>> /\ bytes \in Seq(Unit)
  <2>1. todo = <<[bytes |-> bytes, delay |-> 0]>> /\ out = <<>> /\ queue = <<>> /\ todo \in Seq(Item)
    BY <1>2 DEF WInv, WriterOK
  <2>2. todo[1] \in Item /\ todo[1].bytes = bytes
    BY <1>2, <2>1, HeadFact
  <2>. QED
    BY <2>1, <2>2 DEF Item
<1>4. todo[1].bytes = bytes /\ todo[1].delay = 0
  BY <1>3
<1> DEFINE Passes(items, trailing) ==
             /\ out' = out \o Emitted(items, todo[1].delay, carries[1])
             /\ carries' = [carries EXCEPT ![1] = trailing]
<1>5. PICK cap \in Between(s.split) :
        \E c \in Cuts(s, Len(bytes), cap) :
        \E d \in Draws(s.delays, Len(c)) : Passes(Paused(Pieces(bytes, c), d), Last(d))
  <2>1. Matches(s, bytes, counts[stage] + 1)
    BY <1>1 DEF Matches
  <2>2. /\ Matches(profile[stage], todo[1].bytes, counts[stage] + 1)
        /\ profile[stage].packets # "tlshello"
    BY <1>1, <1>2, <1>4, <2>1
  <2>3. \E cap \in Between(profile[stage].split) :
        \E c \in Cuts(profile[stage], Len(todo[1].bytes), cap) :
        \E d \in Draws(profile[stage].delays, Len(c)) :
          /\ out' = out \o Emitted(Paused(Pieces(todo[1].bytes, c), d), todo[1].delay, carries[stage])
          /\ carries' = [carries EXCEPT ![stage] = Last(d)]
    BY <2>2 DEF Cut, Emitted
  <2>4. stage = 1 /\ todo[1].bytes = bytes
    BY <1>2, <1>4
  <2> HIDE DEF bytes
  <2>. QED
    BY <2>3, <2>4
<1>6. cap = 0
  BY <1>1, <1>5 DEF Between
<1>7. PICK c \in Cuts(s, Len(bytes), 0) :
        \E d \in Draws(s.delays, Len(c)) : Passes(Paused(Pieces(bytes, c), d), Last(d))
  BY <1>5, <1>6
<1>8. PICK d \in Draws(s.delays, Len(c)) : Passes(Paused(Pieces(bytes, c), d), Last(d))
  BY <1>7
<1> DEFINE ps == Pieces(bytes, c)  q == Paused(ps, d)  n == Len(c)  r == Emitted(q, todo[1].delay, carries[1])
<1>9. Len(bytes) \in Nat /\ CutOf(c, Len(bytes))
  BY <1>3, LenProperties, CutsFact
<1>10. /\ ps \in Seq(Seq(Unit)) /\ Len(ps) = n /\ n \in Nat \ {0}
       /\ \A k \in 1..n : Len(ps[k]) = c[k] - Edge(c, k)
  BY <1>3, <1>9, PiecesFact
<1>11. \A k \in 1..n : Len(ps[k]) <= Most
  BY <1>1, <1>9, <1>10, PieceLength DEF Most
<1>12. d \in Seq(Nat) /\ Len(d) = n /\ \A k \in 1..n : d[k] > 0 /\ d[k] \in Nat
  <2>1. s.delays \in Seq(Span) \ {<<>>}
    BY <1>1 DEF Stage
  <2>2. \A i \in DOMAIN s.delays : s.delays[i][1] > 0
    BY <1>1 DEF AllDelayed
  <2>. QED
    BY <1>10, <2>1, <2>2, DrawFact
<1>13. Last(d) > 0
  <2>1. Last(d) = d[n] /\ n \in 1..n
    BY <1>10, <1>12 DEF Last
  <2>. QED
    BY <1>12, <2>1
<1>14. Passes(q, Last(d))
  BY <1>8
<1> HIDE DEF n, ps
<1>15. /\ q \in Seq(Item) /\ Len(q) = n /\ \A k \in 1..n : q[k].bytes = ps[k]
       /\ \A k \in 1..n : q[k].delay = IF k = 1 THEN 0 ELSE d[k - 1]
  <2>1. ps \in Seq(Seq(Unit)) /\ Len(ps) = n /\ n \in Nat \ {0}
    BY <1>10
  <2>2. d \in Seq(Nat) /\ Len(d) = n
    BY <1>12
  <2> HIDE DEF s, bytes
  <2>. QED
    BY <2>1, <2>2, PausedFact
<1> HIDE DEF q
<1>16. q # <<>>
  BY <1>10, <1>15, EmptySeq
<1>17. /\ r \in Seq(Item) /\ Len(r) = n
       /\ \A i \in 1..n : r[i].bytes = q[i].bytes
       /\ \A i \in 1..n : r[i].delay = IF i = 1 THEN q[1].delay + todo[1].delay + carries[1] ELSE q[i].delay
  <2>1. /\ r \in Seq(Item) /\ Len(r) = Len(q) /\ \A i \in 1..Len(q) : r[i].bytes = q[i].bytes
        /\ \A i \in 1..Len(q) : r[i].delay = IF i = 1 THEN q[1].delay + todo[1].delay + carries[1] ELSE q[i].delay
    <3> DEFINE delta == todo[1].delay  carry == carries[1]  e == Emitted(q, delta, carry)
    <3>1. delta \in Nat /\ carry \in Nat
      BY <1>1, <1>4
    <3> HIDE DEF delta, carry, s, bytes
    <3>2. /\ e \in Seq(Item) /\ Len(e) = Len(q) /\ \A i \in 1..Len(q) : e[i].bytes = q[i].bytes
          /\ \A i \in 1..Len(q) : e[i].delay = IF i = 1 THEN q[1].delay + delta + carry ELSE q[i].delay
      BY <1>15, <1>16, <3>1, EmitFact
    <3>. QED
      BY <3>2 DEF delta, carry
  <2>. QED
    BY <1>15, <2>1
<1>18. out' = r
  <2>1. out' = <<>> \o r
    BY <1>3, <1>14
  <2> HIDE DEF r
  <2>. QED
    BY <1>17, <2>1, ConcatEmptySeq
<1> HIDE DEF r
<1>19. carries'[1] > 0
  <2>1. 1 \in DOMAIN carries
    BY <1>1 DEF WInv, WriterOK
  <2>. QED
    BY <1>13, <1>14, <2>1
<1>20. PICK a \in Place : Chain(Tally(Most), wire, Zero, a) /\ (carries[1] > 0 \/ wire = <<>>)
  BY DEF Wave
<1>21. Going(r, a)
  <2>1. SUFFICES ASSUME NEW i \in 1..n
                 PROVE  /\ Len(r[i].bytes) <= Most
                        /\ i > 1 => r[i].delay > 0
                        /\ i = 1 /\ r[i].delay = 0 => a.k + Len(r[i].bytes) <= Most
    BY <1>17 DEF Going
  <2>2. r[i].bytes = ps[i] /\ Len(ps[i]) <= Most /\ Len(ps[i]) \in Nat
    <3>1. ps[i] \in Seq(Unit)
      BY <1>10, ElementOfSeq
    <3>2. Len(ps[i]) \in Nat
      BY <3>1, LenProperties
    <3>. QED
      BY <1>11, <1>15, <1>17, <3>2
  <2>3. i > 1 => r[i].delay > 0
    <3>1. SUFFICES ASSUME i > 1 PROVE r[i].delay > 0
      OBVIOUS
    <3>2. i # 1 /\ i - 1 \in 1..n
      BY <1>10, <3>1
    <3>3. r[i].delay = d[i - 1]
      BY <1>15, <1>17, <3>2
    <3>. QED
      BY <1>12, <3>2, <3>3
  <2>4. i = 1 /\ r[i].delay = 0 => a.k + Len(r[i].bytes) <= Most
    <3>1. SUFFICES ASSUME i = 1, r[1].delay = 0 PROVE a.k + Len(ps[1]) <= Most
      BY <2>2
    <3>2. 1 \in 1..n
      BY <3>1
    <3>3. r[1].delay = q[1].delay + todo[1].delay + carries[1] /\ q[1].delay = 0
      BY <1>15, <1>17, <3>2
    <3>4. carries[1] = 0
      BY <1>1, <1>4, <3>1, <3>3
    <3>5. wire = <<>>
      BY <1>1, <1>20, <3>4
    <3>6. a = Zero
      BY <1>20, <3>5, ZeroFact, ChainNil
    <3>7. a.k = 0
      BY <3>6, ZeroFact
    <3>. QED
      BY <2>2, <3>1, <3>7
  <2>. QED
    BY <2>2, <2>3, <2>4
<1>22. todo' = <<>>
  <2>1. \A v : Tail(<<v>>) = <<>>
    OBVIOUS
  <2>2. todo' = Tail(todo)
    BY DEF Cut
  <2>. QED
    BY <1>3, <2>1, <2>2
<1>23. Going(queue, a)
  BY <1>3, ReadyNone
<1>24. Most' = Most /\ stage' # 0
  BY <1>0, <1>2 DEF Most
<1>25. Going(r, a)' = Going(r, a)' /\ (Going(out, a))' /\ (Going(queue, a))'
  BY <1>0, <1>18, <1>21, <1>23, <1>24 DEF Going
<1>. QED
  BY <1>0, <1>18, <1>19, <1>20, <1>22, <1>24, <1>25 DEF Wave

\* the first piece has changed, the others wait
LEMMA FirstGoing ==
  ASSUME NEW q \in Seq(Item), q # <<>>, NEW a, Going(q, a), NEW z \in Item, NEW c,
         Len(z.bytes) <= Most, z.delay = 0 => c.k + Len(z.bytes) <= Most
  PROVE  Going([q EXCEPT ![1] = z], c)
<1> DEFINE y == [q EXCEPT ![1] = z]
<1>1. Len(q) \in Nat \ {0} /\ 1 \in 1..Len(q)
  BY EmptySeq, LenProperties
<1>2. y \in Seq(Item) /\ Len(y) = Len(q) /\ \A j \in 1..Len(q) : y[j] = IF j = 1 THEN z ELSE q[j]
  BY <1>1, ExceptSeq
<1> HIDE DEF y
<1>3. ASSUME NEW i \in 1..Len(q)
      PROVE  /\ Len(y[i].bytes) <= Most
             /\ i > 1 => y[i].delay > 0
             /\ i = 1 /\ y[i].delay = 0 => c.k + Len(y[i].bytes) <= Most
  <2>1. CASE i = 1
    BY <1>2, <2>1
  <2>2. CASE i # 1
    <3>1. y[i] = q[i]
      BY <1>2, <2>2
    <3>. QED
      BY <2>2, <3>1 DEF Going
  <2>. QED
    BY <2>1, <2>2
<1>4. Going(y, c)
  BY <1>2, <1>3 DEF Going
<1>. QED
  BY <1>4 DEF y

LEMMA TailGoing ==
  ASSUME NEW q \in Seq(Item), q # <<>>, NEW a, Going(q, a), NEW c
  PROVE  Going(Tail(q), c)
<1>1. Len(q) \in Nat \ {0}
  BY EmptySeq, LenProperties
<1>2. Len(Tail(q)) = Len(q) - 1 /\ \A i \in 1..Len(Tail(q)) : Tail(q)[i] = q[i + 1]
  BY HeadTailProperties
<1>3. ASSUME NEW i \in 1..Len(Tail(q)) PROVE Len(Tail(q)[i].bytes) <= Most /\ Tail(q)[i].delay > 0
  <2>1. i + 1 \in 1..Len(q) /\ i + 1 > 1
    BY <1>1, <1>2
  <2>. QED
    BY <1>2, <2>1 DEF Going
<1>4. \A i \in 1..Len(Tail(q)) : Tail(q)[i].delay # 0
  <2>1. \A v : v > 0 => v # 0
    OBVIOUS
  <2>. QED
    BY <1>3, <2>1
<1>. QED
  BY <1>3, <1>4 DEF Going

LEMMA StillWaves ==
  ASSUME Wave, UNCHANGED <<profile, carries, stage, todo, out, queue, wire>>
  PROVE  Wave'
<1>1. Most' = Most /\ (Spaced <=> Spaced') /\ (Uncut <=> Uncut')
  BY DEF Most, Spaced, Uncut
<1>2. \A c : (Going(out, c) => Going(out, c)') /\ (Going(queue, c) => Going(queue, c)')
  BY <1>1 DEF Going
<1>. QED
  BY <1>1, <1>2 DEF Wave

LEMMA NextStageWaves ==
  ASSUME WInv, Wave, NextStage
  PROVE  Wave'
<1>1. UNCHANGED <<profile, carries, wire>> /\ out' = <<>> /\ stage # 0
  BY DEF NextStage, stages
<1> SUFFICES ASSUME Spaced PROVE Wave'
  BY <1>1 DEF Wave, Spaced
<1>2. stage = 1 /\ DOMAIN profile = {1} /\ Len(profile) = 1
  <2>1. stage \in Nat /\ (stage <= Len(profile) \/ profile = <<>>) /\ Len(profile) = 1
    BY DEF WInv, WriterOK, Spaced
  <2>2. profile # <<>>
    BY <2>1, EmptySeq
  <2>. QED
    BY <1>1, <2>1, <2>2, SpacedFact
<1>3. todo = <<>>
  BY <1>2 DEF NextStage
<1>4. stage' = 0 /\ todo' = <<>> /\ queue' = out
  <2>1. ~(stage < Len(profile))
    BY <1>2
  <2>. QED
    BY <1>3, <2>1 DEF NextStage
<1>5. PICK c \in Place : Chain(Tally(Most), wire, Zero, c) /\ Going(out, c)
  BY DEF Wave
<1>6. Most' = Most
  BY <1>1 DEF Most
<1>7. Going(out, c)' /\ Going(queue, c)'
  <2>1. Going(<<>>, c)
    BY ReadyNone
  <2>. QED
    BY <1>1, <1>4, <1>5, <1>6, <2>1 DEF Going
<1>8. carries[1] > 0 \/ (wire = <<>> /\ out = <<>> /\ queue = <<>>)
  BY DEF Wave
<1>. QED
  BY <1>1, <1>4, <1>5, <1>6, <1>7, <1>8 DEF Wave

LEMMA PollWriteWaves ==
  ASSUME WInv, Wave, PollWrite
  PROVE  Wave'
<1>1. UNCHANGED <<profile, carries, queue, wire>> /\ stage = 0 /\ queue = <<>>
  BY DEF PollWrite, Drained, stages, sending
<1>2. CASE ~flushed
  BY <1>1, <1>2, StillWaves DEF PollWrite, New, cutting
<1>3. CASE flushed
  <2>1. stage' = 1 /\ out' = <<>> /\ todo' # <<>>
    BY <1>3 DEF PollWrite, New
  <2> SUFFICES ASSUME Spaced PROVE Wave'
    BY <1>1 DEF Wave, Spaced
  <2>2. Uncut' /\ Most' = Most /\ stage' # 0
    BY <1>1, <2>1 DEF Uncut, Most
  <2>3. PICK c \in Place : Chain(Tally(Most), wire, Zero, c) /\ Going(queue, c)
    BY DEF Wave
  <2>4. Going(out, c)' /\ Going(queue, c)'
    <3>1. Going(<<>>, c)
      BY ReadyNone
    <3>. QED
      BY <1>1, <2>1, <2>2, <2>3, <3>1 DEF Going
  <2>5. carries[1] > 0 \/ (wire = <<>> /\ queue = <<>>)
    BY DEF Wave
  <2>. QED
    BY <1>1, <2>1, <2>2, <2>3, <2>4, <2>5 DEF Wave
<1>. QED
  BY <1>2, <1>3

LEMMA WakeWaves ==
  ASSUME WInv, Wave, Wake
  PROVE  Wave'
<1> DEFINE z == [bytes |-> queue[1].bytes, delay |-> 0]
<1>1. /\ stage = 0 /\ queue # <<>> /\ wire' = Append(wire, Pause) /\ queue' = [queue EXCEPT ![1].delay = 0]
      /\ UNCHANGED <<profile, carries, stage, todo, out>>
  BY DEF Wake, stages, cutting
<1> SUFFICES ASSUME Spaced PROVE Wave'
  BY <1>1 DEF Wave, Spaced
<1>2. Most \in Nat /\ wire \in Seq(Unit) /\ queue \in Seq(Item) /\ queue[1] \in Item
  BY <1>1, SpacedFact, HeadFact
<1>3. PICK c \in Place : Chain(Tally(Most), wire, Zero, c) /\ Going(queue, c)
  BY DEF Wave
<1>4. z \in Item /\ z.bytes = queue[1].bytes
  BY <1>2 DEF Item
<1>5. queue' = [queue EXCEPT ![1] = z]
  <2>1. queue[1] = [bytes |-> queue[1].bytes, delay |-> queue[1].delay]
    BY <1>2 DEF Item
  <2>2. \A u, t, v : [[bytes |-> u, delay |-> t] EXCEPT !.delay = v] = [bytes |-> u, delay |-> v]
    OBVIOUS
  <2>3. [queue[1] EXCEPT !.delay = 0] = z
    BY <2>1, <2>2
  <2>. QED
    BY <1>1, <2>3
<1> HIDE DEF z
<1>6. Len(z.bytes) <= Most /\ Len(z.bytes) \in Nat
  <2>1. 1 \in 1..Len(queue)
    BY <1>1, <1>2, EmptySeq, LenProperties
  <2>2. Len(queue[1].bytes) <= Most
    BY <1>3, <2>1 DEF Going
  <2>3. Len(z.bytes) \in Nat
    BY <1>4, LenProperties DEF Item
  <2>. QED
    BY <1>4, <2>2, <2>3
<1>7. Going(queue', Zero)
  <2>1. Zero.k + Len(z.bytes) <= Most
    BY <1>6, ZeroFact
  <2>2. Going([queue EXCEPT ![1] = z], Zero)
    BY <1>1, <1>2, <1>3, <1>4, <1>6, <2>1, FirstGoing
  <2>. QED
    BY <1>5, <2>2
<1>8. Chain(Tally(Most), wire', Zero, Zero)
  <2>1. wire' = wire \o <<Pause>> /\ <<Pause>> \in Seq(Unit)
    BY <1>1, <1>2, UnitFact, AppendIsConcat
  <2>2. <<c, Zero>> \in Tally(Most)[Pause]
    BY <1>2, UnitFact, ZeroFact DEF Tally
  <2>3. Chain(Tally(Most), <<Pause>>, c, Zero)
    BY <2>2, ZeroFact, ChainOne
  <2>. QED
    BY <1>2, <1>3, <2>1, <2>3, ChainConcat
<1>9. Most' = Most /\ (Uncut <=> Uncut') /\ out = <<>> /\ carries[1] > 0 /\ (todo = <<>> \/ Uncut)
  BY <1>1 DEF Most, Uncut, Wave
<1>10. Going(out, Zero)' /\ Going(queue, Zero)'
  <2>1. Going(<<>>, Zero) /\ out' = <<>>
    BY <1>1, <1>9, ReadyNone
  <2>. QED
    BY <1>7, <1>9, <2>1 DEF Going
<1>. QED
  BY <1>1, <1>8, <1>9, <1>10, ZeroFact DEF Wave

LEMMA DeliverWaves ==
  ASSUME WInv, Wave, NEW n \in 1..Writes, Deliver(n)
  PROVE  Wave'
<1> DEFINE piece == queue[1].bytes  sent == SubSeq(piece, 1, n)  left == SubSeq(piece, n + 1, Len(piece))
           z == [bytes |-> left, delay |-> 0]
<1>1. /\ stage = 0 /\ queue # <<>> /\ queue[1].delay = 0 /\ wire' = wire \o sent /\ n \in 1..Len(piece)
      /\ queue' = IF left = <<>> THEN Tail(queue) ELSE [queue EXCEPT ![1].bytes = left]
      /\ UNCHANGED <<profile, carries, stage, todo, out>>
  BY DEF Deliver, stages, cutting
<1> SUFFICES ASSUME Spaced PROVE Wave'
  BY <1>1 DEF Wave, Spaced
<1>2. Most \in Nat /\ wire \in Seq(Unit) /\ queue \in Seq(Item) /\ queue[1] \in Item
  BY <1>1, SpacedFact, HeadFact
<1>3. PICK c \in Place : Chain(Tally(Most), wire, Zero, c) /\ Going(queue, c)
  BY DEF Wave
<1>4. piece \in Seq(Unit) /\ Len(piece) \in Nat /\ c.k \in Nat
  BY <1>2, LenProperties DEF Item, Place
<1>5. c.k + Len(piece) <= Most
  <2>1. 1 \in 1..Len(queue)
    BY <1>1, <1>2, EmptySeq, LenProperties
  <2>. QED
    BY <1>1, <1>3, <2>1 DEF Going
<1>6. queue[1] = [bytes |-> piece, delay |-> 0]
  BY <1>1, <1>2 DEF Item
<1> HIDE DEF piece
<1>7. sent \in Seq(Unit) /\ left \in Seq(Unit) /\ Len(sent) = n /\ Len(left) = Len(piece) - n
  <2>1. n \in 1..Len(piece)
    BY <1>1
  <2>. QED
    BY <1>4, <2>1, HeadSplit
<1>8. n \in Nat /\ n <= Len(piece) /\ c.k + Len(sent) <= Most
  <2>1. n \in 1..Len(piece)
    BY <1>1
  <2> HIDE DEF sent
  <2>. QED
    BY <1>2, <1>4, <1>5, <1>7, <2>1
<1> HIDE DEF sent, left
<1>9. PICK p \in Place : p.k = c.k + n /\ Chain(Tally(Most), sent, c, p)
  <2>1. LET b == [k |-> c.k + Len(sent), left |-> c.left, h |-> c.h, o |-> c.o]
        IN b \in Place /\ Chain(Tally(Most), sent, c, b)
    BY <1>2, <1>7, <1>8, TallyOn
  <2>. QED
    BY <1>7, <2>1
<1>10. Chain(Tally(Most), wire', Zero, p)
  BY <1>1, <1>2, <1>3, <1>7, <1>9, ChainConcat
<1>11. Going(queue', p)
  <2>1. CASE left = <<>>
    BY <1>1, <1>2, <1>3, <2>1, TailGoing
  <2>2. CASE left # <<>>
    <3>1. z \in Item /\ z.bytes = left
      BY <1>7 DEF Item
    <3>2. queue' = [queue EXCEPT ![1] = z]
      <4>1. \A u, t, v : [[bytes |-> u, delay |-> t] EXCEPT !.bytes = v] = [bytes |-> v, delay |-> t]
        OBVIOUS
      <4>2. [queue[1] EXCEPT !.bytes = left] = z
        BY <1>6, <4>1
      <4>. QED
        BY <1>1, <2>2, <4>2
    <3> HIDE DEF z
    <3>3. Len(z.bytes) <= Most /\ p.k + Len(z.bytes) <= Most
      BY <1>2, <1>4, <1>5, <1>7, <1>8, <1>9, <3>1
    <3>4. Going([queue EXCEPT ![1] = z], p)
      BY <1>1, <1>2, <1>3, <3>1, <3>3, FirstGoing
    <3>. QED
      BY <3>2, <3>4
  <2>. QED
    BY <2>1, <2>2
<1>12. Most' = Most /\ (Uncut <=> Uncut') /\ out = <<>> /\ carries[1] > 0 /\ (todo = <<>> \/ Uncut)
  BY <1>1 DEF Most, Uncut, Wave
<1>13. Going(out, p)' /\ Going(queue, p)'
  <2>1. Going(<<>>, p) /\ out' = <<>>
    BY <1>1, <1>12, ReadyNone
  <2>. QED
    BY <1>11, <1>12, <2>1 DEF Going
<1>. QED
  BY <1>1, <1>10, <1>12, <1>13 DEF Wave

LEMMA ConnectionWaves ==
  ASSUME WInv, Wave, Connection
  PROVE  Wave'
<1>1. ASSUME Connect \/ ServerFlight \/ Hold \/ Reply \/ Broken PROVE Wave'
  BY <1>1, StillWaves DEF Connect, ServerFlight, Hold, Reply, Broken, stages, cutting, sending
<1>. QED
  BY <1>1, CutWaves, NextStageWaves, PollWriteWaves, WakeWaves, DeliverWaves DEF Connection

LEMMA FreshWaves ==
  ASSUME NEW p, OfStages(p), NEW s, Unconnected(p, s)
  PROVE  Wave'
<1>1. profile' = p /\ stage' = 0 /\ todo' = <<>> /\ out' = <<>> /\ queue' = <<>> /\ wire' = <<>>
  BY DEF Unconnected
<1>2. Chain(Tally(Most), <<>>, Zero, Zero)'
  BY ZeroFact, ChainNil
<1>3. Going(<<>>, Zero)'
  BY EmptySeq DEF Going
<1>4. Going(out, Zero)' /\ Going(queue, Zero)'
  BY <1>1, <1>3 DEF Going
<1>5. Chain(Tally(Most), wire, Zero, Zero)'
  BY <1>1, <1>2
<1>. QED
  BY <1>1, <1>4, <1>5, ZeroFact DEF Wave

LEMMA InitWaves == TestersInit => Wave
<1> SUFFICES ASSUME TestersInit PROVE Wave
  OBVIOUS
<1>1. Len(profile) # 1
  <2>1. profile = <<>>
    BY DEF TestersInit, FragmentInit
  <2>. QED
    BY <2>1, EmptySeq
<1>. QED
  BY <1>1 DEF Wave, Spaced

LEMMA NextWaves == FInv /\ WInv /\ ListOK /\ Wave /\ [TestersNext]_testersVars => Wave'
<1> SUFFICES ASSUME FInv, WInv, ListOK, Wave, [TestersNext]_testersVars PROVE Wave'
  OBVIOUS
<1>1. OfStages(<<>>)
  <2>1. <<>> \in Seq(Stage) /\ DOMAIN <<>> = {}
    BY EmptySeq
  <2>. QED
    BY <2>1 DEF OfStages, Hellos
<1>2. ASSUME UNCHANGED connection PROVE Wave'
  BY <1>2, StillWaves DEF connection, stages, cutting, sending
<1>3. ASSUME TryNext PROVE Wave'
  <2>1. CASE cancel \/ runner.left = {}
    BY <1>2, <1>3, <2>1 DEF TryNext
  <2>2. CASE ~(cancel \/ runner.left = {})
    <3>1. Unconnected(presets[Upcoming], "connect")
      BY <1>3, <2>2 DEF TryNext
    <3>2. OfStages(presets[Upcoming])
      BY <2>2, UpcomingFact
    <3>. QED
      BY <3>1, <3>2, FreshWaves
  <2>. QED
    BY <2>1, <2>2
<1>4. ASSUME Abort \/ Send PROVE Wave'
  BY <1>1, <1>4, FreshWaves DEF Abort, Send
<1>5. ASSUME Check PROVE Wave'
  BY <1>5, ConnectionWaves DEF Check
<1>6. ASSUME Receive \/ Join PROVE Wave'
  BY <1>2, <1>6 DEF Receive, Join
<1>7. ASSUME NEW a \in Ips \cup {NoIp}, OpenAuto(a) \/ EditIp(a) \/ OpenSelect(a) PROVE Wave'
  BY <1>2, <1>7 DEF OpenAuto, EditIp, OpenSelect
<1>8. ASSUME (\E p \in All : Toggle(p)) \/ PressStart \/ Back \/ Esc PROVE Wave'
  BY <1>2, <1>8 DEF Toggle, PressStart, Back, Esc
<1>9. ASSUME Fragment PROVE Wave'
  BY <1>3, <1>4, <1>5, <1>6, <1>7, <1>8, <1>9 DEF Fragment, FragmentStep
<1>10. ASSUME Speed \/ Quit \/ Relaunch \/ LeaveSpeed \/ Leave PROVE UNCHANGED connection
  BY <1>10 DEF Speed, Quit, Relaunch, LeaveSpeed, Leave, fragmentTest
<1>11. ASSUME UNCHANGED testersVars PROVE UNCHANGED connection
  BY <1>11 DEF testersVars, fragmentTest
<1>. QED
  BY <1>2, <1>9, <1>10, <1>11 DEF TestersNext

LEMMA PausesImplied == WInv /\ Wave => PausesKept
<1> SUFFICES ASSUME WInv, Wave, NEW x \in DOMAIN profile, Len(profile) = 1, AllDelayed(profile[x]),
                    NEW i \in DOMAIN wire, NEW j \in DOMAIN wire, i < j, Unpaused(i, j)
             PROVE  LET s == profile[x]
                    IN IF s.packets = "all" THEN s.split = <<0, 0>> => j - i < Longest(s)
                       ELSE s.packets = "tlshello" /\ Count("byte", j) <= Hello /\ Count("byte", j) < Before(2) =>
                              ~(wire[i].kind = "header" /\ wire[j].kind = "header")
  BY DEF PausesKept
<1>1. x = 1
  <2>1. OfStages(profile)
    BY DEF WInv, WriterOK
  <2>2. DOMAIN profile = 1..Len(profile)
    BY <2>1, LenProperties DEF OfStages
  <2>. QED
    BY <2>2
<1>2. ASSUME profile[1].packets = "all", profile[1].split = <<0, 0>> PROVE j - i < Longest(profile[1])
  <2>1. Spaced
    BY <1>1, <1>2 DEF Spaced
  <2>2. PICK c \in Place : Chain(Tally(Most), wire, Zero, c)
    BY <2>1 DEF Wave
  <2>3. Most \in Nat /\ wire \in Seq(Unit)
    BY <2>1, SpacedFact
  <2>4. j - i < Most
    BY <2>2, <2>3, TallyBounds
  <2>. QED
    BY <2>4 DEF Most
<1>3. ASSUME profile[1].packets = "tlshello", Count("byte", j) <= Hello, Count("byte", j) < Before(2)
      PROVE  ~(wire[i].kind = "header" /\ wire[j].kind = "header")
  BY <1>1, <1>3, HelloPaused
<1>. QED
  BY <1>1, <1>2, <1>3

\* Of a profile of one stage with an interval: one that cuts every write without a
\* cap never sends more units on end than its longest piece, not over the end of a
\* write either; one that cuts the hello never sends two pieces of it, or the last
\* of them and what follows it in the same write, without a pause between them.
THEOREM PausesKeptHolds == TestersSpec => []PausesKept
<1>1. TestersInit => FInv /\ WInv /\ ListOK /\ Wave
  BY InitFragment, InitWriter, InitWaves
<1>2. FInv /\ WInv /\ ListOK /\ Wave /\ [TestersNext]_testersVars => (FInv /\ WInv /\ ListOK /\ Wave)'
  BY NextFragment, NextWriter, NextWaves
<1>3. FInv /\ WInv /\ ListOK /\ Wave => PausesKept
  BY PausesImplied
<1>. QED
  BY <1>1, <1>2, <1>3, PTL DEF TestersSpec

-----------------------------------------------------------------------------
(* Files.                                                                  *)

USE DEF given, host, disk

Writing == {"open", "sync", "rename", "remove"}
Appending == {"rest", "newline"}
Active == Writing \cup Appending
Steps == Active \cup {"idle", "done", "failed", "left", "dead"}

TypeOK ==
  /\ kind \in [Jobs -> Kinds] /\ flaw \in [Jobs -> Flaws]
  /\ life \in [Procs -> {"new", "up", "down"}] /\ pid \in [Procs -> Nat]
  /\ pc \in [Jobs -> Steps]
  /\ \A n \in DOMAIN dir : dir[n] \in DOMAIN data
  /\ data \in [DOMAIN data -> [by : Jobs \cup {Old}, whole : BOOLEAN]]
  /\ DOMAIN data \subseteq Jobs \cup {Old}
  /\ synced \subseteq DOMAIN data
  /\ log \in Seq(Jobs \X {"first", "rest", "newline"})
  /\ handle \in [Jobs -> Jobs \cup {Old}] /\ DOMAIN temp = Jobs

(* Who runs: processes that are up differ in their pid, and of the jobs of *)
(* a process that are not detached one is active at a time.                *)
LiveJobs ==
  /\ \A p, q \in Procs : life[p] = "up" /\ life[q] = "up" /\ pid[p] = pid[q] => p = q
  /\ \A j \in Jobs : /\ pc[j] \in Active => life[ProcOf[j]] = "up"
                     /\ pc[j] = "dead" => life[ProcOf[j]] = "down"
                     /\ pc[j] \in Appending => kind[j] = "history"
                     /\ pc[j] = "left" => kind[j] # "history"
  /\ \A i, j \in Jobs : /\ ProcOf[i] = ProcOf[j] /\ ~Detached(kind[i]) /\ ~Detached(kind[j])
                        /\ pc[i] \in Active /\ pc[j] \in Active
                        => i = j

(* No two names lead to the same file, except to the ones there were; a    *)
(* name is a target or one that some job has made, once.                   *)
OneName ==
  /\ Old \in synced /\ data[Old] = [by |-> Old, whole |-> TRUE]
  /\ \A k \in Replaced : Target(k) \in DOMAIN dir
  /\ \A n \in DOMAIN dir : n[1] # "target" => dir[n] # Old /\ \E j \in Jobs : pc[j] # "idle" /\ temp[j] = n
  /\ \A m, n \in DOMAIN dir : dir[m] = dir[n] /\ dir[m] # Old => m = n
  /\ \A j \in Jobs : pc[j] = "idle" => j \notin DOMAIN data

(* A job that writes has its file under the name that it made.             *)
InHand(j) ==
  /\ kind[j] # "history" /\ temp[j] \in DOMAIN dir
  /\ handle[j] = dir[temp[j]] /\ data[handle[j]].by = j
  /\ kind[j] = "export" => pc[j] = "open" /\ temp[j][1] = "export"
  /\ kind[j] # "export" =>
       temp[j][1] = "aside" /\ temp[j][2] = kind[j] /\ temp[j][3] = pid[ProcOf[j]]
  /\ pc[j] \in {"sync", "rename"} => data[handle[j]].whole
  /\ pc[j] = "rename" /\ kind[j] # "watch" => handle[j] \in synced
  /\ kind[j] = "update" => flaw[j] = "none"

Held == \A j \in Jobs : pc[j] \in Writing => InHand(j)

(* What a power failure cannot take.                                       *)
SafeTargets ==
  /\ \A k \in Safe : dir[Target(k)] \in synced /\ data[dir[Target(k)]].whole
  /\ LET u == data[dir[Target("update")]].by IN u # Old => flaw[u] = "none"

Leftover(n) ==
  LET j == data[dir[n]].by
  IN j \in Jobs /\ ((pc[j] \in Writing /\ temp[j] = n) \/ pc[j] = "dead" \/ pc[j] = "left" \/ kind[j] = "watch")

Litter == \A n \in DOMAIN dir : n[1] = "aside" => Leftover(n)

(* Who wrote the last part of the history, and how far that job is.        *)
Latest == log[Len(log)]
LastPart ==
  log # <<>> =>
    /\ kind[Latest[1]] = "history" /\ pc[Latest[1]] # "idle"
    /\ Latest[2] # "newline" => pc[Latest[1]] # "done"
    /\ \A j \in Jobs : pc[j] \in Appending /\ ProcOf[j] = ProcOf[Latest[1]] => j = Latest[1]

Untorn ==
  \A m \in 2..Len(log) :
    LET i == log[m - 1][1]
        j == log[m][1]
    IN ProcOf[i] = ProcOf[j] =>
         IF log[m][2] = "first" THEN log[m - 1][2] = "newline" \/ pc[i] = "failed" ELSE i = j

Inv == TypeOK /\ LiveJobs /\ OneName /\ Held /\ SafeTargets /\ Litter /\ LastPart /\ Untorn

-----------------------------------------------------------------------------
(* Names and maps.                                                         *)

LEMMA TagFacts ==
  /\ \A k : Target(k)[1] = "target" /\ Target(k)[2] = k
  /\ \A n : Export(n)[1] = "export" /\ Export(n)[2] = n
  /\ \A j, n : /\ Aside(j, n)[1] = "aside" /\ Aside(j, n)[2] = kind[j]
               /\ Aside(j, n)[3] = pid[ProcOf[j]] /\ Aside(j, n)[4] = n
BY DEF Target, Export, Aside

LEMMA WithoutFacts ==
  ASSUME NEW n
  PROVE  /\ DOMAIN Without(n) = DOMAIN dir \ {n}
         /\ \A m \in DOMAIN dir \ {n} : Without(n)[m] = dir[m]
BY DEF Without, Restrict

LEMMA PartFacts ==
  /\ Range(Tail(Parts)) = {"rest", "newline"}
  /\ DOMAIN Parts = 1..3 /\ Len(Parts) = 3
  /\ Parts[1] = "first" /\ Parts[2] = "rest" /\ Parts[3] = "newline"
<1>1. Tail(Parts) = <<"rest", "newline">>
  BY DEF Parts
<1>2. Range(<<"rest", "newline">>) = {"rest", "newline"}
  BY DEF Range
<1>. QED
  BY <1>1, <1>2 DEF Parts

LEMMA LeastFact ==
  ASSUME NEW n \in Nat, NEW S \in SUBSET (0..n), S # {}
  PROVE  \E i \in S : \A j \in S : i <= j
<1>1. S \in SUBSET Nat
  OBVIOUS
<1>. QED
  BY <1>1, ForemostOf

(* Of as many names as there are jobs and one more, one is free: every     *)
(* name that is taken was made by another job.                             *)
LEMMA FreeName ==
  ASSUME TypeOK, OneName, NEW j \in Jobs, NEW name,
         name = [n \in Numbers |-> name[n]],
         \A n \in Numbers : name[n][1] # "target",
         \A m, n \in Numbers : name[m] = name[n] => m = n
  PROVE  Free(j, name) \in Numbers
<1> DEFINE N == Cardinality(Jobs)
           Good == {n \in Numbers : ~Fails(j, name[n])}
           f == [n \in Numbers |-> CHOOSE i \in Jobs : temp[i] = name[n]]
<1>1. N \in Nat /\ IsFiniteSet(Numbers) /\ Cardinality(Numbers) = N + 1 /\ IsFiniteSet(Jobs)
  <2>1. IsFiniteSet(Jobs)
    BY FilesAssumption
  <2>2. N \in Nat
    BY <2>1, FS_CardinalityType
  <2>3. IsFiniteSet(0..N) /\ Cardinality(0..N) = N + 1
    BY <2>2, FS_Interval
  <2>. QED
    BY <2>1, <2>2, <2>3 DEF Numbers
<1>2. Good # {}
  <2>1. SUFFICES ASSUME \A n \in Numbers : Fails(j, name[n])
                 PROVE  FALSE
    OBVIOUS
  <2>2. ASSUME NEW n \in Numbers
        PROVE  f[n] \in Jobs /\ temp[f[n]] = name[n]
    <3>1. name[n] \in DOMAIN dir
      BY <2>1, <2>2 DEF Fails
    <3>2. \E i \in Jobs : temp[i] = name[n]
      BY <3>1 DEF OneName
    <3>. QED
      BY <3>2
  <2>. HIDE DEF f
  <2>3. f \in [Numbers -> Jobs]
    BY <2>2 DEF f
  <2>4. \E m, n \in Numbers : m # n /\ f[m] = f[n]
    BY <1>1, <2>3, FS_PigeonHole
  <2>. QED
    BY <2>2, <2>4
<1>3. Good \in SUBSET (0..N)
  BY DEF Numbers
<1>. HIDE DEF Good, N
<1>4. PICK n \in Good : \A m \in Good : n <= m
  BY <1>1, <1>2, <1>3, LeastFact
<1>5. n \in Numbers /\ ~Fails(j, name[n]) /\ \A m \in 0..(n - 1) : Fails(j, name[m])
  <2>1. n \in Numbers /\ ~Fails(j, name[n]) /\ n \in 0..N
    BY <1>4, <1>3 DEF Good
  <2>2. ASSUME NEW m \in 0..(n - 1)
        PROVE  Fails(j, name[m])
    <3>1. m \in Numbers /\ ~(n <= m)
      BY <2>1, <2>2, <1>1 DEF Numbers, N
    <3>. QED
      BY <3>1, <1>4 DEF Good
  <2>. QED
    BY <2>1, <2>2
<1>. QED
  BY <1>5 DEF Free

LEMMA NameFacts ==
  ASSUME TypeOK, OneName, NEW j \in Jobs, kind[j] # "history"
  PROVE  /\ kind[j] = "export" => NameOf(j)[1] = "export"
         /\ kind[j] # "export" => /\ NameOf(j)[1] = "aside" /\ NameOf(j)[2] = kind[j]
                                  /\ NameOf(j)[3] = pid[ProcOf[j]]
<1> DEFINE export == [n \in Numbers |-> Export(n)]
           aside == [n \in Numbers |-> Aside(j, n)]
<1>1. 0 \in Numbers
  <2>1. Cardinality(Jobs) \in Nat
    BY FilesAssumption, FS_CardinalityType
  <2>. QED
    BY <2>1 DEF Numbers
<1>2. Free(j, export) \in Numbers
  <2>1. \A n \in Numbers : export[n] = Export(n)
    OBVIOUS
  <2>2. export = [n \in Numbers |-> export[n]]
    OBVIOUS
  <2>. HIDE DEF export
  <2>. QED
    BY <2>1, <2>2, FreeName, TagFacts
<1>3. Free(j, aside) \in Numbers
  <2>1. \A n \in Numbers : aside[n] = Aside(j, n)
    OBVIOUS
  <2>2. aside = [n \in Numbers |-> aside[n]]
    OBVIOUS
  <2>. HIDE DEF aside
  <2>. QED
    BY <2>1, <2>2, FreeName, TagFacts
<1>4. CASE kind[j] = "export"
  <2>1. NameOf(j) = Export(Free(j, export))
    BY <1>2, <1>4 DEF NameOf
  <2>. QED
    BY <2>1, <1>4, TagFacts
<1>5. CASE kind[j] = "config"
  <2>1. NameOf(j) = Aside(j, Free(j, aside))
    BY <1>3, <1>5 DEF NameOf
  <2>. QED
    BY <2>1, <1>5, TagFacts
<1>6. CASE kind[j] \notin {"export", "config"}
  <2>1. NameOf(j) = Aside(j, 0)
    BY <1>1, <1>6 DEF NameOf
  <2>. QED
    BY <2>1, <1>6, TagFacts
<1>. QED
  BY <1>4, <1>5, <1>6

-----------------------------------------------------------------------------
(* What several steps have in common.                                      *)

LEMMA LiveAdvance ==
  ASSUME TypeOK, LiveJobs, NEW j \in Jobs, NEW s \in Steps \ {"idle", "dead"}, Goes(j, s),
         UNCHANGED <<kind, life, pid>>, Turn(j) \/ pc[j] \in Active,
         s \in Appending => kind[j] = "history", s = "left" => kind[j] # "history"
  PROVE  LiveJobs' /\ pc' \in [Jobs -> Steps]
<1>1. /\ pc' \in [Jobs -> Steps] /\ pc'[j] = s
      /\ \A i \in Jobs : i # j => pc'[i] = pc[i]
  BY DEF Goes, TypeOK
<1>2. life[ProcOf[j]] = "up"
  BY DEF Turn, LiveJobs
<1>3. ASSUME NEW i \in Jobs, pc[i] \in Active, i # j, ProcOf[i] = ProcOf[j],
             ~Detached(kind[i]), ~Detached(kind[j])
      PROVE  FALSE
  <2>1. CASE pc[j] \in Active
    BY <2>1, <1>3 DEF LiveJobs
  <2>2. CASE Turn(j)
    <3>1. Busy(i)
      BY <1>3 DEF Busy, Over, Active, Writing, Appending
    <3>. QED
      BY <2>2, <3>1, <1>3 DEF Turn
  <2>. QED
    BY <2>1, <2>2
<1>4. \A p, q \in Procs : life'[p] = "up" /\ life'[q] = "up" /\ pid'[p] = pid'[q] => p = q
  BY DEF LiveJobs
<1>5. \A i \in Jobs : /\ pc'[i] \in Active => life'[ProcOf[i]] = "up"
                      /\ pc'[i] = "dead" => life'[ProcOf[i]] = "down"
                      /\ pc'[i] \in Appending => kind'[i] = "history"
                      /\ pc'[i] = "left" => kind'[i] # "history"
  BY <1>1, <1>2 DEF LiveJobs
<1>6. \A i, k \in Jobs : /\ ProcOf[i] = ProcOf[k] /\ ~Detached(kind'[i]) /\ ~Detached(kind'[k])
                         /\ pc'[i] \in Active /\ pc'[k] \in Active
                         => i = k
  BY <1>1, <1>3 DEF LiveJobs
<1>. QED
  BY <1>1, <1>4, <1>5, <1>6 DEF LiveJobs

LEMMA LogKept ==
  ASSUME TypeOK, LastPart, Untorn, UNCHANGED <<kind, log>>,
         \A i \in Jobs : /\ pc'[i] \in Appending => pc'[i] = pc[i]
                         /\ pc[i] = "failed" => pc'[i] = "failed"
                         /\ kind[i] = "history" /\ pc[i] # "idle" =>
                              pc'[i] # "idle" /\ (pc[i] # "done" => pc'[i] # "done")
  PROVE  LastPart' /\ Untorn'
<1>1. \A m \in 1..Len(log) : log[m][1] \in Jobs /\ log'[m] = log[m]
  BY DEF TypeOK
<1>2. Len(log) \in Nat /\ Len(log') = Len(log)
  BY DEF TypeOK
<1>3. LastPart'
  <2>1. ASSUME log # <<>>
        PROVE  Latest[1] \in Jobs
    BY <2>1, <1>1 DEF Latest, TypeOK
  <2>2. Latest' = Latest
    BY DEF Latest
  <2>. QED
    BY <2>1, <2>2 DEF LastPart
<1>4. Untorn'
  <2>. SUFFICES ASSUME NEW m \in 2..Len(log), ProcOf[log[m - 1][1]] = ProcOf[log[m][1]]
                PROVE  IF log[m][2] = "first" THEN log[m - 1][2] = "newline" \/ pc'[log[m - 1][1]] = "failed"
                                              ELSE log[m - 1][1] = log[m][1]
    BY <1>1, <1>2 DEF Untorn
  <2>1. log[m - 1][1] \in Jobs
    BY <1>1, <1>2
  <2>. QED
    BY <2>1 DEF Untorn
<1>. QED
  BY <1>3, <1>4

(* A job whose turn it is finds no other job at work under a name that it  *)
(* would use, unless both are detached.                                    *)
LEMMA OwnName ==
  ASSUME Inv, NEW j \in Jobs, Turn(j), kind[j] # "history", kind[j] # "export",
         ~Detached(kind[j]), NEW k \in Jobs, pc[k] \in Writing
  PROVE  temp[k] # NameOf(j)
<1>. SUFFICES ASSUME temp[k] = NameOf(j)
              PROVE  FALSE
  OBVIOUS
<1>1. NameOf(j)[1] = "aside" /\ NameOf(j)[2] = kind[j] /\ NameOf(j)[3] = pid[ProcOf[j]]
  BY NameFacts DEF Inv
<1>2. kind[k] = kind[j] /\ pid[ProcOf[k]] = pid[ProcOf[j]]
  BY <1>1 DEF Inv, Held, InHand
<1>3. life[ProcOf[k]] = "up" /\ life[ProcOf[j]] = "up"
  BY DEF Inv, LiveJobs, Turn, Active
<1>4. ProcOf[k] = ProcOf[j]
  BY <1>2, <1>3, FilesAssumption DEF Inv, LiveJobs
<1>5. Busy(k)
  BY DEF Busy, Over, Writing
<1>. QED
  BY <1>2, <1>4, <1>5 DEF Turn

(* No two jobs at work have the same file in hand.                         *)
LEMMA OwnFile ==
  ASSUME Inv, NEW j \in Jobs, pc[j] \in Writing
  PROVE  /\ temp[j] \in DOMAIN dir /\ handle[j] = dir[temp[j]] /\ handle[j] # Old
         /\ handle[j] \in DOMAIN data
         /\ temp[j][1] # "target" /\ data[handle[j]].by = j
         /\ \A k \in Jobs : pc[k] \in Writing /\ k # j => handle[k] # handle[j] /\ temp[k] # temp[j]
         /\ \A n \in DOMAIN dir : n # temp[j] => dir[n] # handle[j]
<1>1. InHand(j)
  BY DEF Inv, Held
<1>2. temp[j][1] # "target"
  BY <1>1 DEF InHand
<1>3. temp[j] \in DOMAIN dir /\ handle[j] = dir[temp[j]] /\ handle[j] # Old
  BY <1>1, <1>2 DEF InHand, Inv, OneName
<1>4. handle[j] \in DOMAIN data
  BY <1>3 DEF Inv, TypeOK
<1>5. ASSUME NEW k \in Jobs, pc[k] \in Writing, k # j
      PROVE  handle[k] # handle[j] /\ temp[k] # temp[j]
  <2>1. InHand(k)
    BY <1>5 DEF Inv, Held
  <2>. QED
    BY <1>1, <2>1, <1>5 DEF InHand
<1>6. \A n \in DOMAIN dir : n # temp[j] => dir[n] # handle[j]
  BY <1>3 DEF Inv, OneName
<1>. QED
  BY <1>1, <1>2, <1>3, <1>4, <1>5, <1>6 DEF InHand

LEMMA TargetFacts ==
  ASSUME Inv
  PROVE  /\ \A k \in Safe : Target(k) \in DOMAIN dir /\ dir[Target(k)] \in DOMAIN data
         /\ Target("update") \in DOMAIN dir /\ dir[Target("update")] \in DOMAIN data
         /\ \A k \in Safe : dir[Target(k)] \in synced /\ data[dir[Target(k)]].whole
<1>1. Safe \subseteq Replaced /\ "update" \in Replaced
  BY DEF Safe, Replaced
<1>. QED
  BY <1>1 DEF Inv, OneName, TypeOK, SafeTargets

-----------------------------------------------------------------------------
(* Each step keeps the invariant.                                          *)

LEMMA StartKeeps ==
  ASSUME Inv, NEW p \in Procs, NEW i \in Pids, Start(p, i)
  PROVE  Inv'
<1>. USE DEF Start
<1>1. \A j \in Jobs : ProcOf[j] \in Procs
  BY FilesAssumption
<1>2. /\ \A q \in Procs : q # p => life'[q] = life[q] /\ pid'[q] = pid[q]
      /\ life[p] = "new" /\ life'[p] = "up" /\ pid'[p] = i
  BY DEF Inv, TypeOK
<1>3. TypeOK'
  BY FilesAssumption DEF Inv, TypeOK
<1>4. LiveJobs'
  <2>1. \A q, r \in Procs : life'[q] = "up" /\ life'[r] = "up" /\ pid'[q] = pid'[r] => q = r
    BY <1>2 DEF Inv, LiveJobs
  <2>2. \A j \in Jobs : pc[j] \in Active \/ pc[j] = "dead" => ProcOf[j] # p
    BY <1>2 DEF Inv, LiveJobs
  <2>3. \A j \in Jobs : /\ pc[j] \in Active => life'[ProcOf[j]] = "up"
                        /\ pc[j] = "dead" => life'[ProcOf[j]] = "down"
    BY <1>1, <1>2, <2>2 DEF Inv, LiveJobs
  <2>. QED
    BY <2>1, <2>3 DEF Inv, LiveJobs
<1>5. Held'
  <2>1. ASSUME NEW j \in Jobs, pc[j] \in Writing
        PROVE  InHand(j)'
    <3>1. ProcOf[j] # p
      BY <2>1, <1>2 DEF Inv, LiveJobs, Active
    <3>2. pid'[ProcOf[j]] = pid[ProcOf[j]]
      BY <3>1, <1>1, <1>2
    <3>3. InHand(j)
      BY <2>1 DEF Inv, Held
    <3>. QED
      BY <3>2, <3>3 DEF InHand
  <2>. QED
    BY <2>1 DEF Held
<1>6. OneName' /\ SafeTargets' /\ Litter'
  BY DEF Inv, OneName, SafeTargets, Litter, Leftover
<1>7. LastPart' /\ Untorn'
  BY DEF Inv, LastPart, Untorn, Latest
<1>. QED
  BY <1>3, <1>4, <1>5, <1>6, <1>7 DEF Inv

LEMMA KilledFacts ==
  ASSUME Inv, NEW P \in SUBSET Procs, pc' = Killed(P),
         life' \in [Procs -> {"new", "up", "down"}],
         \A p \in Procs : IF p \in P THEN life[p] = "up" /\ life'[p] = "down" ELSE life'[p] = life[p],
         UNCHANGED <<given, pid, log>>
  PROVE  /\ pc' \in [Jobs -> Steps] /\ LiveJobs' /\ LastPart' /\ Untorn'
         /\ \A j \in Jobs : /\ pc'[j] = pc[j] \/ pc'[j] = "dead"
                            /\ pc'[j] \in Active => ProcOf[j] \notin P
<1>1. \A j \in Jobs : ProcOf[j] \in Procs
  BY FilesAssumption
<1>2. \A j \in Jobs : pc'[j] = IF ProcOf[j] \in P /\ pc[j] \notin Over THEN "dead" ELSE pc[j]
  BY DEF Killed
<1>3. pc' \in [Jobs -> Steps]
  BY DEF Killed, Inv, TypeOK, Steps
<1>4. \A j \in Jobs : /\ pc'[j] = pc[j] \/ pc'[j] = "dead"
                      /\ pc'[j] \in Active => ProcOf[j] \notin P
  BY <1>2 DEF Active, Writing, Appending, Over
<1>5. LiveJobs'
  <2>1. \A q, r \in Procs : life'[q] = "up" /\ life'[r] = "up" /\ pid'[q] = pid'[r] => q = r
    BY DEF Inv, LiveJobs
  <2>2. ASSUME NEW j \in Jobs
        PROVE  /\ pc'[j] \in Active => life'[ProcOf[j]] = "up"
               /\ pc'[j] = "dead" => life'[ProcOf[j]] = "down"
               /\ pc'[j] \in Appending => kind'[j] = "history"
               /\ pc'[j] = "left" => kind'[j] # "history"
    <3>1. pc'[j] \in Active => pc'[j] = pc[j] /\ life'[ProcOf[j]] = life[ProcOf[j]]
      BY <1>1, <1>2, <1>4 DEF Active, Writing, Appending, Over
    <3>2. pc'[j] = "dead" => pc[j] = "dead" \/ ProcOf[j] \in P
      BY <1>2
    <3>3. pc'[j] \in Appending => pc'[j] = pc[j]
      BY <3>1 DEF Active
    <3>4. pc'[j] = "left" => pc[j] = "left"
      BY <1>4
    <3>. QED
      BY <3>1, <3>2, <3>3, <3>4, <1>1 DEF Inv, LiveJobs
  <2>3. \A j \in Jobs : pc'[j] \in Active => pc[j] \in Active
    BY <1>4 DEF Active, Writing, Appending
  <2>. QED
    BY <2>1, <2>2, <2>3 DEF Inv, LiveJobs
<1>6. LastPart' /\ Untorn'
  <2>1. \A i \in Jobs : /\ pc'[i] \in Appending => pc'[i] = pc[i]
                        /\ pc[i] = "failed" => pc'[i] = "failed"
                        /\ kind[i] = "history" /\ pc[i] # "idle" =>
                             pc'[i] # "idle" /\ (pc[i] # "done" => pc'[i] # "done")
    BY <1>2 DEF Appending, Over
  <2>. QED
    BY <2>1, LogKept DEF Inv
<1>. QED
  BY <1>3, <1>4, <1>5, <1>6

LEMMA ExitKeeps ==
  ASSUME Inv, NEW p \in Procs, Exit(p)
  PROVE  Inv'
<1>1. /\ pc' \in [Jobs -> Steps] /\ LiveJobs' /\ LastPart' /\ Untorn'
      /\ \A j \in Jobs : /\ pc'[j] = pc[j] \/ pc'[j] = "dead"
                         /\ pc'[j] \in Active => ProcOf[j] \notin {p}
  <2>1. /\ life' \in [Procs -> {"new", "up", "down"}]
        /\ \A q \in Procs : IF q \in {p} THEN life[q] = "up" /\ life'[q] = "down" ELSE life'[q] = life[q]
    BY DEF Exit, Inv, TypeOK
  <2>2. pc' = Killed({p}) /\ {p} \in SUBSET Procs /\ UNCHANGED <<given, pid, log>>
    BY DEF Exit, disk
  <2>. QED
    BY <2>1, <2>2, KilledFacts
<1>2. TypeOK'
  BY <1>1 DEF Exit, Inv, TypeOK
<1>3. OneName'
  <2>1. \A j \in Jobs : pc'[j] = "idle" => pc[j] = "idle"
    BY <1>1
  <2>. QED
    BY <2>1 DEF Exit, Inv, OneName
<1>4. Held'
  <2>1. ASSUME NEW j \in Jobs, pc'[j] \in Writing
        PROVE  InHand(j)'
    <3>1. pc'[j] = pc[j]
      BY <2>1, <1>1 DEF Writing
    <3>2. InHand(j)
      BY <3>1, <2>1 DEF Inv, Held
    <3>. QED
      BY <3>1, <3>2 DEF InHand, Exit
  <2>. QED
    BY <2>1 DEF Held
<1>5. SafeTargets'
  BY DEF Exit, Inv, SafeTargets
<1>6. Litter'
  BY <1>1 DEF Exit, Inv, Litter, Leftover
<1>. QED
  BY <1>1, <1>2, <1>3, <1>4, <1>5, <1>6 DEF Inv

LEMMA PowerLossKeeps ==
  ASSUME Inv, PowerLoss
  PROVE  Inv'
<1> DEFINE P == {p \in Procs : life[p] = "up"}
<1>1. /\ pc' \in [Jobs -> Steps] /\ LiveJobs' /\ LastPart' /\ Untorn'
      /\ \A j \in Jobs : /\ pc'[j] = pc[j] \/ pc'[j] = "dead"
                         /\ pc'[j] \in Active => ProcOf[j] \notin P
  <2>1. /\ life' \in [Procs -> {"new", "up", "down"}]
        /\ \A q \in Procs : IF q \in P THEN life[q] = "up" /\ life'[q] = "down" ELSE life'[q] = life[q]
    BY DEF PowerLoss, Inv, TypeOK
  <2>. QED
    BY <2>1, KilledFacts DEF PowerLoss
<1>2. \A j \in Jobs : pc'[j] \notin Writing
  <2>1. ASSUME NEW j \in Jobs, pc'[j] \in Writing
        PROVE  FALSE
    <3>1. pc'[j] = pc[j] /\ ProcOf[j] \notin P /\ pc[j] \in Active
      BY <2>1, <1>1 DEF Writing, Active
    <3>2. ProcOf[j] \in P
      BY <3>1, FilesAssumption DEF Inv, LiveJobs
    <3>. QED
      BY <3>1, <3>2
  <2>. QED
    BY <2>1
<1>3. /\ DOMAIN data' = DOMAIN data
      /\ \A i \in DOMAIN data : /\ data'[i] \in [by : Jobs \cup {Old}, whole : BOOLEAN]
                                /\ data'[i].by = data[i].by
                                /\ i \in synced => data'[i] = data[i]
  <2>1. PICK L \in SUBSET (DOMAIN data \ synced) :
          data' = [i \in DOMAIN data |-> [data[i] EXCEPT !.whole = @ /\ i \notin L]]
    BY DEF PowerLoss
  <2>2. ASSUME NEW i \in DOMAIN data
        PROVE  /\ data'[i] \in [by : Jobs \cup {Old}, whole : BOOLEAN]
               /\ data'[i].by = data[i].by
               /\ i \in synced => data'[i] = data[i]
    <3>1. data[i] \in [by : Jobs \cup {Old}, whole : BOOLEAN]
      BY DEF Inv, TypeOK
    <3>2. data'[i] = [data[i] EXCEPT !.whole = data[i].whole /\ i \notin L]
      BY <2>1
    <3>3. data'[i] \in [by : Jobs \cup {Old}, whole : BOOLEAN] /\ data'[i].by = data[i].by
      BY <3>1, <3>2
    <3>4. ASSUME i \in synced
          PROVE  data'[i] = data[i]
      BY <3>1, <3>2, <3>4
    <3>. QED
      BY <3>3, <3>4
  <2>. QED
    BY <2>1, <2>2
<1>4. data' = [i \in DOMAIN data' |-> data'[i]]
  BY DEF PowerLoss
<1>5. TypeOK'
  BY <1>1, <1>3, <1>4 DEF PowerLoss, Inv, TypeOK
<1>6. OneName'
  <2>1. \A j \in Jobs : pc'[j] = "idle" => pc[j] = "idle"
    BY <1>1
  <2>2. Old \in synced' /\ data'[Old] = [by |-> Old, whole |-> TRUE]
    BY <1>3 DEF PowerLoss, Inv, OneName, TypeOK
  <2>. QED
    BY <2>1, <2>2, <1>3 DEF PowerLoss, Inv, OneName
<1>7. Held'
  BY <1>2 DEF Held
<1>8. SafeTargets'
  <2>1. \A k \in Safe : dir[Target(k)] \in synced' /\ data'[dir[Target(k)]].whole
    BY <1>3, TargetFacts DEF PowerLoss
  <2>2. data'[dir[Target("update")]].by = data[dir[Target("update")]].by
    BY <1>3, TargetFacts
  <2>. QED
    BY <2>1, <2>2 DEF PowerLoss, Inv, SafeTargets
<1>9. Litter'
  <2>1. ASSUME NEW n \in DOMAIN dir, n[1] = "aside"
        PROVE  Leftover(n)'
    <3>1. Leftover(n) /\ data'[dir[n]].by = data[dir[n]].by
      BY <2>1, <1>3 DEF Inv, Litter, TypeOK
    <3>2. \A j \in Jobs : IF pc[j] \in Writing \/ pc[j] = "dead" THEN pc'[j] = "dead"
                          ELSE pc[j] = "left" => pc'[j] \in {"left", "dead"}
      BY <1>1, <1>2 DEF Writing
    <3>. QED
      BY <3>1, <3>2 DEF Leftover, PowerLoss
  <2>. QED
    BY <2>1 DEF Litter, PowerLoss
<1>. QED
  BY <1>1, <1>5, <1>6, <1>7, <1>8, <1>9 DEF Inv

(* What the steps of one job have in common: its pc goes on to s.          *)
LEMMA StepFacts ==
  ASSUME Inv, NEW j \in Jobs, NEW s \in Writing \cup {"done", "failed", "left"}, Goes(j, s),
         UNCHANGED <<given, host, log>>, Turn(j) \/ pc[j] \in Active,
         kind[j] = "history" => s = "failed"
  PROVE  /\ pc' \in [Jobs -> Steps] /\ pc'[j] = s /\ \A i \in Jobs : i # j => pc'[i] = pc[i]
         /\ LiveJobs' /\ LastPart' /\ Untorn'
<1>1. s \in Steps \ {"idle", "dead"} /\ s \notin Appending
  BY DEF Steps, Active, Writing, Appending
<1>2. LiveJobs' /\ pc' \in [Jobs -> Steps]
  BY <1>1, LiveAdvance DEF Inv
<1>3. pc'[j] = s /\ \A i \in Jobs : i # j => pc'[i] = pc[i]
  BY DEF Goes, Inv, TypeOK
<1>4. pc[j] # "failed"
  BY DEF Turn, Active, Writing, Appending
<1>5. LastPart' /\ Untorn'
  <2>1. \A i \in Jobs : /\ pc'[i] \in Appending => pc'[i] = pc[i]
                        /\ pc[i] = "failed" => pc'[i] = "failed"
                        /\ kind[i] = "history" /\ pc[i] # "idle" =>
                             pc'[i] # "idle" /\ (pc[i] # "done" => pc'[i] # "done")
    BY <1>1, <1>3, <1>4
  <2>. QED
    BY <2>1, LogKept DEF Inv
<1>. QED
  BY <1>2, <1>3, <1>5

LEMMA OpenKeeps ==
  ASSUME Inv, NEW j \in Jobs, Open(j)
  PROVE  Inv'
<1> DEFINE n == NameOf(j)
           i == IF n \in DOMAIN dir THEN dir[n] ELSE j
<1>1. /\ Turn(j) /\ kind[j] # "history" /\ Verified(j) /\ ~Fails(j, n)
      /\ dir' = Put(dir, n, i) /\ data' = Put(data, i, [by |-> j, whole |-> FALSE])
      /\ synced' = synced \ {i}
      /\ handle' = [handle EXCEPT ![j] = i] /\ temp' = [temp EXCEPT ![j] = n]
      /\ Goes(j, "open") /\ UNCHANGED <<given, host, log>>
  BY DEF Open
<1>2. /\ kind[j] = "export" => n[1] = "export"
      /\ kind[j] # "export" => n[1] = "aside" /\ n[2] = kind[j] /\ n[3] = pid[ProcOf[j]]
  BY <1>1, NameFacts DEF Inv
<1>3. n \in DOMAIN dir => kind[j] = "watch"
  BY <1>1 DEF Fails, Exclusive
<1>4. pc[j] = "idle" /\ j \notin DOMAIN data
  BY <1>1 DEF Turn, Inv, OneName
\* the file is a new one, or that of no other name and of no other job at work
<1>5. /\ n[1] # "target" /\ i # Old
      /\ \A m \in DOMAIN dir : m # n => dir[m] # i
      /\ \A k \in Jobs : pc[k] \in Writing => handle[k] # i /\ temp[k] # n /\ k # j
  <2>1. n[1] # "target"
    BY <1>2
  <2>2. \A k \in Jobs : pc[k] \in Writing => k # j
    BY <1>4 DEF Writing
  <2>3. CASE n \in DOMAIN dir
    <3>1. i = dir[n] /\ i # Old
      BY <2>1, <2>3 DEF Inv, OneName
    <3>2. \A m \in DOMAIN dir : m # n => dir[m] # i
      BY <2>3, <3>1 DEF Inv, OneName
    <3>3. ASSUME NEW k \in Jobs, pc[k] \in Writing
          PROVE  handle[k] # i /\ temp[k] # n
      <4>1. temp[k] # n
        BY <1>1, <1>3, <2>3, <3>3, OwnName DEF Detached
      <4>. QED
        BY <4>1, <3>1, <3>3, <2>3, OwnFile
    <3>. QED
      BY <2>1, <2>2, <3>1, <3>2, <3>3
  <2>4. CASE n \notin DOMAIN dir
    <3>1. i = j /\ j # Old
      BY <2>4, FilesAssumption
    <3>2. \A m \in DOMAIN dir : dir[m] # j
      BY <1>4 DEF Inv, TypeOK
    <3>3. \A k \in Jobs : pc[k] \in Writing => handle[k] # i /\ temp[k] # n
      BY <3>1, <1>4, <2>4, OwnFile
    <3>. QED
      BY <2>1, <2>2, <3>1, <3>2, <3>3
  <2>. QED
    BY <2>3, <2>4
<1>6. i \in Jobs \cup {Old}
  BY DEF Inv, TypeOK
<1>. HIDE DEF n, i
<1>7. /\ DOMAIN dir' = DOMAIN dir \cup {n} /\ dir'[n] = i
      /\ \A m \in DOMAIN dir : m # n => dir'[m] = dir[m]
  BY <1>1 DEF Put
<1>8. /\ DOMAIN data' = DOMAIN data \cup {i} /\ data'[i] = [by |-> j, whole |-> FALSE]
      /\ \A m \in DOMAIN data : m # i => data'[m] = data[m]
      /\ data' = [m \in DOMAIN data' |-> data'[m]]
  <2>1. /\ DOMAIN data' = DOMAIN data \cup {i} /\ data'[i] = [by |-> j, whole |-> FALSE]
        /\ \A m \in DOMAIN data : m # i => data'[m] = data[m]
    BY <1>1 DEF Put
  <2>2. data' = [m \in DOMAIN data' |-> data'[m]]
    BY <1>1 DEF Put
  <2>. QED
    BY <2>1, <2>2
<1>9. /\ handle'[j] = i /\ temp'[j] = n
      /\ \A k \in Jobs : k # j => handle'[k] = handle[k] /\ temp'[k] = temp[k]
  BY <1>1 DEF Inv, TypeOK
<1>10. /\ pc' \in [Jobs -> Steps] /\ pc'[j] = "open" /\ \A k \in Jobs : k # j => pc'[k] = pc[k]
       /\ LiveJobs' /\ LastPart' /\ Untorn'
  <2>1. "open" \in Writing \cup {"done", "failed", "left"}
    BY DEF Writing
  <2>2. Goes(j, "open") /\ Turn(j) /\ kind[j] # "history" /\ UNCHANGED <<given, host, log>>
    BY <1>1
  <2>. QED
    BY <2>1, <2>2, StepFacts
<1>11. TypeOK'
  <2>1. \A m \in DOMAIN dir' : dir'[m] \in DOMAIN data'
    BY <1>7, <1>8 DEF Inv, TypeOK
  <2>2. \A m \in DOMAIN data' : data'[m] \in [by : Jobs \cup {Old}, whole : BOOLEAN]
    <3>1. [by |-> j, whole |-> FALSE] \in [by : Jobs \cup {Old}, whole : BOOLEAN]
      OBVIOUS
    <3>2. \A m \in DOMAIN data : data[m] \in [by : Jobs \cup {Old}, whole : BOOLEAN]
      BY DEF Inv, TypeOK
    <3>. QED
      BY <3>1, <3>2, <1>8
  <2>3. data' \in [DOMAIN data' -> [by : Jobs \cup {Old}, whole : BOOLEAN]]
    BY <2>2, <1>8
  <2>4. handle' \in [Jobs -> Jobs \cup {Old}] /\ DOMAIN temp' = Jobs
    BY <1>1, <1>6 DEF Inv, TypeOK
  <2>5. synced' \subseteq DOMAIN data' /\ DOMAIN data' \subseteq Jobs \cup {Old}
    BY <1>1, <1>6, <1>8 DEF Inv, TypeOK
  <2>. QED
    BY <2>1, <2>3, <2>4, <2>5, <1>1, <1>10 DEF Inv, TypeOK
<1>12. OneName'
  <2>1. Old \in synced' /\ data'[Old] = [by |-> Old, whole |-> TRUE]
    BY <1>1, <1>5, <1>8 DEF Inv, OneName, TypeOK
  <2>2. \A k \in Replaced : Target(k) \in DOMAIN dir'
    BY <1>7 DEF Inv, OneName
  <2>3. ASSUME NEW m \in DOMAIN dir', m[1] # "target"
        PROVE  dir'[m] # Old /\ \E k \in Jobs : pc'[k] # "idle" /\ temp'[k] = m
    <3>1. CASE m = n
      BY <3>1, <1>5, <1>7, <1>9, <1>10
    <3>2. CASE m # n
      <4>1. m \in DOMAIN dir /\ dir'[m] = dir[m]
        BY <3>2, <1>7
      <4>2. PICK k \in Jobs : pc[k] # "idle" /\ temp[k] = m
        BY <4>1, <2>3 DEF Inv, OneName
      <4>. QED
        BY <4>1, <4>2, <1>4, <1>9, <1>10, <2>3 DEF Inv, OneName
    <3>. QED
      BY <3>1, <3>2
  <2>4. \A m, l \in DOMAIN dir' : dir'[m] = dir'[l] /\ dir'[m] # Old => m = l
    BY <1>5, <1>7 DEF Inv, OneName
  <2>5. \A k \in Jobs : pc'[k] = "idle" => k \notin DOMAIN data'
    <3>1. i \in DOMAIN data \/ i = j
      BY DEF i, Inv, TypeOK
    <3>2. \A k \in Jobs : pc'[k] = "idle" => k # j /\ pc[k] = "idle"
      BY <1>10
    <3>. QED
      BY <3>1, <3>2, <1>8, <1>9 DEF Inv, OneName
  <2>. QED
    BY <2>1, <2>2, <2>3, <2>4, <2>5 DEF OneName
<1>13. Held'
  <2>1. InHand(j)'
    <3>1. kind[j] = "update" => flaw[j] = "none"
      BY <1>1 DEF Verified, Newer, Fetched, DigestMatches, Unpacked, Inv, TypeOK, Flaws
    <3>2. data'[handle'[j]].by = j /\ handle'[j] = dir'[temp'[j]] /\ temp'[j] \in DOMAIN dir'
      BY <1>7, <1>8, <1>9
    <3>. QED
      BY <3>1, <3>2, <1>1, <1>2, <1>9, <1>10 DEF InHand
  <2>2. ASSUME NEW k \in Jobs, k # j, pc'[k] \in Writing
        PROVE  InHand(k)'
    <3>1. pc'[k] = pc[k] /\ InHand(k)
      BY <2>2, <1>10 DEF Inv, Held
    <3>2. handle'[k] = handle[k] /\ temp'[k] = temp[k]
      BY <2>2, <1>9
    <3>3. temp[k] \in DOMAIN dir' /\ dir'[temp[k]] = dir[temp[k]]
      BY <3>1, <2>2, <1>5, <1>7 DEF InHand
    <3>4. data'[handle[k]] = data[handle[k]] /\ handle[k] # i
      BY <3>1, <2>2, <1>5, <1>8, OwnFile
    <3>. QED
      BY <3>1, <3>2, <3>3, <3>4, <1>1 DEF InHand
  <2>. QED
    BY <2>1, <2>2 DEF Held
<1>14. SafeTargets'
  <2>1. \A k \in Replaced : Target(k) # n /\ Target(k) \in DOMAIN dir
    BY <1>5, TagFacts DEF Inv, OneName
  <2>2. \A k \in Replaced : dir'[Target(k)] = dir[Target(k)] /\ dir[Target(k)] # i
    BY <2>1, <1>5, <1>7
  <2>3. \A k \in Replaced : data'[dir[Target(k)]] = data[dir[Target(k)]]
    BY <2>1, <2>2, <1>8 DEF Inv, TypeOK
  <2>4. Safe \subseteq Replaced /\ "update" \in Replaced
    BY DEF Safe, Replaced
  <2>. QED
    BY <2>2, <2>3, <2>4, <1>1 DEF Inv, SafeTargets
<1>15. Litter'
  <2>1. ASSUME NEW m \in DOMAIN dir', m[1] = "aside"
        PROVE  Leftover(m)'
    <3>1. CASE m = n
      <4>1. data'[dir'[m]].by = j /\ pc'[j] \in Writing /\ temp'[j] = m
        BY <3>1, <1>7, <1>8, <1>9, <1>10 DEF Writing
      <4>. QED
        BY <4>1 DEF Leftover
    <3>2. CASE m # n
      <4>1. m \in DOMAIN dir /\ dir'[m] = dir[m] /\ data'[dir[m]] = data[dir[m]]
        BY <3>2, <1>5, <1>7, <1>8 DEF Inv, TypeOK
      <4>2. Leftover(m)
        BY <4>1, <2>1 DEF Inv, Litter
      <4>3. data[dir[m]].by # j \/ kind[j] = "watch"
        BY <4>2, <1>4 DEF Leftover, Writing
      <4>. QED
        BY <4>1, <4>2, <4>3, <1>1, <1>9, <1>10 DEF Leftover
    <3>. QED
      BY <3>1, <3>2
  <2>. QED
    BY <2>1 DEF Litter
<1>. QED
  BY <1>10, <1>11, <1>12, <1>13, <1>14, <1>15 DEF Inv

LEMMA OpenFailsKeeps ==
  ASSUME Inv, NEW j \in Jobs, OpenFails(j)
  PROVE  Inv'
<1>1. /\ Turn(j) /\ kind[j] # "history" /\ Goes(j, "failed")
      /\ UNCHANGED <<given, host, data, synced, log, handle, temp>>
  BY DEF OpenFails
<1>2. /\ pc' \in [Jobs -> Steps] /\ pc'[j] = "failed" /\ \A i \in Jobs : i # j => pc'[i] = pc[i]
      /\ LiveJobs' /\ LastPart' /\ Untorn'
  BY <1>1, StepFacts
<1>3. pc[j] = "idle"
  BY <1>1 DEF Turn
\* a name that is removed is no target, and no job at work has it
<1>4. /\ DOMAIN dir' \subseteq DOMAIN dir
      /\ \A n \in DOMAIN dir' : dir'[n] = dir[n]
      /\ \A n \in DOMAIN dir : n[1] = "target" \/ n[1] = "export" => n \in DOMAIN dir'
      /\ \A k \in Jobs : pc[k] \in Writing => temp[k] \in DOMAIN dir'
  <2>1. CASE dir' # dir
    <3>1. dir' = Without(NameOf(j)) /\ kind[j] = "update"
      BY <2>1 DEF OpenFails
    <3>2. /\ DOMAIN dir' = DOMAIN dir \ {NameOf(j)}
          /\ \A n \in DOMAIN dir \ {NameOf(j)} : dir'[n] = dir[n]
      BY <3>1, WithoutFacts
    <3>3. NameOf(j)[1] = "aside"
      BY <3>1, <1>1, NameFacts DEF Inv
    <3>4. \A k \in Jobs : pc[k] \in Writing => temp[k] \in DOMAIN dir /\ temp[k] # NameOf(j)
      BY <3>1, <1>1, OwnName, OwnFile DEF Detached
    <3>. QED
      BY <3>2, <3>3, <3>4
  <2>2. CASE dir' = dir
    BY <2>2, OwnFile
  <2>. QED
    BY <2>1, <2>2
<1>5. TypeOK'
  BY <1>1, <1>2, <1>4 DEF Inv, TypeOK
<1>6. OneName'
  <2>1. \A k \in Jobs : pc'[k] = "idle" => pc[k] = "idle"
    BY <1>2, <1>3
  <2>2. \A k \in Replaced : Target(k) \in DOMAIN dir'
    BY <1>4, TagFacts DEF Inv, OneName
  <2>3. \A m, n \in DOMAIN dir' : dir'[m] = dir'[n] /\ dir'[m] # Old => m = n
    BY <1>4 DEF Inv, OneName
  <2>4. \A n \in DOMAIN dir' : n[1] # "target" =>
          dir'[n] # Old /\ \E k \in Jobs : pc'[k] # "idle" /\ temp'[k] = n
    BY <1>1, <1>4, <2>1 DEF Inv, OneName
  <2>5. \A k \in Jobs : pc'[k] = "idle" => k \notin DOMAIN data'
    BY <1>1, <2>1 DEF Inv, OneName
  <2>6. Old \in synced' /\ data'[Old] = [by |-> Old, whole |-> TRUE]
    BY <1>1 DEF Inv, OneName
  <2>. QED
    BY <2>2, <2>3, <2>4, <2>5, <2>6 DEF OneName
<1>7. Held'
  <2>1. ASSUME NEW k \in Jobs, pc'[k] \in Writing
        PROVE  InHand(k)'
    <3>1. k # j /\ pc'[k] = pc[k]
      BY <2>1, <1>2 DEF Writing
    <3>2. InHand(k) /\ temp[k] \in DOMAIN dir' /\ dir'[temp[k]] = dir[temp[k]]
      BY <2>1, <3>1, <1>4 DEF Inv, Held
    <3>. QED
      BY <3>1, <3>2, <1>1 DEF InHand
  <2>. QED
    BY <2>1 DEF Held
<1>8. SafeTargets'
  <2>1. \A k \in Replaced : dir'[Target(k)] = dir[Target(k)]
    BY <1>4, TagFacts DEF Inv, OneName
  <2>2. Safe \subseteq Replaced /\ "update" \in Replaced
    BY DEF Safe, Replaced
  <2>. QED
    BY <2>1, <2>2, <1>1 DEF Inv, SafeTargets
<1>9. Litter'
  <2>1. ASSUME NEW n \in DOMAIN dir', n[1] = "aside"
        PROVE  Leftover(n)'
    <3>1. Leftover(n) /\ dir'[n] = dir[n]
      BY <2>1, <1>4 DEF Inv, Litter
    <3>2. \A k \in Jobs : pc[k] \in Writing \/ pc[k] \in {"dead", "left"} => pc'[k] = pc[k]
      BY <1>2, <1>3 DEF Writing
    <3>. QED
      BY <3>1, <3>2, <1>1 DEF Leftover
  <2>. QED
    BY <2>1 DEF Litter
<1>. QED
  BY <1>2, <1>5, <1>6, <1>7, <1>8, <1>9 DEF Inv

LEMMA WriteKeeps ==
  ASSUME Inv, NEW j \in Jobs, Write(j)
  PROVE  Inv'
<1> DEFINE s == AfterWrite(kind[j])
<1>1. /\ pc[j] = "open" /\ Goes(j, s)
      /\ data' = [data EXCEPT ![handle[j]] = [by |-> j, whole |-> TRUE]]
      /\ UNCHANGED <<given, host, dir, synced, log, handle, temp>>
  BY DEF Write
<1>2. pc[j] \in Writing /\ pc[j] \in Active /\ InHand(j) /\ kind[j] # "history"
  BY <1>1 DEF Inv, Held, InHand, Writing, Active
<1>3. /\ kind[j] = "export" => s = "done"
      /\ kind[j] # "export" => s \in {"sync", "rename"} /\ (s = "rename" => kind[j] = "watch")
  BY DEF AfterWrite
<1>4. s \in Writing \cup {"done", "failed", "left"}
  BY <1>3 DEF Writing
<1>. HIDE DEF s
<1>5. /\ pc' \in [Jobs -> Steps] /\ pc'[j] = s /\ \A i \in Jobs : i # j => pc'[i] = pc[i]
      /\ LiveJobs' /\ LastPart' /\ Untorn'
  BY <1>1, <1>2, <1>4, StepFacts
<1>6. /\ handle[j] \in DOMAIN data /\ handle[j] # Old /\ data[handle[j]].by = j
      /\ \A k \in Jobs : pc[k] \in Writing /\ k # j => handle[k] # handle[j] /\ temp[k] # temp[j]
      /\ temp[j] \in DOMAIN dir /\ temp[j][1] # "target"
      /\ \A n \in DOMAIN dir : n # temp[j] => dir[n] # handle[j]
  BY <1>2, OwnFile
<1>7. /\ DOMAIN data' = DOMAIN data /\ data'[handle[j]] = [by |-> j, whole |-> TRUE]
      /\ \A i \in DOMAIN data : i # handle[j] => data'[i] = data[i]
  BY <1>1, <1>6
<1>8. \A i \in DOMAIN data : data'[i].by = data[i].by
  BY <1>6, <1>7
<1>9. TypeOK'
  <2>1. [by |-> j, whole |-> TRUE] \in [by : Jobs \cup {Old}, whole : BOOLEAN]
    OBVIOUS
  <2>2. data \in [DOMAIN data -> [by : Jobs \cup {Old}, whole : BOOLEAN]]
    BY DEF Inv, TypeOK
  <2>3. data' \in [DOMAIN data -> [by : Jobs \cup {Old}, whole : BOOLEAN]]
    BY <2>1, <2>2, <1>1
  <2>. QED
    BY <2>3, <1>1, <1>5, <1>7 DEF Inv, TypeOK
<1>10. OneName'
  <2>1. \A k \in Jobs : pc'[k] = "idle" <=> pc[k] = "idle"
    BY <1>1, <1>4, <1>5 DEF Writing
  <2>2. data'[Old] = data[Old]
    BY <1>6, <1>7 DEF Inv, OneName, TypeOK
  <2>. QED
    BY <2>1, <2>2, <1>1, <1>7 DEF Inv, OneName
<1>11. Held'
  <2>1. ASSUME pc'[j] \in Writing
        PROVE  InHand(j)'
    <3>1. kind[j] # "export" /\ pc'[j] \in {"sync", "rename"}
      BY <2>1, <1>3, <1>5 DEF Writing
    <3>2. pc'[j] = "rename" => kind[j] = "watch"
      BY <1>3, <1>5, <3>1
    <3>. QED
      BY <3>1, <3>2, <1>1, <1>2, <1>7 DEF InHand
  <2>2. ASSUME NEW k \in Jobs, k # j, pc'[k] \in Writing
        PROVE  InHand(k)'
    <3>1. pc'[k] = pc[k] /\ InHand(k)
      BY <2>2, <1>5 DEF Inv, Held
    <3>2. data'[handle[k]] = data[handle[k]]
      BY <2>2, <3>1, <1>6, <1>7, OwnFile
    <3>. QED
      BY <3>1, <3>2, <1>1 DEF InHand
  <2>. QED
    BY <2>1, <2>2 DEF Held
<1>12. SafeTargets'
  <2>1. \A k \in Safe : data'[dir[Target(k)]].whole
    BY <1>7, TargetFacts
  <2>2. data'[dir[Target("update")]].by = data[dir[Target("update")]].by
    BY <1>8, TargetFacts
  <2>. QED
    BY <2>1, <2>2, <1>1 DEF Inv, SafeTargets
<1>13. Litter'
  <2>1. ASSUME NEW n \in DOMAIN dir, n[1] = "aside"
        PROVE  Leftover(n)'
    <3>1. Leftover(n) /\ data'[dir[n]].by = data[dir[n]].by
      BY <2>1, <1>8 DEF Inv, Litter, TypeOK
    <3>2. CASE data[dir[n]].by # j
      BY <3>1, <3>2, <1>1, <1>5 DEF Leftover
    <3>3. CASE data[dir[n]].by = j
      <4>1. kind[j] = "watch" \/ temp[j] = n
        BY <3>1, <3>3, <1>1 DEF Leftover
      <4>2. kind[j] # "export" \/ kind[j] = "watch"
        BY <4>1, <1>2, <2>1 DEF InHand
      <4>3. pc'[j] \in Writing
        BY <4>2, <1>3, <1>5 DEF Writing
      <4>. QED
        BY <3>1, <3>3, <4>1, <4>3, <1>1 DEF Leftover
    <3>. QED
      BY <3>2, <3>3
  <2>. QED
    BY <2>1, <1>1 DEF Litter
<1>. QED
  BY <1>5, <1>9, <1>10, <1>11, <1>12, <1>13 DEF Inv

LEMMA SyncKeeps ==
  ASSUME Inv, NEW j \in Jobs, Sync(j)
  PROVE  Inv'
<1>1. /\ pc[j] = "sync" /\ Goes(j, "rename") /\ synced' = synced \cup {handle[j]}
      /\ UNCHANGED <<given, host, dir, data, log, handle, temp>>
  BY DEF Sync
<1>2. pc[j] \in Writing /\ pc[j] \in Active /\ InHand(j) /\ kind[j] # "history" /\ "rename" \in Writing
  BY <1>1 DEF Inv, Held, InHand, Writing, Active
<1>3. /\ pc' \in [Jobs -> Steps] /\ pc'[j] = "rename" /\ \A i \in Jobs : i # j => pc'[i] = pc[i]
      /\ LiveJobs' /\ LastPart' /\ Untorn'
  BY <1>1, <1>2, StepFacts
<1>4. handle[j] \in DOMAIN data
  BY <1>2, OwnFile
<1>5. TypeOK'
  BY <1>1, <1>3, <1>4 DEF Inv, TypeOK
<1>6. OneName'
  <2>1. \A k \in Jobs : pc'[k] = "idle" <=> pc[k] = "idle"
    BY <1>1, <1>3
  <2>. QED
    BY <2>1, <1>1 DEF Inv, OneName
<1>7. Held'
  <2>1. InHand(j)'
    BY <1>1, <1>2, <1>3 DEF InHand
  <2>2. ASSUME NEW k \in Jobs, k # j, pc'[k] \in Writing
        PROVE  InHand(k)'
    <3>1. pc'[k] = pc[k] /\ InHand(k)
      BY <2>2, <1>3 DEF Inv, Held
    <3>. QED
      BY <3>1, <1>1 DEF InHand
  <2>. QED
    BY <2>1, <2>2 DEF Held
<1>8. SafeTargets'
  BY <1>1 DEF Inv, SafeTargets
<1>9. Litter'
  BY <1>1, <1>2, <1>3 DEF Inv, Litter, Leftover
<1>. QED
  BY <1>3, <1>5, <1>6, <1>7, <1>8, <1>9 DEF Inv

LEMMA RenameKeeps ==
  ASSUME Inv, NEW j \in Jobs, Rename(j)
  PROVE  /\ Inv'
         /\ data'[dir'[Target(kind[j])]] = [by |-> j, whole |-> TRUE]
         /\ \A n \in DOMAIN dir : n[1] = "export" => n \in DOMAIN dir' /\ dir'[n] = dir[n]
<1> DEFINE t == Target(kind[j])
<1>1. /\ pc[j] = "rename" /\ Goes(j, "done") /\ dir' = Put(Without(temp[j]), t, dir[temp[j]])
      /\ UNCHANGED <<given, host, data, synced, log, handle, temp>>
  BY DEF Rename
<1>2. pc[j] \in Writing /\ pc[j] \in Active /\ InHand(j) /\ kind[j] # "history" /\ kind[j] # "export"
  BY <1>1 DEF Inv, Held, InHand, Writing, Active
<1>3. /\ pc' \in [Jobs -> Steps] /\ pc'[j] = "done" /\ \A i \in Jobs : i # j => pc'[i] = pc[i]
      /\ LiveJobs' /\ LastPart' /\ Untorn'
  BY <1>1, <1>2, StepFacts
<1>4. /\ handle[j] \in DOMAIN data /\ handle[j] # Old /\ handle[j] = dir[temp[j]]
      /\ \A k \in Jobs : pc[k] \in Writing /\ k # j => handle[k] # handle[j] /\ temp[k] # temp[j]
      /\ temp[j] \in DOMAIN dir /\ temp[j][1] = "aside"
      /\ \A n \in DOMAIN dir : n # temp[j] => dir[n] # handle[j]
  BY <1>2, OwnFile DEF InHand
<1>5. kind[j] \in Replaced
  BY <1>2, FilesAssumption DEF Inv, TypeOK
<1>6. t \in DOMAIN dir /\ t[1] = "target" /\ t # temp[j] /\ \A k : Target(k) = t => k = kind[j]
  BY <1>4, <1>5, TagFacts DEF Inv, OneName
<1>. HIDE DEF t
<1>7. /\ DOMAIN dir' = DOMAIN dir \ {temp[j]} /\ dir'[t] = handle[j]
      /\ \A n \in DOMAIN dir' : n # t => dir'[n] = dir[n]
  BY <1>1, <1>4, <1>6, WithoutFacts DEF Put
<1>8. data[handle[j]] = [by |-> j, whole |-> TRUE]
  <2>1. data[handle[j]] \in [by : Jobs \cup {Old}, whole : BOOLEAN]
    BY <1>4 DEF Inv, TypeOK
  <2>2. data[handle[j]].by = j /\ data[handle[j]].whole
    BY <1>1, <1>2 DEF InHand
  <2>. QED
    BY <2>1, <2>2
<1>9. TypeOK'
  <2>1. \A n \in DOMAIN dir' : dir'[n] \in DOMAIN data
    BY <1>4, <1>7 DEF Inv, TypeOK
  <2>. QED
    BY <2>1, <1>1, <1>3 DEF Inv, TypeOK
<1>10. OneName'
  <2>1. \A k \in Jobs : pc'[k] = "idle" <=> pc[k] = "idle"
    BY <1>1, <1>3
  <2>2. \A k \in Replaced : Target(k) \in DOMAIN dir'
    BY <1>4, <1>7, TagFacts DEF Inv, OneName
  <2>3. \A n \in DOMAIN dir' : n[1] # "target" =>
          dir'[n] # Old /\ \E k \in Jobs : pc'[k] # "idle" /\ temp'[k] = n
    BY <1>1, <1>6, <1>7, <2>1 DEF Inv, OneName
  <2>4. \A m, n \in DOMAIN dir' : dir'[m] = dir'[n] /\ dir'[m] # Old => m = n
    BY <1>4, <1>6, <1>7 DEF Inv, OneName
  <2>5. \A k \in Jobs : pc'[k] = "idle" => k \notin DOMAIN data'
    BY <1>1, <2>1 DEF Inv, OneName
  <2>6. Old \in synced' /\ data'[Old] = [by |-> Old, whole |-> TRUE]
    BY <1>1 DEF Inv, OneName
  <2>. QED
    BY <2>2, <2>3, <2>4, <2>5, <2>6 DEF OneName
<1>11. Held'
  <2>1. ASSUME NEW k \in Jobs, pc'[k] \in Writing
        PROVE  InHand(k)'
    <3>1. k # j /\ pc'[k] = pc[k]
      BY <2>1, <1>3 DEF Writing
    <3>2. InHand(k)
      BY <2>1, <3>1 DEF Inv, Held
    <3>3. temp[k] \in DOMAIN dir' /\ dir'[temp[k]] = dir[temp[k]]
      BY <2>1, <3>1, <1>4, <1>6, <1>7, OwnFile
    <3>. QED
      BY <3>1, <3>2, <3>3, <1>1 DEF InHand
  <2>. QED
    BY <2>1 DEF Held
<1>12. SafeTargets'
  <2>1. ASSUME NEW k \in Safe
        PROVE  dir'[Target(k)] \in synced /\ data[dir'[Target(k)]].whole
    <3>1. CASE Target(k) = t
      <4>1. kind[j] # "watch"
        BY <3>1, <1>6 DEF Safe
      <4>. QED
        BY <3>1, <4>1, <1>1, <1>2, <1>7, <1>8 DEF InHand
    <3>2. CASE Target(k) # t
      <4>1. Target(k) \in DOMAIN dir'
        BY <1>4, <1>7, TagFacts, TargetFacts
      <4>. QED
        BY <3>2, <4>1, <1>7, TargetFacts
    <3>. QED
      BY <3>1, <3>2
  <2>2. LET u == data[dir'[Target("update")]].by IN u # Old => flaw[u] = "none"
    <3>1. CASE Target("update") = t
      <4>1. kind[j] = "update" /\ flaw[j] = "none"
        BY <3>1, <1>2, <1>6 DEF InHand
      <4>. QED
        BY <3>1, <4>1, <1>7, <1>8
    <3>2. CASE Target("update") # t
      <4>1. Target("update") \in DOMAIN dir'
        BY <1>4, <1>7, TagFacts, TargetFacts
      <4>. QED
        BY <3>2, <4>1, <1>7 DEF Inv, SafeTargets
    <3>. QED
      BY <3>1, <3>2
  <2>. QED
    BY <2>1, <2>2, <1>1 DEF SafeTargets
<1>13. Litter'
  <2>1. ASSUME NEW n \in DOMAIN dir', n[1] = "aside"
        PROVE  Leftover(n)'
    <3>1. n # t /\ n # temp[j] /\ n \in DOMAIN dir /\ dir'[n] = dir[n]
      BY <2>1, <1>6, <1>7
    <3>2. Leftover(n)
      BY <2>1, <3>1 DEF Inv, Litter
    <3>3. data[dir[n]].by = j => kind[j] = "watch"
      BY <3>1, <3>2, <1>1 DEF Leftover
    <3>. QED
      BY <3>1, <3>2, <3>3, <1>1, <1>3 DEF Leftover
  <2>. QED
    BY <2>1 DEF Litter
<1>14. Inv'
  BY <1>3, <1>9, <1>10, <1>11, <1>12, <1>13 DEF Inv
<1>15. data'[dir'[t]] = [by |-> j, whole |-> TRUE]
  BY <1>1, <1>7, <1>8
<1>16. \A n \in DOMAIN dir : n[1] = "export" => n \in DOMAIN dir' /\ dir'[n] = dir[n]
  BY <1>4, <1>6, <1>7
<1>. QED
  BY <1>14, <1>15, <1>16 DEF t

LEMMA StepFailsKeeps ==
  ASSUME Inv, NEW j \in Jobs, StepFails(j)
  PROVE  Inv'
<1> DEFINE s == AfterError(kind[j])
<1>1. pc[j] \in {"open", "sync", "rename"} /\ Goes(j, s) /\ UNCHANGED <<given, host, disk, handle, temp>>
  BY DEF StepFails
<1>2. pc[j] \in Writing /\ pc[j] \in Active /\ InHand(j) /\ kind[j] # "history"
  BY <1>1 DEF Inv, Held, InHand, Writing, Active
<1>3. /\ kind[j] \in {"watch", "export"} => s = "failed"
      /\ kind[j] \notin {"watch", "export"} => s = "remove"
  BY DEF AfterError
<1>4. s \in Writing \cup {"done", "failed", "left"}
  BY <1>3 DEF Writing
<1>. HIDE DEF s
<1>5. /\ pc' \in [Jobs -> Steps] /\ pc'[j] = s /\ \A i \in Jobs : i # j => pc'[i] = pc[i]
      /\ LiveJobs' /\ LastPart' /\ Untorn'
  BY <1>1, <1>2, <1>4, StepFacts
<1>6. TypeOK'
  BY <1>1, <1>5 DEF Inv, TypeOK
<1>7. OneName'
  <2>1. \A k \in Jobs : pc'[k] = "idle" <=> pc[k] = "idle"
    BY <1>1, <1>4, <1>5 DEF Writing
  <2>. QED
    BY <2>1, <1>1 DEF Inv, OneName
<1>8. Held'
  <2>1. ASSUME pc'[j] \in Writing
        PROVE  InHand(j)'
    <3>1. pc'[j] = "remove" /\ kind[j] \notin {"watch", "export"}
      BY <2>1, <1>3, <1>5 DEF Writing
    <3>. QED
      BY <3>1, <1>1, <1>2 DEF InHand
  <2>2. ASSUME NEW k \in Jobs, k # j, pc'[k] \in Writing
        PROVE  InHand(k)'
    <3>1. pc'[k] = pc[k] /\ InHand(k)
      BY <2>2, <1>5 DEF Inv, Held
    <3>. QED
      BY <3>1, <1>1 DEF InHand
  <2>. QED
    BY <2>1, <2>2 DEF Held
<1>9. SafeTargets'
  BY <1>1 DEF Inv, SafeTargets
<1>10. Litter'
  <2>1. ASSUME NEW n \in DOMAIN dir, n[1] = "aside"
        PROVE  Leftover(n)'
    <3>1. Leftover(n)
      BY <2>1 DEF Inv, Litter
    <3>2. CASE data[dir[n]].by # j
      BY <3>1, <3>2, <1>1, <1>5 DEF Leftover
    <3>3. CASE data[dir[n]].by = j
      <4>1. kind[j] = "watch" \/ temp[j] = n
        BY <3>1, <3>3, <1>1 DEF Leftover
      <4>2. kind[j] # "watch" => pc'[j] = "remove"
        BY <4>1, <1>2, <1>3, <1>5, <2>1 DEF InHand
      <4>. QED
        BY <3>1, <3>3, <4>1, <4>2, <1>1 DEF Leftover, Writing
    <3>. QED
      BY <3>2, <3>3
  <2>. QED
    BY <2>1, <1>1 DEF Litter
<1>. QED
  BY <1>5, <1>6, <1>7, <1>8, <1>9, <1>10 DEF Inv

LEMMA RemoveTempKeeps ==
  ASSUME Inv, NEW j \in Jobs, RemoveTemp(j)
  PROVE  /\ Inv'
         /\ \A n \in DOMAIN dir : n[1] = "export" => n \in DOMAIN dir' /\ dir'[n] = dir[n]
<1>0. PICK end \in {"failed", "left"} :
        /\ Goes(j, end)
        /\ IF end = "left" THEN dir' = dir ELSE dir' = Without(temp[j])
  BY DEF RemoveTemp
<1>1. /\ pc[j] = "remove" /\ UNCHANGED <<given, host, data, synced, log, handle, temp>>
  BY DEF RemoveTemp
<1>2. pc[j] \in Writing /\ pc[j] \in Active /\ InHand(j) /\ kind[j] # "history" /\ kind[j] # "export"
  BY <1>1 DEF Inv, Held, InHand, Writing, Active
<1>3. /\ pc' \in [Jobs -> Steps] /\ pc'[j] = end /\ \A i \in Jobs : i # j => pc'[i] = pc[i]
      /\ LiveJobs' /\ LastPart' /\ Untorn'
  BY <1>0, <1>1, <1>2, StepFacts
<1>4. /\ \A k \in Jobs : pc[k] \in Writing /\ k # j => temp[k] # temp[j]
      /\ temp[j][1] = "aside"
  BY <1>2, OwnFile DEF InHand
<1>5. /\ DOMAIN dir' \subseteq DOMAIN dir /\ DOMAIN dir \ {temp[j]} \subseteq DOMAIN dir'
      /\ \A n \in DOMAIN dir' : dir'[n] = dir[n]
      /\ end # "left" => temp[j] \notin DOMAIN dir'
  BY <1>0, WithoutFacts
<1>6. TypeOK'
  BY <1>1, <1>3, <1>5 DEF Inv, TypeOK
<1>7. OneName'
  <2>1. \A k \in Jobs : pc'[k] = "idle" <=> pc[k] = "idle"
    BY <1>0, <1>1, <1>3
  <2>2. \A k \in Replaced : Target(k) \in DOMAIN dir'
    BY <1>4, <1>5, TagFacts DEF Inv, OneName
  <2>3. \A n \in DOMAIN dir' : n[1] # "target" =>
          dir'[n] # Old /\ \E k \in Jobs : pc'[k] # "idle" /\ temp'[k] = n
    BY <1>1, <1>5, <2>1 DEF Inv, OneName
  <2>4. \A m, n \in DOMAIN dir' : dir'[m] = dir'[n] /\ dir'[m] # Old => m = n
    BY <1>5 DEF Inv, OneName
  <2>. QED
    BY <2>1, <2>2, <2>3, <2>4, <1>1 DEF Inv, OneName
<1>8. Held'
  <2>1. ASSUME NEW k \in Jobs, pc'[k] \in Writing
        PROVE  InHand(k)'
    <3>1. k # j /\ pc'[k] = pc[k]
      BY <2>1, <1>3 DEF Writing
    <3>2. InHand(k)
      BY <2>1, <3>1 DEF Inv, Held
    <3>3. temp[k] \in DOMAIN dir' /\ dir'[temp[k]] = dir[temp[k]]
      BY <2>1, <3>1, <1>4, <1>5, OwnFile
    <3>. QED
      BY <3>1, <3>2, <3>3, <1>1 DEF InHand
  <2>. QED
    BY <2>1 DEF Held
<1>9. SafeTargets'
  <2>1. \A k \in Replaced : dir'[Target(k)] = dir[Target(k)]
    BY <1>4, <1>5, TagFacts DEF Inv, OneName
  <2>2. Safe \subseteq Replaced /\ "update" \in Replaced
    BY DEF Safe, Replaced
  <2>. QED
    BY <2>1, <2>2, <1>1 DEF Inv, SafeTargets
<1>10. Litter'
  <2>1. ASSUME NEW n \in DOMAIN dir', n[1] = "aside"
        PROVE  Leftover(n)'
    <3>1. (n # temp[j] \/ pc'[j] = "left") /\ n \in DOMAIN dir /\ dir'[n] = dir[n]
      BY <2>1, <1>3, <1>5
    <3>2. Leftover(n)
      BY <2>1, <3>1 DEF Inv, Litter
    <3>3. data[dir[n]].by = j => kind[j] = "watch" \/ pc'[j] = "left"
      BY <3>1, <3>2, <1>1 DEF Leftover
    <3>. QED
      BY <3>1, <3>2, <3>3, <1>1, <1>3 DEF Leftover
  <2>. QED
    BY <2>1 DEF Litter
<1>11. Inv'
  BY <1>3, <1>6, <1>7, <1>8, <1>9, <1>10 DEF Inv
<1>12. \A n \in DOMAIN dir : n[1] = "export" => n \in DOMAIN dir' /\ dir'[n] = dir[n]
  BY <1>4, <1>5
<1>. QED
  BY <1>11, <1>12

LEMMA Append1Keeps ==
  ASSUME Inv, NEW j \in Jobs, Append1(j)
  PROVE  Inv'
<1> DEFINE n == IF pc[j] = "idle" THEN 1 ELSE CHOOSE m \in DOMAIN Parts : Parts[m] = pc[j]
           part == Parts[n]
           s == IF n = Len(Parts) THEN "done" ELSE Parts[n + 1]
<1>1. /\ kind[j] = "history" /\ (Turn(j) \/ pc[j] \in Appending)
      /\ log' = Append(log, <<j, part>>) /\ Goes(j, s)
      /\ UNCHANGED <<given, host, dir, data, synced, handle, temp>>
  BY PartFacts DEF Append1, Appending
<1>2. \/ Turn(j) /\ pc[j] = "idle" /\ part = "first" /\ s = "rest"
      \/ pc[j] = "rest" /\ part = "rest" /\ s = "newline"
      \/ pc[j] = "newline" /\ part = "newline" /\ s = "done"
  <2>1. CASE pc[j] \in Appending
    <3>1. n \in 1..3 /\ Parts[n] = pc[j]
      BY <2>1, PartFacts DEF Appending
    <3>. QED
      BY <3>1, <2>1, PartFacts DEF Appending
  <2>2. CASE Turn(j)
    <3>1. n = 1 /\ pc[j] = "idle"
      BY <2>2 DEF Turn
    <3>. QED
      BY <2>2, <3>1, PartFacts
  <2>. QED
    BY <1>1, <2>1, <2>2
<1>. HIDE DEF n, part, s
<1>3. LiveJobs' /\ pc' \in [Jobs -> Steps]
  <2>1. s \in Steps \ {"idle", "dead"} /\ s # "left" /\ (Turn(j) \/ pc[j] \in Active)
    BY <1>2 DEF Steps, Active, Appending
  <2>. QED
    BY <2>1, <1>1, LiveAdvance DEF Inv
<1>4. pc'[j] = s /\ \A i \in Jobs : i # j => pc'[i] = pc[i]
  BY <1>1 DEF Goes, Inv, TypeOK
<1>5. /\ log \in Seq(Jobs \X {"first", "rest", "newline"})
      /\ <<j, part>> \in Jobs \X {"first", "rest", "newline"} /\ Len(log) \in Nat
  BY <1>2 DEF Inv, TypeOK
<1>6. /\ log' \in Seq(Jobs \X {"first", "rest", "newline"}) /\ Len(log') = Len(log) + 1
      /\ log'[Len(log')] = <<j, part>> /\ \A m \in 1..Len(log) : log'[m] = log[m]
  BY <1>1, <1>5
<1>7. TypeOK'
  BY <1>1, <1>3, <1>6 DEF Inv, TypeOK
<1>8. LastPart'
  <2>1. Latest' = <<j, part>>
    BY <1>6 DEF Latest
  <2>2. ASSUME NEW k \in Jobs, pc'[k] \in Appending, ProcOf[k] = ProcOf[j]
        PROVE  k = j
    <3>1. k # j => kind[k] = "history" /\ pc[k] \in Active
      BY <2>2, <1>4 DEF Inv, LiveJobs, Active
    <3>2. CASE pc[j] \in Appending
      BY <2>2, <3>1, <3>2, <1>1 DEF Inv, LiveJobs, Active, Detached
    <3>3. CASE Turn(j)
      <4>1. k # j => Busy(k) /\ ~Detached(kind[k])
        BY <3>1 DEF Busy, Over, Active, Writing, Appending, Detached
      <4>. QED
        BY <4>1, <2>2, <3>3, <1>1 DEF Turn, Detached
    <3>. QED
      BY <3>2, <3>3, <1>1
  <2>3. pc'[j] # "idle" /\ (part # "newline" => pc'[j] # "done")
    BY <1>2, <1>4
  <2>. QED
    BY <2>1, <2>2, <2>3, <1>1 DEF LastPart
\* the part that is now before the last one
<1>9. ASSUME log # <<>>, ProcOf[Latest[1]] = ProcOf[j]
      PROVE  IF part = "first" THEN Latest[2] = "newline" \/ pc'[Latest[1]] = "failed"
                               ELSE Latest[1] = j
  <2>1. Latest[1] \in Jobs
    BY <1>5, <1>9 DEF Latest
  <2>2. CASE pc[j] \in Appending
    <3>1. Latest[1] = j
      BY <1>9, <2>2 DEF Inv, LastPart
    <3>. QED
      BY <3>1, <2>2, <1>2 DEF Appending
  <2>3. CASE Turn(j)
    <3>1. part = "first" /\ pc[j] = "idle" /\ life[ProcOf[j]] = "up"
      BY <2>3, <1>2 DEF Turn
    <3>2. Latest[1] # j /\ kind[Latest[1]] = "history" /\ pc[Latest[1]] # "idle"
      BY <1>9, <3>1 DEF Inv, LastPart
    <3>3. ~Busy(Latest[1])
      BY <2>1, <2>3, <3>2, <1>1, <1>9 DEF Turn, Detached
    <3>4. pc[Latest[1]] # "dead" /\ pc[Latest[1]] # "left"
      BY <2>1, <3>1, <3>2, <1>9 DEF Inv, LiveJobs
    <3>5. pc[Latest[1]] \in {"done", "failed"}
      BY <3>2, <3>3, <3>4 DEF Busy, Over
    <3>6. Latest[2] = "newline" \/ pc[Latest[1]] = "failed"
      BY <3>5, <1>9 DEF Inv, LastPart
    <3>. QED
      BY <3>1, <3>2, <3>6, <2>1, <1>4
  <2>. QED
    BY <2>2, <2>3, <1>1
<1>10. Untorn'
  <2>. SUFFICES ASSUME NEW m \in 2..Len(log'), ProcOf[log'[m - 1][1]] = ProcOf[log'[m][1]]
                PROVE  IF log'[m][2] = "first" THEN log'[m - 1][2] = "newline" \/ pc'[log'[m - 1][1]] = "failed"
                                               ELSE log'[m - 1][1] = log'[m][1]
    BY DEF Untorn
  <2>1. CASE m = Len(log')
    <3>1. log # <<>> /\ m - 1 = Len(log) /\ Len(log) \in 1..Len(log)
      BY <2>1, <1>5, <1>6
    <3>2. log'[m] = <<j, part>> /\ log'[m - 1] = Latest
      BY <2>1, <3>1, <1>6 DEF Latest
    <3>. QED
      BY <3>1, <3>2, <1>9
  <2>2. CASE m # Len(log')
    <3>1. m \in 2..Len(log) /\ m \in 1..Len(log) /\ m - 1 \in 1..Len(log)
      BY <2>2, <1>5, <1>6
    <3>2. log'[m] = log[m] /\ log'[m - 1] = log[m - 1] /\ log[m - 1][1] \in Jobs
      BY <3>1, <1>5, <1>6
    <3>3. pc[log[m - 1][1]] = "failed" => pc'[log[m - 1][1]] = "failed"
      BY <3>2, <1>2, <1>4
    <3>. QED
      BY <3>1, <3>2, <3>3 DEF Inv, Untorn
  <2>. QED
    BY <2>1, <2>2
<1>11. \A k \in Jobs : pc'[k] \in Writing <=> pc[k] \in Writing
  BY <1>2, <1>4 DEF Writing
<1>12. \A k \in Jobs : /\ pc[k] \in Writing \/ pc[k] \in {"dead", "left"} => pc'[k] = pc[k]
                       /\ pc'[k] = "idle" => pc[k] = "idle"
  BY <1>2, <1>4 DEF Writing
<1>13. OneName' /\ SafeTargets'
  BY <1>1, <1>12 DEF Inv, OneName, SafeTargets
<1>14. Held' /\ Litter'
  BY <1>1, <1>11, <1>12 DEF Inv, Held, InHand, Litter, Leftover
<1>. QED
  BY <1>3, <1>7, <1>8, <1>10, <1>13, <1>14 DEF Inv

LEMMA AppendFailsKeeps ==
  ASSUME Inv, NEW j \in Jobs, AppendFails(j)
  PROVE  Inv'
<1>1. /\ kind[j] = "history" /\ (Turn(j) \/ pc[j] \in Appending) /\ Goes(j, "failed")
      /\ UNCHANGED <<given, host, disk, handle, temp>>
  BY PartFacts DEF AppendFails, Appending
<1>2. /\ pc' \in [Jobs -> Steps] /\ pc'[j] = "failed" /\ \A i \in Jobs : i # j => pc'[i] = pc[i]
      /\ LiveJobs' /\ LastPart' /\ Untorn'
  BY <1>1, StepFacts DEF Active
<1>3. \A k \in Jobs : /\ pc[k] \in Writing \/ pc[k] \in {"dead", "left"} => pc'[k] = pc[k]
                      /\ pc'[k] \in Writing => pc[k] \in Writing
                      /\ pc'[k] = "idle" => pc[k] = "idle"
  BY <1>1, <1>2 DEF Turn, Writing, Appending
<1>4. TypeOK'
  BY <1>1, <1>2 DEF Inv, TypeOK
<1>5. OneName' /\ SafeTargets'
  BY <1>1, <1>3 DEF Inv, OneName, SafeTargets
<1>6. Held' /\ Litter'
  BY <1>1, <1>3 DEF Inv, Held, InHand, Litter, Leftover
<1>. QED
  BY <1>2, <1>4, <1>5, <1>6 DEF Inv

-----------------------------------------------------------------------------
LEMMA InitHolds == Init => Inv
<1>. SUFFICES ASSUME Init PROVE Inv
  OBVIOUS
<1>. USE DEF Init
<1>1. /\ DOMAIN dir = {Target(k) : k \in Replaced} /\ \A n \in DOMAIN dir : dir[n] = Old /\ n[1] = "target"
      /\ data[Old] = [by |-> Old, whole |-> TRUE] /\ DOMAIN data = {Old}
  BY TagFacts
<1>2. TypeOK
  <2>1. data \in [DOMAIN data -> [by : Jobs \cup {Old}, whole : BOOLEAN]]
    OBVIOUS
  <2>2. log \in Seq(Jobs \X {"first", "rest", "newline"})
    OBVIOUS
  <2>3. handle \in [Jobs -> Jobs \cup {Old}] /\ DOMAIN temp = Jobs
    OBVIOUS
  <2>. QED
    BY <1>1, <2>1, <2>2, <2>3 DEF TypeOK, Steps
<1>3. LiveJobs
  BY FilesAssumption DEF LiveJobs, Active, Writing, Appending
<1>4. OneName
  BY <1>1, FilesAssumption DEF OneName
<1>5. Held
  BY DEF Held, Writing
<1>6. SafeTargets
  BY <1>1 DEF SafeTargets, Safe, Replaced
<1>7. Litter
  BY <1>1 DEF Litter
<1>8. LastPart /\ Untorn
  BY DEF LastPart, Untorn
<1>. QED
  BY <1>2, <1>3, <1>4, <1>5, <1>6, <1>7, <1>8 DEF Inv

LEMMA NextKeeps == Inv /\ [Next]_vars => Inv'
<1>. SUFFICES ASSUME Inv, [Next]_vars PROVE Inv'
  OBVIOUS
<1>1. CASE \E p \in Procs, i \in Pids : Start(p, i)
  BY <1>1, StartKeeps
<1>2. CASE \E p \in Procs : Exit(p)
  BY <1>2, ExitKeeps
<1>3. CASE PowerLoss
  BY <1>3, PowerLossKeeps
<1>4. CASE \E j \in Jobs : Open(j) \/ OpenFails(j)
  BY <1>4, OpenKeeps, OpenFailsKeeps
<1>5. CASE \E j \in Jobs : Write(j) \/ Sync(j) \/ Rename(j) \/ StepFails(j) \/ RemoveTemp(j)
  BY <1>5, WriteKeeps, SyncKeeps, RenameKeeps, StepFailsKeeps, RemoveTempKeeps
<1>6. CASE \E j \in Jobs : Append1(j) \/ AppendFails(j)
  BY <1>6, Append1Keeps, AppendFailsKeeps
<1>7. CASE UNCHANGED vars
  <2>. USE <1>7 DEF vars, Inv
  <2>1. TypeOK' /\ LiveJobs' /\ OneName'
    BY DEF TypeOK, LiveJobs, OneName
  <2>2. Held' /\ SafeTargets' /\ Litter'
    BY DEF Held, InHand, SafeTargets, Litter, Leftover
  <2>3. LastPart' /\ Untorn'
    BY DEF LastPart, Untorn, Latest
  <2>. QED
    BY <2>1, <2>2, <2>3
<1>. QED
  BY <1>1, <1>2, <1>3, <1>4, <1>5, <1>6, <1>7 DEF Next

LEMMA InvHolds == Spec => []Inv
BY InitHolds, NextKeeps, PTL DEF Spec

(* Whatever process ends or fails wherever, and whatever a power failure   *)
(* takes of the data that was not synced, the configuration, the manifest  *)
(* and the executable are a whole version, the executable a verified one,  *)
(* and the records of the history are not torn apart (config.rs            *)
(* save_config, main.rs write_manifest, updater.rs install).               *)
THEOREM FilesReadableHolds == Spec => []FilesReadable
<1>1. Inv => FilesReadable
  BY DEF Inv, SafeTargets, Untorn, FilesReadable
<1>. QED
  BY <1>1, InvHolds, PTL

(* A file written aside stays behind only when its process ended over it,  *)
(* the write failed and its file could not be removed, or a write of the   *)
(* watch state failed (the cleanup of main.rs, config.rs and updater.rs    *)
(* ignores the error of the removal).                                      *)
THEOREM NoLitterHolds == Spec => []NoLitter
<1>1. Inv => NoLitter
  <2>. SUFFICES ASSUME Inv, NEW n \in DOMAIN dir, n[1] = "aside"
                PROVE  LET j == data[dir[n]].by
                       IN Busy(j) \/ pc[j] \in {"dead", "left"} \/ kind[j] = "watch"
    BY DEF NoLitter
  <2>1. Leftover(n)
    BY DEF Inv, Litter
  <2>. QED
    BY <2>1 DEF Leftover, Busy, Over, Writing
<1>. QED
  BY <1>1, InvHolds, PTL

-----------------------------------------------------------------------------
Own ==
  /\ \A j \in Jobs : kind[j] \in Replaced /\ pc[j] = "rename" /\ pc'[j] = "done" =>
       data'[dir'[Target(kind[j])]] = [by |-> j, whole |-> TRUE]
  /\ \A n \in DOMAIN dir : n[1] = "export" =>
       n \in DOMAIN dir' /\ dir'[n] = dir[n] /\ data'[dir[n]].by = data[dir[n]].by

(* Steps that neither end a rename nor remove or rewrite a file.           *)
LEMMA OwnKept ==
  ASSUME Inv,
         \A j \in Jobs : pc[j] = "rename" => pc'[j] # "done",
         \A n \in DOMAIN dir : n[1] = "export" => n \in DOMAIN dir' /\ dir'[n] = dir[n],
         \A n \in DOMAIN dir : n[1] = "export" => data'[dir[n]].by = data[dir[n]].by
  PROVE  Own
BY DEF Own

LEMMA OpenOwn ==
  ASSUME Inv, NEW j \in Jobs, Open(j)
  PROVE  Own
<1> DEFINE n == NameOf(j)
           i == IF n \in DOMAIN dir THEN dir[n] ELSE j
<1>1. /\ Turn(j) /\ kind[j] # "history" /\ ~Fails(j, n) /\ Goes(j, "open")
      /\ dir' = Put(dir, n, i) /\ data' = Put(data, i, [by |-> j, whole |-> FALSE])
  BY DEF Open
<1>2. pc[j] = "idle" /\ j \notin DOMAIN data
  BY <1>1 DEF Turn, Inv, OneName
<1>3. n \in DOMAIN dir => n[1] = "aside"
  <2>1. n \in DOMAIN dir => kind[j] = "watch"
    BY <1>1 DEF Fails, Exclusive
  <2>. QED
    BY <2>1, <1>1, NameFacts DEF Inv
<1>4. ASSUME NEW m \in DOMAIN dir, m[1] = "export"
      PROVE  m # n /\ dir[m] # i
  <2>1. m # n /\ dir[m] # Old /\ dir[m] \in DOMAIN data
    BY <1>3, <1>4 DEF Inv, OneName, TypeOK
  <2>. QED
    BY <2>1, <1>2, <1>4 DEF Inv, OneName
<1>. HIDE DEF n, i
<1>5. \A m \in DOMAIN dir : m[1] = "export" =>
        m \in DOMAIN dir' /\ dir'[m] = dir[m] /\ data'[dir[m]] = data[dir[m]]
  BY <1>1, <1>4 DEF Put, Inv, TypeOK
<1>6. \A k \in Jobs : pc[k] = "rename" => pc'[k] # "done"
  BY <1>1 DEF Goes, Inv, TypeOK
<1>. QED
  BY <1>5, <1>6, OwnKept

LEMMA RenameOwn ==
  ASSUME Inv, NEW j \in Jobs, Rename(j)
  PROVE  Own
<1>1. pc[j] = "rename" /\ Goes(j, "done") /\ data' = data
  BY DEF Rename
<1>2. \A k \in Jobs : pc[k] = "rename" /\ pc'[k] = "done" => k = j
  BY <1>1 DEF Goes, Inv, TypeOK
<1>. QED
  BY <1>1, <1>2, RenameKeeps DEF Own

LEMMA WriteOwn ==
  ASSUME Inv, NEW j \in Jobs, Write(j)
  PROVE  Own
<1>1. /\ pc[j] = "open" /\ Goes(j, AfterWrite(kind[j])) /\ dir' = dir
      /\ data' = [data EXCEPT ![handle[j]] = [by |-> j, whole |-> TRUE]]
  BY DEF Write
<1>2. handle[j] \in DOMAIN data /\ data[handle[j]].by = j
  BY <1>1, OwnFile DEF Writing
<1>3. \A i \in DOMAIN data : data'[i].by = data[i].by
  BY <1>1, <1>2
<1>4. \A k \in Jobs : pc[k] = "rename" => pc'[k] # "done"
  BY <1>1 DEF Goes, Inv, TypeOK
<1>. QED
  BY <1>1, <1>3, <1>4, OwnKept DEF Inv, TypeOK

(* A write that reports success has put its own contents in place, and an  *)
(* export never replaces an earlier one (write_manifest, write_export).    *)
THEOREM SuccessIsOwnHolds == Spec => SuccessIsOwn
<1>1. Inv /\ [Next]_vars => [Own]_vars
  <2>. SUFFICES ASSUME Inv, Next PROVE Own \/ UNCHANGED vars
    OBVIOUS
  <2>1. CASE \E p \in Procs, i \in Pids : Start(p, i)
    BY <2>1, OwnKept DEF Start
  <2>2. CASE \E p \in Procs : Exit(p)
    <3>1. \A j \in Jobs : pc[j] = "rename" => pc'[j] # "done"
      BY <2>2 DEF Exit, Killed
    <3>2. dir' = dir /\ data' = data
      BY <2>2 DEF Exit
    <3>. QED
      BY <3>1, <3>2, OwnKept
  <2>3. CASE PowerLoss
    <3>1. \A j \in Jobs : pc[j] = "rename" => pc'[j] # "done"
      BY <2>3 DEF PowerLoss, Killed
    <3>2. dir' = dir
      BY <2>3 DEF PowerLoss
    <3>3. \A i \in DOMAIN data : data'[i].by = data[i].by
      <4>1. PICK L \in SUBSET (DOMAIN data \ synced) :
              data' = [i \in DOMAIN data |-> [data[i] EXCEPT !.whole = @ /\ i \notin L]]
        BY <2>3 DEF PowerLoss
      <4>2. ASSUME NEW i \in DOMAIN data
            PROVE  data'[i].by = data[i].by
        <5>1. data[i] \in [by : Jobs \cup {Old}, whole : BOOLEAN]
          BY DEF Inv, TypeOK
        <5>2. data'[i] = [data[i] EXCEPT !.whole = data[i].whole /\ i \notin L]
          BY <4>1
        <5>. QED
          BY <5>1, <5>2
      <4>. QED
        BY <4>2
    <3>. QED
      BY <3>1, <3>2, <3>3, OwnKept DEF Inv, TypeOK
  <2>4. ASSUME NEW j \in Jobs, OpenFails(j)
        PROVE  Own
    <3>1. \A k \in Jobs : pc[k] = "rename" => pc'[k] # "done"
      BY <2>4 DEF OpenFails, Goes, Inv, TypeOK
    <3>2. \A n \in DOMAIN dir : n[1] = "export" => n \in DOMAIN dir' /\ dir'[n] = dir[n]
      <4>1. CASE dir' # dir
        <5>1. dir' = Without(NameOf(j)) /\ kind[j] = "update"
          BY <2>4, <4>1 DEF OpenFails
        <5>2. NameOf(j)[1] = "aside"
          BY <5>1, NameFacts DEF Inv
        <5>. QED
          BY <5>1, <5>2, WithoutFacts
      <4>. QED
        BY <4>1
    <3>3. data' = data
      BY <2>4 DEF OpenFails
    <3>. QED
      BY <3>1, <3>2, <3>3, OwnKept
  <2>5. ASSUME NEW j \in Jobs, Sync(j) \/ StepFails(j) \/ AppendFails(j)
        PROVE  Own
    <3>1. \A k \in Jobs : pc[k] = "rename" => pc'[k] # "done"
      BY <2>5 DEF Sync, StepFails, AfterError, AppendFails, Goes, Inv, TypeOK
    <3>2. dir' = dir /\ data' = data
      BY <2>5 DEF Sync, StepFails, AppendFails
    <3>. QED
      BY <3>1, <3>2, OwnKept
  <2>6. ASSUME NEW j \in Jobs, RemoveTemp(j)
        PROVE  Own
    <3>1. \A k \in Jobs : pc[k] = "rename" => pc'[k] # "done"
      BY <2>6 DEF RemoveTemp, Goes, Inv, TypeOK
    <3>2. data' = data
      BY <2>6 DEF RemoveTemp
    <3>. QED
      BY <2>6, <3>1, <3>2, RemoveTempKeeps, OwnKept
  <2>7. ASSUME NEW j \in Jobs, Append1(j)
        PROVE  Own
    <3>1. pc[j] # "rename"
      BY <2>7, PartFacts DEF Append1, Turn
    <3>2. \A k \in Jobs : k # j => pc'[k] = pc[k]
      BY <2>7 DEF Append1, Goes, Inv, TypeOK
    <3>3. \A k \in Jobs : pc[k] = "rename" => pc'[k] # "done"
      BY <3>1, <3>2
    <3>4. dir' = dir /\ data' = data
      BY <2>7 DEF Append1
    <3>. QED
      BY <3>3, <3>4, OwnKept
  <2>8. CASE UNCHANGED vars
    BY <2>8
  <2>. QED
    BY <2>1, <2>2, <2>3, <2>4, <2>5, <2>6, <2>7, <2>8, OpenOwn, RenameOwn, WriteOwn DEF Next
<1>. QED
  BY <1>1, InvHolds, PTL DEF Spec, SuccessIsOwn, Own
=============================================================================
