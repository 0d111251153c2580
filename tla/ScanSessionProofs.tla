-------------------------- MODULE ScanSessionProofs --------------------------
(***************************************************************************)
(* Theorems about ScanSession, for any set of addresses, any number of     *)
(* scans and tests, with and without --watch, and lossy or not.            *)
(***************************************************************************)
EXTENDS ScanSession, TLAPS

USE DEF flags, work, scan, wanted, exits, view, iso, trials, watch

(* Isolation holds the pause flag from the moment it is asked for.         *)
Record(i) == i = [target |-> i.target, source |-> i.source, cancel |-> i.cancel, ended |-> i.ended]
Held ==
  /\ Record(investigation)
  /\ pendingIsolation # NoTarget => paused
  /\ HeldWhileIsolated

heldVars == <<currentRun, investigation, pendingIsolation, paused>>

LEMMA HeldFrame == Held /\ UNCHANGED heldVars => Held'
BY DEF Held, heldVars, HeldWhileIsolated, Record

LEMMA RecordFact ==
  /\ Record(NoInvestigation)
  /\ \A i, b : Record(i) =>
       /\ Record([i EXCEPT !.cancel = b]) /\ [i EXCEPT !.cancel = b].source = i.source
       /\ Record([i EXCEPT !.ended = b]) /\ [i EXCEPT !.ended = b].source = i.source
<1>1. Record(NoInvestigation)
  BY DEF Record, NoInvestigation
<1>2. ASSUME NEW i, NEW b, Record(i)
      PROVE  /\ Record([i EXCEPT !.cancel = b]) /\ [i EXCEPT !.cancel = b].source = i.source
             /\ Record([i EXCEPT !.ended = b]) /\ [i EXCEPT !.ended = b].source = i.source
  <2>1. [i EXCEPT !.cancel = b] = [target |-> i.target, source |-> i.source, cancel |-> b, ended |-> i.ended]
    BY <1>2 DEF Record
  <2>2. [i EXCEPT !.ended = b] = [target |-> i.target, source |-> i.source, cancel |-> i.cancel, ended |-> b]
    BY <1>2 DEF Record
  <2>. QED
    BY <2>1, <2>2 DEF Record
<1>. QED
  BY <1>1, <1>2

(* A cancel, and an end, keep the interrupted run of the investigation.    *)
LEMMA HeldCancel ==
  ASSUME Held, UNCHANGED <<currentRun, paused>>,
         \/ UNCHANGED investigation
         \/ /\ investigation # NoInvestigation
            /\ \/ investigation' = [investigation EXCEPT !.cancel = TRUE]
               \/ investigation' = [investigation EXCEPT !.ended = TRUE]
         \/ investigation' = NoInvestigation,
         pendingIsolation' \in {pendingIsolation, NoTarget}
  PROVE  Held'
<1>1. Record(investigation')
  BY RecordFact DEF Held
<1>2. investigation' # NoInvestigation =>
        investigation # NoInvestigation /\ investigation'.source = investigation.source
  BY RecordFact DEF Held
<1>. QED
  BY <1>1, <1>2 DEF Held, HeldWhileIsolated, Record

LEMMA HeldStep == Held /\ [Next]_vars => Held'
<1> SUFFICES ASSUME Held, [Next]_vars PROVE Held'
  OBVIOUS
<1>1. CASE Control
  <2>1. UNCHANGED currentRun
    BY <1>1 DEF Control
  <2>2. CASE Head(controls).op = "pause"
    BY <1>1, <2>1, <2>2 DEF Control, Held, HeldWhileIsolated, Record
  <2>3. CASE Head(controls).op = "resume"
    BY <1>1, <2>1, <2>3 DEF Control, Held, HeldWhileIsolated, ResumeAllowed, Record
  <2>4. CASE Head(controls).op = "isolate"
    BY <1>1, <2>1, <2>4 DEF Control, Held, HeldWhileIsolated, Record
  <2>5. CASE Head(controls).op \notin {"pause", "resume", "isolate"}
    BY <1>1, <2>1, <2>5, HeldCancel DEF Control
  <2>. QED
    BY <2>2, <2>3, <2>4, <2>5
<1>2. CASE Isolate
  BY <1>2 DEF Isolate, Held, HeldWhileIsolated, Record
<1>3. CASE JoinInvestigator \/ EndInvestigation
  BY <1>3, HeldCancel DEF JoinInvestigator, EndInvestigation
<1>4. CASE ConfirmQuit \/ QuitSpeedTest
  BY <1>4, HeldCancel DEF ConfirmQuit, QuitSpeedTest, RequestCancel
<1>5. CASE StartScan
  BY <1>5, RecordFact DEF StartScan, BeginScan, Held, HeldWhileIsolated, Record
<1>6. CASE \/ Receive \/ JoinScanner \/ Relaunch \/ JoinTest \/ NoKey \/ Quit \/ StartTests
           \/ Leave \/ EndSpeed \/ EndFragment \/ PreviewDone \/ WatchTimer \/ Gone \/ UNCHANGED vars
  BY <1>6, HeldFrame DEF Receive, JoinScanner, Relaunch, JoinTest, NoKey, Quit, StartTests, Leave,
     EndSpeed, EndFragment, PreviewDone, WatchTimer, Gone, vars, heldVars
<1>7. CASE Key /\ ~(ConfirmQuit \/ QuitSpeedTest)
  BY <1>7, HeldFrame DEF Key, DismissDialog, AskQuit, QuitNow, StopFragmentTest, PauseResume,
     IsolateTarget, StopKeepResults, CustomizeScan, RerunSelected, AskRerun, ConfirmRerun, Rescan,
     OpenTests, AskSpeed, ConfirmSpeed, AskFragment, LeaveScreen, Review, StartFromWizard, heldVars
<1>8. CASE \E r \in Runs : ThreadStep(r)
  BY <1>8, HeldFrame DEF heldVars, ThreadStep, ReadPaused, LaunchProbes, DrainProbes,
     FinishTarget, EndScan, FailScan
<1>. QED
  BY <1>1, <1>2, <1>3, <1>4, <1>5, <1>6, <1>7, <1>8 DEF Next, Loop, Key

(* An isolated investigation of any target keeps the scan it interrupts    *)
(* paused, and no other run starts under it: apply_runtime_control refuses *)
(* to resume, and start_wizard_scan waits (tui/run.rs).                    *)
THEOREM HeldWhileIsolatedHolds == Spec => []HeldWhileIsolated
<1>1. Init => Held
  BY RecordFact DEF Init, Held, HeldWhileIsolated
<1>2. Held => HeldWhileIsolated
  BY DEF Held
<1>. QED
  BY <1>1, <1>2, HeldStep, PTL DEF Spec
-----------------------------------------------------------------------------
(* Without --watch, and until a rerun is confirmed over a scan begun       *)
(* meanwhile, one scan thread runs at a time, and every way to start       *)
(* another one finds the handle joined.                                    *)
Shapes ==
  /\ thread \in [Runs -> Thread]
  /\ \A r \in Runs : thread[r].st = "running" => thread[r].ok
  /\ currentRun \in Nat /\ currentRun <= MaxRuns /\ (pendingStart => currentRun < MaxRuns)
  /\ scanner \in {0} \cup Runs
  /\ rx \subseteq Runs \X Targets
  /\ lastTargets \subseteq Targets
  /\ rescan \in Keep \cup {NoRescan}
  /\ ~watching => watchDue = "off"

Sole == ~watching /\ ~overrun

Alone ==
  Sole => /\ \A r \in Runs : Running(r) => r = scanner
          /\ scanComplete \/ pendingStart \/ screen = "Wizard" => scanner = 0

(* What was sent and not received is of the current run, and each target   *)
(* its thread has done with is in the table or on its way to it.           *)
Sent ==
  Sole =>
    /\ scanner \in {0, currentRun}
    /\ scanner = 0 => rx = {}
    /\ \A m \in rx : m[1] = currentRun
    /\ activeKind = "full" => \A t \in Targets : rows[t] \in {0, currentRun}
    /\ scanner # 0
         => \A t \in thread[scanner].goal \ thread[scanner].todo :
              rows[t] = currentRun \/ <<currentRun, t>> \in rx
    /\ scanComplete /\ currentRun # 0
         => \A t \in thread[currentRun].goal \ thread[currentRun].todo :
              rows[t] = currentRun

IInv == Shapes /\ Alone /\ Sent

kept == <<thread, currentRun, pendingStart, scanner, rx, rows, lastTargets, rescan,
          scanComplete, watching, watchDue, overrun, activeKind>>

(* Most steps only raise the cancel flag or change the screen.             *)
LEMMA Frame ==
  ASSUME IInv, UNCHANGED kept, cancel => cancel',
         screen' = "Wizard" => screen = "Wizard" \/ scanComplete
  PROVE  IInv'
<1>1. Shapes'
  BY DEF IInv, Shapes, kept
<1>2. Alone'
  BY DEF IInv, Alone, Sole, kept, Running
<1>3. Sent'
  BY DEF IInv, Sent, Sole, kept
<1>. QED
  BY <1>1, <1>2, <1>3 DEF IInv

LEMMA RunFact == /\ MaxRuns \in Nat /\ WatchRuns <= MaxRuns /\ WatchRuns \in Nat
                 /\ \A r \in Runs : r \in Nat /\ r # 0
BY SessionAssumption DEF Runs

LEMMA BornFact ==
  ASSUME NEW S \in Keep
  PROVE  /\ Born(S) \in Thread /\ Born(S).st = "running"
         /\ Born(S).goal = S /\ Born(S).todo = S
BY DEF Born, Unborn, Thread, Keep

(* What a step of a scan thread does to the thread and to its channel.     *)
LEMMA ThreadFact ==
  ASSUME Shapes, NEW r \in Runs, ThreadStep(r)
  PROVE  /\ Running(r)
         /\ thread' \in [Runs -> Thread]
         /\ \A q \in Runs \ {r} : thread'[q] = thread[q]
         /\ thread'[r].goal = thread[r].goal
         /\ thread'[r].st \in {"running", "ended"}
         /\ thread'[r].st = "running" => thread'[r].ok
         /\ thread[r].ok
         /\ rx \subseteq rx' /\ rx' \subseteq rx \cup ({r} \X Targets)
         /\ \A t \in thread[r].todo \ thread'[r].todo : <<r, t>> \in rx'
         /\ UNCHANGED <<pc, flags, scan, wanted, exits, view, iso, trials, tests, watch>>
<1> DEFINE u == thread[r]
<1>0. /\ u \in Thread /\ u.goal \in Keep /\ (u.st = "running" => u.ok)
      /\ \A x \in Thread : thread' = [thread EXCEPT ![r] = x] =>
           /\ thread' \in [Runs -> Thread] /\ thread'[r] = x
           /\ \A q \in Runs \ {r} : thread'[q] = thread[q]
  <2>1. thread \in [Runs -> Thread] /\ (u.st = "running" => u.ok)
    BY DEF Shapes
  <2>2. u \in Thread
    BY <2>1
  <2>. QED
    BY <2>1, <2>2 DEF Thread
<1>1. CASE ReadPaused(r)
  <2>1. thread' = [thread EXCEPT ![r] = [u EXCEPT !.armed = TRUE]]
    BY <1>1 DEF ReadPaused
  <2>2. /\ [u EXCEPT !.armed = TRUE] \in Thread /\ [u EXCEPT !.armed = TRUE].st = u.st
        /\ [u EXCEPT !.armed = TRUE].goal = u.goal /\ [u EXCEPT !.armed = TRUE].todo = u.todo
        /\ [u EXCEPT !.armed = TRUE].ok = u.ok
    BY <1>0 DEF Thread
  <2>. QED
    BY <1>0, <1>1, <2>1, <2>2 DEF ReadPaused, Running
<1>2. CASE LaunchProbes(r)
  <2> DEFINE x == [u EXCEPT !.armed = FALSE, !.busy = TRUE]
  <2>1. thread' = [thread EXCEPT ![r] = x]
    BY <1>2 DEF LaunchProbes
  <2>2. x \in Thread /\ x.st = u.st /\ x.goal = u.goal /\ x.todo = u.todo /\ x.ok = u.ok
    BY <1>0 DEF Thread
  <2> HIDE DEF x
  <2>. QED
    BY <1>0, <1>2, <2>1, <2>2 DEF LaunchProbes, Running
<1>3. CASE DrainProbes(r)
  <2> DEFINE x == [u EXCEPT !.busy = FALSE]
  <2>1. thread' = [thread EXCEPT ![r] = x]
    BY <1>3 DEF DrainProbes
  <2>2. x \in Thread /\ x.st = u.st /\ x.goal = u.goal /\ x.todo = u.todo /\ x.ok = u.ok
    BY <1>0 DEF Thread
  <2> HIDE DEF x
  <2>. QED
    BY <1>0, <1>3, <2>1, <2>2 DEF DrainProbes, Running
<1>4. CASE \E t \in Targets : FinishTarget(r, t)
  <2>1. PICK t \in Targets : FinishTarget(r, t)
    BY <1>4
  <2>2. PICK still \in BOOLEAN :
          thread' = [thread EXCEPT ![r] = [u EXCEPT !.todo = u.todo \ {t}, !.busy = still]]
    BY <2>1 DEF FinishTarget
  <2> DEFINE x == [u EXCEPT !.todo = u.todo \ {t}, !.busy = still]
  <2>3. /\ x \in Thread /\ x.st = u.st /\ x.goal = u.goal /\ x.todo = u.todo \ {t}
        /\ x.ok = u.ok
    BY <1>0 DEF Thread, Keep
  <2>4. /\ rx' = rx \cup {<<r, t>>} /\ Running(r)
        /\ UNCHANGED <<pc, flags, scan, wanted, exits, view, iso, trials, tests, watch>>
    BY <2>1 DEF FinishTarget
  <2>5. thread' = [thread EXCEPT ![r] = x]
    BY <2>2
  <2> HIDE DEF x
  <2>6. \A q \in u.todo \ x.todo : <<r, q>> \in rx'
    BY <2>3, <2>4
  <2>7. rx \subseteq rx' /\ rx' \subseteq rx \cup ({r} \X Targets)
    BY <2>4
  <2>. QED
    BY <1>0, <2>3, <2>4, <2>5, <2>6, <2>7 DEF Running
<1>5. CASE EndScan(r) \/ FailScan(r)
  <2> DEFINE x == Ended(r)
             y == [x EXCEPT !.ok = FALSE]
  <2>1. /\ EndScan(r) => thread' = [thread EXCEPT ![r] = x]
        /\ FailScan(r) => thread' = [thread EXCEPT ![r] = y]
    BY DEF EndScan, FailScan
  <2>2. Running(r) /\ UNCHANGED <<pc, rx, flags, scan, wanted, exits, view, iso, trials, tests,
                                  watch>>
    BY <1>5 DEF EndScan, FailScan
  <2>3. x \in Thread /\ x.st = "ended" /\ x.goal = u.goal /\ x.todo = u.todo
    BY <1>0 DEF Thread, Ended
  <2> HIDE DEF x
  <2>4. y \in Thread /\ y.st = "ended" /\ y.goal = u.goal /\ y.todo = u.todo
    BY <2>3 DEF Thread
  <2> HIDE DEF y
  <2>. QED
    BY <1>0, <1>5, <2>1, <2>2, <2>3, <2>4 DEF Running
<1>. QED
  BY <1>1, <1>2, <1>3, <1>4, <1>5 DEF ThreadStep
(* The newest rows of the channel are those of the only run that sends.    *)
LEMMA ReceivedFact ==
  ASSUME IInv, Sole, NEW t \in Targets
  PROVE  Received[t] = IF <<currentRun, t>> \in rx THEN currentRun ELSE rows[t]
<1> DEFINE sent == {m[1] : m \in {n \in rx : n[2] = t}}
<1>1. \A m \in rx : m = <<currentRun, m[2]>>
  BY DEF IInv, Shapes, Sent
<1>2. sent = IF <<currentRun, t>> \in rx THEN {currentRun} ELSE {}
  BY <1>1
<1>3. Received[t] = IF sent = {} THEN rows[t]
                    ELSE CHOOSE r \in sent : \A q \in sent : q <= r
  BY DEF Received
<1>4. currentRun \in Nat
  BY DEF IInv, Shapes
<1>. QED
  BY <1>2, <1>3, <1>4

LEMMA ThreadStepKeeps ==
  ASSUME IInv, NEW r \in Runs, ThreadStep(r) PROVE IInv'
<1>1. Shapes
  BY DEF IInv
<1>2. Shapes'
  BY <1>1, ThreadFact DEF Shapes, Running
<1>3. Alone'
  BY <1>1, ThreadFact DEF IInv, Alone, Sole, Running
<1>4. ASSUME Sole' PROVE Sent!2'
  <2>1. /\ Sole /\ r = scanner /\ ~scanComplete /\ scanner = currentRun
        /\ UNCHANGED <<scanner, currentRun, rows, activeKind, scanComplete, lastTargets, cancel>>
    BY <1>1, <1>4, ThreadFact, RunFact DEF IInv, Alone, Sent, Sole
  <2>2. \A m \in rx' : m[1] = currentRun
    BY <1>1, <2>1, ThreadFact DEF IInv, Sent
  <2>3. \A t \in thread'[r].goal \ thread'[r].todo :
          rows[t] = currentRun \/ <<currentRun, t>> \in rx'
    <3>1. /\ thread'[r].goal = thread[r].goal /\ rx \subseteq rx'
          /\ \A t \in thread[r].todo \ thread'[r].todo : <<r, t>> \in rx'
      BY <1>1, ThreadFact
    <3>2. \A t \in thread[r].goal \ thread[r].todo :
            rows[t] = currentRun \/ <<currentRun, t>> \in rx
      BY <2>1, RunFact DEF IInv, Sent
    <3>. QED
      BY <2>1, <3>1, <3>2
  <2>. QED
    BY <2>1, <2>2, <2>3, RunFact DEF IInv, Sent
<1>. QED
  BY <1>2, <1>3, <1>4 DEF IInv, Sent

LEMMA ReceiveKeeps == ASSUME IInv, Receive PROVE IInv'
<1>1. Shapes' /\ Alone'
  BY DEF IInv, Shapes, Alone, Sole, Receive, Running
<1>2. ASSUME Sole' PROVE Sent!2'
  <2>1. /\ Sole /\ rows' = Received /\ rx' = {}
        /\ UNCHANGED <<thread, scanner, currentRun, activeKind, scanComplete, lastTargets, cancel>>
    BY <1>2 DEF Sole, Receive
  <2>2. \A t \in Targets : rows'[t] = IF <<currentRun, t>> \in rx THEN currentRun ELSE rows[t]
    BY <2>1, ReceivedFact
  <2>3. scanComplete => scanner = 0
    BY <2>1 DEF IInv, Alone
  <2>4. \A r \in Runs : thread[r].goal \subseteq Targets
    BY DEF IInv, Shapes, Thread, Keep
  <2>5. scanner # 0 => scanner \in Runs
    BY DEF IInv, Shapes
  <2>6. ASSUME scanComplete', currentRun' # 0,
               NEW t \in thread'[currentRun'].goal \ thread'[currentRun'].todo
        PROVE  rows'[t] = currentRun'
    <3>1. currentRun \in Runs /\ t \in Targets /\ t \in thread[currentRun].goal \ thread[currentRun].todo
      BY <2>1, <2>4, <2>6 DEF IInv, Shapes, Runs
    <3>2. rx = {} /\ rows[t] = currentRun
      BY <2>1, <2>3, <2>6, <3>1 DEF IInv, Sent
    <3>. QED
      BY <2>1, <2>2, <3>1, <3>2
  <2>7. ASSUME scanner' # 0,
               NEW t \in thread'[scanner'].goal \ thread'[scanner'].todo
        PROVE  rows'[t] = currentRun'
    <3>1. t \in Targets /\ (rows[t] = currentRun \/ <<currentRun, t>> \in rx)
      BY <2>1, <2>4, <2>5, <2>7 DEF IInv, Sent
    <3>. QED
      BY <2>1, <2>2, <3>1
  <2>8. /\ scanner' \in {0, currentRun'} /\ rx' = {}
        /\ activeKind' = "full" => \A t \in Targets : rows'[t] \in {0, currentRun'}
    BY <2>1, <2>2 DEF IInv, Sent
  <2>. QED
    BY <2>6, <2>7, <2>8
<1>. QED
  BY <1>1, <1>2 DEF IInv, Sent

LEMMA JoinKeeps == ASSUME IInv, JoinScanner PROVE IInv'
<1>1. CASE ~ScanEnded
  BY <1>1, Frame DEF JoinScanner, kept
<1>2. CASE ScanEnded
  <2>1. /\ rows' = Received /\ rx' = {} /\ scanner' = 0 /\ scanComplete'
        /\ lastTargets' = IF thread[scanner].ok THEN thread[scanner].goal ELSE lastTargets
        /\ watchDue' = NextCycle(lifecycle', lastTargets')
        /\ UNCHANGED <<thread, currentRun, pendingStart, rescan, watching, overrun, activeKind,
                       cancel>>
    BY <1>2 DEF JoinScanner
  <2>0. /\ scanner \in Runs /\ thread[scanner].st = "ended" /\ thread[scanner] \in Thread
    BY <1>2 DEF ScanEnded, IInv, Shapes
  <2>2. Shapes'
    BY <2>0, <2>1 DEF IInv, Shapes, NextCycle, Thread, Keep
  <2>3. Alone'
    BY <2>0, <2>1 DEF IInv, Alone, Sole, Running
  <2>4. ASSUME Sole' PROVE Sent!2'
    <3>1. /\ Sole /\ scanner = currentRun
          /\ \A t \in Targets : rows'[t] = IF <<currentRun, t>> \in rx THEN currentRun ELSE rows[t]
      BY <2>0, <2>1, <2>4, ReceivedFact, RunFact DEF Sole, IInv, Sent
    <3>2. thread[scanner].goal \subseteq Targets
      BY <2>0 DEF Thread, Keep
    <3>. QED
      BY <2>0, <2>1, <3>1, <3>2, RunFact DEF IInv, Sent
  <2>. QED
    BY <2>2, <2>3, <2>4 DEF IInv, Sent
<1>. QED
  BY <1>1, <1>2

LEMMA StartKeeps == ASSUME IInv, StartScan PROVE IInv'
<1>1. CASE \E S \in Keep, listed \in Keep :
             pendingStart /\ ~pendingStart' /\ rescan' = NoRescan /\ BeginScan(S, listed)
  <2>1. PICK S \in Keep, listed \in Keep :
          pendingStart /\ ~pendingStart' /\ rescan' = NoRescan /\ BeginScan(S, listed)
    BY <1>1
  <2> DEFINE r == currentRun + 1
  <2>2. r \in Runs /\ r \in Nat /\ r # 0 /\ r <= MaxRuns
    BY <2>1, RunFact DEF IInv, Shapes, Runs
  <2>3. /\ thread' \in [Runs -> Thread] /\ thread'[r] = Born(S)
        /\ \A q \in Runs \ {r} : thread'[q] = IF Running(q) THEN thread[q] ELSE Unborn
        /\ Unborn \in Thread /\ Unborn.st = "unborn"
    <3>1. Unborn \in Thread /\ Unborn.st = "unborn"
      BY DEF Unborn, Thread, Keep
    <3>. QED
      BY <2>1, <2>2, <3>1, BornFact DEF IInv, Shapes, BeginScan
  <2>4. /\ scanner' = r /\ currentRun' = r /\ lastTargets' = listed /\ ~scanComplete'
        /\ activeKind' = pendingKind /\ rows' = Kept /\ screen' = "Scanning"
        /\ UNCHANGED <<rx, watching, watchDue, overrun, cancel>>
    BY <2>1 DEF BeginScan, StartScan
  <2>5. Born(S).st = "running" /\ Born(S).ok /\ Born(S).goal = S /\ Born(S).todo = S
    BY DEF Born, Unborn
  <2>6. Shapes'
    BY <2>1, <2>2, <2>3, <2>4, <2>5 DEF IInv, Shapes, Keep
  <2>7. Sole' => Sole /\ scanner = 0
    BY <2>1, <2>4 DEF IInv, Alone, Sole
  <2>8. Alone'
    BY <2>1, <2>3, <2>4, <2>7, RunFact DEF IInv, Alone, Sole, Running
  <2>9. Sent'
    BY <2>2, <2>3, <2>4, <2>5, <2>7 DEF IInv, Sent, Sole, Kept
  <2>. QED
    BY <2>6, <2>8, <2>9 DEF IInv
<1>2. CASE /\ UNCHANGED <<thread, scan, screen, watch, rx, overrun, cancel>>
           /\ pendingStart' => pendingStart
           /\ rescan' \in {rescan, NoRescan}
  <2>1. Shapes'
    BY <1>2 DEF IInv, Shapes
  <2>2. Alone'
    BY <1>2 DEF IInv, Alone, Sole, Running
  <2>3. Sent'
    BY <1>2 DEF IInv, Sent, Sole
  <2>. QED
    BY <2>1, <2>2, <2>3 DEF IInv
<1>. QED
  <2>1. {} \in Keep /\ (rescan # NoRescan => rescan \in Keep)
    BY DEF IInv, Shapes, Keep
  <2>. QED
    BY <1>1, <1>2, <2>1 DEF StartScan
(* A key that asks for a run: after the last one, or over it, as overrun.  *)
LEMMA AskKeeps ==
  ASSUME IInv, RerunSelected \/ ConfirmRerun \/ StartFromWizard PROVE IInv'
<1>1. /\ pendingStart' /\ rescan' \in Keep \cup {rescan} /\ currentRun < MaxRuns
      /\ Sole' => Sole /\ scanner = 0
      /\ UNCHANGED <<thread, scan, screen, watch, rx, cancel>>
  <2>1. currentRun < MaxRuns
    BY RunFact DEF MayStart, RerunSelected, ConfirmRerun, StartFromWizard, IInv, Shapes
  <2>2. CASE RerunSelected \/ ConfirmRerun
    <3>1. PICK kind \in {"full", "targeted"}, S \in Keep : Rescan(kind, S)
      BY <2>2 DEF RerunSelected, ConfirmRerun, Shown, IInv, Shapes, Keep
    <3>. QED
      BY <2>1, <3>1 DEF Rescan, IInv, Alone, Sole
  <2>3. CASE StartFromWizard
    BY <2>1, <2>3 DEF StartFromWizard, On, IInv, Alone, Sole
  <2>. QED
    BY <2>2, <2>3
<1>2. Shapes'
  BY <1>1 DEF IInv, Shapes
<1>3. Alone'
  BY <1>1 DEF IInv, Alone, Running
<1>4. Sent'
  BY <1>1 DEF IInv, Sent
<1>. QED
  BY <1>2, <1>3, <1>4 DEF IInv

LEMMA CustomizeFact ==
  ASSUME CustomizeScan, screen' = "Wizard" PROVE screen = "Wizard" \/ scanComplete
<1>1. "customize" \in Buttons => scanComplete
  BY DEF Buttons
<1>. QED
  BY <1>1 DEF CustomizeScan, Idle

LEMMA StepKeeps == IInv /\ [Next]_vars => IInv'
<1> SUFFICES ASSUME IInv, [Next]_vars PROVE IInv'
  OBVIOUS
<1>1. CASE \E r \in Runs : ThreadStep(r)
  BY <1>1, ThreadStepKeeps
<1>2. CASE Receive \/ JoinScanner \/ StartScan
  BY <1>2, ReceiveKeeps, JoinKeeps, StartKeeps
<1>3. CASE RerunSelected \/ ConfirmRerun \/ StartFromWizard
  BY <1>3, AskKeeps
<1>4. CASE Control
  BY <1>4, Frame DEF Control, kept
<1>5. CASE JoinInvestigator
  BY <1>5, Frame DEF JoinInvestigator, Customization, kept
<1>6. CASE Relaunch
  <2>1. CASE ~RelaunchReady
    BY <1>6, <2>1, Frame DEF Relaunch, kept
  <2>2. CASE RelaunchReady
    <3>1. watching /\ watching' /\ currentRun < WatchRuns
      BY <1>6, <2>2 DEF RelaunchReady, Relaunch, IInv, Shapes
    <3>2. currentRun < MaxRuns
      BY <3>1, RunFact DEF IInv, Shapes
    <3>. QED
      BY <1>6, <2>2, <3>1, <3>2 DEF Relaunch, IInv, Shapes, Alone, Sent, Sole, Keep
  <2>. QED
    BY <2>1, <2>2
<1>7. CASE WatchTimer
  BY <1>7 DEF WatchTimer, IInv, Shapes, Alone, Sent, Sole, Running
<1>8. CASE CustomizeScan
  BY <1>8, CustomizeFact, Frame DEF CustomizeScan, kept
<1>9. CASE ConfirmQuit \/ QuitSpeedTest
  BY <1>9, Frame DEF ConfirmQuit, QuitSpeedTest, RequestCancel, kept
<1>10. CASE JoinTest \/ StartTests \/ OpenTests \/ LeaveScreen
  <2>1. CASE JoinTest
    BY <2>1, Frame DEF JoinTest, kept
  <2>2. CASE StartTests
    BY <2>2, Frame DEF StartTests, kept
  <2>3. CASE OpenTests
    BY <2>3, Frame DEF OpenTests, kept
  <2>4. CASE LeaveScreen
    BY <2>4, Frame DEF LeaveScreen, kept
  <2>. QED
    BY <1>10, <2>1, <2>2, <2>3, <2>4
<1>11. CASE \/ Isolate \/ NoKey \/ Quit \/ Leave \/ EndInvestigation \/ EndSpeed \/ EndFragment
            \/ PreviewDone \/ Gone \/ UNCHANGED vars
  BY <1>11, Frame DEF Isolate, NoKey, Quit, Leave, EndInvestigation, EndSpeed, EndFragment,
     PreviewDone, Gone, vars, kept
<1>12. CASE DismissDialog \/ AskQuit \/ StopFragmentTest \/ AskRerun
  <2>1. UNCHANGED kept /\ UNCHANGED <<cancel, screen>>
    BY <1>12 DEF DismissDialog, AskQuit, StopFragmentTest, AskRerun, kept
  <2>. QED
    BY <2>1, Frame
<1>13. CASE PauseResume \/ IsolateTarget \/ StopKeepResults
  BY <1>13, Frame DEF PauseResume, IsolateTarget, StopKeepResults, kept
<1>14. CASE QuitNow \/ AskSpeed \/ ConfirmSpeed \/ AskFragment \/ Review
  BY <1>14, Frame DEF QuitNow, AskSpeed, ConfirmSpeed, AskFragment, Review, kept
<1>. QED
  BY <1>1, <1>2, <1>3, <1>4, <1>5, <1>6, <1>7, <1>8, <1>9, <1>10, <1>11, <1>12,
     <1>13, <1>14 DEF Next, Loop, Key

LEMMA InitKeeps == Init => IInv
<1> SUFFICES ASSUME Init PROVE IInv
  OBVIOUS
<1>1. /\ watchDue = "off" /\ rx = {} /\ rows = [t \in Targets |-> 0] /\ ~scanComplete
      /\ ~pendingStart /\ rescan = NoRescan
  BY DEF Init
<1>2. Unborn \in Thread /\ Unborn.st = "unborn"
  BY DEF Unborn, Thread, Keep
<1>3. CASE /\ screen = "Wizard" /\ scanner = 0 /\ currentRun = 0 /\ lastTargets = {}
           /\ thread = [r \in Runs |-> Unborn]
  BY <1>1, <1>2, <1>3, RunFact DEF IInv, Shapes, Alone, Sent, Running
<1>4. CASE /\ screen = "Scanning" /\ scanner = 1 /\ currentRun = 1
           /\ \E S \in Keep \ {{}} : /\ lastTargets = S
                                     /\ thread = [r \in Runs |-> IF r = 1 THEN Born(S) ELSE Unborn]
  <2>1. PICK S \in Keep :
          lastTargets = S /\ thread = [r \in Runs |-> IF r = 1 THEN Born(S) ELSE Unborn]
    BY <1>4
  <2>2. 1 \in Runs /\ 1 <= MaxRuns
    BY SessionAssumption DEF Runs
  <2>3. Born(S) \in Thread /\ Born(S).st = "running" /\ Born(S).ok /\ Born(S).goal = Born(S).todo
    BY BornFact DEF Born, Unborn
  <2>4. Shapes
    BY <1>1, <1>2, <1>4, <2>1, <2>2, <2>3 DEF Shapes, Keep
  <2>5. Alone
    BY <1>1, <1>2, <1>4, <2>1, <2>2, <2>3 DEF Alone, Running
  <2>6. Sent
    BY <1>1, <1>4, <2>1, <2>2, <2>3 DEF Sent
  <2>. QED
    BY <2>4, <2>5, <2>6 DEF IInv
<1>. QED
  BY <1>3, <1>4 DEF Init

LEMMA Invariance == Spec => []IInv
BY InitKeeps, StepKeeps, PTL DEF Spec

(* One scan at a time, for any number of runs: every way to ask for a run  *)
(* but a rerun dialog left open waits until start_wizard_scan finds the    *)
(* handle of the last one joined (tui/run.rs).                             *)
THEOREM OneScanHolds == Spec => []OneScan
<1>1. IInv => OneScan
  BY DEF IInv, Alone, Sole, OneScan
<1>. QED
  BY <1>1, Invariance, PTL

(* The table shows rows of the run it names only, and once that run is     *)
(* over one for each target its thread reported: the channel is emptied    *)
(* before the thread is joined and before another one can send (run.rs,    *)
(* drain and join).                                                        *)
THEOREM RowsOfRunHolds == Spec => []RowsOfRun
<1>1. IInv => RowsOfRun
  BY DEF IInv, Sent, Sole, RowsOfRun
<1>. QED
  BY <1>1, Invariance, PTL
-----------------------------------------------------------------------------
(* A stop is sent from the scan screen, which shows a scan that has a      *)
(* handle or is complete, and is carried out before the next key is read.  *)
Stoppable ==
  ~watching =>
    /\ lifecycle = "Cancelling" =>
         controls = <<>> /\ (quitAfterCancel \/ (scanner # 0 /\ ~scanComplete))
    /\ screen = "Scanning" /\ ~scanComplete => scanner # 0
    /\ screen \notin {"Scanning", "Wizard"} \/ returnToResults => scanComplete
    /\ controls # <<>> => /\ screen = "Scanning" /\ Tail(controls) = <<>>
                          /\ pc \in {"launch", "startTests", "control", "leaving", "gone"}

stopVars == <<watching, lifecycle, controls, quitAfterCancel, scanner, scanComplete, screen,
              returnToResults, pc>>

LEMMA StopFrame == Stoppable /\ UNCHANGED stopVars => Stoppable'
BY DEF Stoppable, stopVars

(* The loop goes on with no control queued.                                *)
LEMMA StopLoop ==
  ASSUME Stoppable, pc \notin {"launch", "startTests", "control", "leaving", "gone"},
         UNCHANGED <<watching, controls, scanner, scanComplete, lifecycle>>,
         quitAfterCancel => quitAfterCancel',
         screen' = "Scanning" => screen = "Scanning" \/ scanComplete,
         screen' \notin {"Scanning", "Wizard"} \/ returnToResults' =>
           \/ screen \notin {"Scanning", "Wizard"} \/ returnToResults
           \/ scanComplete
  PROVE  Stoppable'
BY DEF Stoppable

LEMMA SendFact ==
  ASSUME NEW c, controls = <<>>, Send(c)
  PROVE  controls' # <<>> /\ Tail(controls') = <<>>
<1>1. controls' = <<c>>
  BY DEF Send
<1>. QED
  BY <1>1

LEMMA StoppableStep == IInv /\ Stoppable /\ [Next]_vars => Stoppable'
<1> SUFFICES ASSUME IInv, Stoppable, [Next]_vars PROVE Stoppable'
  OBVIOUS
<1>1. CASE Control
  <2>1. /\ controls # <<>> /\ controls' = Tail(controls)
        /\ UNCHANGED <<watching, scanner, scanComplete, screen, returnToResults, pc>>
    BY <1>1 DEF Control
  <2>2. lifecycle' \in {"Paused", "Running", lifecycle} \/ (lifecycle' = "Cancelling" /\ ~scanComplete)
    BY <1>1 DEF Control, StopsScan
  <2>. QED
    BY <2>1, <2>2 DEF Stoppable
<1>2. CASE Receive \/ Isolate
  BY <1>2 DEF Receive, Isolate, At, Stoppable
<1>3. CASE JoinInvestigator
  BY <1>3, StopLoop DEF JoinInvestigator, At, Customization
<1>4. CASE JoinScanner
  <2>1. CASE ScanEnded
    BY <1>4, <2>1 DEF JoinScanner, At, Customization, Resolved, Stoppable
  <2>2. CASE ~ScanEnded
    BY <1>4, <2>2, StopLoop DEF JoinScanner, At
  <2>. QED
    BY <2>1, <2>2
<1>5. CASE Relaunch
  BY <1>5 DEF Relaunch, RelaunchReady, At, Stoppable, IInv, Shapes
<1>6. CASE JoinTest
  BY <1>6 DEF JoinTest, At, Resolved, Stoppable
<1>7. CASE NoKey \/ Quit \/ Leave
  BY <1>7 DEF NoKey, Quit, Leave, At, Stoppable
<1>8. CASE StartScan
  <2>1. CASE UNCHANGED <<lifecycle, scanner, scanComplete, quitAfterCancel, screen,
                         returnToResults>>
    BY <1>8, <2>1 DEF StartScan, At, Stoppable
  <2>2. CASE \E S \in Keep, listed \in Keep : BeginScan(S, listed)
    <3>1. /\ scanner' # 0 /\ ~scanComplete' /\ lifecycle' = "Running" /\ screen' = "Scanning"
          /\ ~returnToResults'
      BY <2>2 DEF BeginScan, IInv, Shapes
    <3>. QED
      BY <1>8, <3>1 DEF StartScan, At, Stoppable
  <2>3. {} \in Keep /\ (rescan # NoRescan => rescan \in Keep)
    BY DEF IInv, Shapes, Keep
  <2>. QED
    BY <1>8, <2>1, <2>2, <2>3 DEF StartScan
<1>9. CASE StartTests
  BY <1>9 DEF StartTests, At, Stoppable
<1>10. CASE ConfirmQuit \/ QuitSpeedTest
  <2>1. RequestCancel /\ Press /\ UNCHANGED <<watching, controls, scanner, scanComplete, screen,
                                              returnToResults>>
    BY <1>10 DEF ConfirmQuit, QuitSpeedTest, On
  <2>. QED
    BY <2>1 DEF RequestCancel, Press, At, Stoppable
<1>11. CASE PauseResume \/ IsolateTarget \/ StopKeepResults
  <2>1. /\ Press /\ screen = "Scanning" /\ \E c : Send(c)
        /\ UNCHANGED <<watching, lifecycle, quitAfterCancel, scanner, scanComplete, screen,
                       returnToResults>>
    BY <1>11 DEF PauseResume, IsolateTarget, StopKeepResults, Chosen, On
  <2>2. watching \/ controls = <<>>
    BY <2>1 DEF Press, At, Stoppable
  <2>. QED
    BY <2>1, <2>2, SendFact DEF Press, At, Stoppable
<1>12. CASE CustomizeScan
  <2>1. /\ Press /\ screen = "Scanning" /\ UNCHANGED <<watching, lifecycle, quitAfterCancel,
                                                       scanner, scanComplete>>
        /\ \/ UNCHANGED controls /\ screen' = "Wizard" /\ scanComplete
           \/ (\E c : Send(c)) /\ UNCHANGED <<screen, returnToResults>>
    BY <1>12 DEF CustomizeScan, Chosen, On, Customization, Idle, Buttons
  <2>2. watching \/ controls = <<>>
    BY <2>1 DEF Press, At, Stoppable
  <2>. QED
    BY <2>1, <2>2, SendFact DEF Press, At, Stoppable
<1>13. CASE RerunSelected \/ ConfirmRerun \/ AskRerun \/ DismissDialog \/ AskQuit
  <2>1. Press /\ UNCHANGED <<watching, lifecycle, controls, quitAfterCancel, scanner,
                             scanComplete, screen, returnToResults>>
    BY <1>13 DEF RerunSelected, ConfirmRerun, AskRerun, DismissDialog, AskQuit, Rescan, Chosen, On
  <2>. QED
    BY <2>1 DEF Press, At, Stoppable
<1>14. CASE OpenTests
  BY <1>14 DEF OpenTests, Chosen, On, Press, At, Stoppable
<1>15. CASE AskSpeed \/ ConfirmSpeed \/ AskFragment \/ Review \/ StartFromWizard \/ QuitNow
  <2>1. Press /\ UNCHANGED <<watching, lifecycle, controls, quitAfterCancel, scanner,
                             scanComplete, screen, returnToResults>>
    BY <1>15 DEF AskSpeed, ConfirmSpeed, AskFragment, Review, StartFromWizard, QuitNow, Chosen, On
  <2>. QED
    BY <2>1 DEF Press, At, Stoppable
<1>16. CASE LeaveScreen
  BY <1>16 DEF LeaveScreen, On, Press, At, Stoppable
<1>17. CASE StopFragmentTest
  BY <1>17 DEF StopFragmentTest, On, Press, At, Stoppable
<1>18. CASE \/ EndInvestigation \/ EndSpeed \/ EndFragment \/ PreviewDone \/ WatchTimer \/ Gone
            \/ UNCHANGED vars
  BY <1>18, StopFrame DEF EndInvestigation, EndSpeed, EndFragment, PreviewDone, WatchTimer, Gone,
     vars, stopVars
<1>19. CASE \E r \in Runs : ThreadStep(r)
  BY <1>19, ThreadFact, StopFrame DEF IInv, stopVars
<1>. QED
  BY <1>1, <1>2, <1>3, <1>4, <1>5, <1>6, <1>7, <1>8, <1>9, <1>10, <1>11, <1>12, <1>13, <1>14,
     <1>15, <1>16, <1>17, <1>18, <1>19 DEF Next, Loop, Key

(* A stop always has the end of a scan thread to wait for: while the keys  *)
(* are dropped (handle_key) a handle is held whose join ends the state.    *)
THEOREM StopNeverWedgesHolds == Spec => []StopNeverWedges
<1>1. Init => Stoppable
  BY DEF Init, Stoppable
<1>2. Stoppable => StopNeverWedges
  BY DEF Stoppable, StopNeverWedges
<1>. QED
  BY <1>1, <1>2, Invariance, StoppableStep, PTL DEF Spec
=============================================================================
