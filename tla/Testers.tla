------------------------------ MODULE Testers ------------------------------
(***************************************************************************)
(* The two testers of the dashboard in one session: they share its screen  *)
(* and the keys that quit; a watch mode relaunches the scan under them.    *)
(* The scan itself is ScanSession's.                                       *)
(***************************************************************************)
EXTENDS SpeedTester

CONSTANT
  Watch  \* the session relaunches its scan by itself

testersVars == <<screen, quitAfter, fragmentTest, speedTest>>

Quit ==
  /\ Polled /\ ~confirming /\ screen \notin {"gone", "speed testing"}
  /\ IF screen = "testing" THEN cancel' = TRUE /\ quitAfter' = TRUE /\ UNCHANGED screen
                           ELSE screen' = "gone" /\ UNCHANGED flags
  /\ UNCHANGED <<presets, form, results, thread, taken, connection, speedTest>>

\* begin_scan of the next watch cycle: a test goes on without its screen; bound:
\* every cycle has the same rows
Relaunch ==
  /\ Polled /\ Watch /\ screen \notin {"scanning", "gone"}
  /\ screen' = "scanning" /\ taken' = (taken \/ screen = "testing")
  /\ speedTaken' = (speedTaken \/ screen = "speed testing" \/ confirming)
  /\ UNCHANGED <<presets, form, results, flags, thread, connection, table,
                 speedForm, dialog, speedResults, speedRun, speedThread>>

\* the loop has ended: the speed test is cancelled and joined, then the other
LeaveSpeed ==
  /\ screen = "gone" /\ (~stopped \/ speed.status = "ended")
  /\ stopped' = TRUE
  /\ speed' = IF speed.status = "ended" THEN NoSpeed ELSE speed
  /\ UNCHANGED <<screen, quitAfter, fragmentTest, table, speedForm, dialog, speedResults,
                 lifecycle, speedChannel, speedTests, asked, speedTaken>>

Leave ==
  /\ screen = "gone" /\ stopped /\ speed.status = "none"
  /\ ~cancel \/ runner.status = "ended"
  /\ cancel' = TRUE
  /\ runner' = IF runner.status = "ended" THEN None ELSE runner
  /\ UNCHANGED <<screen, presets, form, results, quitAfter, channel, tests, taken, connection,
                 speedTest>>

-----------------------------------------------------------------------------
TestersInit ==
  /\ screen = "scanning" /\ quitAfter = FALSE /\ FragmentInit /\ SpeedInit
  /\ presets # <<>> => good = {} /\ ~stopped

\* bound: a session tests bandwidth or, if it has profiles, fragments
Fragment == presets # <<>> /\ FragmentStep /\ UNCHANGED speedTest
Speed == presets = <<>> /\ SpeedStep /\ UNCHANGED fragmentTest
TestersNext == Fragment \/ Speed \/ Quit \/ Relaunch \/ LeaveSpeed \/ Leave

\* the threads run and the loop comes round; peers need not answer
Fairness ==
  /\ WF_testersVars(TryNext /\ UNCHANGED speedTest) /\ WF_testersVars(Abort /\ UNCHANGED speedTest)
  /\ WF_testersVars(Join /\ UNCHANGED speedTest)
  /\ WF_testersVars(AbortAll /\ UNCHANGED <<screen, quitAfter, fragmentTest>>)
  /\ WF_testersVars(JoinSpeed /\ UNCHANGED fragmentTest)
  /\ WF_testersVars(LeaveSpeed) /\ WF_testersVars(Leave)

TestersSpec == TestersInit /\ [][TestersNext]_testersVars
FairSpec == TestersSpec /\ Fairness

-----------------------------------------------------------------------------
(* Properties.                                                             *)

\* Esc or q ends a test, also when the peer never answers.
Cancelling == (screen = "testing" /\ cancel) \/ (screen = "speed testing" /\ stopped)
CancelResolves == Cancelling ~> ~Cancelling

\* When the session has ended, so have the threads of its tests, also those
\* that a relaunch has left without a screen.
LeavesNone ==
  (screen = "gone") ~> (runner.status = "none" /\ speed.status = "none")
=============================================================================
