---------------------------- MODULE ScanSession ----------------------------
(***************************************************************************)
(* The session of the terminal interface (tui/run.rs, tui/mod.rs): one     *)
(* thread runs the event loop of run_tui; every scan, isolated             *)
(* investigation, speed test and fragment test runs in a thread of its     *)
(* own.  They share three flags (cancel, paused and the fragment cancel)   *)
(* and send their results back through channels.  One pass of the loop is  *)
(* the sequence of steps of `pc`; the other threads move between any two   *)
(* of them.  Keys are the actions of step "input", at most one per pass.   *)
(***************************************************************************)
EXTENDS Naturals, Sequences, FiniteSets

CONSTANTS
  Targets,    \* the addresses that can be scanned
  MaxRuns,    \* bound: scans started in one session
  WatchRuns,  \* bound: and in one with --watch
  MaxTests,   \* bound: investigations, speed and fragment tests started
  Lossy,      \* snapshots may be missing: the bounded progress channel is full,
              \* or a thread panics before it sends its last one
  WatchModes, \* may the session be started with --watch, without it, or both
  NoTarget    \* no address (a model value)

ASSUME SessionAssumption ==
  /\ IsFiniteSet(Targets) /\ Targets # {} /\ NoTarget \notin Targets
  /\ MaxRuns \in Nat \ {0} /\ WatchRuns \in 1..MaxRuns /\ MaxTests \in Nat
  /\ Lossy \in BOOLEAN /\ WatchModes \subseteq BOOLEAN

Runs == 1..MaxRuns
Keep == SUBSET Targets      \* a set of targets to scan again
NoRescan == {NoTarget}      \* rescan_targets = None

VARIABLES
  pc,            \* the next step of the event loop
  \* flags shared with the threads
  cancel, paused, fragmentCancel,
  \* scan threads: those of run r, and the handle the loop holds
  thread,        \* [Runs -> what the thread of the run does]
  scanner,       \* the run whose thread the handle joins, 0 for None
  rx,            \* results sent and not yet received: <<run, target>>
  feed,          \* the newest snapshot waiting in the progress channel
  \* the App
  lifecycle, scanComplete, screen, modal, rows, lastTargets, activeKind,
  currentRun, activeShown, pendingStart, pendingKind, rescan, controls,
  quitAfterCancel, editAfterStop, shouldQuit, returnToResults,
  pendingIsolation, investigation,
  pendingSpeed, speed, pendingFragment, fragment, tests, previewPending,
  overrun,       \* history: a rerun was confirmed with a scan begun meanwhile
  \* watch mode
  watching, watchDue

flags  == <<cancel, paused, fragmentCancel>>
work   == <<thread, rx, feed>>
scan   == <<scanner, lifecycle, scanComplete, rows, lastTargets, activeKind,
            currentRun, activeShown>>
wanted == <<pendingStart, pendingKind, rescan, controls, previewPending, overrun>>
exits  == <<quitAfterCancel, editAfterStop, shouldQuit>>
view   == <<screen, modal, returnToResults>>
iso    == <<pendingIsolation, investigation>>
trials == <<pendingSpeed, speed, pendingFragment, fragment>>
watch  == <<watching, watchDue>>
vars   == <<pc, flags, work, scan, wanted, exits, view, iso, trials, tests, watch>>

-----------------------------------------------------------------------------
(* Threads.  A scan thread reads the pause flag (armed), launches probes   *)
(* (busy), and reports its targets one by one; `goal` is the target list   *)
(* it returns.  A trial is a speed or fragment test thread.                *)

Thread == [st: {"unborn", "running", "ended"}, goal: Keep, todo: Keep,
           armed: BOOLEAN, busy: BOOLEAN, ok: BOOLEAN]
Unborn == [st |-> "unborn", goal |-> {}, todo |-> {}, armed |-> FALSE,
           busy |-> FALSE, ok |-> TRUE]
Born(S) == [Unborn EXCEPT !.st = "running", !.goal = S, !.todo = S]

NoInvestigation == [target |-> NoTarget, source |-> 0, cancel |-> FALSE, ended |-> FALSE]
Trial == {"none", "running", "ended"}

\* try_send on the bounded channel: a full channel, hence one with a snapshot
\* in it, drops the new one
Emit(active) == \/ feed' = active
                \/ Lossy /\ feed # "none" /\ UNCHANGED feed
Active(b) == IF b THEN "active" ELSE "idle"

Running(r) == thread[r].st = "running"

ReadPaused(r) ==
  /\ Running(r) /\ ~thread[r].armed /\ ~thread[r].busy
  /\ ~paused /\ ~cancel /\ thread[r].todo # {}
  /\ thread' = [thread EXCEPT ![r].armed = TRUE]
  /\ UNCHANGED <<pc, flags, rx, feed, scan, wanted, exits, view, iso, trials, tests, watch>>

LaunchProbes(r) ==
  /\ Running(r) /\ thread[r].armed
  /\ thread' = [thread EXCEPT ![r].armed = FALSE, ![r].busy = TRUE]
  /\ Emit("active")
  /\ UNCHANGED <<pc, flags, rx, scan, wanted, exits, view, iso, trials, tests, watch>>

\* the probes in flight complete, for now without a finished target
DrainProbes(r) ==
  /\ Running(r) /\ thread[r].busy
  /\ thread' = [thread EXCEPT ![r].busy = FALSE]
  /\ Emit("idle")
  /\ UNCHANGED <<pc, flags, rx, scan, wanted, exits, view, iso, trials, tests, watch>>

FinishTarget(r, t) ==
  /\ Running(r) /\ thread[r].busy /\ t \in thread[r].todo
  /\ \E still \in IF thread[r].todo = {t} THEN {FALSE} ELSE BOOLEAN :
       /\ thread' = [thread EXCEPT ![r].todo = @ \ {t}, ![r].busy = still]
       /\ Emit(Active(still))
  /\ rx' = rx \cup {<<r, t>>}
  /\ UNCHANGED <<pc, flags, scan, wanted, exits, view, iso, trials, tests, watch>>

\* with nothing in flight a scan may be at its end: all it can probe is done
\* (what ScanPromise calls lost is left in `todo`), or it was resumed between
\* two reads of the pause flag; and the cancel flag stops it
MayEnd(r) == cancel \/ ~thread[r].busy

Ended(r) == [thread[r] EXCEPT !.st = "ended", !.armed = FALSE, !.busy = FALSE]

EndScan(r) ==
  /\ Running(r) /\ MayEnd(r)
  /\ thread' = [thread EXCEPT ![r] = Ended(r)]
  /\ Emit("idle")
  /\ UNCHANGED <<pc, flags, rx, scan, wanted, exits, view, iso, trials, tests, watch>>

\* an error ends the scan between probes, a panic at any point
FailScan(r) ==
  /\ Running(r) /\ (thread[r].busy => Lossy)
  /\ thread' = [thread EXCEPT ![r] = [Ended(r) EXCEPT !.ok = FALSE]]
  /\ UNCHANGED <<pc, flags, rx, feed, scan, wanted, exits, view, iso, trials, tests, watch>>

EndInvestigation ==
  /\ investigation # NoInvestigation /\ ~investigation.ended
  /\ investigation' = [investigation EXCEPT !.ended = TRUE]
  /\ UNCHANGED <<pc, flags, work, scan, wanted, exits, view, pendingIsolation, trials, tests,
                 watch>>

EndSpeed ==
  /\ speed = "running" /\ speed' = "ended"
  /\ UNCHANGED <<pc, flags, work, scan, wanted, exits, view, iso, pendingSpeed,
                 pendingFragment, fragment, tests, watch>>

EndFragment ==
  /\ fragment = "running" /\ fragment' = "ended"
  /\ UNCHANGED <<pc, flags, work, scan, wanted, exits, view, iso, pendingSpeed, speed,
                 pendingFragment, tests, watch>>

WatchTimer ==
  /\ watchDue = "armed" /\ watchDue' = "due"
  /\ UNCHANGED <<pc, flags, work, scan, wanted, exits, view, iso, trials, tests, watching>>

-----------------------------------------------------------------------------
(* The event loop.                                                         *)

At(step, next) == pc = step /\ pc' = next

\* add_result: the newest row of an address replaces the one shown
Received == [t \in Targets |->
               LET sent == {m[1] : m \in {n \in rx : n[2] = t}}
               IN IF sent = {} THEN rows[t] ELSE CHOOSE r \in sent : \A q \in sent : q <= r]

ResumeAllowed_Always == TRUE
ResumeAllowed == investigation = NoInvestigation

StopsScan_Always == TRUE
StopsScan == ~scanComplete

\* apply_runtime_control
Control ==
  /\ pc = "control" /\ controls # <<>>
  /\ controls' = Tail(controls)
  /\ CASE Head(controls).op = "pause" ->
            /\ paused' = TRUE /\ lifecycle' = "Paused"
            /\ UNCHANGED <<cancel, quitAfterCancel, pendingIsolation, investigation>>
       [] Head(controls).op = "resume" ->
            IF ~ResumeAllowed
            THEN UNCHANGED <<cancel, paused, lifecycle, quitAfterCancel, pendingIsolation,
                             investigation>>
            ELSE /\ pendingIsolation' = NoTarget /\ paused' = FALSE
                 /\ lifecycle' = IF scanComplete THEN lifecycle ELSE "Running"
                 /\ UNCHANGED <<cancel, quitAfterCancel, investigation>>
       [] Head(controls).op = "isolate" ->
            IF investigation # NoInvestigation \/ pendingIsolation # NoTarget
            THEN UNCHANGED <<cancel, paused, lifecycle, quitAfterCancel, pendingIsolation,
                             investigation>>
            ELSE /\ paused' = TRUE /\ pendingIsolation' = Head(controls).target
                 /\ lifecycle' = IF scanComplete THEN lifecycle ELSE "Paused"
                 /\ UNCHANGED <<cancel, quitAfterCancel, investigation>>
       [] OTHER ->   \* stop
            /\ quitAfterCancel' = FALSE /\ pendingIsolation' = NoTarget
            /\ investigation' = IF investigation = NoInvestigation THEN investigation
                                ELSE [investigation EXCEPT !.cancel = TRUE]
            /\ IF StopsScan THEN cancel' = TRUE /\ lifecycle' = "Cancelling"
                            ELSE UNCHANGED <<cancel, lifecycle>>
            /\ UNCHANGED paused
  /\ UNCHANGED <<pc, fragmentCancel, work, scanner, scanComplete, rows, lastTargets, activeKind,
                 currentRun, activeShown, pendingStart, pendingKind, rescan, previewPending, overrun, editAfterStop,
                 shouldQuit, view, trials, tests, watch>>

\* the channels are emptied once every queued control is applied
Receive ==
  /\ controls = <<>> /\ At("control", "isolate")
  /\ rows' = Received /\ rx' = {}
  /\ activeShown' = IF feed = "none" THEN activeShown ELSE feed = "active"
  /\ feed' = "none"
  /\ UNCHANGED <<flags, thread, scanner, lifecycle, scanComplete, lastTargets, activeKind,
                 currentRun, wanted, exits, view, iso, trials, tests, watch>>

\* the isolated investigation starts once no probe is shown in flight
Isolate ==
  /\ At("isolate", "investigator")
  /\ IF /\ pendingIsolation # NoTarget /\ investigation = NoInvestigation
        /\ ~activeShown
     THEN /\ investigation' = [target |-> pendingIsolation, source |-> currentRun,
                               cancel |-> FALSE, ended |-> FALSE]
          /\ pendingIsolation' = NoTarget
     ELSE UNCHANGED iso
  /\ UNCHANGED <<flags, work, scan, wanted, exits, view, trials, tests, watch>>

Customization == screen' = "Wizard" /\ returnToResults' = TRUE

JoinInvestigator ==
  /\ At("investigator", "scanner")
  /\ IF investigation # NoInvestigation /\ investigation.ended
     THEN /\ investigation' = NoInvestigation
          /\ IF quitAfterCancel
             THEN shouldQuit' = TRUE /\ UNCHANGED <<editAfterStop, screen, returnToResults>>
             ELSE IF editAfterStop /\ scanComplete
                  THEN editAfterStop' = FALSE /\ Customization /\ UNCHANGED shouldQuit
                  ELSE UNCHANGED <<editAfterStop, screen, returnToResults, shouldQuit>>
     ELSE UNCHANGED <<investigation, exits, screen, returnToResults>>
  /\ UNCHANGED <<flags, work, scan, wanted, quitAfterCancel, modal, pendingIsolation, trials,
                 tests, watch>>

\* resolve_terminal_lifecycle
Resolved_Ignored(outcome) == outcome
Resolved_Stays(outcome) == IF lifecycle = "Cancelling" THEN "Cancelling" ELSE outcome
Resolved(outcome) == IF lifecycle = "Cancelling" THEN "Cancelled" ELSE outcome

\* the next watch cycle, after a run that was not cancelled
NextCycle(outcome, targets) ==
  IF outcome # "Cancelled" /\ watching /\ targets # {} THEN "armed" ELSE watchDue

ScanEnded == ~scanComplete /\ scanner # 0 /\ thread[scanner].st = "ended"

\* the channels are emptied once more before the thread is joined
JoinScanner ==
  /\ At("scanner", "relaunch")
  /\ IF ScanEnded
     THEN /\ rows' = Received /\ rx' = {}
          /\ activeShown' = IF feed = "none" THEN activeShown ELSE feed = "active"
          /\ feed' = "none"
          /\ scanner' = 0 /\ scanComplete' = TRUE
          /\ lastTargets' = IF thread[scanner].ok THEN thread[scanner].goal ELSE lastTargets
          /\ lifecycle' = Resolved(IF thread[scanner].ok THEN "Completed" ELSE "Failed")
          /\ IF lifecycle' = "Cancelled" /\ quitAfterCancel
             THEN shouldQuit' = TRUE /\ UNCHANGED <<editAfterStop, screen, returnToResults>>
             ELSE IF lifecycle' = "Cancelled" /\ editAfterStop /\ investigation = NoInvestigation
                  THEN editAfterStop' = FALSE /\ Customization /\ UNCHANGED shouldQuit
                  ELSE UNCHANGED <<editAfterStop, screen, returnToResults, shouldQuit>>
          /\ watchDue' = NextCycle(lifecycle', lastTargets')
     ELSE UNCHANGED <<rx, feed, scanner, rows, activeShown, scanComplete, lastTargets, lifecycle,
                      editAfterStop, shouldQuit, screen, returnToResults, watchDue>>
  /\ UNCHANGED <<flags, thread, activeKind, currentRun, wanted, quitAfterCancel, modal, iso,
                 trials, tests, watching>>

\* watch_relaunch_ready
RelaunchReady == /\ watchDue = "due" /\ pendingIsolation = NoTarget
                 /\ investigation = NoInvestigation /\ ~paused
                 /\ currentRun < WatchRuns   \* bound

Relaunch ==
  /\ At("relaunch", "tests")
  /\ IF RelaunchReady
     THEN /\ rows' = [t \in Targets |-> 0] /\ scanComplete' = FALSE /\ watchDue' = "off"
          /\ rescan' = lastTargets /\ pendingStart' = TRUE
     ELSE UNCHANGED <<rows, scanComplete, watchDue, rescan, pendingStart>>
  /\ UNCHANGED <<flags, work, scanner, lifecycle, lastTargets, activeKind, currentRun,
                 activeShown, pendingKind, controls, previewPending, overrun, exits, view, iso, trials, tests, watching>>

\* a test thread is joined while its own screen is shown
JoinTest ==
  /\ At("tests", "input")
  /\ \/ /\ screen = "SpeedTesting" /\ speed = "ended"
        /\ speed' = "none" /\ screen' = "SpeedResults"
        /\ \E outcome \in {"Completed", "Failed"} : lifecycle' = Resolved(outcome)
        /\ shouldQuit' = (shouldQuit \/ lifecycle' = "Cancelled")
        /\ UNCHANGED fragment
     \/ /\ screen = "FragmentTesting" /\ fragment = "ended"
        /\ fragment' = "none" /\ screen' = "FragmentResults"
        /\ shouldQuit' = (shouldQuit \/ (fragmentCancel /\ quitAfterCancel))
        /\ UNCHANGED <<speed, lifecycle>>
     \/ /\ ~(screen = "SpeedTesting" /\ speed = "ended")
        /\ ~(screen = "FragmentTesting" /\ fragment = "ended")
        /\ UNCHANGED <<speed, fragment, screen, lifecycle, shouldQuit>>
  /\ UNCHANGED <<flags, work, scanner, scanComplete, rows, lastTargets, activeKind, currentRun,
                 activeShown, wanted, quitAfterCancel, editAfterStop, modal, returnToResults,
                 iso, pendingSpeed, pendingFragment, tests, watch>>

-----------------------------------------------------------------------------
(* Keys.  handle_key ignores every key while a cancel is being carried     *)
(* out; an open dialog takes them all.                                     *)

Press == At("input", "launch") /\ lifecycle # "Cancelling"
On(s) == Press /\ modal = "none" /\ screen = s
Send(c) == controls' = Append(controls, c)
Op(o) == [op |-> o, target |-> NoTarget]
Investigating == investigation # NoInvestigation \/ pendingIsolation # NoTarget
Idle_Running == ~Investigating
Idle == scanComplete /\ ~Investigating

MayStart == currentRun < IF watching THEN WatchRuns ELSE MaxRuns   \* bound
MayTest == tests < MaxTests               \* bound
Shown == {t \in Targets : rows[t] # 0} \cup lastTargets

\* what the scan screen offers by key, by the button that has the focus (1 is
\* the first), by mouse and in the command palette
Keys == {"isolate", "customize", "pause", "quit"}
        \cup (IF Idle THEN {} ELSE {"stop"})
        \cup (IF scanComplete THEN {"rerun", "repeat", "sample", "retest", "speed",
                                   "fragment", "profiles"} ELSE {})
Focused == IF ~scanComplete THEN <<"pause", "stop", "quit">>
           ELSE (IF Investigating THEN <<"pause", "stop">> ELSE <<"export", "speed">>)
                \o <<"fragment", "customize", "quit">>
Buttons == {"quit"} \cup IF ~scanComplete THEN {"pause", "stop"}
                         ELSE IF Investigating THEN {"pause", "stop", "customize"}
                              ELSE {"speed", "fragment", "customize"}

\* action_available
Palette ==
  CASE screen = "Scanning" /\ scanComplete ->
         {"quit", "speed", "fragment", "profiles", "repeat", "sample", "retest", "customize",
          "rerun", "isolate"} \cup (IF Investigating THEN {"pause", "stop"} ELSE {})
    [] screen = "Scanning" /\ ~scanComplete -> {"quit", "pause", "isolate", "stop", "customize"}
    [] screen \in {"SpeedTesting", "FragmentTesting"} -> {"quit"}
    [] OTHER -> {"quit", "back", "start"}

Chosen(a) ==
  /\ On("Scanning")
  /\ a \in Keys \cup Buttons \cup Palette \/ \E i \in DOMAIN Focused : Focused[i] = a

NoKey ==
  /\ At("input", "launch")
  /\ UNCHANGED <<flags, work, scan, wanted, exits, view, iso, trials, tests, watch>>

\* request_cancel
RequestCancel ==
  LET primary == lifecycle \in {"Running", "Paused"}
  IN IF primary \/ Investigating
     THEN /\ cancel' = (cancel \/ primary)
          /\ investigation' = IF investigation = NoInvestigation THEN investigation
                              ELSE [investigation EXCEPT !.cancel = TRUE]
          /\ pendingIsolation' = NoTarget
          /\ quitAfterCancel' = TRUE
          /\ lifecycle' = IF primary THEN "Cancelling" ELSE lifecycle
          /\ UNCHANGED shouldQuit
     ELSE shouldQuit' = TRUE /\ UNCHANGED <<cancel, lifecycle, iso, quitAfterCancel>>

ConfirmQuit ==
  /\ Press /\ modal = "quit" /\ modal' = "none"
  /\ RequestCancel
  /\ UNCHANGED <<paused, fragmentCancel, work, scanner, scanComplete, rows, lastTargets,
                 activeKind, currentRun, activeShown, wanted, editAfterStop, screen,
                 returnToResults, trials, tests, watch>>

DismissDialog ==
  /\ Press /\ modal # "none" /\ modal' = "none"
  /\ UNCHANGED <<flags, work, scan, wanted, exits, screen, returnToResults, iso, trials, tests,
                 watch>>

\* q: what it does depends on the screen
AskQuit ==
  /\ Chosen("quit") /\ ~Idle
  /\ modal' = "quit"
  /\ UNCHANGED <<flags, work, scan, wanted, exits, screen, returnToResults, iso, trials, tests,
                 watch>>

QuitNow ==
  /\ \/ Chosen("quit") /\ Idle
     \/ On("Wizard") /\ ~returnToResults
     \/ \E s \in {"SpeedSelect", "SpeedResults", "FragmentSelect", "FragmentResults"} : On(s)
     \/ (On("SpeedTesting") \/ On("FragmentTesting")) /\ "quit" \in Palette
  /\ shouldQuit' = TRUE
  /\ UNCHANGED <<flags, work, scan, wanted, quitAfterCancel, editAfterStop, view, iso, trials,
                 tests, watch>>

QuitSpeedTest ==
  /\ On("SpeedTesting")
  /\ RequestCancel
  /\ UNCHANGED <<paused, fragmentCancel, work, scanner, scanComplete, rows, lastTargets,
                 activeKind, currentRun, activeShown, wanted, editAfterStop, view, trials,
                 tests, watch>>

\* q quits after the test, Esc only stops it
StopFragmentTest ==
  /\ On("FragmentTesting")
  /\ fragmentCancel' = TRUE
  /\ quitAfterCancel' \in {quitAfterCancel, TRUE}
  /\ UNCHANGED <<cancel, paused, work, scan, wanted, editAfterStop, shouldQuit, view, iso,
                 trials, tests, watch>>

PauseResume ==
  /\ Chosen("pause")
  /\ Send(Op(IF paused THEN "resume" ELSE "pause"))
  /\ UNCHANGED <<flags, work, scan, pendingStart, pendingKind, rescan, previewPending, overrun, exits,
                 view, iso, trials, tests, watch>>

IsolateTarget ==
  /\ Chosen("isolate") /\ MayTest
  /\ \E t \in Shown : Send([op |-> "isolate", target |-> t])
  /\ tests' = tests + 1
  /\ UNCHANGED <<flags, work, scan, pendingStart, pendingKind, rescan, previewPending, overrun, exits,
                 view, iso, trials, watch>>

StopKeepResults ==
  /\ Chosen("stop")
  /\ Send(Op("stop"))
  /\ UNCHANGED <<flags, work, scan, pendingStart, pendingKind, rescan, previewPending, overrun, exits,
                 view, iso, trials, tests, watch>>

CustomizeScan ==
  /\ Chosen("customize")
  /\ \/ Idle /\ Customization /\ UNCHANGED <<editAfterStop, controls>>
     \/ /\ ~Idle
        /\ editAfterStop' = TRUE /\ Send(Op("stop")) /\ UNCHANGED <<screen, returnToResults>>
     \/ \* the button does not wait for an investigation
        "customize" \in Buttons /\ Customization /\ UNCHANGED <<editAfterStop, controls>>
  /\ UNCHANGED <<flags, work, scan, pendingStart, pendingKind, rescan, previewPending, overrun,
                 quitAfterCancel, shouldQuit, modal, iso, trials, tests, watch>>

\* ask for another run of the targets S
Rescan(kind, S) ==
  /\ pendingKind' = kind /\ rescan' = S /\ pendingStart' = TRUE
  /\ overrun' = (overrun \/ ~scanComplete)
  /\ UNCHANGED <<flags, work, scan, controls, previewPending, exits, screen, returnToResults, iso,
                 trials, tests, watch>>

RerunSelected ==
  /\ Chosen("rerun") /\ Idle /\ MayStart
  /\ \E S \in SUBSET Shown \ {{}} : Rescan("targeted", S)
  /\ UNCHANGED modal

AskRerun ==
  /\ Idle /\ MayStart
  /\ \E a \in {"repeat", "sample", "retest"} : Chosen(a) /\ modal' = a
  /\ modal' = "retest" => \E t \in Targets : rows[t] # 0
  /\ UNCHANGED <<flags, work, scan, wanted, exits, screen, returnToResults, iso, trials, tests,
                 watch>>

ConfirmRerun ==
  /\ Press /\ MayStart /\ modal' = "none"
  /\ \/ modal = "repeat" /\ lastTargets # {} /\ Rescan("full", lastTargets)
     \/ modal = "sample" /\ \E S \in Keep \ {{}} : Rescan("full", S)
     \/ /\ modal = "retest"
        /\ \E S \in SUBSET {t \in Targets : rows[t] # 0} \ {{}} : Rescan("targeted", S)

OpenTests ==
  /\ scanComplete /\ MayTest
  /\ \/ Chosen("speed") /\ screen' = "SpeedSelect" /\ UNCHANGED <<fragmentCancel,
                                                                  quitAfterCancel, pendingFragment>>
     \/ /\ Chosen("profiles") /\ screen' = "FragmentSelect"
        /\ fragmentCancel' = FALSE /\ quitAfterCancel' = FALSE /\ UNCHANGED pendingFragment
     \/ /\ Chosen("fragment") /\ screen' = "FragmentTesting" /\ \E t \in Targets : rows[t] # 0
        /\ fragmentCancel' = FALSE /\ quitAfterCancel' = FALSE /\ pendingFragment' = TRUE
  /\ tests' = tests + 1
  /\ UNCHANGED <<cancel, paused, work, scan, wanted, editAfterStop, shouldQuit, modal,
                 returnToResults, iso, pendingSpeed, speed, fragment, watch>>

AskSpeed ==
  /\ On("SpeedSelect") /\ modal' = "speed"
  /\ UNCHANGED <<flags, work, scan, wanted, exits, screen, returnToResults, iso, trials, tests,
                 watch>>

ConfirmSpeed ==
  /\ Press /\ modal = "speed" /\ modal' = "none"
  /\ pendingSpeed' = TRUE
  /\ UNCHANGED <<flags, work, scan, wanted, exits, screen, returnToResults, iso, speed,
                 pendingFragment, fragment, tests, watch>>

AskFragment ==
  /\ On("FragmentSelect") /\ pendingFragment' = TRUE
  /\ UNCHANGED <<flags, work, scan, wanted, exits, view, iso, pendingSpeed, speed, fragment,
                 tests, watch>>

LeaveScreen ==
  /\ \/ \E s \in {"SpeedSelect", "SpeedResults", "FragmentSelect", "FragmentResults"} : On(s)
     \/ On("Wizard") /\ returnToResults
  /\ screen' = "Scanning"
  /\ returnToResults' = IF screen = "Wizard" THEN FALSE ELSE returnToResults
  /\ UNCHANGED <<flags, work, scan, wanted, exits, modal, iso, trials, tests, watch>>

\* the review step of the wizard samples the targets in a thread of its own
Review ==
  /\ On("Wizard") /\ ~previewPending /\ previewPending' = TRUE
  /\ UNCHANGED <<flags, work, scan, pendingStart, pendingKind, rescan, controls, overrun, exits, view, iso,
                 trials, tests, watch>>

PreviewDone ==
  /\ pc = "input" /\ previewPending /\ previewPending' = FALSE
  /\ UNCHANGED <<pc, flags, work, scan, pendingStart, pendingKind, rescan, controls, overrun, exits, view,
                 iso, trials, tests, watch>>

StartFromWizard ==
  /\ On("Wizard") /\ MayStart
  /\ pendingKind' = "full" /\ pendingStart' = TRUE
  /\ UNCHANGED <<flags, work, scan, rescan, controls, previewPending, overrun, exits, view, iso, trials,
                 tests, watch>>

-----------------------------------------------------------------------------
(* The end of a pass: quit, or start what the keys asked for.              *)

Quit ==
  /\ shouldQuit /\ At("launch", "leaving")
  /\ cancel' = TRUE /\ fragmentCancel' = TRUE
  /\ UNCHANGED <<paused, work, scan, wanted, exits, view, iso, trials, tests, watch>>

Kept_All == rows
Kept == IF pendingKind = "targeted" THEN rows ELSE [t \in Targets |-> 0]

\* begin_scan; what an earlier thread left was taken over when it was joined
BeginScan(S, listed) ==
  LET r == currentRun + 1
  IN /\ thread' = [q \in Runs |-> IF q = r THEN Born(S)
                                 ELSE IF Running(q) THEN thread[q] ELSE Unborn]
     /\ scanner' = r /\ currentRun' = r
     /\ lastTargets' = listed
     /\ activeKind' = pendingKind /\ pendingKind' = "full"
     /\ rows' = Kept
     /\ activeShown' = FALSE
     /\ pendingIsolation' = NoTarget /\ investigation' = NoInvestigation
     /\ scanComplete' = FALSE /\ lifecycle' = "Running"
     /\ quitAfterCancel' = FALSE /\ editAfterStop' = FALSE
     /\ screen' = "Scanning" /\ returnToResults' = FALSE

\* start_wizard_scan: the exact targets of a rerun, or what the wizard
\* selects; a discovery sweep lists its targets only when it ends
StartScan ==
  /\ ~shouldQuit /\ At("launch", "startTests")
  /\ IF pendingStart /\ ~Investigating
     THEN /\ pendingStart' = FALSE /\ rescan' = NoRescan
          /\ \/ /\ rescan # NoRescan /\ ~previewPending
                /\ BeginScan(rescan, rescan)
             \/ /\ rescan = NoRescan /\ ~previewPending
                /\ \E S \in Keep : BeginScan(S, S)
             \/ /\ rescan = NoRescan
                /\ \E S \in Keep : BeginScan(S, {})
             \/ /\ rescan = NoRescan \/ previewPending     \* refused
                /\ UNCHANGED <<thread, scan, pendingKind, iso, quitAfterCancel, editAfterStop,
                               screen, returnToResults>>
     ELSE UNCHANGED <<thread, scan, pendingStart, pendingKind, rescan, iso, quitAfterCancel,
                      editAfterStop, screen, returnToResults>>
  /\ UNCHANGED <<flags, rx, feed, controls, previewPending, overrun, shouldQuit, modal, trials,
                 tests, watch>>

StartTests ==
  /\ At("startTests", "control")
  /\ IF pendingSpeed /\ screen = "SpeedSelect" /\ speed = "none"
     THEN pendingSpeed' = FALSE /\ lifecycle' = "Running" /\ speed' = "running"
     ELSE UNCHANGED <<pendingSpeed, lifecycle, speed>>
  /\ pendingFragment' = FALSE
  /\ IF /\ pendingFragment /\ screen \in {"FragmentSelect", "FragmentTesting"}
        /\ fragment = "none"
     THEN fragmentCancel' = FALSE /\ fragment' = "running"
     ELSE UNCHANGED <<fragmentCancel, fragment>>
  /\ screen' = IF speed' # speed THEN "SpeedTesting"
               ELSE IF fragment' # fragment THEN "FragmentTesting" ELSE screen
  /\ UNCHANGED <<cancel, paused, work, scanner, scanComplete, rows, lastTargets, activeKind,
                 currentRun, activeShown, wanted, exits, modal, returnToResults, iso, tests, watch>>

\* after the loop: stop every thread and join the ones it has handles of
Leave ==
  /\ pc = "leaving"
  /\ scanner # 0 => thread[scanner].st = "ended"
  /\ speed # "running" /\ fragment # "running"
  /\ investigation # NoInvestigation => investigation.ended
  /\ pc' = "gone"
  /\ UNCHANGED <<flags, work, scan, wanted, exits, view, iso, trials, tests, watch>>

Gone == pc = "gone" /\ UNCHANGED vars

-----------------------------------------------------------------------------
Init ==
  /\ pc = "control" /\ watching \in WatchModes /\ watchDue = "off"
  /\ cancel = FALSE /\ paused = FALSE /\ fragmentCancel = FALSE
  /\ rx = {} /\ feed = "none" /\ rows = [t \in Targets |-> 0]
  /\ lifecycle = "Running" /\ scanComplete = FALSE /\ activeShown = FALSE
  /\ modal = "none" /\ returnToResults = FALSE /\ activeKind = "full"
  /\ pendingStart = FALSE /\ pendingKind = "full" /\ rescan = NoRescan
  /\ controls = <<>> /\ previewPending = FALSE /\ overrun = FALSE
  /\ quitAfterCancel = FALSE /\ editAfterStop = FALSE /\ shouldQuit = FALSE
  /\ pendingIsolation = NoTarget /\ investigation = NoInvestigation
  /\ pendingSpeed = FALSE /\ speed = "none" /\ pendingFragment = FALSE /\ fragment = "none"
  /\ tests = 0
  /\ \/ /\ screen = "Wizard" /\ scanner = 0 /\ currentRun = 0 /\ lastTargets = {}
        /\ thread = [r \in Runs |-> Unborn]
     \/ \* targets on the command line start a scan at once
        /\ screen = "Scanning" /\ scanner = 1 /\ currentRun = 1
        /\ \E S \in Keep \ {{}} : /\ lastTargets = S
                                  /\ thread = [r \in Runs |-> IF r = 1 THEN Born(S) ELSE Unborn]

ThreadStep(r) ==
  \/ ReadPaused(r) \/ LaunchProbes(r) \/ DrainProbes(r)
  \/ \E t \in Targets : FinishTarget(r, t)
  \/ EndScan(r) \/ FailScan(r)

Key ==
  \/ ConfirmQuit \/ DismissDialog \/ AskQuit \/ QuitNow \/ QuitSpeedTest
  \/ StopFragmentTest \/ PauseResume \/ IsolateTarget \/ StopKeepResults \/ CustomizeScan
  \/ RerunSelected \/ AskRerun \/ ConfirmRerun \/ OpenTests \/ AskSpeed \/ ConfirmSpeed
  \/ AskFragment \/ LeaveScreen \/ Review \/ StartFromWizard

Loop ==
  \/ Control \/ Receive \/ Isolate \/ JoinInvestigator \/ JoinScanner \/ Relaunch
  \/ JoinTest \/ NoKey \/ Key \/ Quit \/ StartScan \/ StartTests \/ Leave

Next ==
  \/ Loop
  \/ \E r \in Runs : ThreadStep(r)
  \/ EndInvestigation \/ EndSpeed \/ EndFragment \/ PreviewDone \/ WatchTimer
  \/ Gone

Spec == Init /\ [][Next]_vars

\* the loop never blocks for more than 100 ms, and every thread the operating
\* system runs goes on: each probe and test has a time limit
FairSpec ==
  /\ Spec
  /\ WF_vars(Loop)
  /\ \A r \in Runs : WF_vars(ThreadStep(r))
  /\ WF_vars(EndInvestigation) /\ WF_vars(EndSpeed) /\ WF_vars(EndFragment)

-----------------------------------------------------------------------------
(* Properties.                                                             *)

TypeOK ==
  /\ pc \in {"control", "isolate", "investigator", "scanner", "relaunch", "tests", "input",
             "launch", "startTests", "leaving", "gone"}
  /\ cancel \in BOOLEAN /\ paused \in BOOLEAN /\ fragmentCancel \in BOOLEAN
  /\ thread \in [Runs -> Thread] /\ scanner \in {0} \cup Runs
  /\ rx \subseteq Runs \X Targets /\ feed \in {"none", "active", "idle"}
  /\ lifecycle \in {"Running", "Paused", "Cancelling", "Completed", "Failed", "Cancelled"}
  /\ screen \in {"Wizard", "Scanning", "SpeedSelect", "SpeedTesting", "SpeedResults",
                 "FragmentSelect", "FragmentTesting", "FragmentResults"}
  /\ modal \in {"none", "quit", "repeat", "sample", "retest", "speed"}
  /\ rows \in [Targets -> {0} \cup Runs] /\ lastTargets \in Keep
  /\ currentRun \in {0} \cup Runs /\ rescan \in Keep \cup {NoRescan}
  /\ pendingIsolation \in Targets \cup {NoTarget}
  /\ {speed, fragment} \subseteq Trial

\* A session without --watch never runs two scans at once: every start finds
\* the previous thread ended and joined (run.rs start_wizard_scan overwrites
\* the handle, and both scans would feed the same channel).  The exception: a
\* start that waits for an investigation begins under an open rerun dialog,
\* whose confirmation (handle_key) does not look at scan_complete again.
OneScan == ~watching /\ ~overrun => \A r \in Runs : Running(r) => r = scanner

\* After a full run started, the table holds rows of that run only: what the
\* previous one sent was received before its thread was joined.  Once a run is
\* over, completed, cancelled or failed, the table has its row for every target
\* that it reported (all of its goal but what its thread left to do).
RowsOfRun ==
  /\ ~watching /\ ~overrun /\ activeKind = "full" => \A t \in Targets : rows[t] \in {0, currentRun}
  /\ ~watching /\ ~overrun /\ scanComplete /\ currentRun # 0
       => \A t \in thread[currentRun].goal \ thread[currentRun].todo : rows[t] = currentRun

\* While an isolated investigation runs, the scan it interrupts stays paused
\* and stays the current run.
HeldWhileIsolated ==
  investigation # NoInvestigation => paused /\ investigation.source = currentRun

\* handle_key drops every key while the lifecycle is Cancelling.  A stop
\* (key x or w) gets there only with a scan thread whose end leaves it.
StopNeverWedges ==
  ~watching /\ lifecycle = "Cancelling" /\ ~quitAfterCancel
    => scanner # 0 /\ ~scanComplete

\* A stop ends the scan, whatever else runs.
StopResolves ==
  (~watching /\ lifecycle = "Cancelling" /\ ~quitAfterCancel)
    ~> (lifecycle # "Cancelling" \/ pc = "gone")

\* What the user asked to follow a stop follows it: a quit confirmed while the
\* scan ran ends the session, an edit opens the wizard.
StopHonoured ==
  /\ (~watching /\ quitAfterCancel /\ ~scanComplete) ~> (~quitAfterCancel \/ pc = "gone")
  /\ (~watching /\ editAfterStop /\ ~scanComplete) ~> (screen = "Wizard" \/ pc = "gone")
=============================================================================
