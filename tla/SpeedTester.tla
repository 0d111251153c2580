---------------------------- MODULE SpeedTester ----------------------------
(***************************************************************************)
(* The bandwidth tests of the dashboard (speed.rs, tui/mod.rs,             *)
(* tui/run.rs): the screen that selects addresses, the thread that         *)
(* measures them a few at a time, and the rows it sends back.              *)
(***************************************************************************)
EXTENDS FragmentTester

CONSTANTS
  Concurrency,  \* config.concurrency
  Repetitions,  \* config.speed_repetitions
  Directions,   \* bound: of "download", "upload" and "both", those in use
  Rates,        \* the rates a transfer may have
  MaxSpeedTests \* bound: speed tests started

ASSUME SpeedAssumption ==
  /\ Repetitions \in Nat /\ Rates \subseteq Nat \ {0}
  /\ Directions \subseteq {"download", "upload", "both"}

VARIABLES
  listed, good,    \* the rows of the last scan, and those with a success
  speedTargets, speedSelected, direction, \* the form
  confirming, pendingSpeed, \* confirm_speed_start, pending_speed_start
  speedResults,
  stopped,         \* the cancel flag of the session
  lifecycle,       \* scan_lifecycle, as far as speed tests set it
  speed,           \* [status, direction, todo, tasks]: the thread, its targets not
                   \* begun, and [address -> task] of those at work
  speedChannel,    \* rows sent and not received
  speedTests, asked, \* speed tests started, and the addresses of the last one
  speedTaken       \* a relaunch has taken the screen from a test or a dialog

table == <<listed, good>>
speedForm == <<speedTargets, speedSelected, direction>>
dialog == <<confirming, pendingSpeed>>
speedRun == <<stopped, lifecycle>>
speedThread == <<speed, speedChannel, speedTests, asked>>
speedTest == <<table, speedForm, dialog, speedResults, speedRun, speedThread, speedTaken>>

-----------------------------------------------------------------------------
(* Measuring.                                                              *)

Ways(d) == CASE d = "both" -> <<"down", "up">>
             [] d = "download" -> <<"down">>
             [] d = "upload" -> <<"up">>

\* test_target: rounds of one transfer each way, the first of them to warm up
Repeats == IF Repetitions < 1 THEN 1 ELSE Repetitions
NewTask == [round |-> 0, turn |-> 1, down |-> <<>>, up |-> <<>>, failed |-> FALSE]
Ready(task) == task.round > Repeats

Advanced(task) ==
  IF task.turn < Len(Ways(speed.direction))
  THEN [task EXCEPT !.turn = @ + 1]
  ELSE [task EXCEPT !.turn = 1, !.round = @ + 1]

\* a transfer that ends early or with an error status has no rate
NoRate == 0
Counts_WarmUp(task, rate) == rate # NoRate
Counts(task, rate) == rate # NoRate /\ task.round > 0

Kept(task, way, rate) ==
  IF Counts(task, rate) /\ Ways(speed.direction)[task.turn] = way
  THEN Append(task[way], rate) ELSE task[way]
Moved(task, rate) ==
  [Advanced(task) EXCEPT !.down = Kept(task, "down", rate), !.up = Kept(task, "up", rate),
                         !.failed = @ \/ rate = NoRate]

\* average_measurements: the number of the rates, twice the median and the
\* percentiles; <<>> for None
AtMost(rates, v) == {i \in DOMAIN rates : rates[i] <= v}
Ranked(rates, k) == {v \in Range(rates) : Cardinality(AtMost(rates, v)) >= k}
Sorted(rates, k) == Foremost(Ranked(rates, k))  \* the k-th when they are sorted

Percentile(rates, pct) ==
  LET index == (Len(rates) * pct + 99) \div 100 IN Sorted(rates, IF index < 1 THEN 1 ELSE index)
Average(rates) ==
  LET n == Len(rates)
      middle == n \div 2 + 1
  IN IF n = 0 THEN <<>>
     ELSE <<[n |-> n, p10 |-> Percentile(rates, 10), p90 |-> Percentile(rates, 90),
             median2 |-> Sorted(rates, middle)
                         + Sorted(rates, IF n % 2 = 0 THEN n \div 2 ELSE middle)]>>

Measured(a, task) ==
  [ip |-> a, download |-> Average(task.down), upload |-> Average(task.up), failed |-> task.failed]

-----------------------------------------------------------------------------
(* The thread: run_speed_scan.                                             *)

NoSpeed == [status |-> "none", direction |-> "both", todo |-> {}, tasks |-> <<>>]
Working == DOMAIN speed.tasks
Measuring == speed.status = "running"

Slots == IF Concurrency < 1 THEN 1 ELSE IF Concurrency > 4 THEN 4 ELSE Concurrency

Spawn(a) ==
  /\ Measuring /\ ~stopped /\ a \in speed.todo /\ Cardinality(Working) < Slots
  /\ LET task(b) == IF b = a THEN NewTask ELSE speed.tasks[b]
     IN speed' = [speed EXCEPT !.todo = @ \ {a}, !.tasks = [b \in Working \cup {a} |-> task(b)]]
  /\ UNCHANGED <<table, speedForm, dialog, speedResults, speedRun, speedChannel,
                 speedTests, asked, speedTaken>>

Transfer(a) ==
  /\ Measuring /\ a \in Working /\ ~Ready(speed.tasks[a])
  /\ \E rate \in Rates \cup {NoRate} : speed' = [speed EXCEPT !.tasks[a] = Moved(@, rate)]
  /\ UNCHANGED <<table, speedForm, dialog, speedResults, speedRun, speedChannel,
                 speedTests, asked, speedTaken>>

\* join_next; its rival, the flag, is polled first
Collect(a) ==
  /\ Measuring /\ a \in Working /\ Ready(speed.tasks[a])
  /\ speedChannel' = Append(speedChannel, Measured(a, speed.tasks[a]))
  /\ speed' = [speed EXCEPT !.tasks = [b \in Working \ {a} |-> speed.tasks[b]]]
  /\ UNCHANGED <<table, speedForm, dialog, speedResults, speedRun, speedTests, asked, speedTaken>>

EndSpeed ==
  /\ Measuring /\ speed.todo = {} /\ Working = {}
  /\ speed' = [NoSpeed EXCEPT !.status = "ended"]
  /\ UNCHANGED <<table, speedForm, dialog, speedResults, speedRun, speedChannel,
                 speedTests, asked, speedTaken>>

\* abort_all: what is at work, and what is done and not collected, is dropped
Aborts_Between(stop, working) == stop /\ working = {}
Aborts(stop, working) == stop

AbortAll ==
  /\ Measuring /\ Aborts(stopped, Working)
  /\ speed' = [NoSpeed EXCEPT !.status = "ended"]
  /\ UNCHANGED <<table, speedForm, dialog, speedResults, speedRun, speedChannel,
                 speedTests, asked, speedTaken>>

-----------------------------------------------------------------------------
(* The main loop and the keys.                                             *)

ReceiveSpeed ==
  /\ screen # "gone" /\ speedChannel # <<>>
  /\ speedResults' = Append(speedResults, speedChannel[1]) /\ speedChannel' = Tail(speedChannel)
  /\ UNCHANGED <<screen, quitAfter, table, speedForm, dialog, speedRun, speed, speedTests,
                 asked, speedTaken>>

\* a test that Esc or q has ended ends the session with it
JoinSpeed ==
  /\ screen = "speed testing" /\ speed.status = "ended"
  /\ speedResults' = speedResults \o speedChannel /\ speedChannel' = <<>>
  /\ speed' = NoSpeed
  /\ lifecycle' = IF lifecycle = "cancelling" THEN "cancelled" ELSE "completed"
  /\ screen' = IF lifecycle' = "cancelled" THEN "gone" ELSE "speed results"
  /\ UNCHANGED <<quitAfter, table, speedForm, dialog, stopped, speedTests, asked, speedTaken>>

\* the end of the iteration: a start that is pending is taken up on its screen,
\* and left pending elsewhere or while a thread has not been joined
StartSpeed(pending, on, targets, selected, way) ==
  IF pending /\ on = "speed select" /\ speed.status = "none"
  THEN /\ speedTests < MaxSpeedTests /\ speedTests' = speedTests + 1
       /\ pendingSpeed' = FALSE /\ speedResults' = <<>> /\ lifecycle' = "running"
       /\ asked' = targets \cap selected \cap listed
       /\ speed' = [NoSpeed EXCEPT !.status = "running", !.direction = way, !.todo = asked']
       /\ screen' = "speed testing"
  ELSE /\ pendingSpeed' = pending /\ screen' = on
       /\ UNCHANGED <<lifecycle, speed, speedTests, asked>>

OpenSpeed ==
  /\ screen = "scanning" /\ ~confirming
  /\ speedTargets' = listed /\ speedSelected' = {} /\ direction' = "both"
  /\ confirming' = FALSE /\ speedResults' = <<>>
  /\ StartSpeed(pendingSpeed, "speed select", listed, {}, "both")
  /\ UNCHANGED <<quitAfter, table, stopped, speedChannel, speedTaken>>

Selects == screen = "speed select" /\ ~confirming

\* the row under the cursor, whatever the order and the search show there
Selectable(a) == a \in good

ToggleSpeed(a) ==
  /\ Selects /\ a \in speedTargets /\ Selectable(a)
  /\ speedSelected' = IF a \in speedSelected THEN speedSelected \ {a} ELSE speedSelected \cup {a}
  /\ UNCHANGED <<screen, quitAfter, table, speedTargets, direction, dialog, speedResults,
                 speedRun, speedThread, speedTaken>>

SelectAll ==
  /\ Selects /\ speedSelected' \in {good, {}}
  /\ UNCHANGED <<screen, quitAfter, table, speedTargets, direction, dialog, speedResults,
                 speedRun, speedThread, speedTaken>>

Direct(d) ==
  /\ Selects /\ direction' = d
  /\ UNCHANGED <<screen, quitAfter, table, speedTargets, speedSelected, dialog, speedResults,
                 speedRun, speedThread, speedTaken>>

AskSpeed ==
  /\ Selects /\ speedSelected # {} /\ confirming' = TRUE
  /\ UNCHANGED <<screen, quitAfter, table, speedForm, pendingSpeed, speedResults, speedRun,
                 speedThread, speedTaken>>

\* the dialog takes the keys of whatever screen it has come to lie over
Confirm ==
  /\ confirming /\ screen # "gone" /\ confirming' = FALSE
  /\ StartSpeed(TRUE, screen, speedTargets, speedSelected, direction)
  /\ IF speedTests' = speedTests THEN UNCHANGED speedResults ELSE speedResults' = <<>>
  /\ UNCHANGED <<quitAfter, table, speedForm, stopped, speedChannel, speedTaken>>

Decline ==
  /\ confirming /\ screen # "gone" /\ confirming' = FALSE
  /\ UNCHANGED <<screen, quitAfter, table, speedForm, pendingSpeed, speedResults, speedRun,
                 speedThread, speedTaken>>

BackSpeed ==
  /\ screen \in {"speed select", "speed results"} /\ ~confirming /\ screen' = "scanning"
  /\ UNCHANGED <<quitAfter, table, speedForm, dialog, speedResults, speedRun, speedThread,
                 speedTaken>>

\* Esc and q: request_cancel
CancelSpeed ==
  /\ screen = "speed testing" /\ ~confirming
  /\ IF lifecycle = "running"
     THEN stopped' = TRUE /\ lifecycle' = "cancelling" /\ quitAfter' = TRUE /\ UNCHANGED screen
     ELSE screen' = "gone" /\ UNCHANGED <<speedRun, quitAfter>>
  /\ UNCHANGED <<table, speedForm, dialog, speedResults, speedThread, speedTaken>>

-----------------------------------------------------------------------------
SpeedInit ==
  /\ listed = Ips /\ good \in SUBSET listed
  /\ speedTargets = {} /\ speedSelected = {} /\ direction = "both"
  /\ confirming = FALSE /\ pendingSpeed = FALSE /\ speedResults = <<>>
  /\ stopped \in BOOLEAN /\ lifecycle = "completed"
  /\ speed = NoSpeed /\ speedChannel = <<>> /\ speedTests = 0 /\ asked = {}
  /\ speedTaken = FALSE

SpeedThreadStep ==
  /\ \E a \in Ips : Spawn(a) \/ Transfer(a) \/ Collect(a)
     \/ EndSpeed \/ AbortAll
  /\ UNCHANGED <<screen, quitAfter>>

SpeedStep ==
  \/ SpeedThreadStep
  \/ ReceiveSpeed \/ JoinSpeed \/ OpenSpeed
  \/ \E a \in Ips : ToggleSpeed(a)
  \/ SelectAll \/ AskSpeed \/ Confirm \/ Decline \/ BackSpeed \/ CancelSpeed
  \/ \E d \in Directions : Direct(d)

-----------------------------------------------------------------------------
(* Properties.                                                             *)

\* The rows of a bandwidth test are those of the addresses it was asked for,
\* one each and all of them unless it was cancelled: an address that every
\* probe failed on is never among them, a direction that was not asked for is
\* never measured, and one that was is measured in every repetition unless the
\* row tells of an error; what was transferred to warm up does not count.
Covers(m, way, row) ==
  IF way \notin Range(Ways(direction)) THEN m = <<>>
  ELSE /\ m = <<>> \/ m[1].n < Repeats => row.failed
       /\ m # <<>> => /\ m[1].n <= Repeats
                      /\ 2 * m[1].p10 <= m[1].median2 /\ m[1].median2 <= 2 * m[1].p90
SpeedRows ==
  screen \in {"speed testing", "speed results"} /\ ~speedTaken =>
    /\ asked # {} /\ asked \subseteq good
    /\ \A i \in DOMAIN speedResults : LET row == speedResults[i] IN
         /\ row.ip \in asked
         /\ Covers(row.download, "down", row) /\ Covers(row.upload, "up", row)
         /\ \A j \in DOMAIN speedResults : row.ip = speedResults[j].ip => i = j
    /\ screen = "speed results" /\ ~stopped =>
         asked = {speedResults[i].ip : i \in DOMAIN speedResults}
=============================================================================
