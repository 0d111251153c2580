# Verification of cleanscan

cleanscan probes many IP addresses of one host over HTTPS, ranks them and
recommends the best. It is a Rust program: a command line and a terminal UI over
one asynchronous scan engine. This directory models the parts whose correctness
depends on interleaving, ordering, counting, partial failure and restarts. TLC
checks the models on small instances; for all of them TLAPS proves every safety
property the runs check, and that the scheduler implements what its callers rely
on. Only the liveness properties are TLC's alone. Five further configurations show
where the code does not do what its documentation says.

Paths below are relative to the repository.

## 1. Inventory

| Component | State | Operations | Interacts with | Hard behaviours | Module |
|---|---|---|---|---|---|
| **Probe scheduler** `src/scanner.rs` (`run_scan_port`, `TargetState`, `ReadyQueue`, `probe_with_lazy_client`) | per target: budget, samples, warmup, discard and stop flags; heap of ready entries with generations; spawned tasks; semaphore; leaderboard | spawn a warmup or a probe, join one, reconcile permits, report, end | three atomics shared with the UI; result, progress and event channels; the controller | tasks run between any two steps of the loop; flags are read more than once; heap entries go stale; permits taken away from a pool in use | `ScanScheduler`, `ScanPromise` |
| **Adaptive worker controller** `src/adaptive.rs` | worker count and minimum, window, latency baseline, three streaks, times of resizes, reference rate | `record`, `evaluate`, `apply`, `set_min_workers`, `set_workers` | the scheduler's joins | streaks, cooldown and dwell reset by different decisions; evidence outliving its situation | `AdaptivePolicy` |
| **Watch mode** `src/watch.rs`, `cli_watch` in `src/main.rs` | saved `WatchState`, previous manifest and health, manifest file | start or resume, scan, `advance`, publish, alert, save, stop by policy | the scan engine, two files | a crash between the two files; hysteresis across restarts; what identifies a source | `Watch` |
| **Composition of scans** `src/scanner.rs` (`run_scan_with_progress_from_offsets`, `merge_port_results`, `run_profile_scan`, `run_scan_two_phase`) | results of the parts, offsets, held rows | one scan per port and health check, merge, coarse and focused pass, sweep first | the scheduler; an unbounded and a bounded channel to the dashboard | rows of the parts before the merged row; dropped snapshots; cancel between parts | `ScanComposition` |
| **TUI session** `src/tui/mod.rs`, `run.rs`, `state.rs` | lifecycle, pending run, isolation, investigation, controls, dialogs, the shared flags, thread handles | start, pause, resume, stop, rerun, isolate, relaunch, test, quit | every thread of the program | flags that outlive a run; isolation racing completion; keys between any two steps of the threads | `ScanSession` |
| **Dashboard** `src/tui/mod.rs`, `dashboard.rs` | rows, revision and cached order, filters, cursor, scroll, marks, run log | receive rows, sort, filter, mark, open, archive, compare | session | a cache and a cursor that go stale; eviction of a run still referred to | `Dashboard` |
| **Settings wizard** `src/tui/wizard.rs` | ranges, options, edits, drafts, preview | keys, clicks, pickers, saving, starting | configuration file, preview thread | indices kept while lists change; many ways to change one option | `Wizard` |
| **Address discovery** `src/discovery.rs`, **raw SYN sweep** `src/syn.rs`, sampling in `src/scanner.rs` | enumerator position, prior networks; connects in flight; window, source ports, pass, open set | enumerate, connect, send, receive, retransmit, draw | interfaces, packet capture | overlapping sources; lost, late and repeated answers; cancel | `Sweep` |
| **Interfaces** `src/iface.rs` | none | resolve a pinned interface, choose a local address per family | sweeps, scans | a missing family, link-local addresses, an interface that goes away | `Routes` |
| **Files** `src/main.rs`, `src/config.rs`, `src/watch.rs`, `src/updater.rs`, `src/tui/run.rs` | temporary names, contents, process ids | write aside, sync, rename, append, export | file system | a crash or a failure between steps; two writers; names used again | `Files` |
| **TLS fragments** `src/proxy.rs`, `src/tui/fragment.rs` | queue of pieces, delays owed, counters per stage; tester's form, thread and rows | cut, re-wrap, send, hold, request; start, cancel, leave | stream, TLS client | partial writes; a silent peer; rows sent before a join | `FragmentWriter`, `FragmentTester` |
| **Speed tests** `src/speed.rs`, `src/tui/speed.rs` | form, tasks, measurements | select, confirm, measure, cancel | session's cancel flag | cancel during a transfer; slots and tasks in one select | `SpeedTester` |
| Scores and statistics `src/scanner.rs` | none | means, deviations, Wilson and bootstrap intervals | scheduler, UI | floating point at the edges | a choice in the models |
| CLI and configuration | options | parse, validate, format | all of the above | validation decides which states the others meet | assumptions of the models |
| Rendering, clipboard, themes, system information, locations | none | draw, query | - | - | - |

`PROJECT.json` lists the hazards behind the properties, line by line, with those
that no property covers and why.

What makes the components correct:

* scheduler: one probe per target at a time, every probe counted once, every
  target reported once and when final, priorities respected, the pool never
  larger than configured and never stuck, cancel, pause and completion effective;
* controller: automatic resizes within bounds, apart from each other and earned
  by evidence gathered since;
* watch: recommendations change only when earned, what is published is sound
  and agrees with what is saved, the best target is eventually recommended;
* composition and session: the rows on the screen are those of the run, a
  merged row settles them, counters are possible, one scan at a time, isolation
  holds the scan, every stop and quit takes effect;
* dashboard and wizard: what is highlighted, acted on, saved, removed and
  compared is the same thing the user sees;
* sweeps and routes: every address once, only listening ones found, through the
  interface that was pinned;
* files: whole after any crash, no litter, a success is one's own;
* testers: the TLS flights arrive unchanged and with their pauses, rows belong
  to the test on the screen, a cancelled test ends and leaves nothing running.

## 2. How the modules fit together, and the plan

```
ScanPromise <= ScanScheduler      FragmentWriter < FragmentTester < SpeedTester < Testers
AdaptivePolicy                    Routes < Sweep
Watch                             ScanComposition, ScanSession, Dashboard, Wizard, Files
```

`<=` is the refinement that `sched_promise` checks and `PromiseKeptHolds` proves,
`<` is EXTENDS. The engine is
modelled from the inside out: `ScanScheduler` is one scan over one port;
`ScanComposition` takes such a scan as a part, with what it reports only;
`ScanSession` takes a scan as a thread that reads the flags and behaves like
`ScanPromise` (targets that are lost stay in its `todo`); `Dashboard` takes a run as
the rows it sends. Each of
these steps drops what the next one cannot see. The abstraction of a scan in
`ScanComposition` and `ScanSession` is `ScanPromise`'s by construction and not by
a checked refinement.

All modules of the first plan are written. What is left, by importance:

1. the content of the live targets view and the details of a row (`Dashboard`);
2. retries of a fragmented write with another length, `parse_share_url` and
   `websocket_probe` (`FragmentWriter`, `FragmentTester`);
3. a checked refinement of `ScanPromise` by the scans of `ScanComposition` and
   `ScanSession`.

## 3. The modules

An operator named `X_Y` next to an operator `X` is a mutant: the form that a
plausible bug would give `X`. `PROJECT.json` names, for every property of every
run, one with which TLC finds the property violated.

### ScanScheduler: one scan over one port

Processes: the loop of `run_scan_port` (`pc`), the spawned tasks (`futs`) and the
user. A step of the loop is the code between two points where it can wait or
where a flag is read:

| Action | Code |
|---|---|
| `ReadOverride` | head of the loop: override, resize, reconcile (1943-1951) |
| `LaunchWarmup`, `LaunchMeasured`, `LaunchNothing`, `LaunchBlocked` | the inner loop that fills the pool, warmups and measured probes alternating (1953-2082) |
| `NothingInFlight`, `NoticeCancel` | the end of the loop: paused, cancelled or complete (2083-2096) |
| `JoinPanicked`, `JoinWarmup`, `JoinMeasured`, `JoinAndDie` | what a joined probe does (2098-2327); the last is the indexing panic of the prune rule |
| `PollTask`, `GiveUpTask`, `FinishTask` | a task: queue for a permit, get it or see the cancel flag, end with an outcome (1604-1659) |
| `TogglePause`, `Cancel`, `SetOverride` | the user, through `src/tui/mod.rs` |
| `Ended` | the scan is over; stuttering, so that a deadlock is a real one |

A task that can have a permit is "spawned", then either "queued" in the fair
semaphore or "running". The semaphore's `available_permits`, `forget_permits` and
`add_permits` (in `Reconcile`) act on the permits nobody holds, as in tokio.

Abstracted: latencies, scores and reports. Whatever a score decides (the order
within a tier, whether a target is dominated by the leaderboard) is a choice.
The adaptive resize of `JoinMeasured` is any count within the bounds
(`NextWorkers`); `AdaptivePolicy` says which. `Reconcile` reads the free permits and
changes them in one step, while in the code a task may take or give back a permit
between the two; either keeps the sum of free and held permits, which is all that
`PoolBound` is about. Progress and event messages are left out, nothing
in the scan depends on them. Counts of successes and failures are kept, kinds
of failures are not.

`ScanPromise` is what the code that starts a scan gets, whatever the
configuration: a result once per target, only before the end, for invalid targets
at once; a scan ends "complete" when every target is reported or `lost`. It also says
when a target may be lost - before its first measured probe when its warmup
succeeds, at any time when a task panics, with the probes in flight at a cancel -
and that a scan which was not cancelled is "broken" off only after a `resume` that
came while nothing was in flight. `Risks` names what the configuration exposes a scan
to. `PromiseKept` is the refinement: `lost` is where the scheduler's state leaves no
way to a target (`Forgotten`: warmed up and without a heap entry; `Stuck`: in flight
without a task), so that the promise says not that every target is reported, which
does not hold (section 6), but what exactly can keep one from it.

### AdaptivePolicy: the worker controller

`policy` is the struct, an optional value is a set of at most one element.
`JoinAutomatic` is what the scheduler does after a measured probe without an
override: `record`, `set_min_workers`, `evaluate`, `apply`. `JoinManual` is
`record`, then `set_workers`; `Override` is `set_workers` at the head of the loop;
`Tick` lets time pass. Rates and latency ratios are percentages and compared by
cross-multiplication; a window without elapsed time has no rate, as in the code.
`log` is a history variable: the last resize, when it happened, the decisions
taken since, and the rate an upscale was measured against. It is updated from
the outcome of the step, never read by the model, and lets the properties speak
of resizes instead of the policy's own bookkeeping.

### Watch: watch mode

A cycle of `cli_watch` is `Scan` (scan and `advance`, in memory), `Publish` (the
manifest file and the alerts) and `Save` (the state file, the alert policy).
`Start` loads a compatible state or saves a new one; `Crash` ends the process
between any two of these, by a signal or by an error that `cli_watch` returns.
Only `disk` and `manifest` survive. Each file is replaced in one step because
`write_manifest` and `watch::save` write a temporary file and rename it; that the
disk keeps the order of two renames through a power failure is assumed
(`watch::save` does not sync).

A scan is any assignment of scores to targets, 0 for one that is missing,
filtered out or unhealthy. The state file is the one of the default path, whose
name contains the source fingerprint, so a source is named by its seed. Cycle
numbers matter only up to 2; `last_switch_cycle` is kept as an age, up to the
cooldown. A saved state carries `log`, its own history: consecutive cycles each
target led, the recommendation was unhealthy, and nothing changed.

### ScanComposition: one scan as a whole

The scan thread goes through the parts of a `run`: ports in turn and, for each
port, health checks (`StartPart`, `StartProbe`, `CompleteProbe`, `FinishTarget`,
`EndPart`), then `Merge` (`merge_port_results` and the merge of the checks) and
`EndPass`, which in a two-phase scan chooses the CIDRs to focus on and draws the
targets of the second pass. `Sweep` stands for a discovery run that gives the
list. Rows go into `tx`, snapshots and events into `progress`, which drops what
does not fit in `Cap`. `AddResult`, `AddProgress` and `JoinScan` are the App: rows
that a later row hides, the activity of each target, the counters. A result is
whether it works, whether it is healthy, a score and the number of probes. A part
may end with targets unreported, as `ScanPromise` allows, and a cancel ends it with
probes in flight, which are dropped. Targets that cannot be parsed, which a part
reports without a probe, are in `ScanScheduler` only.

### ScanSession: the session

The event loop of `run_tui` is `pc`: controls, receive, isolation, the joins of
the investigator, the scanner and the tests, relaunch, input, launch, leave.
Every other thread moves between any two of these steps. A scan thread reads
`paused` in one step (`ReadPaused`) and acts on it in another, and may end whenever
nothing is in flight or it is cancelled: the targets it has not reported are the
lost ones of `ScanPromise`. An investigation,
a speed and a fragment test only run and end. Keys, palette entries and buttons
are the actions of step "input", with the guards of their handlers; buttons
depend on what the footer shows. History variables are `rows` (which run a row
came from) and `thread[r].ok`.

### Dashboard: the results table and the run log

One pass of the loop is drain, `Draw`, input. `cache` is the sorted cache with its
key (revision, order, filters); the revision wraps at `RevisionSpan`. `Draw` clamps
cursor and scroll and records the row it highlights (`lit`), so that a property
can compare it with the one the keys act on (`Selected`, `Copied`). `Begin` archives
the current run unless it is a sweep (`swept`: it has no list of targets), `Evicted`
drops the oldest one that nothing refers to. Rows have
an address and a grade; one numeric and one ordinal column stand for the
columns, one set of addresses for the filters of location.

### Wizard: settings

One field stands for each way of editing a setting: a set (ports), a picker
(interface, fragment presets), a number, a pair of numbers that limit each
other, a toggle, a cycle of values. A draft typed character by character is one
step. `saved` is what the next start of the program reads, `asked` the range that
the message "Press x again to remove" named, `job` the preview thread. An edit may stay
open when the step changes (`Leavable`), and keys of another step then act
beside it.

### Routes and Sweep: from ranges to targets

`Routes` is `iface.rs`: the order in which interfaces are offered, the address of
a family, the one that avoids a VPN. `Sweep` has three modes. The connect sweep
pulls from `AddressEnumerator` (`head`, `rest`, `priorIps`, `priorNets`), keeps up to
`Concurrency` connects in flight and drains them after a cancel. The SYN sweep
takes windows of `WindowIps` addresses, sends a frame per port from its own source
port, receives whatever is on the wire - lost, late, repeated, or a `Stray` answer to
a connection of another program - and sends to the whole window again in further
passes, those that answered included. Sampling draws addresses and
connects to them. Addresses are pairs of a family and a number, a network is a
first address and a size (its prefix length matters for nothing else).

### Files: what is written

A job writes one file: the configuration, the manifest, the watch state, the
executable, the history or an export. `Open`, `Write`, `Sync`, `Rename`, `RemoveTemp`
are the system calls, each of which may fail; the error of a removal is ignored, so
that a job ends with its file in place (`left`). `Exit` ends a process over its
threads, `PowerLoss` ends all and loses what was not synced. Directory entries
are atomic, contents that were not synced are torn. Process ids are used
again, which is how a temporary name may already exist. The history is
appended in parts, because `append_history` does not buffer.

### FragmentWriter, FragmentTester, SpeedTester, Testers

`FragmentWriter` is one connection: the client's writes are sequences of TLS
records, cut by one profile of one or more stages (`PollWrite`, `Cut`, `NextStage`),
sent piece by piece with pauses (`Wake`, `Deliver`: the stream takes as much as it
likes), followed by the server's flight, the idle hold and the HTTP request. Cuts and
records are given by the places where they end (`Edge`, `Framed`, `InOrder`), so
that no sum is needed. A hello is cut by the first stage only, which combines it
if others follow (`Hellos`, as in the presets and `DOUBLE_FRAGMENT_STAGES`).
`wire` records every unit and pause. `FragmentTester` adds the thread that tries a
list of profiles and the screens; `SpeedTester` the bandwidth tests, with tasks
of transfers of which the first warms up, and the percentiles of the rates.
`Testers` puts both under one session that may quit or relaunch the scan at any
time. A session has one of the testers at work: `Fragment` and `Speed` are
enabled by whether there are profiles (they share only the screen, and the code
opens one at a time).

### The MC modules

They instantiate the modules for the configurations: which networks, profiles,
runs, machines and sessions are tried. Bounds are constants, commented
"bound" where they are declared.

## 4. The runs

| Run | Question | Instance |
|---|---|---|
| `sched_safety` | Does the bookkeeping stay consistent under every interleaving? | 3 targets, one invalid; 2 probes each; pool 1..2, adaptive, with overrides; warmups, panics, failing clients, early stop, pruning with `top` = 0 (so that the panic of the prune rule is among the steps), pause, cancel |
| `sched_promise` | Does a scan keep its promise, respect priorities, strand no probe, and end, drain and stop as asked? | 2 targets, warmups that succeed, fail and panic, failing clients, early stop, one worker and a second by override, pause, resume, cancel, fair scheduling |
| `adaptive` | Are resizes apart and growth earned? | counts 1..4, slow and fast successes, timeouts, cancellations, an override, a minimum that is raised and lowered |
| `watch_cycles` | Is watch mode right over any cycles, crashes and restarts? | 2 targets, scores 20, 21 and 24 with a margin of 10 %, streaks of 2, cooldown of 3, 2 profiles, 1 backup, `--watch-new-sample`, stops on alerts |
| `composition` | Does the table settle on the merged rows? | one CIDR, two hosts, eight runs: two ports, two health checks with none, one or both required, two phases, a sweep; room for one snapshot |
| `session` | Do keys and threads never produce two scans, foreign rows, a resumed isolation or a locked interface? | one target, three scans (two with `--watch`), one test, with and without `--watch` |
| `session_live` | Do stops and quits take effect? | one target, two scans, one test, without `--watch`, fair threads |
| `dashboard` | Is the table what it says, and does a comparison keep its run? | two addresses, three grades, one visible row, a log of two runs, sessions of looks, marks, views and of four runs |
| `wizard` | Do all ways of editing keep the settings valid and saved? | one range of the program, one of the user, two typed ones, eight fields, two changes |
| `sweep` | Does each sweep visit every address once and find only listeners (or a stray answer's sender), through the right interface? | pairs of an address, /31, /30 and /29, the same in IPv6; two ports; three servers; one stranger; windows of two; one retransmission; five source ports; a machine with a bridge, an uplink with one family, a loopback and a tunnel |
| `files` | Is every file whole after any failure? | two processes, three jobs of any of six kinds, two process ids |
| `testers` | Do flights arrive, rows belong to their test, and tests end? | a flight of two records and two single ones, five profiles of different shapes, two addresses, two speed tests |

Five more configurations are not among the runs, since they are to fail: each checks
one property that states what the documentation says, and TLC ends it with a
counterexample that section 6 tells. They are small on purpose: nothing but what the
counterexample needs is switched on.

| Configuration (module) | Violated | Instance |
|---|---|---|
| `SchedDefault.cfg` (`MCScanScheduler`) | `AllReported` | 2 targets, warmup, one worker, nothing else |
| `SchedResume.cfg` (`MCScanScheduler`) | `AllReported` | 2 targets, no warmup, pause and resume |
| `SchedShrink.cfg` (`MCScanScheduler`) | `PauseDrains` | 2 targets, two workers and an override to one, fair scheduling |
| `SynStray.cfg` (`MCSweep`) | `FoundInRanges` | the SYN sweeps of `sweep` |
| `HelloPause.cfg` (`MCTesters`) | `HelloPauseKept` | the profiles of `testers`, flights that begin with a hello alone |

Why these bounds are enough to be interesting:

* *Scheduler.* Two targets are needed for priority and for competition for a
  permit, a third for one to be overtaken or to fill the leaderboard. Two
  probes of a budget are needed for "stopped before the budget is spent" and for
  every tier; the early-stop streak is 2 so that it takes both. There is no
  bound on how often the user acts. The pool of `sched_promise` only grows, since
  `SchedShrink.cfg` shows what a shrinking one does to `NoStrandedProbe`, `PauseDrains`
  and `Terminates`.
* *Controller.* Streaks of 2 distinguish one signal from two; the window holds
  just `min_samples`, so that every outcome displaces the oldest; latencies 2 and 4
  lie on either side of the degradation threshold. The minimum can be raised to
  3 and the pool still grow to 4. `MaxTime` bounds the clock at a value where
  cooldown, dwell and a second resize fit.
* *Watch.* 21 is better than 20 without reaching the margin, 24 reaches it. The
  cooldown is longer than the streaks, so that it matters.
* *Composition.* Two parts suffice for a partial row before a merged one and for
  a cancel between parts, two hosts for a target that the second pass draws
  again, a channel of one for lost snapshots.
* *Session.* A second run is what an earlier one can disturb, a third is what a
  rerun can start over it; `MaxRuns` and `WatchRuns` bound them. One test is what
  can run next to a scan. `Lossy` lets snapshots be missing, so that the number of
  active probes that gates the isolation is wrong.
* *Dashboard.* `Top` = 2 with one visible row makes the cursor leave the window and
  the filters shorten the table below the cursor; a log of two and four runs
  evict twice; a revision that wraps at 2 tests that the cache does not rely on
  ever new numbers. What a session may do is split into kinds (`Sessions`), since
  looks, marks and views do not read each other's state.
* *Sweep.* The pairs cover same, contained, overlapping, adjacent and disjoint
  ranges, with and without network and broadcast addresses; five source ports
  make the second window of two addresses and two ports start again at the
  first port. One stranger (`Strangers`), which is in no range, may answer to any
  port at any time of a SYN sweep.
* *Files.* Two writers in one process share a temporary name, a second process
  may get the id of the first.
* *Testers.* The profiles have one piece, capped, chunked, first-write-only and
  two-stage shapes; two units at a time make the stream take part of a piece. In
  `MCBareFlights` the hello is a write of its own, as a TLS client sends it.

Deadlock is checked in every run but `testers`, whose session ends when it was
left and its threads have been joined.

**Fairness.** `FairSpec` of `ScanScheduler` asks weak fairness of the loop and of the
tasks together: the loop is a task of the async runtime and awaits
`FuturesUnordered`, which polls every woken task; a probe ends because every
request has a timeout. Nothing is asked of the user. `FairSpec` of `Watch` asks
weak fairness of the steps of a cycle, which follow each other in one thread,
and none of `Start`: `Converges` speaks of watches that stay up. `FairSpec` of
`ScanSession` asks it of the event loop (it polls with a timeout), of every scan
thread and of the ends of the tests; of no key. `FairSpec` of `Testers` asks it of
the threads' own steps and of the join; not of the answers of a peer, which may
never come.

## 5. The proofs

All for any constants that satisfy the `ASSUME`s of the modules: at least one
worker, a minimum not above the maximum, at least one cycle per streak (what
validation, `normalized()` and `.max(1)` establish), no range twice in the lists
the program starts with (`App::new`), required checks among the checks. A theorem
that needs more names it: `GrowingPool` of `ScanScheduler` for `NoStrandedProbeHolds`,
which does not hold where the pool may shrink (`SchedShrink.cfg`), and fixed budgets for
`PriorityRespectedHolds`, since adaptive ones order targets by other tiers. Each invariant below is
inductive; a property of the runs follows from it.

**ScanSchedulerProofs.** `IInv` (theorem `Invariance`):

* `TargetOK` - the counters of a target add up, in every phase of its life;
  among others a target whose warmup is not over has no probe and no result, a
  failed client has used up the budget, and with a warmup either the cold time
  is known or the next success will be discarded. The properties alone are not
  inductive: `ColdRequestApart` needs the last part, `ResultOnce` the link
  between flags and counters.
* `FutsOK` - spawned probes and targets are linked: a warmup task belongs to a
  target whose warmup is flying, a measured one is the last probe scheduled.
  This makes two probes of one target impossible and lets a join rely on the
  state it finds.
* `PoolOK` - free permits and running probes together never exceed the largest
  pool. It uses the cardinality facts of `FiniteSetTheorems`.

From it `TypeCorrect`, `AccountingHolds`, `OneProbePerTargetHolds` and their
conjunction `BooksBalanceHolds`, `ResultOnceHolds`, `SilentAfterResultHolds`,
`ColdRequestApartHolds`, `PoolBoundHolds`. On top of it:

* `Supplied` - an active scan has a free permit or a probe that runs. The other
  parts are there because of `Reconcile`: probes in flight never exceed the
  worker target, which never falls (`GrowingPool`), so what it adds is positive.
  From it `NoStrandedProbeHolds`.
* `Queued` - whatever happens, the heap, stale entries and all, has a current entry
  for every target with a probe left, unless its warmup succeeded and no probe of it
  was measured yet (`Unprobed`: the code does not queue such a target); every
  current entry carries the tier of its target, and none is ahead of its target's
  generation. From it `PriorityRespectedHolds`: what `PopBest` takes has the best
  tier of all that is left, but for targets the queue has forgotten.
* `DrainOK` - where the loop waits with no task, and was not paused, cancelled or
  resumed at the wrong moment, only forgotten targets have anything left to do; a
  scan that ended so has reported or lost every target, and it dies of an empty
  leaderboard only. From it (`DrainHolds`), `Queued` and, step by step through the
  loop, the refinement `PromiseKeptHolds`, for every configuration: a join
  of a measured probe is the step of `ScanPromise` that makes progress or reports,
  a join of a successful warmup or the search that drops the last entry of a target
  warmed up is the one that loses it, as is the join of a panicked task; a resume
  with nothing in flight is noted, and the end of the loop is the step that
  completes, breaks off or abandons the scan. Every other step changes nothing that
  `ScanPromise` sees.

**PoolAndSweepProofs**, the controller. `PolicyInvariance`: bounds, plus streaks never longer
than the decisions taken since the last resize of either kind, which is what
connects the policy's counters to the history. From it `WorkersStayInBounds`,
`ResizesStayApart` and `RecoveryIsEarned`. `RInv`: as long as nothing else changed
the count since an upscale, the policy has the rate before it as its reference
or is blocked, and no observation of the window is of the future; so that an
upscale with nothing to compare cannot pass for one that paid. From it
`NoBlindRampHolds`. The proof showed that the property has to except the join at
which a raised minimum itself changes the count: the streak of a blocked policy
goes on, and `set_min_workers` unblocks it (`src/adaptive.rs:277`), so that the
controller may add a worker in the same join.

**PoolAndSweepProofs**, the sweeps. `SweepInvariance` states `SInv`. Its centre is the set
`Pulled` of the addresses that the enumerator has handed out or passed over,
computed from where it stands: `WalkOK` ties `head` and `rest` to a place in the open
source and `priorIps`, `priorNets` to the sources before it, so that `Covered` says
exactly that an address was pulled before (`net_hosts_contains` agrees with
`hosts` for every size). `TallyOK`: every address pulled is counted or under way, in a
connect or in the window, and none is both; without a cancel and a failure the
two sides are equal, otherwise the counted may be fewer. The count alone is not
inductive, since a step that takes an address could take one that was counted.
`SampleOK` bounds a sample by the places its sources offer and `ShownOK` what was
sent to the screen; from these `SweptOnceHolds`, with the cardinality of a
union by induction over the sources, done as a minimal counterexample.
`FoundOK`: an accepting answer on the wire, whatever window its port belongs
to by now, comes from an address of the ranges that listens or, in a SYN sweep,
from one of `Strangers` (`Answers`), and only then may it be found; from it
`FoundListensHolds`. `PathOK`: what was resolved belongs to
the pinned interface as it was, every route is picked from it, and a sample that
binds has an address for the family of each target (`ServesFamilies`); from it
`RoutesPinnedHolds`. The assumptions are those of `SweepAssumption`: sizes at
least one, at least one port, a window that fits the block of source ports
(`syn.rs` computes it so), and addresses of interfaces that are of either family.

**WatchProofs.** `WatchInvariance`: in memory *and in every saved state*, the
streaks and the age of the last change claim no more than the history does
(`Honest`). It has to hold of the saved states because a restart takes one up.
`BestFact` shows that `advance` has a unique best target, by a minimal element of
the strict-subset order. `PreparedFact`, `DecidedFact` and `LoggedFact` follow the
three parts of `advance`; the decision is one of `Retained`, `Promotion` and
`Demotion`. From it `TypeCorrect`, `PromotionIsEarned`, `DemotionIsEarned`,
`PromotionIsSpaced`, `SwitchDoesPay`, `PublishedIsSound` and `FilesDoAgree`.

**ScanCompositionProofs.** `Inv` (`InvHolds`) follows a result from the part that
made it to the screen. `Seen`: a target on the list has one result of each part
behind it and none of those to come. `Rows`: of the rows that wait in the channel
or are held for the focused pass, the merged row of a target is the last one, and
it says what the results say (`Final`, by `MergePortsFact` and `MergeChecksFact`);
a target of which all is known has its merged row under way or on the screen.
`Tallied` and `Shown`: what is being probed was started and is not completed (a cancel
drops probes that were started, so that it may be less), and no snapshot, received
or lost, says more than the scan did. From it
`TableSettlesHolds`, `CountsHonestHolds` and the action property
`WorkingStaysHolds`, which is why it also says that a row which works has a result
that does.

**ScanSessionProofs.** `Held`: the pause flag is already up while an isolation waits
for the probes to drain, and every way to clear it ends the isolation first; from
it `HeldWhileIsolatedHolds`. `Alone`: without `--watch` and `overrun`, a running
thread is the one whose handle the loop has, and whenever a start is possible -
the scan is complete, a start is pending, the wizard is on the screen - there is
no handle. `Sent`: what is in the channel belongs to the current run, is empty
once the handle is joined, and with the table covers every target the thread
reported. The second needs the first (a second thread would send rows of
another run), and both need `Shapes`. From them `OneScanHolds` and
`RowsOfRunHolds`. `Stoppable`: a stop is only sent from a screen that shows a scan
with a handle or a complete one, and is carried out before the next key is
read; from it `StopNeverWedgesHolds`.

**WizardProofs.** `Pending`: the pending removal is an index of a range of the
user's own, the one that the message named, and no range is being edited
meanwhile, so that the index cannot come to mean another range. From it
`RemovalConfirmedHolds`, an action property. `Sound`: beyond what
`SettingsSoundHolds` states, the draft of an open edit is a value of its field and
a field under edit is no toggle (`DraftOK`); a commit compares a new minimum or
maximum with the other one only, so the pair has to be in order before. Its last
part is about persistence: every action that changes an option or a range is
shown to save.

**DashboardProofs.** `Chained`: ids are handed out in order, an investigation is
one of the current run, and in a log an entry that is an investigation
(`Traced`: its source is the current run, or was archived after it) is nobody's
source. `EvictFact` shows that a full log loses the oldest entry that nothing
refers to, or its last one if there is none; in the second case `JoinKeeps` argues
from the entry behind the new one, which would have to be the source itself. From it
`ComparisonKeptHolds`. `Viewed`: a cache that is not empty holds the order of the
rows *as they are* for the key it was made with, so that it may be stale in what
it was asked for and never in what it lists (`IndicesFact`); a wrapped revision
does no harm, because a change of the rows also empties the cache. `SortedFact`
shows that the order is one: `RankFact` finds, in a finite set under a total order,
one element for every place, by an injection of the set into the ranks.
`ScrolledFact` shows that what a draw leaves on the screen holds the cursor. From
these `TableTrueHolds`.

**FilesAndTestersProofs**, the files. `Held`: a job at work has its file under the temporary name it
made, whole before it is synced and synced before it is renamed; `OneName`: no two
names lead to one file, so that nobody writes into a file that another has put
in place. `SafeTargets` is what a power failure cannot take; `LastPart`: only the
job that wrote the last part of the history can be in the middle of a record, as
far as its own process goes. From them `FilesReadableHolds`, `NoLitterHolds` and
the action property `SuccessIsOwnHolds`.

**FilesAndTestersProofs**, the testers. `FInv`: what is in the channel and what is on the
screen make one list (`Arrived`), which grows in the thread and only moves in
the event loop. While a test is on the screen, that list is of its address,
increasing, covers exactly the chosen profiles that the thread does not have
left, and every profile in it comes before every one left (`TestOK`); the last
part is what keeps the order when a row is sent. `IdleOK`: on any other screen
there is neither a thread nor a row, so that no row of an earlier test reaches a
later one. From it `RowsOfTestHolds`. `QInv` does the same for bandwidth tests, where
the tasks finish in any order: the addresses that wait, that are at work and that
have a row are disjoint and together those asked for (`MeasureOK`); `TaskOK` counts
what a task has measured by its round and turn (`Due`), the warm-up left out, which
becomes the number of a row's measurements when the task is done (`DoneCovers`).
`AverageFact` shows of the percentiles that they exist and are in order, the median
between them, from counts of the rates at most as large as a value. `SelectOK`
and the dialog part of `SpeedIdle` are there because a start takes what was selected
when the dialog opened. From it `SpeedRowsHolds`. Both hold for any number of
profiles, addresses, rates and repetitions (`SpeedAssumption`), while no relaunch of
the watch mode has taken the screen from a test, as the properties say.

**FilesAndTestersProofs**, what a connection sends. The argument is that of somebody
who reads along. A `Place` says how many payload units have come, how many the
record still owes, how many records have begun and whether a unit has come since
the last pause; `Reads` is what may come next: a header only when nothing is owed, a
payload unit only with the next number, and, where the profile caps the records of
the hello or paces them, no header too many or too early (`ModeOf`). `WInv` says
that such a reading leads through `wire` (`Chain`) and on through everything that is
under way, in the queue or between two stages, to the end of the write the client is
at (`Flow`); a pause that is owed is read before its piece. What a stage makes of a
piece reads from the same place to the same place as the piece: `PiecesLead`,
`RewrappedLeads` and `FramedLeads` show it for the three ways of cutting, from facts
about the places where parts end (`PartStep`, `HadOrder`), and `SplitLeads` and
`HelloLeads` put them together. `Redelayed` is why a carried pause does no
harm. `WriterOK` adds what ties the parts together: a write is offered again only
when nothing of it is left, and the counter of the first stage tells the hello from
later writes. From `WInv` follow, by counting along the walk (`WalkCounts`,
`RecordFilled`, `HelloCapped`), `ReassemblesHolds` and the half of `PausesKeptHolds`
that is about hellos: pieces of a hello, and its last piece and what follows it in
the same write. The other half, about profiles that cut every write without a cap, needs
a second invariant, `Wave`: a tally of the units since the last pause never exceeds
the longest piece; every piece that waits either has a pause before it or still
fits under the tally, and the pause behind the last piece is owed to the next write
(`carries`). All of it holds for any flights of whole, nonempty records
(`FlightsAssumption`), any profiles (`SweepsAssumption`), any amount the stream takes
at once and any number of pieces.

**Only model-checked:** the liveness properties `CancelEnds`, `PauseDrains`,
`Terminates`, `Converges`, `StopResolves`, `StopHonoured`, `CancelResolves` and
`LeavesNone`: liveness under fairness is beyond the prover.

## 6. Where code and documentation disagree

Found while modelling. A property below that the code violates is kept as a
definition and named. For five there is a configuration that shows the
counterexample (section 4); the others can be put into one.

*Scheduler, controller and watch*

* `AllReported` (`ScanScheduler`; `SchedDefault.cfg`, `SchedResume.cfg`): a target whose
  warmup *succeeded* is not put back in the ready queue (`src/scanner.rs:2117`; the
  failing branch does it). With the warmup on, no target has a probe to make at
  first, so the first search of the queue drops all entries
  (`src/scanner.rs:1171`), and such a target is never measured or reported, while
  `README.md:455` says that all sampled IPs are shown. `paused` is read at the top of
  the launch loop and again when nothing is in flight (`src/scanner.rs:2085`): a
  resume in between ends the scan with targets left.
* `NoStrandedProbe` with a pool that shrinks (`SchedShrink.cfg`):
  `reconcile_worker_permits` (`src/scanner.rs:1771`) takes the probes in flight to
  hold a permit each, but a spawned one may still wait for its permit and a finished
  one that is not yet joined has given its permit back. When the user
  (`README.md:311`) or the controller lowers the workers between these, it forgets a
  permit that a waiting probe needs, for good: the pool is smaller than it says,
  down to none. Then the scan hangs until it is cancelled or the workers are raised,
  and a pause does not drain ("active probes drain", `README.md:307`). With these
  constants TLC also finds `NoStrandedProbe` and `Terminates` violated;
  `GrowingPool` is the condition under which the first is proved.
* `NeverDies` (`ScanScheduler`): pruning with `top` = 0 indexes an empty leaderboard
  (`src/scanner.rs:1565`).
* `FreshEvidence` (`AdaptivePolicy`): `set_workers` promises a clean baseline and keeps
  window and latency baseline (`src/adaptive.rs:305`).
* `TargetsFrozen` (`Watch`): without a configured seed every start draws one, which is
  part of the state file's name (`src/main.rs:1011`): a restart does not find the
  frozen targets (`README.md:528`).
* `error_rate_threshold` is never read (`src/adaptive.rs:34`); with fewer than
  `min_samples` completions since an upscale the streak alone decides on the next
  (`src/adaptive.rs:586`); `--fail-on-alert` does not count a changed
  recommendation (`src/main.rs:1573`); a demotion does not wait for the cooldown
  (`src/watch.rs:129`); the baselines of the alerts start empty after a restart
  (`src/main.rs:1408`); a probe task that panics leaves its target in flight
  (`src/scanner.rs:2102`); a discarded cold success leaves its target behind the
  untried ones (`src/scanner.rs:1140`); among unhealthy results `merge_port_results`
  prefers the lower success rate (`src/scanner.rs:2520`); a two-phase scan ignores
  the health checks.

*Session*

* The cancel flag is created once (`src/tui/run.rs:162`): a scan or speed test after
  a stopped one begins cancelled and ends without measuring, while `README.md:323`
  offers to run it again.
* A rerun asked for while an investigation runs waits for its end
  (`src/tui/run.rs:1030`), with the scan still complete, and the dialog of another
  rerun can be opened meanwhile. When the first has begun, confirming the dialog
  (`src/tui/mod.rs:1783`) does not look at `scan_complete` again and starts a second
  scan over the first; the handle of the first is overwritten and both feed one
  channel. The history variable `overrun` records such a confirmation; without it
  in `OneScan` and `RowsOfRun`, TLC finds the two scans with three runs.
* A watch relaunch (`src/tui/run.rs:868`) looks at no screen, dialog, test or running
  scan: it replaces the handle of a scan that still runs and leaves the thread of a
  test unjoined. It also clears the rows before the run is archived, so watch
  cycles never enter the run log, which `README.md:332` says keeps up to ten earlier runs.
* The isolation waits for a number of active probes that comes from lossy
  telemetry (`README.md:308`); a rerun of selected targets in watch mode narrows
  the targets of all later cycles (`README.md:428`); `p` on a completed scan sets
  the lifecycle to paused; a speed test after a failed scan turns it to completed.
* Enter on the footer of the scan screen with an investigation pending or
  running acts on another button than the highlighted one
  (`src/tui/mod.rs:2064`, `src/tui/dashboard.rs:498`).

*Dashboard*

* A rerun's arriving rows are meant to keep the cursor on its row
  (`src/tui/mod.rs:1199`), but do so only when the scan is complete, which the rerun
  resets. `toggle_failure_filter` puts the cursor on the first failure even beyond
  `top`; the draw clamps it, so Enter opens another row. The dialog of a
  rerun says that current results will be replaced while a targeted one keeps
  them. A refused start leaves the kind and source of the run pending.

*Wizard*

* `FloorFollows` (`Wizard`): a minimum that is rejected because it exceeds the
  maximum has already been stored in the live minimum (`src/tui/wizard.rs:888`).
* `StartsWhatIsSelected` (`Wizard`): `invalidate_preview` forgets the preview and not
  the thread that draws one, and a targeted rerun leaves its subset as the preview
  (`src/tui/mod.rs:1046`): a start may scan targets of options that were changed since.
* The mouse wheel moves the cursor onto hidden fields (`src/tui/mod.rs:3526`);
  two-phase can be switched on during a watch, which `src/main.rs:573` rejects.

*Sweeps and interfaces*

* `FoundInRanges` (`Sweep`; `SynStray.cfg`): a SYN-ACK of an unrelated connection
  counts when its local port is in the window, whoever sent it (`src/syn.rs:497`); a
  window of a cancelled sweep counts as attempted.
* With a pinned interface that lacks a family, a scan falls back to the default
  route for all targets (`src/scanner.rs:1661`) and the connect sweep silently for
  that family (`src/iface.rs:249`), while `README.md:403` says that the option binds
  connections to the interface's address.

*Files*

* The temporary name of the manifest depends on the process only
  (`src/main.rs:943`): a file left by a process with the same id makes every later
  write fail, and two writers of one dashboard collide, so that the newer manifest
  may be lost (`src/tui/run.rs:36`, `README.md:482`). `watch::save` neither syncs nor
  removes its temporary file (`src/watch.rs:196`), which is why `FilesReadable` and
  `NoLitter` except it. Two processes may interleave their history records
  (`src/config.rs:419`).

*Testers*

* `HelloPauseKept` (`FragmentWriter`; `HelloPause.cfg`): the delay behind the last piece
  of a hello is passed on only to a tail in the same write (`src/proxy.rs:667`); when
  the write ends with the hello, the next one follows without the pause that
  `src/proxy.rs:505` describes.
* Esc during a speed test ends the whole session (`src/tui/mod.rs:1978`). A profile
  may count as working although its row says that it did not survive the idle
  hold. A `tlshello` stage that does not merge drops what follows the first record
  (`src/proxy.rs:905`); no preset has one behind another, and the model has none.

## 7. Not modelled

The numeric scores (floating-point formulas, a choice in the models); DNS, TLS
and HTTP (an attempt is a choice of outcome; that it ends is the timeout's
doing); building and parsing of frames; rendering beyond the clamping of
cursors; the queries of the operating system; parsing and validation of the
command line, and the plain write of `--output`; the parser of Xray JSON and
share links, and the WebSocket probe; the live targets view, details and overlays of the dashboard;
the reserved addresses that sampling skips and the seeded generator; the width
of `enumerated_address_count` (`src/discovery.rs:76`), which saturates the size of
`::/0` at the largest `u128` and adds sizes without a check: of `::/0` and another source
the sum overflows, where `Sweep.Total` is exact. In
`Watch`, `--watch-state` is left out because a path of the user's own is one file
for all sources, which the compatibility test then rejects. The memory order of
the shared flags is not modelled: each is a single atomic, and no invariant
relates two of them.
