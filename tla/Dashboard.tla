----------------------------- MODULE Dashboard -----------------------------
(***************************************************************************)
(* The scan dashboard (tui/mod.rs, tui/dashboard.rs): the results table    *)
(* with its filters, its cached order and its cursor, and the run log with *)
(* the runs it keeps.  One pass of the event loop receives what the scan   *)
(* and an investigation sent (step "drain"), draws, which clamps the       *)
(* cursors, and hands at most one key or click to the App (step "input").  *)
(* Threads are those of ScanSession; here a run is the results it sends.   *)
(***************************************************************************)
EXTENDS Naturals, Sequences, FiniteSets

CONSTANTS
  Ips,          \* the addresses of a scan, numbers, in the order of the column IP
  Grades,       \* how good a row is: 0 failed, the higher the better
  Healthy,      \* the grade from which a row is READY
  Filters,      \* a colo and country filter is the set of addresses it admits
  Top,          \* config.top
  Visible,      \* rows of the table that fit on the screen
  HistoryCap,   \* runs kept in memory (10 in the code)
  Sessions,     \* bound: what a user does, [keys |-> which of the keys for the
                \* look of the table, for marks and for the views, last |-> how
                \* many runs and investigations]
  RevisionSpan  \* results_revision wraps (2^64 in the code)

ASSUME DashboardAssumption ==
  /\ IsFiniteSet(Ips) /\ Ips # {} /\ Ips \subseteq Nat \ {0}
  /\ Grades \subseteq Nat /\ 0 \in Grades /\ Healthy \in Nat \ {0}
  /\ Filters \subseteq SUBSET Ips /\ Ips \in Filters
  /\ Top \in Nat /\ Visible \in Nat \ {0}
  /\ HistoryCap \in Nat \ {0, 1} /\ RevisionSpan \in Nat \ {0, 1}
  /\ Sessions \subseteq [keys : SUBSET {"look", "marks", "views"}, last : Nat]

VARIABLES
  session,       \* one of Sessions
  step,          \* "drain" or "input"
  \* the results table
  rows,          \* results: [ip, grade], in the order of arrival
  revision, cache,
  order,         \* sort_col (0 rank, 1 ip) and sort_asc
  failures, filter, cursor, scroll,
  marked,        \* selected_targets
  lit,           \* the row the last draw highlighted, 0 for none
  \* the current run
  complete, todo, current, pending, start,
  swept,         \* the run is a sweep: active_targets is empty
  comparable,    \* history variable: the log had the source when the run began
  \* the run log
  view,          \* "results", "targets" (live targets) or "log"
  dialog,        \* confirm_scan_action: "none", "retest" or "repeat"
  history, investigation, nextId, logCursor

table == <<rows, revision, cache>>
look  == <<order, failures, filter>>
place == <<cursor, scroll>>
run   == <<complete, todo, current, swept, comparable>>
want  == <<pending, start>>
log   == <<history, nextId, logCursor>>
screen == <<view, dialog>>
vars  == <<session, step, table, look, place, marked, lit, run, want, screen, log, investigation>>

Least(a, b) == IF a < b THEN a ELSE b
Most(a, b) == IF a > b THEN a ELSE b
Minus(a, b) == IF a > b THEN a - b ELSE 0      \* saturating_sub

-----------------------------------------------------------------------------
(* The results in the order of the table, and the cache of that order.     *)

Row(ip, grade) == [ip |-> ip, grade |-> grade]
RowIps == {rows[i].ip : i \in DOMAIN rows}

Admitted(i) == (failures \/ rows[i].grade > 0) /\ rows[i].ip \in filter

\* natural_cmp and the comparison of a column; equal rows keep their order
Before(i, j) ==
  LET up == IF order.col = 0 THEN rows[i].grade > rows[j].grade
                             ELSE rows[i].ip < rows[j].ip
      down == IF order.col = 0 THEN rows[i].grade < rows[j].grade
                               ELSE rows[i].ip > rows[j].ip
      first == IF order.asc THEN up ELSE down
      last == IF order.asc THEN down ELSE up
  IN first \/ (~last /\ i < j)

Ordered ==
  LET S == {i \in DOMAIN rows : Admitted(i)}
  IN [k \in 1..Cardinality(S) |->
        CHOOSE i \in S : Cardinality({j \in S \ {i} : Before(j, i)}) = k - 1]

NoCache == [key |-> <<>>, indices |-> <<>>]
Key == <<revision, order, failures, filter>>

Indices == IF cache.key = Key THEN cache.indices ELSE Ordered

\* sorted_results fills the cache when its key does not match
Consult == cache' = [key |-> Key, indices |-> Indices]

\* mutant: the rows change behind the cache
Invalidated_Never == UNCHANGED <<revision, cache>>
Invalidated == /\ revision' = (revision + 1) % RevisionSpan
               /\ cache' = NoCache

Shown == Least(Len(Indices), Top)
\* the row that space, i and R act on, and the one that c copies
Selected == IF cursor < Len(Indices) THEN rows[Indices[cursor + 1]].ip ELSE 0
Copied == IF cursor < Shown THEN rows[Indices[cursor + 1]].ip ELSE 0

-----------------------------------------------------------------------------
(* The run log.                                                            *)

\* a run of the log: its id, the run it is compared with (0 for none)
Record(id, source) == [id |-> id, source |-> source]
NoInvestigation == Record(0, 0)

\* mutant: only the runs of the log count as references
Linked_ByLog(h) == {h[i].source : i \in DOMAIN h}
\* the runs something still refers to
Linked(h) == {h[i].source : i \in DOMAIN h} \cup {pending.source, current.source}

\* index 1 is the run just archived; the oldest run nobody refers to goes,
\* or the oldest one.  A push adds one run, so one removal is enough.
Evicted(h) ==
  LET free == {i \in 2..Len(h) : h[i].id \notin Linked(h)}
      victim == IF free = {} THEN Len(h)
                ELSE CHOOSE i \in free : \A j \in free : j <= i
  IN IF Len(h) <= HistoryCap THEN h
     ELSE SubSeq(h, 1, victim - 1) \o SubSeq(h, victim + 1, Len(h))

Push(r) == Evicted(<<r>> \o history)

\* the results a run is compared with: those on the screen or in the log
Compared(r) == /\ r.source \notin {0, r.id}
               /\ r.source = current.id \/ \E i \in DOMAIN history : history[i].id = r.source

LogLength == 1 + Len(history) + (IF investigation = NoInvestigation THEN 0 ELSE 1)

\* a sweep is not kept, nor a run that has no result before it is complete
Archives(kept, done) == ~swept /\ (kept # <<>> \/ done)

\* begin_scan, with the rows and the completion it finds
Begin(found, done) ==
  /\ IF Archives(found, done)
     THEN history' = Push(Record(current.id, current.source)) /\ logCursor' = 0
     ELSE UNCHANGED <<history, logCursor>>
  /\ current' = Record(nextId, pending.source)
  \* only a start from the wizard may sweep
  /\ swept' \in {FALSE, start = Ips /\ pending.source = 0}
  /\ comparable' = (pending.source \in {history'[i].id : i \in DOMAIN history'})
  /\ nextId' = nextId + 1
  /\ pending' = [targeted |-> FALSE, source |-> 0]
  /\ rows' = IF pending.targeted THEN found ELSE <<>>
  /\ Invalidated
  /\ order' = [col |-> 0, asc |-> TRUE] /\ failures' = FALSE
  /\ cursor' = 0 /\ scroll' = 0 /\ marked' = {} /\ view' = "results"
  /\ complete' = FALSE /\ todo' = start /\ start' = {}
  /\ investigation' = NoInvestigation
  /\ UNCHANGED <<session, step, filter, lit, dialog>>

Init ==
  /\ session \in Sessions /\ step = "drain"
  /\ rows = <<>> /\ revision = 0 /\ cache = NoCache
  /\ order = [col |-> 0, asc |-> TRUE] /\ failures = FALSE /\ filter = Ips
  /\ cursor = 0 /\ scroll = 0 /\ marked = {} /\ lit = 0
  /\ complete = FALSE /\ todo = Ips /\ current = Record(1, 0)
  /\ swept \in BOOLEAN
  /\ pending = [targeted |-> FALSE, source |-> 0] /\ start = {}
  /\ view = "results" /\ dialog = "none" /\ history = <<>> /\ investigation = NoInvestigation
  /\ nextId = 2 /\ logCursor = 0 /\ comparable = FALSE
-----------------------------------------------------------------------------
(* Step "drain".                                                           *)

\* a failed row of one port does not hide a row that works
Hides(old, grade, partial) == old > 0 /\ grade = 0 /\ partial /\ ~complete

\* add_result; a merged row is the last one of its target
AddResult(ip, grade, partial) ==
  /\ step = "drain" /\ ip \in todo
  /\ todo' = IF partial THEN todo ELSE todo \ {ip}
  /\ \/ /\ ip \notin RowIps
        /\ rows' = Append(rows, Row(ip, grade)) /\ Invalidated
     \/ \E i \in DOMAIN rows :
          /\ rows[i].ip = ip
          /\ IF Hides(rows[i].grade, grade, partial)
             THEN UNCHANGED table
             ELSE rows' = [rows EXCEPT ![i].grade = grade] /\ Invalidated
  /\ UNCHANGED <<session, step, look, place, marked, lit, complete, current, swept, comparable, want,
                 screen, log, investigation>>

\* the scan's thread is joined: it reported every target or was stopped
JoinScanner ==
  /\ step = "drain" /\ ~complete
  /\ complete' = TRUE /\ todo' = {}
  /\ UNCHANGED <<session, step, table, look, place, marked, lit, current, swept, comparable, want,
                 screen, log, investigation>>

StartInvestigation ==
  /\ step = "drain" /\ start = {} /\ investigation = NoInvestigation /\ nextId <= session.last
  /\ investigation' = Record(nextId, current.id)
  /\ nextId' = nextId + 1
  /\ UNCHANGED <<session, step, table, look, place, marked, lit, run, want, screen, history,
                 logCursor>>

JoinInvestigator ==
  /\ step = "drain" /\ investigation # NoInvestigation
  /\ history' = Push(investigation)
  /\ investigation' = NoInvestigation
  /\ UNCHANGED <<session, step, table, look, place, marked, lit, run, want, screen, nextId,
                 logCursor>>

\* the watch timer: the rows go before the next cycle begins
WatchCycle ==
  /\ step = "drain" /\ complete /\ investigation = NoInvestigation /\ start = {}
  /\ nextId <= session.last
  /\ start' = Ips /\ rows' = <<>> /\ Invalidated /\ complete' = FALSE
  /\ UNCHANGED <<session, step, look, place, marked, lit, todo, current, swept, comparable, pending,
                 screen, log, investigation>>

BeginScan == step = "drain" /\ start # {} /\ Begin(rows, complete)

\* start_wizard_scan returns early, for one while a preview is generated: the
\* targets are taken, what kind of run was wanted is not
RefuseStart ==
  /\ step = "drain" /\ start # {} /\ start' = {}
  /\ UNCHANGED <<session, step, table, look, place, marked, lit, run, pending, screen, log,
                 investigation>>

\* the first row drawn, such that the highlighted one is on the screen
Scrolled(first, at, length) ==
  Least(Least(Most(first, Minus(at, Visible - 1)), at), Minus(length, Visible))

Lit(list, at, first) == IF first <= at /\ at < Least(first + Visible, Least(Len(list), Top))
                        THEN rows[list[at + 1]].ip ELSE 0

DrawTable ==
  /\ view = "results" /\ Consult
  /\ LET length == Least(Len(cache'.indices), Top)
     IN /\ cursor' = Least(cursor, Minus(length, 1))
        /\ scroll' = Scrolled(Least(scroll, Minus(length, Visible)), cursor', length)
  /\ lit' = Lit(cache'.indices, cursor', scroll')
  /\ UNCHANGED logCursor

DrawLog ==
  /\ view = "log" /\ logCursor' = Least(logCursor, Minus(LogLength, 1))
  /\ lit' = 0 /\ UNCHANGED <<place, cache>>

DrawTargets == view = "targets" /\ lit' = 0 /\ UNCHANGED <<place, cache, logCursor>>

Draw ==
  /\ step = "drain" /\ start = {} /\ step' = "input"
  /\ DrawTable \/ DrawLog \/ DrawTargets
  /\ UNCHANGED <<session, rows, revision, look, marked, run, want, screen, history, nextId,
                 investigation>>

-----------------------------------------------------------------------------
(* Step "input": one key or click.                                         *)

Input == step = "input" /\ step' = "drain" /\ lit' = 0 /\ UNCHANGED session
Pressed == Input /\ dialog = "none"
PressedFor(what) == Pressed /\ what \in session.keys

NoKey == Input /\ UNCHANGED <<table, look, place, marked, run, want, screen, log, investigation>>

\* the keys of move_scan_cursor, Home and End
MoveCursor ==
  /\ Pressed
  /\ \/ /\ view = "results"
        /\ \/ /\ cursor' \in {Minus(cursor, 1), Least(cursor + 1, Minus(Shown, 1))}
              /\ scroll' = Least(scroll, cursor')
           \/ cursor' \in {0, Minus(Shown, 1)} /\ scroll' = cursor'
        /\ UNCHANGED logCursor
     \/ /\ view = "log" /\ logCursor' \in 0..LogLength - 1
        /\ UNCHANGED place
  /\ UNCHANGED <<table, look, marked, run, want, screen, history, nextId, investigation>>

\* a click on a row of the table
ClickRow(k) ==
  /\ Pressed /\ view = "results"
  /\ cursor' = Least(scroll + k, Minus(Shown, 1))
  /\ UNCHANGED <<table, look, scroll, marked, run, want, screen, log, investigation>>

SortBy(col) ==
  /\ PressedFor("look") /\ view = "results"
  /\ order' = IF order.col = col THEN [order EXCEPT !.asc = ~@]
              ELSE [col |-> col, asc |-> TRUE]
  /\ UNCHANGED <<table, failures, filter, place, marked, run, want, screen, log, investigation>>

FilterBy(S) ==
  /\ PressedFor("look") /\ filter' = S
  /\ UNCHANGED <<table, order, failures, place, marked, run, want, screen, log, investigation>>

\* f: the cursor goes to the first failure, wherever the order puts it
ToggleFailures ==
  /\ PressedFor("look") /\ view # "targets"
  /\ failures' = ~failures /\ scroll' = 0
  /\ UNCHANGED <<rows, revision, order, filter, marked, run, want, screen, log, investigation>>
  /\ IF failures'
     THEN /\ cache' = [key |-> Key', indices |-> Ordered']
          /\ LET list == cache'.indices
                 failed == {k \in DOMAIN list : rows[list[k]].grade < Healthy}
             IN cursor' = IF failed = {} THEN 0
                          ELSE (CHOOSE k \in failed : \A l \in failed : k <= l) - 1
     ELSE cursor' = 0 /\ UNCHANGED cache

\* o, or a click on a tab, which leaves the scroll position
ShowView(v, key) ==
  /\ PressedFor("views")
  /\ view' = IF key THEN [results |-> "targets", targets |-> "log", log |-> "results"][view] ELSE v
  /\ scroll' = IF key THEN 0 ELSE scroll
  /\ UNCHANGED <<table, look, cursor, marked, run, want, dialog, log, investigation>>

ToggleMark ==
  /\ PressedFor("marks") /\ view = "results" /\ Selected # 0
  /\ marked' = IF Selected \in marked THEN marked \ {Selected} ELSE marked \cup {Selected}
  /\ UNCHANGED <<table, look, place, run, want, screen, log, investigation>>

Idle == complete /\ investigation = NoInvestigation /\ nextId <= session.last

\* R: the marked rows, or the highlighted one (a live target is left out)
RerunSelected ==
  /\ Pressed /\ Idle
  /\ marked' = IF marked = {} /\ view = "results" THEN {Selected} \ {0} ELSE marked
  /\ marked' # {} /\ start' = marked'
  /\ pending' = [targeted |-> TRUE, source |-> current.id]
  /\ UNCHANGED <<table, look, place, run, screen, log, investigation>>

Degraded == {rows[i].ip : i \in {j \in DOMAIN rows : rows[j].grade < Healthy}}

\* d, r and n ask first
AskRerun(what) ==
  /\ Pressed /\ Idle /\ (what = "retest" => Degraded # {})
  /\ dialog' = what
  /\ UNCHANGED <<table, look, place, marked, run, want, view, log, investigation>>

\* by the answer the rows may be those of a later run.  A new sample may come to
\* nothing after what is wanted was set.
ConfirmRerun ==
  /\ Input /\ dialog # "none" /\ dialog' = "none"
  /\ \/ dialog = "retest" /\ Degraded = {} /\ UNCHANGED want
     \/ /\ dialog = "retest" /\ Degraded # {} /\ start' = Degraded
        /\ pending' = [targeted |-> TRUE, source |-> current.id]
     \/ /\ dialog = "repeat" /\ start' \in SUBSET Ips
        /\ pending' = [targeted |-> FALSE, source |-> current.id]
  /\ UNCHANGED <<table, look, place, marked, run, view, log, investigation>>

DismissDialog ==
  /\ Input /\ dialog # "none" /\ dialog' = "none"
  /\ UNCHANGED <<table, look, place, marked, run, want, view, log, investigation>>

\* Start, after the wizard was opened over the results
StartFromWizard ==
  /\ Pressed /\ Idle
  /\ start' = Ips /\ pending' = [targeted |-> FALSE, source |-> 0]
  /\ UNCHANGED <<table, look, place, marked, run, screen, log, investigation>>

Next ==
  \/ \E ip \in Ips, grade \in Grades, partial \in BOOLEAN : AddResult(ip, grade, partial)
  \/ JoinScanner \/ StartInvestigation \/ JoinInvestigator
  \/ WatchCycle \/ BeginScan \/ RefuseStart \/ Draw
  \/ NoKey \/ MoveCursor
  \/ \E k \in 0..Visible - 1 : ClickRow(k)
  \/ \E col \in {0, 1} : SortBy(col)
  \/ \E S \in Filters : FilterBy(S)
  \/ \E v \in {"results", "targets", "log"}, key \in BOOLEAN : ShowView(v, key)
  \/ ToggleFailures \/ ToggleMark \/ RerunSelected
  \/ \E what \in {"retest", "repeat"} : AskRerun(what)
  \/ ConfirmRerun \/ DismissDialog \/ StartFromWizard

Spec == Init /\ [][Next]_vars
-----------------------------------------------------------------------------
(* Properties.                                                             *)

\* the order a reader expects: better rows, or smaller addresses, first
InOrder(a, b) ==
  LET less == IF order.col = 0 THEN a.grade < b.grade ELSE a.ip > b.ip
      more == IF order.col = 0 THEN a.grade > b.grade ELSE a.ip < b.ip
  IN IF order.asc THEN ~less ELSE ~more

\* Between a draw and the next key the table is true: it lists the current rows
\* that the filters admit, each once and in order, although the order comes from
\* a cache; one of the rows on the screen is highlighted; and it is the one the
\* keys act on, although they do not look at `top` (mod.rs:1488, mod.rs:2786,
\* dashboard.rs:1569).
TableTrue ==
  step = "input" /\ view = "results" =>
    /\ Len(Indices) = Cardinality({i \in DOMAIN rows : Admitted(i)})
    /\ \A k \in DOMAIN Indices : Indices[k] \in DOMAIN rows /\ Admitted(Indices[k])
    /\ \A k, l \in DOMAIN Indices : k < l =>
         Indices[k] # Indices[l] /\ InOrder(rows[Indices[k]], rows[Indices[l]])
    /\ Shown > 0 => lit # 0 /\ Selected = lit /\ Copied = lit

\* The source of the current run, when the log had it as the run began, stays in
\* the log however many investigations come after it, so that the two can still
\* be compared (mod.rs:922; README.md:335).
ComparisonKept ==
  comparable => Compared(current)
=============================================================================
