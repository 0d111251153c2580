--------------------------- MODULE FragmentTester ---------------------------
(***************************************************************************)
(* The TLS fragment tester of the dashboard (tui/mod.rs, tui/run.rs): its  *)
(* screens, the thread that tries one profile after the other against one  *)
(* address, each over a connection of its own, and the rows it sends back. *)
(* What the session does to every screen is in Testers.                    *)
(***************************************************************************)
EXTENDS FragmentWriter

CONSTANTS
  Ips,       \* addresses to test against
  NoIp,      \* no address is set
  Sweeps     \* the lists of profiles the tester may come with

\* a hello is cut by the first stage; that one combines it if others follow
Hellos(p) == \A x \in DOMAIN p : p[x].packets = "tlshello" =>
               x = 1 /\ (Len(p) = 1 \/ Combines(p[1]))
ASSUME SweepsAssumption ==
  \A list \in Sweeps : list \in Seq(Seq(Stage)) /\ \A i \in DOMAIN list : Hellos(list[i])

VARIABLES
  screen,    \* "scanning", "gone", or one of the screens of a tester
  presets,   \* TLS_FRAGMENT_PRESETS
  ip, enabled, results, \* fragment_ip, fragment_enabled, fragment_results
  cancel, quitAfter,
  runner,    \* [ip, left, status]: the thread, the profiles still to try
  channel,   \* rows sent and not received
  tests,     \* tests started so far
  taken      \* a relaunch has taken the screen from a test

form == <<ip, enabled>>
flags == <<cancel, quitAfter>>
thread == <<runner, channel, tests>>
fragmentTest == <<presets, form, results, cancel, thread, taken, connection>>

\* a write is cut within one poll of the writer, which shares nothing with the
\* main loop: what the loop does meanwhile is put before it or after it
Polled == stage = 0

All == DOMAIN presets

\* bound: as many tests as there are profiles
MaxTests == Len(presets)
None == [ip |-> NoIp, left |-> {}, status |-> "none"]
Row(p, a, works) == [preset |-> p, ip |-> a, works |-> works]

-----------------------------------------------------------------------------
(* The thread.                                                             *)

\* the flag is looked at before each profile
Alive == runner.status = "running"

\* the profiles are tried in the order of the presets
Foremost(profiles) == CHOOSE p \in profiles : \A q \in profiles : p <= q
Upcoming == Foremost(runner.left)

TryNext ==
  /\ Alive /\ step = "idle"
  /\ IF cancel \/ runner.left = {}
     THEN runner' = [runner EXCEPT !.status = "ended"] /\ UNCHANGED connection
     ELSE UNCHANGED runner /\ Unconnected(presets[Upcoming], "connect")
  /\ UNCHANGED <<screen, presets, form, results, flags, channel, tests, taken>>

\* cancel_watcher wins the race: the connection is dropped and no row sent
Watched_Between(c) == FALSE
Watched(c) == c

Abort ==
  /\ Alive /\ step # "idle" /\ Watched(cancel)
  /\ runner' = [runner EXCEPT !.status = "ended"]
  /\ Unconnected(<<>>, "idle")
  /\ UNCHANGED <<screen, presets, form, results, flags, channel, tests, taken>>

Send ==
  /\ Alive /\ step = "done"
  /\ channel' = Append(channel, Row(Upcoming, runner.ip, verdict.tls /\ verdict.http))
  /\ runner' = [runner EXCEPT !.left = @ \ {Upcoming}]
  /\ Unconnected(<<>>, "idle")
  /\ UNCHANGED <<screen, presets, form, results, flags, tests, taken>>

Check ==
  /\ Alive /\ Connection
  /\ UNCHANGED <<screen, presets, form, results, flags, thread, taken>>

-----------------------------------------------------------------------------
(* The main loop and the keys.                                             *)

Receive ==
  /\ Polled /\ screen # "gone" /\ channel # <<>>
  /\ results' = Append(results, channel[1]) /\ channel' = Tail(channel)
  /\ UNCHANGED <<screen, presets, form, flags, runner, tests, taken, connection>>

\* rows that arrived since the channel was last read are collected first
Collected_None(ch) == <<>>
Collected(ch) == ch

Join ==
  /\ screen = "testing" /\ runner.status = "ended"
  /\ results' = results \o Collected(channel)
  /\ channel' = SubSeq(channel, Len(Collected(channel)) + 1, Len(channel))
  /\ runner' = None
  /\ screen' = IF cancel /\ quitAfter THEN "gone" ELSE "results"
  /\ UNCHANGED <<presets, form, flags, tests, taken, connection>>

\* pending_fragment_start, in the iteration of the key: dropped when the thread
\* of an earlier test has not been joined
StartPending(a, on, otherwise) ==
  IF runner.status = "none"
  THEN /\ tests < MaxTests /\ tests' = tests + 1
       /\ runner' = [ip |-> a, left |-> on, status |-> "running"]
       /\ screen' = "testing" /\ UNCHANGED channel
  ELSE UNCHANGED thread /\ screen' = otherwise

\* g on a row of the finished results; the rows that only say that the thread or
\* the interface of the configuration could not be had are left out
OpenAuto(a) ==
  /\ Polled /\ screen = "scanning"
  /\ ip' = a /\ enabled' = All /\ results' = <<>>
  /\ cancel' = FALSE /\ quitAfter' = FALSE
  /\ StartPending(a, All, "testing")
  /\ UNCHANGED <<presets, taken, connection>>

OpenSelect(a) ==
  /\ Polled /\ screen = "scanning"
  /\ screen' = "select" /\ ip' = a /\ results' = <<>>
  /\ cancel' = FALSE /\ quitAfter' = FALSE
  /\ UNCHANGED <<presets, enabled, thread, taken, connection>>

EditIp(a) ==
  /\ Polled /\ screen = "select" /\ a # NoIp /\ ip' = a
  /\ UNCHANGED <<screen, presets, enabled, results, flags, thread, taken, connection>>

Toggle(p) ==
  /\ Polled /\ screen = "select"
  /\ enabled' = IF p \in enabled THEN enabled \ {p} ELSE enabled \cup {p}
  /\ UNCHANGED <<screen, presets, ip, results, flags, thread, taken, connection>>

PressStart ==
  /\ Polled /\ screen = "select" /\ ip # NoIp /\ enabled # {}
  /\ StartPending(ip, enabled, "select")
  /\ IF runner.status = "none" THEN results' = <<>> /\ cancel' = FALSE
                               ELSE UNCHANGED <<results, cancel>>
  /\ UNCHANGED <<presets, form, quitAfter, taken, connection>>

Back ==
  /\ Polled /\ screen \in {"select", "results"} /\ screen' = "scanning"
  /\ UNCHANGED <<presets, form, results, flags, thread, taken, connection>>

Esc ==
  /\ Polled /\ screen = "testing" /\ cancel' = TRUE
  /\ UNCHANGED <<screen, presets, form, results, quitAfter, thread, taken, connection>>

-----------------------------------------------------------------------------
FragmentInit ==
  /\ presets \in Sweeps
  /\ ip = NoIp /\ enabled = All /\ results = <<>> /\ cancel = FALSE
  /\ runner = None /\ channel = <<>> /\ tests = 0 /\ taken = FALSE
  /\ profile = <<>> /\ step = "idle" /\ call = 1 /\ flushed = TRUE
  /\ counts = <<>> /\ carries = <<>> /\ stage = 0 /\ todo = <<>> /\ out = <<>>
  /\ queue = <<>> /\ wire = <<>> /\ verdict = Fresh

FragmentStep ==
  \/ TryNext \/ Abort \/ Send \/ Check
  \/ Receive \/ Join
  \/ \E a \in Ips : OpenAuto(a) \/ EditIp(a)
  \/ \E a \in Ips \cup {NoIp} : OpenSelect(a)
  \/ \E p \in All : Toggle(p)
  \/ PressStart \/ Back \/ Esc

-----------------------------------------------------------------------------
(* Properties.                                                             *)

\* The rows shown were measured against the address shown, each profile at
\* most once and in order, and all of them unless the test was cancelled - as
\* long as no relaunch of the watch mode has taken the screen from a test.
RowsOfTest ==
  screen \in {"testing", "results"} /\ ~taken =>
    /\ \A i \in DOMAIN results : results[i].ip = ip /\ results[i].preset \in enabled
    /\ \A i, j \in DOMAIN results : i < j => results[i].preset < results[j].preset
    /\ screen = "results" /\ ~cancel => Len(results) = Cardinality(enabled)
=============================================================================
