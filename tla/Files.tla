-------------------------------- MODULE Files --------------------------------
(***************************************************************************)
(* The files cleanscan writes: its configuration (config.rs), the manifest *)
(* (main.rs, written by detached threads of the dashboard), the watch      *)
(* state (watch.rs), the executable itself (updater.rs), the run history   *)
(* and the exports of the dashboard.  The first four are written aside and *)
(* renamed over the target.  Processes may end or the power may fail       *)
(* between any two steps, and process ids are used again.                  *)
(***************************************************************************)
EXTENDS Integers, SequencesExt

CONSTANTS
  Procs,  \* processes, run one after the other or side by side
  Jobs,   \* writes, each of one file by one process
  ProcOf, \* [Jobs -> Procs]
  Kinds,  \* the kinds of file a job may write
  Pids,   \* process ids
  Old     \* stands for the contents each target has at the start

Replaced == {"config", "manifest", "watch", "update"}
Flaws == {"none", "version", "download", "digest", "archive"}

ASSUME FilesAssumption ==
  /\ IsFiniteSet(Jobs) /\ ProcOf \in [Jobs -> Procs]
  /\ Kinds \subseteq Replaced \cup {"history", "export"}
  /\ Old \notin Jobs /\ Pids \subseteq Nat

VARIABLES
  kind,    \* [Jobs -> Kinds]
  flaw,    \* [Jobs -> Flaws]: what is wrong with the release of an update
  life,    \* [Procs -> {"new", "up", "down"}]
  pid,     \* [Procs -> Pids], of the processes that are not new
  pc,      \* [Jobs -> step]
  dir,     \* file names to inodes; an inode is named for the job that made it
  data,    \* inode to [by, whole]: who wrote it last, and whether all of it
  synced,  \* the inodes whose data is on disk
  log,     \* the history file: parts of records, a record is two and a newline
  handle,  \* [Jobs -> inode], once a job has its file open
  temp     \* [Jobs -> name], the file it has open

given == <<kind, flaw>>
host  == <<life, pid>>
disk  == <<dir, data, synced, log>>
vars  == <<given, host, pc, disk, handle, temp>>

-----------------------------------------------------------------------------
(* Names.                                                                  *)

Target(k) == <<"target", k>>
Export(n) == <<"export", n>>
Aside(j, n) == <<"aside", kind[j], pid[ProcOf[j]], n>>

NoName == <<>>
Numbers == 0..Cardinality(Jobs)

\* create_new: the attempt fails when the name is there.  std::fs::write of the
\* watch state truncates the file instead
Exclusive_Never(k) == FALSE
Exclusive(k) == k # "watch"

Fails(j, n) == Exclusive(kind[j]) /\ n \in DOMAIN dir

\* the configuration and the exports then go on to the next suffix
Free(j, name) ==
  CHOOSE n \in Numbers : ~Fails(j, name[n]) /\ \A m \in 0..(n - 1) : Fails(j, name[m])

NameOf(j) ==
  LET export == [n \in Numbers |-> Export(n)]
      aside == [n \in Numbers |-> Aside(j, n)]
  IN CASE kind[j] = "export" -> export[Free(j, export)]
       [] kind[j] = "config" -> aside[Free(j, aside)]
       [] OTHER -> aside[0]

Put(f, x, y) == [z \in DOMAIN f \cup {x} |-> IF z = x THEN y ELSE f[z]]
Without(n) == Restrict(dir, DOMAIN dir \ {n})

-----------------------------------------------------------------------------
(* Processes.                                                              *)

\* a write is over: "left" if it failed and its file could not be removed
Over == {"done", "failed", "left"}
Busy(j) == pc[j] \notin Over \cup {"idle", "dead"}

\* pids of live processes differ
Start(p, i) ==
  /\ life[p] = "new" /\ \A q \in Procs : life[q] = "up" => pid[q] # i
  /\ life' = [life EXCEPT ![p] = "up"] /\ pid' = [pid EXCEPT ![p] = i]
  /\ UNCHANGED <<given, pc, disk, handle, temp>>

Killed(P) == [j \in Jobs |-> IF ProcOf[j] \in P /\ pc[j] \notin Over THEN "dead" ELSE pc[j]]

\* a crash, or a quit: main returns and the detached writers end with it
Exit(p) ==
  /\ life[p] = "up" /\ life' = [life EXCEPT ![p] = "down"]
  /\ pc' = Killed({p})
  /\ UNCHANGED <<given, pid, disk, handle, temp>>

\* data that was not synced may be lost; names are taken to survive
PowerLoss ==
  /\ \E p \in Procs : life[p] = "up"
  /\ life' = [p \in Procs |-> IF life[p] = "up" THEN "down" ELSE life[p]]
  /\ pc' = Killed({p \in Procs : life[p] = "up"})
  /\ \E L \in SUBSET (DOMAIN data \ synced) :
       data' = [i \in DOMAIN data |-> [data[i] EXCEPT !.whole = @ /\ i \notin L]]
  /\ synced' = DOMAIN data
  /\ UNCHANGED <<given, pid, dir, log, handle, temp>>

-----------------------------------------------------------------------------
(* One write.                                                              *)

\* queue_manifest_write gives each write a thread; the others are made by the
\* main thread, one after the other
Detached(k) == k = "manifest"

Turn(j) ==
  /\ life[ProcOf[j]] = "up" /\ pc[j] = "idle"
  /\ Detached(kind[j]) \/ \A i \in Jobs : ProcOf[i] = ProcOf[j] /\ ~Detached(kind[i]) => ~Busy(i)

Goes(j, s) == pc' = [pc EXCEPT ![j] = s]

\* run_explicit and install, before anything is written: a newer version, an
\* archive at its expected address, its digest, and nothing in it but the binary
Newer(j) == flaw[j] # "version"
Fetched(j) == flaw[j] # "download"
DigestMatches(j) == flaw[j] # "digest"
Unpacked(j) == flaw[j] # "archive"

Verified(j) == kind[j] = "update" => Newer(j) /\ Fetched(j) /\ DigestMatches(j) /\ Unpacked(j)

\* nothing was created; the updater tries to remove its name here too, also
\* when the file is one that an earlier process with this pid has left
OpenFails(j) ==
  /\ Turn(j) /\ kind[j] # "history"
  /\ Goes(j, "failed")
  /\ \/ UNCHANGED dir
     \/ kind[j] = "update" /\ Verified(j) /\ dir' = Without(NameOf(j))
  /\ UNCHANGED <<given, host, data, synced, log, handle, temp>>

Open(j) ==
  /\ Turn(j) /\ kind[j] # "history" /\ Verified(j)
  /\ LET n == NameOf(j)
         i == IF n \in DOMAIN dir THEN dir[n] ELSE j
     IN /\ ~Fails(j, n)
        /\ dir' = Put(dir, n, i)
        /\ data' = Put(data, i, [by |-> j, whole |-> FALSE])
        /\ synced' = synced \ {i}
        /\ handle' = [handle EXCEPT ![j] = i] /\ temp' = [temp EXCEPT ![j] = n]
  /\ Goes(j, "open")
  /\ UNCHANGED <<given, host, log>>

\* after write_all: watch::save does not sync, an export is complete
AfterWrite_Unsynced(k) == IF k = "export" THEN "done" ELSE "rename"
AfterWrite(k) == CASE k = "export" -> "done" [] k = "watch" -> "rename" [] OTHER -> "sync"

Write(j) ==
  /\ pc[j] = "open"
  /\ data' = [data EXCEPT ![handle[j]] = [by |-> j, whole |-> TRUE]]
  /\ Goes(j, AfterWrite(kind[j]))
  /\ UNCHANGED <<given, host, dir, synced, log, handle, temp>>

Sync(j) ==
  /\ pc[j] = "sync" /\ Goes(j, "rename")
  /\ synced' = synced \cup {handle[j]}
  /\ UNCHANGED <<given, host, dir, data, log, handle, temp>>

\* rename moves what the name leads to
Rename(j) ==
  /\ pc[j] = "rename" /\ temp[j] \in DOMAIN dir
  /\ dir' = Put(Without(temp[j]), Target(kind[j]), dir[temp[j]])
  /\ Goes(j, "done")
  /\ UNCHANGED <<given, host, data, synced, log, handle, temp>>

\* the file is removed when a later step fails; watch::save and the exports
\* leave theirs
AfterError_Keep(k) == "failed"
AfterError(k) == IF k \in {"watch", "export"} THEN "failed" ELSE "remove"

StepFails(j) ==
  /\ pc[j] \in {"open", "sync", "rename"} /\ Goes(j, AfterError(kind[j]))
  /\ UNCHANGED <<given, host, disk, handle, temp>>

\* the error of a removal is ignored
RemoveTemp(j) ==
  /\ pc[j] = "remove"
  /\ \/ Goes(j, "failed") /\ dir' = Without(temp[j])
     \/ Goes(j, "left") /\ UNCHANGED dir
  /\ UNCHANGED <<given, host, data, synced, log, handle, temp>>

-----------------------------------------------------------------------------
(* append_history: the serializer writes straight to the file.             *)

Parts == <<"first", "rest", "newline">>

Append1(j) ==
  /\ kind[j] = "history"
  /\ Turn(j) \/ pc[j] \in Range(Tail(Parts))
  /\ LET n == IF pc[j] = "idle" THEN 1 ELSE CHOOSE m \in DOMAIN Parts : Parts[m] = pc[j]
     IN /\ log' = Append(log, <<j, Parts[n]>>)
        /\ Goes(j, IF n = Len(Parts) THEN "done" ELSE Parts[n + 1])
  /\ UNCHANGED <<given, host, dir, data, synced, handle, temp>>

AppendFails(j) ==
  /\ kind[j] = "history"
  /\ Turn(j) \/ pc[j] \in Range(Tail(Parts))
  /\ Goes(j, "failed")
  /\ UNCHANGED <<given, host, disk, handle, temp>>

-----------------------------------------------------------------------------
Init ==
  /\ kind \in [Jobs -> Kinds]
  /\ flaw \in {f \in [Jobs -> Flaws] : \A j \in Jobs : kind[j] # "update" => f[j] = "none"}
  /\ life = [p \in Procs |-> "new"] /\ pid = [p \in Procs |-> 0]
  /\ pc = [j \in Jobs |-> "idle"]
  /\ dir = [n \in {Target(k) : k \in Replaced} |-> Old]
  /\ data = [i \in {Old} |-> [by |-> Old, whole |-> TRUE]] /\ synced = {Old} /\ log = <<>>
  /\ handle = [j \in Jobs |-> Old] /\ temp = [j \in Jobs |-> NoName]

Next ==
  \/ \E p \in Procs, i \in Pids : Start(p, i)
  \/ \E p \in Procs : Exit(p)
  \/ PowerLoss
  \/ \E j \in Jobs : Open(j) \/ OpenFails(j)
  \/ \E j \in Jobs : Write(j) \/ Sync(j) \/ Rename(j) \/ StepFails(j) \/ RemoveTemp(j)
  \/ \E j \in Jobs : Append1(j) \/ AppendFails(j)
  \/ (\A p \in Procs : life[p] = "down") /\ UNCHANGED vars

Spec == Init /\ [][Next]_vars

-----------------------------------------------------------------------------
(* Properties.                                                             *)

Safe == Replaced \ {"watch"}

\* Whatever process ends or fails wherever, and whatever the power failure
\* takes: the configuration, the manifest and the executable are a whole
\* version, old or new, and the executable one that was newer and verified.
\* And a process does not tear its own records of the history apart: the parts
\* of a record follow each other, and a record that starts within a line starts
\* behind one whose append failed or whose process ended, or behind one of
\* another process.
FilesReadable ==
  /\ \A k \in Safe : data[dir[Target(k)]].whole
  /\ LET u == data[dir[Target("update")]].by IN u # Old => flaw[u] = "none"
  /\ \A m \in 2..Len(log) :
       LET i == log[m - 1][1]
           j == log[m][1]
       IN ProcOf[i] = ProcOf[j] =>
            IF log[m][2] = "first" THEN log[m - 1][2] = "newline" \/ pc[i] = "failed" ELSE i = j

\* A write that reports success has put its own contents in place, also when
\* two threads write the manifest at once under the one name that depends on
\* the process only.  An export never replaces an earlier one, not even a torn
\* one.
SuccessIsOwn ==
  [][/\ \A j \in Jobs : kind[j] \in Replaced /\ pc[j] = "rename" /\ pc'[j] = "done" =>
          data'[dir'[Target(kind[j])]] = [by |-> j, whole |-> TRUE]
     /\ \A n \in DOMAIN dir : n[1] = "export" =>
          n \in DOMAIN dir' /\ dir'[n] = dir[n] /\ data'[dir[n]].by = data[dir[n]].by]_vars

\* A file written aside is left behind only by a process that ended over it,
\* by a write that failed and then could not remove it, or by a failed write of
\* the watch state.
NoLitter ==
  \A n \in DOMAIN dir : n[1] = "aside" =>
    LET j == data[dir[n]].by IN Busy(j) \/ pc[j] \in {"dead", "left"} \/ kind[j] = "watch"
=============================================================================
