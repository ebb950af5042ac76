-------------------------- MODULE StorageMaintenance --------------------------
(***************************************************************************)
(* storage-maintenance.ts as main.ts uses it: the cleaning of the client's *)
(* own directory when it starts, with the paths a pending update protects, *)
(* and the log writer, which keeps a fixed number of files of a fixed      *)
(* size.  Deletions fail, the client dies between two renames of a         *)
(* rotation, and a writer that failed once is dropped until the next start.*)
(* A file is its kind, its version and its age; a log line is its number   *)
(* and its size.                                                           *)
(***************************************************************************)
EXTENDS Naturals, Sequences, FiniteSets, SequencesExt

CONSTANTS
  DlVersions,      \* versions that may be downloaded
  RetainedLogs,    \* retainedLogFiles
  LogBytes,        \* logFileBytes
  LineSizes,       \* sizes of log lines
  HardLimit,       \* stateHardLimitBytes, every entry counting one
  MaxLines,        \* bound on log lines
  StFaults         \* bound on failures, crashes and odd entries

StorageAssumption ==
  /\ RetainedLogs \in Nat \ {0} /\ LogBytes \in Nat \ {0}
  /\ LineSizes \subseteq Nat \ {0}

VARIABLES
  items,      \* items[n]: the entry named n: there or not, its age, a symbolic link or not
  dirs,       \* version directories under downloads
  wanted,     \* the version whose installer a pending update refers to, or 0
  crun,       \* off, up, or blocked by the quota or for want of space
  logs,       \* logs[i]: lines of desktop.jsonl (0) and desktop.<i>.jsonl
  writer,     \* fileLogWriter is set
  written,    \* lines written so far, a history variable
  stfaults

storageVars == <<items, dirs, wanted, crun, logs, writer, written, stfaults>>

LogFiles == 0 .. RetainedLogs - 1

\* The entries that matter: a temporary file of a fixed name pattern, state that is
\* never a candidate, and per version a download under way and a finished installer.
Names ==
  [kind : {"temp", "state"}, ver : {0}] \cup [kind : {"partial", "installer"}, ver : DlVersions]
NoEntry == [there |-> FALSE, age |-> 0, link |-> FALSE]
Fresh == [there |-> TRUE, age |-> 0, link |-> FALSE]

\* temporaryMaxAgeMs and completedDownloadMaxAgeMs, in steps of the clock.
MaxAge(kind) == IF kind = "installer" THEN 2 ELSE 1

\* The shapes of downloads and log files.
StorageTypeOK ==
  /\ items \in [Names -> [there : BOOLEAN, age : 0..2, link : BOOLEAN]]
  /\ dirs \subseteq DlVersions /\ wanted \in DlVersions \cup {0}
  /\ crun \in {"off", "up", "blocked"} /\ writer \in BOOLEAN
  /\ DOMAIN logs = LogFiles

StorageInit ==
  /\ items = [n \in Names |-> IF n.kind = "state" THEN Fresh ELSE NoEntry]
  /\ dirs = {} /\ wanted = 0 /\ crun = "off" /\ writer = FALSE
  /\ logs = [i \in LogFiles |-> <<>>] /\ written = <<>> /\ stfaults = 0

-----------------------------------------------------------------------------
(* maintainManagedStorage().                                                *)

\* maintenanceProtectedPaths(): the installer a pending update refers to.
IsProtected(n) == n.kind = "installer" /\ n.ver = wanted

\* Variant: the paths of the pending update are not passed.
CandidatesUnprotected ==
  {n \in Names : /\ items[n].there /\ ~items[n].link
                 /\ n.kind # "state"
                 /\ items[n].age >= MaxAge(n.kind)}

\* The strict list of what may be removed, once it is old enough; links are skipped.
Candidates ==
  {n \in Names : /\ items[n].there /\ ~items[n].link
                 /\ n.kind # "state" /\ ~IsProtected(n)
                 /\ items[n].age >= MaxAge(n.kind)}

\* measureManagedState(): links count nothing.
StateBytes(it) == Cardinality({n \in Names : it[n].there /\ ~it[n].link})

EmptyDirs(it) ==
  {v \in dirs : v # wanted /\ \A n \in Names : n.ver = v => ~it[n].there}

\* A start: the log writer, which may be missing, the cleaning, then the quota and the
\* free space, which others use up as well.  A deletion that fails is counted; a scan
\* that throws ends the maintenance and its check, and the client goes on.
StartClient ==
  /\ crun = "off"
  /\ \E gone \in SUBSET Candidates :
       LET it == [n \in Names |-> IF n \in gone THEN NoEntry ELSE items[n]] IN
       /\ items' = it
       /\ \/ /\ gone = Candidates /\ dirs' = dirs \ EmptyDirs(it)
             /\ crun' \in IF StateBytes(it) > HardLimit THEN {"blocked"} ELSE {"up", "blocked"}
             /\ writer' = TRUE /\ UNCHANGED stfaults
          \/ /\ stfaults < StFaults /\ stfaults' = stfaults + 1
             /\ dirs' \in {dirs, dirs \ EmptyDirs(it)}
             /\ crun' \in {"up", "blocked"} /\ writer' \in BOOLEAN
  /\ UNCHANGED <<wanted, logs, written>>

\* The client ends, or dies.
EndClient ==
  /\ crun # "off"
  /\ crun' = "off" /\ writer' = FALSE
  /\ UNCHANGED <<items, dirs, wanted, logs, written, stfaults>>

-----------------------------------------------------------------------------
(* What puts files there: downloads, updates and temporary files left over.  *)

Put(n) == items' = [items EXCEPT ![n] = Fresh]

BeginDownload(v) ==
  /\ crun = "up" /\ ~items[[kind |-> "partial", ver |-> v]].there
  /\ Put([kind |-> "partial", ver |-> v]) /\ dirs' = dirs \cup {v}
  /\ UNCHANGED <<wanted, crun, logs, writer, written, stfaults>>

FinishDownload(v) ==
  /\ crun = "up" /\ items[[kind |-> "partial", ver |-> v]].there
  /\ items' = [items EXCEPT ![[kind |-> "partial", ver |-> v]] = NoEntry,
                            ![[kind |-> "installer", ver |-> v]] = Fresh]
  /\ UNCHANGED <<dirs, wanted, crun, logs, writer, written, stfaults>>

\* A pending update records the installer, and is settled later.
StageUpdate(v) ==
  /\ crun = "up" /\ wanted = 0 /\ items[[kind |-> "installer", ver |-> v]].there
  /\ wanted' = v
  /\ UNCHANGED <<items, dirs, crun, logs, writer, written, stfaults>>

SettleUpdate ==
  /\ crun = "up" /\ wanted # 0 /\ wanted' = 0
  /\ UNCHANGED <<items, dirs, crun, logs, writer, written, stfaults>>

\* A temporary file that an interrupted write left, or a link somebody put there.
LeftOver ==
  /\ stfaults < StFaults /\ stfaults' = stfaults + 1
  /\ ~items[[kind |-> "temp", ver |-> 0]].there
  /\ \E l \in BOOLEAN : items' = [items EXCEPT ![[kind |-> "temp", ver |-> 0]] = [Fresh EXCEPT !.link = l]]
  /\ UNCHANGED <<dirs, wanted, crun, logs, writer, written>>

\* Files grow older; nothing tells ages above two apart.
TimePasses ==
  /\ items' = [n \in Names |-> IF items[n].there /\ items[n].age < 2
                                 THEN [items[n] EXCEPT !.age = @ + 1] ELSE items[n]]
  /\ items' # items
  /\ UNCHANGED <<dirs, wanted, crun, logs, writer, written, stfaults>>

-----------------------------------------------------------------------------
(* RotatingJsonlLogWriter.                                                  *)

FileBytes(f) == FoldLeft(LAMBDA sum, l : sum + l.size, 0, f)

\* rotate() after the renames for the indices from <from> up; 1 is the whole rotation.
\* With one file retained the active file is removed instead.
Rotated(f, from) ==
  IF RetainedLogs = 1 THEN [i \in LogFiles |-> <<>>]
  ELSE [i \in LogFiles |-> CASE i >= from -> f[i - 1] [] i = from - 1 -> <<>> [] OTHER -> f[i]]

\* write(): a line that does not fit any file is dropped; one that does not fit the
\* active file rotates first.
WriteLine(size) ==
  LET line == [no |-> Len(written) + 1, size |-> size]
      full == FileBytes(logs[0]) + size > LogBytes
      base == IF full THEN Rotated(logs, 1) ELSE logs IN
  /\ crun # "off" /\ writer /\ Len(written) < MaxLines
  /\ size <= LogBytes
  /\ logs' = [base EXCEPT ![0] = Append(@, line)]
  /\ written' = Append(written, line)
  /\ UNCHANGED <<items, dirs, wanted, crun, writer, stfaults>>

\* A rotation that stops between two renames: the error drops the writer, a crash
\* ends the client.  The line is not written.
RotationStops(size) ==
  /\ crun # "off" /\ writer /\ stfaults < StFaults /\ stfaults' = stfaults + 1
  /\ size <= LogBytes /\ FileBytes(logs[0]) + size > LogBytes
  /\ \E from \in 1..RetainedLogs :
       \/ logs' = Rotated(logs, from)
       \/ logs' = [Rotated(logs, from) EXCEPT ![RetainedLogs - 1] = <<>>] /\ from = RetainedLogs
  /\ writer' = FALSE
  /\ crun' \in {crun, "off"}
  /\ UNCHANGED <<items, dirs, wanted, written>>

StorageNext ==
  \/ StartClient \/ EndClient \/ SettleUpdate \/ LeftOver \/ TimePasses
  \/ \E v \in DlVersions : BeginDownload(v) \/ FinishDownload(v) \/ StageUpdate(v)
  \/ \E s \in LineSizes : WriteLine(s) \/ RotationStops(s)

StorageSpec == StorageInit /\ [][StorageNext]_storageVars

-----------------------------------------------------------------------------
(* Properties.                                                              *)

\* storage-maintenance.ts, client-update-coordinator.ts: while an update is pending
\* its installer and the directory it is in survive every cleaning, however old.
PendingInstallerKept ==
  /\ wanted # 0 => items[[kind |-> "installer", ver |-> wanted]].there
  /\ \A n \in Names : items[n].there /\ n.ver # 0 => n.ver \in dirs

\* RotatingJsonlLogWriter: the retained files, oldest first, are the last lines
\* written, without a gap and in order, whatever rotation was cut short.
LogIsSuffix ==
  LET kept == FlattenSeq([j \in 1..RetainedLogs |-> logs[RetainedLogs - j]])
  IN IsSuffix(kept, written)

\* RotatingJsonlLogWriter: no file outgrows its limit.
LogBounded == \A i \in LogFiles : FileBytes(logs[i]) <= LogBytes

\* The installer that is waited for stays, and a log is the bounded tail of what was written.
StorageInv == StorageTypeOK /\ PendingInstallerKept /\ LogIsSuffix /\ LogBounded
=============================================================================
