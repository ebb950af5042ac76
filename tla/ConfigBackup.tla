---------------------------- MODULE ConfigBackup ----------------------------
(***************************************************************************)
(* Backup and restore of the user's openclaw.json                          *)
(* (internal/configbackup/manager.go behind the Manager's HTTP handlers).  *)
(* A backup is two files, the content and then its metadata; a restore     *)
(* first saves the active file, validates the candidate, then renames it   *)
(* into place.  No lock: requests interleave with each other, with the     *)
(* user's edits and with a crash of the Manager.  The runtime's control    *)
(* (ManagerRuntime) shares no state with it.                               *)
(***************************************************************************)
EXTENDS ManagerRuntime

CONSTANTS Savers,       \* concurrent HTTP requests
          Configs,      \* contents of openclaw.json
          BackupIds,    \* identifiers newID may return
          CfgCalls,     \* bound on requests
          CfgEvents     \* bound on edits and crashes

ASSUME CfgAssumption == "none" \notin Configs

VARIABLES cfg,      \* openclaw.json, or none
          store,    \* the backup directory: content and metadata per id
          job, ccalls, cevents

cfgVars == <<cfg, store, job, ccalls, cevents>>

NoBackup == [content |-> "none", meta |-> "none"]
NoJob    == [at |-> "idle", id |-> "none", from |-> "none", target |-> "none", edited |-> FALSE]

CfgInit ==
    /\ cfg \in Configs \cup {"none"} /\ store = [i \in BackupIds |-> NoBackup]
    /\ job = [j \in Savers |-> NoJob] /\ ccalls = 0 /\ cevents = 0

\* List: the records whose metadata can be read.
Listed == {i \in BackupIds : store[i].meta # "none"}

Reply(j) == job' = [job EXCEPT ![j] = NoJob]

\* handleConfigBackups (POST) and handleConfigRestore.
ReceiveSave(j) ==
    /\ job[j].at = "idle" /\ ccalls < CfgCalls /\ ccalls' = ccalls + 1
    /\ \/ job' = [job EXCEPT ![j].at = "copy"]
       \/ \E i \in BackupIds : job' = [job EXCEPT ![j].at = "read", ![j].id = i]
    /\ UNCHANGED <<cfg, store, cevents>>

\* readBackup: metadata, content and digest must agree.
ReadBackup(j) ==
    LET b == store[job[j].id] IN
    /\ job[j].at = "read"
    /\ IF b.meta # "none" /\ b.content = b.meta
       THEN job' = [job EXCEPT ![j].target = b.content,
                               ![j].at = IF cfg = "none" THEN "validate" ELSE "copy"]
       ELSE Reply(j)
    /\ UNCHANGED <<cfg, store, ccalls, cevents>>

\* readActive: the first step of Backup, and of Restore's safety copy.
ReadActive(j) ==
    /\ job[j].at = "copy"
    /\ \/ cfg # "none" /\ job' = [job EXCEPT ![j].from = cfg, ![j].at = "content", ![j].edited = FALSE]
       \/ Reply(j)
    /\ UNCHANGED <<cfg, store, ccalls, cevents>>

\* writeBackup: the content under a fresh random id, ...
WriteContent(j) ==
    /\ job[j].at = "content"
    /\ \/ \E i \in BackupIds :
             /\ store[i] = NoBackup
             /\ store' = [store EXCEPT ![i].content = job[j].from]
             /\ job' = [job EXCEPT ![j].at = "meta", ![j].id = i]
       \/ Reply(j) /\ store' = store
    /\ UNCHANGED <<cfg, ccalls, cevents>>

\* ... then its metadata; the content goes again when that fails.  Restore
\* continues with its candidate.
WriteMeta(j) ==
    /\ job[j].at = "meta"
    /\ \/ /\ store' = [store EXCEPT ![job[j].id].meta = job[j].from]
          /\ IF job[j].target # "none" THEN job' = [job EXCEPT ![j].at = "validate"] ELSE Reply(j)
       \/ store' = [store EXCEPT ![job[j].id].content = "none"] /\ Reply(j)
    /\ UNCHANGED <<cfg, ccalls, cevents>>

\* ValidateConfigCandidate on the staged file.
Validate(j) ==
    /\ job[j].at = "validate"
    /\ Reply(j) \/ job' = [job EXCEPT ![j].at = "rename"]
    /\ UNCHANGED <<cfg, store, ccalls, cevents>>

\* atomicRename over the active file, or a failure that leaves it.
AtomicRename(j) ==
    /\ job[j].at = "rename" /\ cfg' \in {cfg, job[j].target} /\ Reply(j)
    /\ UNCHANGED <<store, ccalls, cevents>>

\* The user or OpenClaw writes the file; the Manager stops (external).
Edit ==
    /\ cevents < CfgEvents /\ cevents' = cevents + 1
    /\ cfg' \in Configs \ {cfg}
    /\ job' = [j \in Savers |-> [job[j] EXCEPT !.edited = job[j].at # "idle"]]
    /\ UNCHANGED <<store, ccalls>>

CfgCrash ==
    /\ cevents < CfgEvents /\ cevents' = cevents + 1
    /\ job' = [j \in Savers |-> NoJob] /\ UNCHANGED <<cfg, store, ccalls>>

CfgNext ==
    \/ \E j \in Savers : \/ ReceiveSave(j) \/ ReadBackup(j) \/ ReadActive(j) \/ WriteContent(j)
                         \/ WriteMeta(j) \/ Validate(j) \/ AtomicRename(j)
    \/ Edit \/ CfgCrash

CfgSpec == CfgInit /\ [][CfgNext]_cfgVars

-----------------------------------------------------------------------------
Saved(c) == \E i \in BackupIds : store[i] = [content |-> c, meta |-> c]

\* Types of what the properties below are about.
CfgTypeOK ==
    /\ cfg \in Configs \cup {"none"}
    /\ store \in [BackupIds -> [content : Configs \cup {"none"}, meta : Configs \cup {"none"}]]

\* Every backup the page lists can be restored: metadata never exists
\* without the content it describes, even after a crash between the two
\* files or with two requests at once (configbackup/manager.go:230-262).
ListedIsRestorable == \A i \in Listed : store[i].content = store[i].meta

\* A restore that is about to rename its candidate has a complete, listed
\* copy of the file it will replace, unless that file was absent when the
\* restore looked, was edited since, or another restore replaced it with
\* content that is itself a listed backup (manager.go:117-157).
ReplacedIsSaved ==
    \A j \in Savers : job[j].at = "rename" /\ job[j].from # "none" =>
        /\ Saved(job[j].from)
        /\ cfg = job[j].from \/ job[j].edited \/ Saved(cfg)

\* manager.go: what List offers can be restored, and Restore destroys nothing unsaved.
ConfigBackupInv == CfgTypeOK /\ ListedIsRestorable /\ ReplacedIsSaved

\* The Manager controls only its own Gateway, and destroys no configuration of the user's.
ManagerInv == ManagerRuntimeInv /\ ConfigBackupInv
=============================================================================
