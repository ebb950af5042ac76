---------------------------- MODULE ManagerUpdate ----------------------------
(***************************************************************************)
(* The LongHub Manager updating itself (Go, internal/managerupdate): the   *)
(* HTTP handlers Refresh, Download and Apply of the Coordinator, the       *)
(* pending-update.json file of the RecoveryStore, RecoverOnStartup with    *)
(* its bounded attempts and its health window, and the NSIS installers the *)
(* Manager launches before it stops.                                       *)
(*                                                                         *)
(* The pending file outlives the processes that write it; everything else  *)
(* a Manager knows is lost when it ends.  Requests of one process run in   *)
(* their own goroutines and hold the coordinator's lock only to copy its   *)
(* fields, so a request works on snapshots.  A Manager reads and counts    *)
(* the pending update BEFORE it binds its port: a second Manager started   *)
(* by the user does so too.                                                *)
(*                                                                         *)
(* Signatures and digests are abstracted: an installer is its version, and *)
(* it verifies against a manifest exactly when their versions agree.  The  *)
(* status strings shown to the page guard nothing and are left out.        *)
(***************************************************************************)
EXTENDS Naturals, FiniteSets

CONSTANTS
    Procs,              \* Manager processes that may be up at the same time
    Requests,           \* HTTP requests in flight at the same time
    MaxVersion,         \* bound: the newest version ever published
    Budgets             \* bound: how many disturbances of each kind may come together

\* Processes that end by themselves; writes, launches and installers that fail;
\* Managers started while an installer runs; Managers started beside another;
\* Apply requests that found no pending file while one that another of them was
\* about to write was still missing.
Disturbances == {"crash", "fault", "early", "second", "race"}

ASSUME UpdateBounds ==
    /\ MaxVersion \in Nat \ {0}
    /\ Budgets \subseteq [Disturbances -> Nat]

Version == 1..MaxVersion
NoVersion == 0          \* no version: the zero Candidate, the empty path

VARIABLES
    latest,      \* the version the cloud publishes
    disk,        \* the version of LongHubManager.exe in the program directory
    recovery,    \* installers kept in <program>/recovery
    pendingFile, \* pending-update.json, or NoPending
    procs,       \* each Manager process
    requests,    \* each HTTP request of the serving Manager
    launched,    \* installers that were launched and have not ended
    spent        \* how often each disturbance has happened

managerVars == <<latest, disk, recovery, pendingFile, procs, requests, launched, spent>>

NoPending == [prev |-> NoVersion, target |-> NoVersion, attempts |-> 0, phase |-> "none"]
NoCandidate == [ver |-> NoVersion, eligible |-> FALSE]
NotUp == [pc |-> "off", ver |-> NoVersion, timer |-> FALSE, stopping |-> FALSE,
          snap |-> NoPending, candidate |-> NoCandidate, path |-> NoVersion]
NoRequest == [pc |-> "idle", candidate |-> NoCandidate, path |-> NoVersion]

PendingUpdate == [prev : Version \cup {NoVersion}, target : Version \cup {NoVersion},
                  attempts : 0..4, phase : {"none", "installing", "rollback"}]
Candidate == [ver : Version \cup {NoVersion}, eligible : BOOLEAN]
ManagerProcess ==
    [pc : {"off", "starting", "counting", "unhealthy", "rolling", "binding", "serving"},
     ver : Version \cup {NoVersion}, timer : BOOLEAN, stopping : BOOLEAN,
     snap : PendingUpdate, candidate : Candidate, path : Version \cup {NoVersion}]
UpdateRequest == [pc : {"idle", "store", "download", "exact", "write", "launch"},
                  candidate : Candidate, path : Version \cup {NoVersion}]

\* Each field has the type of the Go value it stands for.
ManagerTypeOK ==
    /\ latest \in Version
    /\ disk \in Version
    /\ recovery \subseteq Version
    /\ pendingFile \in PendingUpdate
    /\ procs \in [Procs -> ManagerProcess]
    /\ requests \in [Requests -> UpdateRequest]
    /\ launched \subseteq [ver : Version, by : Requests \cup Procs]
    /\ spent \in [Disturbances -> Nat]

ManagerInit ==
    /\ latest = 1
    /\ disk = 1
    /\ recovery = {1}
    /\ pendingFile = NoPending
    /\ procs = [p \in Procs |-> NotUp]
    /\ requests = [r \in Requests |-> NoRequest]
    /\ launched = {}
    /\ spent = [d \in Disturbances |-> 0]

-----------------------------------------------------------------------------
(* The pending file.                                                        *)

Present == pendingFile # NoPending

\* Read refuses a file whose attempts exceed three; a refused file is an error
\* for every caller, and stays where it is.
Readable == Present /\ pendingFile.attempts <= 3

\* write replaces the file by renaming a complete one over it.
WritePending(file) == pendingFile' = file

\* Disturbances happen together if the budgets of the model allow it.
Spend(kinds) ==
    /\ spent' = [d \in Disturbances |-> IF d \in kinds THEN spent[d] + 1 ELSE spent[d]]
    /\ \E b \in Budgets : \A d \in Disturbances : spent'[d] <= b[d]
ManagerFault == Spend({"fault"})

\* What Spend counts for a request that passes Prepare's check: nothing locks the
\* file between that check and the write, so another request may be there already.
Overtaking == {d \in {"race"} : \E s \in Requests : requests[s].pc = "write"}

Up == {p \in Procs : procs[p].pc # "off"}
Serving(p) == procs[p].pc = "serving"
Move(p, pc) == procs' = [procs EXCEPT ![p].pc = pc]

\* Requests die with the process that serves them.
EndsManager(p) ==
    /\ procs' = [procs EXCEPT ![p] = NotUp]
    /\ requests' = IF Serving(p) THEN [r \in Requests |-> NoRequest] ELSE requests

-----------------------------------------------------------------------------
(* Publishing, and the start of a Manager: main, RecoverOnStartup.          *)

Publish ==
    /\ latest < MaxVersion
    /\ latest' = latest + 1
    /\ UNCHANGED <<disk, recovery, pendingFile, procs, requests, launched, spent>>

\* The user, the tray or the Task Scheduler starts the installed version.
StartManager(p) ==
    /\ procs[p].pc = "off"
    /\ Spend({d \in Disturbances : \/ d = "early" /\ launched # {}
                                   \/ d = "second" /\ Up # {}})
    /\ procs' = [procs EXCEPT ![p] = [NotUp EXCEPT !.pc = "starting", !.ver = disk]]
    /\ UNCHANGED <<latest, disk, recovery, pendingFile, requests, launched>>

\* The version that is being rolled back to has started: the update is over.
RollbackConfirmed(p) ==
    Readable /\ pendingFile.phase = "rollback" /\ procs[p].ver = pendingFile.prev

\* The target of the pending update has started, once more.
TargetStarted(p) ==
    Readable /\ pendingFile.phase = "installing" /\ procs[p].ver = pendingFile.target

\* RecordTargetStartup up to its write.  Any other version, phase or file is
\* an error that RecoverOnStartup returns and main only logs.
RecordTargetStartupReads(p) ==
    /\ procs[p].pc = "starting"
    /\ IF TargetStarted(p)
       THEN procs' = [procs EXCEPT ![p].pc = "counting",
                                   ![p].snap = [pendingFile EXCEPT !.attempts = @ + 1]]
       ELSE Move(p, "binding")
    /\ pendingFile' = IF RollbackConfirmed(p) THEN NoPending ELSE pendingFile
    /\ UNCHANGED <<latest, disk, recovery, requests, launched, spent>>

\* Variant: only the first start of the target opens a health window.
WindowOnlyOnce(p) ==
    /\ procs[p].pc = "counting"
    /\ pendingFile' = procs[p].snap
    /\ procs' = [procs EXCEPT ![p].pc = IF procs[p].snap.attempts >= 3
                                        THEN "unhealthy" ELSE "binding",
                              ![p].timer = procs[p].snap.attempts = 1]
    /\ UNCHANGED <<latest, disk, recovery, requests, launched, spent>>

\* The counted attempt is written; the third one asks for the rollback, the
\* others start the health window.
RecordTargetStartupWrites(p) ==
    /\ procs[p].pc = "counting"
    /\ WritePending(procs[p].snap)
    /\ procs' = [procs EXCEPT ![p].pc = IF procs[p].snap.attempts >= 3
                                        THEN "unhealthy" ELSE "binding",
                              ![p].timer = procs[p].snap.attempts < 3]
    /\ UNCHANGED <<latest, disk, recovery, requests, launched, spent>>

\* Variant: the old installer is launched before the phase is recorded.
RollsBackUnrecorded(p) ==
    /\ procs[p].pc = "unhealthy"
    /\ procs[p].snap.prev \in recovery /\ Readable
    /\ Move(p, "rolling")
    /\ UNCHANGED <<latest, disk, recovery, pendingFile, requests, launched, spent>>

\* VerifyInstaller on the kept installer, then BeginRollback.
BeginRollback(p) ==
    /\ procs[p].pc = "unhealthy"
    /\ IF procs[p].snap.prev \in recovery /\ Readable
       THEN Move(p, "rolling") /\ WritePending([pendingFile EXCEPT !.phase = "rollback"])
       ELSE Move(p, "binding") /\ UNCHANGED pendingFile
    /\ UNCHANGED <<latest, disk, recovery, requests, launched, spent>>

\* The kept installer is launched, and this Manager stops.
LaunchKept(p) ==
    /\ procs[p].pc = "rolling"
    /\ launched' = launched \cup {[ver |-> procs[p].snap.prev, by |-> p]}
    /\ EndsManager(p)
    /\ UNCHANGED <<latest, disk, recovery, pendingFile, spent>>

\* A write or a launch of the startup fails: the error is logged, and the
\* Manager goes on as if there were no update, without a health window.
StartupFault(p) ==
    /\ procs[p].pc \in {"counting", "unhealthy", "rolling"}
    /\ ManagerFault
    /\ Move(p, "binding")
    /\ UNCHANGED <<latest, disk, recovery, pendingFile, requests, launched>>

\* net.Listen: the port has one holder, and log.Fatalf ends the other.
Bind(p) ==
    /\ procs[p].pc = "binding"
    /\ IF \E q \in Procs : Serving(q)
       THEN EndsManager(p)
       ELSE Move(p, "serving") /\ UNCHANGED requests
    /\ UNCHANGED <<latest, disk, recovery, pendingFile, launched, spent>>

\* The health window has passed with this process up: MarkHealthy.
MarkManagerHealthy(p) ==
    /\ procs[p].timer
    /\ procs' = [procs EXCEPT ![p].timer = FALSE]
    /\ pendingFile' = IF TargetStarted(p) THEN NoPending ELSE pendingFile
    /\ UNCHANGED <<latest, disk, recovery, requests, launched, spent>>

\* A Manager crashes, is killed or is quit.
ManagerCrashes(p) ==
    /\ procs[p].pc # "off" /\ ~procs[p].stopping
    /\ Spend({"crash"})
    /\ EndsManager(p)
    /\ UNCHANGED <<latest, disk, recovery, pendingFile, launched>>

-----------------------------------------------------------------------------
(* The requests of the serving Manager.                                     *)

\* CompareVersions and RolloutEligible: is the published version newer, and is
\* this Manager's identity in its rollout?
Offer(published, current, inRollout) ==
    [ver |-> IF published > current THEN published ELSE NoVersion,
     eligible |-> published > current /\ inRollout]

\* Refresh asks the cloud what is published, and whether this Manager is in
\* its rollout, ...
RefreshAsks(p, r) ==
    /\ Serving(p) /\ requests[r].pc = "idle"
    /\ \E inRollout \in BOOLEAN :
         requests' = [requests EXCEPT ![r] =
            [NoRequest EXCEPT !.pc = "store",
                         !.candidate = Offer(latest, procs[p].ver, inRollout)]]
    /\ UNCHANGED <<latest, disk, recovery, pendingFile, procs, launched, spent>>

\* ... and stores the answer under the lock, forgetting the download.
RefreshStores(p, r) ==
    /\ Serving(p) /\ requests[r].pc = "store"
    /\ procs' = [procs EXCEPT ![p].candidate = requests[r].candidate, ![p].path = NoVersion]
    /\ requests' = [requests EXCEPT ![r] = NoRequest]
    /\ UNCHANGED <<latest, disk, recovery, pendingFile, launched, spent>>

\* Download copies the candidate under the lock and fetches its installer.
DownloadAsks(p, r) ==
    /\ Serving(p) /\ requests[r].pc = "idle"
    /\ procs[p].candidate.eligible
    /\ requests' = [requests EXCEPT ![r] =
                     [NoRequest EXCEPT !.pc = "download", !.candidate = procs[p].candidate]]
    /\ UNCHANGED <<latest, disk, recovery, pendingFile, procs, launched, spent>>

\* The installer is complete, verified and renamed into the update root, or
\* the download failed and nothing is remembered.
DownloadEnds(p, r) ==
    /\ Serving(p) /\ requests[r].pc = "download"
    /\ \/ procs' = [procs EXCEPT ![p].path = requests[r].candidate.ver]
       \/ UNCHANGED procs
    /\ requests' = [requests EXCEPT ![r] = NoRequest]
    /\ UNCHANGED <<latest, disk, recovery, pendingFile, launched, spent>>

\* Apply copies the candidate and the downloaded path under the lock and asks
\* the cloud for the signed metadata of the version it would roll back to.
ApplyAsks(p, r) ==
    /\ Serving(p) /\ requests[r].pc = "idle"
    /\ procs[p].path # NoVersion /\ procs[p].candidate.eligible
    /\ requests' = [requests EXCEPT ![r] =
                     [pc |-> "exact", candidate |-> procs[p].candidate, path |-> procs[p].path]]
    /\ UNCHANGED <<latest, disk, recovery, pendingFile, procs, launched, spent>>

\* VerifyInstaller: the file has the size and the digest of the manifest.
VerifyInstaller(installer, manifest) == installer = manifest

\* What Prepare requires: a newer target, the downloaded installer being that
\* target's, the kept installer being this version's, and no pending update.
Prepared(p, r) ==
    /\ requests[r].candidate.ver > procs[p].ver
    /\ VerifyInstaller(requests[r].path, requests[r].candidate.ver)
    /\ procs[p].ver \in recovery
    /\ ~Present

\* Variant: an update that is already pending is overwritten.
PreparesOverAnother(p, r) ==
    /\ Serving(p) /\ requests[r].pc = "exact"
    /\ \/ /\ requests[r].candidate.ver > procs[p].ver
          /\ requests[r].path = requests[r].candidate.ver
          /\ procs[p].ver \in recovery
          /\ requests' = [requests EXCEPT ![r].pc = "write"]
          /\ Spend(Overtaking)
       \/ requests' = [requests EXCEPT ![r] = NoRequest] /\ UNCHANGED spent
    /\ UNCHANGED <<latest, disk, recovery, pendingFile, procs, launched>>

\* The metadata has come, and Prepare has made its checks, the last of which
\* is that Read finds no file; or the metadata is unavailable, or a check fails.
ApplyChecks(p, r) ==
    /\ Serving(p) /\ requests[r].pc = "exact"
    /\ \/ /\ Prepared(p, r)
          /\ requests' = [requests EXCEPT ![r].pc = "write"]
          /\ Spend(Overtaking)
       \/ requests' = [requests EXCEPT ![r] = NoRequest] /\ UNCHANGED spent
    /\ UNCHANGED <<latest, disk, recovery, pendingFile, procs, launched>>

\* Prepare writes the file, over the one of a request that came first if there is one.
ApplyWrites(p, r) ==
    /\ Serving(p) /\ requests[r].pc = "write"
    /\ WritePending([prev |-> procs[p].ver, target |-> requests[r].candidate.ver,
                     attempts |-> 0, phase |-> "installing"])
    /\ requests' = [requests EXCEPT ![r].pc = "launch"]
    /\ UNCHANGED <<latest, disk, recovery, procs, launched, spent>>

\* The downloaded installer is launched, and the Manager stops soon after.
ApplyLaunches(p, r) ==
    /\ Serving(p) /\ requests[r].pc = "launch"
    /\ launched' = launched \cup {[ver |-> requests[r].path, by |-> r]}
    /\ procs' = [procs EXCEPT ![p].stopping = TRUE]
    /\ requests' = [requests EXCEPT ![r] = NoRequest]
    /\ UNCHANGED <<latest, disk, recovery, pendingFile, spent>>

\* The file cannot be written or the installer not launched: the request
\* fails, and a file that was written stays.
ApplyFault(p, r) ==
    /\ Serving(p) /\ requests[r].pc \in {"write", "launch"}
    /\ ManagerFault
    /\ requests' = [requests EXCEPT ![r] = NoRequest]
    /\ UNCHANGED <<latest, disk, recovery, pendingFile, procs, launched>>

\* The stop that Apply scheduled 750 ms ahead.
StopManager(p) ==
    /\ procs[p].stopping
    /\ EndsManager(p)
    /\ UNCHANGED <<latest, disk, recovery, pendingFile, launched, spent>>

-----------------------------------------------------------------------------
(* The installers.                                                          *)

\* The image of a running Manager cannot be replaced.  The installer keeps a
\* copy of itself as the recovery installer and starts what it installed.
InstallerSucceeds(i) ==
    /\ i \in launched
    /\ Up = {}
    /\ disk' = i.ver
    /\ recovery' = recovery \cup {i.ver}
    /\ launched' = launched \ {i}
    /\ \E p \in Procs : procs' = [procs EXCEPT ![p] =
                                    [NotUp EXCEPT !.pc = "starting", !.ver = i.ver]]
    /\ UNCHANGED <<latest, pendingFile, requests, spent>>

\* The installer gives up: another Manager holds the image, or by a fault.
InstallerFails(i) ==
    /\ i \in launched
    /\ \/ (\E p \in Up : ~procs[p].stopping) /\ UNCHANGED spent
       \/ ManagerFault
    /\ launched' = launched \ {i}
    /\ UNCHANGED <<latest, disk, recovery, pendingFile, procs, requests>>

-----------------------------------------------------------------------------
Startup(p) ==
    \/ RecordTargetStartupReads(p) \/ RecordTargetStartupWrites(p)
    \/ BeginRollback(p) \/ LaunchKept(p) \/ Bind(p)

RequestSteps(p, r) ==
    \/ RefreshStores(p, r) \/ DownloadEnds(p, r)
    \/ ApplyChecks(p, r) \/ ApplyWrites(p, r) \/ ApplyLaunches(p, r)

ManagerNext ==
    \/ Publish
    \/ \E p \in Procs :
         \/ StartManager(p) \/ Startup(p) \/ StartupFault(p)
         \/ MarkManagerHealthy(p) \/ ManagerCrashes(p) \/ StopManager(p)
    \/ \E p \in Procs, r \in Requests :
         \/ RefreshAsks(p, r) \/ DownloadAsks(p, r) \/ ApplyAsks(p, r)
         \/ RequestSteps(p, r) \/ ApplyFault(p, r)
    \/ \E i \in launched : InstallerSucceeds(i) \/ InstallerFails(i)

\* Processes and goroutines run on, timers fire, installers end, and a Manager
\* that is down is started again; users need never ask for anything.
ManagerFairness ==
    /\ WF_managerVars(Up = {} /\ launched = {} /\ \E p \in Procs : StartManager(p))
    /\ \A p \in Procs : /\ WF_managerVars(Startup(p)) /\ WF_managerVars(MarkManagerHealthy(p))
                        /\ WF_managerVars(StopManager(p))
    /\ \A p \in Procs, r \in Requests : WF_managerVars(RequestSteps(p, r))
    /\ WF_managerVars(\E i \in launched : InstallerSucceeds(i))

ManagerSpec == ManagerInit /\ [][ManagerNext]_managerVars
ManagerFairSpec == ManagerSpec /\ ManagerFairness

-----------------------------------------------------------------------------
(* Properties.                                                              *)

\* No Manager was ever started beside another, and no two Apply requests were
\* ever between Prepare's check and its write together.
Alone == spent["second"] = 0 /\ spent["race"] = 0

\* Whatever is on disk while an update is pending is the version it replaces
\* or the version it installs: only then can a start be recognised by
\* RecordTargetStartup and the update be concluded or undone.
PendingExplainsDisk == Alone /\ Present => disk \in {pendingFile.prev, pendingFile.target}

\* The Manager's state is well formed and its pending file explains its disk.
UpdateInv == ManagerTypeOK /\ PendingExplainsDisk

\* An installation that has not been rolled back is forgotten (MarkHealthy)
\* only when its target is what is installed: a health window that was opened
\* for an earlier update cannot vouch for a later one, not even if two
\* Managers were up.
HealthOfTheInstalled ==
    [][pendingFile.phase = "installing" /\ pendingFile' = NoPending => disk = pendingFile.target]_managerVars

\* The installed version goes down only by the rollback of the pending update,
\* and to the version that update replaced: a rollback installer that outlived
\* its update would undo a later one.
DowngradeIsRollback ==
    [][Alone /\ disk' < disk => pendingFile.phase = "rollback" /\ disk' = pendingFile.prev]_managerVars

\* Only a recorded rollback goes back, and only the installed target is vouched for.
ConclusionsAreEarned == DowngradeIsRollback /\ HealthOfTheInstalled

\* An update whose target was installed is concluded, by health or by
\* rollback, although two of its starts end by themselves.
InstalledConcludes ==
    (pendingFile.phase = "installing" /\ disk = pendingFile.target)
      ~> (~Present \/ spent["crash"] > 2 \/ \E d \in Disturbances \ {"crash"} : spent[d] > 0)

=============================================================================
