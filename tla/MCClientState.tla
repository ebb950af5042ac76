----------------------------- MODULE MCClientState -----------------------------
(***************************************************************************)
(* Small instances of what a computer keeps and does for the Cloud, for    *)
(* TLC: Core and its bridge, the Skill registry, device credentials, the   *)
(* client's start, the recycle bin of sessions, disk maintenance and       *)
(* telemetry, the Manager's runtime control and backups, the Cloud CLI and *)
(* the OpenClaw plugin.  The models share no variable, so their union is   *)
(* checked: a behaviour is one of the part it starts with.  The modules    *)
(* that ClientStateProofs is about are extended, their constants in the    *)
(* .cfg:                                                                   *)
(*   two calls that may share a tool call id, two confirmations and one    *)
(*     new policy;                                                         *)
(*   two Skill versions for two agents, four calls and two failures;       *)
(*   two requests to the Manager and two acts of the user or failures;     *)
(*   two savers, four requests in all, three backups, two edits or         *)
(*     crashes;                                                            *)
(*   two cloud addresses, two registrations and two failures;              *)
(*   one activation code that two devices want, one edit of the            *)
(*     configuration, and time for a cache to run out;                     *)
(*   four commands, two plugin releases, two device records, one failure;  *)
(*   two callers in two sessions that share a tool call id, one lost       *)
(*     answer;                                                             *)
(*   two sessions, two confirmations and two operations at a time, three   *)
(*     in all, one failure.                                                *)
(* The others are instances with their constants here.                     *)
(***************************************************************************)
EXTENDS Integers, CoreBridge, SkillLifecycle, ClientBoot, ConfigBackup, CloudPlugin, SessionTrash

VARIABLES
  part,                                                   \* the part that runs
  items, dirs, wanted, crun, logs, writer, written, stfaults,  \* StorageMaintenance
  rep, posts, seen, refused, told, aged, attempts, accepted, counted, others, tlfaults
                                                          \* Telemetry

\* One version to download, three log files of two bytes, room for three entries.
Storage == INSTANCE StorageMaintenance WITH
  DlVersions <- {1}, RetainedLogs <- 3, LogBytes <- 2, LineSizes <- {1, 2}, HardLimit <- 3, MaxLines <- 5, StFaults <- 1
ASSUME Storage!StorageAssumption

\* Four events for a queue of two, two batches an hour, one entry for devices.
Report == INSTANCE Telemetry WITH
  old <- aged, MaxEvents <- 2, OtherDevices <- {"d1"}, MaxDevices <- 1, RateLimit <- 2, MaxRecords <- 4,
  MaxOthers <- 1, TlFaults <- 1
ASSUME Report!TelemetryAssumption

storageVars == <<items, dirs, wanted, crun, logs, writer, written, stfaults>>
reportVars == <<rep, posts, seen, refused, told, aged, attempts, accepted, counted, others, tlfaults>>
localVars == <<trashVars, storageVars, reportVars>>
desktopVars == <<coreVars, skillVars, credVars, bootVars, localVars>>
managerVars == <<rtVars, cfgVars>>
cloudVars == <<cliVars, pluginVars>>
partVars == <<part, desktopVars, managerVars, cloudVars>>

\* A part that does not run stays in one of its initial states.
PartInit ==
  /\ part \in {"core", "skills", "credentials", "start", "trash", "storage", "report",
               "runtime", "backup", "cli", "plugin"}
  /\ CoreInit /\ (part # "core" => grants = {} /\ ~parser)
  /\ SkillInit
  /\ CredInit /\ (part # "credentials" => djson.kind = "absent")
  /\ BootInit
  /\ TrashInit /\ Storage!StorageInit /\ Report!TelemetryInit
  /\ RtInit /\ (part # "runtime" => oc = "missing" /\ autostart = "absent")
  /\ CfgInit /\ (part # "backup" => cfg = "none")
  /\ CliInit /\ (part # "cli" => plugin = NoPlugin /\ \A v \in 1..2 : release[v] = "paused")
  /\ PlInit

PartNext ==
  \/ /\ part = "core" /\ CoreNext
     /\ UNCHANGED <<part, skillVars, credVars, bootVars, localVars, managerVars, cloudVars>>
  \/ /\ part = "skills" /\ SkillNext
     /\ UNCHANGED <<part, coreVars, credVars, bootVars, localVars, managerVars, cloudVars>>
  \/ /\ part = "credentials" /\ CredNext
     /\ UNCHANGED <<part, coreVars, skillVars, bootVars, localVars, managerVars, cloudVars>>
  \/ /\ part = "start" /\ BootNext
     /\ UNCHANGED <<part, coreVars, skillVars, credVars, localVars, managerVars, cloudVars>>
  \/ /\ part = "trash" /\ TrashNext
     /\ UNCHANGED <<part, coreVars, skillVars, credVars, bootVars, storageVars, reportVars, managerVars, cloudVars>>
  \/ /\ part = "storage" /\ Storage!StorageNext
     /\ UNCHANGED <<part, coreVars, skillVars, credVars, bootVars, trashVars, reportVars, managerVars, cloudVars>>
  \/ /\ part = "report" /\ Report!TelemetryNext
     /\ UNCHANGED <<part, coreVars, skillVars, credVars, bootVars, trashVars, storageVars, managerVars, cloudVars>>
  \/ /\ part = "runtime" /\ RtNext
     /\ UNCHANGED <<part, desktopVars, cfgVars, cloudVars>>
  \/ /\ part = "backup" /\ CfgNext
     /\ UNCHANGED <<part, desktopVars, rtVars, cloudVars>>
  \/ /\ part = "cli" /\ CliNext
     /\ UNCHANGED <<part, desktopVars, managerVars, pluginVars>>
  \/ /\ part = "plugin" /\ PlNext
     /\ UNCHANGED <<part, desktopVars, managerVars, cliVars>>

PartSpec == PartInit /\ [][PartNext]_partVars

-----------------------------------------------------------------------------
(* The properties are those of the modules, where they are explained, of    *)
(* the part that runs.                                                      *)

\* session-management.ts: a session is deleted only after its own retention and by a
\* confirmation of its own.  storage-maintenance.ts: the installer of a pending update
\* is never removed, and rotation loses no line but the oldest.  client-telemetry.ts:
\* what is counted was sent once, and a device keeps to its rate.
LocalDataInv ==
  /\ part = "trash" => SessionTrashInv
  /\ part = "storage" => Storage!StorageInv
  /\ part = "report" => Report!TelemetryInv
=============================================================================
