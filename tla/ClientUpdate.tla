---------------------------- MODULE ClientUpdate ----------------------------
(***************************************************************************)
(* The desktop client's update of itself (client-update.ts,                *)
(* client-update-coordinator.ts, client-run-marker.ts, main.ts): a trusted *)
(* offer is downloaded together with the installer of the running version, *)
(* the state is copied to a snapshot, a pending file is written and the    *)
(* installer is started.  The new version counts its starts until its      *)
(* window is healthy; a health timer, a failed confirmation or the third   *)
(* start roll back: the state is put aside entry by entry, the snapshot is *)
(* copied back, and the old installer is started.                          *)
(*                                                                         *)
(* The process may die between any two steps on the disk.  Contents are    *)
(* numbers: a state entry holds the version that wrote it last, the update *)
(* state the highest sequence accepted, and 0 is a missing file.           *)
(***************************************************************************)
EXTENDS Integers

CONSTANTS
  Versions,     \* versions, which are also their release sequences
  MaxAttempts,  \* beginStartup's maxAttempts
  Faults        \* bound: crashes, failed launches, installs and verifications

\* There is a first version; 0 stands for none.
ASSUME ClientAssumption ==
  /\ Versions \subseteq Nat \ {0} /\ \E first \in Versions : \A v \in Versions : first <= v
  /\ MaxAttempts \in Nat \ {0} /\ Faults \in Nat

VARIABLES
  installed,   \* the version on the disk
  app,         \* the process: version, pc, the rollback and the health check
  marker,      \* client-run-marker.json
  exit,        \* what the marker told the last start: "clean", "unclean", "none"
  died,        \* history: the last process left without will-quit
  data,        \* the state entries
  snap,        \* the pending update's snapshot
  pending,     \* pending-update.json
  installers,  \* versions in the installer inventory
  blocked,     \* last-rollback.json: the version that was rolled back
  faults

clientVars == <<installed, app, marker, exit, died, data, snap, pending, installers, blocked, faults>>
clientDisk == <<data, snap, pending, installers, blocked>>

FirstVersion == CHOOSE first \in Versions : \A v \in Versions : first <= v
Entries == {"openclaw", "packs", "state"}
None == [target |-> 0]
Off == [ver |-> 0, pc |-> "off", rb |-> "no", todo |-> {}, hp |-> "no", checks |-> FALSE,
        offer |-> 0, got |-> FALSE]

ClientInit ==
  /\ installed = FirstVersion
  /\ app = Off
  /\ marker = "none" /\ exit = "none" /\ died = FALSE
  /\ data = [e \in Entries |-> IF e = "openclaw" THEN FirstVersion ELSE 0]
  /\ snap = [e \in Entries |-> 0]
  /\ pending = None
  /\ installers = {}
  /\ blocked = 0
  /\ faults = Faults

Fault == faults > 0 /\ faults' = faults - 1

-----------------------------------------------------------------------------
(* Starting and ending                                                      *)

\* will-quit marks the run as clean.
Quit == app' = Off /\ marker' = "clean" /\ died' = FALSE
\* app.relaunch and app.exit, which skip will-quit.
Relaunch == app' = Off /\ died' = TRUE /\ UNCHANGED marker

\* Variant: a start of the target is not counted.
BeginStartupUncounted(v) ==
  IF pending # None /\ pending.phase = "rolled" /\ pending.prev = v
    THEN /\ blocked' = pending.target
         /\ pending' = None
         /\ installers' = installers \cap {pending.prev}
         /\ app' = [Off EXCEPT !.ver = v, !.pc = "run"]
  ELSE /\ app' = [Off EXCEPT !.ver = v, !.pc = "run"]
       /\ UNCHANGED <<pending, blocked, installers>>

\* beginStartup: a rollback that arrived is recorded; a start of the target is
\* counted, and from the last one allowed rolls back.
BeginStartup(v) ==
  IF pending # None /\ pending.phase = "rolled" /\ pending.prev = v
    THEN /\ blocked' = pending.target
         /\ pending' = None
         /\ installers' = installers \cap {pending.prev}
         /\ app' = [Off EXCEPT !.ver = v, !.pc = "run"]
  ELSE IF pending # None /\ pending.target = v
    THEN LET n == pending.attempts + 1 IN
         /\ pending' = [pending EXCEPT !.attempts = n]
         /\ app' = IF pending.phase = "rolled" \/ n >= MaxAttempts
                     THEN [Off EXCEPT !.ver = v, !.pc = "start", !.rb = "verify"]
                     ELSE [Off EXCEPT !.ver = v, !.pc = "run"]
         /\ UNCHANGED <<blocked, installers>>
  ELSE /\ app' = [Off EXCEPT !.ver = v, !.pc = "run"]
       /\ UNCHANGED <<pending, blocked, installers>>

\* ClientRunMarker.begin: a run that is still marked as running ended uncleanly.
BeginRun ==
  /\ exit' = IF marker = "running" THEN "unclean" ELSE marker
  /\ marker' = "running"

StartClient ==
  /\ app.pc = "off"
  /\ BeginRun
  /\ BeginStartup(installed)
  /\ UNCHANGED <<installed, died, data, snap, faults>>

Crash ==
  /\ app.pc # "off" /\ Fault
  /\ app' = Off /\ died' = TRUE
  /\ UNCHANGED <<installed, marker, exit, clientDisk>>

UserQuits ==
  /\ app.pc = "run" /\ app.rb # "prep" /\ Quit
  /\ UNCHANGED <<installed, exit, clientDisk, faults>>

\* The runtime of the running version writes its state.
Write(e) ==
  /\ app.pc = "run" /\ app.rb # "prep" /\ e # "state"
  /\ data' = [data EXCEPT ![e] = app.ver]
  /\ UNCHANGED <<installed, app, marker, exit, died, snap, pending, installers, blocked, faults>>

-----------------------------------------------------------------------------
(* Health                                                                   *)

\* The chat page has loaded for the first time: the health timer is stopped and
\* the target's installer is verified once more.
Loaded ==
  /\ app.pc = "run" /\ app.hp = "no" /\ app.rb # "prep"
  /\ app' = [app EXCEPT !.hp = "verify"]
  /\ UNCHANGED <<installed, marker, exit, died, clientDisk, faults>>

\* markHealthy reads the pending file again.
MarkHealthy ==
  /\ app.pc = "run" /\ app.hp = "verify" /\ app.rb # "prep"
  /\ IF pending # None /\ pending.phase = "installing" /\ pending.target = app.ver
       THEN /\ pending' = None
            /\ installers' = (installers \cap {pending.prev}) \cup {pending.target}
       ELSE UNCHANGED <<pending, installers>>
  \* Updates are looked for unless an update was left unresolved at the start.
  /\ app' = [app EXCEPT !.hp = "ok", !.checks = pending = None \/ pending.target = app.ver]
  /\ UNCHANGED <<installed, marker, exit, died, data, snap, blocked, faults>>

\* The confirmation failed, or the timer fired first.
HealthFails ==
  /\ app.pc = "run" /\ app.rb = "no" /\ pending # None /\ pending.target = app.ver
  /\ \/ app.hp = "no" /\ UNCHANGED faults
     \/ app.hp = "verify" /\ Fault
  /\ app' = [app EXCEPT !.rb = "verify", !.hp = IF @ = "verify" THEN "failed" ELSE @]
  /\ UNCHANGED <<installed, marker, exit, died, clientDisk>>

-----------------------------------------------------------------------------
(* Rolling back                                                             *)

\* The old installer is verified and the runtime stopped; both are awaited.
VerifyRollback ==
  /\ app.rb = "verify"
  /\ \/ Quit /\ (IF pending = None THEN UNCHANGED faults ELSE Fault)
     \/ pending # None /\ app' = [app EXCEPT !.rb = "stop"] /\ UNCHANGED <<marker, died, faults>>
  /\ UNCHANGED <<installed, exit, clientDisk>>

\* prepareRollback: nothing else of the process runs until it returns.
PrepareRollback ==
  /\ app.rb = "stop"
  /\ IF pending = None THEN Quit
     ELSE /\ app' = [app EXCEPT !.pc = "stopped", !.rb = "prep", !.todo = Entries]
          /\ UNCHANGED <<marker, died>>
  /\ UNCHANGED <<installed, exit, clientDisk, faults>>

\* The entry is moved to the failed state, or deleted if it is there already.
PutAside(e) ==
  /\ app.rb = "prep" /\ e \in app.todo /\ data[e] # 0
  /\ data' = [data EXCEPT ![e] = 0]
  /\ UNCHANGED <<installed, app, marker, exit, died, snap, pending, installers, blocked, faults>>

\* Its copy in the snapshot, if there is one, is copied and renamed into place.
Restore(e) ==
  /\ app.rb = "prep" /\ e \in app.todo /\ data[e] = 0
  /\ data' = [data EXCEPT ![e] = snap[e]]
  /\ app' = [app EXCEPT !.todo = @ \ {e}]
  /\ UNCHANGED <<installed, marker, exit, died, snap, pending, installers, blocked, faults>>

\* Variant: the rollback is announced before every entry is restored.
RollbackReadyEarly ==
  /\ app.rb = "prep"
  /\ pending' = [pending EXCEPT !.phase = "rolled"]
  /\ app' = [app EXCEPT !.rb = "launch", !.todo = {}]
  /\ UNCHANGED <<installed, marker, exit, died, data, snap, installers, blocked, faults>>

RollbackReady ==
  /\ app.rb = "prep" /\ app.todo = {}
  /\ pending' = [pending EXCEPT !.phase = "rolled"]
  /\ app' = [app EXCEPT !.rb = "launch"]
  /\ UNCHANGED <<installed, marker, exit, died, data, snap, installers, blocked, faults>>

\* The old installer runs, and installs or fails; the client quits.
LaunchRollback ==
  /\ app.rb = "launch" /\ Quit
  /\ \/ installed' = pending.prev /\ UNCHANGED faults
     \/ installed' = installed /\ Fault
  /\ UNCHANGED <<exit, clientDisk>>

-----------------------------------------------------------------------------
(* Updating                                                                 *)

\* ClientUpdateVerifier.check: an offer below the highest sequence is an error,
\* and the version that was rolled back is not offered again.
Highest(o) == o >= data["state"] /\ data' = [data EXCEPT !["state"] = o]
Offered(o) == o # blocked /\ o > app.ver

Check(o) ==
  /\ app.pc = "run" /\ app.checks /\ app.rb = "no" /\ app.offer = 0
  /\ Highest(o)
  /\ app' = IF Offered(o) THEN [app EXCEPT !.offer = o] ELSE app
  /\ UNCHANGED <<installed, marker, exit, died, snap, pending, installers, blocked, faults>>

\* The user agreed.  The installer of the target and that of the running version,
\* whose signed release the cloud still has, are in the inventory.
WithRollbackInstaller == installers \cup {app.ver}

Download ==
  /\ app.pc = "run" /\ app.offer # 0 /\ ~app.got
  /\ app' = [app EXCEPT !.got = TRUE]
  /\ installers' = WithRollbackInstaller
  /\ UNCHANGED <<installed, marker, exit, died, data, snap, pending, blocked, faults>>

\* The user declines, or a download fails.
Forget ==
  /\ app.pc = "run" /\ app.offer # 0
  /\ app' = [app EXCEPT !.offer = 0, !.got = FALSE]
  /\ UNCHANGED <<installed, marker, exit, died, clientDisk, faults>>

\* revalidate: the release was replaced while the user was asked.
Withdrawn(o) ==
  /\ app.pc = "run" /\ app.got /\ o # app.offer
  /\ Highest(o)
  /\ app' = [app EXCEPT !.offer = 0, !.got = FALSE]
  /\ UNCHANGED <<installed, marker, exit, died, snap, pending, installers, blocked, faults>>

\* The runtime is stopped; createPending copies the snapshot and then writes the
\* pending file.  A pending update is an error that restarts the client.
CreatePending ==
  /\ app.pc = "run" /\ app.got /\ app.offer >= data["state"]
  /\ IF pending # None THEN Relaunch /\ UNCHANGED <<pending, snap>>
     ELSE /\ snap' = data
          /\ pending' = [prev |-> app.ver, target |-> app.offer, attempts |-> 0,
                         phase |-> "installing"]
          /\ app' = [app EXCEPT !.pc = "stopped"]
          /\ UNCHANGED <<marker, died>>
  /\ UNCHANGED <<installed, exit, data, installers, blocked, faults>>

\* The installer starts, and installs or fails; or it does not start, and the
\* pending update is cancelled.
Launch ==
  /\ app.pc = "stopped" /\ app.offer # 0
  /\ \/ installed' = app.offer /\ Quit /\ UNCHANGED <<pending, faults>>
     \/ installed' = installed /\ Quit /\ UNCHANGED pending /\ Fault
     \/ installed' = installed /\ Relaunch /\ pending' = None /\ Fault
  /\ UNCHANGED <<exit, data, snap, installers, blocked>>

-----------------------------------------------------------------------------
ClientSteps ==
  \/ StartClient \/ Loaded \/ MarkHealthy \/ VerifyRollback \/ PrepareRollback
  \/ RollbackReady \/ LaunchRollback \/ Launch
  \/ \E e \in Entries : PutAside(e) \/ Restore(e)

ClientNext ==
  \/ ClientSteps \/ Crash \/ UserQuits \/ HealthFails \/ Download \/ Forget \/ CreatePending
  \/ \E e \in Entries : Write(e)
  \/ \E o \in Versions : Check(o) \/ Withdrawn(o)

ClientSpec == ClientInit /\ [][ClientNext]_clientVars
\* The user starts the client again, and its steps go on.
ClientFairSpec == ClientSpec /\ WF_clientVars(ClientSteps)

-----------------------------------------------------------------------------
\* The old version is never installed again before the rollback is whole: it
\* finds every entry as it was before the update.
RolledBackWhole == pending # None /\ pending.phase = "rolled" /\ installed = pending.prev => data = snap

\* While an update is pending the way back is there, and nobody but the two
\* versions of the update is installed.
WayBack ==
  pending # None => pending.prev \in installers /\ installed \in {pending.prev, pending.target}

\* No version ever runs on state that a later version wrote.
NoFutureState == app.pc = "run" => \A e \in Entries \ {"state"} : data[e] <= app.ver

\* The marker tells the next start whether the last process came to will-quit.
MarkerTells == app.pc # "off" /\ exit # "none" => (exit = "unclean") = died

\* Types of what the properties below are about.
UpdateTypeOK ==
  /\ installed \in Versions /\ installers \subseteq Versions
  /\ data \in [Entries -> Versions \cup {0}] /\ snap \in [Entries -> Versions \cup {0}]
  /\ pending # None => pending.attempts \in 0..MaxAttempts + Faults + 1

\* What client-update-coordinator.ts records and restores across any crash.
ClientUpdateInv == UpdateTypeOK /\ RolledBackWhole /\ WayBack /\ NoFutureState /\ MarkerTells

\* An update whose target was installed is confirmed or rolled back in the end.
UpdateSettles == pending # None /\ installed = pending.target ~> pending = None
=============================================================================
