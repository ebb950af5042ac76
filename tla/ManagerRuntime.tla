--------------------------- MODULE ManagerRuntime ---------------------------
(***************************************************************************)
(* The part of the local Manager that acts on the user's own OpenClaw: the *)
(* Gateway control with its process-local ownership flag, the fixed        *)
(* autostart task and the npm installation (internal/runtime and the       *)
(* handlers of internal/httpapi/server.go).                                *)
(*                                                                         *)
(* HTTP requests run concurrently.  Gateway control and the task's life    *)
(* cycle hold actionMu; a status request inspects without it and may still *)
(* clear the flag.  The user and other programs act at any time: they      *)
(* start and stop the Gateway, install another OpenClaw, register a task   *)
(* of the same name.                                                       *)
(***************************************************************************)
EXTENDS FiniteSets, Naturals

CONSTANTS Requests,     \* concurrent HTTP requests
          RtCalls,      \* bound on requests received
          RtEvents      \* bound on external events

\* "none" is nobody's name.
ASSUME RtAssumption == "none" \notin Requests

VARIABLES oc,       \* the installed OpenClaw: missing, pinned or other
          gw,       \* is the Gateway process running
          owner,    \* who launched it: us (this Manager process) or them
          swapped,  \* external start or stop since this Manager last launched
          managed,  \* GatewayManager.managed
          autostart, \* the fixed scheduled task: absent, ours or foreign
          lock,     \* holder of actionMu, or none
          req, rtcalls, revents

rtVars == <<oc, gw, owner, swapped, managed, autostart, lock, req, rtcalls, revents>>

Controls  == {"start", "stop", "restart"}
Locked    == Controls \cup {"enroll", "remove", "task-status"}
Kinds     == Locked \cup {"status", "install"}
Idle      == [at |-> "idle", kind |-> "status", confirm |-> FALSE, installed |-> FALSE,
              running |-> FALSE, known |-> FALSE, man |-> FALSE, done |-> FALSE, moved |-> FALSE]

RtInit ==
    /\ oc \in {"missing", "pinned", "other"} /\ gw \in {FALSE, oc # "missing"} /\ owner = "them"
    /\ swapped = FALSE /\ managed = FALSE /\ autostart \in {"absent", "foreign"}
    /\ lock = "none"
    /\ req = [r \in Requests |-> Idle] /\ rtcalls = 0 /\ revents = 0

Move(r, at) == req' = [req EXCEPT ![r].at = at]

\* The closing inspection, whose result is only reported.
Closing(r) == [Idle EXCEPT !.at = "look", !.kind = req[r].kind, !.done = TRUE]

\* The handler returns: the deferred Unlock runs on every path.
Answer(r) == /\ req' = [req EXCEPT ![r] = Idle]
             /\ lock' = IF lock = r THEN "none" ELSE lock

-----------------------------------------------------------------------------
(* The HTTP handlers: method, body and token are checked before the call.  *)

FirstStep(kind) ==
    CASE kind \in Locked    -> "lock"
      [] kind = "status"    -> "look"
      [] kind = "install"   -> "preflight"

Receive(r, kind, confirm) ==
    /\ req[r].at = "idle" /\ rtcalls < RtCalls /\ rtcalls' = rtcalls + 1
    /\ kind = "install" => confirm
    /\ kind \in {"status", "task-status"} => ~confirm
    /\ req' = [req EXCEPT ![r] = [Idle EXCEPT !.at = FirstStep(kind), !.kind = kind, !.confirm = confirm]]
    /\ UNCHANGED <<oc, gw, owner, swapped, managed, autostart, lock, revents>>

TakeLock(r) ==
    /\ req[r].at = "lock" /\ lock = "none" /\ lock' = r
    /\ Move(r, IF req[r].kind = "task-status" THEN "prove" ELSE "look")
    /\ UNCHANGED <<oc, gw, owner, swapped, managed, autostart, rtcalls, revents>>

-----------------------------------------------------------------------------
(* Gateway inspection and control                                          *)

\* findOpenClaw: PATH, then npm's global prefix.
Installed == oc # "missing"

\* parseGatewayRunning: the CLI's answer as (running, known).
Observations == {[known |-> k, running |-> k /\ gw] : k \in {FALSE, Installed}}

\* OpenClawGatewayController.Inspect: one look at the CLI.  An error ends
\* the request; an output without a known word is "unknown", which the
\* observation reports as not running.
Inspect(r) ==
    /\ req[r].at = "look"
    /\ \/ Answer(r)
       \/ /\ lock' = lock
          /\ \E o \in Observations :
                req' = [req EXCEPT ![r].at = "settle", ![r].installed = Installed,
                                   ![r].known = o.known, ![r].running = o.running, ![r].moved = FALSE]
    /\ UNCHANGED <<oc, gw, owner, swapped, managed, autostart, rtcalls, revents>>

\* The fixed contract: task path, owner marker and action, each exact.
Proven(t) == t = "ours"

\* BuildLongHubGatewayTaskXML renders a definition that passes that contract.
BuiltTask == "ours"

\* probeScheduledTaskOwnership: proof of the fixed task, or any failure.
Probe == IF Proven(autostart) THEN BOOLEAN ELSE {FALSE}

\* What control, EnrollScheduledTask and RemoveScheduledTask require before
\* they act: an early return otherwise.
MayAct(q, man) ==
    CASE q.kind = "start"   -> q.known /\ q.installed /\ ~q.running /\ q.confirm
      [] q.kind = "stop"    -> q.known /\ q.running /\ q.confirm
      [] q.kind = "restart" -> q.known /\ q.installed /\ q.confirm
      [] q.kind = "enroll"  -> q.confirm /\ q.installed
      [] q.kind = "remove"  -> q.confirm
      [] OTHER              -> FALSE

\* The rest of GatewayManager.inspect, and the caller's decision: a Gateway
\* that was not seen running clears the flag, whoever asks.
Settle(r) ==
    /\ req[r].at = "settle"
    /\ managed' = (managed /\ req[r].running)
    /\ \E proven \in Probe :
          LET man == req[r].running /\ (managed \/ proven)
          IN IF ~req[r].done /\ MayAct(req[r], man)
             THEN /\ lock' = lock
                  /\ req' = [req EXCEPT ![r].man = man, ![r].at =
                                IF req[r].kind \in Controls THEN "act" ELSE "prove"]
             ELSE Answer(r)
    /\ UNCHANGED <<oc, gw, owner, swapped, autostart, rtcalls, revents>>

\* What the fixed CLI command does to the process.  A restart keeps the
\* owner of a Gateway that runs, unless the Manager had proven it its own.
Effect(q, on) ==
    /\ gw' = on
    /\ owner' = IF on /\ (~gw \/ q.man) THEN "us" ELSE owner
    /\ swapped' = IF on /\ ~gw THEN FALSE ELSE swapped

\* controller.Start, Stop or Restart.  A command that fails or is cut off by
\* its timeout may have had its effect all the same; the flag then stays.
Command(r) ==
    LET q == req[r] IN
    /\ q.at = "act"
    /\ \/ /\ Move(r, "flag") /\ lock' = lock
          /\ Effect(q, q.kind # "stop")
       \/ /\ Answer(r)
          /\ \/ Effect(q, q.kind # "stop")
             \/ UNCHANGED <<gw, owner, swapped>>
    /\ UNCHANGED <<oc, managed, autostart, rtcalls, revents>>

\* Variant: a confirmed restart always takes ownership.
SetManagedAlways(r) ==
    LET q == req[r] IN
    /\ q.at = "flag"
    /\ managed' = (q.kind \in {"start", "restart"})
    /\ req' = [req EXCEPT ![r] = Closing(r)]
    /\ UNCHANGED <<oc, gw, owner, swapped, autostart, lock, rtcalls, revents>>

\* setManaged after a command that succeeded, then the closing inspection.
SetManaged(r) ==
    LET q == req[r] IN
    /\ q.at = "flag"
    /\ managed' = (q.kind = "start" \/ (q.kind = "restart" /\ (q.man \/ ~q.running)))
    /\ req' = [req EXCEPT ![r] = Closing(r)]
    /\ UNCHANGED <<oc, gw, owner, swapped, autostart, lock, rtcalls, revents>>

-----------------------------------------------------------------------------
(* The fixed scheduled task                                                *)

\* InspectOwnership: the query may fail; a task that is present but whose
\* path, marker or action differ is somebody else's.
Ownership == {"error", autostart}

\* The probe of ScheduledTaskStatus, EnsureScheduledTask and
\* RemoveScheduledTask, with the decision each takes on it.
InspectOwnership(r) ==
    /\ req[r].at = "prove"
    /\ \E seen \in Ownership :
          \/ /\ \/ req[r].kind = "task-status" \/ seen \in {"error", "foreign"}
             /\ Answer(r)
          \/ /\ \/ req[r].kind = "enroll" /\ seen = "ours"
                \/ req[r].kind = "remove" /\ seen = "absent"
             /\ req' = [req EXCEPT ![r] = Closing(r)] /\ lock' = lock
          \/ /\ \/ req[r].kind = "enroll" /\ seen = "absent"
                \/ req[r].kind = "remove" /\ seen = "ours"
             /\ lock' = lock
             /\ req' = [req EXCEPT ![r].moved = FALSE, ![r].at =
                           IF req[r].kind = "enroll" THEN "register" ELSE "delete"]
    /\ UNCHANGED <<oc, gw, owner, swapped, managed, autostart, rtcalls, revents>>

\* schtasks /Create without /F: refused when a task of that name exists.
Register(r) ==
    /\ req[r].at = "register"
    /\ \/ /\ autostart = "absent" /\ autostart' = BuiltTask /\ Move(r, "verify") /\ lock' = lock
       \/ /\ autostart' \in IF autostart = "absent" THEN {"absent", BuiltTask} ELSE {autostart}
          /\ Answer(r)
    /\ UNCHANGED <<oc, gw, owner, swapped, managed, rtcalls, revents>>

\* The second proof; nothing is deleted by name when it fails.
Verify(r) ==
    /\ req[r].at = "verify"
    /\ \E seen \in Ownership :
          IF Proven(seen)
          THEN req' = [req EXCEPT ![r] = Closing(r)] /\ lock' = lock
          ELSE Answer(r)
    /\ UNCHANGED <<oc, gw, owner, swapped, managed, autostart, rtcalls, revents>>

\* schtasks /Delete /F by name.
DeleteTask(r) ==
    /\ req[r].at = "delete"
    /\ \/ /\ autostart' = "absent" /\ lock' = lock
          /\ req' = [req EXCEPT ![r] = Closing(r)]
       \/ /\ autostart' \in {autostart, "absent"} /\ Answer(r)
    /\ UNCHANGED <<oc, gw, owner, swapped, managed, rtcalls, revents>>

-----------------------------------------------------------------------------
(* Installation                                                            *)

\* Variant: any OpenClaw that is found counts as compatible.
InstallableAny == oc \in {"missing", "pinned", "other"}

\* discoverOpenClawForInstall and the version check: only a proven miss or
\* the pinned release may be written over.
Installable == oc \in {"missing", "pinned"}

\* InstallPreflight and NativeInstallPlan: npm, Node, the discovery and
\* version of OpenClaw, config, workspace, prefix, disk.  Any of them may
\* refuse; an OpenClaw other than the pinned one always does.
InstallPreflight(r) ==
    /\ req[r].at = "preflight"
    /\ \/ Answer(r)
       \/ /\ Installable /\ lock' = lock
          /\ req' = [req EXCEPT ![r].at = "npm", ![r].moved = FALSE]
    /\ UNCHANGED <<oc, gw, owner, swapped, managed, autostart, rtcalls, revents>>

\* npm install --global of the pinned package; a failed run may leave none.
InstallNative(r) ==
    /\ req[r].at = "npm" /\ oc' \in {"pinned", "missing", oc} /\ Answer(r)
    /\ UNCHANGED <<gw, owner, swapped, managed, autostart, rtcalls, revents>>

-----------------------------------------------------------------------------
(* The world outside (external), and a crash of the Manager                *)

\* Every request under way has looked at something that may now be stale.
Noticed == req' = [r \in Requests |-> [req[r] EXCEPT !.moved = req[r].at # "idle"]]

External ==
    /\ revents < RtEvents /\ revents' = revents + 1
    /\ \/ /\ oc # "missing" /\ gw' = ~gw /\ owner' = "them" /\ swapped' = TRUE
          /\ UNCHANGED <<oc, autostart>> /\ Noticed
       \/ /\ ~gw /\ oc' \in {"missing", "other"} \ {oc}
          /\ UNCHANGED <<gw, owner, swapped, autostart>> /\ Noticed
       \/ /\ autostart' = "foreign" /\ autostart # "foreign"
          /\ UNCHANGED <<gw, owner, swapped, oc>> /\ Noticed
    /\ UNCHANGED <<managed, lock, rtcalls>>

ManagerRestarts ==
    /\ revents < RtEvents /\ revents' = revents + 1
    /\ managed' = FALSE /\ lock' = "none" /\ req' = [r \in Requests |-> Idle]
    /\ owner' = "them"
    /\ UNCHANGED <<oc, gw, swapped, autostart, rtcalls>>

Handle(r) ==
    \/ TakeLock(r) \/ Inspect(r) \/ Settle(r) \/ Command(r) \/ SetManaged(r)
    \/ InspectOwnership(r) \/ Register(r) \/ Verify(r) \/ DeleteTask(r)
    \/ InstallPreflight(r) \/ InstallNative(r)

RtNext ==
    \/ \E r \in Requests : Handle(r) \/ \E k \in Kinds, c \in BOOLEAN : Receive(r, k, c)
    \/ External \/ ManagerRestarts

RtSpec == RtInit /\ [][RtNext]_rtVars

-----------------------------------------------------------------------------
(* Properties                                                              *)

\* Types of what the properties below are about.
RtTypeOK ==
    /\ oc \in {"missing", "pinned", "other"} /\ gw \in BOOLEAN /\ managed \in BOOLEAN
    /\ autostart \in {"absent", "ours", "foreign"} /\ lock \in Requests \cup {"none"}
    /\ owner \in {"us", "them"}

\* The flag vouches only for a Gateway this Manager launched, unless somebody
\* outside stopped or started one since: a stale flag is what would let the
\* page call a user's own Gateway managed (gateway.go:192-199, 487-522).
FlagMeansOurs == managed /\ gw /\ ~swapped => owner = "us"

\* actionMu is held by a request that is under way, and every request past
\* the lock and not yet answered holds it: no path keeps it or loses it.
LockHeld ==
    /\ lock # "none" => req[lock].at \notin {"idle", "lock"} /\ req[lock].kind \in Locked
    /\ \A r \in Requests : req[r].kind \in Locked /\ req[r].at \notin {"idle", "lock"} => lock = r

\* gateway.go: the managed flag and the action lock, whatever requests interleave.
ManagerRuntimeInv == RtTypeOK /\ FlagMeansOurs /\ LockHeld

\* A request removes nothing of the user's that was there when it looked:
\* another OpenClaw is never installed over and a foreign task never deleted,
\* unless it appeared after the request's own check, which no later step
\* repeats (adapter.go:446-487, process_control.go:250-326).
NothingForeignDestroyed ==
    [][\A r \in Requests : Handle(r) /\ ~req[r].moved =>
          /\ oc = "other" => oc' = "other"
          /\ autostart = "foreign" => autostart' = "foreign"]_rtVars
=============================================================================
