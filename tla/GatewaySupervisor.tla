-------------------------- MODULE GatewaySupervisor --------------------------
(***************************************************************************)
(* The desktop client's OpenClaw Gateway process: the supervisor that      *)
(* spawns it, restarts it after an exit and stops it                       *)
(* (gateway-supervisor.ts), the recovery that turns its phases into the    *)
(* page of the main window and drops health probes of an older cycle       *)
(* (gateway-runtime-recovery.ts), and their use in main.ts: the first      *)
(* start, the resume of the host, the stop for an update.                  *)
(*                                                                         *)
(* The JavaScript of one event runs to its end: an exit event, the         *)
(* continuations of the stop() calls that wait for it and the start() of a *)
(* restart() are one step.  A process that ended keeps its pid until its   *)
(* exit event is delivered.  Delays are abstracted to nondeterminism, and  *)
(* an exit has a code: on Windows only kill() ends a process without one.  *)
(***************************************************************************)
EXTENDS Integers, Sequences

CONSTANTS
  MaxRestarts,  \* maxRestarts
  Exits,        \* bound: exits of the Gateway of its own accord
  Resumes       \* bound: resumes of the host

ASSUME SupervisorAssumption == MaxRestarts \in Nat /\ Exits \in Nat /\ Resumes \in Nat

VARIABLES
  sup,    \* GatewaySupervisor: child, stopping, restarts, timer, restartOperation
  proc,   \* the processes ever spawned: "up", "crashed" or "config" (ended, exit
          \* event pending), "gone"
  waits,  \* the stop() calls that await the exit of the child
  ui,     \* GatewayRuntimeRecovery and the main window
  boot,   \* startEmbeddedGateway: "off", "waiting", "up", "failed"
  sbound  \* exits and resumes so far, and whether the update has stopped the runtime

supervisorVars == <<sup, proc, waits, ui, boot, sbound>>

Children == 1..(1 + Exits + Resumes)
Statuses == {"reconnecting", "config", "exhausted", "unavailable", "loadfailed"}

SupervisorInit ==
  /\ sup = [child |-> 0, stopping |-> FALSE, restarts |-> 0, timer |-> FALSE, op |-> FALSE]
  /\ proc = <<>>
  /\ waits = {}
  /\ ui = [cycle |-> 0, probes |-> {}, win |-> FALSE, page |-> "none", loading |-> FALSE,
           aborted |-> FALSE, from |-> 0]
  /\ boot = "off"
  /\ sbound = [exits |-> 0, resumes |-> 0, stopped |-> FALSE]

\* A step's effect is computed on one record, as the code's calls follow each other.
World == [sup |-> sup, proc |-> proc, ui |-> ui]
Becomes(w) == sup' = w.sup /\ proc' = w.proc /\ ui' = w.ui

\* The getter pid: the child until its exit event has been delivered.
Pid(w) == IF w.sup.child # 0 /\ w.proc[w.sup.child] # "gone" THEN w.sup.child ELSE 0

-----------------------------------------------------------------------------
(* The window and the recovery                                              *)

\* showProductStatus; the page replaces a load of /chat that is under way,
\* whose promise is then rejected.
ShowStatus(u, code) ==
  IF ~u.win THEN u
  ELSE [u EXCEPT !.page = code, !.aborted = @ \/ u.loading, !.loading = FALSE]

LoadChat(u) == [u EXCEPT !.page = "chat", !.aborted = @ \/ u.loading, !.loading = TRUE, !.from = 0]

\* Variant: a running Gateway starts a cycle of its own after its probe took the old one.
HandleNewCycle(u, phase, pid) ==
  LET next == [u EXCEPT !.cycle = @ + 1] IN
  IF boot # "up" \/ phase = "starting" THEN u
  ELSE
  CASE phase = "restarting" -> ShowStatus(next, "reconnecting")
    [] phase = "config-error" -> ShowStatus(next, "config")
    [] phase = "failed" -> ShowStatus(next, "exhausted")
    [] phase = "stopped" -> next
    [] phase = "running" ->
         [next EXCEPT !.probes = @ \cup {[pid |-> pid, cycle |-> u.cycle, why |-> "runtime"]}]

\* handle: every phase but "starting" and "running" makes older probes stale.
Handle(u, phase, pid) ==
  LET next == [u EXCEPT !.cycle = @ + 1] IN
  IF boot # "up" \/ phase = "starting" THEN u
  ELSE
  CASE phase = "restarting" -> ShowStatus(next, "reconnecting")
    [] phase = "config-error" -> ShowStatus(next, "config")
    [] phase = "failed" -> ShowStatus(next, "exhausted")
    [] phase = "stopped" -> next
    [] phase = "running" ->
         [u EXCEPT !.probes = @ \cup {[pid |-> pid, cycle |-> u.cycle, why |-> "runtime"]}]

Emit(w, phase) == [w EXCEPT !.ui = Handle(@, phase, w.sup.child)]

-----------------------------------------------------------------------------
(* The supervisor                                                           *)

\* spawnChild.
SpawnChild(w) ==
  LET v == [w EXCEPT !.proc = Append(@, "up"), !.sup = [w.sup EXCEPT !.child = Len(w.proc) + 1, !.timer = FALSE]]
  IN Emit(v, "running")

\* start, which returns while the child has a pid.
Start(w) == IF Pid(w) # 0 THEN w ELSE SpawnChild([w EXCEPT !.sup.stopping = FALSE])

\* Variant: stop leaves the restart timer running.
StopKeepsTimer(w) ==
  LET v == [w EXCEPT !.sup.stopping = TRUE]
  IN IF Pid(w) = 0 THEN Emit(v, "stopped") ELSE v

\* stop up to the point where it awaits the exit of the child.
Stop(w) ==
  LET v == [w EXCEPT !.sup = [w.sup EXCEPT !.stopping = TRUE, !.timer = FALSE]]
  IN IF Pid(w) = 0 THEN Emit(v, "stopped") ELSE v

\* stop after that exit.
Stopped(w) == Emit([w EXCEPT !.sup.child = 0], "stopped")

\* restart after its stop.
Restarted(w) == Start([w EXCEPT !.sup = [w.sup EXCEPT !.restarts = 0, !.op = FALSE]])

\* The exit handler of spawnChild while nothing stops the supervisor.
Exited(w, how) ==
  CASE how = "config" -> Emit(w, "config-error")
    [] how = "crashed" /\ w.sup.restarts >= MaxRestarts -> Emit(w, "failed")
    [] OTHER -> Emit([w EXCEPT !.sup = [w.sup EXCEPT !.restarts = @ + 1, !.timer = TRUE]], "restarting")

-----------------------------------------------------------------------------
(* Starting                                                                 *)

\* startEmbeddedGateway up to its wait for /chat; no recovery is set up yet.
Boot ==
  /\ boot = "off"
  /\ boot' = "waiting"
  /\ Becomes(Start(World))
  /\ UNCHANGED <<waits, sbound>>

\* waitForGatewayChatPage sees the page; the recovery is set up with it.
BootReady ==
  /\ boot = "waiting" /\ "boot" \notin waits
  /\ Pid(World) # 0
  /\ boot' = "up"
  /\ sup' = [sup EXCEPT !.restarts = 0]
  /\ UNCHANGED <<proc, waits, ui, sbound>>

\* The wait times out, or ends with a configuration error or with the
\* restarts used up: the Gateway is stopped.
BootFails ==
  /\ boot = "waiting" /\ "boot" \notin waits
  /\ Becomes(Stop(World))
  /\ IF Pid(World) = 0 THEN boot' = "failed" /\ UNCHANGED waits
     ELSE waits' = waits \cup {"boot"} /\ UNCHANGED boot
  /\ UNCHANGED sbound

\* createWindow, once startDesktop has set up the rest.
OpenWindow ==
  /\ boot \in {"up", "failed"} /\ ~ui.win
  /\ LET u == [ui EXCEPT !.win = TRUE]
     IN ui' = IF boot = "up" THEN LoadChat(u) ELSE ShowStatus(u, "unavailable")
  /\ UNCHANGED <<sup, proc, waits, boot, sbound>>

-----------------------------------------------------------------------------
(* Exits, timers, probes and page loads                                     *)

\* The Gateway ends by itself, or is killed by a stop() that waits for it.
Exit(how) ==
  /\ sup.child # 0 /\ proc[sup.child] = "up"
  /\ \/ waits # {} /\ how = "crashed" /\ UNCHANGED sbound
     \/ waits = {} /\ sbound.exits < Exits /\ sbound' = [sbound EXCEPT !.exits = @ + 1]
  /\ proc' = [proc EXCEPT ![sup.child] = how]
  /\ UNCHANGED <<sup, waits, ui, boot>>

\* The exit event: the handler of spawnChild, then every waiting stop() and
\* last the rest of restart(), which only continues after its stop().
ExitEvent ==
  /\ sup.child # 0 /\ proc[sup.child] \in {"crashed", "config"}
  /\ LET gone == [World EXCEPT !.proc[sup.child] = "gone"]
         stopped == IF waits = {} THEN gone ELSE Stopped(gone)
     IN Becomes(IF ~sup.stopping THEN Exited(gone, proc[sup.child])
                ELSE IF "restart" \in waits THEN Restarted(stopped) ELSE stopped)
  /\ boot' = IF "boot" \in waits THEN "failed" ELSE boot
  /\ waits' = {}
  /\ UNCHANGED sbound

\* The back-off of the exit handler ends.
RestartTimer ==
  /\ sup.timer
  /\ Becomes(SpawnChild(World))
  /\ UNCHANGED <<waits, boot, sbound>>

\* restart, which joins the restart under way and else stops the child first.
RestartGateway(w) ==
  \/ w.sup.op /\ Becomes(w) /\ UNCHANGED waits
  \/ ~w.sup.op /\ Pid(w) = 0 /\ Becomes(Restarted(Stop([w EXCEPT !.sup.op = TRUE]))) /\ UNCHANGED waits
  \/ ~w.sup.op /\ Pid(w) # 0 /\ Becomes(Stop([w EXCEPT !.sup.op = TRUE])) /\ waits' = waits \cup {"restart"}

\* recover and recoverHostResume after their probe of /chat, of which the
\* result counts only in the cycle the probe was started in.
ProbeEnds(p, ready) ==
  /\ p \in ui.probes
  /\ ready => p.pid # 0 /\ Pid(World) = p.pid
  /\ LET u == [ui EXCEPT !.probes = @ \ {p}]
         w == [World EXCEPT !.ui = u]
     IN \/ p.cycle # ui.cycle /\ Becomes(w) /\ UNCHANGED waits
        \/ /\ p.cycle = ui.cycle /\ ready
           /\ Becomes([w EXCEPT !.sup.restarts = 0, !.ui = IF u.win THEN LoadChat(u) ELSE u])
           /\ UNCHANGED waits
        \/ /\ p.cycle = ui.cycle /\ ~ready /\ p.why = "runtime"
           /\ Becomes([w EXCEPT !.ui = ShowStatus(u, "unavailable")]) /\ UNCHANGED waits
        \/ p.cycle = ui.cycle /\ ~ready /\ p.why = "resume" /\ RestartGateway(w)
  /\ UNCHANGED <<boot, sbound>>

\* The load of /chat succeeds while the Gateway runs.
ChatLoads ==
  /\ ui.loading
  /\ sup.child # 0 /\ proc[sup.child] = "up"
  /\ ui' = [ui EXCEPT !.loading = FALSE, !.from = sup.child]
  /\ UNCHANGED <<sup, proc, waits, boot, sbound>>

\* It fails, or was replaced by another page: the window shows that.
ChatLoadFails ==
  /\ ui.loading \/ ui.aborted
  /\ ui' = IF ui.aborted THEN ShowStatus([ui EXCEPT !.aborted = FALSE], "loadfailed")
           ELSE ShowStatus([ui EXCEPT !.loading = FALSE], "loadfailed")
  /\ UNCHANGED <<sup, proc, waits, boot, sbound>>

-----------------------------------------------------------------------------
(* The host                                                                 *)

\* powerResumeHandler and handleHostResume; a missing pid is a failed probe.
Resume ==
  /\ boot = "up" /\ sbound.resumes < Resumes
  /\ sbound' = [sbound EXCEPT !.resumes = @ + 1]
  /\ ui' = LET u == ShowStatus([ui EXCEPT !.cycle = @ + 1], "reconnecting")
           IN [u EXCEPT !.probes = @ \cup {[pid |-> Pid(World), cycle |-> u.cycle, why |-> "resume"]}]
  /\ UNCHANGED <<sup, proc, waits, boot>>

\* stopRuntimeForUpdate stops the Gateway.
StopForUpdate ==
  /\ boot = "up" /\ ui.win /\ ~sbound.stopped
  /\ sbound' = [sbound EXCEPT !.stopped = TRUE]
  /\ Becomes(Stop(World))
  /\ waits' = IF Pid(World) = 0 THEN waits ELSE waits \cup {"update"}
  /\ UNCHANGED boot

SupervisorSteps ==
  \/ Boot \/ BootReady \/ BootFails \/ OpenWindow \/ ExitEvent \/ RestartTimer
  \/ (waits # {} /\ Exit("crashed"))
  \/ \E p \in ui.probes, ready \in BOOLEAN : ProbeEnds(p, ready)
  \/ ChatLoads \/ ChatLoadFails

SupervisorNext ==
  \/ SupervisorSteps
  \/ (waits = {} /\ \E how \in {"crashed", "config"} : Exit(how))
  \/ Resume \/ StopForUpdate

\* Events, timers, probes and page loads of the client end; exits, resumes and
\* updates need not happen.
SupervisorSpec ==
  SupervisorInit /\ [][SupervisorNext]_supervisorVars /\ WF_supervisorVars(SupervisorSteps)

-----------------------------------------------------------------------------
(* Properties                                                               *)

\* Types of what the properties below are about.
SupervisorTypeOK ==
  /\ sup.child \in 0..Len(proc) /\ sup.restarts \in 0..MaxRestarts
  /\ \A c \in DOMAIN proc : c \in Children /\ proc[c] \in {"up", "crashed", "config", "gone"}
  /\ waits \subseteq {"boot", "restart", "update"}
  /\ ui.page \in {"none", "chat"} \cup Statuses

\* gateway-supervisor.ts: whatever exits, restart timers, resumes and stops do in
\* between, there is at most one Gateway process, the supervisor's own child, and
\* none is spawned behind it.  gateway-runtime-recovery.ts: a loaded /chat page is
\* the page of the process that runs now: a late probe or load of an earlier
\* process never shows it over the page that reports that process's end.  (A restart
\* the host asked for before the window opened leaves it until its own probe ends.)
SupervisorInv ==
  /\ SupervisorTypeOK
  /\ \A c \in DOMAIN proc : proc[c] # "gone" => c = sup.child
  /\ sup.timer => ~sup.stopping /\ Pid(World) = 0
  /\ ui.page = "chat" /\ ui.from # 0 /\ ~sbound.stopped =>
       ui.from = Pid(World) \/ [pid |-> Pid(World), cycle |-> ui.cycle, why |-> "runtime"] \in ui.probes

\* main.ts, gateway-runtime-recovery.ts: the page that announces a reconnection
\* is replaced by /chat or by the page of a failure, unless an update stops the
\* client: merged restarts and dropped probes never leave the window on it.
PageRecovers == ui.page = "reconnecting" ~> ui.page # "reconnecting" \/ sbound.stopped
=============================================================================
