------------------------------ MODULE MCLifecycles ------------------------------
(***************************************************************************)
(* Small instances of what is installed and kept running on a computer,    *)
(* for TLC: the Manager's and the client's updates, the agent packs and    *)
(* the Gateway under its supervisor.  The models share no variable, so     *)
(* their union is checked: a behaviour is one of the part it starts with.  *)
(***************************************************************************)
EXTENDS AgentPacks, GatewaySupervisor, ClientUpdate, ManagerUpdate

VARIABLE part    \* the part that runs

\* Crashes with faults or with a start during the installation, a second Manager
\* beside the first, or two Apply requests that race.
MCBudgets == {[crash |-> 2, fault |-> 1, early |-> 0, second |-> 0, race |-> 0],
              [crash |-> 1, fault |-> 1, early |-> 1, second |-> 0, race |-> 0],
              [crash |-> 0, fault |-> 0, early |-> 0, second |-> 1, race |-> 0],
              [crash |-> 0, fault |-> 0, early |-> 0, second |-> 0, race |-> 1]}

\* The other bounds are in the configuration.  The Manager: three versions and two
\* requests in flight.  The client: two updates in a row, and two crashes or failures.
\* The packs: three versions, three calls and two failures.  The supervisor: one restart
\* before it gives up, two exits and two resumes.
ASSUME PackAssumption

partVars == <<part, managerVars, clientVars, packVars, supervisorVars>>

PartInit ==
  /\ part \in {"manager", "client", "packs", "gateway"}
  /\ ManagerInit /\ ClientInit /\ PackInit /\ SupervisorInit

OfManager(A) == part = "manager" /\ A /\ UNCHANGED <<part, clientVars, packVars, supervisorVars>>
OfClient(A) == part = "client" /\ A /\ UNCHANGED <<part, managerVars, packVars, supervisorVars>>
OfPacks(A) == part = "packs" /\ A /\ UNCHANGED <<part, managerVars, clientVars, supervisorVars>>
OfGateway(A) == part = "gateway" /\ A /\ UNCHANGED <<part, managerVars, clientVars, packVars>>

PartNext ==
  \/ OfManager(ManagerNext) \/ OfClient(ClientNext)
  \/ OfPacks(PackNext) \/ OfGateway(SupervisorNext)

\* The fairness of the four specifications.
PartSpec ==
  /\ PartInit /\ [][PartNext]_partVars
  /\ WF_managerVars(part = "manager" /\ Up = {} /\ launched = {} /\ \E p \in Procs : StartManager(p))
  /\ \A p \in Procs : /\ WF_managerVars(part = "manager" /\ Startup(p))
                      /\ WF_managerVars(part = "manager" /\ MarkManagerHealthy(p))
                      /\ WF_managerVars(part = "manager" /\ StopManager(p))
                      /\ \A r \in Requests : WF_managerVars(part = "manager" /\ RequestSteps(p, r))
  /\ WF_managerVars(part = "manager" /\ \E i \in launched : InstallerSucceeds(i))
  /\ WF_clientVars(part = "client" /\ ClientSteps)
  /\ WF_packVars(part = "packs" /\ Steps)
  /\ WF_supervisorVars(part = "gateway" /\ SupervisorSteps)

=============================================================================
