----------------------------- MODULE AgentPacks -----------------------------
(***************************************************************************)
(* One agent pack on the desktop: the installer with its active pointer    *)
(* and version directories, the agent registry, the selector (agents.list  *)
(* of the OpenClaw Gateway), the execution policy in LongHub Core, and the *)
(* coordinator that switches them in one transaction with compensation.    *)
(*                                                                         *)
(* The coordinator's queue makes its own operations exclusive.  The        *)
(* installer, provisioning and the refresh of the policy constraint run    *)
(* beside it.  A step of a transaction ends at an await; Core applies a    *)
(* request when it is sent, because its pipe is FIFO.                      *)
(***************************************************************************)
EXTENDS Integers, FiniteSets

CONSTANTS
  PackVersions,  \* versions of the pack
  Runnable,      \* those that fit the bundled OpenClaw and the model policies
  Calls,         \* bound: calls of the user and changes made elsewhere
  PackFaults     \* bound: failed requests, failed renames and crashes

\* 0 stands for no version.
PackAssumption == PackVersions \subseteq Nat \ {0}

VARIABLES
  ptr,     \* current.json: [active, prev], 0 if absent
  dirs,    \* version directories that are there
  rgy,     \* the pack's registry entry: [ver, on], ver 0 if absent
  sel,     \* the version in agents.list, 0 if none
  core,    \* the policy in Core
  mem,     \* the coordinator's bridgePolicy and sourceBridgePolicy
  up,      \* the runtime was prepared at the start
  allow,   \* the feature policy allows grants that need a confirmation
  ent,     \* the cloud entitles the device to the pack
  op,      \* the running operation of the exclusive queue
  rf,      \* the running refresh of the constraint
  prov,    \* the running provisioning
  intact,  \* no compensation has failed since the start
  calls, pfaults

packVars == <<ptr, dirs, rgy, sel, core, mem, up, allow, ent, op, rf, prov, intact, calls, pfaults>>

Idle == [pc |-> "idle"]

\* constrainBridgePolicy of the policy that buildToolBridgePolicy makes of the
\* active profile: w is its grants that need a confirmation.
Constrain(v) == [ver |-> v, w |-> v # 0 /\ allow]

\* composeProfileAgent throws on an enabled profile that does not fit.
Composes(v) == v = 0 \/ v \in Runnable

\* A call of the OpenClaw command line that fails or times out may have had its effect.
FailedCall(before, after) == {before, after}

\* readActivePack throws when the active version's directory is gone.
Damaged == ptr.active # 0 /\ ptr.active \notin dirs

PackInit ==
  /\ ptr = [active |-> 0, prev |-> 0] /\ dirs = {}
  /\ rgy = [ver |-> 0, on |-> FALSE] /\ sel = 0
  /\ allow = TRUE /\ ent = TRUE /\ up = TRUE /\ intact = TRUE
  /\ core = [ver |-> 0, w |-> FALSE] /\ mem = [cur |-> core, src |-> 0]
  /\ op = Idle /\ rf = Idle /\ prov = Idle
  /\ calls = Calls /\ pfaults = PackFaults

Call == calls > 0 /\ calls' = calls - 1
Failing == pfaults > 0 /\ pfaults' = pfaults - 1

-----------------------------------------------------------------------------
(* The installer, which runs outside the queue                              *)

\* The staged directory replaces the version's, and the pointer moves.
Installed(v) ==
  /\ dirs' = dirs \cup {v}
  /\ ptr' = [active |-> v, prev |-> IF ptr.active = v THEN 0 ELSE ptr.active]

Install(v) ==
  /\ Call /\ Installed(v)
  /\ UNCHANGED <<rgy, sel, core, mem, up, allow, ent, op, rf, prov, intact, pfaults>>

\* The old directory is removed and the rename fails.
InstallFails(v) ==
  /\ Call /\ Failing
  /\ dirs' = dirs \ {v}
  /\ UNCHANGED <<ptr, rgy, sel, core, mem, up, allow, ent, op, rf, prov, intact>>

RolledBack(p) == IF p.prev \in dirs THEN [active |-> p.prev, prev |-> p.active] ELSE p

Rollback ==
  /\ Call /\ ptr.prev \in dirs
  /\ ptr' = RolledBack(ptr)
  /\ UNCHANGED <<dirs, rgy, sel, core, mem, up, allow, ent, op, rf, prov, intact, pfaults>>

\* provisionAgentPackFromCloud: install, then persist the signing key.
Provision(v) ==
  /\ up /\ prov = Idle /\ Call
  /\ Installed(v)
  /\ prov' = [pc |-> "persist", ver |-> v, old |-> ptr.active]
  /\ UNCHANGED <<rgy, sel, core, mem, up, allow, ent, op, rf, intact, pfaults>>

\* restoreProvisionPointer: roll back if there was a version, otherwise clear the
\* pointer unless it moved.
RestoreProvisionPointer ==
  /\ prov' = Idle
  /\ ptr' = IF prov.old # 0 THEN RolledBack(ptr)
            ELSE IF ptr.active = prov.ver THEN [active |-> 0, prev |-> 0] ELSE ptr

Persist ==
  /\ prov # Idle /\ prov.pc = "persist"
  /\ \/ prov' = [prov EXCEPT !.pc = "enable"] /\ UNCHANGED <<ptr, pfaults>>
     \/ Failing /\ RestoreProvisionPointer
  /\ UNCHANGED <<dirs, rgy, sel, core, mem, up, allow, ent, op, rf, intact, calls>>

-----------------------------------------------------------------------------
(* The exclusive queue                                                      *)

\* An operation ends; a provisioning that waits for it succeeds or is undone.
Ends(ok) ==
  /\ op' = Idle
  /\ IF op.by = "prov" THEN IF ok THEN prov' = Idle /\ UNCHANGED ptr
                            ELSE RestoreProvisionPointer
                       ELSE UNCHANGED <<prov, ptr>>

\* enablePack and disablePack check the active pack before the first await.
Asked(k, by) == [pc |-> IF k = "disable" THEN "config" ELSE "check", kind |-> k, by |-> by,
                 ver |-> ptr.active, reg |-> rgy]

Request(k) ==
  /\ up /\ op = Idle /\ Call
  /\ k = "enable" => ptr.active # 0 /\ ~Damaged
  /\ op' = Asked(k, "user")
  /\ UNCHANGED <<ptr, dirs, rgy, sel, core, mem, up, allow, ent, rf, prov, intact, pfaults>>

RequestProvisioned ==
  /\ up /\ op = Idle /\ prov # Idle /\ prov.pc = "enable"
  /\ IF ptr.active # 0 /\ ~Damaged
       THEN op' = Asked("enable", "prov") /\ prov' = [prov EXCEPT !.pc = "wait"] /\ UNCHANGED ptr
       ELSE RestoreProvisionPointer /\ UNCHANGED op
  /\ UNCHANGED <<dirs, rgy, sel, core, mem, up, allow, ent, rf, intact, calls, pfaults>>

\* The timer of startEntitlementPolling.
Poll ==
  /\ up /\ op = Idle
  /\ ~ent /\ rgy.on   \* otherwise the poll changes nothing
  /\ op' = Asked("revoke", "poll")
  /\ UNCHANGED <<ptr, dirs, rgy, sel, core, mem, up, allow, ent, rf, prov, intact, calls, pfaults>>

\* The cloud has answered.  The registry is copied before the next await.
Eligible ==
  /\ op # Idle /\ op.pc = "check"
  /\ \/ /\ IF op.kind = "enable" THEN ent ELSE ~ent /\ rgy.on
        /\ op' = [op EXCEPT !.pc = "config", !.reg = rgy]
        /\ UNCHANGED <<prov, ptr, pfaults>>
     \/ /\ IF op.kind = "enable" THEN ~ent ELSE ent \/ ~rgy.on
        /\ Ends(FALSE) /\ UNCHANGED pfaults
     \/ Failing /\ Ends(FALSE)
  /\ UNCHANGED <<dirs, rgy, sel, core, mem, up, allow, ent, rf, intact, calls>>

\* Variant: register does not keep the flag of the entry that is there.
MutatedAlwaysOn ==
  [ver |-> IF ptr.active # 0 THEN ptr.active ELSE rgy.ver, on |-> TRUE]

\* mutate and activateInstalledAgentProfiles: the active version is registered,
\* enabled unless the registry says otherwise.
Mutated ==
  [ver |-> IF ptr.active # 0 THEN ptr.active ELSE IF op.kind = "enable" THEN op.ver ELSE rgy.ver,
   on |-> op.kind = "enable"]

Served(entry) == IF entry.on THEN ptr.active ELSE 0

Applicable ==
  ~Damaged /\ (op.kind = "disable" => ptr.active # 0) /\ Composes(Served(Mutated))

\* getConfig has answered: the registry is changed and the policy is sent to
\* Core, or nothing is changed.
Apply ==
  /\ op # Idle /\ op.pc = "config"
  /\ \/ /\ Applicable
        /\ rgy' = Mutated
        /\ core' = Constrain(Served(Mutated))
        /\ op' = [pc |-> "gateway", kind |-> op.kind, by |-> op.by, reg |-> op.reg, sel |-> sel,
                  cur |-> mem.cur, src |-> mem.src,
                  next |-> Constrain(Served(Mutated)), nsrc |-> Served(Mutated)]
        /\ UNCHANGED <<prov, ptr, pfaults>>
     \/ /\ ~Applicable
        /\ Ends(FALSE) /\ UNCHANGED <<rgy, core, pfaults>>
     \/ Failing /\ Ends(FALSE) /\ UNCHANGED <<rgy, core>>
  /\ UNCHANGED <<dirs, sel, mem, up, allow, ent, rf, intact, calls>>

\* Core has answered, and replaceAgents is sent; or one of them fails, with or
\* without effect.
ReplaceAgents ==
  /\ op # Idle /\ op.pc = "gateway"
  /\ \/ sel' = op.nsrc /\ op' = [op EXCEPT !.pc = "confirm"] /\ UNCHANGED pfaults
     \/ Failing /\ sel' \in FailedCall(sel, op.nsrc) /\ op' = [op EXCEPT !.pc = "undo"]
  /\ UNCHANGED <<ptr, dirs, rgy, core, mem, up, allow, ent, rf, prov, intact, calls>>

\* listAgents agrees, and the coordinator keeps the new policies.
Confirm ==
  /\ op # Idle /\ op.pc = "confirm"
  /\ \/ mem' = [cur |-> op.next, src |-> op.nsrc] /\ Ends(TRUE) /\ UNCHANGED pfaults
     \/ Failing /\ op' = [op EXCEPT !.pc = "undo"] /\ UNCHANGED <<mem, prov, ptr>>
  /\ UNCHANGED <<dirs, rgy, sel, core, up, allow, ent, rf, intact, calls>>

\* CONFIG_ROLLBACK_FAILED: what is undone so far stays, and the rest too.
Breaks == Failing /\ intact' = FALSE /\ Ends(FALSE)

\* Variant: the selector is not put back.
UndoSkipped ==
  /\ op # Idle /\ op.pc = "undo"
  /\ \/ op' = [op EXCEPT !.pc = "undoCore"] /\ UNCHANGED <<sel, prov, ptr, intact, pfaults>>
     \/ Breaks /\ UNCHANGED sel
  /\ UNCHANGED <<dirs, rgy, core, mem, up, allow, ent, rf, calls>>

\* rollbackGatewayAgents.
Undo ==
  /\ op # Idle /\ op.pc = "undo"
  /\ \/ sel' = op.sel /\ op' = [op EXCEPT !.pc = "undoCore"] /\ UNCHANGED <<prov, ptr, intact, pfaults>>
     \/ Breaks /\ UNCHANGED sel
  /\ UNCHANGED <<dirs, rgy, core, mem, up, allow, ent, rf, calls>>

\* The previous policy is sent.
UndoCore ==
  /\ op # Idle /\ op.pc = "undoCore"
  /\ core' = op.cur
  /\ op' = [op EXCEPT !.pc = "undoRegistry"]
  /\ UNCHANGED <<ptr, dirs, rgy, sel, mem, up, allow, ent, rf, prov, intact, calls, pfaults>>

\* Variant: the registry is left as the operation changed it.
UndoRegistryForgotten ==
  /\ op # Idle /\ op.pc = "undoRegistry"
  /\ \/ mem' = [mem EXCEPT !.src = op.src] /\ Ends(FALSE) /\ UNCHANGED <<rgy, intact, pfaults>>
     \/ Breaks /\ UNCHANGED <<mem, rgy>>
  /\ UNCHANGED <<dirs, sel, core, up, allow, ent, rf, calls>>

\* Core has answered: sourceBridgePolicy and the registry are restored.
UndoRegistry ==
  /\ op # Idle /\ op.pc = "undoRegistry"
  /\ \/ /\ mem' = [mem EXCEPT !.src = op.src] /\ rgy' = op.reg
        /\ Ends(FALSE) /\ UNCHANGED <<intact, pfaults>>
     \/ Breaks /\ UNCHANGED <<mem, rgy>>
  /\ UNCHANGED <<dirs, sel, core, up, allow, ent, rf, calls>>

-----------------------------------------------------------------------------
(* The refresh of the constraint, which runs outside the queue              *)

\* The feature policy changed, and refreshBridgePolicyConstraint is called.
PolicyChanges ==
  /\ rf = Idle /\ Call
  /\ allow' = ~allow
  /\ LET next == [ver |-> mem.src, w |-> mem.src # 0 /\ ~allow] IN
     IF ~up \/ next = mem.cur THEN UNCHANGED <<rf, core>>
     ELSE core' = next /\ rf' = [pc |-> "sent", next |-> next]
  /\ UNCHANGED <<ptr, dirs, rgy, sel, mem, up, ent, op, prov, intact, pfaults>>

RefreshDone ==
  /\ rf # Idle
  /\ rf' = Idle
  /\ mem' = [mem EXCEPT !.cur = rf.next]
  /\ UNCHANGED <<ptr, dirs, rgy, sel, core, up, allow, ent, op, prov, intact, calls, pfaults>>

-----------------------------------------------------------------------------
\* The entitlement is granted or revoked, or the version is blocked.
EntitlementChanges ==
  /\ Call /\ ent' = ~ent
  /\ UNCHANGED <<ptr, dirs, rgy, sel, core, mem, up, allow, op, rf, prov, intact, pfaults>>

\* The client ends at any point, in an installation too, and is started again:
\* prepareOpenClawRuntime builds everything from the registry and the pointer.
Restart(d) ==
  /\ Failing
  /\ dirs' = dirs \ d
  /\ LET there == ptr.active \in dirs'
         entry == IF there THEN [ver |-> ptr.active, on |-> rgy.ver = 0 \/ rgy.on] ELSE rgy
         served == IF there /\ Composes(Served(entry)) THEN Served(entry) ELSE 0
     IN /\ up' = (ptr.active = 0 \/ (there /\ Composes(Served(entry))))
        /\ rgy' = entry /\ sel' = served
        /\ core' = Constrain(served) /\ mem' = [cur |-> Constrain(served), src |-> served]
  /\ op' = Idle /\ rf' = Idle /\ prov' = Idle /\ intact' = TRUE
  /\ UNCHANGED <<ptr, allow, ent, calls>>

Steps ==
  \/ Poll \/ Persist \/ RequestProvisioned \/ Eligible \/ Apply \/ ReplaceAgents \/ Confirm
  \/ Undo \/ UndoCore \/ UndoRegistry \/ RefreshDone

PackNext ==
  \/ Steps
  \/ Rollback \/ PolicyChanges \/ EntitlementChanges \/ Request("enable") \/ Request("disable")
  \/ \E v \in PackVersions : Install(v) \/ InstallFails(v) \/ Provision(v)
  \/ \E d \in {{}} \cup {{v} : v \in PackVersions} : Restart(d)

PackSpec == PackInit /\ [][PackNext]_packVars
\* The poll's timer and the running operations go on.
PackFairSpec == PackSpec /\ WF_packVars(Steps)

-----------------------------------------------------------------------------
\* Types of what the properties below are about.
PackTypeOK ==
  /\ ptr \in [active : PackVersions \cup {0}, prev : PackVersions \cup {0}]
  /\ dirs \subseteq PackVersions /\ rgy \in [ver : PackVersions \cup {0}, on : BOOLEAN]

\* Between operations the selector shows only a pack that the registry enables,
\* in the version it names, unless a compensation failed.
SelectorAgrees == op = Idle /\ intact /\ sel # 0 => rgy = [ver |-> sel, on |-> TRUE]

\* Outside an operation the coordinator's source policy is what the selector shows.
SourceAgrees == op = Idle /\ intact => mem.src = sel

\* Whatever fails in agent-lifecycle-coordinator.ts, registry, selector and the
\* policy source agree between two operations.
PacksInv == PackTypeOK /\ SelectorAgrees /\ SourceAgrees

\* The visible pack: what the registry and the selector say, and while a transaction
\* runs what they said before it.
Committed == op = Idle \/ op.pc \in {"check", "config"}
SlotOn == IF Committed THEN rgy.on ELSE op.reg.on
SlotServed == IF Committed THEN sel ELSE op.sel
SlotSwitch == IF Committed THEN [on |-> FALSE, ver |-> -1] ELSE [on |-> op.kind = "enable", ver |-> op.nsrc]

\* A switch of the pack is atomic for the registry and the selector: it is
\* committed, or compensated, or the compensation failed.
Slot == INSTANCE PackSlot WITH
  Versions <- PackVersions,
  active <- ptr.active, on <- SlotOn, served <- SlotServed, switch <- SlotSwitch

\* Installer, registry and selector together implement the slot of PackSlot: the
\* visible pack changes in one step, or not at all.
RefinesSlot == Slot!Spec

\* A pack whose entitlement is revoked leaves the registry and the selector,
\* unless its active directory is damaged or a compensation failed.
RevokedIsHidden ==
  ~ent ~> (ent \/ (~rgy.on /\ sel = 0) \/ ~up \/ Damaged \/ ~intact)
=============================================================================
