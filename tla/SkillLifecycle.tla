--------------------------- MODULE SkillLifecycle ---------------------------
(***************************************************************************)
(* One Skill on the desktop: the registry file with its backup, the        *)
(* bindings of the Skill to agents, the grants that the client keeps in    *)
(* memory and sends to LongHub Core, the list that the Gateway shows, and  *)
(* the coordinator's transaction over all of them.                         *)
(*                                                                         *)
(* Operations of the coordinator are exclusive.  A registry file that was  *)
(* damaged while the client was off is recovered from its backup, which    *)
(* the second commit makes; before it there is none, load throws, and the  *)
(* client's start ends there (main.ts has no handler).  The file and its   *)
(* backup are not damaged together.                                        *)
(***************************************************************************)
EXTENDS Integers, FiniteSets

CONSTANTS
  SkillVersions,  \* versions of the Skill that the catalogue has
  SkillAgents,    \* agents it can be bound to
  SkillCalls,     \* bound: operations and changes of the entitlement
  SkillFaults     \* bound: failed requests, crashes and damaged files

VARIABLES
  file,     \* skill-registry.json, which is also the registry's state
  bak,      \* skill-registry.json.bak, of meaning after two commits
  commits,  \* 0: neither is on disk; 1: the file is; 2 for more: both are
  bound,    \* installedSkillCorePolicy: [agent, ver] that Core is to grant
  inCore,   \* what Core was sent last
  shown,    \* installedGatewaySkills
  entitled, \* versions the cloud gives a reference for
  sop,      \* the running operation
  scalls, sfaults, sok

skillVars == <<file, bak, commits, bound, inCore, shown, entitled, sop, scalls, sfaults, sok>>

Absent == [status |-> "none", active |-> 0, prev |-> 0, vers |-> {},
           bind |-> [a \in SkillAgents |-> "none"]]
NoOp == [pc |-> "idle"]
Unloaded == [pc |-> "corrupt"]   \* the registry was refused: SKILL_REGISTRY_CORRUPT

SkillInit ==
  /\ file = Absent /\ bak = Absent /\ commits = 0
  /\ bound = {} /\ inCore = {} /\ shown = {}
  /\ entitled = SkillVersions
  /\ sop = NoOp /\ scalls = SkillCalls /\ sfaults = SkillFaults /\ sok = TRUE

SCall == scalls > 0 /\ scalls' = scalls - 1
SFail == sfaults > 0 /\ sfaults' = sfaults - 1

-----------------------------------------------------------------------------
(* The registry: each operation gives the new state, or Absent's type with
   status "error" if the code throws                                        *)

Error == [Absent EXCEPT !.status = "error"]

\* A version that is there already changes nothing, even if another is active.
InstallSkill(r, v) ==
  CASE v \in r.vers -> r
    [] r.status = "none" -> [r EXCEPT !.status = "installed", !.active = v, !.vers = {v}]
    [] OTHER -> [r EXCEPT !.status = "installed", !.active = v, !.prev = r.active, !.vers = @ \cup {v}]

Bind(r, a) == IF r.status # "installed" THEN Error ELSE [r EXCEPT !.bind[a] = "on"]

SetBindingEnabled(r, a, b) ==
  IF r.bind[a] = "none" \/ (b = "on" /\ r.status # "installed") THEN Error
  ELSE [r EXCEPT !.bind[a] = b]

RollbackSkill(r) ==
  IF r.prev = 0 \/ r.status # "installed" THEN Error
  ELSE [r EXCEPT !.active = r.prev, !.prev = r.active]

MarkRevoked(r) ==
  IF r.status = "none" THEN Error
  ELSE [r EXCEPT !.status = "revoked",
                 !.bind = [a \in SkillAgents |-> IF @[a] = "none" THEN "none" ELSE "off"]]

RemoveSkill(r) == IF r.status = "none" THEN Error ELSE Absent

\* validateRelationships, which every commit and every load runs.
Valid(r) ==
  /\ r.status # "error"
  /\ r.status = "none" => \A a \in SkillAgents : r.bind[a] = "none"
  /\ r.status = "revoked" => \A a \in SkillAgents : r.bind[a] # "on"

\* At most two commits, by way of mid: each makes the file that is there the
\* backup, and the first finds none.
Committed(mid, r) ==
  LET made == commits + (IF mid # file THEN 1 ELSE 0) + (IF r # mid THEN 1 ELSE 0) IN
  /\ file' = r
  /\ commits' = IF made < 2 THEN made ELSE 2
  /\ bak' = CASE made < 2 -> bak
             [] made >= 2 /\ r # mid -> mid
             [] made >= 2 /\ r = mid /\ mid # file -> file
             [] OTHER -> bak

\* desiredState: the enabled bindings of an installed Skill, in its active version.
Desired(r) ==
  {[agent |-> a, ver |-> r.active] :
     a \in {b \in SkillAgents : r.status = "installed" /\ r.bind[b] = "on"}}

-----------------------------------------------------------------------------
(* The coordinator                                                          *)

\* What an operation does to the registry.
Result(o) ==
  CASE o.kind = "install" -> Bind(InstallSkill(file, o.ver), o.agent)
    [] o.kind = "upgrade" -> InstallSkill(file, o.ver)
    [] o.kind = "enable" -> SetBindingEnabled(file, o.agent, "on")
    [] o.kind = "disable" -> SetBindingEnabled(file, o.agent, "off")
    [] o.kind = "rollback" -> RollbackSkill(file)
    [] o.kind = "revoke" -> MarkRevoked(file)
    [] o.kind = "uninstall" -> RemoveSkill(file)

\* An installation commits the version before it commits the binding.
Between(o) == IF o.kind = "install" THEN InstallSkill(file, o.ver) ELSE file

\* The version whose signature and entitlement the operation verifies first.
Verified(o) ==
  CASE o.kind \in {"install", "upgrade"} -> o.ver
    [] o.kind = "enable" -> file.active
    [] o.kind = "rollback" -> file.prev
    [] OTHER -> 0

\* SkillCenterService.perform, or the revocation, asks the coordinator.
Perform(k, v, a) ==
  /\ sop = NoOp /\ SCall
  /\ k \in {"install", "upgrade"} \/ v = 0
  /\ sop' = [pc |-> "verify", kind |-> k, ver |-> v, agent |-> a]
  /\ UNCHANGED <<file, bak, commits, bound, inCore, shown, entitled, sfaults, sok>>

\* verifyInstallInput has answered.
VerifySkill ==
  /\ sop # NoOp /\ sop.pc = "verify"
  /\ LET v == Verified(sop) IN
     \/ /\ v = 0 \/ v \in entitled
        /\ v = 0 => sop.kind \notin {"enable", "rollback"}
        /\ sop' = [sop EXCEPT !.pc = "mutate"] /\ UNCHANGED sfaults
     \/ /\ v \notin entitled /\ (v = 0 => sop.kind \in {"enable", "rollback"})
        /\ sop' = NoOp /\ UNCHANGED sfaults
     \/ sop' = NoOp /\ SFail
  /\ UNCHANGED <<file, bak, commits, bound, inCore, shown, entitled, scalls, sok>>

\* transact: the registry is changed, and the grants are sent if they differ.  A
\* mutation that throws half-way is restored from the snapshot.
Transact ==
  /\ sop # NoOp /\ sop.pc = "mutate"
  /\ LET r == Result(sop) IN
     IF ~Valid(r) THEN sop' = NoOp /\ Committed(Between(sop), file) /\ UNCHANGED <<bound, inCore>>
     ELSE /\ Committed(Between(sop), r)
          /\ bound' = Desired(r) /\ inCore' = Desired(r)
          /\ sop' = [pc |-> "core", kind |-> sop.kind, reg |-> file, was |-> bound]
  /\ UNCHANGED <<shown, entitled, scalls, sfaults, sok>>

\* The refresh in Core has answered, and the Gateway's list is replaced; or it
\* failed, with or without effect.
CoreAnswers ==
  /\ sop # NoOp /\ sop.pc = "core"
  /\ \/ shown' = Desired(file) /\ sop' = NoOp /\ UNCHANGED <<inCore, sfaults>>
     \/ /\ SFail /\ bound # sop.was
        /\ inCore' \in {inCore, sop.was}
        /\ sop' = [sop EXCEPT !.pc = "undo"] /\ UNCHANGED shown
  /\ UNCHANGED <<file, bak, commits, bound, entitled, scalls, sok>>

\* Variant: the registry is left as the operation changed it.
CompensateCoreOnly ==
  /\ sop # NoOp /\ sop.pc = "undo"
  /\ bound' = sop.was /\ sop' = NoOp
  /\ \/ inCore' = sop.was /\ UNCHANGED <<file, bak, commits, sfaults, sok>>
     \/ SFail /\ inCore' \in {inCore, sop.was} /\ sok' = FALSE /\ UNCHANGED <<file, bak, commits>>
  /\ UNCHANGED <<shown, entitled, scalls>>

\* The compensation: the grants are sent again and the registry is restored; if
\* sending fails the registry stays (SKILL_TRANSACTION_ROLLBACK_FAILED).
Compensate ==
  /\ sop # NoOp /\ sop.pc = "undo"
  /\ bound' = sop.was /\ sop' = NoOp
  /\ \/ inCore' = sop.was /\ Committed(file, sop.reg) /\ UNCHANGED <<sfaults, sok>>
     \/ SFail /\ inCore' \in {inCore, sop.was} /\ sok' = FALSE /\ UNCHANGED <<file, bak, commits>>
  /\ UNCHANGED <<shown, entitled, scalls>>

-----------------------------------------------------------------------------
EntitlementMoves(v) ==
  /\ SCall
  /\ entitled' = IF v \in entitled THEN entitled \ {v} ELSE entitled \cup {v}
  /\ UNCHANGED <<file, bak, commits, bound, inCore, shown, sop, sfaults, sok>>

\* The client ends, perhaps between the two commits of an installation, and is
\* started again: no grant is sent before the next operation.
SkillRestart ==
  /\ SFail /\ sop # Unloaded
  /\ \/ sop' = NoOp /\ UNCHANGED <<file, bak, commits>>
     \/ /\ sop # NoOp /\ sop.pc = "mutate" /\ sop.kind = "install"
        /\ Committed(file, Between(sop)) /\ sop' = NoOp
     \* load: the file is damaged, and the backup, if there is one, takes its place.
     \/ /\ commits = 2 /\ file' = bak /\ sop' = NoOp /\ UNCHANGED <<bak, commits>>
     \/ /\ commits = 1 /\ file' = Error /\ sop' = Unloaded /\ UNCHANGED <<bak, commits>>
  /\ bound' = {} /\ inCore' = {} /\ shown' = {} /\ sok' = TRUE
  /\ UNCHANGED <<entitled, scalls>>

SkillSteps == VerifySkill \/ Transact \/ CoreAnswers \/ Compensate

SkillNext ==
  \/ SkillSteps \/ SkillRestart
  \/ \E a \in SkillAgents, v \in SkillVersions \cup {0} :
       \E k \in {"install", "upgrade", "enable", "disable", "rollback", "revoke", "uninstall"} :
         (k \in {"install", "upgrade"} => v # 0) /\ Perform(k, v, a)
  \/ \E v \in SkillVersions : EntitlementMoves(v)

SkillSpec == SkillInit /\ [][SkillNext]_skillVars

-----------------------------------------------------------------------------
\* Types of what the properties below are about.
SkillTypeOK ==
  /\ file.vers \subseteq SkillVersions /\ file.active \in file.vers \cup {0}
  /\ file.prev \in file.vers \cup {0}

\* The file loads, and from the second commit on so does the backup, whatever the
\* crashes: the registry is lost only to damage of the file of the first commit,
\* which has no backup yet.
Loadable ==
  /\ Valid(file) \/ (sop = Unloaded /\ commits = 1)
  /\ commits = 2 => Valid(bak)

\* Between operations Core and the Gateway have no binding but the enabled ones
\* of the registry, unless a compensation failed.
NothingLeft ==
  sop = NoOp /\ sok => inCore \subseteq Desired(file) /\ shown \subseteq Desired(file) /\ bound = inCore

\* The Gateway never shows a Skill that Core would not execute.
ShownIsGranted == sop = NoOp /\ sok => shown \subseteq bound

\* skill-registry.ts and skill-lifecycle-coordinator.ts: the registry loads as soon as
\* it has a backup, and grants and Gateway list agree with it after every failure.
SkillsInv == SkillTypeOK /\ Loadable /\ NothingLeft /\ ShownIsGranted

=============================================================================
