--------------------------- MODULE LifecycleProofs ---------------------------
(***************************************************************************)
(* What is installed and kept running on a computer, for any values of     *)
(* the bounds.                                                             *)
(*                                                                         *)
(* Registry, selector and source policy of an agent pack agree between     *)
(* two operations, and a switch of the pack is atomic, for any versions    *)
(* and any number of calls and failures.  The invariant says what the      *)
(* running transaction remembers: how things were before it, what it wants *)
(* to show, and how much of either the registry and the selector hold      *)
(* already.  The same facts show that every step is a step of PackSlot.    *)
(*                                                                         *)
(* The supervisor never has a second Gateway process, and a loaded page is *)
(* the page of that process.  The invariant counts what may still spawn a  *)
(* process (a timer, a restart under way, an exit nobody heard of, a probe *)
(* after a resume): with the processes there have been, that is never more *)
(* than what the start, the exits and the resumes have given cause for.    *)
(*                                                                         *)
(* A client that is being updated can go back: the invariant says what a   *)
(* running process knows of the pending file, how far a rollback has got,  *)
(* and that every crash or failure costs at most one attempt more.         *)
(*                                                                         *)
(* The Manager's own update: what its pending file says explains the image *)
(* on disk.  What a start or a request carries from one of its steps to    *)
(* the next holds whatever happens; what makes the file true holds as long *)
(* as no Manager is started beside another, for which the installers and   *)
(* what each step found must agree with the file.                          *)
(***************************************************************************)
EXTENDS AgentPacks, GatewaySupervisor, ClientUpdate, ManagerUpdate, FiniteSetTheorems, TLAPS

PackVersion == PackVersions \cup {0}
RegistryEntries == [ver : PackVersion, on : BOOLEAN]
Policies == [ver : PackVersion, w : BOOLEAN]

Kinds == {"enable", "disable", "revoke"}
Callers == {"user", "prov", "poll"}

\* An operation before its transaction, and in it.
AskedOps == [pc : {"check", "config"}, kind : Kinds, by : Callers, ver : PackVersion, reg : RegistryEntries]
RunningOps == [pc : {"gateway", "confirm", "undo", "undoCore", "undoRegistry"}, kind : Kinds, by : Callers,
               reg : RegistryEntries, sel : PackVersion, cur : Policies, src : PackVersion, next : Policies, nsrc : PackVersion]

Types ==
  /\ PackTypeOK /\ sel \in PackVersion /\ allow \in BOOLEAN
  /\ mem \in [cur : Policies, src : PackVersion] /\ rf \in {Idle} \cup [pc : {"sent"}, next : Policies]

\* What a selector that shows version v says of the registry entry e.
Shows(v, e) == v # 0 => e = [ver |-> v, on |-> TRUE]

\* Registry r, selector s and source policy m between two transactions.
Agree(r, s, m) == m = s /\ Shows(s, r)

\* A transaction o under way; ok says that no compensation failed before it.
Running(o, r, s, m, ok) ==
  /\ r.on <=> o.kind = "enable"
  /\ Shows(o.nsrc, r)
  /\ s \in {o.sel, o.nsrc}
  /\ o.pc = "confirm" => s = o.nsrc
  /\ o.pc \in {"undoCore", "undoRegistry"} => s = o.sel
  /\ ok => m = o.src /\ Agree(o.reg, o.sel, o.src)

\* What an operation at rest, asked for or in its transaction knows of the pointers.
OpInv(o, r, s, m, ok) ==
  \/ o = Idle /\ (ok => Agree(r, s, m))
  \/ o \in AskedOps /\ o.reg = r /\ (ok => Agree(r, s, m))
  \/ o \in RunningOps /\ Running(o, r, s, m, ok)

\* The inductive invariant.
PackIInv == Types /\ OpInv(op, rgy, sel, mem.src, intact)

Pointers == [active : PackVersion, prev : PackVersion]
Rest == {Idle} \cup AskedOps

-----------------------------------------------------------------------------
(* What PackSlot sees                                                       *)

\* Outside a transaction it sees the registry and the selector, in one what they were before.
LEMMA Seen ==
  /\ op \in Rest => SlotOn = rgy.on /\ SlotServed = sel /\ SlotSwitch = Slot!NoSwitch
  /\ op' \in Rest => SlotOn' = rgy'.on /\ SlotServed' = sel' /\ SlotSwitch' = Slot!NoSwitch
  /\ op \in RunningOps =>
       SlotOn = op.reg.on /\ SlotServed = op.sel /\ SlotSwitch = [on |-> op.kind = "enable", ver |-> op.nsrc]
  /\ op' \in RunningOps =>
       SlotOn' = op'.reg.on /\ SlotServed' = op'.sel /\ SlotSwitch' = [on |-> op'.kind = "enable", ver |-> op'.nsrc]
<1>1. \A o \in Rest : o = Idle \/ o.pc \in {"check", "config"}
  BY DEF Rest, AskedOps
<1>2. \A o \in RunningOps : ~(o = Idle \/ o.pc \in {"check", "config"})
  BY DEF RunningOps, Idle
<1>3. op \in Rest => SlotOn = rgy.on /\ SlotServed = sel /\ SlotSwitch = Slot!NoSwitch
  BY <1>1 DEF Committed, SlotOn, SlotServed, SlotSwitch, Slot!NoSwitch
<1>4. op' \in Rest => SlotOn' = rgy'.on /\ SlotServed' = sel' /\ SlotSwitch' = Slot!NoSwitch
  BY <1>1 DEF Committed, SlotOn, SlotServed, SlotSwitch, Slot!NoSwitch
<1>5. op \in RunningOps =>
        SlotOn = op.reg.on /\ SlotServed = op.sel /\ SlotSwitch = [on |-> op.kind = "enable", ver |-> op.nsrc]
  BY <1>2 DEF Committed, SlotOn, SlotServed, SlotSwitch
<1>6. op' \in RunningOps =>
        SlotOn' = op'.reg.on /\ SlotServed' = op'.sel /\ SlotSwitch' = [on |-> op'.kind = "enable", ver |-> op'.nsrc]
  BY <1>2 DEF Committed, SlotOn, SlotServed, SlotSwitch
<1> QED
  BY <1>3, <1>4, <1>5, <1>6

\* A step that changes nothing of it but the active version.
LEMMA Points ==
  ASSUME ptr' \in Pointers, SlotOn' = SlotOn, SlotServed' = SlotServed, SlotSwitch' = SlotSwitch, intact' = intact
  PROVE  Slot!Next
  BY DEF Slot!Next, Slot!Point, Slot!Pointed, Pointers, PackVersion

\* A switch under way is one.
LEMMA Switching ==
  ASSUME PackAssumption, NEW o \in RunningOps
  PROVE  [on |-> o.kind = "enable", ver |-> o.nsrc] # Slot!NoSwitch
<1>1. o.nsrc \in PackVersion /\ -1 \notin PackVersion
  BY DEF RunningOps, PackVersion, PackAssumption
<1> QED
  BY <1>1 DEF Slot!NoSwitch

-----------------------------------------------------------------------------
(* The parts of the invariant                                               *)

\* The type of the pack state, spelt out for the steps below.
LEMMA TypesUnfold ==
  Types <=> /\ ptr \in Pointers /\ dirs \subseteq PackVersions /\ rgy \in RegistryEntries /\ sel \in PackVersion /\ allow \in BOOLEAN
            /\ mem \in [cur : Policies, src : PackVersion] /\ rf \in {Idle} \cup [pc : {"sent"}, next : Policies]
  BY DEF Types, PackTypeOK, Pointers, RegistryEntries, PackVersion

\* The operation goes on as it was, whatever happens beside it.
LEMMA OpStands ==
  ASSUME PackIInv, Types', UNCHANGED <<rgy, sel, intact, op>>, mem'.src = mem.src
  PROVE  PackIInv' /\ Slot!Next
<1>1. PackIInv'
  BY DEF PackIInv
<1>2. SlotOn' = SlotOn /\ SlotServed' = SlotServed /\ SlotSwitch' = SlotSwitch
  BY DEF Committed, SlotOn, SlotServed, SlotSwitch
<1>3. ptr' \in Pointers
  BY DEF Types, PackTypeOK, Pointers, PackVersion
<1> QED
  BY <1>1, <1>2, <1>3, Points

\* Before or after its transaction an operation moves, or a new one starts.
LEMMA OpRests ==
  ASSUME PackIInv, Types', UNCHANGED <<rgy, sel, intact, mem>>, op \in Rest, op' \in Rest, op' # Idle => op'.reg = rgy
  PROVE  PackIInv' /\ Slot!Next
<1>1. \A o \in RunningOps : o \notin Rest
  BY DEF RunningOps, Rest, AskedOps, Idle
<1>2. intact => Agree(rgy, sel, mem.src)
  BY <1>1 DEF PackIInv, OpInv
<1>3. PackIInv'
  BY <1>2 DEF PackIInv, OpInv, Rest
<1>4. SlotOn' = SlotOn /\ SlotServed' = SlotServed /\ SlotSwitch' = SlotSwitch
  BY Seen
<1>5. ptr' \in Pointers
  BY DEF Types, PackTypeOK, Pointers, PackVersion
<1> QED
  BY <1>3, <1>4, <1>5, Points

\* In its transaction an operation moves, and PackSlot sees nothing of it.
LEMMA OpMoves ==
  ASSUME PackIInv, Types', op \in RunningOps, UNCHANGED <<ptr, intact>>, NEW o \in RunningOps, op' = o,
         o.reg = op.reg, o.sel = op.sel, o.kind = op.kind, o.nsrc = op.nsrc,
         Running(o, rgy', sel', mem'.src, intact)
  PROVE  PackIInv' /\ Slot!Next
<1>1. PackIInv'
  BY DEF PackIInv, OpInv
<1>2. SlotOn' = SlotOn /\ SlotServed' = SlotServed /\ SlotSwitch' = SlotSwitch
  BY Seen
<1>3. ptr' \in Pointers
  BY DEF Types, PackTypeOK, Pointers, PackVersion
<1> QED
  BY <1>1, <1>2, <1>3, Points

\* A pointer that is given back is one.
LEMMA Restored ==
  ASSUME Types, RestoreProvisionPointer
  PROVE  ptr' \in Pointers
<1>1. ptr \in Pointers /\ 0 \in PackVersion
  BY DEF Types, PackTypeOK, Pointers, PackVersion
<1>2. RolledBack(ptr) \in Pointers /\ [active |-> 0, prev |-> 0] \in Pointers
  BY <1>1 DEF RolledBack, Pointers
<1> QED
  BY <1>1, <1>2 DEF RestoreProvisionPointer

\* An operation that ends leaves the queue, and the pointer where it is or given back.
LEMMA Ended ==
  ASSUME Types, NEW ok, Ends(ok)
  PROVE  op' = Idle /\ ptr' \in Pointers
  BY Restored DEF Ends, Types, PackTypeOK, Pointers, PackVersion

\* Where the program counter says the operation is, there it is.
LEMMA Where ==
  ASSUME PackIInv
  PROVE  /\ op # Idle /\ op.pc \in {"check", "config"} => op \in AskedOps /\ op \in Rest /\ op.reg = rgy
         /\ op # Idle /\ op.pc \in {"gateway", "confirm", "undo", "undoCore", "undoRegistry"} =>
              op \in RunningOps /\ Running(op, rgy, sel, mem.src, intact)
         /\ op = Idle => op \in Rest
<1>1. \A o \in RunningOps : o.pc \notin {"check", "config"}
  BY DEF RunningOps
<1>2. \A o \in AskedOps : o.pc \notin {"gateway", "confirm", "undo", "undoCore", "undoRegistry"}
  BY DEF AskedOps
<1> QED
  BY <1>1, <1>2 DEF PackIInv, OpInv, Rest
-----------------------------------------------------------------------------
(* The installer, the provisioning and the constraint, beside the queue     *)

\* An installation moves the version pointer, or stops half-way: the operation has its own copy.
LEMMA InstallerKeeps ==
  ASSUME PackIInv, NEW v \in PackVersions, Install(v) \/ InstallFails(v) \/ Provision(v)
  PROVE  PackIInv' /\ Slot!Next
<1>1. UNCHANGED <<rgy, sel, mem, allow, op, rf, intact>>
  BY DEF Install, InstallFails, Provision
<1>2. v \in PackVersion /\ 0 \in PackVersion /\ ptr \in Pointers /\ dirs \subseteq PackVersions
  BY DEF PackVersion, PackIInv, Types, PackTypeOK, Pointers
<1>3. ptr' \in Pointers /\ dirs' \subseteq PackVersions
  BY <1>2 DEF Install, InstallFails, Provision, Installed, Pointers
<1>4. Types'
  BY <1>1, <1>3, TypesUnfold DEF PackIInv, Types, PackTypeOK, Pointers, PackVersion
<1> QED
  BY <1>1, <1>4, OpStands

\* The installer moves the pointer back to the version before.
LEMMA RollbackKeeps ==
  ASSUME PackIInv, Rollback \/ Persist
  PROVE  PackIInv' /\ Slot!Next
<1>1. UNCHANGED <<dirs, rgy, sel, mem, allow, op, rf, intact>>
  BY DEF Rollback, Persist
<1>2. ptr \in Pointers
  BY DEF PackVersion, PackIInv, Types, PackTypeOK, Pointers
<1>3. ptr' \in Pointers
  BY <1>2, Restored DEF PackIInv, Rollback, Persist, RolledBack, Pointers
<1>4. Types'
  BY <1>1, <1>3 DEF PackIInv, Types, PackTypeOK, Pointers, PackVersion
<1> QED
  BY <1>1, <1>4, OpStands

\* The feature policy changes, and the constraint is sent to Core beside the operation.
LEMMA PolicyKeeps ==
  ASSUME PackIInv, PolicyChanges
  PROVE  PackIInv' /\ Slot!Next
<1> DEFINE next == [ver |-> mem.src, w |-> mem.src # 0 /\ ~allow]
<1>1. UNCHANGED <<ptr, dirs, rgy, sel, mem, op, intact>> /\ allow' \in BOOLEAN
  BY DEF PolicyChanges, PackIInv, Types
<1>2. next \in Policies
  <2>1. mem.src \in PackVersion /\ (mem.src # 0 /\ ~allow) \in BOOLEAN
    BY DEF PackIInv, Types
  <2> QED
    BY <2>1 DEF Policies
<1>3. rf' = rf \/ rf' = [pc |-> "sent", next |-> next]
  BY DEF PolicyChanges
<1> HIDE DEF next
<1>4. rf' \in {Idle} \cup [pc : {"sent"}, next : Policies]
  BY <1>2, <1>3 DEF PackIInv, Types
<1>5. Types'
  BY <1>1, <1>4 DEF PackIInv, Types, PackTypeOK
<1> QED
  BY <1>1, <1>5, OpStands

\* Core has answered the refresh: only what the client knows of Core changes.
LEMMA RefreshKeeps ==
  ASSUME PackIInv, RefreshDone
  PROVE  PackIInv' /\ Slot!Next
<1>1. /\ UNCHANGED <<ptr, dirs, rgy, sel, allow, op, intact>> /\ rf # Idle /\ rf' = Idle
      /\ mem' = [mem EXCEPT !.cur = rf.next]
  BY DEF RefreshDone
<1>2. mem \in [cur : Policies, src : PackVersion] /\ rf.next \in Policies
  BY <1>1 DEF PackIInv, Types
<1>3. mem' \in [cur : Policies, src : PackVersion] /\ mem'.src = mem.src
  BY <1>1, <1>2
<1>4. Types'
  BY <1>1, <1>3 DEF PackIInv, Types, PackTypeOK
<1> QED
  BY <1>1, <1>3, <1>4, OpStands

\* The entitlement is granted or revoked: no pointer and no record changes.
LEMMA EntitlementKeeps ==
  ASSUME PackIInv, EntitlementChanges
  PROVE  PackIInv' /\ Slot!Next
<1>1. UNCHANGED <<ptr, dirs, rgy, sel, mem, allow, op, rf, intact>>
  BY DEF EntitlementChanges
<1>2. Types'
  BY <1>1 DEF PackIInv, Types, PackTypeOK
<1> QED
  BY <1>1, <1>2, OpStands

-----------------------------------------------------------------------------
(* The queue, up to the transaction                                         *)

\* What is asked for has the registry of the moment.
LEMMA AskedTyped ==
  ASSUME Types, NEW k \in Kinds, NEW by \in Callers
  PROVE  Asked(k, by) \in Rest /\ Asked(k, by).reg = rgy
<1>1. ptr.active \in PackVersion /\ rgy \in RegistryEntries
  BY TypesUnfold DEF Pointers
<1> DEFINE pc == IF k = "disable" THEN "config" ELSE "check"
           v == ptr.active
           x == [pc |-> pc, kind |-> k, by |-> by, ver |-> v, reg |-> rgy]
<1>2. pc \in {"check", "config"} /\ v \in PackVersion /\ Asked(k, by) = x
  BY <1>1 DEF Asked
<1> HIDE DEF pc, v
<1>3. x \in AskedOps /\ x.reg = rgy
  BY <1>1, <1>2 DEF AskedOps
<1> QED
  BY <1>2, <1>3 DEF Rest

\* An operation is asked for: it takes a copy of the registry of the moment.
LEMMA RequestKeeps ==
  ASSUME PackIInv, NEW k \in Kinds, Request(k)
  PROVE  PackIInv' /\ Slot!Next
<1>1. UNCHANGED <<ptr, dirs, rgy, sel, mem, allow, rf, intact>> /\ op = Idle /\ op' = Asked(k, "user")
  BY DEF Request
<1>2. Types'
  BY <1>1 DEF PackIInv, Types, PackTypeOK
<1>3. "user" \in Callers
  BY DEF Callers
<1>4. op \in Rest /\ op' \in Rest /\ op'.reg = rgy
  BY <1>1, <1>3, AskedTyped DEF PackIInv, Rest
<1> QED
  BY <1>1, <1>2, <1>4, OpRests

\* The poll asks for a revocation: the same copy is taken.
LEMMA PollKeeps ==
  ASSUME PackIInv, Poll
  PROVE  PackIInv' /\ Slot!Next
<1>1. UNCHANGED <<ptr, dirs, rgy, sel, mem, allow, rf, intact>> /\ op = Idle /\ op' = Asked("revoke", "poll")
  BY DEF Poll
<1>2. Types'
  BY <1>1 DEF PackIInv, Types, PackTypeOK
<1>3. "revoke" \in Kinds /\ "poll" \in Callers
  BY DEF Kinds, Callers
<1>4. op \in Rest /\ op' \in Rest /\ op'.reg = rgy
  BY <1>1, <1>3, AskedTyped DEF PackIInv, Rest
<1> QED
  BY <1>1, <1>2, <1>4, OpRests

\* A provisioned pack is installed and enabled in one call: the pointer moves first.
LEMMA ProvisionedKeeps ==
  ASSUME PackIInv, RequestProvisioned
  PROVE  PackIInv' /\ Slot!Next
<1>1. UNCHANGED <<dirs, rgy, sel, mem, allow, rf, intact>> /\ op = Idle
  BY DEF RequestProvisioned
<1>2. ptr' \in Pointers /\ (op' = op \/ op' = Asked("enable", "prov"))
  BY Restored DEF RequestProvisioned, PackIInv, Types, PackTypeOK, Pointers, PackVersion
<1>3. Types'
  BY <1>1, <1>2 DEF PackIInv, Types, PackTypeOK, Pointers, PackVersion
<1>4. "enable" \in Kinds /\ "prov" \in Callers
  BY DEF Kinds, Callers
<1>5. op \in Rest /\ op' \in Rest /\ (op' # Idle => op'.reg = rgy)
  BY <1>1, <1>2, <1>4, AskedTyped DEF PackIInv, Rest
<1> QED
  BY <1>1, <1>3, <1>5, OpRests

\* The cloud has answered: the operation goes on with a new copy, or ends.
LEMMA EligibleKeeps ==
  ASSUME PackIInv, Eligible
  PROVE  PackIInv' /\ Slot!Next
<1>1. UNCHANGED <<dirs, rgy, sel, mem, allow, rf, intact>> /\ op # Idle /\ op.pc = "check"
  BY DEF Eligible
<1>2. op \in AskedOps /\ op \in Rest
  BY <1>1, Where
<1>3. CASE op' = [op EXCEPT !.pc = "config", !.reg = rgy] /\ ptr' = ptr
  <2>1. rgy \in RegistryEntries
    BY TypesUnfold DEF PackIInv
  <2>2. op' \in AskedOps /\ op'.reg = rgy
    BY <1>2, <1>3, <2>1 DEF AskedOps
  <2>3. Types'
    BY <1>1, <1>3 DEF PackIInv, Types, PackTypeOK
  <2> QED
    BY <1>1, <1>2, <2>2, <2>3, OpRests DEF Rest
<1>4. CASE Ends(FALSE)
  <2>1. op' = Idle /\ ptr' \in Pointers
    BY <1>4, Ended DEF PackIInv
  <2>2. Types'
    BY <1>1, <2>1 DEF PackIInv, Types, PackTypeOK, Pointers, PackVersion
  <2> QED
    BY <1>1, <1>2, <2>1, <2>2, OpRests DEF Rest
<1> QED
  BY <1>3, <1>4 DEF Eligible

-----------------------------------------------------------------------------
(* The transaction                                                          *)

\* What is sent to Core is a policy.
LEMMA Constrained ==
  ASSUME Types, NEW v \in PackVersion
  PROVE  Constrain(v) \in Policies
<1>1. (v # 0 /\ allow) \in BOOLEAN
  BY DEF Types
<1> QED
  BY <1>1 DEF Constrain, Policies

\* What the transaction makes of the registry is what the selector is to show.
LEMMA Mutating ==
  ASSUME Types, op \in AskedOps
  PROVE  /\ Mutated \in RegistryEntries /\ Served(Mutated) \in PackVersion
         /\ (Mutated.on <=> op.kind = "enable") /\ Shows(Served(Mutated), Mutated)
         /\ Slot!Shown(Mutated.on, ptr.active) = [on |-> Mutated.on, ver |-> Served(Mutated)]
<1> DEFINE v == IF ptr.active # 0 THEN ptr.active ELSE IF op.kind = "enable" THEN op.ver ELSE rgy.ver
           o == op.kind = "enable"
           a == ptr.active
<1>1. a \in PackVersion /\ 0 \in PackVersion /\ rgy.ver \in PackVersion /\ op.ver \in PackVersion
  BY TypesUnfold DEF Pointers, RegistryEntries, AskedOps, PackVersion
<1>2. v \in PackVersion /\ (a # 0 => v = a) /\ Mutated = [ver |-> v, on |-> o] /\ o \in BOOLEAN
  BY <1>1 DEF Mutated
<1>3. Served(Mutated) = IF o THEN a ELSE 0
  BY <1>2 DEF Served
<1> HIDE DEF v, o, a
<1>4. Mutated \in RegistryEntries
  BY <1>2 DEF RegistryEntries
<1>5. Served(Mutated) \in PackVersion
  BY <1>1, <1>3
<1>6. Shows(Served(Mutated), Mutated)
  <2>1. CASE o = TRUE
    BY <1>2, <1>3, <2>1 DEF Shows
  <2>2. CASE o = FALSE
    BY <1>3, <2>2 DEF Shows
  <2> QED
    BY <1>2, <2>1, <2>2
<1>7. Mutated.on = o
  BY <1>2
<1>8. Slot!Shown(Mutated.on, ptr.active) = [on |-> Mutated.on, ver |-> Served(Mutated)]
  BY <1>3, <1>7 DEF Slot!Shown, a
<1> QED
  BY <1>4, <1>5, <1>6, <1>7, <1>8 DEF o

\* The registry changes, the selector does not yet; or nothing does and the operation ends.
LEMMA ApplyKeeps ==
  ASSUME PackAssumption, PackIInv, Apply
  PROVE  PackIInv' /\ Slot!Next
<1>1. UNCHANGED <<dirs, sel, mem, allow, rf, intact>> /\ op # Idle /\ op.pc = "config"
  BY DEF Apply
<1>2. op \in AskedOps /\ op \in Rest /\ op.reg = rgy
  BY <1>1, Where
<1>3. ASSUME rgy' = Mutated, ptr' = ptr,
             op' = [pc |-> "gateway", kind |-> op.kind, by |-> op.by, reg |-> op.reg, sel |-> sel,
                    cur |-> mem.cur, src |-> mem.src, next |-> Constrain(Served(Mutated)), nsrc |-> Served(Mutated)]
      PROVE  PackIInv' /\ Slot!Next
  <2> DEFINE n == Served(Mutated)
             c == Constrain(n)
             k == op.kind
             b == op.by
             u == op.reg
             m == mem.cur
             g == mem.src
             x == [pc |-> "gateway", kind |-> k, by |-> b, reg |-> u, sel |-> sel, cur |-> m, src |-> g,
                   next |-> c, nsrc |-> n]
  <2>1. /\ Mutated \in RegistryEntries /\ n \in PackVersion /\ (Mutated.on <=> k = "enable") /\ Shows(n, Mutated)
        /\ Slot!Shown(Mutated.on, ptr.active) = [on |-> Mutated.on, ver |-> n]
    BY <1>2, Mutating DEF PackIInv
  <2>2. c \in Policies /\ m \in Policies /\ g \in PackVersion /\ sel \in PackVersion
    BY <2>1, Constrained DEF PackIInv, Types
  <2>3. k \in Kinds /\ b \in Callers /\ u \in RegistryEntries /\ u = rgy
    BY <1>2 DEF AskedOps
  <2>4. intact => Agree(rgy, sel, mem.src)
    BY <1>1, <1>2 DEF PackIInv, OpInv, RunningOps, AskedOps
  <2>5. op' = x
    BY <1>3
  <2> HIDE DEF n, c, k, b, u, m
  <2>6. x \in RunningOps /\ x.kind = k /\ x.reg = u /\ x.sel = sel /\ x.nsrc = n /\ x.src = g /\ x.pc = "gateway"
    BY <2>1, <2>2, <2>3 DEF RunningOps
  <2> HIDE DEF x
  <2>7. Running(x, Mutated, sel, g, intact)
    BY <2>1, <2>3, <2>4, <2>6 DEF Running, Agree
  <2>8. Types'
    BY <1>1, <1>3, <2>1 DEF PackIInv, Types, PackTypeOK, RegistryEntries, PackVersion
  <2>9. PackIInv'
    <3>1. mem'.src = g /\ sel' = sel /\ intact' = intact
      BY <1>1
    <3> QED
      BY <1>3, <2>5, <2>6, <2>7, <2>8, <3>1 DEF PackIInv, OpInv
  <2>10. Slot!Begin
    <3>1. op \in Rest /\ op' \in RunningOps /\ op'.reg = rgy /\ op'.sel = sel /\ op'.nsrc = n /\ op'.kind = k
      BY <1>2, <2>3, <2>5, <2>6
    <3>2. SlotSwitch = Slot!NoSwitch /\ SlotOn' = SlotOn /\ SlotServed' = SlotServed
          /\ SlotSwitch' = [on |-> k = "enable", ver |-> n]
      BY <3>1, Seen
    <3>3. Mutated.on \in BOOLEAN /\ (k = "enable") \in BOOLEAN
      BY <2>1 DEF RegistryEntries
    <3>4. Mutated.on = (k = "enable")
      BY <2>1, <3>3
    <3>5. SlotSwitch' = Slot!Shown(Mutated.on, ptr.active)
      BY <2>1, <3>2, <3>4
    <3> QED
      BY <1>1, <1>3, <3>2, <3>3, <3>5 DEF Slot!Begin
  <2> QED
    BY <2>9, <2>10 DEF Slot!Next
<1>4. CASE Ends(FALSE) /\ rgy' = rgy
  <2>1. op' = Idle /\ ptr' \in Pointers
    BY <1>4, Ended DEF PackIInv
  <2>2. Types'
    BY <1>1, <1>4, <2>1 DEF PackIInv, Types, PackTypeOK, Pointers, PackVersion
  <2> QED
    BY <1>1, <1>2, <1>4, <2>1, <2>2, OpRests DEF Rest
<1> QED
  BY <1>3, <1>4 DEF Apply

\* The selector shows the agents of the changed registry; or the compensation begins.
LEMMA ReplaceKeeps ==
  ASSUME PackIInv, ReplaceAgents
  PROVE  PackIInv' /\ Slot!Next
<1>1. UNCHANGED <<ptr, dirs, rgy, mem, allow, rf, intact>> /\ op # Idle /\ op.pc = "gateway"
  BY DEF ReplaceAgents
<1>2. op \in RunningOps /\ Running(op, rgy, sel, mem.src, intact)
  BY <1>1, Where
<1>3. op.sel \in PackVersion /\ op.nsrc \in PackVersion
  BY <1>2 DEF RunningOps
<1>4. ASSUME NEW pc \in {"confirm", "undo"}, op' = [op EXCEPT !.pc = pc], sel' \in {sel, op.nsrc},
             pc = "confirm" => sel' = op.nsrc
      PROVE  PackIInv' /\ Slot!Next
  <2> DEFINE w == op
             x == [w EXCEPT !.pc = pc]
  <2>1. w \in RunningOps /\ op' = x /\ w = op
    BY <1>2, <1>4
  <2> HIDE DEF w
  <2>2. x \in RunningOps
    BY <2>1 DEF RunningOps
  <2>3. /\ x.pc = pc /\ x.kind = w.kind /\ x.reg = w.reg /\ x.sel = w.sel /\ x.src = w.src /\ x.nsrc = w.nsrc
    BY <2>1 DEF RunningOps
  <2> HIDE DEF x
  <2>4. Running(x, rgy', sel', mem'.src, intact)
    BY <1>1, <1>2, <1>4, <2>1, <2>3 DEF Running
  <2>5. Types'
    BY <1>1, <1>2, <1>3, <1>4 DEF PackIInv, Types, PackTypeOK, Running
  <2> QED
    BY <1>1, <1>2, <2>1, <2>2, <2>3, <2>4, <2>5, OpMoves
<1> QED
  BY <1>4 DEF ReplaceAgents, FailedCall

\* The transaction goes on to compensate: only the program counter moves.
LEMMA UndoBegins ==
  ASSUME PackIInv, op # Idle, op.pc = "confirm", op' = [op EXCEPT !.pc = "undo"],
         UNCHANGED <<ptr, dirs, rgy, sel, mem, allow, rf, intact>>
  PROVE  PackIInv' /\ Slot!Next
<1>1. op \in RunningOps /\ Running(op, rgy, sel, mem.src, intact)
  BY Where
<1> DEFINE w == op
           x == [w EXCEPT !.pc = "undo"]
<1>2. w \in RunningOps /\ op' = x /\ w = op
  BY <1>1
<1> HIDE DEF w
<1>3. x \in RunningOps
  BY <1>2 DEF RunningOps
<1>4. x.pc = "undo" /\ x.kind = w.kind /\ x.reg = w.reg /\ x.sel = w.sel /\ x.src = w.src /\ x.nsrc = w.nsrc
  BY <1>2 DEF RunningOps
<1> HIDE DEF x
<1>5. Running(x, rgy', sel', mem'.src, intact)
  BY <1>1, <1>2, <1>4 DEF Running
<1>6. Types'
  BY DEF PackIInv, Types, PackTypeOK
<1> QED
  BY <1>1, <1>2, <1>3, <1>4, <1>5, <1>6, OpMoves

\* The client takes over what the selector confirmed, and the operation ends.
LEMMA ConfirmKeeps ==
  ASSUME PackAssumption, PackIInv, Confirm
  PROVE  PackIInv' /\ Slot!Next
<1>1. UNCHANGED <<dirs, rgy, sel, allow, rf, intact>> /\ op # Idle /\ op.pc = "confirm"
  BY DEF Confirm
<1>2. op \in RunningOps /\ Running(op, rgy, sel, mem.src, intact)
  BY <1>1, Where
<1>3. CASE mem' = [cur |-> op.next, src |-> op.nsrc] /\ Ends(TRUE)
  <2>1. op' = Idle /\ ptr' = ptr
    BY <1>3 DEF Ends
  <2>2. op.next \in Policies /\ op.nsrc \in PackVersion
    BY <1>2 DEF RunningOps
  <2>3. mem' \in [cur : Policies, src : PackVersion] /\ mem'.src = op.nsrc
    BY <1>3, <2>2
  <2>4. Types'
    BY <1>1, <2>1, <2>3 DEF PackIInv, Types, PackTypeOK
  <2>5. PackIInv'
    BY <1>1, <1>2, <2>1, <2>3, <2>4 DEF PackIInv, OpInv, Running, Agree
  <2>6. op' \in Rest /\ SlotSwitch # Slot!NoSwitch
    BY <1>2, <2>1, Seen, Switching DEF Rest
  <2>7. SlotOn' = rgy.on /\ SlotServed' = sel /\ SlotSwitch' = Slot!NoSwitch
        /\ SlotSwitch = [on |-> op.kind = "enable", ver |-> op.nsrc]
    BY <1>1, <1>2, <2>6, Seen
  <2>8. rgy.on = (op.kind = "enable") /\ sel = op.nsrc
    <3>1. rgy.on \in BOOLEAN
      BY TypesUnfold DEF PackIInv, RegistryEntries
    <3> QED
      BY <1>1, <1>2, <3>1 DEF Running
  <2>9. Slot!Commit
    BY <1>1, <2>1, <2>6, <2>7, <2>8 DEF Slot!Commit
  <2> QED
    BY <2>5, <2>9 DEF Slot!Next
<1>4. CASE op' = [op EXCEPT !.pc = "undo"] /\ UNCHANGED <<mem, ptr>>
  BY <1>1, <1>4, UndoBegins
<1> QED
  BY <1>3, <1>4 DEF Confirm

\* A compensation that fails leaves whatever is undone so far.
LEMMA BreaksKeeps ==
  ASSUME PackAssumption, PackIInv, Breaks, op # Idle, op.pc \in {"undo", "undoRegistry"},
         UNCHANGED <<dirs, rgy, sel, mem, allow, rf>>
  PROVE  PackIInv' /\ Slot!Next
<1>1. op \in RunningOps /\ Running(op, rgy, sel, mem.src, intact)
  BY Where
<1>2. op' = Idle /\ ptr' \in Pointers /\ intact' = FALSE
  BY Ended DEF Breaks, PackIInv
<1>3. Types'
  BY <1>2 DEF PackIInv, Types, PackTypeOK, Pointers, PackVersion
<1>4. PackIInv'
  BY <1>2, <1>3 DEF PackIInv, OpInv
<1>5. op' \in Rest /\ SlotSwitch # Slot!NoSwitch
  BY <1>1, <1>2, Seen, Switching DEF Rest
<1>6. SlotOn' = rgy.on /\ SlotServed' = sel /\ SlotSwitch' = Slot!NoSwitch
      /\ SlotServed = op.sel /\ SlotSwitch = [on |-> op.kind = "enable", ver |-> op.nsrc]
  BY <1>1, <1>5, Seen
<1>7. rgy.on = (op.kind = "enable") /\ sel \in {op.sel, op.nsrc}
  <2>1. rgy.on \in BOOLEAN
    BY TypesUnfold DEF PackIInv, RegistryEntries
  <2> QED
    BY <1>1, <2>1 DEF Running
<1>8. Slot!Fail
  BY <1>2, <1>5, <1>6, <1>7 DEF Slot!Fail, Slot!Pointed, Pointers, PackVersion
<1> QED
  BY <1>4, <1>8 DEF Slot!Next

\* The first step back: the selector shows what it showed.
LEMMA UndoKeeps ==
  ASSUME PackAssumption, PackIInv, Undo
  PROVE  PackIInv' /\ Slot!Next
<1>1. UNCHANGED <<dirs, rgy, mem, allow, rf>> /\ op # Idle /\ op.pc = "undo"
  BY DEF Undo
<1>2. op \in RunningOps /\ Running(op, rgy, sel, mem.src, intact)
  BY <1>1, Where
<1>3. CASE sel' = op.sel /\ op' = [op EXCEPT !.pc = "undoCore"] /\ UNCHANGED <<ptr, intact>>
  <2> DEFINE w == op
             x == [w EXCEPT !.pc = "undoCore"]
  <2>1. w \in RunningOps /\ op' = x /\ w = op
    BY <1>2, <1>3
  <2> HIDE DEF w
  <2>2. x \in RunningOps
    BY <2>1 DEF RunningOps
  <2>3. /\ x.pc = "undoCore" /\ x.kind = w.kind /\ x.reg = w.reg /\ x.sel = w.sel /\ x.src = w.src /\ x.nsrc = w.nsrc
        /\ w.sel \in PackVersion
    BY <2>1 DEF RunningOps
  <2> HIDE DEF x
  <2>4. Running(x, rgy', sel', mem'.src, intact)
    BY <1>1, <1>2, <1>3, <2>1, <2>3 DEF Running
  <2>5. Types'
    BY <1>1, <1>3, <2>1, <2>3 DEF PackIInv, Types, PackTypeOK
  <2> QED
    BY <1>1, <1>2, <1>3, <2>1, <2>2, <2>3, <2>4, <2>5, OpMoves
<1>4. CASE Breaks /\ sel' = sel
  BY <1>1, <1>4, BreaksKeeps
<1> QED
  BY <1>3, <1>4 DEF Undo

\* The second step back: Core gets the policy it had.
LEMMA UndoCoreKeeps ==
  ASSUME PackIInv, UndoCore
  PROVE  PackIInv' /\ Slot!Next
<1>1. /\ UNCHANGED <<ptr, dirs, rgy, sel, mem, allow, rf, intact>> /\ op # Idle /\ op.pc = "undoCore"
      /\ op' = [op EXCEPT !.pc = "undoRegistry"]
  BY DEF UndoCore
<1>2. op \in RunningOps /\ Running(op, rgy, sel, mem.src, intact)
  BY <1>1, Where
<1> DEFINE w == op
           x == [w EXCEPT !.pc = "undoRegistry"]
<1>3. w \in RunningOps /\ op' = x /\ w = op
  BY <1>1, <1>2
<1> HIDE DEF w
<1>4. x \in RunningOps
  BY <1>3 DEF RunningOps
<1>5. x.pc = "undoRegistry" /\ x.kind = w.kind /\ x.reg = w.reg /\ x.sel = w.sel /\ x.src = w.src /\ x.nsrc = w.nsrc
  BY <1>3 DEF RunningOps
<1> HIDE DEF x
<1>6. Running(x, rgy', sel', mem'.src, intact)
  BY <1>1, <1>2, <1>3, <1>5 DEF Running
<1>7. Types'
  BY <1>1 DEF PackIInv, Types, PackTypeOK
<1> QED
  BY <1>1, <1>2, <1>3, <1>4, <1>5, <1>6, <1>7, OpMoves

\* The last step back: the registry is what it was before the transaction.
LEMMA UndoRegistryKeeps ==
  ASSUME PackAssumption, PackIInv, UndoRegistry
  PROVE  PackIInv' /\ Slot!Next
<1>1. UNCHANGED <<dirs, sel, allow, rf>> /\ op # Idle /\ op.pc = "undoRegistry"
  BY DEF UndoRegistry
<1>2. op \in RunningOps /\ Running(op, rgy, sel, mem.src, intact)
  BY <1>1, Where
<1>3. CASE mem' = [mem EXCEPT !.src = op.src] /\ rgy' = op.reg /\ Ends(FALSE) /\ intact' = intact
  <2>1. op' = Idle /\ ptr' \in Pointers
    BY <1>3, Ended DEF PackIInv
  <2>2. op.reg \in RegistryEntries /\ op.src \in PackVersion
    BY <1>2 DEF RunningOps
  <2>3. mem \in [cur : Policies, src : PackVersion]
    BY DEF PackIInv, Types
  <2>4. mem' \in [cur : Policies, src : PackVersion] /\ mem'.src = op.src
    BY <1>3, <2>2, <2>3
  <2>5. Types'
    BY <1>1, <1>3, <2>1, <2>2, <2>4 DEF PackIInv, Types, PackTypeOK, Pointers, PackVersion, RegistryEntries
  <2>6. PackIInv'
    BY <1>1, <1>2, <1>3, <2>1, <2>4, <2>5 DEF PackIInv, OpInv, Running, Agree
  <2>7. op' \in Rest
    BY <2>1 DEF Rest
  <2>8. SlotOn' = SlotOn /\ SlotServed' = SlotServed /\ SlotSwitch' = Slot!NoSwitch
    BY <1>1, <1>2, <1>3, <2>7, Seen DEF Running
  <2>9. Slot!Cancel
    BY <1>3, <2>1, <2>8 DEF Slot!Cancel, Slot!Pointed, Pointers, PackVersion
  <2> QED
    BY <2>6, <2>9 DEF Slot!Next
<1>4. CASE Breaks /\ UNCHANGED <<mem, rgy>>
  BY <1>1, <1>4, BreaksKeeps
<1> QED
  BY <1>3, <1>4 DEF UndoRegistry

-----------------------------------------------------------------------------
(* A start                                                                  *)

\* The client ends at any place of an operation: what starts again is built from the registry.
LEMMA RestartKeeps ==
  ASSUME PackAssumption, PackIInv, NEW d, Restart(d)
  PROVE  PackIInv' /\ Slot!Next
<1> DEFINE there == ptr.active \in dirs'
           entry == IF there THEN [ver |-> ptr.active, on |-> rgy.ver = 0 \/ rgy.on] ELSE rgy
           served == IF there /\ Composes(Served(entry)) THEN Served(entry) ELSE 0
           c == Constrain(served)
           v == ptr.active
           on == rgy.ver = 0 \/ rgy.on
<1>1. /\ dirs' = dirs \ d /\ rgy' = entry /\ sel' = served /\ mem' = [cur |-> c, src |-> served]
      /\ op' = Idle /\ rf' = Idle /\ intact' = TRUE /\ UNCHANGED <<ptr, allow>>
  BY DEF Restart
<1>2. /\ v \in PackVersion /\ rgy \in RegistryEntries /\ 0 \in PackVersion /\ dirs \subseteq PackVersions /\ 0 \notin PackVersions
      /\ on \in BOOLEAN /\ ptr \in Pointers
  BY TypesUnfold DEF PackIInv, Pointers, RegistryEntries, PackVersion, PackAssumption
<1>3. entry \in RegistryEntries /\ (there => v # 0 /\ entry = [ver |-> v, on |-> on]) /\ (~there => entry = rgy)
  <2> HIDE DEF v, on
  <2>1. [ver |-> v, on |-> on] \in RegistryEntries
    BY <1>2 DEF RegistryEntries
  <2> QED
    BY <1>1, <1>2, <2>1 DEF v, on
<1>4. Served(entry) \in {0, v} /\ (Served(entry) # 0 => entry.on = TRUE) /\ (entry.on => Served(entry) = v)
  BY <1>2, <1>3 DEF Served, RegistryEntries
<1>5. served \in PackVersion /\ (served # 0 => there /\ served = v /\ entry.on = TRUE)
  BY <1>2, <1>4
<1>6. Shows(served, entry)
  BY <1>3, <1>5 DEF Shows
<1>7. c \in Policies
  BY <1>5, Constrained DEF PackIInv
<1> HIDE DEF there, entry, served, c
<1>8. mem' \in [cur : Policies, src : PackVersion] /\ mem'.src = served
  BY <1>1, <1>5, <1>7
<1>9. Types'
  BY <1>1, <1>2, <1>3, <1>5, <1>8 DEF PackIInv, Types, PackTypeOK, RegistryEntries, PackVersion, Pointers
<1>10. PackIInv'
  BY <1>1, <1>6, <1>8, <1>9 DEF PackIInv, OpInv, Agree
<1>11. SlotOn' = entry.on /\ SlotServed' = served /\ SlotSwitch' = Slot!NoSwitch
  BY <1>1, Seen DEF Rest
<1>12. rgy.on \in {SlotOn, SlotSwitch.on}
  <2>1. op \in Rest \/ (op \in RunningOps /\ Running(op, rgy, sel, mem.src, intact))
    BY DEF PackIInv, OpInv, Rest
  <2>2. CASE op \in Rest
    BY <2>2, Seen
  <2>3. CASE op \in RunningOps /\ Running(op, rgy, sel, mem.src, intact)
    <3>1. SlotSwitch = [on |-> op.kind = "enable", ver |-> op.nsrc]
      BY <2>3, Seen
    <3>2. rgy.on = (op.kind = "enable")
      BY <1>2, <2>3 DEF Running, RegistryEntries
    <3> QED
      BY <3>1, <3>2
  <2> QED
    BY <2>1, <2>2, <2>3
<1>13. entry.on \in {SlotOn, SlotSwitch.on, v # 0}
  <2>1. CASE there /\ rgy.ver = 0
    BY <1>3, <2>1
  <2>2. CASE there /\ rgy.ver # 0
    <3>1. entry.on = on /\ on = rgy.on
      BY <1>2, <1>3, <2>2 DEF RegistryEntries
    <3> QED
      BY <1>12, <3>1
  <2>3. CASE ~there
    BY <1>3, <1>12, <2>3
  <2> QED
    BY <2>1, <2>2, <2>3
<1>14. served \in {0, Slot!Shown(entry.on, v).ver}
  BY <1>5 DEF Slot!Shown
<1>15. Slot!Restart
  BY <1>1, <1>11, <1>13, <1>14 DEF Slot!Restart
<1> QED
  BY <1>10, <1>15 DEF Slot!Next

-----------------------------------------------------------------------------
(* The invariant and the refinement                                         *)

\* It holds of a client that has just started.
LEMMA InitHolds ==
  ASSUME PackInit
  PROVE  PackIInv /\ Slot!Init
<1>1. 0 \in PackVersion /\ FALSE \in BOOLEAN
  BY DEF PackVersion
<1>2. ptr \in Pointers /\ rgy \in RegistryEntries /\ dirs = {} /\ sel = 0 /\ rf = Idle /\ op = Idle /\ intact = TRUE /\ allow = TRUE
  BY <1>1 DEF PackInit, Pointers, RegistryEntries
<1>3. mem \in [cur : Policies, src : PackVersion] /\ mem.src = 0
  <2>1. core = [ver |-> 0, w |-> FALSE] /\ mem = [cur |-> core, src |-> 0]
    BY DEF PackInit
  <2>2. core \in Policies
    BY <1>1, <2>1 DEF Policies
  <2> QED
    BY <1>1, <2>1, <2>2
<1>4. Types
  BY <1>1, <1>2, <1>3, TypesUnfold
<1>5. PackIInv
  BY <1>2, <1>3, <1>4 DEF PackIInv, OpInv, Agree, Shows
<1>6. SlotOn = FALSE /\ SlotServed = 0 /\ SlotSwitch = Slot!NoSwitch
  BY <1>2, Seen DEF Rest, PackInit
<1>7. Slot!Init
  BY <1>2, <1>6 DEF Slot!Init, PackInit
<1> QED
  BY <1>5, <1>7

\* It survives every step, and each step is one of PackSlot or leaves it alone.
LEMMA NextHolds ==
  ASSUME PackAssumption, PackIInv, [PackNext]_packVars
  PROVE  PackIInv' /\ [Slot!Next]_(Slot!slotVars)
<1>1. CASE UNCHANGED packVars
  <2>1. UNCHANGED <<ptr, dirs, rgy, sel, mem, allow, op, rf, intact>>
    BY <1>1 DEF packVars
  <2>2. Types'
    BY <2>1 DEF PackIInv, Types, PackTypeOK
  <2> QED
    BY <2>1, <2>2, OpStands
<1>2. CASE Steps
  BY <1>2, PollKeeps, RollbackKeeps, ProvisionedKeeps, EligibleKeeps, ApplyKeeps, ReplaceKeeps, ConfirmKeeps,
     UndoKeeps, UndoCoreKeeps, UndoRegistryKeeps, RefreshKeeps DEF Steps
<1>3. CASE Rollback \/ PolicyChanges \/ EntitlementChanges
  BY <1>3, RollbackKeeps, PolicyKeeps, EntitlementKeeps
<1>4. CASE Request("enable") \/ Request("disable")
  <2>1. "enable" \in Kinds /\ "disable" \in Kinds
    BY DEF Kinds
  <2> QED
    BY <1>4, <2>1, RequestKeeps
<1>5. ASSUME NEW v \in PackVersions, Install(v) \/ InstallFails(v) \/ Provision(v)
      PROVE  PackIInv' /\ Slot!Next
  BY <1>5, InstallerKeeps
<1>6. ASSUME NEW d, Restart(d) PROVE PackIInv' /\ Slot!Next
  BY <1>6, RestartKeeps
<1> QED
  BY <1>1, <1>2, <1>3, <1>4, <1>5, <1>6 DEF PackNext

\* What the runs check follows from the inductive invariant.
LEMMA Implied ==
  ASSUME PackIInv
  PROVE  PacksInv
<1>1. op = Idle => op \notin AskedOps /\ op \notin RunningOps
  BY DEF Idle, AskedOps, RunningOps
<1>2. SelectorAgrees /\ SourceAgrees
  BY <1>1 DEF PackIInv, OpInv, Agree, Shows, SelectorAgrees, SourceAgrees
<1> QED
  BY <1>2 DEF PacksInv, PackIInv, Types

\* Between operations of agent-lifecycle-coordinator.ts the selector shows nothing
\* but the version that the registry enables, and the source policy is what it
\* shows, for any versions, calls, failures and starts.
THEOREM PacksAreSafe == ASSUME PackAssumption PROVE PackSpec => []PacksInv
<1>1. PackInit => PackIInv
  BY InitHolds
<1>2. PackIInv /\ [PackNext]_packVars => PackIInv'
  BY NextHolds
<1>3. PackIInv => PacksInv
  BY Implied
<1> QED
  BY <1>1, <1>2, <1>3, PTL DEF PackSpec

\* Every step of installer, provisioning, queue and start is one step of PackSlot:
\* the visible pack changes at once when the transaction is confirmed, or it does
\* not change, or a compensation failed.
THEOREM SlotIsRefined == ASSUME PackAssumption PROVE PackSpec => RefinesSlot
<1>1. PackInit => PackIInv /\ Slot!Init
  BY InitHolds
<1>2. PackIInv /\ [PackNext]_packVars => PackIInv' /\ [Slot!Next]_(Slot!slotVars)
  BY NextHolds
<1> QED
  BY <1>1, <1>2, PTL DEF PackSpec, RefinesSlot, Slot!Spec

-----------------------------------------------------------------------------
(* The Gateway's supervisor: what a world is                               *)

States == {"up", "crashed", "config", "gone"}
Pages == {"none", "chat"} \cup Statuses
Boots == {"off", "waiting", "up", "failed"}
Sups == [child : Nat, stopping : BOOLEAN, restarts : 0..MaxRestarts, timer : BOOLEAN, op : BOOLEAN]
Probes == [pid : Nat, cycle : Nat, why : {"runtime", "resume"}]
Uis == [cycle : Nat, probes : SUBSET Probes, win : BOOLEAN, page : Pages, loading : BOOLEAN,
        aborted : BOOLEAN, from : Nat]
Worlds == [sup : Sups, proc : Seq(States), ui : Uis]
Bounds == [exits : 0..Exits, resumes : 0..Resumes, stopped : BOOLEAN]

\* The child has ended by itself and nothing was told of it.
Unheard(w) == ~w.sup.stopping /\ w.sup.child # 0 /\ w.proc[w.sup.child] \in {"crashed", "config"}

\* What may still spawn a process, and has not.
One(b) == IF b THEN 1 ELSE 0
ToResume(S) == {p \in S : p.why = "resume"}
Tickets(w) == One(w.sup.timer) + One(w.sup.op) + One(Unheard(w)) + Cardinality(ToResume(w.ui.probes))
Issued(b, s) == One(b # "off") + s.exits + s.resumes

Tracked(w) ==
  /\ w.sup.child <= Len(w.proc)
  /\ \A c \in DOMAIN w.proc : w.proc[c] # "gone" => c = w.sup.child

Control(w, ws, b, s) ==
  /\ b = "off" => w.proc = <<>> /\ ~w.sup.timer
  /\ b # "up" => w.ui.probes = {}
  /\ ws # {} => w.sup.stopping /\ Pid(w) # 0
  /\ w.sup.stopping /\ ws = {} => Pid(w) = 0
  /\ "boot" \in ws => b = "waiting"
  /\ "update" \in ws => s.stopped
  /\ "restart" \in ws <=> w.sup.op
  /\ w.sup.timer => ~w.sup.stopping /\ Pid(w) = 0

Shown(w, b, s) ==
  /\ w.ui.win => b \in {"up", "failed"}
  /\ w.ui.page = "chat" => w.ui.win /\ b = "up"
  /\ \A p \in w.ui.probes : p.why = "runtime" => p.pid # 0
  /\ w.ui.page = "chat" /\ w.ui.from # 0 /\ ~s.stopped =>
       w.ui.from = Pid(w) \/ [pid |-> Pid(w), cycle |-> w.ui.cycle, why |-> "runtime"] \in w.ui.probes

Counted(w, b, s) == IsFiniteSet(w.ui.probes) /\ Len(w.proc) + Tickets(w) <= Issued(b, s)

Good(w, ws, b, s) ==
  /\ w \in Worlds /\ ws \subseteq {"boot", "restart", "update"}
  /\ b \in Boots /\ s \in Bounds
  /\ Tracked(w) /\ Control(w, ws, b, s) /\ Shown(w, b, s) /\ Counted(w, b, s)

\* The inductive invariant: the present world is good for those who wait, the start and the bounds.
SupervisorIInv == Good(World, waits, boot, sbound)

-----------------------------------------------------------------------------
(* Worlds                                                                   *)

\* gateway-supervisor.ts: a step's effect is the next world.
LEMMA NextWorld ==
  ASSUME NEW w \in Worlds, Becomes(w)
  PROVE  World' = w
  BY DEF Becomes, World, Worlds

\* The phases whose events the recovery acts on, and the others.
LEMMA Handling ==
  ASSUME NEW u \in Uis, NEW pid \in Nat, NEW phase \in {"running", "stopped", "restarting", "config-error", "failed"}
  PROVE  /\ boot # "up" => Handle(u, phase, pid) = u
         /\ boot = "up" /\ phase = "running" =>
              Handle(u, phase, pid) =
                [u EXCEPT !.probes = @ \cup {[pid |-> pid, cycle |-> u.cycle, why |-> "runtime"]}]
         /\ boot = "up" /\ phase = "stopped" => Handle(u, phase, pid) = [u EXCEPT !.cycle = @ + 1]
         /\ boot = "up" /\ phase \in {"restarting", "config-error", "failed"} =>
              \E code \in Statuses : Handle(u, phase, pid) = ShowStatus([u EXCEPT !.cycle = @ + 1], code)
<1>1. boot # "up" => Handle(u, phase, pid) = u  BY DEF Handle
<1>2. boot = "up" /\ phase = "running" =>
        Handle(u, phase, pid) = [u EXCEPT !.probes = @ \cup {[pid |-> pid, cycle |-> u.cycle, why |-> "runtime"]}]
  BY DEF Handle
<1>3. boot = "up" /\ phase = "stopped" => Handle(u, phase, pid) = [u EXCEPT !.cycle = @ + 1]
  BY DEF Handle
<1>4. boot = "up" /\ phase = "restarting" =>
        Handle(u, phase, pid) = ShowStatus([u EXCEPT !.cycle = @ + 1], "reconnecting")
  BY DEF Handle
<1>5. boot = "up" /\ phase = "config-error" =>
        Handle(u, phase, pid) = ShowStatus([u EXCEPT !.cycle = @ + 1], "config")
  BY DEF Handle
<1>6. boot = "up" /\ phase = "failed" =>
        Handle(u, phase, pid) = ShowStatus([u EXCEPT !.cycle = @ + 1], "exhausted")
  BY DEF Handle
<1> QED  BY <1>1, <1>2, <1>3, <1>4, <1>5, <1>6 DEF Statuses

\* showProductStatus: the page of an open window becomes a status page.
LEMMA Showing ==
  ASSUME NEW u \in Uis, NEW code \in Statuses
  PROVE  /\ ShowStatus(u, code) \in Uis
         /\ ShowStatus(u, code).probes = u.probes /\ ShowStatus(u, code).win = u.win
         /\ ShowStatus(u, code).cycle = u.cycle
         /\ u.win => ShowStatus(u, code).page = code /\ code # "chat"
         /\ ~u.win => ShowStatus(u, code) = u
  BY DEF ShowStatus, Uis, Pages, Statuses

\* gateway-supervisor.ts, spawnChild: the next process is the child.
LEMMA Spawning ==
  ASSUME NEW w \in Worlds
  PROVE  /\ SpawnChild(w) \in Worlds
         /\ SpawnChild(w).sup = [w.sup EXCEPT !.child = Len(w.proc) + 1, !.timer = FALSE]
         /\ SpawnChild(w).proc = Append(w.proc, "up")
         /\ SpawnChild(w).ui =
              IF boot = "up"
              THEN [w.ui EXCEPT !.probes = @ \cup {[pid |-> Len(w.proc) + 1, cycle |-> w.ui.cycle, why |-> "runtime"]}]
              ELSE w.ui
<1> DEFINE n == Len(w.proc) + 1
           s == [w.sup EXCEPT !.child = n, !.timer = FALSE]
           q == Append(w.proc, "up")
           v == [w EXCEPT !.proc = q, !.sup = s]
           h == Handle(w.ui, "running", n)
<1>1. w.sup \in Sups /\ w.proc \in Seq(States) /\ w.ui \in Uis /\ n \in Nat  BY DEF Worlds
<1>2. s \in Sups /\ s.child = n /\ q \in Seq(States)
  <2>1. s \in Sups /\ s.child = n
    <3> HIDE DEF n
    <3> QED  BY <1>1 DEF Sups
  <2>2. q \in Seq(States)  BY <1>1 DEF States
  <2> QED  BY <2>1, <2>2
<1>3. h = IF boot = "up" THEN [w.ui EXCEPT !.probes = @ \cup {[pid |-> n, cycle |-> w.ui.cycle, why |-> "runtime"]}]
          ELSE w.ui
  BY <1>1, Handling
<1>4. h \in Uis  BY <1>1, <1>3 DEF Uis, Probes
<1> HIDE DEF s, q
<1>5. v \in Worlds /\ v.sup = s /\ v.proc = q /\ v.ui = w.ui  BY <1>2 DEF Worlds
<1>6. SpawnChild(w) = [v EXCEPT !.ui = h]  BY <1>2, <1>5, Zenon DEF SpawnChild, Emit, s, q
<1>7. SpawnChild(w) \in Worlds /\ SpawnChild(w).sup = s /\ SpawnChild(w).proc = q /\ SpawnChild(w).ui = h
  <2> HIDE DEF h, v
  <2> QED  BY <1>4, <1>5, <1>6 DEF Worlds
<1> QED  BY <1>3, <1>7 DEF s, q

\* A set of probes without one of them, or with one more.
LEMMA CountProbes ==
  ASSUME NEW S, IsFiniteSet(S)
  PROVE  /\ Cardinality(ToResume(S)) \in Nat
         /\ \A p \in S : /\ IsFiniteSet(S \ {p}) /\ Cardinality(ToResume(S \ {p})) \in Nat
                         /\ p.why = "resume" => Cardinality(ToResume(S \ {p})) = Cardinality(ToResume(S)) - 1
                         /\ p.why # "resume" => Cardinality(ToResume(S \ {p})) = Cardinality(ToResume(S))
         /\ \A p : /\ IsFiniteSet(S \cup {p}) /\ Cardinality(ToResume(S \cup {p})) \in Nat
                   /\ p.why = "resume" => Cardinality(ToResume(S \cup {p})) <= Cardinality(ToResume(S)) + 1
                   /\ p.why # "resume" => Cardinality(ToResume(S \cup {p})) = Cardinality(ToResume(S))
<1>1. \A T : IsFiniteSet(T) => IsFiniteSet(ToResume(T)) /\ Cardinality(ToResume(T)) \in Nat
  BY FS_Subset, FS_CardinalityType DEF ToResume
<1>2. ASSUME NEW p \in S
      PROVE  /\ IsFiniteSet(S \ {p})
             /\ p.why = "resume" => Cardinality(ToResume(S \ {p})) = Cardinality(ToResume(S)) - 1
             /\ p.why # "resume" => Cardinality(ToResume(S \ {p})) = Cardinality(ToResume(S))
  <2>1. IsFiniteSet(S \ {p})  BY FS_Subset
  <2>2. CASE p.why = "resume"
    <3>1. p \in ToResume(S) /\ ToResume(S \ {p}) = ToResume(S) \ {p}  BY <2>2 DEF ToResume
    <3> QED  BY <1>1, <2>1, <2>2, <3>1, FS_RemoveElement
  <2>3. CASE p.why # "resume"
    <3>1. ToResume(S \ {p}) = ToResume(S)  BY <2>3 DEF ToResume
    <3> QED  BY <2>1, <2>3, <3>1
  <2> QED  BY <2>2, <2>3
<1>3. ASSUME NEW p
      PROVE  /\ IsFiniteSet(S \cup {p})
             /\ p.why = "resume" => Cardinality(ToResume(S \cup {p})) <= Cardinality(ToResume(S)) + 1
             /\ p.why # "resume" => Cardinality(ToResume(S \cup {p})) = Cardinality(ToResume(S))
  <2>1. IsFiniteSet(S \cup {p})  BY FS_AddElement
  <2>2. CASE p.why = "resume"
    <3>1. ToResume(S \cup {p}) = ToResume(S) \cup {p}  BY <2>2 DEF ToResume
    <3>2. IsFiniteSet(ToResume(S)) /\ Cardinality(ToResume(S)) \in Nat  BY <1>1
    <3>4. Cardinality(ToResume(S \cup {p})) <= Cardinality(ToResume(S)) + 1
      <4>1. CASE p \in ToResume(S)
        <5>1. ToResume(S \cup {p}) = ToResume(S)  BY <2>2, <4>1 DEF ToResume
        <5>2. Cardinality(ToResume(S \cup {p})) = Cardinality(ToResume(S))  BY <5>1
        <5> QED  BY <3>2, <5>2
      <4>2. CASE p \notin ToResume(S)
        <5>1. Cardinality(ToResume(S) \cup {p}) = Cardinality(ToResume(S)) + 1  BY <3>2, <4>2, FS_AddElement, Zenon
        <5> QED  BY <3>1, <3>2, <5>1
      <4> QED  BY <4>1, <4>2
    <3> QED  BY <2>1, <2>2, <3>4
  <2>3. CASE p.why # "resume"
    <3>1. ToResume(S \cup {p}) = ToResume(S)  BY <2>3 DEF ToResume
    <3> QED  BY <2>1, <2>3, <3>1
  <2> QED  BY <2>2, <2>3
<1> QED  BY <1>1, <1>2, <1>3

\* What a child that is not there or has gone means.
LEMMA Pids ==
  ASSUME NEW w \in Worlds, Tracked(w)
  PROVE  /\ Pid(w) \in Nat /\ w.sup.child \in Nat /\ Len(w.proc) \in Nat
         /\ Pid(w) # 0 => Pid(w) = w.sup.child /\ w.sup.child \in DOMAIN w.proc /\ w.proc[w.sup.child] # "gone"
         /\ Pid(w) = 0 => \A c \in DOMAIN w.proc : w.proc[c] = "gone"
         /\ \A c \in DOMAIN w.proc : w.proc[c] \in States
<1>1. w.sup \in Sups /\ w.proc \in Seq(States)  BY DEF Worlds
<1>2. w.sup.child \in Nat /\ Len(w.proc) \in Nat /\ DOMAIN w.proc = 1..Len(w.proc)  BY <1>1 DEF Sups
<1>3. w.sup.child # 0 => w.sup.child \in DOMAIN w.proc  BY <1>2 DEF Tracked
<1>4. \A c \in DOMAIN w.proc : w.proc[c] \in States  BY <1>1
<1> QED  BY <1>2, <1>3, <1>4 DEF Pid, Tracked

\* gateway-supervisor.ts: what has asked for a process so far is a number, and bounded.
LEMMA Issues ==
  ASSUME SupervisorAssumption, NEW b, NEW s \in Bounds
  PROVE  /\ Issued(b, s) \in Nat
         /\ b = "off" => Issued(b, s) = s.exits + s.resumes
         /\ b # "off" => Issued(b, s) = 1 + s.exits + s.resumes
         /\ s.exits \in 0..Exits /\ s.resumes \in 0..Resumes /\ s.stopped \in BOOLEAN
  BY DEF Issued, One, Bounds, SupervisorAssumption

\* A process spawned while none is there, by a supervisor that nothing stops.
LEMMA SpawnGood ==
  ASSUME SupervisorAssumption, NEW w \in Worlds, NEW b \in Boots, NEW s \in Bounds,
         boot = "up" <=> b = "up", b # "off", b # "up" => w.ui.probes = {},
         \A c \in DOMAIN w.proc : w.proc[c] = "gone",
         ~w.sup.stopping, ~w.sup.op,
         w.ui.win => b \in {"up", "failed"}, w.ui.page = "chat" => w.ui.win /\ b = "up",
         \A p \in w.ui.probes : p.why = "runtime" => p.pid # 0,
         IsFiniteSet(w.ui.probes),
         Len(w.proc) + 1 + Cardinality(ToResume(w.ui.probes)) <= Issued(b, s)
  PROVE  Good(SpawnChild(w), {}, b, s)
<1> DEFINE v == SpawnChild(w)
           n == Len(w.proc) + 1
           new == [pid |-> n, cycle |-> w.ui.cycle, why |-> "runtime"]
<1>1. /\ v \in Worlds /\ v.sup = [w.sup EXCEPT !.child = n, !.timer = FALSE] /\ v.proc = Append(w.proc, "up")
      /\ v.ui = IF boot = "up" THEN [w.ui EXCEPT !.probes = @ \cup {new}] ELSE w.ui
  BY Spawning
<1>2. w.sup \in Sups /\ w.proc \in Seq(States) /\ w.ui \in Uis  BY DEF Worlds
<1>3. /\ v.sup.child = n /\ ~v.sup.timer /\ ~v.sup.stopping /\ ~v.sup.op
      /\ n \in Nat /\ n # 0 /\ Len(v.proc) = n /\ DOMAIN v.proc = 1..n /\ v.proc[n] = "up"
      /\ \A c \in 1..n : c # n => v.proc[c] = "gone"
  BY SMTT(60), <1>1, <1>2 DEF Sups
<1>4. /\ v.ui.win = w.ui.win /\ v.ui.page = w.ui.page /\ v.ui.from = w.ui.from /\ v.ui.cycle = w.ui.cycle
      /\ boot = "up" => v.ui.probes = w.ui.probes \cup {new}
      /\ boot # "up" => v.ui.probes = w.ui.probes
  BY <1>1, <1>2 DEF Uis
<1>5. new.pid = n /\ new.why = "runtime"  OBVIOUS
<1> HIDE DEF v, new, n
<1>6. Pid(v) = n  BY <1>3 DEF Pid
<1>7. Tracked(v)  BY <1>3 DEF Tracked
<1>8. Control(v, {}, b, s)  BY <1>3, <1>4 DEF Control
<1>9. Shown(v, b, s)
  <2>1. \A p \in v.ui.probes : p.why = "runtime" => p.pid # 0  BY <1>3, <1>4, <1>5
  <2>2. v.ui.page = "chat" => [pid |-> Pid(v), cycle |-> v.ui.cycle, why |-> "runtime"] \in v.ui.probes
    BY <1>4, <1>6 DEF new
  <2> QED  BY <1>4, <2>1, <2>2 DEF Shown
<1>10. IsFiniteSet(v.ui.probes) /\ Cardinality(ToResume(v.ui.probes)) = Cardinality(ToResume(w.ui.probes))
  BY <1>4, <1>5, CountProbes
<1>11. Counted(v, b, s)
  <2>1. ~Unheard(v)  BY <1>3 DEF Unheard
  <2>2. One(v.sup.timer) = 0 /\ One(v.sup.op) = 0 /\ One(Unheard(v)) = 0  BY <1>3, <2>1, Zenon DEF One
  <2>3. Cardinality(ToResume(w.ui.probes)) \in Nat  BY CountProbes
  <2>4. Tickets(v) = Cardinality(ToResume(w.ui.probes))  BY <1>10, <2>2, <2>3 DEF Tickets
  <2> QED  BY <1>3, <1>10, <2>4 DEF Counted, n
<1> QED  BY <1>1, <1>7, <1>8, <1>9, <1>11 DEF Good, v

\* What an invariant of the world needs of its tickets.
LEMMA TicketParts ==
  ASSUME NEW w \in Worlds, IsFiniteSet(w.ui.probes)
  PROVE  /\ One(w.sup.timer) \in 0..1 /\ One(w.sup.op) \in 0..1 /\ One(Unheard(w)) \in 0..1
         /\ Cardinality(ToResume(w.ui.probes)) \in Nat /\ Tickets(w) \in Nat
         /\ ~w.sup.timer => One(w.sup.timer) = 0
         /\ w.sup.timer => One(w.sup.timer) = 1
         /\ ~w.sup.op => One(w.sup.op) = 0
         /\ w.sup.op => One(w.sup.op) = 1
         /\ ~Unheard(w) => One(Unheard(w)) = 0
         /\ Unheard(w) => One(Unheard(w)) = 1
<1>1. /\ One(w.sup.timer) \in 0..1 /\ One(w.sup.op) \in 0..1 /\ One(Unheard(w)) \in 0..1
  BY DEF One
<1>2. Cardinality(ToResume(w.ui.probes)) \in Nat  BY CountProbes
<1>3. Tickets(w) \in Nat  BY <1>1, <1>2 DEF Tickets
<1> QED  BY <1>1, <1>2, <1>3, Zenon DEF One

\* The window and the recovery move, the supervisor and its processes do not.
LEMMA WindowMoves ==
  ASSUME SupervisorAssumption, NEW w \in Worlds, NEW v \in Worlds, NEW ws, NEW b \in Boots,
         NEW s \in Bounds, NEW t \in Bounds,
         Good(w, ws, b, s), b # "up" => v.ui.probes = {}, t.exits = s.exits, t.stopped = s.stopped,
         v.proc = w.proc, v.sup.child = w.sup.child, v.sup.stopping = w.sup.stopping,
         v.sup.timer = w.sup.timer, v.sup.op = w.sup.op,
         IsFiniteSet(v.ui.probes),
         Cardinality(ToResume(v.ui.probes)) + s.resumes <= Cardinality(ToResume(w.ui.probes)) + t.resumes,
         v.ui.win => b \in {"up", "failed"}, v.ui.page = "chat" => v.ui.win /\ b = "up",
         \A p \in v.ui.probes : p.why = "runtime" => p.pid # 0,
         v.ui.page = "chat" /\ v.ui.from # 0 /\ ~s.stopped =>
           v.ui.from = Pid(w) \/ [pid |-> Pid(w), cycle |-> v.ui.cycle, why |-> "runtime"] \in v.ui.probes
  PROVE  Good(v, ws, b, t)
<1>1. Pid(v) = Pid(w) /\ (Unheard(v) <=> Unheard(w))  BY DEF Pid, Unheard
<1>2. Tracked(v) /\ Control(v, ws, b, t)  BY <1>1 DEF Good, Tracked, Control
<1>3. Shown(v, b, t)  BY <1>1 DEF Shown
<1>4. Counted(v, b, t)
  <2>1. IsFiniteSet(w.ui.probes) /\ Len(w.proc) + Tickets(w) <= Issued(b, s)  BY DEF Good, Counted
  <2>2. One(v.sup.timer) = One(w.sup.timer) /\ One(v.sup.op) = One(w.sup.op) /\ One(Unheard(v)) = One(Unheard(w))
    BY <1>1, Zenon DEF One
  <2>3. Cardinality(ToResume(v.ui.probes)) \in Nat  BY CountProbes
  <2>4. Len(w.proc) \in Nat  BY DEF Worlds
  <2>5. Tickets(v) = One(w.sup.timer) + One(w.sup.op) + One(Unheard(w)) + Cardinality(ToResume(v.ui.probes))
    BY <2>2 DEF Tickets
  <2>6. PICK d \in {0, 1} :
          /\ Issued(b, t) = d + s.exits + t.resumes /\ Issued(b, s) = d + s.exits + s.resumes
          /\ s.exits \in Nat /\ s.resumes \in Nat /\ t.resumes \in Nat
    <3>1. CASE b = "off"  BY <3>1, Issues
    <3>2. CASE b # "off"  BY <3>2, Issues
    <3> QED  BY <3>1, <3>2
  <2>7. /\ One(w.sup.timer) \in Nat /\ One(w.sup.op) \in Nat /\ One(Unheard(w)) \in Nat
        /\ Cardinality(ToResume(w.ui.probes)) \in Nat
    BY <2>1, TicketParts
  <2>8. Tickets(w) = One(w.sup.timer) + One(w.sup.op) + One(Unheard(w)) + Cardinality(ToResume(w.ui.probes))
    BY DEF Tickets
  <2>9. Len(v.proc) + Tickets(v) <= Issued(b, t)
    <3> DEFINE k == Cardinality(ToResume(v.ui.probes))
               j == Cardinality(ToResume(w.ui.probes))
               n == Len(w.proc)
               q == One(w.sup.timer) + One(w.sup.op) + One(Unheard(w))
    <3>0. q \in Nat  BY <2>7
    <3>1. k + s.resumes <= j + t.resumes /\ k \in Nat /\ j \in Nat /\ n \in Nat /\ Len(v.proc) = n
      BY <2>3, <2>4, <2>7
    <3>3. Tickets(w) = q + j /\ Tickets(v) = q + k  BY <2>5, <2>8, Zenon
    <3>2. n + (q + j) <= d + s.exits + s.resumes  BY <2>1, <2>6, <3>3
    <3> HIDE DEF k, j, n, q
    <3> DEFINE e == s.exits
               r == s.resumes
               o == t.resumes
    <3>5. d \in Nat /\ e \in Nat /\ r \in Nat /\ o \in Nat /\ k + r <= j + o /\ n + (q + j) <= d + e + r
      BY <2>6, <3>1, <3>2
    <3>4. n + (q + k) <= d + s.exits + t.resumes
      <4> HIDE DEF e, r, o
      <4>1. n + (q + k) <= d + e + o  BY SMTT(60), <3>0, <3>1, <3>5
      <4> QED  BY <4>1 DEF e, o
    <3> QED  BY <2>6, <3>1, <3>3, <3>4
  <2> QED  BY <2>9 DEF Counted
<1> QED  BY <1>2, <1>3, <1>4 DEF Good

\* gateway-supervisor.ts, stop: with a process it waits for it, without one it is done.
LEMMA Stopping ==
  ASSUME NEW w \in Worlds
  PROVE  /\ Stop(w) \in Worlds /\ Stop(w).proc = w.proc
         /\ Stop(w).sup = [w.sup EXCEPT !.stopping = TRUE, !.timer = FALSE]
         /\ Stop(w).ui = IF Pid(w) = 0 /\ boot = "up" THEN [w.ui EXCEPT !.cycle = @ + 1] ELSE w.ui
<1> DEFINE s == [w.sup EXCEPT !.stopping = TRUE, !.timer = FALSE]
           v == [w EXCEPT !.sup = s]
           h == Handle(w.ui, "stopped", w.sup.child)
<1>1. w.sup \in Sups /\ w.proc \in Seq(States) /\ w.ui \in Uis /\ w.sup.child \in Nat  BY DEF Worlds, Sups
<1>2. s \in Sups /\ s.child = w.sup.child  BY <1>1 DEF Sups
<1>3. h \in Uis /\ h = IF boot = "up" THEN [w.ui EXCEPT !.cycle = @ + 1] ELSE w.ui
  <2>1. h = IF boot = "up" THEN [w.ui EXCEPT !.cycle = @ + 1] ELSE w.ui  BY <1>1, Handling
  <2> QED  BY <1>1, <2>1 DEF Uis
<1> HIDE DEF s
<1>4. v \in Worlds /\ v.sup = s /\ v.proc = w.proc /\ v.ui = w.ui  BY <1>2 DEF Worlds
<1>5. Stop(w) = IF Pid(w) = 0 THEN [v EXCEPT !.ui = h] ELSE v
  <2>1. Emit(v, "stopped") = [v EXCEPT !.ui = h]  BY <1>2, <1>4, Zenon DEF Emit
  <2>2. Stop(w) = IF Pid(w) = 0 THEN Emit(v, "stopped") ELSE v  BY Zenon DEF Stop, s
  <2> QED  BY <2>1, <2>2, Zenon
<1>6. /\ Stop(w) \in Worlds /\ Stop(w).sup = s /\ Stop(w).proc = w.proc
      /\ Stop(w).ui = IF Pid(w) = 0 THEN h ELSE w.ui
  <2> HIDE DEF h, v
  <2> QED  BY <1>3, <1>4, <1>5 DEF Worlds
<1> QED  BY <1>3, <1>6 DEF s

\* Somebody starts to wait for the process, or nobody needs to.
LEMMA StopGood ==
  ASSUME SupervisorAssumption, NEW w \in Worlds, NEW ws, NEW b \in Boots, NEW s \in Bounds,
         Good(w, ws, b, s), b # "off"
  PROVE  /\ Pid(w) = 0 => ws = {} /\ Good(Stop(w), {}, b, s)
         /\ \A x \in {"boot", "update"} :
              Pid(w) # 0 /\ (x = "boot" => b = "waiting") /\ (x = "update" => s.stopped)
                => Good(Stop(w), ws \cup {x}, b, s)
<1> DEFINE v == Stop(w)
<1>0. /\ ws \subseteq {"boot", "restart", "update"} /\ Tracked(w) /\ Control(w, ws, b, s) /\ Shown(w, b, s)
      /\ Counted(w, b, s)
  BY DEF Good
<1>1. /\ v \in Worlds /\ v.proc = w.proc /\ v.sup.child = w.sup.child /\ v.sup.op = w.sup.op
      /\ v.sup.stopping /\ ~v.sup.timer
      /\ v.ui.probes = w.ui.probes /\ v.ui.win = w.ui.win /\ v.ui.page = w.ui.page /\ v.ui.from = w.ui.from
      /\ Pid(w) # 0 => v.ui.cycle = w.ui.cycle
  <2>1. w.sup \in Sups /\ w.ui \in Uis  BY DEF Worlds
  <2> QED  BY <2>1, Stopping DEF Sups, Uis
<1> HIDE DEF v
<1>2. Pid(v) = Pid(w) /\ ~Unheard(v)  BY <1>1 DEF Pid, Unheard
<1>3. Tracked(v)  BY <1>0, <1>1 DEF Tracked
<1>4. Shown(v, b, s)  BY <1>0, <1>1, <1>2 DEF Shown
<1>5. Counted(v, b, s)
  <2>1. IsFiniteSet(w.ui.probes) /\ Len(w.proc) + Tickets(w) <= Issued(b, s)  BY <1>0 DEF Counted
  <2>2. One(v.sup.timer) = 0 /\ One(v.sup.op) = One(w.sup.op) /\ One(Unheard(v)) = 0
    BY <1>1, <1>2, Zenon DEF One
  <2>3. Len(w.proc) \in Nat  BY DEF Worlds
  <2> DEFINE n == Len(w.proc)
             k == Cardinality(ToResume(w.ui.probes))
             q == One(w.sup.timer) + One(w.sup.op) + One(Unheard(w))
             i == Issued(b, s)
  <2>4. One(w.sup.timer) \in Nat /\ One(w.sup.op) \in Nat /\ One(Unheard(w)) \in Nat /\ k \in Nat /\ i \in Nat
    BY <2>1, TicketParts, Issues
  <2>5. Tickets(w) = q + k /\ Tickets(v) = 0 + One(w.sup.op) + 0 + k  BY <1>1, <2>2, Zenon DEF Tickets
  <2>6. q \in Nat /\ One(w.sup.op) <= q  BY <2>4
  <2>7. n + Tickets(v) <= i
    <3> DEFINE t == One(w.sup.op)
    <3>1. n + (q + k) <= i  BY <2>1, <2>5
    <3>2. n \in Nat /\ k \in Nat /\ i \in Nat /\ q \in Nat /\ t \in Nat /\ t <= q  BY <2>3, <2>4, <2>6
    <3>3. Tickets(v) = 0 + t + 0 + k  BY <2>5
    <3> HIDE DEF n, k, q, i, t
    <3> QED  BY <3>1, <3>2, <3>3
  <2>8. IsFiniteSet(v.ui.probes) /\ Len(v.proc) = n  BY <1>1, <2>1
  <2> QED  BY <2>7, <2>8 DEF Counted
<1>6. ASSUME Pid(w) = 0 PROVE ws = {} /\ Good(v, {}, b, s)
  <2>1. ws = {}  BY <1>0, <1>6 DEF Control
  <2>2. Control(v, {}, b, s)  BY <1>0, <1>1, <1>2, <1>6, <2>1 DEF Control
  <2> QED  BY <1>1, <1>3, <1>4, <1>5, <2>1, <2>2 DEF Good
<1>7. ASSUME NEW x \in {"boot", "update"}, Pid(w) # 0, x = "boot" => b = "waiting", x = "update" => s.stopped
      PROVE  Good(v, ws \cup {x}, b, s)
  <2>1. Control(v, ws \cup {x}, b, s)  BY <1>0, <1>1, <1>2, <1>7 DEF Control
  <2>2. ws \cup {x} \subseteq {"boot", "restart", "update"}  BY <1>0
  <2> QED  BY <1>1, <1>3, <1>4, <1>5, <2>1, <2>2 DEF Good
<1> QED  BY <1>6, <1>7 DEF v

-----------------------------------------------------------------------------
(* The steps                                                                *)

\* The state as a world.
LEMMA Standing ==
  ASSUME SupervisorIInv
  PROVE  /\ World \in Worlds /\ World.sup = sup /\ World.proc = proc /\ World.ui = ui
         /\ sup \in Sups /\ proc \in Seq(States) /\ ui \in Uis /\ sbound \in Bounds /\ boot \in Boots
         /\ waits \subseteq {"boot", "restart", "update"}
         /\ Tracked(World) /\ Control(World, waits, boot, sbound) /\ Shown(World, boot, sbound)
         /\ Counted(World, boot, sbound)
<1>1. World \in Worlds  BY DEF SupervisorIInv, Good
<1>2. World.sup = sup /\ World.proc = proc /\ World.ui = ui  BY DEF World
<1> QED  BY <1>1, <1>2 DEF SupervisorIInv, Good, Worlds

\* main.ts, startEmbeddedGateway: the first process.
LEMMA BootKeeps ==
  ASSUME SupervisorAssumption, SupervisorIInv, Boot
  PROVE  SupervisorIInv'
<1> DEFINE v == [World EXCEPT !.sup.stopping = FALSE]
<1>1. /\ boot = "off" /\ boot' = "waiting" /\ Becomes(Start(World)) /\ waits' = waits /\ sbound' = sbound
  BY DEF Boot
<1>2. proc = <<>> /\ ~sup.timer /\ ui.probes = {} /\ Len(proc) = 0 /\ DOMAIN proc = {}
  BY <1>1, Standing DEF Control
<1>3. Pid(World) = 0 /\ waits = {} /\ ~sup.op
  <2>1. Pid(World) = 0  BY <1>2, Standing DEF Pid, Tracked, Sups
  <2> QED  BY <2>1, Standing DEF Control
<1>4. Start(World) = SpawnChild(v)  BY <1>3 DEF Start
<1>5. v \in Worlds /\ v.sup.stopping = FALSE /\ v.sup.op = sup.op /\ v.proc = proc /\ v.ui = ui
  BY Standing DEF Worlds, Sups
<1> HIDE DEF v
<1>6. Len(v.proc) + 1 + Cardinality(ToResume(v.ui.probes)) <= Issued("waiting", sbound)
  <2>1. ToResume(ui.probes) = {}  BY <1>2 DEF ToResume
  <2>2. Cardinality(ToResume(v.ui.probes)) = 0  BY <1>5, <2>1, FS_EmptySet
  <2>3. Issued("waiting", sbound) = 1 + sbound.exits + sbound.resumes /\ sbound.exits \in Nat /\ sbound.resumes \in Nat
    BY Issues, Standing
  <2>4. Len(v.proc) = 0  BY <1>2, <1>5
  <2> QED  BY <2>2, <2>3, <2>4
<1>7. ~ui.win /\ ui.page # "chat" /\ IsFiniteSet(ui.probes)  BY <1>1, Standing DEF Shown, Counted
<1>8. Good(SpawnChild(v), {}, "waiting", sbound)
  <2>1. "waiting" \in Boots  BY DEF Boots
  <2>2. \A p \in v.ui.probes : p.why = "runtime" => p.pid # 0  BY <1>2, <1>5
  <2>3. \A c \in DOMAIN v.proc : v.proc[c] = "gone"  BY <1>2, <1>5
  <2>4. v.ui.probes = {}  BY <1>2, <1>5
  <2> QED  BY <1>1, <1>3, <1>5, <1>6, <1>7, <2>1, <2>2, <2>3, <2>4, Standing, SpawnGood
<1>9. World' = SpawnChild(v)  BY <1>1, <1>4, <1>8, NextWorld DEF Good
<1> QED  BY <1>1, <1>3, <1>8, <1>9 DEF SupervisorIInv

\* gateway-runtime-recovery.ts, waitForGatewayChatPage: no window is open yet.
LEMMA BootReadyKeeps ==
  ASSUME SupervisorAssumption, SupervisorIInv, BootReady
  PROVE  SupervisorIInv'
<1>1. /\ boot = "waiting" /\ "boot" \notin waits /\ boot' = "up" /\ sup' = [sup EXCEPT !.restarts = 0]
      /\ proc' = proc /\ waits' = waits /\ ui' = ui /\ sbound' = sbound
  BY DEF BootReady
<1>2. sup' \in Sups /\ sup'.child = sup.child /\ sup'.stopping = sup.stopping /\ sup'.timer = sup.timer /\ sup'.op = sup.op
  BY <1>1, Standing DEF Sups, SupervisorAssumption
<1>3. World' \in Worlds /\ World'.sup = sup' /\ World'.proc = proc /\ World'.ui = ui
  BY <1>1, <1>2, Standing DEF World, Worlds
<1> DEFINE v == World'
<1>4. v \in Worlds /\ v.proc = World.proc /\ v.ui = World.ui /\ v.sup.child = World.sup.child
      /\ v.sup.stopping = World.sup.stopping /\ v.sup.timer = World.sup.timer /\ v.sup.op = World.sup.op
  BY <1>2, <1>3, Standing
<1> HIDE DEF v
<1>5. Pid(v) = Pid(World) /\ (Unheard(v) <=> Unheard(World))  BY <1>4 DEF Pid, Unheard
<1>6. Tracked(v) /\ Control(v, waits, "up", sbound) /\ Shown(v, "up", sbound)
  BY <1>1, <1>4, <1>5, Standing DEF Tracked, Control, Shown
<1>7. Counted(v, "up", sbound)
  <2>1. Tickets(v) = Tickets(World)
    <3>1. One(v.sup.timer) = One(World.sup.timer) /\ One(v.sup.op) = One(World.sup.op) /\ One(Unheard(v)) = One(Unheard(World))
      BY <1>4, <1>5, Zenon DEF One
    <3> QED  BY <1>4, <3>1 DEF Tickets
  <2>2. Issued("up", sbound) = Issued(boot, sbound)  BY <1>1, Standing, Issues
  <2> QED  BY <1>4, <2>1, <2>2, Standing DEF Counted
<1>8. Good(v, waits, "up", sbound)  BY <1>4, <1>6, <1>7, Standing DEF Good, Boots
<1> QED  BY <1>1, <1>8 DEF SupervisorIInv, v

\* main.ts, startEmbeddedGateway: a start that failed leaves no process.
LEMMA FailedGood ==
  ASSUME SupervisorAssumption, NEW w, NEW s, Good(w, {}, "waiting", s)
  PROVE  Good(w, {}, "failed", s)
<1>1. w \in Worlds /\ s \in Bounds  BY DEF Good
<1>2. Control(w, {}, "failed", s) /\ Shown(w, "failed", s)  BY DEF Good, Control, Shown
<1>3. Issued("failed", s) = Issued("waiting", s)  BY <1>1, Issues
<1>4. Counted(w, "failed", s)  BY <1>3 DEF Good, Counted
<1> QED  BY <1>1, <1>2, <1>4 DEF Good, Boots

\* main.ts, startEmbeddedGateway: a start that fails stops the Gateway, and waits for its exit.
LEMMA BootFailsKeeps ==
  ASSUME SupervisorAssumption, SupervisorIInv, BootFails
  PROVE  SupervisorIInv'
<1>1. /\ boot = "waiting" /\ Becomes(Stop(World)) /\ sbound' = sbound
      /\ Pid(World) = 0 => boot' = "failed" /\ waits' = waits
      /\ Pid(World) # 0 => boot' = boot /\ waits' = waits \cup {"boot"}
  BY DEF BootFails
<1>2. Stop(World) \in Worlds  BY Standing, Stopping
<1>3. World' = Stop(World)  BY <1>1, <1>2, NextWorld
<1>4. CASE Pid(World) = 0
  <2>1. waits = {} /\ Good(Stop(World), {}, "waiting", sbound)
    BY <1>1, <1>4, Standing, StopGood DEF SupervisorIInv
  <2>2. Good(Stop(World), {}, "failed", sbound)  BY <2>1, FailedGood
  <2> QED  BY <1>1, <1>3, <1>4, <2>1, <2>2 DEF SupervisorIInv
<1>5. CASE Pid(World) # 0
  <2>1. Good(Stop(World), waits \cup {"boot"}, boot, sbound)
    BY <1>1, <1>5, Standing, StopGood DEF SupervisorIInv
  <2> QED  BY <1>1, <1>3, <1>5, <2>1 DEF SupervisorIInv
<1> QED  BY <1>4, <1>5

\* main.ts, stopRuntimeForUpdate: from here on no page is promised.
LEMMA StopForUpdateKeeps ==
  ASSUME SupervisorAssumption, SupervisorIInv, StopForUpdate
  PROVE  SupervisorIInv'
<1> DEFINE t == [sbound EXCEPT !.stopped = TRUE]
<1>1. /\ boot = "up" /\ boot' = boot /\ Becomes(Stop(World)) /\ sbound' = t
      /\ Pid(World) = 0 => waits' = waits
      /\ Pid(World) # 0 => waits' = waits \cup {"update"}
  BY DEF StopForUpdate
<1>2. t \in Bounds /\ t.stopped /\ t.exits = sbound.exits /\ t.resumes = sbound.resumes
  BY Standing DEF Bounds
<1> HIDE DEF t
<1>3. Good(World, waits, boot, t)
  <2>1. Control(World, waits, boot, t) /\ Shown(World, boot, t)
    BY <1>2, Standing DEF Control, Shown
  <2>2. Issued(boot, t) = Issued(boot, sbound)  BY <1>2 DEF Issued
  <2> QED  BY <1>2, <2>1, <2>2, Standing DEF Good, Counted
<1>4. World' = Stop(World)
  <2>1. Stop(World) \in Worlds  BY Standing, Stopping
  <2> QED  BY <1>1, <2>1, NextWorld
<1>5. CASE Pid(World) = 0
  <2>1. waits = {} /\ Good(Stop(World), {}, boot, t)
    BY <1>1, <1>2, <1>3, <1>5, Standing, StopGood
  <2> QED  BY <1>1, <1>4, <1>5, <2>1 DEF SupervisorIInv
<1>6. CASE Pid(World) # 0
  <2>1. Good(Stop(World), waits \cup {"update"}, boot, t)
    BY <1>1, <1>2, <1>3, <1>6, Standing, StopGood
  <2> QED  BY <1>1, <1>4, <1>6, <2>1 DEF SupervisorIInv
<1> QED  BY <1>5, <1>6

\* gateway-runtime-recovery.ts: steps of the window alone.
LEMMA WindowKeeps ==
  ASSUME SupervisorAssumption, SupervisorIInv, boot # "up" => ui'.probes = {}, NEW u \in Uis, ui' = u,
         UNCHANGED <<sup, proc, waits, boot>>, sbound' \in Bounds,
         sbound'.exits = sbound.exits, sbound'.stopped = sbound.stopped,
         IsFiniteSet(u.probes),
         Cardinality(ToResume(u.probes)) + sbound.resumes <= Cardinality(ToResume(ui.probes)) + sbound'.resumes,
         u.win => boot \in {"up", "failed"}, u.page = "chat" => u.win /\ boot = "up",
         \A p \in u.probes : p.why = "runtime" => p.pid # 0,
         u.page = "chat" /\ u.from # 0 /\ ~sbound.stopped =>
           u.from = Pid(World) \/ [pid |-> Pid(World), cycle |-> u.cycle, why |-> "runtime"] \in u.probes
  PROVE  SupervisorIInv'
<1> DEFINE v == World'
           t == sbound'
<1>1. v \in Worlds /\ v.sup = sup /\ v.proc = proc /\ v.ui = u
  BY Standing DEF World, Worlds
<1>2. Good(World, waits, boot, sbound) /\ (boot # "up" => u.probes = {})  BY DEF SupervisorIInv
<1>3. t \in Bounds /\ t.exits = sbound.exits /\ t.stopped = sbound.stopped
      /\ Cardinality(ToResume(u.probes)) + sbound.resumes <= Cardinality(ToResume(ui.probes)) + t.resumes
  OBVIOUS
<1> HIDE DEF v, t
<1>4. Good(v, waits, boot, t)
  BY <1>1, <1>2, <1>3, Standing, WindowMoves
<1> QED  BY <1>4 DEF SupervisorIInv, v, t

\* Another page.
LEMMA PageKeeps ==
  ASSUME SupervisorAssumption, SupervisorIInv, NEW u \in Uis, ui' = u,
         UNCHANGED <<sup, proc, waits, boot, sbound>>, u.probes = ui.probes,
         u.win => boot \in {"up", "failed"}, u.page = "chat" => u.win /\ boot = "up",
         u.page = "chat" /\ u.from # 0 /\ ~sbound.stopped =>
           u.from = Pid(World) \/ [pid |-> Pid(World), cycle |-> u.cycle, why |-> "runtime"] \in u.probes
  PROVE  SupervisorIInv'
<1>1. IsFiniteSet(u.probes) /\ \A p \in u.probes : p.why = "runtime" => p.pid # 0
  BY Standing DEF Shown, Counted
<1>2. sbound' = sbound /\ sbound' \in Bounds /\ (boot # "up" => ui'.probes = {})  BY Standing DEF Control
<1>3. Cardinality(ToResume(u.probes)) \in Nat /\ sbound.resumes \in Nat
  <2>1. Cardinality(ToResume(u.probes)) \in Nat  BY <1>1, CountProbes
  <2>2. sbound.resumes \in Nat  BY Standing DEF Bounds, SupervisorAssumption
  <2> QED  BY <2>1, <2>2
<1>4. Cardinality(ToResume(u.probes)) + sbound.resumes <= Cardinality(ToResume(ui.probes)) + sbound'.resumes
  <2> DEFINE k == Cardinality(ToResume(u.probes))
             r == sbound.resumes
  <2>1. k \in Nat /\ r \in Nat /\ k = Cardinality(ToResume(ui.probes)) /\ r = sbound'.resumes  BY <1>2, <1>3
  <2> HIDE DEF k, r
  <2>2. k + r <= k + r  BY <2>1
  <2> QED  BY <2>1, <2>2 DEF k, r
<1> QED  BY <1>1, <1>2, <1>4, WindowKeeps

\* main.ts, createWindow: the window shows /chat or why there is none.
LEMMA OpenWindowKeeps ==
  ASSUME SupervisorAssumption, SupervisorIInv, OpenWindow
  PROVE  SupervisorIInv'
<1> DEFINE u == [ui EXCEPT !.win = TRUE]
<1>1. /\ boot \in {"up", "failed"} /\ UNCHANGED <<sup, proc, waits, boot, sbound>>
      /\ ui' = IF boot = "up" THEN LoadChat(u) ELSE ShowStatus(u, "unavailable")
  BY DEF OpenWindow
<1>2. u \in Uis /\ u.win /\ u.probes = ui.probes  BY Standing DEF Uis
<1> HIDE DEF u
<1>3. CASE boot = "up"
  <2> DEFINE z == LoadChat(u)
  <2>1. z \in Uis /\ z.win /\ z.probes = ui.probes /\ z.from = 0 /\ ui' = z
    BY <1>1, <1>2, <1>3 DEF LoadChat, Uis, Pages
  <2> HIDE DEF z
  <2> QED  BY <1>1, <1>3, <2>1, PageKeeps
<1>4. CASE boot = "failed"
  <2> DEFINE z == ShowStatus(u, "unavailable")
  <2>1. "unavailable" \in Statuses  BY DEF Statuses
  <2>2. z \in Uis /\ z.win /\ z.probes = ui.probes /\ z.page # "chat" /\ ui' = z
    BY <1>1, <1>2, <1>4, <2>1, Showing
  <2> HIDE DEF z
  <2> QED  BY <1>1, <1>4, <2>2, PageKeeps
<1> QED  BY <1>1, <1>3, <1>4

\* gateway-runtime-recovery.ts: /chat is loaded from the process that runs.
LEMMA ChatLoadsKeeps ==
  ASSUME SupervisorAssumption, SupervisorIInv, ChatLoads
  PROVE  SupervisorIInv'
<1> DEFINE u == [ui EXCEPT !.loading = FALSE, !.from = sup.child]
<1>1. /\ sup.child # 0 /\ proc[sup.child] = "up" /\ ui' = u /\ UNCHANGED <<sup, proc, waits, boot, sbound>>
  BY DEF ChatLoads
<1>2. /\ u \in Uis /\ u.probes = ui.probes /\ u.win = ui.win /\ u.page = ui.page /\ u.from = sup.child
  BY Standing DEF Uis, Sups
<1> HIDE DEF u
<1>3. Pid(World) = sup.child  BY <1>1, Standing DEF Pid
<1> QED  BY <1>1, <1>2, <1>3, Standing, PageKeeps DEF Shown

\* A load that failed, or was replaced, is reported.
LEMMA ChatLoadFailsKeeps ==
  ASSUME SupervisorAssumption, SupervisorIInv, ChatLoadFails
  PROVE  SupervisorIInv'
<1> PICK u \in {[ui EXCEPT !.aborted = FALSE], [ui EXCEPT !.loading = FALSE]} :
      ui' = ShowStatus(u, "loadfailed") /\ UNCHANGED <<sup, proc, waits, boot, sbound>>
  BY DEF ChatLoadFails
<1> DEFINE z == ShowStatus(u, "loadfailed")
<1>1. u \in Uis /\ u.probes = ui.probes /\ u.win = ui.win /\ u.page = ui.page  BY Standing DEF Uis
<1>2. z \in Uis /\ z.probes = ui.probes /\ z.win = ui.win /\ (ui.win => z.page # "chat") /\ (~ui.win => z.page = ui.page)
  <2>1. "loadfailed" \in Statuses  BY DEF Statuses
  <2> QED  BY <1>1, <2>1, Showing
<1> HIDE DEF z
<1>3. z.page # "chat" /\ (z.win => boot \in {"up", "failed"})  BY <1>2, Standing DEF Shown
<1>4. ui' = z /\ UNCHANGED <<sup, proc, waits, boot, sbound>>  BY DEF z
<1> QED  BY <1>2, <1>3, <1>4, PageKeeps

\* gateway-runtime-recovery.ts, handleHostResume: one more probe may restart the Gateway.
LEMMA ResumeKeeps ==
  ASSUME SupervisorAssumption, SupervisorIInv, Resume
  PROVE  SupervisorIInv'
<1> DEFINE v == [ui EXCEPT !.cycle = @ + 1]
           u == ShowStatus(v, "reconnecting")
           p == [pid |-> Pid(World), cycle |-> u.cycle, why |-> "resume"]
           z == [u EXCEPT !.probes = @ \cup {p}]
           t == [sbound EXCEPT !.resumes = @ + 1]
<1>1. /\ boot = "up" /\ sbound.resumes < Resumes /\ sbound' = t /\ ui' = z /\ UNCHANGED <<sup, proc, waits, boot>>
  BY Zenon DEF Resume
<1>2. v \in Uis /\ v.probes = ui.probes /\ v.win = ui.win /\ v.page = ui.page  BY Standing DEF Uis
<1> HIDE DEF v
<1>3. u \in Uis /\ u.probes = ui.probes /\ u.win = ui.win /\ (ui.win => u.page # "chat") /\ (~ui.win => u.page = ui.page)
  <2>1. "reconnecting" \in Statuses  BY DEF Statuses
  <2> QED  BY <1>2, <2>1, Showing
<1> HIDE DEF u
<1>4. p \in Probes /\ p.why = "resume"  BY <1>3, Standing, Pids DEF Probes, Uis
<1> HIDE DEF p
<1>5. z \in Uis /\ z.probes = ui.probes \cup {p} /\ z.win = ui.win /\ z.page = u.page  BY <1>3, <1>4 DEF Uis
<1>6. z.page # "chat" /\ (z.win => boot \in {"up", "failed"})  BY <1>3, <1>5, Standing DEF Shown
<1>7. t \in Bounds /\ t.exits = sbound.exits /\ t.stopped = sbound.stopped /\ t.resumes = sbound.resumes + 1
      /\ sbound.resumes \in Nat
  BY <1>1, Standing DEF Bounds, SupervisorAssumption
<1> HIDE DEF z, t
<1>8. /\ IsFiniteSet(z.probes)
      /\ Cardinality(ToResume(z.probes)) + sbound.resumes <= Cardinality(ToResume(ui.probes)) + t.resumes
  <2> DEFINE k == Cardinality(ToResume(z.probes))
             j == Cardinality(ToResume(ui.probes))
  <2>0. IsFiniteSet(ui.probes)  BY Standing DEF Counted
  <2>1. IsFiniteSet(z.probes) /\ k \in Nat /\ k <= j + 1 /\ j \in Nat  BY <1>4, <1>5, <2>0, CountProbes
  <2> HIDE DEF k, j
  <2>2. k + sbound.resumes <= j + t.resumes  BY <1>7, <2>1
  <2> QED  BY <2>1, <2>2 DEF k, j
<1>9. \A q \in z.probes : q.why = "runtime" => q.pid # 0  BY <1>4, <1>5, Standing DEF Shown
<1> QED  BY <1>1, <1>5, <1>6, <1>7, <1>8, <1>9, WindowKeeps

\* A process that ends leaves an exit event, of which nothing has been told.
LEMMA ExitKeeps ==
  ASSUME SupervisorAssumption, SupervisorIInv, NEW how \in {"crashed", "config"}, Exit(how)
  PROVE  SupervisorIInv'
<1> DEFINE v == World'
           t == sbound'
           c == sup.child
<1>1. /\ c # 0 /\ proc[c] = "up" /\ proc' = [proc EXCEPT ![c] = how] /\ UNCHANGED <<sup, waits, ui, boot>>
      /\ \/ waits # {} /\ t = sbound
         \/ waits = {} /\ sbound.exits < Exits /\ t = [sbound EXCEPT !.exits = @ + 1]
  BY DEF Exit
<1>2. c \in DOMAIN proc /\ DOMAIN proc = 1..Len(proc) /\ Pid(World) = c /\ Len(proc) \in Nat
  BY <1>1, Standing DEF Pid, Tracked, Sups
<1>3. /\ proc' \in Seq(States) /\ Len(proc') = Len(proc) /\ DOMAIN proc' = DOMAIN proc /\ proc'[c] = how
      /\ \A e \in DOMAIN proc : e # c => proc'[e] = proc[e]
  BY <1>1, <1>2, Standing DEF States
<1>4. v \in Worlds /\ v.sup = sup /\ v.proc = proc' /\ v.ui = ui
  BY <1>1, <1>3, Standing DEF World, Worlds
<1>5. t \in Bounds /\ t.stopped = sbound.stopped /\ t.resumes = sbound.resumes
      /\ t.exits = sbound.exits + One(waits = {}) /\ sbound.exits \in Nat /\ sbound.resumes \in Nat
  <2>1. CASE waits = {}
    <3>1. One(waits = {}) = 1  BY <2>1, Zenon DEF One
    <3> QED  BY <1>1, <2>1, <3>1, Standing DEF Bounds, SupervisorAssumption
  <2>2. CASE waits # {}
    <3>1. One(waits = {}) = 0  BY <2>2, Zenon DEF One
    <3> QED  BY <1>1, <2>2, <3>1, Standing DEF Bounds, SupervisorAssumption
  <2> QED  BY <2>1, <2>2
<1> HIDE DEF v, t
<1>6. Pid(v) = c /\ (Unheard(v) => waits = {}) /\ ~Unheard(World)
  <2>1. Pid(v) = c  BY <1>1, <1>3, <1>4 DEF Pid
  <2>2. sup.stopping <=> waits # {}  BY <1>1, <1>2, Standing DEF Control
  <2> QED  BY <1>1, <1>4, <2>1, <2>2, Standing DEF Unheard
<1>7. Tracked(v)  BY <1>2, <1>3, <1>4, Standing DEF Tracked
<1>8. Control(v, waits, boot, t)
  <2>1. boot # "off"  BY <1>2, Standing DEF Control
  <2> QED  BY <1>2, <1>4, <1>5, <1>6, <2>1, Standing DEF Control
<1>9. Shown(v, boot, t)  BY <1>2, <1>4, <1>5, <1>6, Standing DEF Shown
<1>10. Counted(v, boot, t)
  <2> DEFINE n == Len(proc)
             q == One(sup.timer) + One(sup.op) + Cardinality(ToResume(ui.probes))
             d == One(boot # "off")
  <2>1. IsFiniteSet(ui.probes) /\ n + Tickets(World) <= Issued(boot, sbound) /\ n \in Nat
    BY <1>2, Standing DEF Counted
  <2>2. One(sup.timer) \in Nat /\ One(sup.op) \in Nat /\ Cardinality(ToResume(ui.probes)) \in Nat
    BY <2>1, Standing, TicketParts
  <2>3. q \in Nat  BY <2>2
  <2>4. One(Unheard(World)) = 0 /\ One(Unheard(v)) \in Nat /\ One(waits = {}) \in Nat /\ d \in Nat
    BY <1>6 DEF One
  <2>5. One(Unheard(v)) <= One(waits = {})  BY <1>6 DEF One
  <2>6. Tickets(World) = q /\ Tickets(v) = q + One(Unheard(v))
    BY <1>4, <2>2, <2>4, Standing DEF Tickets
  <2>7. Issued(boot, sbound) = d + sbound.exits + sbound.resumes
        /\ Issued(boot, t) = d + (sbound.exits + One(waits = {})) + sbound.resumes
    BY <1>5 DEF Issued
  <2>8. Len(v.proc) = n  BY <1>3, <1>4
  <2> HIDE DEF n, q, d
  <2>9. n + Tickets(v) <= Issued(boot, t)
    BY <1>5, <2>1, <2>3, <2>4, <2>5, <2>6, <2>7
  <2> QED  BY <1>4, <2>1, <2>8, <2>9 DEF Counted
<1> QED  BY <1>1, <1>4, <1>5, <1>7, <1>8, <1>9, <1>10, Standing DEF SupervisorIInv, Good, v, t

\* gateway-supervisor.ts: the back-off ends while nothing runs and nothing stops it.
LEMMA RestartTimerKeeps ==
  ASSUME SupervisorAssumption, SupervisorIInv, RestartTimer
  PROVE  SupervisorIInv'
<1>1. sup.timer /\ Becomes(SpawnChild(World)) /\ UNCHANGED <<waits, boot, sbound>>  BY DEF RestartTimer
<1>2. Pid(World) = 0 /\ ~sup.stopping /\ waits = {} /\ ~sup.op /\ boot # "off"
  BY <1>1, Standing DEF Control
<1>3. Len(World.proc) + 1 + Cardinality(ToResume(World.ui.probes)) <= Issued(boot, sbound)
  <2> DEFINE n == Len(World.proc)
             k == Cardinality(ToResume(World.ui.probes))
  <2>1. IsFiniteSet(World.ui.probes) /\ n + Tickets(World) <= Issued(boot, sbound)  BY Standing DEF Counted
  <2>2. /\ One(World.sup.timer) = 1 /\ One(World.sup.op) \in 0..1 /\ One(Unheard(World)) \in 0..1 /\ k \in Nat
    BY <1>1, <2>1, Standing, TicketParts
  <2>3. n \in Nat /\ Issued(boot, sbound) \in Nat  BY Standing, Issues
  <2>4. Tickets(World) = 1 + One(World.sup.op) + One(Unheard(World)) + k  BY <2>2 DEF Tickets
  <2> HIDE DEF n, k
  <2>5. n + 1 + k <= Issued(boot, sbound)  BY <2>1, <2>2, <2>3, <2>4
  <2> QED  BY <2>5 DEF n, k
<1>4. Good(SpawnChild(World), {}, boot, sbound)
  <2>1. /\ boot # "up" => World.ui.probes = {}
        /\ ui.win => boot \in {"up", "failed"}
        /\ ui.page = "chat" => ui.win /\ boot = "up"
        /\ \A p \in ui.probes : p.why = "runtime" => p.pid # 0
        /\ IsFiniteSet(ui.probes)
    BY Standing DEF Control, Shown, Counted
  <2>2. \A c \in DOMAIN World.proc : World.proc[c] = "gone"  BY <1>2, Standing, Pids
  <2> QED  BY <1>2, <1>3, <2>1, <2>2, Standing, SpawnGood
<1>5. World' = SpawnChild(World)  BY <1>1, <1>4, NextWorld DEF Good
<1> QED  BY <1>1, <1>2, <1>4, <1>5 DEF SupervisorIInv

\* gateway-supervisor.ts, restart after its stop: a spawn from a world that nothing stops.
LEMMA Restarting ==
  ASSUME SupervisorAssumption, NEW w \in Worlds, Pid(w) = 0
  PROVE  \E r \in Worlds : /\ Restarted(w) = SpawnChild(r) /\ r.proc = w.proc /\ r.ui = w.ui
                           /\ ~r.sup.stopping /\ ~r.sup.op
<1> DEFINE s == [w.sup EXCEPT !.restarts = 0, !.op = FALSE]
           v == [w EXCEPT !.sup = s]
           r == [v EXCEPT !.sup.stopping = FALSE]
<1>0. w.sup \in Sups /\ 0 \in 0..MaxRestarts  BY DEF Worlds, SupervisorAssumption
<1>1. s \in Sups /\ s.child = w.sup.child /\ ~s.op  BY <1>0 DEF Sups
<1> HIDE DEF s
<1>2. v \in Worlds /\ v.sup = s /\ v.proc = w.proc /\ v.ui = w.ui  BY <1>1 DEF Worlds
<1>3. Restarted(w) = Start(v)  BY DEF Restarted, s
<1> HIDE DEF v
<1>4. Pid(v) = 0  BY <1>1, <1>2 DEF Pid
<1>5. Start(v) = SpawnChild(r)  BY <1>4, Zenon DEF Start
<1>6. r \in Worlds /\ r.proc = v.proc /\ r.ui = v.ui /\ ~r.sup.stopping /\ ~r.sup.op
  BY <1>1, <1>2 DEF Worlds, Sups
<1> QED  BY <1>2, <1>3, <1>5, <1>6, Zenon

\* gateway-runtime-recovery.ts, handle: an end of the process is shown.
LEMMA Telling ==
  ASSUME NEW w \in Worlds, NEW phase \in {"restarting", "config-error", "failed"}
  PROVE  /\ Emit(w, phase) \in Worlds /\ Emit(w, phase).sup = w.sup /\ Emit(w, phase).proc = w.proc
         /\ Emit(w, phase).ui.probes = w.ui.probes /\ Emit(w, phase).ui.win = w.ui.win
         /\ boot = "up" /\ w.ui.win => Emit(w, phase).ui.page # "chat"
         /\ ~(boot = "up" /\ w.ui.win) => Emit(w, phase).ui.page = w.ui.page
<1> DEFINE u == [w.ui EXCEPT !.cycle = @ + 1]
           h == Handle(w.ui, phase, w.sup.child)
<1>1. w.sup.child \in Nat /\ w.ui \in Uis  BY DEF Worlds, Sups
<1>2. u \in Uis /\ u.probes = w.ui.probes /\ u.win = w.ui.win /\ u.page = w.ui.page  BY <1>1 DEF Uis
<1>3. /\ h \in Uis /\ h.probes = w.ui.probes /\ h.win = w.ui.win
      /\ boot = "up" /\ w.ui.win => h.page # "chat"
      /\ ~(boot = "up" /\ w.ui.win) => h.page = w.ui.page
  <2>1. CASE boot # "up"
    <3>1. h = w.ui  BY <1>1, <2>1, Handling
    <3> QED  BY <1>1, <2>1, <3>1
  <2>2. CASE boot = "up"
    <3>1. PICK code \in Statuses : h = ShowStatus(u, code)  BY SMTT(60), <1>1, <2>2, Handling
    <3> HIDE DEF u, h
    <3> QED  BY <1>2, <2>2, <3>1, Showing
  <2> QED  BY <2>1, <2>2
<1>4. Emit(w, phase) = [w EXCEPT !.ui = h]  BY DEF Emit
<1> HIDE DEF h
<1> QED  BY <1>3, <1>4 DEF Worlds

\* gateway-supervisor.ts: after an end of its own the process is told of, and there may
\* be a timer.
LEMMA Ending ==
  ASSUME SupervisorAssumption, NEW w \in Worlds, NEW how \in {"crashed", "config"}
  PROVE  LET v == Exited(w, how) IN
         /\ v \in Worlds /\ v.proc = w.proc /\ v.sup.child = w.sup.child /\ v.sup.stopping = w.sup.stopping
         /\ v.sup.op = w.sup.op /\ v.ui.probes = w.ui.probes /\ v.ui.win = w.ui.win
         /\ boot = "up" /\ w.ui.win => v.ui.page # "chat"
         /\ ~(boot = "up" /\ w.ui.win) => v.ui.page = w.ui.page
<1>1. CASE how = "config"
  <2>1. Exited(w, how) = Emit(w, "config-error")  BY <1>1 DEF Exited
  <2> QED  BY <2>1, Telling
<1>2. CASE how = "crashed" /\ w.sup.restarts >= MaxRestarts
  <2>1. Exited(w, how) = Emit(w, "failed")  BY <1>2 DEF Exited
  <2> QED  BY <2>1, Telling
<1>3. CASE how = "crashed" /\ ~(w.sup.restarts >= MaxRestarts)
  <2> DEFINE s == [w.sup EXCEPT !.restarts = @ + 1, !.timer = TRUE]
             z == [w EXCEPT !.sup = s]
  <2>0. w.sup \in Sups /\ w.sup.restarts + 1 \in 0..MaxRestarts  BY <1>3 DEF Worlds, Sups, SupervisorAssumption
  <2>1. Exited(w, how) = Emit(z, "restarting")
    <3>1. how # "config" /\ ~(how = "crashed" /\ w.sup.restarts >= MaxRestarts)  BY <1>3
    <3> QED  BY <3>1, Zenon DEF Exited
  <2>2. s \in Sups /\ s.child = w.sup.child /\ s.stopping = w.sup.stopping /\ s.op = w.sup.op
    BY <2>0 DEF Sups
  <2> HIDE DEF s
  <2>3. z \in Worlds /\ z.sup = s /\ z.proc = w.proc /\ z.ui = w.ui  BY <2>2 DEF Worlds
  <2> HIDE DEF z
  <2> QED  BY <2>1, <2>2, <2>3, Telling
<1> QED  BY <1>1, <1>2, <1>3

\* gateway-supervisor.ts, stop after the exit: there is no child, and probes are stale.
LEMMA Resting ==
  ASSUME NEW w \in Worlds
  PROVE  LET v == Stopped(w) IN
         /\ v \in Worlds /\ v.proc = w.proc /\ v.sup = [w.sup EXCEPT !.child = 0]
         /\ v.ui = IF boot = "up" THEN [w.ui EXCEPT !.cycle = @ + 1] ELSE w.ui
<1> DEFINE z == [w EXCEPT !.sup.child = 0]
           h == Handle(w.ui, "stopped", 0)
<1>1. z \in Worlds /\ z.sup = [w.sup EXCEPT !.child = 0] /\ z.proc = w.proc /\ z.ui = w.ui /\ z.sup.child = 0
  BY DEF Worlds, Sups
<1>2. Stopped(w) = [z EXCEPT !.ui = h]  BY <1>1, Zenon DEF Stopped, Emit
<1>3. h = IF boot = "up" THEN [w.ui EXCEPT !.cycle = @ + 1] ELSE w.ui  BY Handling DEF Worlds
<1>4. h \in Uis  BY <1>3 DEF Worlds, Uis
<1> HIDE DEF z, h
<1>5. Stopped(w) \in Worlds /\ Stopped(w).sup = z.sup /\ Stopped(w).proc = z.proc /\ Stopped(w).ui = h
  BY <1>1, <1>2, <1>4 DEF Worlds
<1> QED  BY <1>1, <1>3, <1>5

\* gateway-supervisor.ts: the exit event, whoever waits for it.
LEMMA ExitEventKeeps ==
  ASSUME SupervisorAssumption, SupervisorIInv, ExitEvent
  PROVE  SupervisorIInv'
<1> DEFINE c == sup.child
           how == proc[sup.child]
           g == [World EXCEPT !.proc[sup.child] = "gone"]
           r == Stopped(g)
           k == Cardinality(ToResume(ui.probes))
           n == Len(proc)
<1>1. /\ c # 0 /\ how \in {"crashed", "config"} /\ waits' = {} /\ sbound' = sbound
      /\ boot' = IF "boot" \in waits THEN "failed" ELSE boot
      /\ ~sup.stopping => Becomes(Exited(g, how))
      /\ sup.stopping => Becomes(IF "restart" \in waits THEN Restarted(IF waits = {} THEN g ELSE r)
                                 ELSE IF waits = {} THEN g ELSE r)
  BY Zenon DEF ExitEvent
<1>2. c \in DOMAIN proc /\ DOMAIN proc = 1..Len(proc) /\ Pid(World) = c /\ ~sup.timer /\ boot # "off" /\ n \in Nat
  <2>1. c \in DOMAIN proc /\ DOMAIN proc = 1..Len(proc) /\ n \in Nat  BY <1>1, Standing DEF Tracked, Sups
  <2>2. Pid(World) = c  BY <1>1, Standing DEF Pid
  <2> QED  BY <1>1, <2>1, <2>2, Standing DEF Control
<1>3. sup.stopping <=> waits # {}  BY <1>1, <1>2, Standing DEF Control
<1>4. /\ g \in Worlds /\ g.sup = sup /\ g.ui = ui /\ Len(g.proc) = n /\ DOMAIN g.proc = 1..n
      /\ \A e \in 1..n : g.proc[e] = "gone"
  <2> DEFINE q == [proc EXCEPT ![c] = "gone"]
  <2>1. q \in Seq(States) /\ Len(q) = n /\ DOMAIN q = 1..n  BY <1>2, Standing DEF States
  <2>2. \A e \in 1..n : q[e] = "gone"  BY <1>1, <1>2, Standing DEF Tracked
  <2>3. g = [World EXCEPT !.proc = q]  BY Standing
  <2> HIDE DEF q, g
  <2> QED  BY <2>1, <2>2, <2>3, Standing DEF Worlds
<1> HIDE DEF g
<1>5. /\ IsFiniteSet(ui.probes) /\ k \in Nat /\ n + Tickets(World) <= Issued(boot, sbound)
      /\ Tickets(World) = One(sup.op) + One(Unheard(World)) + k
      /\ One(sup.op) \in 0..1 /\ One(Unheard(World)) \in 0..1 /\ Issued(boot, sbound) \in Nat
      /\ Issued(boot', sbound) = Issued(boot, sbound) /\ boot' \in Boots /\ boot' # "off"
  <2>1. IsFiniteSet(ui.probes) /\ n + Tickets(World) <= Issued(boot, sbound)  BY Standing DEF Counted
  <2>2. One(sup.timer) = 0 /\ One(sup.op) \in 0..1 /\ One(Unheard(World)) \in 0..1 /\ k \in Nat
    BY <1>2, <2>1, Standing, TicketParts
  <2>3. Tickets(World) = One(sup.op) + One(Unheard(World)) + k  BY <2>2, Standing DEF Tickets
  <2>4. boot' \in Boots /\ boot' # "off"  BY <1>1, <1>2, Standing DEF Boots
  <2>5. Issued(boot', sbound) = Issued(boot, sbound) /\ Issued(boot, sbound) \in Nat
    BY <1>2, <2>4, Standing, Issues
  <2> QED  BY <2>1, <2>2, <2>3, <2>4, <2>5
<1>6. CASE ~sup.stopping
  <2> DEFINE x == Exited(g, how)
  <2>1. /\ x \in Worlds /\ x.proc = g.proc /\ x.sup.child = c /\ ~x.sup.stopping
        /\ x.sup.op = sup.op /\ x.ui.probes = ui.probes /\ x.ui.win = ui.win
        /\ boot = "up" /\ ui.win => x.ui.page # "chat"
        /\ ~(boot = "up" /\ ui.win) => x.ui.page = ui.page
    BY <1>1, <1>4, <1>6, Ending
  <2>2. Becomes(x) /\ waits = {} /\ boot' = boot  BY <1>1, <1>3, <1>6
  <2> HIDE DEF x, how
  <2>3. World' = x  BY <2>1, <2>2, NextWorld
  <2>4. Pid(x) = 0 /\ ~Unheard(x)  BY <1>1, <1>2, <1>4, <2>1 DEF Pid, Unheard
  <2>5. Tracked(x)  BY <1>2, <1>4, <2>1 DEF Tracked
  <2>6. Control(x, {}, boot, sbound)  BY <1>2, <2>1, <2>2, <2>4, Standing DEF Control
  <2>7. Shown(x, boot, sbound)  BY <2>1, Standing DEF Shown
  <2>8. Counted(x, boot, sbound)
    <3>1. Unheard(World)  BY <1>1, <1>6, Standing DEF Unheard, how
    <3>2. One(Unheard(World)) = 1 /\ One(Unheard(x)) = 0 /\ One(x.sup.op) = One(sup.op)
      BY <2>1, <2>4, <3>1, Zenon DEF One
    <3>3. One(x.sup.timer) \in 0..1  BY DEF One
    <3>4. Tickets(x) = One(x.sup.timer) + One(sup.op) + k  BY <1>5, <2>1, <3>2, <3>3 DEF Tickets
    <3>5. Len(x.proc) = n  BY <1>4, <2>1
    <3> HIDE DEF k, n
    <3>6. n + Tickets(x) <= Issued(boot, sbound)  BY <1>2, <1>5, <3>2, <3>3, <3>4
    <3> QED  BY <1>5, <2>1, <3>5, <3>6 DEF Counted
  <2> QED  BY <1>1, <2>1, <2>2, <2>3, <2>5, <2>6, <2>7, <2>8, Standing DEF SupervisorIInv, Good
<1>7. CASE sup.stopping
  <2>1. waits # {} /\ Becomes(IF "restart" \in waits THEN Restarted(r) ELSE r)  BY <1>1, <1>3, <1>7
  <2>2. /\ r \in Worlds /\ r.proc = g.proc /\ r.sup.child = 0 /\ r.sup.stopping /\ ~r.sup.timer /\ r.sup.op = sup.op
        /\ r.ui.probes = ui.probes /\ r.ui.win = ui.win /\ r.ui.page = ui.page /\ r.ui.from = ui.from
    <3>1. /\ r \in Worlds /\ r.proc = g.proc /\ r.sup = [sup EXCEPT !.child = 0]
          /\ r.ui = IF boot = "up" THEN [ui EXCEPT !.cycle = @ + 1] ELSE ui
      BY <1>4, Resting
    <3> HIDE DEF r
    <3> QED  BY <1>2, <1>7, <3>1, Standing DEF Sups, Uis
  <2> HIDE DEF r
  <2>3. Pid(r) = 0 /\ ~Unheard(r)  BY <2>2 DEF Pid, Unheard
  <2>4. /\ boot = "up" <=> boot' = "up"
        /\ ui.win => boot' \in {"up", "failed"}
        /\ ui.page = "chat" => ui.win /\ boot' = "up"
        /\ \A p \in ui.probes : p.why = "runtime" => p.pid # 0
        /\ boot' # "up" => ui.probes = {}
    BY <1>1, Standing DEF Control, Shown
  <2>5. CASE "restart" \in waits
    <3>1. PICK v \in Worlds : Restarted(r) = SpawnChild(v) /\ v.proc = r.proc /\ v.ui = r.ui /\ ~v.sup.stopping /\ ~v.sup.op
      BY <2>2, <2>3, Restarting
    <3>2. One(sup.op) = 1
      <4>1. sup.op  BY <2>5, Standing DEF Control
      <4> QED  BY <4>1, Zenon DEF One
    <3>3. n + 1 + k <= Issued(boot', sbound)
      <4> HIDE DEF n, k
      <4> QED  BY <1>2, <1>5, <3>2
    <3>4. Len(v.proc) + 1 + Cardinality(ToResume(v.ui.probes)) <= Issued(boot', sbound)
      BY <1>4, <2>2, <3>1, <3>3
    <3>5. Good(SpawnChild(v), {}, boot', sbound)
      <4>1. /\ \A e \in DOMAIN v.proc : v.proc[e] = "gone"
            /\ v.ui.win => boot' \in {"up", "failed"}
            /\ v.ui.page = "chat" => v.ui.win /\ boot' = "up"
            /\ \A p \in v.ui.probes : p.why = "runtime" => p.pid # 0
            /\ IsFiniteSet(v.ui.probes) /\ (boot' # "up" => v.ui.probes = {})
        BY <1>4, <1>5, <2>2, <2>4, <3>1
      <4>2. sbound \in Bounds /\ boot' \in Boots /\ boot' # "off" /\ (boot = "up" <=> boot' = "up")
        BY <1>5, <2>4, Standing
      <4> QED  BY <3>1, <3>4, <4>1, <4>2, SpawnGood
    <3>6. World' = SpawnChild(v)  BY <2>1, <2>5, <3>1, <3>5, NextWorld DEF Good
    <3> QED  BY <1>1, <3>5, <3>6 DEF SupervisorIInv
  <2>6. CASE "restart" \notin waits
    <3>1. World' = r  BY <2>1, <2>2, <2>6, NextWorld
    <3>2. Tracked(r)  BY <1>4, <2>2 DEF Tracked
    <3>3. Control(r, {}, boot', sbound)  BY <1>5, <2>2, <2>3, <2>4, <2>6, Standing DEF Control
    <3>4. ui.page # "chat" \/ sbound.stopped
      <4>1. CASE "boot" \in waits  BY <4>1, Standing DEF Control, Shown
      <4>2. CASE "update" \in waits  BY <4>2, Standing DEF Control
      <4> QED  BY <2>1, <2>6, <4>1, <4>2, Standing
    <3>5. Shown(r, boot', sbound)  BY <2>2, <2>4, <3>4 DEF Shown
    <3>6. Counted(r, boot', sbound)
      <4>1. One(Unheard(r)) = 0 /\ One(r.sup.op) = One(sup.op) /\ One(r.sup.timer) = 0
        BY <2>2, <2>3, Zenon DEF One
      <4>2. Tickets(r) = One(sup.op) + k  BY <1>5, <2>2, <4>1 DEF Tickets
      <4>3. Len(r.proc) = n  BY <1>4, <2>2
      <4> HIDE DEF k, n
      <4>4. n + Tickets(r) <= Issued(boot', sbound)  BY <1>2, <1>5, <4>2
      <4> QED  BY <1>5, <2>2, <4>3, <4>4 DEF Counted
    <3> QED  BY <1>1, <1>5, <2>2, <3>1, <3>2, <3>3, <3>5, <3>6, Standing DEF SupervisorIInv, Good
  <2> QED  BY <2>5, <2>6
<1> QED  BY <1>6, <1>7

\* gateway-runtime-recovery.ts: a probe that ends may load /chat, report a failure or
\* restart the Gateway, and does nothing in a later cycle.
LEMMA ProbeEndsKeeps ==
  ASSUME SupervisorAssumption, SupervisorIInv, NEW p \in ui.probes, NEW ready \in BOOLEAN, ProbeEnds(p, ready)
  PROVE  SupervisorIInv'
<1> DEFINE u == [ui EXCEPT !.probes = @ \ {p}]
           w == [World EXCEPT !.ui = u]
           l == [w EXCEPT !.sup.restarts = 0, !.ui = IF u.win THEN LoadChat(u) ELSE u]
           z == [w EXCEPT !.ui = ShowStatus(u, "unavailable")]
<1>1. /\ boot' = boot /\ sbound' = sbound
      /\ \/ p.cycle # ui.cycle /\ Becomes(w) /\ waits' = waits
         \/ p.cycle = ui.cycle /\ Becomes(l) /\ waits' = waits
         \/ p.cycle = ui.cycle /\ Becomes(z) /\ waits' = waits
         \/ p.cycle = ui.cycle /\ p.why = "resume" /\ RestartGateway(w)
  BY DEF ProbeEnds
<1>2. /\ u \in Uis /\ u.probes = ui.probes \ {p} /\ u.win = ui.win /\ u.page = ui.page /\ u.from = ui.from
      /\ u.cycle = ui.cycle /\ p \in Probes
  BY Standing DEF Uis
<1> HIDE DEF u
<1>3. w \in Worlds /\ w.sup = sup /\ w.proc = proc /\ w.ui = u
  BY <1>2, Standing DEF Worlds
<1>4. boot = "up" /\ IsFiniteSet(ui.probes) /\ IsFiniteSet(u.probes)
      /\ \A q \in u.probes : q.why = "runtime" => q.pid # 0
  <2>1. boot = "up" /\ IsFiniteSet(ui.probes)  BY Standing DEF Control, Counted
  <2>2. IsFiniteSet(u.probes)  BY <1>2, <2>1, FS_Subset
  <2>3. \A q \in u.probes : q.why = "runtime" => q.pid # 0  BY <1>2, Standing DEF Shown
  <2> QED  BY <2>1, <2>2, <2>3
<1>5. Good(World, waits, boot, sbound)  BY DEF SupervisorIInv
<1>6. ASSUME NEW v \in Worlds, Becomes(v), waits' = waits,
             v.proc = proc, v.sup.child = sup.child, v.sup.stopping = sup.stopping, v.sup.timer = sup.timer,
             v.sup.op = sup.op, v.ui.probes = u.probes, v.ui.win = ui.win,
             v.ui.page = "chat" => ui.win /\ boot = "up",
             v.ui.page = "chat" /\ v.ui.from # 0 /\ ~sbound.stopped =>
               v.ui.from = Pid(World) \/ [pid |-> Pid(World), cycle |-> v.ui.cycle, why |-> "runtime"] \in u.probes
      PROVE  SupervisorIInv'
  <2> DEFINE k == Cardinality(ToResume(u.probes))
             j == Cardinality(ToResume(ui.probes))
  <2>1. k \in Nat /\ j \in Nat /\ k <= j
    <3>1. IsFiniteSet(ToResume(ui.probes)) /\ ToResume(u.probes) \subseteq ToResume(ui.probes)
      BY <1>2, <1>4, FS_Subset DEF ToResume
    <3> QED  BY <3>1, FS_Subset, FS_CardinalityType
  <2>2. sbound.resumes \in Nat  BY Standing DEF Bounds, SupervisorAssumption
  <2> HIDE DEF k, j
  <2>3. k + sbound.resumes <= j + sbound.resumes  BY <2>1, <2>2
  <2>4. Good(v, waits, boot, sbound)
    BY <1>4, <1>5, <1>6, <2>3, Standing, WindowMoves DEF k, j, Shown
  <2>5. World' = v  BY <1>6, NextWorld
  <2> QED  BY <1>1, <1>6, <2>4, <2>5 DEF SupervisorIInv
<1>7. CASE p.cycle # ui.cycle /\ Becomes(w) /\ waits' = waits
  <2>1. ui.page = "chat" /\ ui.from # 0 /\ ~sbound.stopped =>
          ui.from = Pid(World) \/ [pid |-> Pid(World), cycle |-> ui.cycle, why |-> "runtime"] \in u.probes
    <3> DEFINE q == [pid |-> Pid(World), cycle |-> ui.cycle, why |-> "runtime"]
    <3>1. q # p  BY <1>7
    <3> QED  BY <1>2, <3>1, Standing DEF Shown
  <2> HIDE DEF w
  <2> QED  BY <1>2, <1>3, <1>6, <1>7, <2>1, Standing DEF Shown
<1>8. CASE p.cycle = ui.cycle /\ Becomes(l) /\ waits' = waits
  <2> DEFINE c == IF u.win THEN LoadChat(u) ELSE u
             a == [sup EXCEPT !.restarts = 0]
  <2>1. /\ c \in Uis /\ c.probes = u.probes /\ c.win = u.win
        /\ u.win => c.from = 0
        /\ ~u.win => c.page = u.page
    BY <1>2 DEF LoadChat, Uis, Pages
  <2>2. /\ a \in Sups /\ a.child = sup.child /\ a.stopping = sup.stopping /\ a.timer = sup.timer /\ a.op = sup.op
    <3>1. 0 \in 0..MaxRestarts  BY DEF SupervisorAssumption
    <3> QED  BY <3>1, Standing DEF Sups
  <2> HIDE DEF c, w
  <2>3. l \in Worlds /\ l.sup = a /\ l.proc = proc /\ l.ui = c
    <3> HIDE DEF a
    <3> QED  BY <1>3, <2>1, <2>2 DEF Worlds, c, a
  <2>4. l.ui.page = "chat" => ui.win /\ boot = "up"  BY <1>2, <1>4, <2>1, <2>3, Standing DEF Shown
  <2> QED  BY ZenonT(60), <1>2, <1>6, <1>8, <2>1, <2>2, <2>3, <2>4, Standing DEF Shown
<1>9. CASE p.cycle = ui.cycle /\ Becomes(z) /\ waits' = waits
  <2> DEFINE c == ShowStatus(u, "unavailable")
  <2>1. c \in Uis /\ c.probes = u.probes /\ c.win = u.win /\ (u.win => c.page # "chat") /\ (~u.win => c.page = u.page)
    <3>1. "unavailable" \in Statuses  BY DEF Statuses
    <3> QED  BY <1>2, <3>1, Showing
  <2> HIDE DEF c, w
  <2>2. z \in Worlds /\ z.sup = sup /\ z.proc = proc /\ z.ui = c  BY <1>3, <2>1 DEF Worlds, c
  <2>3. z.ui.page # "chat"  BY <1>2, <2>1, <2>2, Standing DEF Shown
  <2> HIDE DEF z
  <2> QED  BY <1>2, <1>6, <1>9, <2>1, <2>2, <2>3
<1>10. CASE p.cycle = ui.cycle /\ p.why = "resume" /\ RestartGateway(w)
  <2> DEFINE o == [w EXCEPT !.sup.op = TRUE]
             v == Stop(o)
             k == Cardinality(ToResume(u.probes))
             n == Len(proc)
  <2>1. \/ sup.op /\ Becomes(w) /\ waits' = waits
        \/ ~sup.op /\ Pid(w) = 0 /\ Becomes(Restarted(v)) /\ waits' = waits
        \/ ~sup.op /\ Pid(w) # 0 /\ Becomes(v) /\ waits' = waits \cup {"restart"}
    BY <1>3, <1>10, Zenon DEF RestartGateway
  <2>2. ui.page = "chat" /\ ui.from # 0 /\ ~sbound.stopped =>
          ui.from = Pid(World) \/ [pid |-> Pid(World), cycle |-> ui.cycle, why |-> "runtime"] \in u.probes
    <3> DEFINE q == [pid |-> Pid(World), cycle |-> ui.cycle, why |-> "runtime"]
    <3>1. q # p  BY <1>10
    <3> QED  BY <1>2, <3>1, Standing DEF Shown
  <2> HIDE DEF w
  <2>3. /\ o \in Worlds /\ o.proc = proc /\ o.ui = u /\ o.sup.child = sup.child /\ o.sup.op
        /\ o.sup \in Sups
    BY <1>3, Standing DEF Worlds, Sups
  <2> HIDE DEF o
  <2>4. Pid(World) = Pid(w) /\ Pid(o) = Pid(w)  BY <1>3, <2>3, Standing DEF Pid
  <2>5. /\ v \in Worlds /\ v.proc = proc /\ v.sup.child = sup.child /\ v.sup.stopping /\ ~v.sup.timer /\ v.sup.op
        /\ v.ui.probes = u.probes /\ v.ui.win = ui.win /\ v.ui.page = ui.page /\ v.ui.from = ui.from
        /\ Pid(w) # 0 => v.ui.cycle = ui.cycle
    <3>1. /\ v \in Worlds /\ v.proc = proc /\ v.sup = [o.sup EXCEPT !.stopping = TRUE, !.timer = FALSE]
          /\ v.ui = IF Pid(w) = 0 /\ boot = "up" THEN [u EXCEPT !.cycle = @ + 1] ELSE u
      BY <2>3, <2>4, Stopping
    <3> HIDE DEF v
    <3> QED  BY <1>2, <2>3, <3>1 DEF Sups, Uis
  <2> HIDE DEF v
  <2>6. Pid(v) = Pid(World) /\ ~Unheard(v)  BY <2>4, <2>5, Standing DEF Pid, Unheard, World
  <2>7. /\ k \in Nat /\ Cardinality(ToResume(ui.probes)) = k + 1  BY <1>2, <1>4, <1>10, CountProbes
  <2>8. /\ n \in Nat /\ Issued(boot, sbound) \in Nat /\ n + Tickets(World) <= Issued(boot, sbound)
        /\ One(sup.timer) \in Nat /\ One(sup.op) \in Nat /\ One(Unheard(World)) \in Nat
        /\ Tickets(World) = One(sup.timer) + One(sup.op) + One(Unheard(World)) + (k + 1)
    <3>1. One(sup.timer) \in Nat /\ One(sup.op) \in Nat /\ One(Unheard(World)) \in Nat  BY DEF One
    <3>2. n \in Nat /\ Issued(boot, sbound) \in Nat /\ n + Tickets(World) <= Issued(boot, sbound)
      BY Standing, Issues DEF Counted
    <3>3. Tickets(World) = One(sup.timer) + One(sup.op) + One(Unheard(World)) + (k + 1)
      BY <2>7, Standing DEF Tickets
    <3> QED  BY <3>1, <3>2, <3>3
  <2>9. n + 1 + k <= Issued(boot, sbound)
    <3> HIDE DEF n, k
    <3> QED  BY <2>7, <2>8
  <2>10. CASE sup.op /\ Becomes(w) /\ waits' = waits
    BY <1>2, <1>3, <1>6, <2>2, <2>10, Standing DEF Shown
  <2>11. CASE ~sup.op /\ Pid(w) = 0 /\ Becomes(Restarted(v)) /\ waits' = waits
    <3>1. PICK r \in Worlds : Restarted(v) = SpawnChild(r) /\ r.proc = v.proc /\ r.ui = v.ui /\ ~r.sup.stopping /\ ~r.sup.op
      BY <2>4, <2>5, <2>6, <2>11, Restarting
    <3>2. Len(r.proc) + 1 + Cardinality(ToResume(r.ui.probes)) <= Issued(boot, sbound)
      BY <2>5, <2>9, <3>1
    <3>3. /\ \A e \in DOMAIN r.proc : r.proc[e] = "gone"
          /\ r.ui.win => boot \in {"up", "failed"}
          /\ r.ui.page = "chat" => r.ui.win /\ boot = "up"
          /\ \A q \in r.ui.probes : q.why = "runtime" => q.pid # 0
          /\ IsFiniteSet(r.ui.probes)
      BY <1>4, <2>4, <2>5, <2>11, <3>1, Standing, Pids DEF Shown
    <3>4. Good(SpawnChild(r), {}, boot, sbound)  BY <1>4, <3>1, <3>2, <3>3, Standing, SpawnGood
    <3>5. World' = SpawnChild(r)  BY <2>11, <3>1, <3>4, NextWorld DEF Good
    <3>6. waits = {}  BY <2>4, <2>11, Standing DEF Control
    <3> QED  BY <1>1, <2>11, <3>4, <3>5, <3>6 DEF SupervisorIInv
  <2>12. CASE ~sup.op /\ Pid(w) # 0 /\ Becomes(v) /\ waits' = waits \cup {"restart"}
    <3>1. World' = v  BY <2>5, <2>12, NextWorld
    <3>2. Tracked(v)  BY <2>5, Standing DEF Tracked
    <3>3. Control(v, waits', boot, sbound)  BY <1>4, <2>4, <2>5, <2>6, <2>12, Standing DEF Control
    <3>4. Shown(v, boot, sbound)  BY <1>4, <2>2, <2>4, <2>5, <2>6, <2>12, Standing DEF Shown
    <3>5. Counted(v, boot, sbound)
      <4>1. One(Unheard(v)) = 0 /\ One(v.sup.op) = 1 /\ One(v.sup.timer) = 0
        BY <2>5, <2>6, Zenon DEF One
      <4>2. Tickets(v) = 1 + k
        <5>1. Tickets(v) = 0 + 1 + 0 + k  BY <2>5, <4>1, Zenon DEF Tickets
        <5> QED  BY <2>7, <5>1
      <4>3. Len(v.proc) = n  BY <2>5
      <4> HIDE DEF k, n
      <4>4. n + Tickets(v) <= Issued(boot, sbound)  BY <2>7, <2>8, <2>9, <4>2
      <4> QED  BY <1>4, <2>5, <4>3, <4>4 DEF Counted
    <3> QED  BY <1>1, <2>5, <2>12, <3>1, <3>2, <3>3, <3>4, <3>5, Standing DEF SupervisorIInv, Good
  <2> QED  BY <2>1, <2>10, <2>11, <2>12
<1> QED  BY <1>1, <1>7, <1>8, <1>9, <1>10

-----------------------------------------------------------------------------
(* The theorem                                                              *)

\* Before the client starts the Gateway there is no process and no page.
LEMMA SupervisorInitHolds ==
  ASSUME SupervisorAssumption, SupervisorInit
  PROVE  SupervisorIInv
<1>1. /\ sup = [child |-> 0, stopping |-> FALSE, restarts |-> 0, timer |-> FALSE, op |-> FALSE]
      /\ proc = <<>> /\ waits = {} /\ boot = "off" /\ sbound = [exits |-> 0, resumes |-> 0, stopped |-> FALSE]
      /\ ui = [cycle |-> 0, probes |-> {}, win |-> FALSE, page |-> "none", loading |-> FALSE,
               aborted |-> FALSE, from |-> 0]
  BY DEF SupervisorInit
<1>2. sup \in Sups /\ sbound \in Bounds /\ proc \in Seq(States) /\ Len(proc) = 0 /\ DOMAIN proc = {}
  BY <1>1 DEF Sups, Bounds, SupervisorAssumption
<1>3. ui \in Uis  BY <1>1 DEF Uis, Pages
<1>4. World \in Worlds /\ World.sup = sup /\ World.proc = proc /\ World.ui = ui
  BY <1>2, <1>3 DEF World, Worlds
<1>5. Pid(World) = 0 /\ ~Unheard(World)  BY <1>1, <1>4 DEF Pid, Unheard
<1>6. Tracked(World)  BY <1>1, <1>2, <1>4 DEF Tracked
<1>7. Control(World, waits, boot, sbound)  BY <1>1, <1>4, <1>5 DEF Control
<1>8. Shown(World, boot, sbound)  BY <1>1, <1>4 DEF Shown
<1>9. Counted(World, boot, sbound)
  <2>1. IsFiniteSet(ui.probes) /\ ToResume(ui.probes) = {}  BY <1>1, FS_EmptySet DEF ToResume
  <2>2. Cardinality(ToResume(ui.probes)) = 0  BY <2>1, FS_EmptySet
  <2>3. One(sup.timer) = 0 /\ One(sup.op) = 0 /\ One(Unheard(World)) = 0  BY <1>1, <1>5 DEF One
  <2>4. Tickets(World) = 0  BY <1>4, <2>2, <2>3 DEF Tickets
  <2>5. Issued(boot, sbound) \in Nat  BY <1>2, Issues
  <2> QED  BY <1>2, <1>4, <2>1, <2>4, <2>5 DEF Counted
<1>10. waits \subseteq {"boot", "restart", "update"} /\ boot \in Boots  BY <1>1 DEF Boots
<1> QED  BY <1>2, <1>4, <1>6, <1>7, <1>8, <1>9, <1>10 DEF SupervisorIInv, Good

\* Every step of the supervisor, the recovery and the client keeps the invariant.
LEMMA SupervisorStepKeeps ==
  ASSUME SupervisorAssumption, SupervisorIInv, [SupervisorNext]_supervisorVars
  PROVE  SupervisorIInv'
<1>1. CASE Boot  BY <1>1, BootKeeps
<1>2. CASE BootReady  BY <1>2, BootReadyKeeps
<1>3. CASE BootFails  BY <1>3, BootFailsKeeps
<1>4. CASE OpenWindow  BY <1>4, OpenWindowKeeps
<1>5. CASE ExitEvent  BY <1>5, ExitEventKeeps
<1>6. CASE RestartTimer  BY <1>6, RestartTimerKeeps
<1>7. ASSUME NEW how \in {"crashed", "config"}, Exit(how) PROVE SupervisorIInv'  BY <1>7, ExitKeeps
<1>8. ASSUME NEW p \in ui.probes, NEW ready \in BOOLEAN, ProbeEnds(p, ready) PROVE SupervisorIInv'
  BY <1>8, ProbeEndsKeeps
<1>9. CASE ChatLoads  BY <1>9, ChatLoadsKeeps
<1>10. CASE ChatLoadFails  BY <1>10, ChatLoadFailsKeeps
<1>11. CASE Resume  BY <1>11, ResumeKeeps
<1>12. CASE StopForUpdate  BY <1>12, StopForUpdateKeeps
<1>13. CASE UNCHANGED supervisorVars
  <2>1. World' = World /\ waits' = waits /\ boot' = boot /\ sbound' = sbound  BY <1>13 DEF supervisorVars, World
  <2> QED  BY <2>1 DEF SupervisorIInv
<1> QED
  BY <1>1, <1>2, <1>3, <1>4, <1>5, <1>6, <1>7, <1>8, <1>9, <1>10, <1>11, <1>12, <1>13
  DEF SupervisorNext, SupervisorSteps

\* The invariant says what the run checks: the number of processes is bounded by what
\* has asked for one.
LEMMA SupervisorIInvSuffices ==
  ASSUME SupervisorAssumption, SupervisorIInv
  PROVE  SupervisorInv
<1>1. Len(proc) <= 1 + Exits + Resumes /\ Len(proc) \in Nat
  <2>1. Tickets(World) \in Nat /\ Len(proc) + Tickets(World) <= Issued(boot, sbound)
    BY Standing, TicketParts DEF Counted
  <2>2. Issued(boot, sbound) \in Nat /\ Issued(boot, sbound) <= 1 + sbound.exits + sbound.resumes
        /\ sbound.exits \in 0..Exits /\ sbound.resumes \in 0..Resumes
    <3>1. /\ Issued(boot, sbound) \in Nat
          /\ boot = "off" => Issued(boot, sbound) = sbound.exits + sbound.resumes
          /\ boot # "off" => Issued(boot, sbound) = 1 + sbound.exits + sbound.resumes
          /\ sbound.exits \in 0..Exits /\ sbound.resumes \in 0..Resumes
      BY Standing, Issues
    <3>2. sbound.exits \in Nat /\ sbound.resumes \in Nat  BY <3>1 DEF SupervisorAssumption
    <3>3. CASE boot = "off"  BY <3>1, <3>2, <3>3
    <3>4. CASE boot # "off"  BY <3>1, <3>2, <3>4
    <3> QED  BY <3>3, <3>4
  <2>3. Len(proc) \in Nat  BY Standing
  <2> DEFINE n == Len(proc)
             t == Tickets(World)
             i == Issued(boot, sbound)
  <2>4. n \in Nat /\ t \in Nat /\ i \in Nat /\ n + t <= i /\ i <= 1 + sbound.exits + sbound.resumes
    BY <2>1, <2>2, <2>3
  <2> HIDE DEF n, t, i
  <2>5. n <= 1 + Exits + Resumes  BY <2>2, <2>4 DEF SupervisorAssumption
  <2> QED  BY <2>4, <2>5 DEF n
<1>2. \A c \in DOMAIN proc : c \in Children /\ proc[c] \in States
  <2>1. DOMAIN proc = 1..Len(proc) /\ \A c \in DOMAIN proc : proc[c] \in States  BY Standing
  <2> QED  BY <1>1, <2>1 DEF Children, SupervisorAssumption
<1>3. sup.child \in 0..Len(proc) /\ sup.restarts \in 0..MaxRestarts  BY <1>1, Standing DEF Sups, Tracked
<1>4. ui.page \in {"none", "chat"} \cup Statuses  BY Standing DEF Uis, Pages
<1>5. SupervisorTypeOK  BY <1>2, <1>3, <1>4, Standing DEF SupervisorTypeOK, States
<1> QED  BY <1>5, Standing DEF SupervisorInv, Tracked, Control, Shown

\* gateway-supervisor.ts, gateway-runtime-recovery.ts: at most one Gateway process, the
\* supervisor's own child, and a loaded /chat page that is the page of that process, for
\* any number of restarts, exits and resumes of the host.
THEOREM GatewayIsAlone == SupervisorSpec => []SupervisorInv
<1>1. SupervisorInit => SupervisorIInv  BY SupervisorAssumption, SupervisorInitHolds
<1>2. SupervisorIInv /\ [SupervisorNext]_supervisorVars => SupervisorIInv'
  BY SupervisorAssumption, SupervisorStepKeeps
<1>3. SupervisorIInv => SupervisorInv  BY SupervisorAssumption, SupervisorIInvSuffices
<1> QED  BY <1>1, <1>2, <1>3, PTL DEF SupervisorSpec

-----------------------------------------------------------------------------
(* The client's update                                                     *)

Apps == [ver : Versions \cup {0}, pc : {"off", "start", "run", "stopped"},
         rb : {"no", "verify", "stop", "prep", "launch"}, todo : SUBSET Entries,
         hp : {"no", "verify", "ok", "failed"}, checks : BOOLEAN, offer : Versions \cup {0}, got : BOOLEAN]
Pendings == [prev : Versions, target : Versions, attempts : Nat, phase : {"installing", "rolled"}]
Contents == [Entries -> Versions \cup {0}]

ClientTypes ==
  /\ installed \in Versions /\ app \in Apps /\ died \in BOOLEAN
  /\ marker \in {"none", "running", "clean"} /\ exit \in {"none", "clean", "unclean"}
  /\ data \in Contents /\ snap \in Contents /\ pending \in Pendings \cup {None}
  /\ installers \subseteq Versions /\ faults \in 0..Faults

\* The run marker tells of the last process, and then of the one before this.
MarkerKept ==
  /\ app.pc = "off" => (marker = "running" <=> died)
  /\ app.pc # "off" => marker = "running" /\ (exit # "none" => (exit = "unclean" <=> died))

\* What a process that looks for updates has in hand.
Looking ==
  /\ app.pc = "off" => app = Off
  /\ app.pc # "off" => app.ver = installed
  /\ app.checks => app.hp = "ok"
  /\ app.offer # 0 => app.checks /\ app.rb = "no" /\ app.offer > app.ver
  /\ app.got => app.offer # 0 /\ app.ver \in installers

\* What a process on its way back, or about to launch an installer, knows.
OnItsWay ==
  /\ app.pc = "start" => app.rb \in {"verify", "stop"}
  /\ app.pc = "run" => app.rb \in {"no", "verify", "stop"}
  /\ app.pc = "stopped" /\ app.rb \notin {"prep", "launch"} =>
       pending = [prev |-> app.ver, target |-> app.offer, attempts |-> 0, phase |-> "installing"]
  /\ app.rb \in {"prep", "launch"} => app.pc = "stopped" /\ pending # None
  /\ app.rb # "no" /\ pending # None => pending.target = app.ver
  /\ app.rb = "prep" => \A e \in Entries \ app.todo : data[e] = snap[e]
  /\ app.rb = "launch" => pending.phase = "rolled" /\ data = snap

Older(contents, v) == \A e \in Entries \ {"state"} : contents[e] <= v

\* The way back of a pending update; a start of the target without a fault is a new attempt.
Attempts ==
  LET used == Faults - faults IN
  /\ pending.attempts <= MaxAttempts + used
  /\ app.pc \in {"off", "run"} /\ installed = pending.target => pending.attempts < MaxAttempts + used

Returnable ==
  pending # None =>
    /\ pending.prev < pending.target /\ pending.prev \in installers
    /\ installed \in {pending.prev, pending.target}
    /\ Older(snap, pending.prev)
    /\ pending.phase = "rolled" /\ installed = pending.prev => app.pc = "off" /\ data = snap
    /\ Attempts

ClientIInv == ClientTypes /\ MarkerKept /\ Looking /\ OnItsWay /\ Returnable /\ Older(data, installed)

\* A client that does not run is one of its states, and no pending file is not one that is.
LEMMA Absent ==
  ASSUME ClientAssumption
  PROVE  /\ Off \in Apps /\ Off.ver = 0 /\ Off.pc = "off" /\ Off.rb = "no" /\ Off.todo = {} /\ Off.hp = "no"
         /\ Off.checks = FALSE /\ Off.offer = 0 /\ Off.got = FALSE
         /\ None \notin Pendings /\ \A q \in Pendings : q # None
<1>1. \A q \in Pendings : q.target # 0  BY DEF Pendings
<1> QED  BY <1>1 DEF Off, Apps, None

\* client-update-coordinator.ts beginStartup: a start counts an attempt, goes back or closes the update.
LEMMA StartClientKeeps ==
  ASSUME ClientAssumption, ClientIInv, StartClient
  PROVE  ClientIInv'
<1> USE DEF ClientIInv
<1> DEFINE run == [Off EXCEPT !.ver = installed, !.pc = "run"]
           back == [Off EXCEPT !.ver = installed, !.pc = "start", !.rb = "verify"]
           more == [pending EXCEPT !.attempts = @ + 1]
<1>1. /\ app = Off /\ app.pc = "off" /\ UNCHANGED <<installed, died, data, snap, faults>>
      /\ marker' = "running" /\ exit' = (IF marker = "running" THEN "unclean" ELSE marker)
  BY DEF StartClient, BeginRun, Looking
<1>2. \/ /\ pending # None /\ pending.phase = "rolled" /\ pending.prev = installed
         /\ app' = run /\ pending' = None /\ installers' = installers \cap {pending.prev}
      \/ /\ app' = run /\ pending' = pending /\ installers' = installers
         /\ pending # None =>
              ~(pending.phase = "rolled" /\ pending.prev = installed) /\ pending.target # installed
      \/ /\ pending # None /\ pending.target = installed
         /\ pending' = more /\ installers' = installers
         /\ app' = back \/ (app' = run /\ pending.attempts + 1 < MaxAttempts /\ pending.phase # "rolled")
  <2>1. BeginStartup(installed)  BY DEF StartClient
  <2>2. CASE pending # None /\ pending.phase = "rolled" /\ pending.prev = installed
    BY <2>1, <2>2 DEF BeginStartup
  <2>3. CASE ~(pending # None /\ pending.phase = "rolled" /\ pending.prev = installed)
             /\ pending # None /\ pending.target = installed
    <3>1. pending \in Pendings /\ MaxAttempts \in Nat  BY <2>3 DEF ClientTypes
    <3>2. /\ pending' = more /\ installers' = installers
          /\ app' = IF pending.phase = "rolled" \/ pending.attempts + 1 >= MaxAttempts THEN back ELSE run
      BY <2>1, <2>3 DEF BeginStartup
    <3> HIDE DEF run, back, more
    <3>3. pending.attempts \in Nat  BY <3>1 DEF Pendings
    <3>4. CASE pending.phase = "rolled" \/ pending.attempts + 1 >= MaxAttempts
      <4>1. app' = back  BY <3>2, <3>4
      <4> QED  BY <2>3, <3>2, <4>1
    <3>5. CASE pending.phase # "rolled" /\ ~(pending.attempts + 1 >= MaxAttempts)
      <4>1. pending.attempts + 1 < MaxAttempts  BY <3>1, <3>3, <3>5
      <4> QED  BY <2>3, <3>2, <3>5, <4>1
    <3> QED  BY <3>4, <3>5
  <2>4. CASE ~(pending # None /\ pending.phase = "rolled" /\ pending.prev = installed)
             /\ ~(pending # None /\ pending.target = installed)
    BY <2>1, <2>4 DEF BeginStartup
  <2> QED  BY <2>2, <2>3, <2>4
<1>3. /\ run \in Apps /\ run.ver = installed /\ run.pc = "run" /\ run.rb = "no" /\ ~run.checks
      /\ ~run.got /\ run.offer = 0
      /\ back \in Apps /\ back.ver = installed /\ back.pc = "start" /\ back.rb = "verify" /\ ~back.checks
      /\ ~back.got /\ back.offer = 0
  BY Absent DEF ClientTypes, Apps
<1> HIDE DEF run, back
<1>4. ClientTypes'
  <2>1. pending' \in Pendings \cup {None}  BY <1>2, Absent DEF ClientTypes, Pendings
  <2> QED  BY <1>1, <1>2, <1>3, <2>1 DEF ClientTypes
<1>5. MarkerKept'  BY <1>1, <1>2, <1>3 DEF ClientTypes, MarkerKept
<1>6. Looking'  BY <1>1, <1>2, <1>3 DEF Looking
<1>7. OnItsWay'
  <2>1. pending # None => pending \in Pendings  BY DEF ClientTypes
  <2>2. pending' # None /\ app'.rb # "no" => pending'.target = installed  BY <1>2, <1>3, <2>1 DEF Pendings
  <2> QED  BY <1>1, <1>2, <1>3, <2>2 DEF OnItsWay
<1>8. Returnable'
  <2> SUFFICES ASSUME pending' # None, pending # None PROVE Returnable'  BY <1>2 DEF Returnable
  <2>1. pending \in Pendings /\ MaxAttempts \in Nat /\ Faults \in Nat /\ faults \in 0..Faults
    BY DEF ClientTypes
  <2>2. /\ pending.prev < pending.target /\ pending.prev \in installers
        /\ installed \in {pending.prev, pending.target}
        /\ Older(snap, pending.prev) /\ pending.prev \in Nat /\ pending.target \in Nat
    BY <2>1 DEF Returnable, Pendings
  <2>3. Attempts /\ pending.attempts \in Nat  BY <2>1 DEF Returnable, Pendings
  <2>4. CASE app' = run /\ pending' = pending /\ installers' = installers
    <3>1. installed # pending.target /\ pending.phase # "rolled"  BY <1>2, <1>3, <2>1, <2>2, <2>4 DEF Pendings
    <3>2. Attempts'  BY <1>1, <2>3, <2>4, <3>1 DEF Attempts
    <3> QED  BY <1>1, <2>2, <2>4, <3>1, <3>2 DEF Returnable
  <2>5. CASE /\ pending.target = installed
             /\ pending' = more /\ installers' = installers
             /\ app' = back \/ (app' = run /\ pending.attempts + 1 < MaxAttempts /\ pending.phase # "rolled")
    <3>1. pending'.prev = pending.prev /\ pending'.target = pending.target /\ pending'.phase = pending.phase
          /\ pending'.attempts = pending.attempts + 1
      BY <2>1, <2>5
    <3>2. Attempts'  BY <1>1, <1>3, <2>1, <2>3, <2>5, <3>1 DEF Attempts
    <3> QED  BY <1>1, <2>2, <2>5, <3>1, <3>2 DEF Returnable
  <2> QED  BY <1>2, <2>4, <2>5
<1>9. Older(data', installed')  BY <1>1
<1> QED  BY <1>4, <1>5, <1>6, <1>7, <1>8, <1>9

\* A process that dies leaves the run marker and the pending file behind.
LEMMA CrashKeeps ==
  ASSUME ClientAssumption, ClientIInv, Crash
  PROVE  ClientIInv'
<1> USE DEF ClientIInv
<1>1. ClientTypes'  BY DEF ClientTypes, Apps, Crash, Fault, Off, clientDisk
<1>2. MarkerKept'  BY DEF ClientTypes, MarkerKept, Apps, Crash, Off, clientDisk, ClientAssumption
<1>3. Looking'  BY DEF MarkerKept, Looking, Pendings, Crash, Fault, Off
<1>4. OnItsWay'  BY DEF Looking, OnItsWay, Contents, Crash, Off
<1>5. Returnable'  BY DEF ClientTypes, OnItsWay, Returnable, Pendings, Attempts, Older, Crash, Fault, clientDisk
<1>6. Older(data', installed')
  BY DEF ClientTypes, Returnable, Pendings, Older, Crash, Fault, Off, clientDisk, ClientAssumption
<1> QED  BY <1>1, <1>2, <1>3, <1>4, <1>5, <1>6

\* A clean exit replaces the run marker.
LEMMA UserQuitsKeeps ==
  ASSUME ClientAssumption, ClientIInv, UserQuits
  PROVE  ClientIInv'
<1> USE DEF ClientIInv
<1>1. ClientTypes'  BY DEF ClientTypes, Apps, UserQuits, Quit, Off, clientDisk
<1>2. MarkerKept'  BY DEF ClientTypes, MarkerKept, Apps, UserQuits, Quit, Off, clientDisk, ClientAssumption
<1>3. Looking'  BY DEF MarkerKept, Looking, Pendings, UserQuits, Quit, Off
<1>4. OnItsWay'  BY DEF Looking, OnItsWay, Contents, Entries, UserQuits, Quit, Off
<1>5. Returnable'  BY DEF OnItsWay, Returnable, Attempts, Older, Entries, UserQuits, clientDisk
<1>6. Older(data', installed')  BY DEF Returnable, Older, UserQuits, Quit, clientDisk, ClientAssumption
<1> QED  BY <1>1, <1>2, <1>3, <1>4, <1>5, <1>6

\* A running client writes its own version into an entry of its data.
LEMMA WriteKeeps ==
  ASSUME ClientAssumption, ClientIInv, NEW e \in Entries, Write(e)
  PROVE  ClientIInv'
<1> USE DEF ClientIInv
<1>1. ClientTypes'  BY DEF ClientTypes, Apps, Contents, Write
<1>2. MarkerKept'  BY DEF ClientTypes, MarkerKept, Apps, Write, ClientAssumption
<1>3. Looking'  BY DEF MarkerKept, Looking, Pendings, Write
<1>4. OnItsWay'  BY DEF Looking, OnItsWay, Contents, Write
<1>5. Returnable'  BY DEF OnItsWay, Returnable, Attempts, Older, Write
<1>6. Older(data', installed')
  <2>1. installed \in Nat /\ installed' = installed  BY DEF ClientTypes, Write
  <2>2. data \in Contents /\ data' = [data EXCEPT ![e] = installed]  BY DEF ClientTypes, Looking, Write
  <2> QED  BY <2>1, <2>2 DEF Older, Contents
<1> QED  BY <1>1, <1>2, <1>3, <1>4, <1>5, <1>6 DEF Older

\* The first window of a start.
LEMMA LoadedKeeps ==
  ASSUME ClientAssumption, ClientIInv, Loaded
  PROVE  ClientIInv'
<1> USE DEF ClientIInv
<1>1. ClientTypes'  BY DEF ClientTypes, Apps, Loaded, clientDisk
<1>2. MarkerKept'  BY DEF ClientTypes, MarkerKept, Apps, Loaded
<1>3. Looking'  BY DEF MarkerKept, Looking, Pendings, Loaded
<1>4. OnItsWay'  BY DEF Looking, OnItsWay, Contents, Loaded, clientDisk
<1>5. Returnable'  BY DEF OnItsWay, Returnable, Attempts, Older, Entries, Loaded, clientDisk
<1>6. Older(data', installed')  BY DEF Returnable, Older, Loaded, clientDisk, ClientAssumption
<1> QED  BY <1>1, <1>2, <1>3, <1>4, <1>5, <1>6

\* markHealthy closes the update of the target that runs.
LEMMA MarkHealthyKeeps ==
  ASSUME ClientAssumption, ClientIInv, MarkHealthy
  PROVE  ClientIInv'
<1> USE DEF ClientIInv
<1>1. ClientTypes'
  <2>1. app' \in Apps  BY Absent DEF ClientTypes, Apps, MarkHealthy
  <2>2. installed' \in Versions /\ installers' \subseteq Versions
    BY DEF ClientTypes, Apps, Pendings, MarkHealthy
  <2>3. marker' \in {"none", "running", "clean"} /\ exit' \in {"none", "clean", "unclean"} /\ died' \in BOOLEAN
    BY DEF ClientTypes, MarkHealthy
  <2>4. data' \in Contents /\ snap' \in Contents /\ faults' \in 0..Faults
    BY DEF ClientTypes, Contents, MarkHealthy
  <2>5. pending' \in Pendings \cup {None}  BY Absent DEF ClientTypes, Pendings, MarkHealthy
  <2> QED  BY <2>1, <2>2, <2>3, <2>4, <2>5 DEF ClientTypes
<1>2. MarkerKept'  BY DEF ClientTypes, MarkerKept, MarkHealthy
<1>3. Looking'  BY DEF MarkerKept, Looking, Pendings, MarkHealthy
<1>4. OnItsWay'  BY DEF Looking, OnItsWay, Contents, MarkHealthy
<1>5. Returnable'  BY DEF OnItsWay, Returnable, Attempts, Older, MarkHealthy
<1>6. Older(data', installed')  BY DEF Returnable, Older, MarkHealthy, ClientAssumption
<1> QED  BY <1>1, <1>2, <1>3, <1>4, <1>5, <1>6

\* A failing health check leaves the update pending.
LEMMA HealthFailsKeeps ==
  ASSUME ClientAssumption, ClientIInv, HealthFails
  PROVE  ClientIInv'
<1> USE DEF ClientIInv
<1>1. ClientTypes'
  <2>1. app' \in Apps  BY Absent DEF ClientTypes, Apps, HealthFails
  <2>2. installed' \in Versions /\ installers' \subseteq Versions
    BY DEF ClientTypes, Apps, Pendings, HealthFails, clientDisk
  <2>3. marker' \in {"none", "running", "clean"} /\ exit' \in {"none", "clean", "unclean"} /\ died' \in BOOLEAN
    BY DEF ClientTypes, HealthFails
  <2>4. data' \in Contents /\ snap' \in Contents /\ faults' \in 0..Faults
    BY DEF ClientTypes, Contents, HealthFails, Fault, clientDisk
  <2>5. pending' \in Pendings \cup {None}
    BY Absent DEF ClientTypes, Pendings, Looking, OnItsWay, HealthFails, clientDisk
  <2> QED  BY <2>1, <2>2, <2>3, <2>4, <2>5 DEF ClientTypes
<1>2. MarkerKept'  BY DEF ClientTypes, MarkerKept, HealthFails
<1>3. Looking'  BY DEF MarkerKept, Looking, Pendings, HealthFails
<1>4. OnItsWay'  BY DEF Looking, OnItsWay, Contents, HealthFails, clientDisk
<1>5. Returnable'
  BY DEF ClientTypes, OnItsWay, Returnable, Pendings, Attempts, Older, HealthFails, Fault, clientDisk
<1>6. Older(data', installed')
  BY DEF ClientTypes, Returnable, Pendings, Older, HealthFails, Fault, clientDisk, ClientAssumption
<1> QED  BY <1>1, <1>2, <1>3, <1>4, <1>5, <1>6

\* The way back begins when the installer of the version before is there.
LEMMA VerifyRollbackKeeps ==
  ASSUME ClientAssumption, ClientIInv, VerifyRollback
  PROVE  ClientIInv'
<1> USE DEF ClientIInv
<1>1. ClientTypes'
  <2>1. app' \in Apps  BY Absent DEF ClientTypes, Apps, VerifyRollback, Quit
  <2>2. installed' \in Versions /\ installers' \subseteq Versions
    BY DEF ClientTypes, Apps, Pendings, OnItsWay, VerifyRollback, clientDisk
  <2>3. marker' \in {"none", "running", "clean"} /\ exit' \in {"none", "clean", "unclean"} /\ died' \in BOOLEAN
    BY DEF ClientTypes, VerifyRollback, Quit, ClientAssumption
  <2>4. data' \in Contents /\ snap' \in Contents /\ faults' \in 0..Faults
    BY DEF ClientTypes, Contents, VerifyRollback, Fault, clientDisk
  <2>5. pending' \in Pendings \cup {None}
    BY Absent DEF ClientTypes, Pendings, OnItsWay, VerifyRollback, clientDisk
  <2> QED  BY <2>1, <2>2, <2>3, <2>4, <2>5 DEF ClientTypes
<1>2. MarkerKept'  BY DEF ClientTypes, MarkerKept, Apps, VerifyRollback, Quit, Off
<1>3. Looking'  BY DEF ClientTypes, MarkerKept, Looking, Apps, Pendings, VerifyRollback, Quit, Fault, Off
<1>4. OnItsWay'
  BY DEF ClientTypes, Looking, OnItsWay, Apps, Contents, Entries, VerifyRollback, Quit, Off, clientDisk
<1>5. Returnable'
  BY DEF ClientTypes, OnItsWay, Returnable, Apps, Pendings, Attempts, Older, Entries, VerifyRollback, Quit,
     Fault, Off, clientDisk
<1>6. Older(data', installed')
  BY DEF ClientTypes, Returnable, Apps, Pendings, Older, VerifyRollback, Quit, Fault, Off, clientDisk,
     ClientAssumption
<1> QED  BY <1>1, <1>2, <1>3, <1>4, <1>5, <1>6

\* The rollback stops the runtime, or finds nothing to roll back.
LEMMA PrepareRollbackKeeps ==
  ASSUME ClientAssumption, ClientIInv, PrepareRollback
  PROVE  ClientIInv'
<1> USE DEF ClientIInv
<1> DEFINE prep == [app EXCEPT !.pc = "stopped", !.rb = "prep", !.todo = Entries]
<1>1. /\ app.rb = "stop" /\ app \in Apps /\ app.pc # "off" /\ app.ver = installed
      /\ UNCHANGED <<installed, exit, data, snap, pending, installers, faults>>
  BY Absent DEF PrepareRollback, clientDisk, ClientTypes, Looking
<1>2. CASE pending = None
  <2>1. app' = Off /\ marker' = "clean" /\ died' = FALSE  BY <1>2 DEF PrepareRollback, Quit
  <2>2. ClientTypes' /\ MarkerKept'  BY <1>1, <2>1, Absent DEF ClientTypes, MarkerKept
  <2>3. Looking' /\ OnItsWay'  BY <1>1, <2>1, Absent DEF Looking, OnItsWay
  <2> QED  BY <1>1, <1>2, <2>2, <2>3 DEF Returnable, Older
<1>3. CASE pending # None
  <2>1. app' = prep /\ UNCHANGED <<marker, died>>  BY <1>3 DEF PrepareRollback
  <2>2. /\ prep \in Apps /\ prep.ver = installed /\ prep.pc = "stopped" /\ prep.rb = "prep"
       /\ prep.todo = Entries
        /\ prep.checks = app.checks /\ prep.hp = app.hp /\ prep.offer = app.offer /\ prep.got = app.got
    BY <1>1 DEF Apps
  <2> HIDE DEF prep
  <2>3. ClientTypes' /\ MarkerKept'  BY <1>1, <2>1, <2>2 DEF ClientTypes, MarkerKept
  <2>4. Looking'  BY <1>1, <2>1, <2>2 DEF Looking
  <2>5. OnItsWay'  BY <1>1, <1>3, <2>1, <2>2 DEF OnItsWay
  <2>6. Returnable'
    <3>1. pending.prev # pending.target /\ pending.target = installed
      BY <1>1, <1>3 DEF OnItsWay, Returnable, ClientTypes
    <3> QED  BY <1>1, <1>3, <2>1, <2>2, <3>1 DEF Returnable, Attempts, Older
  <2> QED  BY <1>1, <2>3, <2>4, <2>5, <2>6 DEF Older
<1> QED  BY <1>2, <1>3

\* The rollback puts an entry of the data aside.
LEMMA PutAsideKeeps ==
  ASSUME ClientAssumption, ClientIInv, NEW e \in Entries, PutAside(e)
  PROVE  ClientIInv'
<1> USE DEF ClientIInv
<1>1. ClientTypes'  BY DEF ClientTypes, Contents, PutAside
<1>2. MarkerKept'  BY DEF ClientTypes, MarkerKept, PutAside, ClientAssumption
<1>3. Looking'  BY DEF MarkerKept, Looking, Pendings, PutAside
<1>4. OnItsWay'  BY DEF Looking, OnItsWay, Contents, PutAside
<1>5. Returnable'  BY DEF OnItsWay, Returnable, Attempts, Older, PutAside
<1>6. Older(data', installed')
  <2>1. installed \in Nat /\ installed' = installed  BY DEF ClientTypes, PutAside
  <2>2. data \in Contents /\ data' = [data EXCEPT ![e] = 0]  BY DEF ClientTypes, PutAside
  <2> QED  BY <2>1, <2>2 DEF Older, Contents
<1> QED  BY <1>1, <1>2, <1>3, <1>4, <1>5, <1>6 DEF Older

\* The rollback brings an entry of the snapshot back.
LEMMA RestoreKeeps ==
  ASSUME ClientAssumption, ClientIInv, NEW e \in Entries, Restore(e)
  PROVE  ClientIInv'
<1> USE DEF ClientIInv
<1>1. ClientTypes'  BY DEF ClientTypes, Apps, Contents, Restore
<1>2. MarkerKept'  BY DEF ClientTypes, MarkerKept, Apps, Restore, ClientAssumption
<1>3. Looking'  BY DEF MarkerKept, Looking, OnItsWay, Pendings, Restore
<1>4. OnItsWay'  BY DEF ClientTypes, Looking, OnItsWay, Contents, Restore
<1>5. Returnable'  BY DEF ClientTypes, OnItsWay, Returnable, Contents, Attempts, Older, Restore
<1>6. Older(data', installed')
  BY DEF ClientTypes, OnItsWay, Returnable, Contents, Older, Restore, ClientAssumption
<1> QED  BY <1>1, <1>2, <1>3, <1>4, <1>5, <1>6 DEF Older

\* The data is the snapshot when the pending file says so.
LEMMA RollbackReadyKeeps ==
  ASSUME ClientAssumption, ClientIInv, RollbackReady
  PROVE  ClientIInv'
<1> USE DEF ClientIInv
<1>1. ClientTypes'  BY DEF ClientTypes, None, Apps, Pendings, RollbackReady
<1>2. MarkerKept'  BY DEF ClientTypes, MarkerKept, None, Apps, RollbackReady
<1>3. Looking'  BY DEF MarkerKept, Looking, OnItsWay, Pendings, RollbackReady
<1>4. OnItsWay'  BY DEF ClientTypes, Looking, OnItsWay, None, Contents, RollbackReady
<1>5. Returnable'
  BY DEF ClientTypes, Looking, OnItsWay, Returnable, None, Contents, Attempts, Older, RollbackReady
<1>6. Older(data', installed')
  BY DEF ClientTypes, Looking, OnItsWay, Returnable, Older, RollbackReady, ClientAssumption
<1> QED  BY <1>1, <1>2, <1>3, <1>4, <1>5, <1>6

\* The installer of the version before runs, or its launch fails.
LEMMA LaunchRollbackKeeps ==
  ASSUME ClientAssumption, ClientIInv, LaunchRollback
  PROVE  ClientIInv'
<1> USE DEF ClientIInv
<1>1. ClientTypes'
  <2>1. app' \in Apps  BY Absent DEF LaunchRollback, Quit
  <2>2. installed' \in Versions /\ installers' \subseteq Versions
    BY DEF ClientTypes, Pendings, OnItsWay, LaunchRollback, clientDisk
  <2>3. marker' \in {"none", "running", "clean"} /\ exit' \in {"none", "clean", "unclean"} /\ died' \in BOOLEAN
    BY DEF ClientTypes, LaunchRollback, Quit, Fault, ClientAssumption
  <2>4. data' \in Contents /\ snap' \in Contents /\ faults' \in 0..Faults
    BY DEF ClientTypes, Contents, LaunchRollback, Fault, clientDisk
  <2>5. pending' \in Pendings \cup {None}
    BY Absent DEF ClientTypes, Pendings, OnItsWay, LaunchRollback, clientDisk
  <2> QED  BY <2>1, <2>2, <2>3, <2>4, <2>5 DEF ClientTypes
<1>2. MarkerKept'  BY DEF ClientTypes, MarkerKept, LaunchRollback, Quit, Off
<1>3. Looking'  BY DEF MarkerKept, Looking, Pendings, LaunchRollback, Quit, Fault, Off
<1>4. OnItsWay'  BY DEF Looking, OnItsWay, Contents, Entries, LaunchRollback, Quit, Off
<1>5. Returnable'
  BY DEF ClientTypes, OnItsWay, Returnable, Pendings, Attempts, Older, Entries, LaunchRollback, Quit, Fault,
     Off, clientDisk
<1>6. Older(data', installed')
  BY DEF ClientTypes, OnItsWay, Returnable, Pendings, Older, LaunchRollback, Quit, Fault, Off, clientDisk,
     ClientAssumption
<1> QED  BY <1>1, <1>2, <1>3, <1>4, <1>5, <1>6

\* A check takes an offer above the version that runs.
LEMMA CheckKeeps ==
  ASSUME ClientAssumption, ClientIInv, NEW o \in Versions, Check(o)
  PROVE  ClientIInv'
<1> USE DEF ClientIInv
<1>1. ClientTypes'  BY DEF ClientTypes, Apps, Contents, Check, Highest
<1>2. MarkerKept'  BY DEF ClientTypes, MarkerKept, Apps, Check, Highest, ClientAssumption
<1>3. Looking'  BY DEF MarkerKept, Looking, Pendings, Check, Offered
<1>4. OnItsWay'  BY DEF Looking, OnItsWay, Contents, Check
<1>5. Returnable'  BY DEF OnItsWay, Returnable, Attempts, Older, Check
<1>6. Older(data', installed')  BY DEF Returnable, Older, Check, Highest
<1> QED  BY <1>1, <1>2, <1>3, <1>4, <1>5, <1>6

\* The download keeps the installer of the version that runs.
LEMMA DownloadKeeps ==
  ASSUME ClientAssumption, ClientIInv, Download
  PROVE  ClientIInv'
<1> USE DEF ClientIInv
<1>1. ClientTypes'  BY DEF ClientTypes, Looking, Apps, Download, WithRollbackInstaller
<1>2. MarkerKept'  BY DEF ClientTypes, MarkerKept, Looking, Apps, Download
<1>3. Looking'  BY DEF MarkerKept, Looking, Pendings, Download, WithRollbackInstaller
<1>4. OnItsWay'  BY DEF Looking, OnItsWay, Contents, Entries, Download
<1>5. Returnable'  BY DEF OnItsWay, Returnable, Attempts, Older, Download, WithRollbackInstaller
<1>6. Older(data', installed')  BY DEF Returnable, Older, Download, WithRollbackInstaller, ClientAssumption
<1> QED  BY <1>1, <1>2, <1>3, <1>4, <1>5, <1>6

\* An offer that is given up.
LEMMA ForgetKeeps ==
  ASSUME ClientAssumption, ClientIInv, Forget
  PROVE  ClientIInv'
<1> USE DEF ClientIInv
<1>1. ClientTypes'  BY DEF ClientTypes, Apps, Forget, clientDisk
<1>2. MarkerKept'  BY DEF ClientTypes, MarkerKept, Apps, Forget
<1>3. Looking'  BY DEF MarkerKept, Looking, Pendings, Forget
<1>4. OnItsWay'  BY DEF Looking, OnItsWay, Contents, Forget
<1>5. Returnable'  BY DEF OnItsWay, Returnable, Attempts, Older, Forget, clientDisk
<1>6. Older(data', installed')  BY DEF Returnable, Older, Forget, clientDisk, ClientAssumption
<1> QED  BY <1>1, <1>2, <1>3, <1>4, <1>5, <1>6

\* An offer that the server takes back.
LEMMA WithdrawnKeeps ==
  ASSUME ClientAssumption, ClientIInv, NEW o \in Versions, Withdrawn(o)
  PROVE  ClientIInv'
<1> USE DEF ClientIInv
<1>1. ClientTypes'  BY DEF ClientTypes, Apps, Contents, Withdrawn, Highest
<1>2. MarkerKept'  BY DEF ClientTypes, MarkerKept, Apps, Withdrawn, Highest
<1>3. Looking'  BY DEF MarkerKept, Looking, Pendings, Withdrawn
<1>4. OnItsWay'  BY DEF Looking, OnItsWay, Contents, Withdrawn
<1>5. Returnable'  BY DEF OnItsWay, Returnable, Attempts, Older, Withdrawn
<1>6. Older(data', installed')  BY DEF Returnable, Older, Withdrawn, Highest
<1> QED  BY <1>1, <1>2, <1>3, <1>4, <1>5, <1>6

\* createPending takes the snapshot before an installer runs.
LEMMA CreatePendingKeeps ==
  ASSUME ClientAssumption, ClientIInv, CreatePending
  PROVE  ClientIInv'
<1> USE DEF ClientIInv
<1>1. ClientTypes'
  <2>1. app' \in Apps
    <3>1. app' = Off \/ app' = [app EXCEPT !.pc = "stopped"]  BY DEF CreatePending, Relaunch
    <3> QED  BY <3>1, Absent DEF ClientTypes, Apps
  <2>2. installed' \in Versions /\ installers' \subseteq Versions  BY DEF ClientTypes, Apps, CreatePending
  <2>3. marker' \in {"none", "running", "clean"} /\ exit' \in {"none", "clean", "unclean"} /\ died' \in BOOLEAN
    BY DEF ClientTypes, CreatePending, Relaunch
  <2>4. data' \in Contents /\ snap' \in Contents /\ faults' \in 0..Faults
    BY DEF ClientTypes, Contents, CreatePending
  <2>5. pending' \in Pendings \cup {None}  BY Absent DEF ClientTypes, Apps, Pendings, Looking, CreatePending
  <2> QED  BY <2>1, <2>2, <2>3, <2>4, <2>5 DEF ClientTypes
<1>2. MarkerKept'  BY DEF ClientTypes, MarkerKept, Apps, CreatePending, Relaunch, Off
<1>3. Looking'  BY DEF ClientTypes, MarkerKept, Looking, Apps, Pendings, CreatePending, Relaunch, Off
<1>4. OnItsWay'  BY DEF ClientTypes, Looking, OnItsWay, Apps, Contents, Entries, CreatePending, Relaunch, Off
<1>5. Returnable'
  BY DEF ClientTypes, Looking, OnItsWay, Returnable, Apps, Attempts, Older, Entries, CreatePending
<1>6. Older(data', installed')  BY DEF ClientTypes, Looking, Returnable, Older, CreatePending, Relaunch
<1> QED  BY <1>1, <1>2, <1>3, <1>4, <1>5, <1>6

\* The installer of the offer runs, or its launch fails.
LEMMA LaunchKeeps ==
  ASSUME ClientAssumption, ClientIInv, Launch
  PROVE  ClientIInv'
<1> USE DEF ClientIInv
<1>1. ClientTypes'
  <2>1. app' \in Apps  BY Absent DEF Launch, Quit, Relaunch
  <2>2. installed' \in Versions /\ installers' \subseteq Versions
    BY DEF ClientTypes, Apps, Pendings, OnItsWay, Looking, Launch
  <2>3. marker' \in {"none", "running", "clean"} /\ exit' \in {"none", "clean", "unclean"} /\ died' \in BOOLEAN
    BY DEF ClientTypes, Launch, Quit, Relaunch, ClientAssumption
  <2>4. data' \in Contents /\ snap' \in Contents /\ faults' \in 0..Faults
    BY DEF ClientTypes, Contents, Launch, Quit, Fault
  <2>5. pending' \in Pendings \cup {None}  BY Absent DEF ClientTypes, Pendings, Launch
  <2> QED  BY <2>1, <2>2, <2>3, <2>4, <2>5 DEF ClientTypes
<1>2. MarkerKept'  BY DEF ClientTypes, MarkerKept, Launch, Quit, Relaunch, Off
<1>3. Looking'  BY DEF MarkerKept, Looking, Pendings, Launch, Quit, Relaunch, Fault, Off
<1>4. OnItsWay'  BY DEF Looking, OnItsWay, Contents, Entries, Launch, Quit, Relaunch, Off
<1>5. Returnable'
  BY DEF ClientTypes, Looking, OnItsWay, Returnable, Attempts, Older, Entries, Launch, Relaunch, Fault
<1>6. Older(data', installed')
  <2>1. installed' \in {installed, app.offer} /\ installed \in Nat /\ app.offer \in Nat
       /\ app.offer > installed /\ data' = data
    BY DEF ClientTypes, Apps, Looking, Launch
  <2>2. \A e \in Entries : data[e] \in Nat
    <3>1. \A e \in Entries : data[e] \in Versions \cup {0}  BY DEF ClientTypes, Contents
    <3>2. Versions \cup {0} \subseteq Nat  BY DEF ClientAssumption
    <3> QED  BY <3>1, <3>2
  <2> QED  BY <2>1, <2>2 DEF Older
<1> QED  BY <1>1, <1>2, <1>3, <1>4, <1>5, <1>6 DEF Older

\* A first start has nothing pending.
LEMMA ClientStarts ==
  ASSUME ClientAssumption, ClientInit
  PROVE  ClientIInv
<1>1. FirstVersion \in Versions
  <2>1. \E first \in Versions : \A v \in Versions : first <= v  OBVIOUS
  <2> QED  BY <2>1 DEF FirstVersion
<1>2. FirstVersion \in Nat  BY <1>1 DEF ClientAssumption
<1>3. ClientTypes
  <2>1. data \in Contents /\ snap \in Contents  BY <1>1 DEF ClientInit, Contents
  <2>2. Faults \in 0..Faults  BY DEF ClientAssumption
  <2> QED  BY <1>1, <2>1, <2>2, Absent DEF ClientInit, ClientTypes
<1>4. MarkerKept /\ Looking /\ OnItsWay  BY Absent DEF ClientInit, MarkerKept, Looking, OnItsWay
<1>5. Older(data, installed)  BY <1>2 DEF ClientInit, Older
<1> QED  BY <1>3, <1>4, <1>5 DEF ClientInit, ClientIInv, Returnable

\* Every step of the client keeps the invariant.
LEMMA ClientStep ==
  ASSUME ClientAssumption, ClientIInv, [ClientNext]_clientVars
  PROVE  ClientIInv'
<1>1. ASSUME ClientSteps PROVE ClientIInv'
  BY <1>1, StartClientKeeps, LoadedKeeps, MarkHealthyKeeps, VerifyRollbackKeeps, PrepareRollbackKeeps,
     RollbackReadyKeeps, LaunchRollbackKeeps, LaunchKeeps, PutAsideKeeps, RestoreKeeps DEF ClientSteps
<1>2. ASSUME UNCHANGED clientVars PROVE ClientIInv'
  BY <1>2 DEF clientVars, ClientIInv, ClientTypes, MarkerKept, Looking, OnItsWay, Returnable, Attempts
<1> QED
  BY <1>1, <1>2, CrashKeeps, UserQuitsKeeps, HealthFailsKeeps, DownloadKeeps, ForgetKeeps, CreatePendingKeeps,
     WriteKeeps, CheckKeeps, WithdrawnKeeps DEF ClientNext

\* What the run checks follows.
LEMMA ClientIsSafe ==
  ASSUME ClientAssumption, ClientIInv
  PROVE  ClientUpdateInv
<1>1. UpdateTypeOK
  <2>1. ASSUME pending # None PROVE pending.attempts \in 0..MaxAttempts + Faults + 1
    <3>1. pending.attempts \in Nat /\ MaxAttempts \in Nat /\ Faults \in Nat /\ faults \in 0..Faults
      BY <2>1 DEF ClientIInv, ClientTypes, Pendings
    <3>2. pending.attempts <= MaxAttempts + (Faults - faults)
      BY <2>1 DEF ClientIInv, Returnable, Attempts
    <3> QED  BY <3>1, <3>2
  <2> QED  BY <2>1 DEF ClientIInv, ClientTypes, Contents, UpdateTypeOK
<1>2. RolledBackWhole /\ WayBack  BY DEF ClientIInv, Returnable, RolledBackWhole, WayBack
<1>3. NoFutureState  BY DEF ClientIInv, Looking, Older, NoFutureState
<1>4. MarkerTells  BY DEF ClientIInv, ClientTypes, MarkerKept, MarkerTells
<1> QED  BY <1>1, <1>2, <1>3, <1>4 DEF ClientUpdateInv

\* client-update-coordinator.ts, client-run-marker.ts: while an update is pending the
\* installer of the version before and a whole snapshot of its state are there, no version
\* runs on state that a later one wrote, and the run marker tells a crash from a quit, for
\* any versions, any limit of attempts and any number of crashes and failures.
THEOREM ClientUpdateIsSafe == ASSUME ClientAssumption PROVE ClientSpec => []ClientUpdateInv
<1>1. ClientInit => ClientIInv  BY ClientStarts
<1>2. ClientIInv /\ [ClientNext]_clientVars => ClientIInv'  BY ClientStep
<1>3. ClientIInv => ClientUpdateInv  BY ClientIsSafe
<1> QED  BY <1>1, <1>2, <1>3, PTL DEF ClientSpec

-----------------------------------------------------------------------------
(* The Manager's own update. *)

\* A Manager that is up runs the image on disk, a health window is open only
\* once its start was counted, and what a start or a request carries from one
\* of its steps to the next is what the earlier step checked.
CarriedIsChecked ==
    /\ \A p \in Procs :
         /\ procs[p].pc # "off" => procs[p].ver = disk
         /\ procs[p].timer => procs[p].pc \in {"binding", "serving"}
         /\ procs[p].pc = "counting" => procs[p].snap.phase = "installing"
         /\ procs[p].pc = "rolling" => procs[p].snap.prev \in Version
    /\ \A r \in Requests : requests[r].pc \in {"write", "launch"} =>
         /\ requests[r].path = requests[r].candidate.ver
         /\ requests[r].path \in Version

\* One Manager is up, and only a Manager that serves has requests.
OneManager ==
    /\ \A p, q \in Procs : procs[p].pc # "off" /\ procs[q].pc # "off" => p = q
    /\ \A r \in Requests : requests[r].pc # "idle" => \E p \in Procs : procs[p].pc = "serving"

\* A pending update goes from the version on disk to a newer one, or back.
FileExplains ==
    Present =>
      /\ pendingFile.phase \in {"installing", "rollback"}
      /\ pendingFile.prev \in Version /\ pendingFile.target \in Version
      /\ pendingFile.prev < pendingFile.target
      /\ disk \in {pendingFile.prev, pendingFile.target}

\* One installer runs at most: the pending update's, or its rollback's.
InstallersExplained ==
    /\ \A i, j \in launched : i = j
    /\ \A i \in launched :
         /\ Present
         /\ \/ pendingFile.phase = "installing" /\ i.ver = pendingFile.target /\ disk = pendingFile.prev
            \/ pendingFile.phase = "rollback" /\ i.ver = pendingFile.prev /\ disk = pendingFile.target

\* A request that passed Prepare's checks is alone with the file it writes ...
RequestsExplained ==
    /\ \A r \in Requests :
         /\ requests[r].pc = "write" => ~Present /\ requests[r].candidate.ver > disk
         /\ requests[r].pc = "launch" =>
              /\ Present /\ pendingFile.phase = "installing" /\ launched = {}
              /\ pendingFile.prev = disk /\ pendingFile.target = requests[r].path
    /\ \A r, s \in Requests :
         requests[r].pc \in {"write", "launch"} /\ requests[s].pc \in {"write", "launch"} => r = s

\* ... and so is a start that counts, gives up or rolls back.
StartsExplained ==
    \A p \in Procs :
      /\ procs[p].pc = "counting" =>
           /\ Present /\ pendingFile.phase = "installing" /\ pendingFile.target = disk
           /\ procs[p].snap = [pendingFile EXCEPT !.attempts = @ + 1]
      /\ procs[p].pc = "unhealthy" =>
           /\ Present /\ pendingFile.phase = "installing" /\ pendingFile.target = disk
           /\ procs[p].snap = pendingFile
      /\ procs[p].pc = "rolling" =>
           /\ Present /\ pendingFile.phase = "rollback" /\ pendingFile.target = disk
           /\ procs[p].snap.prev = pendingFile.prev /\ launched = {}

\* What holds as long as no Manager was started beside another and no Apply overtook another.
AloneInv ==
    OneManager /\ FileExplains /\ InstallersExplained /\ RequestsExplained /\ StartsExplained

UpdateIInv == ManagerTypeOK /\ CarriedIsChecked /\ (Alone => AloneInv)

\* Counting a disturbance; one that was never spent was not before.
LEMMA SpendTyped ==
  ASSUME spent \in [Disturbances -> Nat], NEW kinds, Spend(kinds)
  PROVE  /\ spent' \in [Disturbances -> Nat]
         /\ \A d \in Disturbances : spent'[d] = 0 => spent[d] = 0 /\ d \notin kinds
  BY DEF Spend, Disturbances

\* Nothing pending, no process and no request are typed.
LEMMA NothingTyped ==
  NoPending \in PendingUpdate /\ NotUp \in ManagerProcess /\ NoRequest \in UpdateRequest
  <1>1. NoPending \in PendingUpdate /\ NoCandidate \in Candidate /\ NoVersion \in Version \cup {NoVersion}
    BY DEF NoPending, PendingUpdate, NoCandidate, Candidate
  <1>2. NotUp \in ManagerProcess
    BY <1>1 DEF NotUp, ManagerProcess
  <1>3. NoRequest \in UpdateRequest
    BY <1>1 DEF NoRequest, UpdateRequest
  <1> QED BY <1>1, <1>2, <1>3

\* A Manager starts: the image it runs is the one on disk.
LEMMA TypedStartManager ==
  ASSUME ManagerTypeOK, CarriedIsChecked, NEW p \in Procs, StartManager(p)
  PROVE  ManagerTypeOK' /\ CarriedIsChecked'
  <1>1. ManagerTypeOK'
    <2>1. spent' \in [Disturbances -> Nat]
      BY SpendTyped DEF ManagerTypeOK, StartManager
    <2>2. [NotUp EXCEPT !.pc = "starting", !.ver = disk] \in ManagerProcess
      BY NothingTyped DEF ManagerTypeOK, ManagerProcess
    <2> QED BY <2>1, <2>2 DEF ManagerTypeOK, StartManager
  <1>2. CarriedIsChecked'
    BY UpdateBounds DEF ManagerTypeOK, CarriedIsChecked, StartManager, Spend, Up, Present, NotUp,
       NoPending
  <1> QED BY <1>1, <1>2

\* RecordTargetStartup reads the pending file: confirmed, counted or given up.
LEMMA TypedRecordTargetStartupReads ==
  ASSUME ManagerTypeOK, CarriedIsChecked, NEW p \in Procs, RecordTargetStartupReads(p)
  PROVE  ManagerTypeOK' /\ CarriedIsChecked'
  <1>1. ManagerTypeOK'
    <2>1. pendingFile' \in PendingUpdate
      BY DEF ManagerTypeOK, RecordTargetStartupReads, NoPending, PendingUpdate
    <2>2. TargetStarted(p) => [pendingFile EXCEPT !.attempts = @ + 1] \in PendingUpdate
      BY DEF ManagerTypeOK, TargetStarted, Readable, PendingUpdate
    <2>3. procs[p] \in ManagerProcess
      BY DEF ManagerTypeOK
    <2>4. TargetStarted(p) => [procs[p] EXCEPT !.pc = "counting", !.snap = [pendingFile EXCEPT !.attempts = @ + 1]] \in ManagerProcess
      BY <2>2, <2>3 DEF ManagerProcess
    <2>5. [procs[p] EXCEPT !.pc = "binding"] \in ManagerProcess
      BY <2>3 DEF ManagerProcess
    <2>6. procs' \in [Procs -> ManagerProcess]
      <3>1. CASE TargetStarted(p)
        BY <2>4, <3>1 DEF ManagerTypeOK, RecordTargetStartupReads
      <3>2. CASE ~TargetStarted(p)
        BY <2>5, <3>2 DEF ManagerTypeOK, RecordTargetStartupReads, Move
      <3> QED BY <3>1, <3>2
    <2> QED BY <2>1, <2>6 DEF ManagerTypeOK, RecordTargetStartupReads
  <1>2. CarriedIsChecked'
    <2>1. CASE TargetStarted(p)
      BY <2>1 DEF ManagerTypeOK, CarriedIsChecked, RecordTargetStartupReads, TargetStarted,
         ManagerProcess, PendingUpdate
    <2>2. CASE ~TargetStarted(p)
      BY <2>2 DEF ManagerTypeOK, CarriedIsChecked, RecordTargetStartupReads, Move, ManagerProcess
    <2> QED BY <2>1, <2>2
  <1> QED BY <1>1, <1>2

\* RecordTargetStartup writes the attempt it counted.
LEMMA TypedRecordTargetStartupWrites ==
  ASSUME ManagerTypeOK, CarriedIsChecked, NEW p \in Procs, RecordTargetStartupWrites(p)
  PROVE  ManagerTypeOK' /\ CarriedIsChecked'
  <1>1. ManagerTypeOK'
    <2>1. procs[p] \in ManagerProcess /\ pendingFile' \in PendingUpdate
      BY DEF ManagerTypeOK, RecordTargetStartupWrites, WritePending, ManagerProcess
    <2>2. procs' \in [Procs -> ManagerProcess]
      <3>1. CASE procs[p].snap.attempts >= 3
        <4>1. [procs[p] EXCEPT !.pc = "unhealthy", !.timer = FALSE] \in ManagerProcess
          BY <2>1 DEF ManagerProcess
        <4>2. procs[p].snap.attempts \in Nat
          BY <2>1 DEF ManagerProcess, PendingUpdate
        <4>3. (procs[p].snap.attempts < 3) = FALSE
          BY <3>1, <4>2
        <4>4. procs' = [procs EXCEPT ![p].pc = "unhealthy", ![p].timer = procs[p].snap.attempts < 3]
          BY <3>1 DEF RecordTargetStartupWrites
        <4>5. procs' = [procs EXCEPT ![p].pc = "unhealthy", ![p].timer = FALSE]
          BY <4>3, <4>4
        <4> QED BY <4>1, <4>5 DEF ManagerTypeOK, RecordTargetStartupWrites
      <3>2. CASE ~(procs[p].snap.attempts >= 3)
        <4>1. [procs[p] EXCEPT !.pc = "binding", !.timer = TRUE] \in ManagerProcess
          BY <2>1 DEF ManagerProcess
        <4>2. procs[p].snap.attempts \in Nat
          BY <2>1 DEF ManagerProcess, PendingUpdate
        <4>3. (procs[p].snap.attempts < 3) = TRUE
          BY <3>2, <4>2
        <4>4. procs' = [procs EXCEPT ![p].pc = "binding", ![p].timer = procs[p].snap.attempts < 3]
          BY <3>2 DEF RecordTargetStartupWrites
        <4>5. procs' = [procs EXCEPT ![p].pc = "binding", ![p].timer = TRUE]
          BY <4>3, <4>4
        <4> QED BY <4>1, <4>5 DEF ManagerTypeOK, RecordTargetStartupWrites
      <3> QED BY <3>1, <3>2
    <2> QED BY <2>1, <2>2 DEF ManagerTypeOK, RecordTargetStartupWrites
  <1>2. CarriedIsChecked'
    BY UpdateBounds DEF ManagerTypeOK, CarriedIsChecked, RecordTargetStartupWrites, ManagerProcess
  <1> QED BY <1>1, <1>2

\* beginRollback: the pending update turns into its rollback.
LEMMA TypedBeginRollback ==
  ASSUME ManagerTypeOK, CarriedIsChecked, NEW p \in Procs, BeginRollback(p)
  PROVE  ManagerTypeOK' /\ CarriedIsChecked'
  <1>1. ManagerTypeOK'
    <2>1. procs[p] \in ManagerProcess /\ pendingFile' \in PendingUpdate
      BY DEF ManagerTypeOK, BeginRollback, WritePending, PendingUpdate
    <2>2. PICK pc \in {"rolling", "binding"} : procs' = [procs EXCEPT ![p].pc = pc]
      BY DEF BeginRollback, Move
    <2>3. [procs[p] EXCEPT !.pc = pc] \in ManagerProcess
      BY <2>1 DEF ManagerProcess
    <2> QED BY <2>1, <2>2, <2>3 DEF ManagerTypeOK, BeginRollback
  <1>2. CarriedIsChecked'
    <2>1. CASE procs[p].snap.prev \in recovery /\ Readable
      <3>1. procs[p].snap.prev \in Version
        BY <2>1 DEF ManagerTypeOK
      <3> QED BY <2>1, <3>1 DEF ManagerTypeOK, CarriedIsChecked, BeginRollback, Move, ManagerProcess
    <2>2. CASE ~(procs[p].snap.prev \in recovery /\ Readable)
      BY <2>2 DEF ManagerTypeOK, CarriedIsChecked, BeginRollback, Move, ManagerProcess
    <2> QED BY <2>1, <2>2
  <1> QED BY <1>1, <1>2

\* The listener is bound; a pending target opens its health window.
LEMMA TypedBind ==
  ASSUME ManagerTypeOK, CarriedIsChecked, NEW p \in Procs, Bind(p)
  PROVE  ManagerTypeOK' /\ CarriedIsChecked'
  <1>1. ManagerTypeOK'
    <2>1. [procs[p] EXCEPT !.pc = "serving"] \in ManagerProcess /\ NotUp \in ManagerProcess /\ NoRequest \in UpdateRequest
      BY NothingTyped DEF ManagerTypeOK, ManagerProcess
    <2> QED BY <2>1 DEF ManagerTypeOK, Bind, EndsManager, Move
  <1>2. CarriedIsChecked'
    BY UpdateBounds DEF ManagerTypeOK, CarriedIsChecked, Bind, Serving, Move, EndsManager,
       Present, NotUp, NoRequest, ManagerProcess, UpdateRequest
  <1> QED BY <1>1, <1>2

\* A start that fails ends the process and nothing else.
LEMMA TypedStartupFault ==
  ASSUME ManagerTypeOK, CarriedIsChecked, NEW p \in Procs, StartupFault(p)
  PROVE  ManagerTypeOK' /\ CarriedIsChecked'
  <1>1. ManagerTypeOK'
    <2>1. spent' \in [Disturbances -> Nat]
      BY SpendTyped DEF ManagerTypeOK, StartupFault, ManagerFault
    <2>2. [procs[p] EXCEPT !.pc = "binding"] \in ManagerProcess
      BY DEF ManagerTypeOK, ManagerProcess
    <2> QED BY <2>1, <2>2 DEF ManagerTypeOK, StartupFault, Move
  <1>2. CarriedIsChecked'
    BY UpdateBounds DEF ManagerTypeOK, CarriedIsChecked, StartupFault, Spend, ManagerFault, Move
  <1> QED BY <1>1, <1>2

\* MarkHealthy removes the pending file of the target that runs.
LEMMA TypedMarkManagerHealthy ==
  ASSUME ManagerTypeOK, CarriedIsChecked, NEW p \in Procs, MarkManagerHealthy(p)
  PROVE  ManagerTypeOK' /\ CarriedIsChecked'
  <1>1. ManagerTypeOK'
    <2>1. [procs[p] EXCEPT !.timer = FALSE] \in ManagerProcess
      BY DEF ManagerTypeOK, ManagerProcess
    <2>2. pendingFile' \in PendingUpdate
      BY DEF ManagerTypeOK, MarkManagerHealthy, PendingUpdate, NoPending
    <2> QED BY <2>1, <2>2 DEF ManagerTypeOK, MarkManagerHealthy
  <1>2. CarriedIsChecked'
    BY UpdateBounds DEF ManagerTypeOK, CarriedIsChecked, MarkManagerHealthy, Present, Readable
  <1> QED BY <1>1, <1>2

\* Refresh of a page's request asks the Cloud.
LEMMA TypedRefreshAsks ==
  ASSUME ManagerTypeOK, CarriedIsChecked, NEW p \in Procs, NEW r \in Requests, RefreshAsks(p, r)
  PROVE  ManagerTypeOK' /\ CarriedIsChecked'
  <1>1. ManagerTypeOK'
    <2>1. \A in \in BOOLEAN : Offer(latest, procs[p].ver, in) \in Candidate
      BY DEF ManagerTypeOK, Candidate, Offer
    <2>2. \A c \in Candidate : [NoRequest EXCEPT !.pc = "store", !.candidate = c] \in UpdateRequest
      BY DEF NoRequest, UpdateRequest, NoVersion
    <2>3. PICK c \in Candidate : requests' = [requests EXCEPT ![r] = [NoRequest EXCEPT !.pc = "store", !.candidate = c]]
      BY <2>1 DEF RefreshAsks
    <2> QED BY <2>2, <2>3 DEF ManagerTypeOK, RefreshAsks
  <1>2. CarriedIsChecked'
    BY UpdateBounds DEF ManagerTypeOK, CarriedIsChecked, RefreshAsks, Serving, Present, Offer
  <1> QED BY <1>1, <1>2

\* Refresh stores the candidate the Cloud answered.
LEMMA TypedRefreshStores ==
  ASSUME ManagerTypeOK, CarriedIsChecked, NEW p \in Procs, NEW r \in Requests, RefreshStores(p, r)
  PROVE  ManagerTypeOK' /\ CarriedIsChecked'
  <1>1. ManagerTypeOK'
    <2>1. requests[r].candidate \in Candidate /\ NoVersion \in Version \cup {NoVersion} /\ procs[p] \in ManagerProcess
      BY DEF ManagerTypeOK, UpdateRequest
    <2>2. [procs[p] EXCEPT !.candidate = requests[r].candidate, !.path = NoVersion] \in ManagerProcess
      BY <2>1 DEF ManagerProcess
    <2>3. NoRequest \in UpdateRequest
      BY DEF UpdateRequest, NoRequest, NoCandidate, Candidate
    <2> QED BY <2>2, <2>3 DEF ManagerTypeOK, RefreshStores
  <1>2. CarriedIsChecked'
    BY UpdateBounds DEF ManagerTypeOK, CarriedIsChecked, RefreshStores, Serving, Present, NoRequest
  <1> QED BY <1>1, <1>2

\* A download ends with the artifact of its candidate, or without one.
LEMMA TypedDownloadEnds ==
  ASSUME ManagerTypeOK, CarriedIsChecked, NEW p \in Procs, NEW r \in Requests, DownloadEnds(p, r)
  PROVE  ManagerTypeOK' /\ CarriedIsChecked'
  <1>1. ManagerTypeOK'
    <2>1. requests[r].candidate.ver \in Version \cup {NoVersion} /\ procs[p] \in ManagerProcess
      BY DEF ManagerTypeOK, UpdateRequest, Candidate
    <2>2. [procs[p] EXCEPT !.path = requests[r].candidate.ver] \in ManagerProcess
      BY <2>1 DEF ManagerProcess
    <2>3. NoRequest \in UpdateRequest
      BY DEF UpdateRequest, NoRequest, NoCandidate, Candidate
    <2>4. procs' \in [Procs -> ManagerProcess]
      BY <2>2 DEF ManagerTypeOK, DownloadEnds
    <2> QED BY <2>3, <2>4 DEF ManagerTypeOK, DownloadEnds
  <1>2. CarriedIsChecked'
    <2>1. \A q \in Procs : /\ procs'[q].pc = procs[q].pc /\ procs'[q].ver = procs[q].ver
                           /\ procs'[q].timer = procs[q].timer /\ procs'[q].snap = procs[q].snap
      BY DEF ManagerTypeOK, DownloadEnds, ManagerProcess
    <2>2. \A s \in Requests : requests'[s] = IF s = r THEN NoRequest ELSE requests[s]
      BY DEF ManagerTypeOK, DownloadEnds
    <2> QED BY <2>1, <2>2 DEF CarriedIsChecked, DownloadEnds, NoRequest
  <1> QED BY <1>1, <1>2

\* Prepare checks: no pending file, and a candidate newer than this Manager.
LEMMA TypedApplyChecks ==
  ASSUME ManagerTypeOK, CarriedIsChecked, NEW p \in Procs, NEW r \in Requests, ApplyChecks(p, r)
  PROVE  ManagerTypeOK' /\ CarriedIsChecked'
  <1>1. ManagerTypeOK'
    <2>1. [requests[r] EXCEPT !.pc = "write"] \in UpdateRequest /\ NoRequest \in UpdateRequest
      BY DEF ManagerTypeOK, UpdateRequest, NoRequest, NoCandidate, Candidate
    <2>2. spent' = spent \/ Spend(Overtaking)
      BY DEF ApplyChecks
    <2>3. spent' \in [Disturbances -> Nat]
      BY <2>2, SpendTyped DEF ManagerTypeOK
    <2> QED BY <2>1, <2>3 DEF ManagerTypeOK, ApplyChecks
  <1>2. CarriedIsChecked'
    BY UpdateBounds DEF ManagerTypeOK, CarriedIsChecked, ApplyChecks, Serving, Present, Prepared,
       VerifyInstaller, NoRequest, NoVersion, Version, UpdateRequest
  <1> QED BY <1>1, <1>2

\* The installer of the pending target is launched.
LEMMA TypedApplyLaunches ==
  ASSUME ManagerTypeOK, CarriedIsChecked, NEW p \in Procs, NEW r \in Requests, ApplyLaunches(p, r)
  PROVE  ManagerTypeOK' /\ CarriedIsChecked'
  <1>1. ManagerTypeOK'
    <2>1. [procs[p] EXCEPT !.stopping = TRUE] \in ManagerProcess /\ NoRequest \in UpdateRequest
      BY NothingTyped DEF ManagerTypeOK, ManagerProcess
    <2>2. [ver |-> requests[r].path, by |-> r] \in [ver : Version, by : Requests \cup Procs]
      BY DEF CarriedIsChecked, ApplyLaunches
    <2> QED BY <2>1, <2>2 DEF ManagerTypeOK, ApplyLaunches
  <1>2. CarriedIsChecked'
    BY UpdateBounds DEF ManagerTypeOK, CarriedIsChecked, ApplyLaunches, Serving, Present, NoRequest
  <1> QED BY <1>1, <1>2

\* An installer that gives up leaves the image.
LEMMA TypedInstallerFails ==
  ASSUME ManagerTypeOK, CarriedIsChecked, NEW i \in launched, InstallerFails(i)
  PROVE  ManagerTypeOK' /\ CarriedIsChecked'
  <1>1. ManagerTypeOK'
    <2>1. spent' \in [Disturbances -> Nat]
      BY SpendTyped DEF ManagerTypeOK, InstallerFails, ManagerFault
    <2> QED BY <2>1 DEF ManagerTypeOK, InstallerFails
  <1>2. CarriedIsChecked'
    BY UpdateBounds DEF ManagerTypeOK, CarriedIsChecked, InstallerFails, Spend, ManagerFault
  <1> QED BY <1>1, <1>2

\* An installer writes the image on disk and starts it.
LEMMA TypedInstallerSucceeds ==
  ASSUME ManagerTypeOK, CarriedIsChecked, NEW i \in launched, InstallerSucceeds(i)
  PROVE  ManagerTypeOK' /\ CarriedIsChecked'
  <1>1. ManagerTypeOK'
    <2>1. i.ver \in Version
      BY DEF ManagerTypeOK
    <2>2. [NotUp EXCEPT !.pc = "starting", !.ver = i.ver] \in ManagerProcess
      BY <2>1, NothingTyped DEF ManagerProcess
    <2> QED BY <2>1, <2>2 DEF ManagerTypeOK, InstallerSucceeds
  <1>2. CarriedIsChecked'
    BY UpdateBounds DEF ManagerTypeOK, CarriedIsChecked, InstallerSucceeds, Up, Present, NotUp
  <1> QED BY <1>1, <1>2

\* The Cloud publishes a version.
LEMMA TypedPublish ==
  ASSUME ManagerTypeOK, CarriedIsChecked, Publish
  PROVE  ManagerTypeOK' /\ CarriedIsChecked'
  <1>1. ManagerTypeOK'
    BY UpdateBounds DEF ManagerTypeOK, CarriedIsChecked, Publish, Present, Version
  <1>2. CarriedIsChecked'
    BY UpdateBounds DEF ManagerTypeOK, CarriedIsChecked, Publish
  <1> QED BY <1>1, <1>2

\* The start launches the kept installer of the version before.
LEMMA TypedLaunchKept ==
  ASSUME ManagerTypeOK, CarriedIsChecked, NEW p \in Procs, LaunchKept(p)
  PROVE  ManagerTypeOK' /\ CarriedIsChecked'
  <1>1. ManagerTypeOK'
    BY UpdateBounds DEF ManagerTypeOK, CarriedIsChecked, LaunchKept, Serving, EndsManager,
       Present, NotUp, NoRequest, NoPending, NoCandidate, PendingUpdate, Candidate, ManagerProcess
  <1>2. CarriedIsChecked'
    BY UpdateBounds DEF ManagerTypeOK, CarriedIsChecked, LaunchKept, Serving, EndsManager,
       Present, NotUp, NoRequest
  <1> QED BY <1>1, <1>2

\* A crash takes the requests of the process with it.
LEMMA TypedManagerCrashes ==
  ASSUME ManagerTypeOK, CarriedIsChecked, NEW p \in Procs, ManagerCrashes(p)
  PROVE  ManagerTypeOK' /\ CarriedIsChecked'
  <1>1. ManagerTypeOK'
    BY UpdateBounds DEF ManagerTypeOK, CarriedIsChecked, ManagerCrashes, Spend, Serving,
       EndsManager, Present, NotUp, NoRequest, NoPending, NoCandidate, PendingUpdate, Candidate,
       ManagerProcess, UpdateRequest
  <1>2. CarriedIsChecked'
    BY UpdateBounds DEF ManagerTypeOK, CarriedIsChecked, ManagerCrashes, Spend, Serving,
       EndsManager, Present, NotUp, NoRequest, NoPending
  <1> QED BY <1>1, <1>2

\* A quit takes the requests of the process with it.
LEMMA TypedStopManager ==
  ASSUME ManagerTypeOK, CarriedIsChecked, NEW p \in Procs, StopManager(p)
  PROVE  ManagerTypeOK' /\ CarriedIsChecked'
  <1>1. ManagerTypeOK'
    BY UpdateBounds DEF ManagerTypeOK, CarriedIsChecked, StopManager, Serving, EndsManager,
       Present, NotUp, NoRequest, NoPending, NoCandidate, PendingUpdate, Candidate,
       ManagerProcess, UpdateRequest
  <1>2. CarriedIsChecked'
    BY UpdateBounds DEF ManagerTypeOK, CarriedIsChecked, StopManager, Serving, EndsManager,
       Present, NotUp, NoRequest
  <1> QED BY <1>1, <1>2

\* Download of a request begins.
LEMMA TypedDownloadAsks ==
  ASSUME ManagerTypeOK, CarriedIsChecked, NEW p \in Procs, NEW r \in Requests, DownloadAsks(p, r)
  PROVE  ManagerTypeOK' /\ CarriedIsChecked'
  <1>1. ManagerTypeOK'
    BY UpdateBounds DEF ManagerTypeOK, CarriedIsChecked, DownloadAsks, Serving, Present,
       NoRequest, NoCandidate, ManagerProcess, UpdateRequest
  <1>2. CarriedIsChecked'
    BY UpdateBounds DEF ManagerTypeOK, CarriedIsChecked, DownloadAsks, Serving, Present
  <1> QED BY <1>1, <1>2

\* Apply of a request begins.
LEMMA TypedApplyAsks ==
  ASSUME ManagerTypeOK, CarriedIsChecked, NEW p \in Procs, NEW r \in Requests, ApplyAsks(p, r)
  PROVE  ManagerTypeOK' /\ CarriedIsChecked'
  <1>1. ManagerTypeOK'
    BY UpdateBounds DEF ManagerTypeOK, CarriedIsChecked, ApplyAsks, Serving, Present,
       ManagerProcess, UpdateRequest
  <1>2. CarriedIsChecked'
    BY UpdateBounds DEF ManagerTypeOK, CarriedIsChecked, ApplyAsks
  <1> QED BY <1>1, <1>2

\* Prepare writes the pending file.
LEMMA TypedApplyWrites ==
  ASSUME ManagerTypeOK, CarriedIsChecked, NEW p \in Procs, NEW r \in Requests, ApplyWrites(p, r)
  PROVE  ManagerTypeOK' /\ CarriedIsChecked'
  <1>1. ManagerTypeOK'
    BY UpdateBounds DEF ManagerTypeOK, CarriedIsChecked, ApplyWrites, Serving, WritePending,
       Present, PendingUpdate, UpdateRequest
  <1>2. CarriedIsChecked'
    BY UpdateBounds DEF ManagerTypeOK, CarriedIsChecked, ApplyWrites
  <1> QED BY <1>1, <1>2

\* A request that fails leaves the file as it is.
LEMMA TypedApplyFault ==
  ASSUME ManagerTypeOK, CarriedIsChecked, NEW p \in Procs, NEW r \in Requests, ApplyFault(p, r)
  PROVE  ManagerTypeOK' /\ CarriedIsChecked'
  <1>1. ManagerTypeOK'
    BY UpdateBounds DEF ManagerTypeOK, CarriedIsChecked, ApplyFault, Spend, ManagerFault, Serving,
       Present, NoRequest, NoCandidate, Candidate, UpdateRequest
  <1>2. CarriedIsChecked'
    BY UpdateBounds DEF ManagerTypeOK, CarriedIsChecked, ApplyFault, Spend, ManagerFault, Serving,
       Present, NoRequest
  <1> QED BY <1>1, <1>2

\* The Cloud publishes a version: the file still explains the disk.
LEMMA AlonePublish ==
  ASSUME ManagerTypeOK, CarriedIsChecked, AloneInv, Publish, Alone'
  PROVE  AloneInv'
  <1>1. OneManager'
    BY DEF AloneInv, ManagerTypeOK, OneManager, Publish
  <1>2. FileExplains'
    BY DEF AloneInv, ManagerTypeOK, CarriedIsChecked, OneManager, FileExplains,
       InstallersExplained, RequestsExplained, StartsExplained, Publish, Present
  <1>3. InstallersExplained'
    BY DEF AloneInv, ManagerTypeOK, CarriedIsChecked, OneManager, FileExplains,
       InstallersExplained, RequestsExplained, StartsExplained, Publish, Present
  <1>4. RequestsExplained'
    BY DEF AloneInv, ManagerTypeOK, CarriedIsChecked, OneManager, FileExplains,
       InstallersExplained, RequestsExplained, StartsExplained, Publish, Present
  <1>5. StartsExplained'
    BY DEF AloneInv, ManagerTypeOK, CarriedIsChecked, OneManager, FileExplains,
       InstallersExplained, RequestsExplained, StartsExplained, Publish, Present
  <1> QED BY <1>1, <1>2, <1>3, <1>4, <1>5 DEF AloneInv

\* A Manager starts: the file still explains the disk.
LEMMA AloneStartManager ==
  ASSUME ManagerTypeOK, CarriedIsChecked, AloneInv, NEW p \in Procs, StartManager(p), Alone'
  PROVE  AloneInv'
  <1>1. OneManager'
    <2>0. PICK kinds \in {{d \in Disturbances : \/ d = "early" /\ launched # {}
                                                \/ d = "second" /\ Up # {}}} : Spend(kinds)
      BY DEF StartManager
    <2>1. Up = {}
      <3>1. "second" \notin kinds
        BY <2>0, SpendTyped DEF ManagerTypeOK, Alone, Disturbances
      <3> QED BY <3>1 DEF Disturbances
    <2>2. \A q \in Procs : procs[q].pc = "off"
      BY <2>1 DEF Up
    <2>3. \A q \in Procs : q # p => procs'[q].pc = "off"
      BY <2>2 DEF ManagerTypeOK, StartManager
    <2> QED BY <2>2, <2>3 DEF AloneInv, OneManager, StartManager
  <1>2. FileExplains'
    BY DEF AloneInv, ManagerTypeOK, CarriedIsChecked, OneManager, FileExplains,
       InstallersExplained, RequestsExplained, StartsExplained, StartManager, Present, NotUp
  <1>3. InstallersExplained'
    BY DEF AloneInv, ManagerTypeOK, CarriedIsChecked, OneManager, FileExplains,
       InstallersExplained, RequestsExplained, StartsExplained, StartManager, Present
  <1>4. RequestsExplained'
    BY DEF AloneInv, ManagerTypeOK, CarriedIsChecked, OneManager, FileExplains,
       InstallersExplained, RequestsExplained, StartsExplained, StartManager, Present
  <1>5. StartsExplained'
    BY DEF AloneInv, ManagerTypeOK, CarriedIsChecked, OneManager, FileExplains,
       InstallersExplained, RequestsExplained, StartsExplained, StartManager, Present
  <1> QED BY <1>1, <1>2, <1>3, <1>4, <1>5 DEF AloneInv

\* RecordTargetStartup reads the pending file: the file still explains the disk.
LEMMA AloneRecordTargetStartupReads ==
  ASSUME ManagerTypeOK, CarriedIsChecked, AloneInv, NEW p \in Procs, RecordTargetStartupReads(p), Alone'
  PROVE  AloneInv'
  <1>1. OneManager'
    <2>1. \A q \in Procs : q # p => procs'[q] = procs[q]
      BY DEF ManagerTypeOK, RecordTargetStartupReads, Move
    <2>2. procs[p].pc = "starting"
      BY DEF RecordTargetStartupReads
    <2> QED BY <2>1, <2>2 DEF AloneInv, OneManager, RecordTargetStartupReads
  <1>2. FileExplains'
    BY DEF AloneInv, ManagerTypeOK, CarriedIsChecked, OneManager, FileExplains,
       InstallersExplained, RequestsExplained, StartsExplained, RecordTargetStartupReads, Move,
       Present, Readable, RollbackConfirmed
  <1>3. InstallersExplained'
    BY DEF AloneInv, ManagerTypeOK, CarriedIsChecked, OneManager, FileExplains,
       InstallersExplained, RequestsExplained, StartsExplained, RecordTargetStartupReads,
       ManagerFault, Serving, Move, EndsManager, WritePending, Present, Readable,
       RollbackConfirmed, TargetStarted, Prepared, VerifyInstaller, NotUp, NoRequest, NoPending,
       Version
  <1>4. RequestsExplained'
    BY DEF AloneInv, ManagerTypeOK, CarriedIsChecked, OneManager, FileExplains,
       InstallersExplained, RequestsExplained, StartsExplained, RecordTargetStartupReads, Move,
       Present, Readable
  <1>5. StartsExplained'
    <2>1. \A q \in Procs : q # p => procs'[q] = procs[q] /\ procs[q].pc = "off"
      BY DEF ManagerTypeOK, RecordTargetStartupReads, Move, AloneInv, OneManager
    <2>2. CASE TargetStarted(p)
      <3>1. procs'[p] = [procs[p] EXCEPT !.pc = "counting", !.snap = [pendingFile EXCEPT !.attempts = @ + 1]]
        BY <2>2 DEF RecordTargetStartupReads, ManagerTypeOK
      <3>2. procs'[p].pc = "counting" /\ procs'[p].snap = [pendingFile EXCEPT !.attempts = @ + 1]
        BY <3>1 DEF ManagerTypeOK, ManagerProcess
      <3>3. pendingFile' = pendingFile /\ disk' = disk
        BY <2>2 DEF RecordTargetStartupReads, RollbackConfirmed, TargetStarted
      <3>4. Present /\ pendingFile.phase = "installing" /\ pendingFile.target = disk
        BY <2>2 DEF TargetStarted, Readable, CarriedIsChecked, RecordTargetStartupReads
      <3> QED BY <2>1, <3>2, <3>3, <3>4 DEF StartsExplained, Present
    <2>3. CASE ~TargetStarted(p)
      <3>1. procs'[p] = [procs[p] EXCEPT !.pc = "binding"]
        BY <2>3 DEF RecordTargetStartupReads, Move, ManagerTypeOK
      <3>2. procs'[p].pc = "binding"
        BY <3>1 DEF ManagerTypeOK, ManagerProcess
      <3> QED BY <2>1, <3>2 DEF StartsExplained
    <2> QED BY <2>2, <2>3
  <1> QED BY <1>1, <1>2, <1>3, <1>4, <1>5 DEF AloneInv

\* RecordTargetStartup writes the attempt it counted: the file still explains the disk.
LEMMA AloneRecordTargetStartupWrites ==
  ASSUME ManagerTypeOK, CarriedIsChecked, AloneInv, NEW p \in Procs, RecordTargetStartupWrites(p), Alone'
  PROVE  AloneInv'
  <1>1. OneManager'
    BY DEF AloneInv, ManagerTypeOK, CarriedIsChecked, OneManager,
       RecordTargetStartupWrites
  <1>2. FileExplains'
    BY DEF AloneInv, ManagerTypeOK, CarriedIsChecked, OneManager, FileExplains,
       InstallersExplained, RequestsExplained, StartsExplained, RecordTargetStartupWrites,
       WritePending, PendingUpdate
  <1>3. InstallersExplained'
    BY DEF AloneInv, ManagerTypeOK, CarriedIsChecked, OneManager, FileExplains,
       InstallersExplained, RequestsExplained, StartsExplained, RecordTargetStartupWrites,
       WritePending, Present, NoPending, PendingUpdate
  <1>4. RequestsExplained'
    BY DEF AloneInv, ManagerTypeOK, CarriedIsChecked, OneManager, FileExplains,
       InstallersExplained, RequestsExplained, StartsExplained, RecordTargetStartupWrites
  <1>5. StartsExplained'
    BY DEF AloneInv, ManagerTypeOK, CarriedIsChecked, OneManager, FileExplains,
       InstallersExplained, RequestsExplained, StartsExplained, RecordTargetStartupWrites,
       WritePending, Present, NoPending, PendingUpdate
  <1> QED BY <1>1, <1>2, <1>3, <1>4, <1>5 DEF AloneInv

\* beginRollback: the file still explains the disk.
LEMMA AloneBeginRollback ==
  ASSUME ManagerTypeOK, CarriedIsChecked, AloneInv, NEW p \in Procs, BeginRollback(p), Alone'
  PROVE  AloneInv'
  <1>1. OneManager'
    <2>1. \A q \in Procs : q # p => procs'[q] = procs[q]
      BY DEF ManagerTypeOK, BeginRollback, Move
    <2>2. procs[p].pc = "unhealthy"
      BY DEF BeginRollback
    <2> QED BY <2>1, <2>2 DEF AloneInv, OneManager, BeginRollback
  <1>2. FileExplains'
    <2>1. /\ disk' = disk /\ pendingFile'.phase \in {pendingFile.phase, "rollback"}
          /\ pendingFile'.prev = pendingFile.prev /\ pendingFile'.target = pendingFile.target
          /\ pendingFile' # NoPending => pendingFile # NoPending
      BY DEF ManagerTypeOK, PendingUpdate, BeginRollback, WritePending, Readable, Present
    <2> QED BY <2>1 DEF AloneInv, FileExplains, Present
  <1>3. InstallersExplained'
    BY DEF AloneInv, ManagerTypeOK, CarriedIsChecked, OneManager, FileExplains,
       InstallersExplained, RequestsExplained, StartsExplained, BeginRollback, Move, WritePending,
       Present, NoPending, PendingUpdate
  <1>4. RequestsExplained'
    BY DEF AloneInv, ManagerTypeOK, CarriedIsChecked, OneManager, FileExplains,
       InstallersExplained, RequestsExplained, StartsExplained, BeginRollback, Move, WritePending
  <1>5. StartsExplained'
    <2>1. \A q \in Procs : q # p => procs'[q] = procs[q] /\ procs[q].pc = "off"
      BY DEF ManagerTypeOK, BeginRollback, Move, AloneInv, OneManager
    <2>2. /\ Present /\ pendingFile.phase = "installing" /\ pendingFile.target = disk
          /\ procs[p].snap = pendingFile
      BY DEF AloneInv, StartsExplained, BeginRollback
    <2>3. launched = {}
      BY <2>2 DEF AloneInv, InstallersExplained, FileExplains, Version
    <2>4. CASE procs[p].snap.prev \in recovery /\ Readable
      <3>1. pendingFile' = [pendingFile EXCEPT !.phase = "rollback"] /\ disk' = disk /\ launched' = launched
        BY <2>4 DEF BeginRollback, WritePending
      <3>2. procs'[p] = [procs[p] EXCEPT !.pc = "rolling"]
        BY <2>4 DEF BeginRollback, Move, ManagerTypeOK
      <3>3. /\ pendingFile'.phase = "rollback" /\ pendingFile'.target = pendingFile.target
            /\ pendingFile'.prev = pendingFile.prev /\ pendingFile' # NoPending
        BY <3>1 DEF ManagerTypeOK, PendingUpdate, NoPending
      <3>4. procs'[p].pc = "rolling" /\ procs'[p].snap = procs[p].snap
        BY <3>2 DEF ManagerTypeOK, ManagerProcess
      <3> QED BY <2>1, <2>2, <2>3, <3>1, <3>3, <3>4 DEF StartsExplained, Present
    <2>5. CASE ~(procs[p].snap.prev \in recovery /\ Readable)
      <3>1. procs'[p] = [procs[p] EXCEPT !.pc = "binding"]
        BY <2>5 DEF BeginRollback, Move, ManagerTypeOK
      <3>2. procs'[p].pc = "binding"
        BY <3>1 DEF ManagerTypeOK, ManagerProcess
      <3> QED BY <2>1, <3>2 DEF StartsExplained
    <2> QED BY <2>4, <2>5
  <1> QED BY <1>1, <1>2, <1>3, <1>4, <1>5 DEF AloneInv

\* The start launches the kept installer of the version before: the file still explains the disk.
LEMMA AloneLaunchKept ==
  ASSUME ManagerTypeOK, CarriedIsChecked, AloneInv, NEW p \in Procs, LaunchKept(p), Alone'
  PROVE  AloneInv'
  <1>1. OneManager'
    BY DEF AloneInv, ManagerTypeOK, CarriedIsChecked, OneManager, LaunchKept, Serving,
       EndsManager, Present, NotUp
  <1>2. FileExplains'
    BY DEF AloneInv, ManagerTypeOK, CarriedIsChecked, OneManager, FileExplains,
       InstallersExplained, RequestsExplained, StartsExplained, LaunchKept, Serving, EndsManager,
       Present, NotUp, NoRequest
  <1>3. InstallersExplained'
    BY DEF AloneInv, ManagerTypeOK, CarriedIsChecked, OneManager, FileExplains,
       InstallersExplained, RequestsExplained, StartsExplained, LaunchKept, Serving, EndsManager,
       Present, NotUp
  <1>4. RequestsExplained'
    BY DEF AloneInv, ManagerTypeOK, CarriedIsChecked, OneManager, FileExplains,
       InstallersExplained, RequestsExplained, StartsExplained, LaunchKept, Serving, EndsManager,
       Present, NotUp
  <1>5. StartsExplained'
    BY DEF AloneInv, ManagerTypeOK, CarriedIsChecked, OneManager, FileExplains,
       InstallersExplained, RequestsExplained, StartsExplained, LaunchKept, Serving, EndsManager,
       Present, NotUp
  <1> QED BY <1>1, <1>2, <1>3, <1>4, <1>5 DEF AloneInv

\* The listener is bound; a pending target opens its health window: the file still explains the disk.
LEMMA AloneBind ==
  ASSUME ManagerTypeOK, CarriedIsChecked, AloneInv, NEW p \in Procs, Bind(p), Alone'
  PROVE  AloneInv'
  <1>1. OneManager'
    <2>1. CASE \E q \in Procs : Serving(q)
      <3>1. PICK q \in Procs : Serving(q)
        BY <2>1
      <3>2. q = p
        BY <3>1 DEF AloneInv, OneManager, Serving, Bind
      <3> QED BY <3>1, <3>2 DEF Serving, Bind
    <2>2. CASE ~(\E q \in Procs : Serving(q))
      BY <2>2 DEF AloneInv, OneManager, ManagerTypeOK, Bind, Move
    <2> QED BY <2>1, <2>2
  <1>2. FileExplains'
    BY DEF AloneInv, ManagerTypeOK, CarriedIsChecked, OneManager, FileExplains,
       InstallersExplained, RequestsExplained, StartsExplained, Bind, Serving, Move, EndsManager,
       Present, NotUp, NoRequest
  <1>3. InstallersExplained'
    BY DEF AloneInv, ManagerTypeOK, CarriedIsChecked, OneManager, FileExplains,
       InstallersExplained, RequestsExplained, StartsExplained, Bind, Serving, Move, EndsManager,
       Present, NotUp
  <1>4. RequestsExplained'
    BY DEF AloneInv, ManagerTypeOK, CarriedIsChecked, OneManager, FileExplains,
       InstallersExplained, RequestsExplained, StartsExplained, Bind, Serving, Move, EndsManager,
       Present, NotUp
  <1>5. StartsExplained'
    BY DEF AloneInv, ManagerTypeOK, CarriedIsChecked, OneManager, FileExplains,
       InstallersExplained, RequestsExplained, StartsExplained, Bind, Serving, Move, EndsManager,
       Present, NotUp, ManagerProcess
  <1> QED BY <1>1, <1>2, <1>3, <1>4, <1>5 DEF AloneInv

\* A start that fails ends the process and nothing else: the file still explains the disk.
LEMMA AloneStartupFault ==
  ASSUME ManagerTypeOK, CarriedIsChecked, AloneInv, NEW p \in Procs, StartupFault(p), Alone'
  PROVE  AloneInv'
  <1>1. OneManager'
    BY DEF AloneInv, ManagerTypeOK, CarriedIsChecked, OneManager, StartupFault, Move
  <1>2. FileExplains'
    BY DEF AloneInv, ManagerTypeOK, CarriedIsChecked, OneManager, FileExplains,
       InstallersExplained, RequestsExplained, StartsExplained, StartupFault, ManagerFault, Move
  <1>3. InstallersExplained'
    BY DEF AloneInv, ManagerTypeOK, CarriedIsChecked, OneManager, FileExplains,
       InstallersExplained, RequestsExplained, StartsExplained, StartupFault, ManagerFault,
       Present
  <1>4. RequestsExplained'
    BY DEF AloneInv, ManagerTypeOK, CarriedIsChecked, OneManager, FileExplains,
       InstallersExplained, RequestsExplained, StartsExplained, StartupFault, ManagerFault
  <1>5. StartsExplained'
    BY DEF AloneInv, ManagerTypeOK, CarriedIsChecked, OneManager, FileExplains,
       InstallersExplained, RequestsExplained, StartsExplained, StartupFault, ManagerFault, Move
  <1> QED BY <1>1, <1>2, <1>3, <1>4, <1>5 DEF AloneInv

\* MarkHealthy removes the pending file of the target that runs: the file still explains the disk.
LEMMA AloneMarkManagerHealthy ==
  ASSUME ManagerTypeOK, CarriedIsChecked, AloneInv, NEW p \in Procs, MarkManagerHealthy(p), Alone'
  PROVE  AloneInv'
  <1>1. OneManager'
    BY DEF AloneInv, ManagerTypeOK, CarriedIsChecked, OneManager, MarkManagerHealthy,
       Present
  <1>2. FileExplains'
    BY DEF AloneInv, ManagerTypeOK, CarriedIsChecked, OneManager, FileExplains,
       InstallersExplained, RequestsExplained, StartsExplained, MarkManagerHealthy, Present,
       Readable
  <1>3. InstallersExplained'
    BY DEF AloneInv, ManagerTypeOK, CarriedIsChecked, OneManager, FileExplains,
       InstallersExplained, RequestsExplained, StartsExplained, MarkManagerHealthy, ManagerFault,
       Serving, Move, EndsManager, WritePending, Present, Readable, RollbackConfirmed,
       TargetStarted, Prepared, VerifyInstaller, NotUp, NoRequest, NoPending, Version
  <1>4. RequestsExplained'
    BY DEF AloneInv, ManagerTypeOK, CarriedIsChecked, OneManager, FileExplains,
       InstallersExplained, RequestsExplained, StartsExplained, MarkManagerHealthy, ManagerFault,
       Serving, Move, EndsManager, WritePending, Present, Readable, RollbackConfirmed,
       TargetStarted, Prepared, VerifyInstaller, NotUp, NoRequest, NoPending, Version
  <1>5. StartsExplained'
    BY DEF AloneInv, ManagerTypeOK, CarriedIsChecked, OneManager, FileExplains,
       InstallersExplained, RequestsExplained, StartsExplained, MarkManagerHealthy, Present
  <1> QED BY <1>1, <1>2, <1>3, <1>4, <1>5 DEF AloneInv

\* A crash takes the requests of the process with it: the file still explains the disk.
LEMMA AloneManagerCrashes ==
  ASSUME ManagerTypeOK, CarriedIsChecked, AloneInv, NEW p \in Procs, ManagerCrashes(p), Alone'
  PROVE  AloneInv'
  <1>1. OneManager'
    BY DEF AloneInv, ManagerTypeOK, CarriedIsChecked, OneManager, ManagerCrashes,
       Serving, EndsManager, Present, NotUp, NoRequest
  <1>2. FileExplains'
    BY DEF AloneInv, ManagerTypeOK, CarriedIsChecked, OneManager, FileExplains,
       InstallersExplained, RequestsExplained, StartsExplained, ManagerCrashes, Serving,
       EndsManager, Present, NotUp, NoRequest
  <1>3. InstallersExplained'
    BY DEF AloneInv, ManagerTypeOK, CarriedIsChecked, OneManager, FileExplains,
       InstallersExplained, RequestsExplained, StartsExplained, ManagerCrashes, Serving,
       EndsManager, Present, NotUp
  <1>4. RequestsExplained'
    BY DEF AloneInv, ManagerTypeOK, CarriedIsChecked, OneManager, FileExplains,
       InstallersExplained, RequestsExplained, StartsExplained, ManagerCrashes, Serving,
       EndsManager, Present, NotUp, NoRequest
  <1>5. StartsExplained'
    BY DEF AloneInv, ManagerTypeOK, CarriedIsChecked, OneManager, FileExplains,
       InstallersExplained, RequestsExplained, StartsExplained, ManagerCrashes, Serving,
       EndsManager, Present, NotUp
  <1> QED BY <1>1, <1>2, <1>3, <1>4, <1>5 DEF AloneInv

\* A quit takes the requests of the process with it: the file still explains the disk.
LEMMA AloneStopManager ==
  ASSUME ManagerTypeOK, CarriedIsChecked, AloneInv, NEW p \in Procs, StopManager(p), Alone'
  PROVE  AloneInv'
  <1>1. OneManager'
    BY DEF AloneInv, ManagerTypeOK, CarriedIsChecked, OneManager, StopManager,
       Serving, EndsManager, Present, NotUp, NoRequest
  <1>2. FileExplains'
    BY DEF AloneInv, ManagerTypeOK, CarriedIsChecked, OneManager, FileExplains,
       InstallersExplained, RequestsExplained, StartsExplained, StopManager, Serving, EndsManager,
       Present, NotUp, NoRequest
  <1>3. InstallersExplained'
    BY DEF AloneInv, ManagerTypeOK, CarriedIsChecked, OneManager, FileExplains,
       InstallersExplained, RequestsExplained, StartsExplained, StopManager, Serving, EndsManager,
       Present, NotUp
  <1>4. RequestsExplained'
    BY DEF AloneInv, ManagerTypeOK, CarriedIsChecked, OneManager, FileExplains,
       InstallersExplained, RequestsExplained, StartsExplained, StopManager, Serving, EndsManager,
       Present, NotUp, NoRequest
  <1>5. StartsExplained'
    <2>1. \A q \in Procs : procs'[q] = procs[q] \/ procs'[q].pc = "off"
      BY DEF StopManager, EndsManager, NotUp
    <2> QED BY <2>1 DEF AloneInv, StartsExplained, StopManager, Present
  <1> QED BY <1>1, <1>2, <1>3, <1>4, <1>5 DEF AloneInv

\* Refresh of a page's request asks the Cloud: the file still explains the disk.
LEMMA AloneRefreshAsks ==
  ASSUME ManagerTypeOK, CarriedIsChecked, AloneInv, NEW p \in Procs, NEW r \in Requests, RefreshAsks(p, r), Alone'
  PROVE  AloneInv'
  <1>1. OneManager'
    BY DEF AloneInv, ManagerTypeOK, CarriedIsChecked, OneManager, RefreshAsks, Serving
  <1>2. FileExplains'
    BY DEF AloneInv, ManagerTypeOK, CarriedIsChecked, OneManager, FileExplains,
       InstallersExplained, RequestsExplained, StartsExplained, RefreshAsks, Serving, Present,
       NoRequest
  <1>3. InstallersExplained'
    BY DEF AloneInv, ManagerTypeOK, CarriedIsChecked, OneManager, FileExplains,
       InstallersExplained, RequestsExplained, StartsExplained, RefreshAsks, Serving, Present
  <1>4. RequestsExplained'
    BY DEF AloneInv, ManagerTypeOK, CarriedIsChecked, OneManager, FileExplains,
       InstallersExplained, RequestsExplained, StartsExplained, RefreshAsks, Serving, Present
  <1>5. StartsExplained'
    BY DEF AloneInv, ManagerTypeOK, CarriedIsChecked, OneManager, FileExplains,
       InstallersExplained, RequestsExplained, StartsExplained, RefreshAsks, Serving, Present
  <1> QED BY <1>1, <1>2, <1>3, <1>4, <1>5 DEF AloneInv

\* Download of a request begins: the file still explains the disk.
LEMMA AloneDownloadAsks ==
  ASSUME ManagerTypeOK, CarriedIsChecked, AloneInv, NEW p \in Procs, NEW r \in Requests, DownloadAsks(p, r), Alone'
  PROVE  AloneInv'
  <1>1. OneManager'
    BY DEF AloneInv, ManagerTypeOK, CarriedIsChecked, OneManager, DownloadAsks, Serving
  <1>2. FileExplains'
    BY DEF AloneInv, ManagerTypeOK, CarriedIsChecked, OneManager, FileExplains,
       InstallersExplained, RequestsExplained, StartsExplained, DownloadAsks, Serving, Present,
       NoRequest
  <1>3. InstallersExplained'
    BY DEF AloneInv, ManagerTypeOK, CarriedIsChecked, OneManager, FileExplains,
       InstallersExplained, RequestsExplained, StartsExplained, DownloadAsks, Serving, Present
  <1>4. RequestsExplained'
    BY DEF AloneInv, ManagerTypeOK, CarriedIsChecked, OneManager, FileExplains,
       InstallersExplained, RequestsExplained, StartsExplained, DownloadAsks, Serving, Present
  <1>5. StartsExplained'
    BY DEF AloneInv, ManagerTypeOK, CarriedIsChecked, OneManager, FileExplains,
       InstallersExplained, RequestsExplained, StartsExplained, DownloadAsks, Serving, Present
  <1> QED BY <1>1, <1>2, <1>3, <1>4, <1>5 DEF AloneInv

\* Apply of a request begins: the file still explains the disk.
LEMMA AloneApplyAsks ==
  ASSUME ManagerTypeOK, CarriedIsChecked, AloneInv, NEW p \in Procs, NEW r \in Requests, ApplyAsks(p, r), Alone'
  PROVE  AloneInv'
  <1>1. OneManager'
    BY DEF AloneInv, ManagerTypeOK, CarriedIsChecked, OneManager, ApplyAsks, Serving
  <1>2. FileExplains'
    BY DEF AloneInv, ManagerTypeOK, CarriedIsChecked, OneManager, FileExplains,
       InstallersExplained, RequestsExplained, StartsExplained, ApplyAsks, Serving, Present
  <1>3. InstallersExplained'
    BY DEF AloneInv, ManagerTypeOK, CarriedIsChecked, OneManager, FileExplains,
       InstallersExplained, RequestsExplained, StartsExplained, ApplyAsks, Present
  <1>4. RequestsExplained'
    <2>1. requests'[r].pc = "exact" /\ \A s \in Requests : s # r => requests'[s] = requests[s]
      BY DEF ManagerTypeOK, ApplyAsks
    <2>2. UNCHANGED <<disk, pendingFile, launched>>
      BY DEF ApplyAsks
    <2> QED BY <2>1, <2>2 DEF AloneInv, RequestsExplained, Present
  <1>5. StartsExplained'
    BY DEF AloneInv, ManagerTypeOK, CarriedIsChecked, OneManager, FileExplains,
       InstallersExplained, RequestsExplained, StartsExplained, ApplyAsks, Serving
  <1> QED BY <1>1, <1>2, <1>3, <1>4, <1>5 DEF AloneInv

\* Refresh stores the candidate the Cloud answered: the file still explains the disk.
LEMMA AloneRefreshStores ==
  ASSUME ManagerTypeOK, CarriedIsChecked, AloneInv, NEW p \in Procs, NEW r \in Requests, RefreshStores(p, r), Alone'
  PROVE  AloneInv'
  <1>1. OneManager'
    BY DEF AloneInv, ManagerTypeOK, CarriedIsChecked, OneManager, RefreshStores, Serving
  <1>2. FileExplains'
    BY DEF AloneInv, ManagerTypeOK, CarriedIsChecked, OneManager, FileExplains,
       InstallersExplained, RequestsExplained, StartsExplained, RefreshStores, Serving, Present,
       NoRequest
  <1>3. InstallersExplained'
    BY DEF AloneInv, ManagerTypeOK, CarriedIsChecked, OneManager, FileExplains,
       InstallersExplained, RequestsExplained, StartsExplained, RefreshStores, Serving, Present
  <1>4. RequestsExplained'
    BY DEF AloneInv, ManagerTypeOK, CarriedIsChecked, OneManager, FileExplains,
       InstallersExplained, RequestsExplained, StartsExplained, RefreshStores, Serving, Present,
       NoRequest
  <1>5. StartsExplained'
    BY DEF AloneInv, ManagerTypeOK, CarriedIsChecked, OneManager, FileExplains,
       InstallersExplained, RequestsExplained, StartsExplained, RefreshStores, Serving, Present
  <1> QED BY <1>1, <1>2, <1>3, <1>4, <1>5 DEF AloneInv

\* A download ends with the artifact of its candidate, or without one: the file still explains the disk.
LEMMA AloneDownloadEnds ==
  ASSUME ManagerTypeOK, CarriedIsChecked, AloneInv, NEW p \in Procs, NEW r \in Requests, DownloadEnds(p, r), Alone'
  PROVE  AloneInv'
  <1>1. OneManager'
    <2>1. \A q \in Procs : procs'[q].pc = procs[q].pc
      BY DEF ManagerTypeOK, ManagerProcess, DownloadEnds
    <2>2. \A s \in Requests : requests'[s].pc # "idle" => requests[s].pc # "idle"
      BY DEF ManagerTypeOK, DownloadEnds, NoRequest
    <2> QED BY <2>1, <2>2 DEF AloneInv, OneManager
  <1>2. FileExplains'
    BY DEF AloneInv, ManagerTypeOK, CarriedIsChecked, OneManager, FileExplains,
       InstallersExplained, RequestsExplained, StartsExplained, DownloadEnds, Serving, Present,
       NoRequest
  <1>3. InstallersExplained'
    BY DEF AloneInv, ManagerTypeOK, CarriedIsChecked, OneManager, FileExplains,
       InstallersExplained, RequestsExplained, StartsExplained, DownloadEnds, Serving, Present
  <1>4. RequestsExplained'
    BY DEF AloneInv, ManagerTypeOK, CarriedIsChecked, OneManager, FileExplains,
       InstallersExplained, RequestsExplained, StartsExplained, DownloadEnds, Serving, Present,
       NoRequest
  <1>5. StartsExplained'
    BY DEF AloneInv, ManagerTypeOK, CarriedIsChecked, OneManager, FileExplains,
       InstallersExplained, RequestsExplained, StartsExplained, DownloadEnds, Serving, Present,
       ManagerProcess
  <1> QED BY <1>1, <1>2, <1>3, <1>4, <1>5 DEF AloneInv

\* Prepare checks: the file still explains the disk.
LEMMA AloneApplyChecks ==
  ASSUME ManagerTypeOK, CarriedIsChecked, AloneInv, NEW p \in Procs, NEW r \in Requests, ApplyChecks(p, r), Alone'
  PROVE  AloneInv'
  <1>1. OneManager'
    <2>1. Serving(p) /\ UNCHANGED procs
      BY DEF ApplyChecks
    <2> QED BY <2>1 DEF AloneInv, OneManager, Serving
  <1>2. FileExplains'
    BY DEF AloneInv, ManagerTypeOK, CarriedIsChecked, OneManager, FileExplains,
       InstallersExplained, RequestsExplained, StartsExplained, ApplyChecks, Serving, Present,
       Prepared, VerifyInstaller, NoRequest
  <1>3. InstallersExplained'
    BY DEF AloneInv, ManagerTypeOK, CarriedIsChecked, OneManager, FileExplains,
       InstallersExplained, RequestsExplained, StartsExplained, ApplyChecks, Serving, Present,
       Prepared, VerifyInstaller
  <1>4. RequestsExplained'
    <2>1. CASE requests' = [requests EXCEPT ![r] = NoRequest]
      BY <2>1 DEF AloneInv, ManagerTypeOK, RequestsExplained, ApplyChecks, Present, NoRequest
    <2>2. CASE Prepared(p, r) /\ requests' = [requests EXCEPT ![r].pc = "write"] /\ Spend(Overtaking)
      <3>1. \A s \in Requests : requests[s].pc # "write"
        <4>1. "race" \notin Overtaking
          BY <2>2, SpendTyped DEF ManagerTypeOK, Alone, Disturbances
        <4> QED BY <4>1 DEF Overtaking
      <3>2. \A s \in Requests : requests[s].pc # "launch"
        BY <2>2 DEF AloneInv, RequestsExplained, Prepared
      <3>3. requests'[r].pc = "write" /\ requests'[r].candidate = requests[r].candidate
        BY <2>2 DEF ManagerTypeOK, UpdateRequest
      <3>4. \A s \in Requests : s # r => requests'[s] = requests[s]
        BY <2>2 DEF ManagerTypeOK
      <3>5. ~Present /\ requests[r].candidate.ver > disk
        BY <2>2 DEF Prepared, ApplyChecks, Serving, CarriedIsChecked
      <3> QED BY <3>1, <3>2, <3>3, <3>4, <3>5 DEF RequestsExplained, ApplyChecks, Present
    <2> QED BY <2>1, <2>2 DEF ApplyChecks
  <1>5. StartsExplained'
    BY DEF AloneInv, ManagerTypeOK, CarriedIsChecked, OneManager, FileExplains,
       InstallersExplained, RequestsExplained, StartsExplained, ApplyChecks, Serving, Present,
       Prepared, VerifyInstaller
  <1> QED BY <1>1, <1>2, <1>3, <1>4, <1>5 DEF AloneInv

\* Prepare writes the pending file: the file still explains the disk.
LEMMA AloneApplyWrites ==
  ASSUME ManagerTypeOK, CarriedIsChecked, AloneInv, NEW p \in Procs, NEW r \in Requests, ApplyWrites(p, r), Alone'
  PROVE  AloneInv'
  <1>1. OneManager'
    BY DEF AloneInv, ManagerTypeOK, CarriedIsChecked, OneManager, ApplyWrites
  <1>2. FileExplains'
    BY DEF AloneInv, ManagerTypeOK, CarriedIsChecked, OneManager, FileExplains,
       InstallersExplained, RequestsExplained, StartsExplained, ApplyWrites, Serving, WritePending
  <1>3. InstallersExplained'
    BY DEF AloneInv, ManagerTypeOK, CarriedIsChecked, OneManager, FileExplains,
       InstallersExplained, RequestsExplained, StartsExplained, ApplyWrites, Serving
  <1>4. RequestsExplained'
    <2>1. \A s \in Requests : s # r => requests'[s] = requests[s] /\ requests[s].pc \notin {"write", "launch"}
      BY DEF AloneInv, ManagerTypeOK, RequestsExplained, ApplyWrites
    <2>2. requests'[r].pc = "launch" /\ requests'[r].path = requests[r].path
      BY DEF ManagerTypeOK, UpdateRequest, ApplyWrites
    <2>3. pendingFile' = [prev |-> procs[p].ver, target |-> requests[r].candidate.ver, attempts |-> 0, phase |-> "installing"]
      BY DEF ApplyWrites, WritePending
    <2>4. Present' /\ pendingFile'.phase = "installing" /\ pendingFile'.prev = disk /\ pendingFile'.target = requests[r].path
      BY <2>3 DEF Present, NoPending, CarriedIsChecked, ApplyWrites, Serving
    <2>5. launched' = {} /\ disk' = disk
      BY DEF AloneInv, RequestsExplained, InstallersExplained, ApplyWrites
    <2> QED BY <2>1, <2>2, <2>4, <2>5 DEF RequestsExplained
  <1>5. StartsExplained'
    BY DEF AloneInv, ManagerTypeOK, CarriedIsChecked, OneManager, FileExplains,
       InstallersExplained, RequestsExplained, StartsExplained, ApplyWrites, Serving
  <1> QED BY <1>1, <1>2, <1>3, <1>4, <1>5 DEF AloneInv

\* The installer of the pending target is launched: the file still explains the disk.
LEMMA AloneApplyLaunches ==
  ASSUME ManagerTypeOK, CarriedIsChecked, AloneInv, NEW p \in Procs, NEW r \in Requests, ApplyLaunches(p, r), Alone'
  PROVE  AloneInv'
  <1>1. OneManager'
    BY DEF AloneInv, ManagerTypeOK, CarriedIsChecked, OneManager, ApplyLaunches, Serving
  <1>2. FileExplains'
    BY DEF AloneInv, ManagerTypeOK, CarriedIsChecked, OneManager, FileExplains,
       InstallersExplained, RequestsExplained, StartsExplained, ApplyLaunches, Serving, Present,
       NoRequest
  <1>3. InstallersExplained'
    BY DEF AloneInv, ManagerTypeOK, CarriedIsChecked, OneManager, FileExplains,
       InstallersExplained, RequestsExplained, StartsExplained, ApplyLaunches, Serving, Present
  <1>4. RequestsExplained'
    BY DEF AloneInv, ManagerTypeOK, CarriedIsChecked, OneManager, FileExplains,
       InstallersExplained, RequestsExplained, StartsExplained, ApplyLaunches, Serving, Present,
       NoRequest
  <1>5. StartsExplained'
    BY DEF AloneInv, ManagerTypeOK, CarriedIsChecked, OneManager, FileExplains,
       InstallersExplained, RequestsExplained, StartsExplained, ApplyLaunches, Serving, Present
  <1> QED BY <1>1, <1>2, <1>3, <1>4, <1>5 DEF AloneInv

\* A request that fails leaves the file as it is: the file still explains the disk.
LEMMA AloneApplyFault ==
  ASSUME ManagerTypeOK, CarriedIsChecked, AloneInv, NEW p \in Procs, NEW r \in Requests, ApplyFault(p, r), Alone'
  PROVE  AloneInv'
  <1>1. OneManager'
    BY DEF AloneInv, ManagerTypeOK, CarriedIsChecked, OneManager, ApplyFault,
       ManagerFault, Serving
  <1>2. FileExplains'
    BY DEF AloneInv, ManagerTypeOK, CarriedIsChecked, OneManager, FileExplains,
       InstallersExplained, RequestsExplained, StartsExplained, ApplyFault, ManagerFault, Serving,
       Present, NoRequest
  <1>3. InstallersExplained'
    BY DEF AloneInv, ManagerTypeOK, CarriedIsChecked, OneManager, FileExplains,
       InstallersExplained, RequestsExplained, StartsExplained, ApplyFault, ManagerFault, Serving,
       Present
  <1>4. RequestsExplained'
    BY DEF AloneInv, ManagerTypeOK, CarriedIsChecked, OneManager, FileExplains,
       InstallersExplained, RequestsExplained, StartsExplained, ApplyFault, ManagerFault, Serving,
       Present, NoRequest
  <1>5. StartsExplained'
    BY DEF AloneInv, ManagerTypeOK, CarriedIsChecked, OneManager, FileExplains,
       InstallersExplained, RequestsExplained, StartsExplained, ApplyFault, ManagerFault, Serving,
       Present
  <1> QED BY <1>1, <1>2, <1>3, <1>4, <1>5 DEF AloneInv

\* An installer writes the image on disk and starts it: the file still explains the disk.
LEMMA AloneInstallerSucceeds ==
  ASSUME ManagerTypeOK, CarriedIsChecked, AloneInv, NEW i \in launched, InstallerSucceeds(i), Alone'
  PROVE  AloneInv'
  <1>1. OneManager'
    <2>1. \A q \in Procs : procs[q].pc = "off"
      BY DEF InstallerSucceeds, Up
    <2>2. PICK p \in Procs : procs' = [procs EXCEPT ![p] = [NotUp EXCEPT !.pc = "starting", !.ver = i.ver]]
      BY DEF InstallerSucceeds
    <2>3. \A q \in Procs : q # p => procs'[q].pc = "off"
      BY <2>1, <2>2 DEF ManagerTypeOK
    <2>4. \A r \in Requests : requests[r].pc = "idle"
      BY <2>1 DEF AloneInv, OneManager
    <2> QED BY <2>3, <2>4 DEF OneManager, InstallerSucceeds
  <1>2. FileExplains'
    BY DEF AloneInv, ManagerTypeOK, CarriedIsChecked, OneManager, FileExplains,
       InstallersExplained, RequestsExplained, StartsExplained, InstallerSucceeds, Present, NotUp
  <1>3. InstallersExplained'
    BY DEF AloneInv, InstallersExplained, InstallerSucceeds
  <1>4. RequestsExplained'
    BY DEF AloneInv, ManagerTypeOK, CarriedIsChecked, OneManager, FileExplains,
       InstallersExplained, RequestsExplained, StartsExplained, InstallerSucceeds, Present
  <1>5. StartsExplained'
    BY DEF AloneInv, ManagerTypeOK, CarriedIsChecked, OneManager, FileExplains,
       InstallersExplained, RequestsExplained, StartsExplained, InstallerSucceeds, Present
  <1> QED BY <1>1, <1>2, <1>3, <1>4, <1>5 DEF AloneInv

\* An installer that gives up leaves the image: the file still explains the disk.
LEMMA AloneInstallerFails ==
  ASSUME ManagerTypeOK, CarriedIsChecked, AloneInv, NEW i \in launched, InstallerFails(i), Alone'
  PROVE  AloneInv'
  <1>1. OneManager'
    BY DEF AloneInv, ManagerTypeOK, CarriedIsChecked, OneManager, InstallerFails
  <1>2. FileExplains'
    BY DEF AloneInv, ManagerTypeOK, CarriedIsChecked, OneManager, FileExplains,
       InstallersExplained, RequestsExplained, StartsExplained, InstallerFails, ManagerFault
  <1>3. InstallersExplained'
    BY DEF AloneInv, ManagerTypeOK, CarriedIsChecked, OneManager, FileExplains,
       InstallersExplained, RequestsExplained, StartsExplained, InstallerFails
  <1>4. RequestsExplained'
    BY DEF AloneInv, ManagerTypeOK, CarriedIsChecked, OneManager, FileExplains,
       InstallersExplained, RequestsExplained, StartsExplained, InstallerFails
  <1>5. StartsExplained'
    BY DEF AloneInv, ManagerTypeOK, CarriedIsChecked, OneManager, FileExplains,
       InstallersExplained, RequestsExplained, StartsExplained, InstallerFails, Present
  <1> QED BY <1>1, <1>2, <1>3, <1>4, <1>5 DEF AloneInv

\* The first state: nothing pending, one image on disk.
LEMMA UpdateInit ==
  ManagerInit => UpdateIInv
  <1> SUFFICES ASSUME ManagerInit PROVE UpdateIInv
    OBVIOUS
  <1>1. ManagerTypeOK
    <2>1. 1 \in Version
      BY UpdateBounds DEF Version
    <2> QED BY <2>1, NothingTyped DEF ManagerInit, ManagerTypeOK, Disturbances
  <1>2. CarriedIsChecked
    BY DEF ManagerInit, CarriedIsChecked, NotUp, NoRequest
  <1>3. AloneInv
    BY DEF ManagerInit, AloneInv, OneManager, FileExplains, InstallersExplained,
       RequestsExplained, StartsExplained, NotUp, NoRequest, Present
  <1> QED BY <1>1, <1>2, <1>3 DEF UpdateIInv

\* The part that holds whatever the disturbances.
LEMMA UpdateTyped ==
  ASSUME ManagerTypeOK, CarriedIsChecked, ManagerNext
  PROVE  ManagerTypeOK' /\ CarriedIsChecked'
  <1>1. CASE Publish
    BY <1>1, TypedPublish
  <1>2. CASE \E p \in Procs : StartManager(p)
    BY <1>2, TypedStartManager
  <1>3. CASE \E p \in Procs : RecordTargetStartupReads(p)
    BY <1>3, TypedRecordTargetStartupReads
  <1>4. CASE \E p \in Procs : RecordTargetStartupWrites(p)
    BY <1>4, TypedRecordTargetStartupWrites
  <1>5. CASE \E p \in Procs : BeginRollback(p)
    BY <1>5, TypedBeginRollback
  <1>6. CASE \E p \in Procs : LaunchKept(p)
    BY <1>6, TypedLaunchKept
  <1>7. CASE \E p \in Procs : Bind(p)
    BY <1>7, TypedBind
  <1>8. CASE \E p \in Procs : StartupFault(p)
    BY <1>8, TypedStartupFault
  <1>9. CASE \E p \in Procs : MarkManagerHealthy(p)
    BY <1>9, TypedMarkManagerHealthy
  <1>10. CASE \E p \in Procs : ManagerCrashes(p)
    BY <1>10, TypedManagerCrashes
  <1>11. CASE \E p \in Procs : StopManager(p)
    BY <1>11, TypedStopManager
  <1>12. CASE \E p \in Procs, r \in Requests : RefreshAsks(p, r)
    BY <1>12, TypedRefreshAsks
  <1>13. CASE \E p \in Procs, r \in Requests : DownloadAsks(p, r)
    BY <1>13, TypedDownloadAsks
  <1>14. CASE \E p \in Procs, r \in Requests : ApplyAsks(p, r)
    BY <1>14, TypedApplyAsks
  <1>15. CASE \E p \in Procs, r \in Requests : RefreshStores(p, r)
    BY <1>15, TypedRefreshStores
  <1>16. CASE \E p \in Procs, r \in Requests : DownloadEnds(p, r)
    BY <1>16, TypedDownloadEnds
  <1>17. CASE \E p \in Procs, r \in Requests : ApplyChecks(p, r)
    BY <1>17, TypedApplyChecks
  <1>18. CASE \E p \in Procs, r \in Requests : ApplyWrites(p, r)
    BY <1>18, TypedApplyWrites
  <1>19. CASE \E p \in Procs, r \in Requests : ApplyLaunches(p, r)
    BY <1>19, TypedApplyLaunches
  <1>20. CASE \E p \in Procs, r \in Requests : ApplyFault(p, r)
    BY <1>20, TypedApplyFault
  <1>21. CASE \E i \in launched : InstallerSucceeds(i)
    BY <1>21, TypedInstallerSucceeds
  <1>22. CASE \E i \in launched : InstallerFails(i)
    BY <1>22, TypedInstallerFails
  <1> QED BY <1>1, <1>2, <1>3, <1>4, <1>5, <1>6, <1>7, <1>8, <1>9, <1>10, <1>11, <1>12, <1>13,
     <1>14, <1>15, <1>16, <1>17, <1>18, <1>19, <1>20, <1>21, <1>22 DEF ManagerNext, Startup,
     RequestSteps

\* A step spends one occurrence of some of the disturbances, or none.
LEMMA SpendingSteps ==
  ASSUME ManagerNext
  PROVE  spent' = spent \/ \E kinds \in SUBSET Disturbances : Spend(kinds)
  <1> DEFINE Kept == spent' = spent \/ \E kinds \in SUBSET Disturbances : Spend(kinds)
  <1>1. Publish => Kept
    BY DEF Publish
  <1>2. \A p \in Procs : StartManager(p) \/ StartupFault(p) \/ ManagerCrashes(p) => Kept
    BY DEF StartManager, StartupFault, ManagerCrashes, ManagerFault, Disturbances
  <1>3. \A p \in Procs : StopManager(p) \/ MarkManagerHealthy(p) => Kept
    BY DEF StopManager, MarkManagerHealthy, ManagerFault, Disturbances
  <1>4. \A p \in Procs : RecordTargetStartupReads(p) \/ RecordTargetStartupWrites(p) \/ BeginRollback(p) => Kept
    BY DEF RecordTargetStartupReads, RecordTargetStartupWrites, BeginRollback, ManagerFault,
       Disturbances
  <1>5. \A p \in Procs : LaunchKept(p) \/ Bind(p) => Kept
    BY DEF LaunchKept, Bind, ManagerFault, Disturbances
  <1>6. \A p \in Procs, r \in Requests : RefreshAsks(p, r) \/ DownloadAsks(p, r) \/ ApplyAsks(p, r) => Kept
    BY DEF RefreshAsks, DownloadAsks, ApplyAsks, ManagerFault, Disturbances
  <1>7. \A p \in Procs, r \in Requests : RefreshStores(p, r) \/ DownloadEnds(p, r) \/ ApplyChecks(p, r) => Kept
    <2>1. Overtaking \subseteq Disturbances
      BY DEF Overtaking, Disturbances
    <2> QED BY <2>1 DEF RefreshStores, DownloadEnds, ApplyChecks
  <1>8. \A p \in Procs, r \in Requests : ApplyWrites(p, r) \/ ApplyLaunches(p, r) \/ ApplyFault(p, r) => Kept
    BY DEF ApplyWrites, ApplyLaunches, ApplyFault, ManagerFault, Disturbances
  <1>9. \A i \in launched : InstallerSucceeds(i) \/ InstallerFails(i) => Kept
    BY DEF InstallerSucceeds, InstallerFails, ManagerFault, Disturbances
  <1> HIDE DEF Kept
  <1>10. Kept
    BY <1>1, <1>2, <1>3, <1>4, <1>5, <1>6, <1>7, <1>8, <1>9 DEF ManagerNext, Startup, RequestSteps
  <1> QED BY <1>10 DEF Kept

\* That no Manager was started beside another, and that no Apply overtook another, are facts
\* of the whole past.
LEMMA AloneStays ==
  ASSUME ManagerTypeOK, ManagerNext, Alone'
  PROVE  Alone
  <1>1. spent' = spent \/ \E kinds \in SUBSET Disturbances : Spend(kinds)
    BY SpendingSteps
  <1>2. CASE \E kinds \in SUBSET Disturbances : Spend(kinds)
    BY <1>2, SpendTyped DEF ManagerTypeOK, Alone, Disturbances
  <1> QED BY <1>1, <1>2 DEF Alone

\* The part that holds as long as no Manager is started beside another and no Apply overtakes
\* another.
LEMMA AloneStep ==
  ASSUME ManagerTypeOK, CarriedIsChecked, AloneInv, ManagerNext, Alone'
  PROVE  AloneInv'
  <1>1. CASE Publish
    BY <1>1, AlonePublish
  <1>2. CASE \E p \in Procs : StartManager(p)
    BY <1>2, AloneStartManager
  <1>3. CASE \E p \in Procs : RecordTargetStartupReads(p)
    BY <1>3, AloneRecordTargetStartupReads
  <1>4. CASE \E p \in Procs : RecordTargetStartupWrites(p)
    BY <1>4, AloneRecordTargetStartupWrites
  <1>5. CASE \E p \in Procs : BeginRollback(p)
    BY <1>5, AloneBeginRollback
  <1>6. CASE \E p \in Procs : LaunchKept(p)
    BY <1>6, AloneLaunchKept
  <1>7. CASE \E p \in Procs : Bind(p)
    BY <1>7, AloneBind
  <1>8. CASE \E p \in Procs : StartupFault(p)
    BY <1>8, AloneStartupFault
  <1>9. CASE \E p \in Procs : MarkManagerHealthy(p)
    BY <1>9, AloneMarkManagerHealthy
  <1>10. CASE \E p \in Procs : ManagerCrashes(p)
    BY <1>10, AloneManagerCrashes
  <1>11. CASE \E p \in Procs : StopManager(p)
    BY <1>11, AloneStopManager
  <1>12. CASE \E p \in Procs, r \in Requests : RefreshAsks(p, r)
    BY <1>12, AloneRefreshAsks
  <1>13. CASE \E p \in Procs, r \in Requests : DownloadAsks(p, r)
    BY <1>13, AloneDownloadAsks
  <1>14. CASE \E p \in Procs, r \in Requests : ApplyAsks(p, r)
    BY <1>14, AloneApplyAsks
  <1>15. CASE \E p \in Procs, r \in Requests : RefreshStores(p, r)
    BY <1>15, AloneRefreshStores
  <1>16. CASE \E p \in Procs, r \in Requests : DownloadEnds(p, r)
    BY <1>16, AloneDownloadEnds
  <1>17. CASE \E p \in Procs, r \in Requests : ApplyChecks(p, r)
    BY <1>17, AloneApplyChecks
  <1>18. CASE \E p \in Procs, r \in Requests : ApplyWrites(p, r)
    BY <1>18, AloneApplyWrites
  <1>19. CASE \E p \in Procs, r \in Requests : ApplyLaunches(p, r)
    BY <1>19, AloneApplyLaunches
  <1>20. CASE \E p \in Procs, r \in Requests : ApplyFault(p, r)
    BY <1>20, AloneApplyFault
  <1>21. CASE \E i \in launched : InstallerSucceeds(i)
    BY <1>21, AloneInstallerSucceeds
  <1>22. CASE \E i \in launched : InstallerFails(i)
    BY <1>22, AloneInstallerFails
  <1> QED BY <1>1, <1>2, <1>3, <1>4, <1>5, <1>6, <1>7, <1>8, <1>9, <1>10, <1>11, <1>12, <1>13,
     <1>14, <1>15, <1>16, <1>17, <1>18, <1>19, <1>20, <1>21, <1>22 DEF ManagerNext, Startup,
     RequestSteps

\* Every step, and stuttering.
LEMMA UpdateStep ==
  ASSUME UpdateIInv, [ManagerNext]_managerVars
  PROVE  UpdateIInv'
  <1>1. CASE ManagerNext
    <2>1. ManagerTypeOK' /\ CarriedIsChecked'
      BY <1>1, UpdateTyped DEF UpdateIInv
    <2>2. ASSUME Alone' PROVE AloneInv'
      BY <1>1, <2>2, AloneStays, AloneStep DEF UpdateIInv
    <2> QED BY <2>1, <2>2 DEF UpdateIInv
  <1>2. CASE UNCHANGED managerVars
    BY <1>2 DEF managerVars, UpdateIInv, ManagerTypeOK, CarriedIsChecked, Alone, AloneInv,
       OneManager, FileExplains, InstallersExplained, RequestsExplained, StartsExplained, Present
  <1> QED BY <1>1, <1>2

\* managerupdate: a pending file explains the image on disk, for any versions, any number of
\* processes and of requests in flight and any budget of crashes and faults, until a Manager is
\* started beside another or an Apply passes Prepare's check before another one that passed it
\* has written the file.
THEOREM PendingIsExplained == ManagerSpec => []UpdateInv
  <1>1. UpdateIInv => UpdateInv
    BY DEF UpdateIInv, UpdateInv, PendingExplainsDisk, AloneInv, FileExplains
  <1>2. UpdateIInv /\ [ManagerNext]_managerVars => UpdateIInv'
    BY UpdateStep
  <1> QED BY <1>1, <1>2, UpdateInit, PTL DEF ManagerSpec

\* Only an installer writes the image.
LEMMA DiskSteps ==
  ASSUME ManagerNext
  PROVE  disk' = disk \/ \E i \in launched : InstallerSucceeds(i)
  <1> DEFINE Kept == disk' = disk
  <1>1. Publish => Kept
    BY DEF Publish
  <1>2. \A p \in Procs : StartManager(p) \/ StartupFault(p) \/ ManagerCrashes(p) => Kept
    BY DEF StartManager, StartupFault, ManagerCrashes
  <1>3. \A p \in Procs : StopManager(p) \/ MarkManagerHealthy(p) => Kept
    BY DEF StopManager, MarkManagerHealthy
  <1>4. \A p \in Procs : RecordTargetStartupReads(p) \/ RecordTargetStartupWrites(p) \/ BeginRollback(p) => Kept
    BY DEF RecordTargetStartupReads, RecordTargetStartupWrites, BeginRollback
  <1>5. \A p \in Procs : LaunchKept(p) \/ Bind(p) => Kept
    BY DEF LaunchKept, Bind
  <1>6. \A p \in Procs, r \in Requests : RefreshAsks(p, r) \/ DownloadAsks(p, r) \/ ApplyAsks(p, r) => Kept
    BY DEF RefreshAsks, DownloadAsks, ApplyAsks
  <1>7. \A p \in Procs, r \in Requests : RefreshStores(p, r) \/ DownloadEnds(p, r) \/ ApplyChecks(p, r) => Kept
    BY DEF RefreshStores, DownloadEnds, ApplyChecks
  <1>8. \A p \in Procs, r \in Requests : ApplyWrites(p, r) \/ ApplyLaunches(p, r) \/ ApplyFault(p, r) => Kept
    BY DEF ApplyWrites, ApplyLaunches, ApplyFault
  <1>9. \A i \in launched : InstallerFails(i) => Kept
    BY DEF InstallerFails
  <1> HIDE DEF Kept
  <1>10. Kept \/ (\E i \in launched : InstallerSucceeds(i))
    BY <1>1, <1>2, <1>3, <1>4, <1>5, <1>6, <1>7, <1>8, <1>9 DEF ManagerNext, Startup, RequestSteps
  <1> QED BY <1>10 DEF Kept

\* Only the installer of a pending rollback writes an older image.
LEMMA DowngradeStep ==
  ASSUME CarriedIsChecked, AloneInv, ManagerTypeOK, ManagerNext, disk' < disk
  PROVE  pendingFile.phase = "rollback" /\ disk' = pendingFile.prev
  <1>1. PICK i \in launched : InstallerSucceeds(i)
    <2>1. disk \in Nat
      BY DEF ManagerTypeOK, Version
    <2>2. disk' # disk
      BY <2>1
    <2> QED BY <2>2, DiskSteps
  <1>2. disk' = i.ver
    BY <1>1 DEF InstallerSucceeds
  <1>3. CASE pendingFile.phase = "installing" /\ i.ver = pendingFile.target /\ disk = pendingFile.prev
    BY <1>2, <1>3 DEF AloneInv, InstallersExplained, FileExplains, Version
  <1>4. CASE pendingFile.phase = "rollback" /\ i.ver = pendingFile.prev
    BY <1>2, <1>4
  <1> QED BY <1>3, <1>4 DEF AloneInv, InstallersExplained

\* The steps that write or remove the pending file.
LEMMA PendingSteps ==
  ASSUME ManagerNext
  PROVE  pendingFile' = pendingFile \/ (\E p \in Procs : RecordTargetStartupReads(p) \/ RecordTargetStartupWrites(p) \/ BeginRollback(p) \/ MarkManagerHealthy(p)) \/ (\E p \in Procs, r \in Requests : ApplyWrites(p, r))
  <1> DEFINE Kept == pendingFile' = pendingFile
  <1>1. Publish => Kept
    BY DEF Publish
  <1>2. \A p \in Procs : StartManager(p) \/ StartupFault(p) \/ ManagerCrashes(p) => Kept
    BY DEF StartManager, StartupFault, ManagerCrashes, EndsManager
  <1>3. \A p \in Procs : StopManager(p) => Kept
    BY DEF StopManager, EndsManager
  <1>4. \A p \in Procs : LaunchKept(p) \/ Bind(p) => Kept
    BY DEF LaunchKept, Bind, EndsManager
  <1>5. \A p \in Procs, r \in Requests : RefreshAsks(p, r) \/ DownloadAsks(p, r) \/ ApplyAsks(p, r) => Kept
    BY DEF RefreshAsks, DownloadAsks, ApplyAsks, EndsManager
  <1>6. \A p \in Procs, r \in Requests : RefreshStores(p, r) \/ DownloadEnds(p, r) \/ ApplyChecks(p, r) => Kept
    BY DEF RefreshStores, DownloadEnds, ApplyChecks, EndsManager
  <1>7. \A p \in Procs, r \in Requests : ApplyLaunches(p, r) \/ ApplyFault(p, r) => Kept
    BY DEF ApplyLaunches, ApplyFault, EndsManager
  <1>8. \A i \in launched : InstallerSucceeds(i) \/ InstallerFails(i) => Kept
    BY DEF InstallerSucceeds, InstallerFails, EndsManager
  <1> HIDE DEF Kept
  <1>9. Kept \/ (\E p \in Procs : RecordTargetStartupReads(p) \/ RecordTargetStartupWrites(p) \/ BeginRollback(p) \/ MarkManagerHealthy(p)) \/ (\E p \in Procs, r \in Requests : ApplyWrites(p, r))
    BY <1>1, <1>2, <1>3, <1>4, <1>5, <1>6, <1>7, <1>8 DEF ManagerNext, Startup, RequestSteps
  <1> QED BY <1>9 DEF Kept

\* Only the target itself, running, ends its update as a success.
LEMMA HealthStep ==
  ASSUME ManagerTypeOK, CarriedIsChecked, ManagerNext,
         pendingFile.phase = "installing", pendingFile' = NoPending
  PROVE  disk = pendingFile.target
  <1>1. pendingFile' # pendingFile
    BY DEF NoPending
  <1>2. \/ \E p \in Procs : \/ RecordTargetStartupReads(p) \/ RecordTargetStartupWrites(p)
                            \/ BeginRollback(p) \/ MarkManagerHealthy(p)
        \/ \E p \in Procs, r \in Requests : ApplyWrites(p, r)
    BY <1>1, PendingSteps
  <1>3. ASSUME NEW p \in Procs, MarkManagerHealthy(p)
        PROVE  disk = pendingFile.target
    <2>1. TargetStarted(p)
      BY <1>1, <1>3 DEF MarkManagerHealthy
    <2>2. procs[p].pc # "off"
      BY <1>3 DEF MarkManagerHealthy, CarriedIsChecked
    <2> QED BY <2>1, <2>2 DEF TargetStarted, CarriedIsChecked
  <1>4. ASSUME NEW p \in Procs PROVE ~RecordTargetStartupReads(p)
    BY <1>1 DEF RecordTargetStartupReads, RollbackConfirmed
  <1>5. ASSUME NEW p \in Procs PROVE ~RecordTargetStartupWrites(p)
    BY DEF RecordTargetStartupWrites, WritePending, CarriedIsChecked, NoPending
  <1>6. ASSUME NEW p \in Procs PROVE ~BeginRollback(p)
    BY <1>1 DEF BeginRollback, WritePending, NoPending
  <1>7. ASSUME NEW p \in Procs, NEW r \in Requests PROVE ~ApplyWrites(p, r)
    BY DEF ApplyWrites, WritePending, NoPending
  <1> QED BY <1>2, <1>3, <1>4, <1>5, <1>6, <1>7

\* managerupdate: an image is only replaced by an older one in a pending rollback, until a Manager
\* is started beside another or an Apply overtakes another; and a pending update is only removed as
\* healthy by the target running on disk, whatever happened before.
THEOREM UpdatesConclude == ManagerSpec => ConclusionsAreEarned
  <1>1. ASSUME UpdateIInv, UpdateIInv', [ManagerNext]_managerVars
        PROVE  [Alone /\ disk' < disk => pendingFile.phase = "rollback" /\ disk' = pendingFile.prev]_managerVars
    BY <1>1, DowngradeStep DEF UpdateIInv
  <1>2. ASSUME UpdateIInv, [ManagerNext]_managerVars
        PROVE  [pendingFile.phase = "installing" /\ pendingFile' = NoPending => disk = pendingFile.target]_managerVars
    BY <1>2, HealthStep DEF UpdateIInv
  <1>3. UpdateIInv /\ [ManagerNext]_managerVars => UpdateIInv'
    BY UpdateStep
  <1> QED BY <1>1, <1>2, <1>3, UpdateInit, PTL
          DEF ManagerSpec, ConclusionsAreEarned, DowngradeIsRollback, HealthOfTheInstalled

=============================================================================
