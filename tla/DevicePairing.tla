---------------------------- MODULE DevicePairing ----------------------------
(***************************************************************************)
(* The life of a device row in the Cloud API on PostgreSQL: registration,  *)
(* the one-time pairing code, binding to an account, the policy writes of  *)
(* the console, credential rotation and self revocation.                   *)
(*                                                                         *)
(* A request is a sequence of SQL statements; every statement of the pool  *)
(* is one step and so is every stretch of a transaction between two waits  *)
(* for a row lock.  Authentication starts, without awaiting it, a second   *)
(* update of the same row (last_seen_at), which runs beside the request    *)
(* and may outlive it.                                                     *)
(***************************************************************************)
EXTENDS Integers, FiniteSets

CONSTANTS Ids,         \* device rows the pool may hold
          Prints,      \* device fingerprints
          Users,       \* accounts of the portal
          Groups,      \* values of the console's policy columns
          Reqs,        \* HTTP requests
          Mixes,       \* bound: the sets of operations that requests ask for together
          Preset,      \* rows registered before the run starts
          MaxTokens,   \* bound: credentials ever issued
          MaxCodes,    \* bound: pairing codes ever minted
          Nil          \* NULL

Ops == {"register", "challenge", "pair", "revoke", "admin", "rotate"}

ASSUME DeviceAssumption ==
       /\ Preset \subseteq Ids /\ IsFiniteSet(Preset) /\ Cardinality(Preset) <= MaxTokens
       /\ Mixes \subseteq SUBSET Ops
       /\ MaxTokens \in Nat /\ MaxCodes \in Nat
       /\ Nil \notin Ids \cup Prints \cup Users \cup Groups \cup Reqs

\* Codes are random and never minted twice: they are numbered in the order of minting.
Codes == 1..MaxCodes

VARIABLES device,     \* the table device
          challenge,  \* the table device_pairing_challenge, by code
          rowLock,    \* FOR UPDATE lock of a device row, or Nil
          codeLock,   \* FOR UPDATE lock of a challenge row, or Nil
          req,        \* every request and what it has read so far
          touch,      \* the unawaited update each authentication started
          tokens,     \* number of credentials issued
          retired,    \* credentials that a rotation replaced
          loggedOut   \* rows whose self revocation was answered and that no
                      \* administrator has activated again

vars == <<device, challenge, rowLock, codeLock, req, touch, tokens, retired, loggedOut>>

-----------------------------------------------------------------------------

NoRow == [status |-> "none", print |-> Nil, user |-> Nil, token |-> 0, group |-> Nil]
NewRow(f, t) == [NoRow EXCEPT !.status = "active", !.print = f, !.token = t]

\* What updateDeviceOperations reads before it writes every column back.
Snapshot(d) == [status |-> device[d].status, group |-> device[d].group, token |-> device[d].token,
                user |-> device[d].user]
NoSnapshot == [status |-> "none", group |-> Nil, token |-> 0, user |-> Nil]

Idle == [op |-> "none", pc |-> "idle", dev |-> Nil, token |-> 0, code |-> 0, user |-> Nil,
         print |-> Nil, patch |-> NoSnapshot, seen |-> NoSnapshot, late |-> FALSE, out |-> "none"]

Init ==
  /\ device \in [Ids -> {NoRow} \cup {NewRow(f, t) : f \in Prints, t \in 1..MaxTokens}]
  /\ {d \in Ids : device[d] # NoRow} = Preset
  /\ {device[d].token : d \in Preset} = 1..Cardinality(Preset)
  /\ \A d, e \in Preset : d # e => device[d].print # device[e].print /\ device[d].token # device[e].token
  /\ challenge = [c \in Codes |-> [state |-> "unminted", of |-> Nil, late |-> FALSE]]
  /\ rowLock = [d \in Ids |-> Nil]
  /\ codeLock = [c \in Codes |-> Nil]
  /\ req = [p \in Reqs |-> Idle]
  /\ touch = [p \in Reqs |-> [pc |-> "none", dev |-> Nil, seen |-> NoSnapshot]]
  /\ tokens = Cardinality(Preset)
  /\ retired = {}
  /\ loggedOut = {}

-----------------------------------------------------------------------------
\* Requests

At(p, where) == req[p].pc = where
Go(p, where) == req' = [req EXCEPT ![p].pc = where]

\* The request is answered and forgets what it read.
Answered(r, what) == [r EXCEPT !.pc = "done", !.out = what, !.patch = NoSnapshot, !.seen = NoSnapshot, !.late = FALSE]
Answer(p, what) == req' = [req EXCEPT ![p] = Answered(@, what)]

\* The device rows that hold fingerprint f as active rows: at most one, by the
\* partial unique index idx_device_active_fingerprint.
ActiveWith(f) == {d \in Ids : device[d].status = "active" /\ device[d].print = f}

\* The operations asked for so far, and the ones that go with them.
Asked == {req[p].op : p \in Reqs} \ {"none"}
Askable == UNION {m \in Mixes : Asked \subseteq m}

\* Row ids are random: which free one a registration takes does not matter.
FreeRow == {d \in Ids : device[d] = NoRow /\ d = CHOOSE e \in Ids : device[e] = NoRow}

\* A request reaches the API with the inputs of its operation.  A pairing request
\* reads the clock here, before it waits for any lock.
Arrive(p) ==
  /\ At(p, "idle")
  /\ \E op \in Askable :
       \/ /\ op = "register"
          /\ \E f \in Prints : req' = [req EXCEPT ![p] = [Idle EXCEPT !.op = op, !.pc = "lookup", !.print = f]]
       \/ /\ op \in {"challenge", "revoke"}
          /\ \E t \in 1..tokens : req' = [req EXCEPT ![p] = [Idle EXCEPT !.op = op, !.pc = "auth", !.token = t]]
       \/ /\ op = "pair"
          /\ \E c \in Codes, u \in Users :
               /\ challenge[c].state # "unminted"
               /\ req' = [req EXCEPT ![p] = [Idle EXCEPT !.op = op, !.pc = "take_code", !.code = c, !.user = u,
                                                         !.late = challenge[c].late]]
       \/ /\ op = "admin"
          /\ \E d \in Ids, s \in {"active", "revoked", "none"}, g \in Groups \cup {Nil} :
               req' = [req EXCEPT ![p] = [Idle EXCEPT !.op = op, !.pc = "read", !.dev = d,
                                                      !.patch.status = s, !.patch.group = g]]
       \/ /\ op = "rotate"
          /\ \E d \in Ids : req' = [req EXCEPT ![p] = [Idle EXCEPT !.op = op, !.pc = "read", !.dev = d]]
  /\ UNCHANGED <<device, challenge, rowLock, codeLock, touch, tokens, retired, loggedOut>>

-----------------------------------------------------------------------------
\* registerDevice

Lookup(p) ==
  /\ At(p, "lookup")
  /\ IF ActiveWith(req[p].print) # {} THEN Answer(p, "exists") ELSE Go(p, "insert")
  /\ UNCHANGED <<device, challenge, rowLock, codeLock, touch, tokens, retired, loggedOut>>

\* The insert: the index refuses a second active row (23505) and both ways the
\* handler can go from there end in 409, the existing credential never shown.
\* Bounds: no free row or no credential left, and the request stays where it is.
Insert(p) ==
  /\ At(p, "insert")
  /\ UNCHANGED <<challenge, rowLock, codeLock, touch, retired, loggedOut>>
  /\ \/ /\ ActiveWith(req[p].print) # {}
        /\ Answer(p, "exists")
        /\ UNCHANGED <<device, tokens>>
     \/ /\ ActiveWith(req[p].print) = {} /\ tokens < MaxTokens
        /\ \E d \in FreeRow :
             /\ device' = [device EXCEPT ![d] = NewRow(req[p].print, tokens + 1)]
             /\ req' = [req EXCEPT ![p].pc = "done", ![p].out = "registered", ![p].dev = d,
                                   ![p].token = tokens + 1]
             /\ tokens' = tokens + 1

-----------------------------------------------------------------------------
\* authenticateRegistered, and the update of last_seen_at it does not await

Owner(t) == {d \in Ids : device[d] # NoRow /\ device[d].token = t}

Authenticate(p) ==
  /\ At(p, "auth")
  /\ UNCHANGED <<device, challenge, rowLock, codeLock, tokens, retired, loggedOut>>
  /\ \/ /\ \A d \in Owner(req[p].token) : device[d].status # "active"
        /\ Answer(p, "unauthorized")
        /\ UNCHANGED touch
     \/ \E d \in Owner(req[p].token) :
          /\ device[d].status = "active"
          /\ touch' = [touch EXCEPT ![p] = [pc |-> "read", dev |-> d, seen |-> NoSnapshot]]
          /\ req' = [req EXCEPT ![p].dev = d,
                                ![p].pc = IF req[p].op = "revoke" THEN "read"
                                          ELSE IF device[d].user # Nil THEN "done" ELSE "lock_row",
                                ![p].out = IF req[p].op = "challenge" /\ device[d].user # Nil
                                           THEN "bound" ELSE "none",
                                ![p].patch.status = IF req[p].op = "revoke" THEN "revoked" ELSE "none"]

\* UPDATE device SET ... of updateDeviceOperations: every policy column comes from the
\* patch or else from the row as it was read; the credential only from the patch,
\* and the account not at all.
WriteBack(d, seen, patch) ==
  LET status == IF patch.status = "none" THEN seen.status ELSE patch.status
  IN  device' = [device EXCEPT ![d].status = status,
                               ![d].group = IF patch.group = Nil THEN seen.group ELSE patch.group,
                               ![d].token = IF patch.token = 0 THEN @ ELSE patch.token]

\* The index refuses to make a second row of one fingerprint active.
IndexRefuses(d, seen, patch) ==
  /\ (IF patch.status = "none" THEN seen.status ELSE patch.status) = "active"
  /\ ActiveWith(device[d].print) \ {d} # {}

TouchRead(p) ==
  /\ touch[p].pc = "read"
  /\ touch' = [touch EXCEPT ![p].pc = "write", ![p].seen = Snapshot(touch[p].dev)]
  /\ UNCHANGED <<device, challenge, rowLock, codeLock, req, tokens, retired, loggedOut>>

\* The error of a refused update is swallowed.
TouchWrite(p) ==
  /\ touch[p].pc = "write"
  /\ rowLock[touch[p].dev] = Nil
  /\ touch' = [touch EXCEPT ![p].pc = "none", ![p].dev = Nil, ![p].seen = NoSnapshot]
  /\ IF IndexRefuses(touch[p].dev, touch[p].seen, NoSnapshot)
     THEN UNCHANGED device
     ELSE WriteBack(touch[p].dev, touch[p].seen, NoSnapshot)
  /\ UNCHANGED <<challenge, rowLock, codeLock, req, tokens, retired, loggedOut>>

-----------------------------------------------------------------------------
\* Self revocation, the console's policy and the console's rotation: all three are
\* updateDeviceOperations, a read and a later write.

ReadRow(p) ==
  /\ At(p, "read")
  /\ IF device[req[p].dev] = NoRow
     THEN Answer(p, "not_found")
     ELSE req' = [req EXCEPT ![p].pc = "write", ![p].seen = Snapshot(req[p].dev)]
  /\ UNCHANGED <<device, challenge, rowLock, codeLock, touch, tokens, retired, loggedOut>>

WriteRow(p) ==
  LET d == req[p].dev
      issued == IF req[p].op = "rotate" THEN tokens + 1 ELSE 0
      patch == [req[p].patch EXCEPT !.token = issued]
  IN /\ At(p, "write")
     /\ rowLock[d] = Nil
     /\ issued <= MaxTokens
     /\ UNCHANGED <<challenge, rowLock, codeLock, touch>>
     /\ \/ /\ IndexRefuses(d, req[p].seen, patch)
           /\ Answer(p, "internal_error")
           /\ UNCHANGED <<device, tokens, retired, loggedOut>>
        \/ /\ ~IndexRefuses(d, req[p].seen, patch)
           /\ WriteBack(d, req[p].seen, patch)
           /\ Answer(p, "updated")
           /\ tokens' = IF issued = 0 THEN tokens ELSE issued
           /\ retired' = IF issued = 0 THEN retired ELSE retired \cup {device[d].token}
           /\ loggedOut' = IF req[p].op = "revoke" THEN loggedOut \cup {d}
                           ELSE IF req[p].op = "admin" /\ device'[d].status = "active"
                           THEN loggedOut \ {d} ELSE loggedOut

-----------------------------------------------------------------------------
\* createDevicePairingChallenge: lock the row, then replace its open code.

Open(d) == {c \in Codes : challenge[c].state = "open" /\ challenge[c].of = d}

\* Variant: the refused path leaves its transaction, and the lock, open.
LockRowForGood(p) ==
  /\ At(p, "lock_row")
  /\ rowLock[req[p].dev] = Nil
  /\ UNCHANGED <<device, challenge, codeLock, touch, tokens, retired, loggedOut>>
  /\ rowLock' = [rowLock EXCEPT ![req[p].dev] = p]
  /\ IF device[req[p].dev].status # "active" \/ device[req[p].dev].user # Nil
     THEN Answer(p, "bound") ELSE Go(p, "mint")

LockRow(p) ==
  /\ At(p, "lock_row")
  /\ rowLock[req[p].dev] = Nil
  /\ UNCHANGED <<device, challenge, codeLock, touch, tokens, retired, loggedOut>>
  /\ IF device[req[p].dev].status # "active" \/ device[req[p].dev].user # Nil
     THEN Answer(p, "bound") /\ UNCHANGED rowLock
     ELSE Go(p, "mint") /\ rowLock' = [rowLock EXCEPT ![req[p].dev] = p]

\* DELETE the unconsumed codes of the row, INSERT the new one.
Replaced(d, c) ==
  [x \in Codes |-> IF x = c THEN [state |-> "open", of |-> d, late |-> FALSE]
                   ELSE IF x \in Open(d) THEN [challenge[x] EXCEPT !.state = "deleted"]
                   ELSE challenge[x]]

\* The DELETE waits for a code that a pairing request holds.
Mint(p) ==
  LET d == req[p].dev
  IN /\ At(p, "mint")
     /\ \A c \in Open(d) : codeLock[c] = Nil
     /\ \E c \in Codes :
          /\ challenge[c].state = "unminted" /\ \A x \in 1..(c - 1) : challenge[x].state # "unminted"
          /\ challenge' = Replaced(d, c)
          /\ req' = [req EXCEPT ![p].pc = "done", ![p].out = "minted", ![p].code = c]
     /\ rowLock' = [rowLock EXCEPT ![d] = Nil]
     /\ UNCHANGED <<device, codeLock, touch, tokens, retired, loggedOut>>

-----------------------------------------------------------------------------
\* consumeDevicePairingChallenge: lock the code, then the row.

TakeCode(p) ==
  LET c == req[p].code
  IN /\ At(p, "take_code")
     /\ codeLock[c] = Nil
     /\ UNCHANGED <<device, rowLock, touch, tokens, retired, loggedOut>>
     /\ \/ /\ challenge[c].state # "open"
           /\ Answer(p, "code_invalid")
           /\ UNCHANGED <<challenge, codeLock>>
        \/ /\ challenge[c].state = "open" /\ req[p].late
           /\ challenge' = [challenge EXCEPT ![c].state = "deleted"]
           /\ Answer(p, "code_expired")
           /\ UNCHANGED codeLock
        \/ /\ challenge[c].state = "open" /\ ~req[p].late
           /\ codeLock' = [codeLock EXCEPT ![c] = p]
           /\ Go(p, "bind")
           /\ UNCHANGED challenge

MayBind(d) == device[d].status = "active" /\ device[d].user = Nil

\* Variant: the redeemed code stays open.
Unspent(d, c) == challenge

\* The code is spent and every other open code of the row goes with it.
Spent(d, c) ==
  [x \in Codes |-> IF x = c THEN [challenge[x] EXCEPT !.state = "consumed"]
                   ELSE IF x \in Open(d) THEN [challenge[x] EXCEPT !.state = "deleted"]
                   ELSE challenge[x]]

\* Every way out of the transaction gives the code back.
Bind(p) ==
  LET c == req[p].code
      d == challenge[c].of
  IN /\ At(p, "bind")
     /\ rowLock[d] = Nil
     /\ \A x \in Open(d) \ {c} : codeLock[x] = Nil
     /\ UNCHANGED <<rowLock, touch, tokens, retired, loggedOut>>
     /\ codeLock' = [codeLock EXCEPT ![c] = Nil]
     /\ \/ /\ MayBind(d)
           /\ device' = [device EXCEPT ![d].user = req[p].user]
           /\ challenge' = Spent(d, c)
           /\ req' = [req EXCEPT ![p].pc = "done", ![p].out = "paired", ![p].dev = d]
        \/ /\ ~MayBind(d)
           /\ Answer(p, IF device[d].status # "active" THEN "device_revoked" ELSE "bound")
           /\ UNCHANGED <<device, challenge>>

\* The pairing code's ten minutes are over.
Expire(c) ==
  /\ challenge[c].state = "open" /\ ~challenge[c].late
  /\ challenge' = [challenge EXCEPT ![c].late = TRUE]
  /\ UNCHANGED <<device, rowLock, codeLock, req, touch, tokens, retired, loggedOut>>

\* Reissuing locks row then code, redeeming locks code then row.  PostgreSQL finds
\* the cycle and rolls one of the two back; its request is answered with an error.
Deadlocked(p, q) ==
  /\ At(p, "mint") /\ At(q, "bind")
  /\ challenge[req[q].code].of = req[p].dev
  /\ req[q].code \in Open(req[p].dev)

Victim(p) ==
  /\ \E q \in Reqs : Deadlocked(p, q) \/ Deadlocked(q, p)
  /\ Answer(p, "unavailable")
  /\ rowLock' = [d \in Ids |-> IF rowLock[d] = p THEN Nil ELSE rowLock[d]]
  /\ codeLock' = [c \in Codes |-> IF codeLock[c] = p THEN Nil ELSE codeLock[c]]
  /\ UNCHANGED <<device, challenge, touch, tokens, retired, loggedOut>>

-----------------------------------------------------------------------------

Step(p) ==
  \/ Lookup(p) \/ Insert(p)
  \/ Authenticate(p) \/ TouchRead(p) \/ TouchWrite(p)
  \/ ReadRow(p) \/ WriteRow(p)
  \/ LockRow(p) \/ Mint(p)
  \/ TakeCode(p) \/ Bind(p) \/ Victim(p)

Next == \/ \E p \in Reqs : Arrive(p) \/ Step(p)
        \/ \E c \in Codes : Expire(c)

Spec == Init /\ [][Next]_vars

\* A statement that can run is eventually run, the deadlock detector included.
FairSpec == Spec /\ \A p \in Reqs : WF_vars(Step(p))

-----------------------------------------------------------------------------
\* Properties

Statuses == {"none", "active", "revoked"}
Snapshots == [status : Statuses, group : Groups \cup {Nil}, token : 0..MaxTokens, user : Users \cup {Nil}]

\* Types of the tables, the locks and the requests.
TypeOK ==
  /\ device \in [Ids -> [status : Statuses, print : Prints \cup {Nil}, user : Users \cup {Nil},
                         token : 0..MaxTokens, group : Groups \cup {Nil}]]
  /\ challenge \in [Codes -> [state : {"unminted", "open", "consumed", "deleted"},
                              of : Ids \cup {Nil}, late : BOOLEAN]]
  /\ rowLock \in [Ids -> Reqs \cup {Nil}]
  /\ codeLock \in [Codes -> Reqs \cup {Nil}]
  /\ \A p \in Reqs : /\ req[p].seen \in Snapshots /\ req[p].patch \in Snapshots
                     /\ req[p].dev \in Ids \cup {Nil} /\ req[p].code \in 0..MaxCodes
                     /\ touch[p] \in [pc : {"none", "read", "write"}, dev : Ids \cup {Nil}, seen : Snapshots]
  /\ tokens \in 0..MaxTokens
  /\ retired \subseteq 1..MaxTokens
  /\ loggedOut \subseteq Ids

\* A device has at most one redeemable code, whatever order reissuing and redeeming
\* run in: idx_device_pairing_active_device never has to refuse an insert.
OneOpenCode == \A d \in Ids : Cardinality(Open(d)) <= 1

\* A bound device has no redeemable code left: a code minted just before the
\* redemption of another cannot bind the device a second time.
BoundHasNoOpenCode == \A d \in Ids : device[d].user # Nil => Open(d) = {}

\* A code binds one device to one account, once: the account that was told
\* "paired" owns the device, and no two requests were told so of one code.
PairedMeansOwned ==
  \A p \in Reqs : req[p].out = "paired" =>
    /\ device[req[p].dev].user = req[p].user
    /\ \A q \in Reqs \ {p} : req[q].out = "paired" => req[q].code # req[p].code /\ req[q].dev # req[p].dev

\* The clear credential of a device is shown to one registering request only, and
\* a fingerprint that registers twice never learns the first one's.
CredentialShownOnce ==
  \A p, q \in Reqs : p # q /\ req[p].out = "registered" /\ req[q].out = "registered" =>
    req[p].token # req[q].token

\* A credential that was rotated away opens nothing again, although every request
\* of the device writes its row back from an older read.
RotatedStaysDead == \A d \in Ids : device[d].token \notin retired

\* Codes, owners, credentials and what the accounts were told agree, however
\* minting, redeeming, registering, rotating and the write-backs of columns that
\* other requests read before interleave.
PairingInv ==
  /\ TypeOK
  /\ OneOpenCode /\ BoundHasNoOpenCode /\ PairedMeansOwned
  /\ CredentialShownOnce /\ RotatedStaysDead

\* Every request is answered: what reissuing and redeeming hold of each other is
\* given back, on the refused paths too.
RequestsAnswered == \A p \in Reqs : (req[p].pc # "idle") ~> (req[p].pc = "done")

\* A device that revoked itself, and was told so, stays revoked until an
\* administrator activates it.
LogoutIsFinal == \A d \in loggedOut : device[d].status = "revoked"

=============================================================================
