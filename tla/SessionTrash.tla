----------------------------- MODULE SessionTrash -----------------------------
(***************************************************************************)
(* RecoverableSessionTrash of session-management.ts: OpenClaw has no       *)
(* recycle bin, so the client archives a session, remembers it in a file   *)
(* with a retention period, and calls the Gateway's delete only with a     *)
(* confirmation that was handed out after that period.  Every call of the  *)
(* Gateway is a step of its own; operations interleave, the user archives  *)
(* and restores sessions in OpenClaw's own page, calls and file writes     *)
(* fail, and the client restarts.                                          *)
(***************************************************************************)
EXTENDS Naturals, FiniteSets

CONSTANTS
  Sessions,     \* session keys of one agent
  Nonces,       \* confirmations that can be handed out
  TrashOps,     \* operations that may be under way at once
  TrashCalls,   \* bound on operations
  TrashFaults   \* bound on failed calls and writes

\* A confirmation is a random UUID, which no placeholder is.
ASSUME TrashAssumption == "none" \notin Nonces

VARIABLES
  gs,       \* gs[k]: the session as the Gateway keeps it
  recs,     \* recs[k]: the trash record in memory: none, kept or due for deletion
  tfile,    \* tfile[k]: the same in the file
  nonces,   \* nonces[n]: confirmations map
  top,      \* top[o]: an operation between two awaits
  matured,  \* keys whose retention had run out when a confirmation was asked for
  tcalls, tfaults

trashVars == <<gs, recs, tfile, nonces, top, matured, tcalls, tfaults>>

NoKey == "none"
NoNonce == [key |-> NoKey, st |-> "free"]
IdleOp == [kind |-> "none", key |-> NoKey, pc |-> "idle", nonce |-> NoKey]

\* The shapes of sessions, trash records and nonces.
TrashTypeOK ==
  /\ gs \in [Sessions -> {"live", "archived", "deleted"}]
  /\ recs \in [Sessions -> {"none", "kept", "due"}]
  /\ tfile \in [Sessions -> {"none", "kept", "due"}]
  /\ nonces \in [Nonces -> [key : Sessions \cup {NoKey}, st : {"free", "live", "expired", "gone"}]]
  /\ top \in [TrashOps -> [kind : {"none", "trash", "restore", "delete"}, key : Sessions \cup {NoKey},
                           pc : {"idle", "describe", "act", "commit"}, nonce : Nonces \cup {NoKey}]]
  /\ matured \subseteq Sessions

TrashInit ==
  /\ gs = [k \in Sessions |-> "live"]
  /\ recs = [k \in Sessions |-> "none"] /\ tfile = recs
  /\ nonces = [n \in Nonces |-> NoNonce]
  /\ top = [o \in TrashOps |-> IdleOp]
  /\ matured = {} /\ tcalls = 0 /\ tfaults = 0

Starts(o, kind, k, n) ==
  top' = [top EXCEPT ![o] = [kind |-> kind, key |-> k, pc |-> "describe", nonce |-> n]]

\* trash(): the session is described and archived before anything is recorded.
Trash(o, k) ==
  /\ top[o].pc = "idle" /\ tcalls < TrashCalls
  /\ tcalls' = tcalls + 1
  /\ Starts(o, "trash", k, NoKey)
  /\ UNCHANGED <<gs, recs, tfile, nonces, matured, tfaults>>

\* restore(): only what is in the trash.
RestoreSession(o, k) ==
  /\ top[o].pc = "idle" /\ tcalls < TrashCalls
  /\ recs[k] # "none"
  /\ tcalls' = tcalls + 1
  /\ Starts(o, "restore", k, NoKey)
  /\ UNCHANGED <<gs, recs, tfile, nonces, matured, tfaults>>

\* requestPermanentDelete(): a fresh confirmation once the retention has run out.
RequestPermanentDelete(k, n) ==
  /\ recs[k] = "due" /\ nonces[n].st = "free"
  /\ nonces' = [nonces EXCEPT ![n] = [key |-> k, st |-> "live"]]
  /\ matured' = matured \cup {k}
  /\ UNCHANGED <<gs, recs, tfile, top, tcalls, tfaults>>

\* permanentlyDelete(): the confirmation is used up whatever comes of it; the record
\* must still be there, but its retention is not looked at again.
PermanentlyDelete(o, k, n) ==
  /\ top[o].pc = "idle" /\ tcalls < TrashCalls /\ nonces[n].st \in {"live", "expired"}
  /\ tcalls' = tcalls + 1
  /\ nonces' = [nonces EXCEPT ![n].st = "gone"]
  /\ IF nonces[n] = [key |-> k, st |-> "live"] /\ recs[k] # "none"
       THEN Starts(o, "delete", k, n) ELSE UNCHANGED top
  /\ UNCHANGED <<gs, recs, tfile, matured, tfaults>>

\* describeOwned(): an unknown session ends the operation, and deleteArchived()
\* goes on only with an archived one.
Describe(o) ==
  LET k == top[o].key IN
  /\ top[o].pc = "describe"
  /\ top' = [top EXCEPT ![o] =
       IF gs[k] = "deleted" \/ (top[o].kind = "delete" /\ gs[k] # "archived")
         THEN IdleOp ELSE [@ EXCEPT !.pc = "act"]]
  /\ UNCHANGED <<gs, recs, tfile, nonces, matured, tcalls, tfaults>>

\* The Gateway's sessions.patch and sessions.delete with archivedOnly, which refuse a
\* session that is gone or, for the delete, not archived.
GatewayTakes(kind, k) == gs[k] # "deleted" /\ (kind = "delete" => gs[k] = "archived")
GatewayResult(kind) ==
  CASE kind = "trash" -> "archived" [] kind = "restore" -> "live" [] kind = "delete" -> "deleted"

\* The second call of an operation; its answer may be lost, or the call itself.
Act(o) ==
  LET k == top[o].key
      takes == GatewayTakes(top[o].kind, k) IN
  /\ top[o].pc = "act"
  /\ \/ /\ gs' = IF takes THEN [gs EXCEPT ![k] = GatewayResult(top[o].kind)] ELSE gs
        /\ top' = [top EXCEPT ![o] = IF takes THEN [@ EXCEPT !.pc = "commit"] ELSE IdleOp]
        /\ UNCHANGED tfaults
     \/ /\ tfaults < TrashFaults /\ tfaults' = tfaults + 1
        /\ gs' \in {gs, IF takes THEN [gs EXCEPT ![k] = GatewayResult(top[o].kind)] ELSE gs}
        /\ top' = [top EXCEPT ![o] = IdleOp]
  /\ UNCHANGED <<recs, tfile, nonces, matured, tcalls>>

\* What an operation does to the records when its call has succeeded, and persist(),
\* which replaces the file by a rename or fails and leaves it.
Commit(o) ==
  LET k == top[o].key IN
  /\ top[o].pc = "commit"
  /\ recs' = [recs EXCEPT ![k] = IF top[o].kind = "trash" THEN "kept" ELSE "none"]
  /\ \/ tfile' = recs' /\ UNCHANGED tfaults
     \/ tfaults < TrashFaults /\ tfaults' = tfaults + 1 /\ UNCHANGED tfile
  /\ top' = [top EXCEPT ![o] = IdleOp]
  /\ UNCHANGED <<gs, nonces, matured, tcalls>>

\* deleteAfter passes for the records of a session, the older one first.
RetentionEnds(k) ==
  /\ "kept" \in {recs[k], tfile[k]}
  /\ tfile' = [tfile EXCEPT ![k] = IF @ = "kept" THEN "due" ELSE @]
  /\ \/ recs' = [recs EXCEPT ![k] = IF @ = "kept" THEN "due" ELSE @]
     \/ tfile # recs /\ tfile[k] = "kept" /\ UNCHANGED recs
  /\ UNCHANGED <<gs, nonces, top, matured, tcalls, tfaults>>

\* A confirmation is good for five minutes.
NonceExpires(n) ==
  /\ nonces[n].st = "live"
  /\ nonces' = [nonces EXCEPT ![n].st = "expired"]
  /\ UNCHANGED <<gs, recs, tfile, top, matured, tcalls, tfaults>>

\* The user archives or restores a session in OpenClaw's page.
UserToggles(k) ==
  /\ gs[k] # "deleted" /\ tfaults < TrashFaults /\ tfaults' = tfaults + 1
  /\ gs' = [gs EXCEPT ![k] = IF @ = "live" THEN "archived" ELSE "live"]
  /\ UNCHANGED <<recs, tfile, nonces, top, matured, tcalls>>

\* The client ends and starts: load() reads the file; confirmations were in memory.
TrashRestarts ==
  /\ tfaults < TrashFaults /\ tfaults' = tfaults + 1
  /\ recs' = tfile
  /\ nonces' = [n \in Nonces |-> IF nonces[n].st = "free" THEN NoNonce ELSE [nonces[n] EXCEPT !.st = "gone"]]
  /\ top' = [o \in TrashOps |-> IdleOp]
  /\ UNCHANGED <<gs, tfile, matured, tcalls>>

TrashNext ==
  \/ \E o \in TrashOps, k \in Sessions :
       \/ Trash(o, k) \/ RestoreSession(o, k)
       \/ \E n \in Nonces : PermanentlyDelete(o, k, n)
  \/ \E o \in TrashOps : Describe(o) \/ Act(o) \/ Commit(o)
  \/ \E k \in Sessions :
       \/ RetentionEnds(k) \/ UserToggles(k)
       \/ \E n \in Nonces : RequestPermanentDelete(k, n)
  \/ \E n \in Nonces : NonceExpires(n)
  \/ TrashRestarts

TrashSpec == TrashInit /\ [][TrashNext]_trashVars

-----------------------------------------------------------------------------
(* Properties.                                                              *)

\* session-management.ts, permanentlyDelete(): a session is deleted only if its own
\* retention had once run out and a confirmation was handed out for it then.
DeletionEarned == \A k \in Sessions : gs[k] = "deleted" => k \in matured

\* session-management.ts: a deletion under way holds a confirmation of its own
\* session, used up, that no other deletion holds, and none is good for another one.
OneDeletionPerNonce ==
  /\ \A o \in TrashOps : top[o].kind = "delete" =>
       /\ nonces[top[o].nonce] = [key |-> top[o].key, st |-> "gone"]
       /\ \A p \in TrashOps \ {o} : top[p].nonce # top[o].nonce
  /\ \A n \in Nonces : nonces[n].st = "live" => nonces[n].key \in matured

\* A permanent deletion was earned by a record that was due, and no nonce deletes twice.
SessionTrashInv == TrashTypeOK /\ DeletionEarned /\ OneDeletionPerNonce
=============================================================================
