-------------------------- MODULE DeviceCredentials --------------------------
(***************************************************************************)
(* The desktop client's device credentials (device-credential-store.ts):   *)
(* device.json, which in old versions holds the tokens in the clear, the   *)
(* Windows Credential Manager, and the operation that loads, migrates or   *)
(* registers them.  Calls for one cloud address are merged, calls for two  *)
(* addresses interleave at every await, the process may die between any    *)
(* two of them, and a write to the Credential Manager may fail or be lost. *)
(*                                                                         *)
(* A token is the number of its registration, Old for the one in an old    *)
(* device.json, and NoToken; the file is replaced by a rename, in one      *)
(* step.                                                                   *)
(***************************************************************************)
EXTENDS Integers, FiniteSets

CONSTANTS
  Bases,    \* cloud addresses
  Regs,     \* bound: registrations
  CFaults   \* bound: lost or failed writes, failed calls and deaths

ASSUME CredAssumption == Regs \in Nat

VARIABLES
  djson,   \* device.json: kind, the addresses with a token, the addresses with an id
  had,     \* history: the addresses whose token the first device.json held
  tokens,   \* Windows Credential Manager, one token per address
  mem,     \* the tokens the process has handed out
  cop,     \* the operation per address
  regs, cfaults

credVars == <<djson, had, tokens, mem, cop, regs, cfaults>>

NoToken == 0
Old == -1  \* the token of an old device.json
Tokens == {NoToken, Old} \cup 1..Regs
NoCredOp == [pc |-> "idle", todo |-> {}, ids |-> {}, tok |-> NoToken, rewrite |-> FALSE]

CredInit ==
  /\ \E toks \in SUBSET Bases, ids \in SUBSET Bases :
       djson \in {[kind |-> "absent", toks |-> {}, ids |-> {}],
                  [kind |-> IF toks = {} THEN "v2" ELSE "old", toks |-> toks, ids |-> ids]}
  /\ had = djson.toks
  /\ tokens = [b \in Bases |-> NoToken]
  /\ mem = [b \in Bases |-> NoToken]
  /\ cop = [b \in Bases |-> NoCredOp]
  /\ regs = 0
  /\ cfaults = CFaults

CFault == cfaults > 0 /\ cfaults' = cfaults - 1
NoFault == UNCHANGED cfaults

\* The address whose token an operation writes: the one it migrates, or its own.
Target(b) == IF cop[b].pc \in {"resolve", "write", "check"} /\ cop[b].todo # {}
             THEN CHOOSE t \in cop[b].todo : TRUE ELSE b

Goes(b, o) == cop' = [cop EXCEPT ![b] = o]
Rejects(b) == Goes(b, NoCredOp)

-----------------------------------------------------------------------------
\* credentialsFor and loadState: unless the token is in memory or a call for the
\* address is under way, the file is read; a missing one gives a new fingerprint.
LoadState(b) ==
  /\ mem[b] = NoToken /\ cop[b] = NoCredOp
  /\ Goes(b, [pc |-> IF djson.toks # {} THEN "migrate" ELSE "read", todo |-> djson.toks,
              ids |-> djson.ids, tok |-> NoToken, rewrite |-> djson.kind # "v2"])
  /\ NoFault /\ UNCHANGED <<djson, had, tokens, mem, regs>>

\* migrateLegacyCredentials, per address: a token that is in the vault already
\* must be the same one; an unknown device id is asked of the cloud.
MigrateToken(b) ==
  /\ cop[b].pc = "migrate" /\ cop[b].todo # {}
  /\ LET l == CHOOSE t \in cop[b].todo : TRUE IN
     CASE tokens[l] = Old ->
            Goes(b, [cop[b] EXCEPT !.todo = @ \ {l}, !.ids = @ \cup {l}])
       [] tokens[l] = NoToken ->
            Goes(b, [cop[b] EXCEPT !.tok = Old, !.pc = IF l \in cop[b].ids THEN "write" ELSE "resolve"])
       [] OTHER -> Rejects(b)
  /\ NoFault /\ UNCHANGED <<djson, had, tokens, mem, regs>>

\* resolveLegacyDeviceId.
Resolve(b) ==
  /\ cop[b].pc = "resolve"
  /\ \/ NoFault /\ Goes(b, [cop[b] EXCEPT !.pc = "write"])
     \/ CFault /\ Rejects(b)
  /\ UNCHANGED <<djson, had, tokens, mem, regs>>

\* persistAndVerify: the write, then the read back of what is there.
WriteToken(b) ==
  /\ cop[b].pc = "write"
  /\ \/ /\ NoFault
        /\ tokens' = [tokens EXCEPT ![Target(b)] = cop[b].tok]
        /\ Goes(b, [cop[b] EXCEPT !.pc = "check"])
     \/ CFault /\ Goes(b, [cop[b] EXCEPT !.pc = "check"]) /\ UNCHANGED tokens
     \/ CFault /\ Rejects(b) /\ UNCHANGED tokens
  /\ UNCHANGED <<djson, had, mem, regs>>

\* Variant: what was written is not read back.
ReadsBackBlindly(b) == TRUE

\* What persistAndVerify reads back is what it wrote.
ReadsBack(b) == tokens[Target(b)] = cop[b].tok

\* The rest of persistAndVerify and of the migration, token by token.
CheckToken(b) ==
  /\ cop[b].pc = "check"
  /\ CASE ~ReadsBack(b) -> Rejects(b)
       [] ReadsBack(b) /\ cop[b].todo # {} ->
            Goes(b, [cop[b] EXCEPT !.todo = @ \ {Target(b)}, !.ids = @ \cup {Target(b)}, !.pc = "migrate"])
       [] OTHER -> Goes(b, [cop[b] EXCEPT !.pc = "save"])
  /\ NoFault /\ UNCHANGED <<djson, had, tokens, mem, regs>>

\* saveMetadata writes the ids and no token.
Metadata(ids) == [kind |-> "v2", toks |-> {}, ids |-> ids]

\* The end of the migration: only now is the old file replaced.
Migrated(b) ==
  /\ cop[b].pc = "migrate" /\ cop[b].todo = {}
  /\ djson' = Metadata(cop[b].ids)
  /\ Goes(b, [cop[b] EXCEPT !.pc = "read", !.rewrite = FALSE])
  /\ NoFault /\ UNCHANGED <<had, tokens, mem, regs>>

\* loadOrRegister: what the vault holds is handed out.
HandOut(b) ==
  /\ cop[b].pc = "read" /\ tokens[b] # NoToken
  /\ mem' = [mem EXCEPT ![b] = tokens[b]]
  /\ djson' = IF cop[b].rewrite THEN Metadata(cop[b].ids \cup {b}) ELSE djson
  /\ Goes(b, NoCredOp)
  /\ NoFault /\ UNCHANGED <<had, tokens, regs>>

\* Otherwise the device registers; the answer may be lost.
RegisterAt(b) ==
  /\ cop[b].pc = "read" /\ tokens[b] = NoToken
  /\ regs < Regs
  /\ \/ NoFault /\ Goes(b, [cop[b] EXCEPT !.pc = "write", !.tok = regs + 1]) /\ regs' = regs + 1
     \/ CFault /\ Rejects(b) /\ regs' \in {regs, regs + 1}
  /\ UNCHANGED <<djson, had, tokens, mem>>

\* The registered token has been read back: the file, then the memory.
SaveToken(b) ==
  /\ cop[b].pc = "save"
  /\ djson' = Metadata(cop[b].ids \cup {b})
  /\ mem' = [mem EXCEPT ![b] = cop[b].tok]
  /\ Goes(b, NoCredOp)
  /\ NoFault /\ UNCHANGED <<had, tokens, regs>>

\* The process dies, or is left and started again.
Die ==
  /\ CFault
  /\ mem' = [b \in Bases |-> NoToken]
  /\ cop' = [b \in Bases |-> NoCredOp]
  /\ UNCHANGED <<djson, had, tokens, regs>>

CredNext ==
  \/ \E b \in Bases : LoadState(b) \/ MigrateToken(b) \/ Resolve(b) \/ WriteToken(b) \/ CheckToken(b) \/ Migrated(b)
                      \/ HandOut(b) \/ RegisterAt(b) \/ SaveToken(b)
  \/ Die

CredSpec == CredInit /\ [][CredNext]_credVars

-----------------------------------------------------------------------------
\* Types of what the properties below are about.
CredTypeOK ==
  /\ djson.kind \in {"absent", "old", "v2"} /\ djson.toks \subseteq Bases /\ djson.ids \subseteq Bases
  /\ tokens \in [Bases -> Tokens] /\ mem \in [Bases -> Tokens]

\* device-credential-store.ts: whatever write is lost, wherever the process dies and
\* however two calls interleave, a token of an old device.json is in that file or in
\* the Credential Manager, a token is handed out only once the Credential Manager
\* holds it and no device.json holds one, and a call never registers the device of
\* an address whose token is still there to migrate.
CredentialsKept ==
  /\ CredTypeOK
  /\ \A b \in had : b \in djson.toks \/ tokens[b] = Old
  /\ \A b \in Bases : mem[b] # NoToken => tokens[b] = mem[b] /\ djson.toks = {}
  /\ \A b \in Bases : cop[b].pc = "save" => b \notin had
=============================================================================
