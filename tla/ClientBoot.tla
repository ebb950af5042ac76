----------------------------- MODULE ClientBoot -----------------------------
(***************************************************************************)
(* The start of the desktop client against the cloud: the activation of    *)
(* the device with a code (activation-code.ts, server.ts, memory-store.ts, *)
(* activation-window.ts) and the runtime configuration, fetched with an    *)
(* ETag, retried and cached (runtime-config-resolver.ts,                   *)
(* openclaw-runtime.ts, model-gateway.ts), with the administrator's        *)
(* edits, revocations and emergency stop in between.                       *)
(*                                                                         *)
(* Time is a counter, a configuration is the number of the edit that saved *)
(* it, which its ETag stands for.  The clocks of client and cloud agree:   *)
(* the five minutes of tolerated skew are left out.  Codes exist in the    *)
(* in-memory store only; the PostgreSQL store refuses their operations.    *)
(*                                                                         *)
(* The credentials (DeviceCredentials) are loaded before; the two parts of *)
(* the start share no state.                                               *)
(***************************************************************************)
EXTENDS DeviceCredentials

CONSTANTS
  Codes,      \* activation codes
  Rivals,     \* other devices of the tenant
  MaxUses,    \* max_uses of a code
  CodeLife,   \* expires_in_days of a code
  Tries,      \* activation attempts the cloud allows in a window
  Window,     \* the length of that window
  Attempts,   \* maxAttempts of the resolver
  Validity,   \* RUNTIME_CONFIG_TTL_MS and RUNTIME_CONFIG_MAX_CACHE_AGE_MS
  MaxClock,   \* bound: time
  Edits,      \* bound: edits of the configuration
  BFaults     \* bound: lost answers and failed cache writes

ASSUME BootAssumption ==
  /\ "none" \notin Codes /\ IsFiniteSet(Rivals)
  /\ MaxUses \in Nat /\ CodeLife \in Nat /\ Validity \in Nat /\ MaxClock \in Nat \ {0} /\ Edits \in Nat
  /\ Attempts \in Nat \ {0}

VARIABLES
  clock,
  code,     \* the activation codes: status, use_count and expires_at
  actv,     \* activation_code_id per device
  tries,    \* activationAttempts per device: count, resetsAt
  model,    \* the model configuration: number and emergency_disabled
  editor,   \* an administrator's edit between its read and its save
  stopped,  \* history: since when the emergency stop holds, or Never
  replaced, \* history: when each configuration was replaced, or Never
  kcache,   \* runtime-config-cache.json
  start,    \* the client's start
  bfaults

bootVars == <<clock, code, actv, tries, model, editor, stopped, replaced, kcache, start, bfaults>>
bootCloudVars == <<code, actv, tries, model, editor, stopped, replaced>>

Own == "me"
BootDevices == {Own} \cup Rivals
NoCode == "none"
Never == MaxClock + 1
NoCache == [ver |-> 0, exp |-> 0, at |-> 0]
NotStarted == [pc |-> "off", att |-> 0, cached |-> NoCache, reply |-> [kind |-> "none"], used |-> NoCache]

BootInit ==
  /\ clock = 1
  /\ code = [c \in Codes |-> [st |-> "none", uses |-> 0, exp |-> 0]]
  /\ actv = [d \in BootDevices |-> NoCode]
  /\ tries = [d \in BootDevices |-> [n |-> 0, until |-> 0]]
  /\ model = [ver |-> 1, disabled |-> FALSE]
  /\ editor = [on |-> FALSE]
  /\ stopped = Never
  /\ replaced = [v \in 1..(Edits + 1) |-> Never]
  /\ kcache = NoCache
  /\ start = NotStarted
  /\ bfaults = BFaults

BFault == bfaults > 0 /\ bfaults' = bfaults - 1

-----------------------------------------------------------------------------
(* Activation                                                               *)

ValidCode(c) == code[c].st = "active" /\ clock < code[c].exp

\* deviceActivationStatus.
Activated(d) == actv[d] # NoCode /\ ValidCode(actv[d])

\* createActivationCode.
CreateCode(c) ==
  /\ code[c].st = "none"
  /\ code' = [code EXCEPT ![c] = [st |-> "active", uses |-> 0, exp |-> clock + CodeLife]]
  /\ UNCHANGED <<clock, actv, tries, model, editor, stopped, replaced, kcache, start, bfaults>>

\* The attempts of POST /v1/devices/activate, counted before the code is looked at.
Limited(d) == tries[d].until > clock /\ tries[d].n >= Tries
Counted(d) == IF tries[d].until > clock THEN [tries[d] EXCEPT !.n = @ + 1]
              ELSE [n |-> 1, until |-> clock + Window]

\* redeemActivationCode: the same code again is answered without a use.
Redeemable(d, c) == ValidCode(c) /\ (actv[d] = c \/ code[c].uses < MaxUses)

Redeem(d, c) ==
  /\ ~Limited(d)
  /\ IF Redeemable(d, c)
     THEN /\ tries' = [tries EXCEPT ![d] = [n |-> 0, until |-> 0]]
          /\ code' = IF actv[d] = c THEN code ELSE [code EXCEPT ![c].uses = @ + 1]
          /\ actv' = [actv EXCEPT ![d] = c]
     ELSE tries' = [tries EXCEPT ![d] = Counted(d)] /\ UNCHANGED <<code, actv>>
  /\ UNCHANGED <<model, editor, stopped, replaced>>

RivalActivates(d, c) ==
  /\ d \in Rivals /\ actv[d] # c
  /\ Redeem(d, c)
  /\ UNCHANGED <<clock, kcache, start, bfaults>>

\* revokeActivationCode.
RevokeCode(c) ==
  /\ code[c].st = "active"
  /\ code' = [code EXCEPT ![c].st = "revoked"]
  /\ UNCHANGED <<clock, actv, tries, model, editor, stopped, replaced, kcache, start, bfaults>>

\* ensureDeviceActivated asks for the status; without an answer the client does not start.
AskStatus ==
  /\ start.pc = "off"
  /\ \/ /\ start' = [NotStarted EXCEPT !.pc = IF Activated(Own) THEN "cache" ELSE "window"]
        /\ UNCHANGED bfaults
     \/ BFault /\ start' = [NotStarted EXCEPT !.pc = "failed"]
  /\ UNCHANGED <<clock, kcache>> /\ UNCHANGED bootCloudVars

\* The activation window submits a code; the answer may be lost, and the user tries again.
Activate(c) ==
  /\ start.pc = "window"
  /\ Redeem(Own, c)
  /\ \/ /\ start' = IF Redeemable(Own, c) THEN [start EXCEPT !.pc = "cache"] ELSE start
        /\ UNCHANGED bfaults
     \/ BFault /\ UNCHANGED start
  /\ UNCHANGED <<clock, kcache>>

-----------------------------------------------------------------------------
(* The administrator's configuration                                        *)

\* POST /v1/admin/model-config reads the configuration, merges the fields it was
\* given and saves all of it; an edit may leave emergency_disabled as it read it.
EditReads ==
  /\ ~editor.on /\ model.ver <= Edits
  /\ \E d \in {model.disabled, ~model.disabled} : editor' = [on |-> TRUE, disabled |-> d]
  /\ UNCHANGED <<clock, code, actv, tries, model, stopped, replaced, kcache, start, bfaults>>

SaveConfig(disabled) ==
  /\ model.ver <= Edits
  /\ model' = [ver |-> model.ver + 1, disabled |-> disabled]
  /\ replaced' = [replaced EXCEPT ![model.ver] = clock]
  /\ stopped' = IF ~disabled THEN Never ELSE IF model.disabled THEN stopped ELSE clock
  /\ UNCHANGED <<clock, code, actv, tries, kcache, start, bfaults>>

EditSaves == editor.on /\ editor' = [on |-> FALSE] /\ SaveConfig(editor.disabled)

\* A second administrator's edit, while the first one has read and not yet saved.
EditOvertakes == editor.on /\ UNCHANGED editor /\ SaveConfig(~model.disabled)

BootTick ==
  /\ clock < MaxClock
  /\ clock' = clock + 1
  /\ UNCHANGED <<kcache, start, bfaults>> /\ UNCHANGED bootCloudVars

-----------------------------------------------------------------------------
(* The runtime configuration                                                *)

\* parseCacheRecord: the cache is used before its configuration and it itself expire.
Usable(k) == k.ver # 0 /\ clock < k.exp /\ clock - k.at < Validity

\* resolveClientRuntimeConfig reads the cache for its ETag.
ReadCache ==
  /\ start.pc = "cache"
  /\ start' = [start EXCEPT !.pc = "ask", !.att = 1, !.cached = IF Usable(kcache) THEN kcache ELSE NoCache]
  /\ UNCHANGED <<clock, kcache, bfaults>> /\ UNCHANGED bootCloudVars

\* GET /v1/client/runtime-config at the cloud.
CloudReply ==
  CASE ~Activated(Own) -> [kind |-> "refused"]
    [] Activated(Own) /\ model.disabled -> [kind |-> "transient"]
    [] OTHER -> [kind |-> IF start.cached.ver = model.ver THEN "not_modified" ELSE "modified",
                 ver |-> model.ver, exp |-> clock + Validity]

AskConfig ==
  /\ start.pc = "ask"
  /\ \/ start' = [start EXCEPT !.pc = "answer", !.reply = CloudReply] /\ UNCHANGED bfaults
     \/ BFault /\ start' = [start EXCEPT !.pc = "answer", !.reply = [kind |-> "transient"]]
  /\ UNCHANGED <<clock, kcache>> /\ UNCHANGED bootCloudVars

\* fetchClientRuntimeConfigWithEtag's result: a 304 renews the cached configuration.
Fetched(r) ==
  [ver |-> IF r.kind = "not_modified" THEN start.cached.ver ELSE r.ver, exp |-> r.exp, at |-> clock]

\* writeCache; the client goes on without it.
WriteCache(k) ==
  \/ kcache' = k /\ UNCHANGED bfaults
  \/ BFault /\ UNCHANGED kcache

RunsOn(k) == [start EXCEPT !.pc = "up", !.used = k, !.reply = [kind |-> "none"]]

\* The answer: applied and cached while it is current; a refusal and an answer that
\* came too late end the start; transient errors are tried again.
TakeAnswer ==
  /\ start.pc = "answer"
  /\ LET r == start.reply IN
     \/ /\ r.kind \in {"modified", "not_modified"}
        /\ IF clock >= Fetched(r).exp
           THEN start' = [NotStarted EXCEPT !.pc = "failed"] /\ UNCHANGED <<kcache, bfaults>>
           ELSE /\ start' = RunsOn(Fetched(r))
                /\ WriteCache(Fetched(r))
     \/ r.kind = "refused" /\ start' = [NotStarted EXCEPT !.pc = "failed"] /\ UNCHANGED <<kcache, bfaults>>
     \/ /\ r.kind = "transient"
        /\ start' = IF start.att < Attempts THEN [start EXCEPT !.pc = "ask", !.att = @ + 1]
                    ELSE IF Usable(kcache) THEN RunsOn(kcache)
                    ELSE [NotStarted EXCEPT !.pc = "failed"]
        /\ UNCHANGED <<kcache, bfaults>>
  /\ UNCHANGED clock /\ UNCHANGED bootCloudVars

\* The client is left, or its start has failed, and it is started again later.
LeaveClient ==
  /\ start.pc \in {"window", "failed", "up"}
  /\ start' = NotStarted
  /\ UNCHANGED <<clock, kcache, bfaults>> /\ UNCHANGED bootCloudVars

BootNext ==
  \/ \E d \in Rivals, c \in Codes : RivalActivates(d, c)
  \/ \E c \in Codes : CreateCode(c) \/ RevokeCode(c) \/ Activate(c)
  \/ AskStatus \/ EditReads \/ EditSaves \/ EditOvertakes \/ BootTick
  \/ ReadCache \/ AskConfig \/ TakeAnswer \/ LeaveClient

BootSpec == BootInit /\ [][BootNext]_bootVars

-----------------------------------------------------------------------------
\* Types of what the properties below are about.
BootTypeOK ==
  /\ clock \in 1..MaxClock
  /\ actv \in [BootDevices -> Codes \cup {NoCode}]
  /\ start.pc \in {"off", "window", "cache", "ask", "answer", "failed", "up"}
  /\ start.att \in 0..Attempts

\* memory-store.ts, runtime-config-resolver.ts: with lost answers, retries and rivals
\* no code has more devices than uses nor more uses than it allows; and however edits,
\* revocations, lost answers, failed cache writes and delays interleave, a client
\* starts only with a configuration that expires within one validity of the moment
\* the cloud replaced it or stopped the clients in an emergency.
BootInv ==
  /\ BootTypeOK
  /\ \A c \in Codes : /\ Cardinality({d \in BootDevices : actv[d] = c}) <= code[c].uses
                      /\ code[c].uses <= MaxUses
  /\ kcache.ver # 0 => kcache.exp <= replaced[kcache.ver] + Validity /\ kcache.exp <= kcache.at + Validity
  /\ start.pc = "up" =>
       /\ start.used.exp <= replaced[start.used.ver] + Validity
       /\ stopped # Never => start.used.exp <= stopped + Validity

\* The client starts with the credentials it had, and on a configuration that may still
\* be used.
StartupInv == CredentialsKept /\ BootInv
=============================================================================
