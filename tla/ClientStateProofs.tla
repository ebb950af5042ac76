--------------------------- MODULE ClientStateProofs ---------------------------
(***************************************************************************)
(* Proofs about what a computer keeps and does for the Cloud, for every    *)
(* value of the constants of the modules: that a write of the tool bridge  *)
(* runs once per approval and under the policy it was approved in, that    *)
(* the Skill registry, the grants and the Gateway's list agree between     *)
(* operations, that the Manager calls only its own Gateway managed, loses  *)
(* no lock and destroys nothing of the user's, not even a configuration,   *)
(* that a client starts with the credentials it had and on a configuration *)
(* still in use, that the command line and the plugin's tool answer        *)
(* truthfully and act once, that a session is deleted only after its       *)
(* retention, by a confirmation of its own, and that no telemetry is lost  *)
(* in silence and no installer that is waited for is cleaned away.         *)
(***************************************************************************)
EXTENDS CoreBridge, SkillLifecycle, ClientBoot, ConfigBackup, CloudPlugin, SessionTrash, Telemetry,
        StorageMaintenance, FiniteSetTheorems, SequenceTheorems, TLAPS

(***************************************************************************)
(* Core and its bridge.  CoreInv alone is not inductive: that ran never     *)
(* overtakes the approvals needs one approval in hand for every            *)
(* confirmation that says approved (ApprovalKept); that such an approval    *)
(* is of this epoch needs that only the parser of core-process refuses a    *)
(* policy (ApprovedHere) and, behind that parser, that no write is granted  *)
(* so none can be confirmed (NoWriteParsed).                                *)
(***************************************************************************)
\* A request on its way, a confirmation, what the window shows, and a workflow's run.
OnItsWay == {"verify", "wait", "again", "exec"}
CallSet == {CallIdle}
           \cup [st : OnItsWay, skill : Skills, tool : BridgeToolCalls, try : {1, 2}, wf : BOOLEAN]
           \cup [st : {"end"}, ok : BOOLEAN, wf : BOOLEAN]
ConfSet == {NoConf} \cup [st : {"pending", "approved", "denied"}, id : Nat, expired : BOOLEAN]
WfRun   == [st : {"step", "called", "failed", "done"}, grants : SUBSET Skills,
            steps : 0..WorkflowSteps, denied : BOOLEAN]
WfSet   == {[st |-> "idle"]} \cup WfRun

BridgeTypes ==
  /\ parser \in BOOLEAN /\ grants \subseteq Skills /\ made \in 0..ConfirmIds
  /\ epoch \in Nat /\ refusals \in Nat
  /\ call \in [Calls -> CallSet]
  /\ conf \in [BridgeToolCalls -> ConfSet]
  /\ events \subseteq [id : Nat, tool : BridgeToolCalls]
  /\ window \in {NoConf} \cup [st : {"open"}, id : Nat, tool : BridgeToolCalls]
  /\ waiter \in [BridgeToolCalls -> BOOLEAN]
  /\ approved \in [BridgeToolCalls -> [n : Nat, epoch : Nat]]
  /\ ran \in [BridgeToolCalls -> Nat]
  /\ wf \in WfSet

\* An approval that waits is not spent: it is one more than what ran.
ApprovalKept ==
  \A t \in BridgeToolCalls : IF conf[t].st = "approved" THEN ran[t] < approved[t].n ELSE ran[t] <= approved[t].n

\* An approval that waits was given in this epoch, and only the parser refuses.
ApprovedHere ==
  /\ \A t \in BridgeToolCalls : conf[t].st = "approved" => approved[t].epoch = epoch
  /\ ~parser => refusals = 0

\* Behind core-process's parser no write is ever granted, so none is ever confirmed.
NoWriteParsed ==
  parser => /\ "write" \notin grants
            /\ \A k \in Calls : call[k].st \in OnItsWay => call[k].skill = "read"
            /\ \A t \in BridgeToolCalls : conf[t] = NoConf

\* The inductive invariant.
CoreIInv == BridgeTypes /\ ApprovalKept /\ ApprovedHere /\ NoWriteParsed /\ WaitersLive /\ WorkflowBounded

\* A bridge that starts has no call, no confirmation and no waiter.
LEMMA CoreInitKeeps == BridgeAssumption /\ CoreInit => CoreIInv
<1> SUFFICES ASSUME BridgeAssumption, CoreInit PROVE CoreIInv
  OBVIOUS
<1>1. BridgeTypes
  BY DEF BridgeAssumption, CoreInit, BridgeTypes, CallSet, ConfSet, WfSet, Skills
<1>2. ApprovalKept /\ ApprovedHere /\ NoWriteParsed /\ WaitersLive /\ WorkflowBounded
  BY DEF CoreInit, ApprovalKept, ApprovedHere, NoWriteParsed, WaitersLive, WorkflowBounded, PolicyParses,
         CallIdle, NoConf, OnItsWay
<1> QED  BY <1>1, <1>2 DEF CoreIInv

\* What a request can be.
LEMMA CallKinds ==
  ASSUME BridgeTypes, NEW k \in Calls
  PROVE  /\ call[k] \in CallSet
         /\ call[k].st \in OnItsWay => /\ call[k].skill \in Skills /\ call[k].tool \in BridgeToolCalls
                                       /\ call[k].try \in {1, 2} /\ call[k].wf \in BOOLEAN
         /\ call[k].st \in {"idle", "end"} \cup OnItsWay
BY DEF BridgeTypes, CallSet, CallIdle, OnItsWay

\* Any step of a request within the types keeps what the others are.
LEMMA CallMoves ==
  ASSUME CoreIInv, NEW k \in Calls, NEW c \in CallSet, call' = [call EXCEPT ![k] = c],
         c.st = "wait" => waiter[c.tool],
         parser /\ c.st \in OnItsWay => c.skill = "read",
         UNCHANGED <<parser, grants, epoch, refusals, conf, made, events, window, waiter, approved, ran, wf>>
  PROVE  CoreIInv'
<1>1. BridgeTypes'
  BY DEF CoreIInv, BridgeTypes
<1>2. WaitersLive'
  BY DEF CoreIInv, BridgeTypes, WaitersLive
<1>3. NoWriteParsed'
  BY DEF CoreIInv, BridgeTypes, NoWriteParsed
<1>4. ApprovalKept' /\ ApprovedHere' /\ WorkflowBounded'
  BY DEF CoreIInv, ApprovalKept, ApprovedHere, WorkflowBounded
<1> QED  BY <1>1, <1>2, <1>3, <1>4 DEF CoreIInv

\* A confirmation's entry.
LEMMA ConfKinds ==
  ASSUME BridgeTypes, NEW t \in BridgeToolCalls
  PROVE  /\ conf[t] \in ConfSet
         /\ conf[t] # NoConf => conf[t].id \in Nat /\ conf[t].expired \in BOOLEAN
                                /\ conf[t].st \in {"pending", "approved", "denied"}
         /\ conf[t].st \in {"none", "pending", "approved", "denied"}
         /\ conf[t].st = "none" <=> conf[t] = NoConf
BY DEF BridgeTypes, ConfSet, NoConf

\* What is looked up is granted.
LEMMA LookupGives ==
  ASSUME CoreIInv, NEW k \in Calls, NEW s \in Skills, NEW t \in BridgeToolCalls, NEW n \in {1, 2}, NEW w \in BOOLEAN,
         Lookup(k, s, t, n, w)
  PROVE  \E c \in CallSet : /\ call' = [call EXCEPT ![k] = c] /\ c.st # "wait"
                            /\ parser /\ c.st \in OnItsWay => c.skill = "read"
<1>1. CASE s \in grants
  <2> DEFINE c == [st |-> "verify", skill |-> s, tool |-> t, try |-> n, wf |-> w]
  <2>1. c \in CallSet /\ call' = [call EXCEPT ![k] = c]
    BY <1>1 DEF CallSet, OnItsWay, Lookup
  <2>2. parser => s = "read"
    BY <1>1 DEF CoreIInv, NoWriteParsed, Skills
  <2> QED  BY <2>1, <2>2
<1>2. CASE s \notin grants
  <2> DEFINE c == [st |-> "end", ok |-> FALSE, wf |-> w]
  <2>1. c \in CallSet /\ call' = [call EXCEPT ![k] = c]
    BY <1>2 DEF CallSet, Lookup
  <2> QED  BY <2>1 DEF OnItsWay
<1> QED  BY <1>1, <1>2

\* tool-bridge-host.ts: a new request is looked up in the policy of the moment.
LEMMA AskKeeps ==
  ASSUME CoreIInv, NEW k \in Calls, NEW s \in Skills, NEW t \in BridgeToolCalls, AskBridge(k, s, t)
  PROVE  CoreIInv'
BY LookupGives, CallMoves DEF AskBridge

\* The result of a call ends it.
LEMMA ResultEnds ==
  ASSUME BridgeTypes, NEW k \in Calls, call[k].st \in OnItsWay, NEW ok \in BOOLEAN
  PROVE  CallResult(call[k], ok) \in CallSet /\ CallResult(call[k], ok).st = "end"
BY CallKinds DEF CallResult, CallSet

\* A call that ends changes nothing else, whatever its result.
LEMMA EndKeeps ==
  ASSUME CoreIInv, NEW k \in Calls, call[k].st \in OnItsWay, NEW ok \in BOOLEAN, call' = Ended(k, ok),
         UNCHANGED <<parser, grants, epoch, refusals, conf, made, events, window, waiter, approved, ran, wf>>
  PROVE  CoreIInv'
BY ResultEnds, CallMoves DEF CoreIInv, Ended, OnItsWay

\* The host's second attempt looks the grant up again.
LEMMA AgainKeeps ==
  ASSUME CoreIInv, NEW k \in Calls, Again(k)
  PROVE  CoreIInv'
<1>1. call[k].skill \in Skills /\ call[k].tool \in BridgeToolCalls /\ call[k].wf \in BOOLEAN
  BY CallKinds DEF CoreIInv, Again, OnItsWay
<1> QED  BY <1>1, LookupGives, CallMoves DEF Again

\* runtime.ts executeBridgeSkill: a read goes on without a confirmation.
LEMMA RunReadKeeps ==
  ASSUME CoreIInv, NEW k \in Calls, RunRead(k)
  PROVE  CoreIInv'
<1> DEFINE c == [call[k] EXCEPT !.st = "exec"]
<1>0. call[k].st = "verify" /\ call[k].skill = "read" /\ call' = [call EXCEPT ![k] = c]
      /\ UNCHANGED <<parser, grants, epoch, refusals, conf, made, events, window, waiter, approved, ran, wf>>
  BY DEF RunRead
<1>1. c \in CallSet /\ c.st = "exec" /\ c.skill = "read"
  <2>1. call[k] \in [st : OnItsWay, skill : Skills, tool : BridgeToolCalls, try : {1, 2}, wf : BOOLEAN]
    BY <1>0, CallKinds DEF CoreIInv, CallSet, CallIdle
  <2> QED  BY <1>0, <2>1 DEF CallSet, OnItsWay
<1> HIDE DEF c
<1> QED  BY <1>0, <1>1, CallMoves

\* settleConfirmationWaiter: who waited for t goes on or ends, the others stay.
LEMMA SettledCalls ==
  ASSUME CoreIInv, NEW t \in BridgeToolCalls, NEW ok \in BOOLEAN
  PROVE  /\ Settled(call, t, ok) \in [Calls -> CallSet]
         /\ \A k \in Calls : /\ Settled(call, t, ok)[k].st = "wait" => Settled(call, t, ok)[k] = call[k] /\ call[k].tool # t
                             /\ Settled(call, t, ok)[k].st \in OnItsWay => /\ call[k].st \in OnItsWay
                                                                          /\ Settled(call, t, ok)[k].skill = call[k].skill
<1> DEFINE new == Settled(call, t, ok)
<1>1. ASSUME NEW k \in Calls
      PROVE  /\ new[k] \in CallSet
             /\ new[k].st = "wait" => new[k] = call[k] /\ call[k].tool # t
             /\ new[k].st \in OnItsWay => call[k].st \in OnItsWay /\ new[k].skill = call[k].skill
  <2>1. CASE call[k].st = "wait" /\ call[k].tool = t /\ ok
    <3>1. new[k] = [call[k] EXCEPT !.st = "again", !.try = 2]  BY <2>1 DEF Settled
    <3>2. call[k] \in [st : OnItsWay, skill : Skills, tool : BridgeToolCalls, try : {1, 2}, wf : BOOLEAN]
      BY <2>1, CallKinds DEF CoreIInv, CallSet, CallIdle
    <3> QED  BY <2>1, <3>1, <3>2 DEF CallSet, OnItsWay
  <2>2. CASE call[k].st = "wait" /\ call[k].tool = t /\ ~ok
    <3>1. new[k] = CallResult(call[k], FALSE)  BY <2>2 DEF Settled
    <3> QED  BY <2>2, <3>1, ResultEnds DEF CoreIInv, OnItsWay
  <2>3. CASE ~(call[k].st = "wait" /\ call[k].tool = t)
    <3>1. new[k] = call[k]  BY <2>3 DEF Settled
    <3> QED  BY <2>3, <3>1, CallKinds DEF CoreIInv
  <2> QED  BY <2>1, <2>2, <2>3
<1>2. DOMAIN new = Calls /\ new = [k \in DOMAIN new |-> new[k]]
  BY DEF Settled
<1> HIDE DEF new
<1>3. new \in [Calls -> CallSet]
  BY <1>1, <1>2
<1> QED  BY <1>1, <1>3 DEF new

\* A waiter settled with FALSE.
Refused(t) == Settled(call, t, FALSE)

\* A refusal lets nobody wait for t any longer.
LEMMA RefusedCalls ==
  ASSUME CoreIInv, NEW t \in BridgeToolCalls
  PROVE  /\ Refused(t) \in [Calls -> CallSet]
         /\ \A k \in Calls : /\ Refused(t)[k].st = "wait" => Refused(t)[k] = call[k] /\ call[k].tool # t
                             /\ Refused(t)[k].st \in OnItsWay => /\ call[k].st \in OnItsWay
                                                                 /\ Refused(t)[k].skill = call[k].skill
<1>1. FALSE \in BOOLEAN  OBVIOUS
<1> QED  BY <1>1, SettledCalls, Zenon DEF Refused

\* pruneConfirmations forgets what is no longer live.
LEMMA PrunedConf ==
  ASSUME CoreIInv
  PROVE  /\ Pruned \in [BridgeToolCalls -> ConfSet]
         /\ \A t \in BridgeToolCalls : Pruned[t] = conf[t] \/ Pruned[t] = NoConf
BY DEF Pruned, ConfSet, CoreIInv, BridgeTypes

\* Entries that stay or are forgotten keep what is known of approvals.
LEMMA ForgettingKeeps ==
  ASSUME CoreIInv, NEW new \in [BridgeToolCalls -> ConfSet],
         \A t \in BridgeToolCalls : new[t] = NoConf \/ new[t].st = conf[t].st \/ new[t].st = "pending"
  PROVE  \A t \in BridgeToolCalls :
           /\ IF new[t].st = "approved" THEN ran[t] < approved[t].n ELSE ran[t] <= approved[t].n
           /\ new[t].st = "approved" => approved[t].epoch = epoch
<1> TAKE t \in BridgeToolCalls
<1>1. ran[t] \in Nat /\ approved[t].n \in Nat
  BY DEF CoreIInv, BridgeTypes
<1>2. IF conf[t].st = "approved" THEN ran[t] < approved[t].n ELSE ran[t] <= approved[t].n
  BY DEF CoreIInv, ApprovalKept
<1>3. conf[t].st = "approved" => approved[t].epoch = epoch
  BY DEF CoreIInv, ApprovedHere
<1>4. new[t].st = "approved" => conf[t].st = "approved"
  BY DEF NoConf
<1> QED  BY <1>1, <1>2, <1>3, <1>4

\* runtime.ts executeBridgeSkill: a confirmation is made, and its waiter is registered.
LEMMA MakeKeeps ==
  ASSUME BridgeAssumption, CoreIInv, NEW k \in Calls, MakeConfirmation(k)
  PROVE  CoreIInv'
<1> DEFINE t == call[k].tool
           cs == IF waiter[t] THEN Settled(call, t, FALSE) ELSE call
           e == [st |-> "pending", id |-> made + 1, expired |-> FALSE]
           c == IF cs[k].try = 1 THEN [cs[k] EXCEPT !.st = "wait"] ELSE CallResult(cs[k], FALSE)
<1>1. /\ call[k].st = "verify" /\ call[k].skill = "write" /\ made < ConfirmIds /\ made' = made + 1
      /\ conf' = [Pruned EXCEPT ![t] = e] /\ events' = events \cup {[id |-> made + 1, tool |-> t]}
      /\ waiter' = [waiter EXCEPT ![t] = TRUE] /\ call' = [cs EXCEPT ![k] = c]
      /\ UNCHANGED <<parser, grants, epoch, refusals, window, approved, ran, wf>>
  BY DEF MakeConfirmation
<1>2. t \in BridgeToolCalls /\ call[k].st \in OnItsWay
  BY <1>1, CallKinds DEF CoreIInv, OnItsWay
<1>3. ~parser
  BY <1>1, <1>2 DEF CoreIInv, NoWriteParsed
<1>4. cs \in [Calls -> CallSet] /\ \A j \in Calls : cs[j].st = "wait" => cs[j] = call[j] /\ call[j].tool # t
  <2>1. CASE waiter[t]
    <3>1. cs = Refused(t)  BY <2>1 DEF Refused
    <3> HIDE DEF cs, t
    <3> QED  BY <1>2, <3>1, RefusedCalls
  <2>2. CASE ~waiter[t]
    BY <1>2, <2>2 DEF CoreIInv, BridgeTypes, WaitersLive
  <2> QED  BY <2>1, <2>2
<1>5. cs[k] = call[k]
  BY <1>1 DEF Settled
<1>6. c \in CallSet /\ (c.st = "wait" => c.tool = t)
  <2>1. call[k] \in [st : OnItsWay, skill : Skills, tool : BridgeToolCalls, try : {1, 2}, wf : BOOLEAN]
    BY <1>1, CallKinds DEF CoreIInv, CallSet, CallIdle
  <2>2. CASE cs[k].try = 1
    <3>1. c = [call[k] EXCEPT !.st = "wait"]  BY <2>2, <1>5
    <3> HIDE DEF c
    <3> QED  BY <2>1, <3>1 DEF CallSet, OnItsWay
  <2>3. CASE cs[k].try # 1
    <3>1. c = CallResult(call[k], FALSE)  BY <2>3, <1>5
    <3> HIDE DEF c
    <3> QED  BY <1>2, <3>1, ResultEnds DEF CoreIInv
  <2> QED  BY <2>2, <2>3
<1> HIDE DEF c, cs
<1>7. e \in ConfSet /\ made + 1 \in Nat /\ made' \in 0..ConfirmIds
  BY <1>1 DEF ConfSet, CoreIInv, BridgeTypes, BridgeAssumption
<1> HIDE DEF e
<1>8. conf' \in [BridgeToolCalls -> ConfSet]
  BY <1>1, <1>2, <1>7, PrunedConf
<1>9. BridgeTypes'
  <2>1. call' \in [Calls -> CallSet]  BY <1>1, <1>4, <1>6
  <2>2. events' \subseteq [id : Nat, tool : BridgeToolCalls]
    BY <1>1, <1>2, <1>7 DEF CoreIInv, BridgeTypes
  <2>3. waiter' \in [BridgeToolCalls -> BOOLEAN]
    BY <1>1, <1>2 DEF CoreIInv, BridgeTypes
  <2> QED  BY <1>1, <1>7, <1>8, <2>1, <2>2, <2>3 DEF CoreIInv, BridgeTypes
<1>10. \A s \in BridgeToolCalls : conf'[s] = NoConf \/ conf'[s].st = conf[s].st \/ conf'[s].st = "pending"
  BY <1>1, <1>2, PrunedConf DEF e
<1>11. ApprovalKept' /\ ApprovedHere'
  BY <1>1, <1>3, <1>8, <1>10, ForgettingKeeps DEF ApprovalKept, ApprovedHere, CoreIInv
<1>12. WaitersLive'
  <2> SUFFICES ASSUME NEW j \in Calls, call'[j].st = "wait" PROVE waiter'[call'[j].tool]
    BY DEF WaitersLive
  <2>1. CASE j = k
    <3>1. call'[j] = c  BY <1>1, <1>4, <2>1
    <3> QED  BY <1>1, <1>2, <1>6, <3>1 DEF CoreIInv, BridgeTypes
  <2>2. CASE j # k
    <3>1. call'[j] = call[j] /\ call[j].tool # t  BY <1>1, <1>4, <2>2
    <3> QED  BY <1>1, <3>1 DEF CoreIInv, BridgeTypes, WaitersLive
  <2> QED  BY <2>1, <2>2
<1>13. NoWriteParsed' /\ WorkflowBounded'
  BY <1>1, <1>3 DEF NoWriteParsed, CoreIInv, WorkflowBounded
<1> QED  BY <1>9, <1>11, <1>12, <1>13 DEF CoreIInv

\* A confirmation that is open or was denied: the call waits for its waiter or ends.
LEMMA AwaitKeeps ==
  ASSUME CoreIInv, NEW k \in Calls, AwaitConfirmation(k)
  PROVE  CoreIInv'
<1> DEFINE t == call[k].tool
<1>1. /\ call[k].st = "verify" /\ call[k].skill = "write" /\ conf' = Pruned
      /\ UNCHANGED <<parser, grants, epoch, refusals, made, events, window, waiter, approved, ran, wf>>
  BY DEF AwaitConfirmation
<1>2. call[k].st \in OnItsWay /\ call[k] \in [st : OnItsWay, skill : Skills, tool : BridgeToolCalls, try : {1, 2}, wf : BOOLEAN]
  BY <1>1, CallKinds DEF CoreIInv, CallSet, CallIdle, OnItsWay
<1>3. ~parser
  BY <1>1, <1>2 DEF CoreIInv, NoWriteParsed
<1>4. \E c \in CallSet : call' = [call EXCEPT ![k] = c] /\ (c.st = "wait" => waiter[c.tool])
  <2>1. CASE conf[t].st = "pending" /\ call[k].try = 1 /\ waiter[t]
    <3>1. call' = [call EXCEPT ![k].st = "wait"]  BY <2>1 DEF AwaitConfirmation
    <3>2. [call[k] EXCEPT !.st = "wait"] \in CallSet  BY <1>2 DEF CallSet, OnItsWay
    <3>3. [call[k] EXCEPT !.st = "wait"].tool = t  BY <1>2
    <3> QED  BY <2>1, <3>1, <3>2, <3>3
  <2>2. CASE ~(conf[t].st = "pending" /\ call[k].try = 1 /\ waiter[t])
    <3>1. call' = Ended(k, FALSE)  BY <2>2 DEF AwaitConfirmation
    <3> QED  BY <1>2, <3>1, ResultEnds DEF Ended, CoreIInv
  <2> QED  BY <2>1, <2>2
<1>5. BridgeTypes'
  BY <1>1, <1>4, PrunedConf DEF CoreIInv, BridgeTypes
<1>6. ApprovalKept' /\ ApprovedHere'
  BY <1>1, <1>3, PrunedConf, ForgettingKeeps DEF ApprovalKept, ApprovedHere, CoreIInv
<1>7. WaitersLive'
  BY <1>1, <1>4 DEF WaitersLive, CoreIInv, BridgeTypes
<1>8. NoWriteParsed' /\ WorkflowBounded'
  BY <1>1, <1>3 DEF NoWriteParsed, CoreIInv, WorkflowBounded
<1> QED  BY <1>5, <1>6, <1>7, <1>8 DEF CoreIInv

\* A write starts by spending its approval.
LEMMA RunWriteKeeps ==
  ASSUME CoreIInv, NEW k \in Calls, RunWrite(k)
  PROVE  CoreIInv'
<1> DEFINE t == call[k].tool
           c == [call[k] EXCEPT !.st = "exec"]
<1>1. /\ call[k].st = "verify" /\ call[k].skill = "write" /\ conf[t].st = "approved"
      /\ conf' = [Pruned EXCEPT ![t] = NoConf] /\ ran' = [ran EXCEPT ![t] = ran[t] + 1] /\ call' = [call EXCEPT ![k] = c]
      /\ UNCHANGED <<parser, grants, epoch, refusals, made, events, window, waiter, approved, wf>>
  BY DEF RunWrite
<1>2. call[k].st \in OnItsWay /\ call[k] \in [st : OnItsWay, skill : Skills, tool : BridgeToolCalls, try : {1, 2}, wf : BOOLEAN]
  BY <1>1, CallKinds DEF CoreIInv, CallSet, CallIdle, OnItsWay
<1>3. ~parser /\ t \in BridgeToolCalls
  BY <1>1, <1>2 DEF CoreIInv, NoWriteParsed
<1>4. c \in CallSet /\ c.st = "exec"
  BY <1>2 DEF CallSet, OnItsWay
<1> HIDE DEF c
<1>5. conf' \in [BridgeToolCalls -> ConfSet]
  BY <1>1, <1>3, PrunedConf DEF ConfSet
<1>6. BridgeTypes'
  BY <1>1, <1>3, <1>4, <1>5 DEF CoreIInv, BridgeTypes
<1>7. \A s \in BridgeToolCalls : conf'[s] = NoConf \/ conf'[s].st = conf[s].st
  BY <1>1, <1>3, PrunedConf
<1>8. conf'[t] = NoConf /\ ran'[t] = ran[t] + 1 /\ \A s \in BridgeToolCalls : s # t => ran'[s] = ran[s]
  BY <1>1, <1>3, PrunedConf DEF CoreIInv, BridgeTypes
<1>9. ApprovalKept'
  <2>1. ran[t] + 1 <= approved[t].n
    BY <1>1, <1>3 DEF CoreIInv, ApprovalKept, BridgeTypes
  <2>2. conf'[t].st # "approved"
    BY <1>8 DEF NoConf
  <2>3. \A s \in BridgeToolCalls : IF conf'[s].st = "approved" THEN ran[s] < approved[s].n ELSE ran[s] <= approved[s].n
    BY <1>5, <1>7, ForgettingKeeps
  <2>4. approved' = approved
    BY <1>1
  <2> QED  BY <1>8, <2>1, <2>2, <2>3, <2>4 DEF ApprovalKept
<1>10. ApprovedHere'
  BY <1>1, <1>3, <1>5, <1>7, ForgettingKeeps DEF ApprovedHere, CoreIInv
<1>11. WaitersLive'
  BY <1>1, <1>4 DEF WaitersLive, CoreIInv, BridgeTypes
<1>12. NoWriteParsed' /\ WorkflowBounded'
  BY <1>1, <1>3 DEF NoWriteParsed, CoreIInv, WorkflowBounded
<1> QED  BY <1>6, <1>9, <1>10, <1>11, <1>12 DEF CoreIInv

\* bridge.policy.replace: a new epoch, and no confirmation survives it.
LEMMA ReplaceKeeps ==
  ASSUME BridgeAssumption, CoreIInv, NEW p \in SUBSET Skills, Replace(p)
  PROVE  CoreIInv'
<1>1. /\ epoch' = epoch + 1 /\ UNCHANGED <<parser, call, made, events, window, waiter, approved, ran, wf>>
      /\ \/ PolicyParses(p) /\ grants' = p /\ conf' = [t \in BridgeToolCalls |-> NoConf] /\ UNCHANGED refusals
         \/ ~PolicyParses(p) /\ refusals' = refusals + 1 /\ UNCHANGED <<grants, conf>>
  BY DEF Replace
<1>2. CASE PolicyParses(p) /\ grants' = p /\ conf' = [t \in BridgeToolCalls |-> NoConf] /\ UNCHANGED refusals
  <2>1. BridgeTypes'
    BY <1>1, <1>2 DEF CoreIInv, BridgeTypes, ConfSet
  <2>2. ApprovalKept' /\ ApprovedHere'
    <3>1. \A t \in BridgeToolCalls : conf'[t].st # "approved" /\ ran[t] <= approved[t].n
      BY <1>2 DEF NoConf, CoreIInv, ApprovalKept, BridgeTypes
    <3> QED  BY <1>1, <1>2, <3>1 DEF ApprovalKept, ApprovedHere, CoreIInv
  <2>3. NoWriteParsed' /\ WaitersLive' /\ WorkflowBounded'
    BY <1>1, <1>2 DEF CoreIInv, NoWriteParsed, WaitersLive, WorkflowBounded, PolicyParses
  <2> QED  BY <2>1, <2>2, <2>3 DEF CoreIInv
<1>3. CASE ~PolicyParses(p) /\ refusals' = refusals + 1 /\ UNCHANGED <<grants, conf>>
  <2>1. parser  BY <1>3 DEF PolicyParses
  <2>2. BridgeTypes'
    BY <1>1, <1>3 DEF CoreIInv, BridgeTypes
  <2>3. ApprovalKept' /\ ApprovedHere'
    BY <1>1, <1>3, <2>1 DEF CoreIInv, ApprovalKept, ApprovedHere, NoWriteParsed, NoConf
  <2>4. NoWriteParsed' /\ WaitersLive' /\ WorkflowBounded'
    BY <1>1, <1>3 DEF CoreIInv, NoWriteParsed, WaitersLive, WorkflowBounded
  <2> QED  BY <2>2, <2>3, <2>4 DEF CoreIInv
<1> QED  BY <1>1, <1>2, <1>3

\* confirm.respond: one answer to what is pending; nobody waits for t any longer.
LEMMA RespondKeeps ==
  ASSUME CoreIInv, NEW id, NEW t \in BridgeToolCalls, NEW ok \in BOOLEAN, Respond(id, t, ok),
         UNCHANGED <<parser, grants, epoch, refusals, made, ran, wf>>, events' \subseteq events,
         window' \in {window, NoConf}
  PROVE  CoreIInv'
<1> DEFINE good == Answerable(id, t)
           cs == Settled(call, t, good /\ ok)
           st == IF ok THEN "approved" ELSE "denied"
           x == [n |-> approved[t].n + 1, epoch |-> epoch]
<1>1. /\ conf' = IF good THEN [conf EXCEPT ![t].st = st] ELSE conf
      /\ approved' = IF good /\ ok THEN [approved EXCEPT ![t] = x] ELSE approved
      /\ call' = IF waiter[t] THEN cs ELSE call
      /\ waiter' = [waiter EXCEPT ![t] = FALSE]
  BY DEF Respond
<1>2. good => conf[t].st = "pending" /\ conf[t] # NoConf
  BY DEF Answerable, NoConf
<1>3. good \in BOOLEAN /\ (good => ~parser)
  BY <1>2 DEF CoreIInv, NoWriteParsed, Answerable
<1> HIDE DEF good
<1>4. /\ call' \in [Calls -> CallSet]
      /\ \A j \in Calls : /\ call'[j].st = "wait" => call'[j] = call[j] /\ call[j].tool # t
                          /\ call'[j].st \in OnItsWay => call[j].st \in OnItsWay /\ call'[j].skill = call[j].skill
  <2>1. CASE waiter[t]
    <3>1. PICK g \in BOOLEAN : call' = Settled(call, t, g)
      <4>1. (good /\ ok) \in BOOLEAN  BY <1>3
      <4> QED  BY <1>1, <2>1, <4>1
    <3> QED  BY <3>1, SettledCalls
  <2>2. CASE ~waiter[t]
    BY <1>1, <2>2 DEF CoreIInv, BridgeTypes, WaitersLive
  <2> QED  BY <2>1, <2>2
<1>5. conf' \in [BridgeToolCalls -> ConfSet] /\ \A s \in BridgeToolCalls : s # t => conf'[s] = conf[s]
  <2>1. CASE good
    <3>1. [conf[t] EXCEPT !.st = st] \in ConfSet
      BY <1>2, <2>1 DEF CoreIInv, BridgeTypes, ConfSet
    <3>2. conf' = [conf EXCEPT ![t] = [conf[t] EXCEPT !.st = st]]
      BY <1>1, <2>1
    <3> HIDE DEF st
    <3> QED  BY <3>1, <3>2 DEF CoreIInv, BridgeTypes
  <2>2. CASE ~good
    BY <1>1, <2>2 DEF CoreIInv, BridgeTypes
  <2> QED  BY <2>1, <2>2
<1>6. approved' \in [BridgeToolCalls -> [n : Nat, epoch : Nat]] /\ \A s \in BridgeToolCalls : s # t => approved'[s] = approved[s]
  <2>1. x \in [n : Nat, epoch : Nat]
    BY DEF CoreIInv, BridgeTypes
  <2> HIDE DEF x
  <2> QED  BY <1>1, <2>1 DEF CoreIInv, BridgeTypes
<1>7. BridgeTypes'
  <2>1. waiter' \in [BridgeToolCalls -> BOOLEAN]  BY <1>1 DEF CoreIInv, BridgeTypes
  <2> QED  BY <1>4, <1>5, <1>6, <2>1 DEF CoreIInv, BridgeTypes
<1>8. /\ IF conf'[t].st = "approved" THEN ran[t] < approved'[t].n ELSE ran[t] <= approved'[t].n
      /\ conf'[t].st = "approved" => approved'[t].epoch = epoch
  <2>0. ran[t] \in Nat /\ approved[t].n \in Nat /\ conf \in [BridgeToolCalls -> ConfSet]
        /\ approved \in [BridgeToolCalls -> [n : Nat, epoch : Nat]]
    BY DEF CoreIInv, BridgeTypes
  <2>1. /\ IF conf[t].st = "approved" THEN ran[t] < approved[t].n ELSE ran[t] <= approved[t].n
        /\ conf[t].st = "approved" => approved[t].epoch = epoch
    BY DEF CoreIInv, ApprovalKept, ApprovedHere
  <2>2. CASE good /\ ok
    <3>1. approved'[t] = x /\ ran[t] <= approved[t].n
      BY <1>1, <1>2, <2>0, <2>1, <2>2
    <3> QED  BY <2>0, <3>1
  <2>3. CASE good /\ ~ok
    <3>1. conf'[t].st = "denied" /\ approved' = approved
      BY <1>1, <1>2, <2>0, <2>3 DEF ConfSet
    <3> QED  BY <1>2, <2>1, <2>3, <3>1
  <2>4. CASE ~good
    BY <1>1, <2>1, <2>4
  <2> QED  BY <2>2, <2>3, <2>4
<1>9. ApprovalKept' /\ ApprovedHere'
  BY <1>5, <1>6, <1>8 DEF CoreIInv, ApprovalKept, ApprovedHere
<1>10. WaitersLive'
  <2> SUFFICES ASSUME NEW j \in Calls, call'[j].st = "wait" PROVE waiter'[call'[j].tool]
    BY DEF WaitersLive
  <2> QED  BY <1>1, <1>4 DEF CoreIInv, BridgeTypes, WaitersLive
<1>11. NoWriteParsed'
  BY <1>1, <1>3, <1>4 DEF CoreIInv, NoWriteParsed
<1>12. WorkflowBounded'
  BY DEF CoreIInv, WorkflowBounded
<1> QED  BY <1>7, <1>9, <1>10, <1>11, <1>12 DEF CoreIInv

\* openConfirmation: shown, or denied at once.
LEMMA ShowKeeps ==
  ASSUME CoreIInv, NEW e \in events, Show(e)
  PROVE  CoreIInv'
<1>1. e \in [id : Nat, tool : BridgeToolCalls]
  BY DEF CoreIInv, BridgeTypes
<1>2. events' = events \ {e} /\ UNCHANGED <<parser, grants, epoch, refusals, made, ran, wf>>
  BY DEF Show
<1>3. CASE Respond(e.id, e.tool, FALSE) /\ UNCHANGED window
  BY <1>1, <1>2, <1>3, RespondKeeps
<1>4. CASE window' = [st |-> "open", id |-> e.id, tool |-> e.tool] /\ UNCHANGED <<conf, approved, call, waiter>>
  <2>1. BridgeTypes'
    BY <1>1, <1>2, <1>4 DEF CoreIInv, BridgeTypes
  <2> QED  BY <1>2, <1>4, <2>1 DEF CoreIInv, ApprovalKept, ApprovedHere, NoWriteParsed, WaitersLive, WorkflowBounded
<1> QED  BY <1>3, <1>4 DEF Show

\* The user's answer, or the window's own timer.
LEMMA ClickKeeps ==
  ASSUME CoreIInv, NEW ok \in BOOLEAN, Click(ok)
  PROVE  CoreIInv'
<1>1. window.tool \in BridgeToolCalls
  BY DEF CoreIInv, BridgeTypes, Click
<1> QED  BY <1>1, RespondKeeps DEF Click

\* A confirmation's five minutes pass: it keeps its state, and is live no more.
LEMMA ExpireKeeps ==
  ASSUME CoreIInv, NEW t \in BridgeToolCalls, Expire(t)
  PROVE  CoreIInv'
<1> DEFINE e == [conf[t] EXCEPT !.expired = TRUE]
<1>1. conf' = [conf EXCEPT ![t] = e] /\ conf[t] # NoConf
      /\ UNCHANGED <<parser, grants, epoch, refusals, call, made, events, window, waiter, approved, ran, wf>>
  BY DEF Expire
<1>2. e \in ConfSet /\ e.st = conf[t].st
  <2>1. conf[t] \in [st : {"pending", "approved", "denied"}, id : Nat, expired : BOOLEAN]
    BY <1>1 DEF CoreIInv, BridgeTypes, ConfSet
  <2> QED  BY <2>1 DEF ConfSet
<1> HIDE DEF e
<1>3. BridgeTypes'
  BY <1>1, <1>2 DEF CoreIInv, BridgeTypes
<1>4. \A s \in BridgeToolCalls : conf'[s].st = conf[s].st
  BY <1>1, <1>2 DEF CoreIInv, BridgeTypes
<1>5. ApprovalKept' /\ ApprovedHere'
  BY <1>1, <1>4 DEF CoreIInv, ApprovalKept, ApprovedHere
<1>6. NoWriteParsed' /\ WaitersLive' /\ WorkflowBounded'
  BY <1>1 DEF CoreIInv, NoWriteParsed, WaitersLive, WorkflowBounded
<1> QED  BY <1>3, <1>5, <1>6 DEF CoreIInv

\* main.ts: the waiter's timer ends every call that waits for it.
LEMMA WaiterExpiresKeeps ==
  ASSUME CoreIInv, NEW t \in BridgeToolCalls, WaiterExpires(t)
  PROVE  CoreIInv'
<1>1. /\ waiter' = [waiter EXCEPT ![t] = FALSE] /\ call' = Refused(t)
      /\ UNCHANGED <<parser, grants, epoch, refusals, conf, made, events, window, approved, ran, wf>>
  BY DEF WaiterExpires, Refused
<1>2. BridgeTypes'
  BY <1>1, RefusedCalls DEF CoreIInv, BridgeTypes
<1>3. WaitersLive'
  <2> SUFFICES ASSUME NEW j \in Calls, call'[j].st = "wait" PROVE waiter'[call'[j].tool]
    BY DEF WaitersLive
  <2>1. call'[j] = call[j] /\ call[j].tool # t
    BY <1>1, RefusedCalls
  <2> QED  BY <1>1, <2>1 DEF CoreIInv, BridgeTypes, WaitersLive
<1>4. NoWriteParsed'
  <2>1. \A k \in Calls : call'[k].st \in OnItsWay => call[k].st \in OnItsWay /\ call'[k].skill = call[k].skill
    BY <1>1, RefusedCalls
  <2> QED  BY <1>1, <2>1 DEF CoreIInv, NoWriteParsed
<1>5. ApprovalKept' /\ ApprovedHere' /\ WorkflowBounded'
  BY <1>1 DEF CoreIInv, ApprovalKept, ApprovedHere, WorkflowBounded
<1> QED  BY <1>2, <1>3, <1>4, <1>5 DEF CoreIInv

\* BoundedWorkflowEngine: its steps, and nothing else of the bridge.
LEMMA WorkflowAlone ==
  ASSUME CoreIInv, wf' \in WfSet, WorkflowBounded',
         UNCHANGED <<parser, grants, epoch, refusals, call, conf, made, events, window, waiter, approved, ran>>
  PROVE  CoreIInv'
BY DEF CoreIInv, BridgeTypes, ApprovalKept, ApprovedHere, NoWriteParsed, WaitersLive

\* What a workflow's run can be.
LEMMA WorkflowKinds ==
  ASSUME CoreIInv, wf.st # "idle"
  PROVE  /\ wf \in WfRun
         /\ wf.denied => wf.st = "failed"
BY DEF CoreIInv, BridgeTypes, WfSet, WorkflowBounded

\* A run of the type that failed if a confirmation was denied.
LEMMA WorkflowFine ==
  ASSUME BridgeAssumption, wf' \in WfRun, wf'.denied => wf'.st = "failed"
  PROVE  wf' \in WfSet /\ WorkflowBounded'
BY DEF WfSet, WfRun, WorkflowBounded, BridgeAssumption

\* runWorkflow: a run starts with no step done.
LEMMA WorkflowStartsKeeps ==
  ASSUME BridgeAssumption, CoreIInv, WorkflowStarts
  PROVE  CoreIInv'
<1>1. wf' \in WfSet
  BY DEF WorkflowStarts, WfSet, WfRun, CoreIInv, BridgeTypes, BridgeAssumption
<1>2. WorkflowBounded'
  BY DEF WorkflowStarts, WorkflowBounded, BridgeAssumption
<1> QED  BY <1>1, <1>2, WorkflowAlone DEF WorkflowStarts

\* A confirmation step: denied, it ends the run.
LEMMA WorkflowConfirmsKeeps ==
  ASSUME BridgeAssumption, CoreIInv, NEW ok \in BOOLEAN, WorkflowConfirms(ok)
  PROVE  CoreIInv'
<1>1. wf.st = "step" /\ wf.steps < WorkflowSteps
      /\ wf' = [wf EXCEPT !.steps = @ + 1, !.st = IF ok THEN "step" ELSE "failed", !.denied = ~ok]
  BY DEF WorkflowConfirms
<1>2. wf' \in WfRun /\ (wf'.denied => wf'.st = "failed")
  <2>1. wf \in WfRun  BY <1>1, WorkflowKinds
  <2>2. wf.steps + 1 \in 0..WorkflowSteps  BY <1>1, <2>1 DEF WfRun, BridgeAssumption
  <2>3. CASE ok
    <3>1. wf' = [wf EXCEPT !.steps = @ + 1, !.st = "step", !.denied = FALSE]  BY <1>1, <2>3
    <3> QED  BY <2>1, <2>2, <3>1 DEF WfRun
  <2>4. CASE ~ok
    <3>1. wf' = [wf EXCEPT !.steps = @ + 1, !.st = "failed", !.denied = TRUE]  BY <1>1, <2>4
    <3> QED  BY <2>1, <2>2, <3>1 DEF WfRun
  <2> QED  BY <2>3, <2>4
<1> QED  BY <1>2, WorkflowFine, WorkflowAlone DEF WorkflowConfirms

\* A run ends.
LEMMA WorkflowEndsKeeps ==
  ASSUME BridgeAssumption, CoreIInv, WorkflowEnds
  PROVE  CoreIInv'
<1>1. wf.st = "step" /\ wf' = [wf EXCEPT !.st = "done"]
  BY DEF WorkflowEnds
<1>2. wf' \in WfRun /\ ~wf'.denied
  <2>1. wf \in WfRun /\ ~wf.denied  BY <1>1, WorkflowKinds
  <2> QED  BY <1>1, <2>1 DEF WfRun
<1> QED  BY <1>2, WorkflowFine, WorkflowAlone DEF WorkflowEnds

\* A Skill step: one more request of the bridge, or the run's end.
LEMMA WorkflowCallsKeeps ==
  ASSUME BridgeAssumption, CoreIInv, NEW k \in Calls, NEW s \in Skills, NEW t \in BridgeToolCalls,
         WorkflowCalls(k, s, t)
  PROVE  CoreIInv'
<1>1. PICK to \in {"called", "failed"} :
         /\ wf.st = "step" /\ wf.steps < WorkflowSteps /\ wf' = [wf EXCEPT !.steps = @ + 1, !.st = to]
         /\ Lookup(k, s, t, 1, TRUE) \/ UNCHANGED call
         /\ UNCHANGED <<parser, grants, epoch, refusals, conf, made, events, window, waiter, approved, ran>>
  BY DEF WorkflowCalls
<1>2. wf' \in WfRun /\ ~wf'.denied
  <2>1. wf \in WfRun /\ ~wf.denied  BY <1>1, WorkflowKinds
  <2>2. wf.steps + 1 \in 0..WorkflowSteps  BY <1>1, <2>1 DEF WfRun, BridgeAssumption
  <2> QED  BY <1>1, <2>1, <2>2 DEF WfRun
<1>3. wf' \in WfSet /\ WorkflowBounded'
  BY <1>2, WorkflowFine
<1>4. CASE UNCHANGED call
  BY <1>1, <1>3, <1>4, WorkflowAlone
<1>5. CASE Lookup(k, s, t, 1, TRUE)
  <2>1. PICK c \in CallSet : /\ call' = [call EXCEPT ![k] = c] /\ c.st # "wait"
                             /\ parser /\ c.st \in OnItsWay => c.skill = "read"
    BY <1>5, LookupGives
  <2>2. BridgeTypes'
    BY <1>1, <1>3, <2>1 DEF CoreIInv, BridgeTypes
  <2>3. WaitersLive' /\ NoWriteParsed'
    BY <1>1, <2>1 DEF CoreIInv, BridgeTypes, WaitersLive, NoWriteParsed
  <2> QED  BY <1>1, <1>3, <2>2, <2>3 DEF CoreIInv, ApprovalKept, ApprovedHere
<1> QED  BY <1>1, <1>4, <1>5

\* A step's result: the request is free again.
LEMMA WorkflowReturnsKeeps ==
  ASSUME BridgeAssumption, CoreIInv, NEW k \in Calls, WorkflowReturns(k)
  PROVE  CoreIInv'
<1>1. PICK to \in {"step", "failed"} :
         /\ wf.st = "called" /\ wf' = [wf EXCEPT !.st = to] /\ call' = [call EXCEPT ![k] = CallIdle]
         /\ UNCHANGED <<parser, grants, epoch, refusals, conf, made, events, window, waiter, approved, ran>>
  BY DEF WorkflowReturns
<1>2. wf' \in WfRun /\ ~wf'.denied
  <2>1. wf \in WfRun /\ ~wf.denied  BY <1>1, WorkflowKinds
  <2> QED  BY <1>1, <2>1 DEF WfRun
<1>3. wf' \in WfSet /\ WorkflowBounded'
  BY <1>2, WorkflowFine
<1>4. BridgeTypes'
  BY <1>1, <1>3 DEF CoreIInv, BridgeTypes, CallSet
<1>5. WaitersLive' /\ NoWriteParsed'
  BY <1>1 DEF CoreIInv, BridgeTypes, WaitersLive, NoWriteParsed, CallIdle, OnItsWay
<1> QED  BY <1>1, <1>3, <1>4, <1>5 DEF CoreIInv, ApprovalKept, ApprovedHere

\* Every step of Core and its bridge keeps the invariant.
LEMMA CoreStep == BridgeAssumption /\ CoreIInv /\ [CoreNext]_coreVars => CoreIInv'
<1> SUFFICES ASSUME BridgeAssumption, CoreIInv, [CoreNext]_coreVars PROVE CoreIInv'
  OBVIOUS
<1>1. CASE UNCHANGED coreVars
  BY <1>1 DEF coreVars, CoreIInv, BridgeTypes, ApprovalKept, ApprovedHere, NoWriteParsed, WaitersLive,
     WorkflowBounded
<1>2. ASSUME NEW k \in Calls, CallSteps(k) PROVE CoreIInv'
  <2>1. CASE Unentitled(k)
    BY <2>1, EndKeeps DEF Unentitled, OnItsWay
  <2>2. ASSUME NEW ok \in BOOLEAN, Executed(k, ok) PROVE CoreIInv'
    BY <2>2, EndKeeps DEF Executed, OnItsWay
  <2> QED  BY <1>2, <2>1, <2>2, RunReadKeeps, MakeKeeps, AwaitKeeps, RunWriteKeeps, AgainKeeps DEF CallSteps
<1>3. ASSUME NEW packs \in SUBSET Skills, NEW online \in BOOLEAN, Replace(Constrained(packs, online)) PROVE CoreIInv'
  <2>1. Constrained(packs, online) \in SUBSET Skills  BY DEF Constrained
  <2> QED  BY <1>3, <2>1, ReplaceKeeps
<1> QED
  BY <1>1, <1>2, <1>3, AskKeeps, ShowKeeps, ClickKeeps, ExpireKeeps, WaiterExpiresKeeps, WorkflowStartsKeeps,
     WorkflowConfirmsKeeps, WorkflowCallsKeeps, WorkflowReturnsKeeps, WorkflowEndsKeeps
  DEF CoreNext

\* What the run checks follows.
LEMMA CoreIsSafe == BridgeAssumption /\ CoreIInv => CoreInv
<1> SUFFICES ASSUME BridgeAssumption, CoreIInv PROVE CoreInv
  OBVIOUS
<1>1. CoreTypeOK
  BY CallKinds, ConfKinds DEF CoreTypeOK, CoreIInv, BridgeTypes, OnItsWay
<1>2. ApprovedOnce
  BY DEF CoreIInv, ApprovalKept, ApprovedOnce, BridgeTypes
<1>3. ApprovedNow
  BY DEF CoreIInv, ApprovedHere, NoWriteParsed, ApprovedNow, BridgeTypes, NoConf
<1> QED  BY <1>1, <1>2, <1>3 DEF CoreInv, CoreIInv

\* runtime.ts: in every behaviour of Core and its bridge, with any number of calls,
\* tool call ids, confirmations and policies, a write runs once per approval, under
\* the policy it was approved in, and no call waits for nobody.
THEOREM CoreIsConfirmed == CoreSpec => []CoreInv
BY CoreInitKeeps, CoreStep, CoreIsSafe, BridgeAssumption, PTL DEF CoreSpec

(***************************************************************************)
(* The Skill registry.  NothingLeft is about the moments between           *)
(* operations; a running one must know what to go back to: the registry     *)
(* and the grants it started from, which agreed (Recoverable), and each     *)
(* registry that was ever committed must load (RegOK).                      *)
(***************************************************************************)
\* A registry that a load accepts.
RegSet == [status : {"none", "installed", "revoked"}, active : SkillVersions \cup {0}, prev : SkillVersions \cup {0},
           vers : SUBSET SkillVersions, bind : [SkillAgents -> {"none", "on", "off"}]]
RegOK(r) ==
  /\ r \in RegSet /\ r.active \in r.vers \cup {0} /\ r.prev \in r.vers \cup {0} /\ Valid(r)
  /\ r.status = "none" => r.vers = {}

\* What the running operation carries.
SkillKinds == {"install", "upgrade", "enable", "disable", "rollback", "revoke", "uninstall"}
OpOK(o) ==
  \/ o \in {NoOp, Unloaded}
  \/ /\ o.pc \in {"verify", "mutate"} /\ o.kind \in SkillKinds /\ o.agent \in SkillAgents
     /\ o.kind \in {"install", "upgrade"} => o.ver \in SkillVersions
  \/ o.pc \in {"core", "undo"} /\ RegOK(o.reg)

\* Before an operation has changed anything, and when none runs, all agree.
Agreeing(r, held, core, list) == core = held /\ held \subseteq Desired(r) /\ list \subseteq held

\* What holds in between: an operation knows the agreement that it left.
Recoverable ==
  /\ sop = NoOp \/ sop.pc \in {"verify", "mutate"} => Agreeing(file, bound, inCore, shown)
  /\ sop # NoOp /\ sop.pc \in {"core", "undo"} => sop.was \subseteq Desired(sop.reg) /\ shown \subseteq sop.was
  /\ sop # NoOp /\ sop.pc = "core" => bound = Desired(file) /\ inCore = bound

\* The file that a started registry has loads; a refused one is that of the first commit.
FileKept ==
  /\ commits \in 0..2
  /\ sop # Unloaded => RegOK(file)
  /\ sop = Unloaded => file = Error /\ commits = 1

\* The inductive invariant.
SkillIInv == FileKept /\ RegOK(bak) /\ OpOK(sop) /\ sok \in BOOLEAN /\ (sok => Recoverable)

\* skill-registry.ts: what each operation of the registry makes loads again, if it is valid.
LEMMA AbsentLoads == RegOK(Absent)
BY DEF Absent, RegOK, RegSet, Valid

\* A version is installed next to those that are there.
LEMMA InstallLoads ==
  ASSUME NEW r, RegOK(r), NEW v \in SkillVersions
  PROVE  RegOK(InstallSkill(r, v))
<1>1. CASE v \in r.vers
  BY <1>1 DEF InstallSkill, RegOK
<1>2. CASE v \notin r.vers /\ r.status = "none"
  <2>1. InstallSkill(r, v) = [r EXCEPT !.status = "installed", !.active = v, !.vers = {v}]
    BY <1>2 DEF InstallSkill
  <2> DEFINE n == [r EXCEPT !.status = "installed", !.active = v, !.vers = {v}]
  <2>2. r \in RegSet /\ r.prev = 0
    BY <1>2 DEF RegOK
  <2>3. n \in RegSet /\ n.status = "installed" /\ n.active = v /\ n.vers = {v} /\ n.prev = r.prev
    BY <2>2 DEF RegSet
  <2> HIDE DEF n
  <2>4. RegOK(n)
    BY <2>2, <2>3 DEF RegOK, Valid
  <2> QED  BY <2>1, <2>4 DEF n
<1>3. CASE v \notin r.vers /\ r.status # "none"
  <2>1. InstallSkill(r, v)
          = [r EXCEPT !.status = "installed", !.active = v, !.prev = r.active, !.vers = @ \cup {v}]
    BY <1>3 DEF InstallSkill
  <2> DEFINE n == [r EXCEPT !.status = "installed", !.active = v, !.prev = r.active, !.vers = @ \cup {v}]
  <2>2. r \in RegSet /\ r.active \in r.vers \cup {0}
    BY DEF RegOK
  <2>3. n \in RegSet /\ n.status = "installed" /\ n.active = v /\ n.vers = r.vers \cup {v} /\ n.prev = r.active
    BY <2>2 DEF RegSet
  <2> HIDE DEF n
  <2>4. RegOK(n)
    BY <2>2, <2>3 DEF RegOK, Valid
  <2> QED  BY <2>1, <2>4 DEF n
<1> QED  BY <1>1, <1>2, <1>3

\* An operation that throws makes no state.
LEMMA ErrorIsInvalid == ~Valid(Error)
BY DEF Error, Absent, Valid

\* A Skill is bound to an agent.
LEMMA BindLoads ==
  ASSUME NEW r, RegOK(r), NEW a \in SkillAgents, Valid(Bind(r, a))
  PROVE  RegOK(Bind(r, a))
<1>1. r.status = "installed" /\ Bind(r, a) = [r EXCEPT !.bind[a] = "on"]
  BY ErrorIsInvalid DEF Bind
<1>2. [r.bind EXCEPT ![a] = "on"] \in [SkillAgents -> {"none", "on", "off"}]
  BY DEF RegOK, RegSet
<1> QED  BY <1>1, <1>2 DEF RegOK, RegSet

\* A binding is enabled or disabled.
LEMMA EnableLoads ==
  ASSUME NEW r, RegOK(r), NEW a \in SkillAgents, NEW b \in {"on", "off"}, Valid(SetBindingEnabled(r, a, b))
  PROVE  RegOK(SetBindingEnabled(r, a, b))
<1>1. SetBindingEnabled(r, a, b) = [r EXCEPT !.bind[a] = b]
  BY ErrorIsInvalid DEF SetBindingEnabled
<1>2. [r.bind EXCEPT ![a] = b] \in [SkillAgents -> {"none", "on", "off"}]
  BY DEF RegOK, RegSet
<1> QED  BY <1>1, <1>2 DEF RegOK, RegSet

\* The version before is the active one again.
LEMMA RollbackLoads ==
  ASSUME NEW r, RegOK(r), Valid(RollbackSkill(r))
  PROVE  RegOK(RollbackSkill(r))
<1>1. RollbackSkill(r) = [r EXCEPT !.active = r.prev, !.prev = r.active]
  BY ErrorIsInvalid DEF RollbackSkill
<1> QED  BY <1>1 DEF RegOK, RegSet

\* A revoked Skill has no enabled binding.
LEMMA RevokeLoads ==
  ASSUME NEW r, RegOK(r), Valid(MarkRevoked(r))
  PROVE  RegOK(MarkRevoked(r))
<1> DEFINE off == [a \in SkillAgents |-> IF r.bind[a] = "none" THEN "none" ELSE "off"]
<1>1. MarkRevoked(r) = [r EXCEPT !.status = "revoked", !.bind = off]
  BY ErrorIsInvalid DEF MarkRevoked
<1>2. off \in [SkillAgents -> {"none", "on", "off"}]
  OBVIOUS
<1> HIDE DEF off
<1> QED  BY <1>1, <1>2 DEF RegOK, RegSet

\* A removed Skill leaves nothing.
LEMMA RemoveLoads ==
  ASSUME NEW r, RegOK(r), Valid(RemoveSkill(r))
  PROVE  RegOK(RemoveSkill(r))
BY AbsentLoads, ErrorIsInvalid DEF RemoveSkill

\* What an installation commits first is a registry of its own.
LEMMA BetweenLoads ==
  ASSUME SkillIInv, sop # NoOp, sop.pc = "mutate"
  PROVE  RegOK(Between(sop))
<1>1. RegOK(file) /\ (sop.kind = "install" => sop.ver \in SkillVersions)
  BY DEF SkillIInv, FileKept, OpOK, NoOp, Unloaded
<1>2. CASE sop.kind = "install"
  BY <1>1, <1>2, InstallLoads DEF Between
<1>3. CASE sop.kind # "install"
  BY <1>1, <1>3 DEF Between
<1> QED  BY <1>2, <1>3

\* What the running operation commits.
LEMMA ResultLoads ==
  ASSUME SkillIInv, sop # NoOp, sop.pc = "mutate", Valid(Result(sop))
  PROVE  RegOK(Result(sop))
<1>1. sop.kind \in SkillKinds /\ sop.agent \in SkillAgents /\ RegOK(file)
      /\ (sop.kind \in {"install", "upgrade"} => sop.ver \in SkillVersions)
  BY DEF SkillIInv, FileKept, OpOK, NoOp, Unloaded
<1>2. CASE sop.kind = "install"
  BY <1>1, <1>2, InstallLoads, BindLoads DEF Result
<1>3. CASE sop.kind = "upgrade"
  BY <1>1, <1>3, InstallLoads DEF Result
<1>4. CASE sop.kind = "enable"
  BY <1>1, <1>4, EnableLoads DEF Result
<1>5. CASE sop.kind = "disable"
  BY <1>1, <1>5, EnableLoads DEF Result
<1>6. CASE sop.kind = "rollback"
  BY <1>1, <1>6, RollbackLoads DEF Result
<1>7. CASE sop.kind = "revoke"
  BY <1>1, <1>7, RevokeLoads DEF Result
<1>8. CASE sop.kind = "uninstall"
  BY <1>1, <1>8, RemoveLoads DEF Result
<1> QED  BY <1>1, <1>2, <1>3, <1>4, <1>5, <1>6, <1>7, <1>8 DEF SkillKinds

\* The backup is a registry that the file held.
LEMMA BackupLoads ==
  ASSUME NEW mid, NEW r, FileKept, RegOK(file), RegOK(bak), RegOK(mid), RegOK(r), Committed(mid, r)
  PROVE  RegOK(file') /\ RegOK(bak') /\ commits' \in 0..2
<1>1. commits \in 0..2  BY DEF FileKept
<1>2. file' = r /\ bak' \in {mid, file, bak}
  <2>1. CASE r # mid  BY <1>1, <2>1 DEF Committed
  <2>2. CASE r = mid  BY <1>1, <2>2 DEF Committed
  <2> QED  BY <2>1, <2>2
<1>3. commits' \in 0..2  BY <1>1 DEF Committed
<1> QED  BY <1>2, <1>3

\* Without a registry file all agree on nothing.
LEMMA SkillInitKeeps == SkillInit => SkillIInv
BY AbsentLoads DEF SkillInit, SkillIInv, FileKept, OpOK, Recoverable, Agreeing, NoOp, Unloaded

\* An operation begins.
LEMMA PerformKeeps ==
  ASSUME SkillIInv, NEW k \in SkillKinds, NEW v \in SkillVersions \cup {0}, NEW a \in SkillAgents,
         k \in {"install", "upgrade"} => v # 0, Perform(k, v, a)
  PROVE  SkillIInv'
<1>1. /\ sop = NoOp /\ sop' = [pc |-> "verify", kind |-> k, ver |-> v, agent |-> a]
      /\ UNCHANGED <<file, bak, commits, bound, inCore, shown, sok>>
  BY DEF Perform
<1>2. OpOK(sop') /\ sop # Unloaded /\ sop' # Unloaded
  BY <1>1 DEF OpOK, NoOp, Unloaded
<1>3. sok => Recoverable'
  BY <1>1 DEF SkillIInv, Recoverable, NoOp
<1> QED  BY <1>1, <1>2, <1>3 DEF SkillIInv, FileKept

\* verifyInstallInput answers, or ends the operation.
LEMMA VerifyKeeps ==
  ASSUME SkillIInv, VerifySkill
  PROVE  SkillIInv'
<1>1. /\ sop # NoOp /\ sop.pc = "verify" /\ UNCHANGED <<file, bak, commits, bound, inCore, shown, sok>>
      /\ sop' = [sop EXCEPT !.pc = "mutate"] \/ sop' = NoOp
  BY DEF VerifySkill
<1>2. FileKept' /\ sop # Unloaded
  <2>1. OpOK(sop)  BY DEF SkillIInv
  <2>2. sop # Unloaded  BY <1>1 DEF Unloaded
  <2>3. sop' # Unloaded  BY <1>1, <2>1, <2>2 DEF OpOK, NoOp, Unloaded
  <2> QED  BY <1>1, <2>2, <2>3 DEF SkillIInv, FileKept
<1>3. CASE sop' = NoOp
  BY <1>1, <1>2, <1>3 DEF SkillIInv, OpOK, Recoverable, NoOp
<1>4. CASE sop' = [sop EXCEPT !.pc = "mutate"]
  <2>1. OpOK(sop') /\ sop'.pc = "mutate"
    BY <1>1, <1>2, <1>4 DEF SkillIInv, OpOK
  <2> QED  BY <1>1, <1>2, <2>1 DEF SkillIInv, Recoverable
<1> QED  BY <1>1, <1>3, <1>4

\* transact: the registry as committed, and the snapshot of what was before.
LEMMA TransactKeeps ==
  ASSUME SkillIInv, Transact
  PROVE  SkillIInv'
<1>1. sop # NoOp /\ sop.pc = "mutate" /\ UNCHANGED <<shown, sok>>
  BY DEF Transact
<1>2. RegOK(file) /\ RegOK(bak) /\ FileKept
  BY <1>1 DEF SkillIInv, FileKept, Unloaded
<1>3. CASE ~Valid(Result(sop))
  <2>1. sop' = NoOp /\ Committed(Between(sop), file) /\ UNCHANGED <<bound, inCore>>
    BY <1>3 DEF Transact
  <2>2. RegOK(file') /\ RegOK(bak') /\ commits' \in 0..2
    BY <1>1, <1>2, <2>1, BetweenLoads, BackupLoads
  <2>3. file' = file  BY <2>1 DEF Committed
  <2> QED  BY <1>1, <2>1, <2>2, <2>3 DEF SkillIInv, FileKept, OpOK, Recoverable, NoOp, Unloaded
<1>4. CASE Valid(Result(sop))
  <2>1. /\ Committed(Between(sop), Result(sop)) /\ bound' = Desired(Result(sop)) /\ inCore' = Desired(Result(sop))
        /\ sop' = [pc |-> "core", kind |-> sop.kind, reg |-> file, was |-> bound]
    BY <1>4 DEF Transact
  <2>2. RegOK(file') /\ RegOK(bak') /\ commits' \in 0..2
    BY <1>1, <1>2, <1>4, <2>1, BetweenLoads, BackupLoads, ResultLoads
  <2>3. file' = Result(sop)  BY <2>1 DEF Committed
  <2>4. OpOK(sop') /\ sop' # Unloaded
    BY <1>2, <2>1 DEF OpOK, Unloaded
  <2>5. sok => Recoverable'
    BY <1>1, <2>1, <2>3 DEF SkillIInv, Recoverable, Agreeing, NoOp
  <2> QED  BY <1>1, <2>2, <2>4, <2>5 DEF SkillIInv, FileKept
<1> QED  BY <1>3, <1>4

\* The refresh in Core answers, or fails with or without effect.
LEMMA CoreAnswersKeeps ==
  ASSUME SkillIInv, CoreAnswers
  PROVE  SkillIInv'
<1>1. sop # NoOp /\ sop # Unloaded /\ sop.pc = "core" /\ UNCHANGED <<file, bak, commits, bound, sok>>
  BY DEF CoreAnswers, Unloaded
<1>2. CASE shown' = Desired(file) /\ sop' = NoOp /\ UNCHANGED inCore
  BY <1>1, <1>2 DEF SkillIInv, FileKept, OpOK, Recoverable, Agreeing, NoOp, Unloaded
<1>3. CASE sop' = [sop EXCEPT !.pc = "undo"] /\ UNCHANGED shown
  <2>1. sop'.pc = "undo" /\ sop'.reg = sop.reg /\ sop'.was = sop.was /\ RegOK(sop.reg)
    BY <1>1, <1>3 DEF SkillIInv, OpOK
  <2> QED  BY <1>1, <1>3, <2>1 DEF SkillIInv, FileKept, OpOK, Recoverable, NoOp, Unloaded
<1> QED  BY <1>2, <1>3 DEF CoreAnswers

\* Registry and grants are as they were, or it is known that they are not.
LEMMA CompensateKeeps ==
  ASSUME SkillIInv, Compensate
  PROVE  SkillIInv'
<1>1. sop # NoOp /\ sop.pc = "undo" /\ bound' = sop.was /\ sop' = NoOp /\ UNCHANGED shown
  BY DEF Compensate
<1>2. RegOK(sop.reg) /\ RegOK(file) /\ RegOK(bak) /\ FileKept
  BY <1>1 DEF SkillIInv, FileKept, OpOK, Unloaded
<1>3. CASE inCore' = sop.was /\ Committed(file, sop.reg) /\ UNCHANGED sok
  <2>1. RegOK(file') /\ RegOK(bak') /\ commits' \in 0..2
    BY <1>2, <1>3, BackupLoads
  <2>2. file' = sop.reg  BY <1>3 DEF Committed
  <2> QED  BY <1>1, <1>3, <2>1, <2>2 DEF SkillIInv, FileKept, OpOK, Recoverable, Agreeing, NoOp, Unloaded
<1>4. CASE sok' = FALSE /\ UNCHANGED <<file, bak, commits>>
  BY <1>1, <1>2, <1>4 DEF SkillIInv, FileKept, OpOK, NoOp, Unloaded
<1> QED  BY <1>3, <1>4 DEF Compensate

\* A crash, perhaps between two commits, or a damaged file: nothing is granted until the
\* next operation, and a file without a backup is refused.
LEMMA RestartKeeps ==
  ASSUME SkillIInv, SkillRestart
  PROVE  SkillIInv'
<1>1. bound' = {} /\ inCore' = {} /\ shown' = {} /\ sok' = TRUE
  BY DEF SkillRestart
<1>2. RegOK(file) /\ RegOK(bak) /\ FileKept
  BY DEF SkillIInv, FileKept, SkillRestart
<1>3. CASE commits = 1 /\ file' = Error /\ sop' = Unloaded /\ UNCHANGED <<bak, commits>>
  <2>1. FileKept'  BY <1>2, <1>3 DEF FileKept
  <2>2. Recoverable' /\ OpOK(sop')  BY <1>1, <1>3 DEF OpOK, Recoverable, Agreeing, NoOp, Unloaded
  <2> QED  BY <1>1, <1>2, <1>3, <2>1, <2>2 DEF SkillIInv
<1>4. CASE sop' = NoOp
  <2>1. RegOK(file') /\ RegOK(bak') /\ commits' \in 0..2
    <3>1. CASE UNCHANGED <<file, bak, commits>>
      BY <1>2, <3>1 DEF FileKept
    <3>2. CASE sop # NoOp /\ sop.pc = "mutate" /\ Committed(file, Between(sop))
      BY <1>2, <3>2, BetweenLoads, BackupLoads
    <3>3. CASE file' = bak /\ UNCHANGED <<bak, commits>>
      BY <1>2, <3>3 DEF FileKept
    <3>4. sop' # Unloaded  BY <1>4 DEF NoOp, Unloaded
    <3> QED  BY <3>1, <3>2, <3>3, <3>4 DEF SkillRestart
  <2>2. FileKept'  BY <1>4, <2>1 DEF FileKept, NoOp, Unloaded
  <2>3. Recoverable' /\ OpOK(sop')  BY <1>1, <1>4 DEF OpOK, Recoverable, Agreeing, NoOp
  <2> QED  BY <1>1, <2>1, <2>2, <2>3 DEF SkillIInv
<1> QED  BY <1>3, <1>4 DEF SkillRestart

\* Every step of the Skill's life keeps the invariant.
LEMMA SkillStep == SkillIInv /\ [SkillNext]_skillVars => SkillIInv'
<1> SUFFICES ASSUME SkillIInv, [SkillNext]_skillVars PROVE SkillIInv'
  OBVIOUS
<1>1. CASE UNCHANGED skillVars
  BY <1>1 DEF skillVars, SkillIInv, FileKept, Recoverable
<1>2. ASSUME NEW v \in SkillVersions, EntitlementMoves(v) PROVE SkillIInv'
  BY <1>2 DEF EntitlementMoves, SkillIInv, FileKept, Recoverable
<1>3. CASE SkillSteps
  BY <1>3, VerifyKeeps, TransactKeeps, CoreAnswersKeeps, CompensateKeeps DEF SkillSteps
<1> QED  BY <1>1, <1>2, <1>3, RestartKeeps, PerformKeeps DEF SkillNext, SkillKinds

\* What the run checks follows.
LEMMA SkillIsSafe == SkillIInv => SkillsInv
<1> SUFFICES ASSUME SkillIInv PROVE SkillsInv
  OBVIOUS
<1>1. SkillTypeOK /\ Loadable
  <2>1. CASE sop = Unloaded
    <3>1. file = Error /\ commits = 1  BY <2>1 DEF SkillIInv, FileKept
    <3>2. Error.vers = {} /\ Error.active = 0 /\ Error.prev = 0  BY DEF Error, Absent
    <3> QED  BY <2>1, <3>1, <3>2 DEF SkillTypeOK, Loadable
  <2>2. CASE sop # Unloaded
    BY <2>2 DEF SkillIInv, FileKept, RegOK, RegSet, SkillTypeOK, Loadable
  <2> QED  BY <2>1, <2>2
<1>2. NothingLeft /\ ShownIsGranted
  BY DEF SkillIInv, NothingLeft, ShownIsGranted, Recoverable, Agreeing
<1> QED  BY <1>1, <1>2 DEF SkillsInv

\* skill-registry.ts, skill-lifecycle-coordinator.ts: in every behaviour, with any number
\* of versions, agents, operations, failures and crashes, the registry loads from its
\* second commit on, and Core's grants and the Gateway's list agree with it between
\* operations, unless a compensation itself has failed.
THEOREM SkillsAgree == SkillSpec => []SkillsInv
BY SkillInitKeeps, SkillStep, SkillIsSafe, PTL DEF SkillSpec

(***************************************************************************)
(* The Manager's runtime control.  FlagMeansOurs is about one moment, the   *)
(* request that sets the flag acts on an earlier look: ReqFine says what    *)
(* its look is still worth, which rests on the lock (nobody else runs a     *)
(* command meanwhile) and on Noticed (whoever starts or stops a Gateway     *)
(* outside is remembered).                                                  *)
(***************************************************************************)
\* A request, and whether it is past actionMu.
Ats == {"idle", "lock", "look", "settle", "act", "flag", "prove", "register", "verify", "delete", "preflight", "npm"}
ReqSet == [at : Ats, kind : Kinds, confirm : BOOLEAN, installed : BOOLEAN, running : BOOLEAN, known : BOOLEAN,
           man : BOOLEAN, done : BOOLEAN, moved : BOOLEAN]
Holding(q) == q.kind \in Locked /\ q.at \notin {"idle", "lock"}

RtTypes ==
  /\ oc \in {"missing", "pinned", "other"} /\ gw \in BOOLEAN /\ managed \in BOOLEAN /\ swapped \in BOOLEAN
  /\ autostart \in {"absent", "ours", "foreign"} /\ owner \in {"us", "them"}
  /\ lock \in Requests \cup {"none"} /\ req \in [Requests -> ReqSet]

\* What a request under way knows of the Gateway (running g, somebody else's start
\* or stop since s, launched by o), of OpenClaw c and of the task t.
ReqFine(q, g, s, o, c, t) ==
  /\ q.at = "lock" => q.kind \in Locked
  /\ q.at \in {"act", "flag"} => /\ q.kind \in Controls
                                 /\ q.kind = "start" => q.known /\ ~q.running
                                 /\ q.kind = "restart" => q.known
  /\ q.kind \in Controls /\ q.at \in {"settle", "act"} /\ q.known /\ ~q.running => (g => s)
  /\ q.at = "flag" /\ (q.kind = "start" \/ (q.kind = "restart" /\ (q.man \/ ~q.running))) => (g /\ ~s => o = "us")
  /\ q.at = "npm" /\ ~q.moved => c # "other"
  /\ q.at = "delete" /\ ~q.moved => t # "foreign"

\* The inductive invariant.
RtIInv ==
  /\ RtTypes /\ FlagMeansOurs
  /\ \A r \in Requests : Holding(req[r]) <=> lock = r
  /\ \A r \in Requests : ReqFine(req[r], gw, swapped, owner, oc, autostart)

\* A step of one request that leaves the Gateway alone, and turns nothing foreign.
LEMMA OneMoves ==
  ASSUME RtIInv, NEW r \in Requests, NEW q \in ReqSet, req' = [req EXCEPT ![r] = q],
         UNCHANGED <<gw, owner, swapped>>, managed' \in BOOLEAN, managed' => managed \/ (gw /\ ~swapped => owner = "us"),
         oc' \in {"missing", "pinned", "other"}, autostart' \in {"absent", "ours", "foreign"},
         oc' = "other" => oc = "other", autostart' = "foreign" => autostart = "foreign",
         ReqFine(q, gw, swapped, owner, oc', autostart'),
         lock' \in Requests \cup {"none"}, Holding(q) <=> lock' = r, \A s \in Requests \ {r} : lock' = s <=> lock = s
  PROVE  RtIInv'
<1>1. RtTypes'
  BY DEF RtIInv, RtTypes
<1>2. FlagMeansOurs'
  BY DEF RtIInv, FlagMeansOurs
<1>3. ASSUME NEW s \in Requests PROVE Holding(req'[s]) <=> lock' = s
  <2>1. CASE s = r  BY <2>1 DEF RtIInv, RtTypes
  <2>2. CASE s # r
    <3>1. req'[s] = req[s]  BY <2>2 DEF RtIInv, RtTypes
    <3> QED  BY <2>2, <3>1 DEF RtIInv
  <2> QED  BY <2>1, <2>2
<1>4. ASSUME NEW s \in Requests PROVE ReqFine(req'[s], gw', swapped', owner', oc', autostart')
  <2>1. CASE s = r  BY <2>1 DEF RtIInv, RtTypes
  <2>2. CASE s # r
    <3>1. req'[s] = req[s]  BY <2>2 DEF RtIInv, RtTypes
    <3>2. ReqFine(req[s], gw, swapped, owner, oc, autostart)  BY DEF RtIInv
    <3> QED  BY <3>1, <3>2 DEF ReqFine
  <2> QED  BY <2>1, <2>2
<1> QED  BY <1>1, <1>2, <1>3, <1>4 DEF RtIInv

\* An idle request knows nothing and holds nothing.
LEMMA IdleIsFine ==
  ASSUME NEW g, NEW s, NEW o, NEW c, NEW t
  PROVE  Idle \in ReqSet /\ ~Holding(Idle) /\ ReqFine(Idle, g, s, o, c, t)
BY DEF Idle, ReqSet, Ats, Kinds, Locked, Controls, Holding, ReqFine

\* The handler's return gives the lock back.
LEMMA AnswerFrees ==
  ASSUME RtAssumption, RtIInv, NEW r \in Requests, Answer(r), UNCHANGED <<gw, owner, swapped>>, managed' \in BOOLEAN,
         managed' => managed, oc' \in {"missing", "pinned", "other"}, autostart' \in {"absent", "ours", "foreign"},
         oc' = "other" => oc = "other", autostart' = "foreign" => autostart = "foreign"
  PROVE  RtIInv'
<1>1. req' = [req EXCEPT ![r] = Idle] /\ lock' = IF lock = r THEN "none" ELSE lock
  BY DEF Answer
<1>2. lock' \in Requests \cup {"none"} /\ lock' # r /\ \A s \in Requests \ {r} : lock' = s <=> lock = s
  BY <1>1 DEF RtIInv, RtTypes, RtAssumption
<1>3. Idle \in ReqSet /\ ~Holding(Idle) /\ ReqFine(Idle, gw, swapped, owner, oc', autostart')
  BY IdleIsFine
<1> HIDE DEF Idle
<1> QED  BY <1>1, <1>2, <1>3, OneMoves

\* A request that goes on keeps the lock as it was.
LEMMA GoesOn ==
  ASSUME RtIInv, NEW r \in Requests, NEW q \in ReqSet, req' = [req EXCEPT ![r] = q],
         UNCHANGED <<gw, owner, swapped, lock>>, managed' \in BOOLEAN, managed' => managed \/ (gw /\ ~swapped => owner = "us"),
         oc' \in {"missing", "pinned", "other"}, autostart' \in {"absent", "ours", "foreign"},
         oc' = "other" => oc = "other", autostart' = "foreign" => autostart = "foreign",
         ReqFine(q, gw, swapped, owner, oc', autostart'), Holding(q) <=> Holding(req[r])
  PROVE  RtIInv'
<1>1. lock' \in Requests \cup {"none"} /\ (Holding(q) <=> lock' = r) /\ \A s \in Requests \ {r} : lock' = s <=> lock = s
  BY DEF RtIInv, RtTypes
<1> QED  BY <1>1, OneMoves

\* The closing inspection of a control or of a task's handler.
LEMMA ClosingIsFine ==
  ASSUME RtIInv, NEW r \in Requests, NEW g, NEW s, NEW o, NEW c, NEW t, req[r].at \notin {"idle", "lock"}
  PROVE  Closing(r) \in ReqSet /\ (Holding(Closing(r)) <=> Holding(req[r])) /\ ReqFine(Closing(r), g, s, o, c, t)
<1>1. req[r] \in ReqSet
  BY DEF RtIInv, RtTypes
<1>2. /\ Closing(r) \in ReqSet /\ Closing(r).at = "look" /\ Closing(r).kind = req[r].kind
  BY <1>1 DEF Closing, Idle, ReqSet, Ats
<1> QED  BY <1>2 DEF Holding, ReqFine

\* A handler begins: one that needs actionMu has not got it yet.
LEMMA ReceiveKeeps ==
  ASSUME RtIInv, NEW r \in Requests, NEW kind \in Kinds, NEW confirm \in BOOLEAN, Receive(r, kind, confirm)
  PROVE  RtIInv'
<1> DEFINE q == [Idle EXCEPT !.at = FirstStep(kind), !.kind = kind, !.confirm = confirm]
<1>1. req[r].at = "idle" /\ req' = [req EXCEPT ![r] = q] /\ UNCHANGED <<oc, gw, owner, swapped, managed, autostart, lock>>
  BY DEF Receive
<1>2. FirstStep(kind) \in {"lock", "look", "preflight"} /\ (kind \in Locked <=> FirstStep(kind) = "lock")
  BY DEF FirstStep, Kinds, Locked, Controls
<1>3. q \in ReqSet /\ q.at = FirstStep(kind) /\ q.kind = kind
  BY <1>2 DEF Idle, ReqSet, Ats
<1> HIDE DEF q
<1>4. ~Holding(q) /\ ~Holding(req[r]) /\ ReqFine(q, gw, swapped, owner, oc', autostart')
  BY <1>1, <1>2, <1>3 DEF Holding, ReqFine
<1> QED  BY <1>1, <1>3, <1>4, GoesOn DEF RtIInv, RtTypes

\* actionMu is taken by one request alone.
LEMMA TakeLockKeeps ==
  ASSUME RtAssumption, RtIInv, NEW r \in Requests, TakeLock(r)
  PROVE  RtIInv'
<1> DEFINE to == IF req[r].kind = "task-status" THEN "prove" ELSE "look"
           q == [req[r] EXCEPT !.at = to]
<1>1. /\ req[r].at = "lock" /\ lock = "none" /\ lock' = r /\ req' = [req EXCEPT ![r] = q]
      /\ UNCHANGED <<oc, gw, owner, swapped, managed, autostart>>
  BY DEF TakeLock, Move
<1>2. req[r] \in ReqSet
  BY DEF RtIInv, RtTypes
<1>3. q \in ReqSet /\ q.at \in {"prove", "look"} /\ q.kind = req[r].kind
  BY <1>2 DEF ReqSet, Ats
<1> HIDE DEF q
<1>4. Holding(q) /\ ReqFine(q, gw, swapped, owner, oc', autostart')
  <2>1. req[r].kind \in Locked  BY <1>1 DEF RtIInv, ReqFine
  <2> QED  BY <1>3, <2>1 DEF Holding, ReqFine
<1>5. lock' \in Requests \cup {"none"} /\ (Holding(q) <=> lock' = r) /\ \A s \in Requests \ {r} : lock' = s <=> lock = s
  BY <1>1, <1>4 DEF RtAssumption
<1> QED  BY <1>1, <1>3, <1>4, <1>5, OneMoves DEF RtIInv, RtTypes

\* What the CLI says is so.
LEMMA InspectKeeps ==
  ASSUME RtAssumption, RtIInv, NEW r \in Requests, Inspect(r)
  PROVE  RtIInv'
<1>1. req[r].at = "look" /\ UNCHANGED <<oc, gw, owner, swapped, managed, autostart>>
  BY DEF Inspect
<1>2. CASE Answer(r)
  BY <1>1, <1>2, AnswerFrees DEF RtIInv, RtTypes
<1>3. ASSUME NEW k \in BOOLEAN, NEW g \in BOOLEAN, g <=> k /\ gw, lock' = lock,
             req' = [req EXCEPT ![r].at = "settle", ![r].installed = Installed, ![r].known = k, ![r].running = g,
                                ![r].moved = FALSE]
      PROVE  RtIInv'
  <2> DEFINE q == [req[r] EXCEPT !.at = "settle", !.installed = Installed, !.known = k, !.running = g, !.moved = FALSE]
  <2>1. req[r] \in ReqSet /\ Installed \in BOOLEAN
    BY DEF RtIInv, RtTypes, Installed
  <2>2. q \in ReqSet /\ q.at = "settle" /\ q.kind = req[r].kind /\ q.known = k /\ q.running = g
    <3>1. q \in ReqSet  BY <2>1 DEF ReqSet, Ats
    <3>2. q.at = "settle" /\ q.kind = req[r].kind  BY <2>1 DEF ReqSet
    <3>3. q.known = k /\ q.running = g  BY <2>1 DEF ReqSet
    <3> QED  BY <3>1, <3>2, <3>3
  <2>3. req' = [req EXCEPT ![r] = q]
    BY <1>3 DEF RtIInv, RtTypes
  <2> HIDE DEF q
  <2>4. Holding(q) <=> Holding(req[r])
    BY <1>1, <2>2 DEF Holding
  <2>5. q.known /\ ~q.running => ~gw
    BY <1>3, <2>2
  <2>6. ReqFine(q, gw, swapped, owner, oc', autostart')
    BY <2>2, <2>5 DEF ReqFine
  <2>7. /\ UNCHANGED <<gw, owner, swapped, lock>> /\ managed' \in BOOLEAN
        /\ managed' => managed \/ (gw /\ ~swapped => owner = "us")
        /\ oc' \in {"missing", "pinned", "other"} /\ autostart' \in {"absent", "ours", "foreign"}
        /\ oc' = "other" => oc = "other"
        /\ autostart' = "foreign" => autostart = "foreign"
    BY <1>1, <1>3 DEF RtIInv, RtTypes
  <2> QED  BY <2>2, <2>3, <2>4, <2>6, <2>7, GoesOn
<1>4. CASE /\ lock' = lock
           /\ \E o \in Observations :
                 req' = [req EXCEPT ![r].at = "settle", ![r].installed = Installed,
                                    ![r].known = o.known, ![r].running = o.running, ![r].moved = FALSE]
  <2>1. PICK o \in Observations :
                 req' = [req EXCEPT ![r].at = "settle", ![r].installed = Installed,
                                    ![r].known = o.known, ![r].running = o.running, ![r].moved = FALSE]
    BY <1>4
  <2>2. PICK k \in {FALSE, Installed} : o = [known |-> k, running |-> k /\ gw]
    BY DEF Observations
  <2>3. k \in BOOLEAN /\ o.known = k /\ o.running = (k /\ gw) /\ (k /\ gw) \in BOOLEAN
    BY <2>2 DEF Installed
  <2> QED  BY <1>3, <1>4, <2>1, <2>3
<1> QED  BY <1>2, <1>4 DEF Inspect

\* GatewayManager.inspect and the caller's decision.
LEMMA SettleKeeps ==
  ASSUME RtAssumption, RtIInv, NEW r \in Requests, Settle(r)
  PROVE  RtIInv'
<1>1. req[r] \in ReqSet /\ managed \in BOOLEAN
  BY DEF RtIInv, RtTypes
<1>2. /\ req[r].at = "settle" /\ UNCHANGED <<oc, gw, owner, swapped, autostart>>
      /\ managed' = (managed /\ req[r].running)
  BY DEF Settle
<1>3. managed' \in BOOLEAN /\ (managed' => managed)
  BY <1>1, <1>2 DEF ReqSet
<1>4. CASE Answer(r)
  BY <1>2, <1>3, <1>4, AnswerFrees DEF RtIInv, RtTypes
<1>5. ASSUME NEW man \in BOOLEAN, MayAct(req[r], man), lock' = lock,
             req' = [req EXCEPT ![r].man = man, ![r].at = IF req[r].kind \in Controls THEN "act" ELSE "prove"]
      PROVE  RtIInv'
  <2> DEFINE to == IF req[r].kind \in Controls THEN "act" ELSE "prove"
             q == [req[r] EXCEPT !.man = man, !.at = to]
  <2>1. q \in ReqSet /\ q.at = to /\ q.kind = req[r].kind /\ q.known = req[r].known /\ q.running = req[r].running
    BY <1>1 DEF ReqSet, Ats
  <2>2. req' = [req EXCEPT ![r] = q]
    BY <1>5 DEF RtIInv, RtTypes
  <2> HIDE DEF q
  <2>3. Holding(q) <=> Holding(req[r])
    BY <1>2, <2>1 DEF Holding
  <2>4. req[r].kind = "start" => req[r].known /\ ~req[r].running
    BY <1>5 DEF MayAct
  <2>5. req[r].kind = "restart" => req[r].known
    BY <1>5 DEF MayAct
  <2>6. ReqFine(req[r], gw, swapped, owner, oc, autostart)
    BY DEF RtIInv
  <2>9. /\ UNCHANGED <<gw, owner, swapped, lock>> /\ managed' \in BOOLEAN
        /\ managed' => managed \/ (gw /\ ~swapped => owner = "us")
        /\ oc' \in {"missing", "pinned", "other"} /\ autostart' \in {"absent", "ours", "foreign"}
        /\ oc' = "other" => oc = "other"
        /\ autostart' = "foreign" => autostart = "foreign"
    BY <1>2, <1>3, <1>5 DEF RtIInv, RtTypes
  <2>7. CASE req[r].kind \in Controls
    <3>1. q.at = "act"  BY <2>1, <2>7
    <3>2. req[r].known /\ ~req[r].running => (gw => swapped)
      BY <1>2, <2>6, <2>7 DEF ReqFine
    <3> HIDE DEF to
    <3>3. ReqFine(q, gw, swapped, owner, oc', autostart')
      BY <2>1, <2>4, <2>5, <2>7, <3>1, <3>2 DEF ReqFine
    <3> QED  BY <2>1, <2>2, <2>3, <2>9, <3>3, GoesOn
  <2>8. CASE req[r].kind \notin Controls
    <3>1. q.at = "prove"  BY <2>1, <2>8
    <3> HIDE DEF to
    <3>2. ReqFine(q, gw, swapped, owner, oc', autostart')
      BY <3>1 DEF ReqFine
    <3> QED  BY <2>1, <2>2, <2>3, <2>9, <3>2, GoesOn
  <2> QED  BY <2>7, <2>8
<1>6. CASE ~Answer(r)
  <2>1. PICK proven \in Probe :
          LET man == req[r].running /\ (managed \/ proven)
          IN IF ~req[r].done /\ MayAct(req[r], man)
             THEN /\ lock' = lock
                  /\ req' = [req EXCEPT ![r].man = man, ![r].at =
                                IF req[r].kind \in Controls THEN "act" ELSE "prove"]
             ELSE Answer(r)
    BY DEF Settle
  <2>2. (req[r].running /\ (managed \/ proven)) \in BOOLEAN
    BY <1>1 DEF ReqSet
  <2> QED  BY <1>5, <1>6, <2>1, <2>2
<1> QED  BY <1>4, <1>6

\* The CLI command: only the holder of actionMu runs one, so nobody else's
\* knowledge of the Gateway is about.
LEMMA CommandKeeps ==
  ASSUME RtAssumption, RtIInv, NEW r \in Requests, Command(r)
  PROVE  RtIInv'
<1> DEFINE q == req[r]  on == q.kind # "stop"
<1>1. /\ q.at = "act" /\ UNCHANGED <<oc, managed, autostart>> /\ q \in ReqSet /\ gw \in BOOLEAN
      /\ ReqFine(q, gw, swapped, owner, oc, autostart)
  BY DEF Command, RtIInv, RtTypes
<1>2. Holding(q) /\ lock = r
  BY <1>1 DEF ReqFine, Holding, Locked, RtIInv
<1>3. /\ gw' \in BOOLEAN /\ swapped' \in BOOLEAN /\ owner' \in {"us", "them"}
      /\ FlagMeansOurs => FlagMeansOurs'
  <2>1. CASE UNCHANGED <<gw, owner, swapped>>
    BY <1>1, <2>1 DEF RtIInv, RtTypes, FlagMeansOurs
  <2>2. CASE Effect(q, on)
    BY <1>1, <2>2 DEF Effect, RtIInv, RtTypes, FlagMeansOurs
  <2> QED  BY <2>1, <2>2 DEF Command
<1>4. ASSUME NEW s \in Requests \ {r}, NEW g, NEW w, NEW o PROVE ReqFine(req[s], g, w, o, oc, autostart)
  <2>1. ~Holding(req[s]) /\ ReqFine(req[s], gw, swapped, owner, oc, autostart)
    BY <1>2 DEF RtIInv
  <2>2. req[s].kind \in Controls => req[s].at \in {"idle", "lock"}
    BY <2>1 DEF Holding, Locked
  <2> QED  BY <2>1, <2>2 DEF ReqFine, Controls
<1>5. ASSUME NEW n \in ReqSet, req' = [req EXCEPT ![r] = n], lock' \in {r, "none"}, Holding(n) <=> lock' = r,
             ReqFine(n, gw', swapped', owner', oc', autostart')
      PROVE  RtIInv'
  <2>1. RtTypes'
    BY <1>1, <1>3, <1>5 DEF RtIInv, RtTypes
  <2>2. ASSUME NEW s \in Requests PROVE (Holding(req'[s]) <=> lock' = s) /\ ReqFine(req'[s], gw', swapped', owner', oc', autostart')
    <3>1. CASE s = r  BY <1>5, <3>1 DEF RtIInv, RtTypes
    <3>2. CASE s # r
      <4>1. req'[s] = req[s]  BY <1>5, <3>2 DEF RtIInv, RtTypes
      <4>2. ReqFine(req[s], gw', swapped', owner', oc', autostart')  BY <1>1, <1>4, <3>2
      <4>3. ~Holding(req[s])  BY <1>2, <3>2 DEF RtIInv
      <4> QED  BY <1>5, <3>2, <4>1, <4>2, <4>3 DEF RtAssumption
    <3> QED  BY <3>1, <3>2
  <2> QED  BY <1>3, <2>1, <2>2 DEF RtIInv
<1>6. CASE Answer(r)
  <2>1. req' = [req EXCEPT ![r] = Idle] /\ lock' = "none" /\ lock' # r
    BY <1>2, <1>6 DEF Answer, RtAssumption
  <2>2. Idle \in ReqSet /\ ~Holding(Idle) /\ ReqFine(Idle, gw', swapped', owner', oc', autostart')
    BY IdleIsFine
  <2> HIDE DEF Idle
  <2> QED  BY <1>5, <2>1, <2>2
<1>7. CASE Move(r, "flag") /\ lock' = lock /\ Effect(q, on)
  <2> DEFINE n == [q EXCEPT !.at = "flag"]
  <2>1. /\ n \in ReqSet /\ n.at = "flag" /\ n.kind = q.kind /\ n.known = q.known /\ n.running = q.running
        /\ n.man = q.man
    BY <1>1 DEF ReqSet, Ats
  <2>2. req' = [req EXCEPT ![r] = n]
    BY <1>7 DEF Move, RtIInv, RtTypes
  <2> HIDE DEF n
  <2>3. Holding(n)
    BY <1>2, <2>1 DEF Holding
  <2>4. n.kind \in {"start", "restart"} /\ (n.kind = "start" \/ n.man \/ ~n.running) => (gw' /\ ~swapped' => owner' = "us")
    BY <1>1, <1>7, <2>1 DEF Effect, ReqFine, Controls
  <2>5. ReqFine(n, gw', swapped', owner', oc', autostart')
    BY <1>1, <2>1, <2>4 DEF ReqFine
  <2> QED  BY <1>2, <1>5, <1>7, <2>1, <2>2, <2>3, <2>5
<1> QED  BY <1>6, <1>7 DEF Command

\* setManaged takes what the command made or what was proven before.
LEMMA SetManagedKeeps ==
  ASSUME RtIInv, NEW r \in Requests, SetManaged(r)
  PROVE  RtIInv'
<1>1. /\ req[r].at = "flag" /\ req' = [req EXCEPT ![r] = Closing(r)]
      /\ managed' = (req[r].kind = "start" \/ (req[r].kind = "restart" /\ (req[r].man \/ ~req[r].running)))
      /\ UNCHANGED <<oc, gw, owner, swapped, autostart, lock>>
  BY DEF SetManaged
<1>2. req[r] \in ReqSet /\ ReqFine(req[r], gw, swapped, owner, oc, autostart)
  BY DEF RtIInv, RtTypes
<1>3. managed' \in BOOLEAN /\ (managed' => (gw /\ ~swapped => owner = "us"))
  BY <1>1, <1>2 DEF ReqSet, ReqFine
<1>4. Closing(r) \in ReqSet /\ (Holding(Closing(r)) <=> Holding(req[r])) /\ ReqFine(Closing(r), gw, swapped, owner, oc', autostart')
  BY <1>1, ClosingIsFine
<1> QED  BY <1>1, <1>3, <1>4, GoesOn DEF RtIInv, RtTypes

\* The probe of the task's handlers.
LEMMA InspectOwnershipKeeps ==
  ASSUME RtAssumption, RtIInv, NEW r \in Requests, InspectOwnership(r)
  PROVE  RtIInv'
<1>1. req[r].at = "prove" /\ UNCHANGED <<oc, gw, owner, swapped, managed, autostart>> /\ req[r] \in ReqSet
  BY DEF InspectOwnership, RtIInv, RtTypes
<1>2. CASE Answer(r)
  BY <1>1, <1>2, AnswerFrees DEF RtIInv, RtTypes
<1>3. CASE req' = [req EXCEPT ![r] = Closing(r)] /\ lock' = lock
  <2>1. Closing(r) \in ReqSet /\ (Holding(Closing(r)) <=> Holding(req[r])) /\ ReqFine(Closing(r), gw, swapped, owner, oc', autostart')
    BY <1>1, ClosingIsFine
  <2> QED  BY <1>1, <1>3, <2>1, GoesOn DEF RtIInv, RtTypes
<1>4. ASSUME NEW to \in {"register", "delete"}, to = "delete" => autostart = "ours", lock' = lock,
             req' = [req EXCEPT ![r].moved = FALSE, ![r].at = to]
      PROVE  RtIInv'
  <2> DEFINE q == [req[r] EXCEPT !.moved = FALSE, !.at = to]
  <2>1. q \in ReqSet /\ q.at = to /\ q.kind = req[r].kind
    BY <1>1 DEF ReqSet, Ats
  <2>2. req' = [req EXCEPT ![r] = q]
    BY <1>4 DEF RtIInv, RtTypes
  <2> HIDE DEF q
  <2>3. Holding(q) <=> Holding(req[r])
    BY <1>1, <2>1 DEF Holding
  <2>4. to = "delete" => autostart' # "foreign"
    BY <1>1, <1>4
  <2>5. ReqFine(q, gw, swapped, owner, oc', autostart')
    BY <2>1, <2>4 DEF ReqFine
  <2>6. /\ UNCHANGED <<gw, owner, swapped, lock>> /\ managed' \in BOOLEAN
        /\ managed' => managed \/ (gw /\ ~swapped => owner = "us")
        /\ oc' \in {"missing", "pinned", "other"} /\ autostart' \in {"absent", "ours", "foreign"}
        /\ oc' = "other" => oc = "other"
        /\ autostart' = "foreign" => autostart = "foreign"
    BY <1>1, <1>4 DEF RtIInv, RtTypes
  <2> QED  BY <2>1, <2>2, <2>3, <2>5, <2>6, GoesOn
<1>5. CASE ~Answer(r) /\ ~(req' = [req EXCEPT ![r] = Closing(r)] /\ lock' = lock)
  <2>1. PICK found \in Ownership :
          /\ \/ req[r].kind = "enroll" /\ found = "absent"
             \/ req[r].kind = "remove" /\ found = "ours"
          /\ lock' = lock
          /\ req' = [req EXCEPT ![r].moved = FALSE, ![r].at =
                           IF req[r].kind = "enroll" THEN "register" ELSE "delete"]
    BY <1>5 DEF InspectOwnership
  <2>2. req[r].kind = "remove" => autostart = "ours"
    BY <2>1 DEF Ownership
  <2> QED  BY <1>4, <2>1, <2>2
<1> QED  BY <1>2, <1>3, <1>5

\* schtasks /Create.
LEMMA RegisterKeeps ==
  ASSUME RtAssumption, RtIInv, NEW r \in Requests, Register(r)
  PROVE  RtIInv'
<1>1. /\ req[r].at = "register" /\ UNCHANGED <<oc, gw, owner, swapped, managed>> /\ req[r] \in ReqSet
      /\ autostart' \in {"absent", "ours", "foreign"} /\ (autostart' = "foreign" => autostart = "foreign")
  BY DEF Register, BuiltTask, RtIInv, RtTypes
<1>2. CASE Answer(r)
  BY <1>1, <1>2, AnswerFrees DEF RtIInv, RtTypes
<1>3. CASE Move(r, "verify") /\ lock' = lock
  <2> DEFINE q == [req[r] EXCEPT !.at = "verify"]
  <2>1. q \in ReqSet /\ q.at = "verify" /\ q.kind = req[r].kind
    BY <1>1 DEF ReqSet, Ats
  <2>2. req' = [req EXCEPT ![r] = q]
    BY <1>3 DEF Move, RtIInv, RtTypes
  <2> HIDE DEF q
  <2>3. (Holding(q) <=> Holding(req[r])) /\ ReqFine(q, gw, swapped, owner, oc', autostart')
    BY <1>1, <2>1 DEF Holding, ReqFine
  <2> QED  BY <1>1, <1>3, <2>1, <2>2, <2>3, GoesOn DEF RtIInv, RtTypes
<1> QED  BY <1>2, <1>3 DEF Register

\* The second proof, and the deletion.
LEMMA VerifyDeleteKeeps ==
  ASSUME RtAssumption, RtIInv, NEW r \in Requests, Verify(r) \/ DeleteTask(r)
  PROVE  RtIInv'
<1>1. /\ req[r].at \in {"verify", "delete"} /\ UNCHANGED <<oc, gw, owner, swapped, managed>>
      /\ autostart' \in {"absent", autostart} /\ autostart \in {"absent", "ours", "foreign"}
  BY DEF Verify, DeleteTask, RtIInv, RtTypes
<1>2. CASE Answer(r)
  BY <1>1, <1>2, AnswerFrees DEF RtIInv, RtTypes
<1>3. CASE req' = [req EXCEPT ![r] = Closing(r)] /\ lock' = lock
  <2>1. Closing(r) \in ReqSet /\ (Holding(Closing(r)) <=> Holding(req[r])) /\ ReqFine(Closing(r), gw, swapped, owner, oc', autostart')
    BY <1>1, ClosingIsFine
  <2> QED  BY <1>1, <1>3, <2>1, GoesOn DEF RtIInv, RtTypes
<1> QED  BY <1>2, <1>3 DEF Verify, DeleteTask

\* The installation: its check, and npm.
LEMMA InstallKeeps ==
  ASSUME RtAssumption, RtIInv, NEW r \in Requests, InstallPreflight(r) \/ InstallNative(r)
  PROVE  RtIInv'
<1>1. /\ UNCHANGED <<gw, owner, swapped, managed, autostart>> /\ req[r] \in ReqSet
      /\ oc' \in {"missing", "pinned", oc} /\ oc \in {"missing", "pinned", "other"}
  BY DEF InstallPreflight, InstallNative, RtIInv, RtTypes
<1>2. CASE Answer(r)
  BY <1>1, <1>2, AnswerFrees DEF RtIInv, RtTypes
<1>3. CASE /\ req[r].at = "preflight" /\ Installable /\ lock' = lock /\ oc' = oc
           /\ req' = [req EXCEPT ![r].at = "npm", ![r].moved = FALSE]
  <2> DEFINE q == [req[r] EXCEPT !.at = "npm", !.moved = FALSE]
  <2>1. q \in ReqSet /\ q.at = "npm" /\ q.kind = req[r].kind
    BY <1>1 DEF ReqSet, Ats
  <2>2. req' = [req EXCEPT ![r] = q]
    BY <1>3 DEF RtIInv, RtTypes
  <2> HIDE DEF q
  <2>3. Holding(q) <=> Holding(req[r])
    BY <1>3, <2>1 DEF Holding
  <2>4. oc' # "other"
    BY <1>3 DEF Installable
  <2>5. ReqFine(q, gw, swapped, owner, oc', autostart')
    BY <2>1, <2>4 DEF ReqFine
  <2>6. /\ UNCHANGED <<gw, owner, swapped, lock>> /\ managed' \in BOOLEAN
        /\ managed' => managed \/ (gw /\ ~swapped => owner = "us")
        /\ oc' \in {"missing", "pinned", "other"} /\ autostart' \in {"absent", "ours", "foreign"}
        /\ oc' = "other" => oc = "other"
        /\ autostart' = "foreign" => autostart = "foreign"
    BY <1>1, <1>3 DEF RtIInv, RtTypes
  <2> QED  BY <2>1, <2>2, <2>3, <2>5, <2>6, GoesOn
<1> QED  BY <1>1, <1>2, <1>3 DEF InstallPreflight, InstallNative

\* The user, or another program: whoever has looked is told (Noticed).
LEMMA ExternalKeeps ==
  ASSUME RtIInv, External
  PROVE  RtIInv'
<1>1. /\ req' = [r \in Requests |-> [req[r] EXCEPT !.moved = req[r].at # "idle"]] /\ UNCHANGED <<managed, lock>>
      /\ gw' \in BOOLEAN /\ swapped' \in BOOLEAN /\ owner' \in {"us", "them"}
      /\ oc' \in {"missing", "pinned", "other"} /\ autostart' \in {"absent", "ours", "foreign"}
      /\ swapped' \/ UNCHANGED <<gw, owner, swapped>>
  BY DEF External, Noticed, RtIInv, RtTypes
<1>2. ASSUME NEW r \in Requests
      PROVE  /\ req'[r] \in ReqSet /\ (Holding(req'[r]) <=> lock' = r)
             /\ ReqFine(req'[r], gw', swapped', owner', oc', autostart')
  <2> DEFINE q == [req[r] EXCEPT !.moved = req[r].at # "idle"]
  <2>1. req[r] \in ReqSet /\ ReqFine(req[r], gw, swapped, owner, oc, autostart) /\ (Holding(req[r]) <=> lock = r)
    BY DEF RtIInv, RtTypes
  <2>2. /\ q \in ReqSet /\ q.at = req[r].at /\ q.kind = req[r].kind /\ q.known = req[r].known
        /\ q.running = req[r].running /\ q.man = req[r].man /\ q.moved = (req[r].at # "idle")
    BY <2>1 DEF ReqSet
  <2>3. req'[r] = q  BY <1>1
  <2> HIDE DEF q
  <2>4. Holding(q) <=> Holding(req[r])
    BY <2>2 DEF Holding
  <2>5. ReqFine(q, gw', swapped', owner', oc', autostart')
    BY <1>1, <2>1, <2>2 DEF ReqFine
  <2> QED  BY <1>1, <2>1, <2>2, <2>3, <2>4, <2>5
<1>3. RtTypes'
  <2>1. req' = [r \in Requests |-> req'[r]]  BY <1>1
  <2>2. req' \in [Requests -> ReqSet]  BY <1>2, <2>1
  <2> QED  BY <1>1, <2>2 DEF RtIInv, RtTypes
<1>4. FlagMeansOurs'
  <2>1. CASE swapped'
    BY <2>1 DEF FlagMeansOurs
  <2>2. CASE UNCHANGED <<gw, owner, swapped>>
    BY <1>1, <2>2 DEF RtIInv, FlagMeansOurs
  <2> QED  BY <1>1, <2>1, <2>2
<1> QED  BY <1>2, <1>3, <1>4 DEF RtIInv

\* The Manager starts again with no flag, no lock and no request.
LEMMA ManagerRestartsKeeps ==
  ASSUME RtAssumption, RtIInv, ManagerRestarts
  PROVE  RtIInv'
<1>1. /\ managed' = FALSE /\ lock' = "none" /\ req' = [r \in Requests |-> Idle] /\ owner' = "them"
      /\ UNCHANGED <<oc, gw, swapped, autostart>>
  BY DEF ManagerRestarts
<1>2. Idle \in ReqSet /\ ~Holding(Idle) /\ ReqFine(Idle, gw', swapped', owner', oc', autostart')
  BY IdleIsFine
<1> HIDE DEF Idle
<1> QED  BY <1>1, <1>2 DEF RtIInv, RtTypes, FlagMeansOurs, RtAssumption

\* A Manager that starts has no flag and no request.
LEMMA RtInitKeeps == RtAssumption /\ RtInit => RtIInv
<1> SUFFICES ASSUME RtAssumption, RtInit PROVE RtIInv
  OBVIOUS
<1>1. Idle \in ReqSet /\ ~Holding(Idle) /\ ReqFine(Idle, gw, swapped, owner, oc, autostart)
  BY IdleIsFine
<1>2. oc \in {"missing", "pinned", "other"} /\ gw \in BOOLEAN /\ owner = "them" /\ swapped = FALSE /\ managed = FALSE
      /\ autostart \in {"absent", "foreign"} /\ lock = "none" /\ req = [r \in Requests |-> Idle]
  BY DEF RtInit
<1> HIDE DEF Idle
<1> QED  BY <1>1, <1>2 DEF RtIInv, RtTypes, FlagMeansOurs, RtAssumption

\* Every step of the Manager's runtime control keeps the invariant.
LEMMA HandleKeeps ==
  ASSUME RtAssumption, RtIInv, NEW r \in Requests, Handle(r)
  PROVE  RtIInv'
BY TakeLockKeeps, InspectKeeps, SettleKeeps, CommandKeeps, SetManagedKeeps, InspectOwnershipKeeps, RegisterKeeps,
   VerifyDeleteKeeps, InstallKeeps DEF Handle

\* Every step of requests, the user and the Manager.
LEMMA RtStep == RtAssumption /\ RtIInv /\ [RtNext]_rtVars => RtIInv'
<1> SUFFICES ASSUME RtAssumption, RtIInv, [RtNext]_rtVars PROVE RtIInv'
  OBVIOUS
<1>1. CASE UNCHANGED rtVars
  BY <1>1 DEF rtVars, RtIInv, RtTypes, FlagMeansOurs
<1> QED  BY <1>1, HandleKeeps, ReceiveKeeps, ExternalKeeps, ManagerRestartsKeeps DEF RtNext

\* What the run checks follows.
LEMMA RtIsSafe == RtAssumption /\ RtIInv => ManagerRuntimeInv
BY DEF RtAssumption, RtIInv, RtTypes, ManagerRuntimeInv, RtTypeOK, LockHeld, Holding

\* runtime/gateway.go: in every behaviour, with any number of requests and of acts of
\* the user, the managed flag vouches only for a Gateway that this Manager launched and
\* actionMu is held by exactly the requests that are past it.
THEOREM RuntimeIsOwned == RtSpec => []ManagerRuntimeInv
BY RtInitKeeps, RtStep, RtIsSafe, RtAssumption, PTL DEF RtSpec

\* Only an installation and a deletion could destroy something, and both have checked.
LEMMA ForeignStays ==
  ASSUME RtIInv, NEW r \in Requests, Handle(r), ~req[r].moved
  PROVE  (oc = "other" => oc' = "other") /\ (autostart = "foreign" => autostart' = "foreign")
<1>1. ReqFine(req[r], gw, swapped, owner, oc, autostart)
  BY DEF RtIInv
<1>2. CASE InstallNative(r)
  BY <1>1, <1>2 DEF InstallNative, ReqFine
<1>3. CASE DeleteTask(r)
  BY <1>1, <1>3 DEF DeleteTask, ReqFine
<1>4. CASE Register(r)
  BY <1>4 DEF Register
<1> QED
  BY <1>2, <1>3, <1>4 DEF Handle, TakeLock, Inspect, Settle, Command, SetManaged, InspectOwnership, Verify,
     InstallPreflight

\* adapter.go, process_control.go: no step of a request installs over another OpenClaw
\* or deletes a foreign task, unless it came after the request's own check.
THEOREM OursAlone == RtSpec => NothingForeignDestroyed
<1>1. RtIInv /\ [RtNext]_rtVars =>
        [\A r \in Requests : Handle(r) /\ ~req[r].moved =>
          /\ oc = "other" => oc' = "other"
          /\ autostart = "foreign" => autostart' = "foreign"]_rtVars
  BY ForeignStays
<1> QED  BY <1>1, RtInitKeeps, RtStep, RtAssumption, PTL DEF RtSpec, NothingForeignDestroyed

(***************************************************************************)
(* The device credentials.  That a token is in the file or in the vault is  *)
(* inductive only with what every operation between two awaits knows: what  *)
(* it has yet to migrate is all that may be missing from the vault, what it *)
(* writes is that token or one for an address that had none, and one that   *)
(* reads or saves finds no token in the file (CredOpKnows); and no address  *)
(* that had a token ever holds another one in the vault (HadKept).          *)
(***************************************************************************)
\* An operation between two awaits.
CredOp == [pc : {"idle", "migrate", "resolve", "write", "check", "read", "save"},
           todo : SUBSET Bases, ids : SUBSET Bases, tok : Tokens, rewrite : BOOLEAN]

CredTypes ==
  /\ CredTypeOK
  /\ djson \in [kind : {"absent", "old", "v2"}, toks : SUBSET Bases, ids : SUBSET Bases]
  /\ had \subseteq Bases
  /\ cop \in [Bases -> CredOp]
  /\ regs \in 0..Regs

\* A token of the first file is in the file or in the vault, and nothing else is
\* in its place; no other address has an old one.
HadKept ==
  /\ djson.toks \subseteq had
  /\ \A b \in had : tokens[b] \in {NoToken, Old} /\ (b \in djson.toks \/ tokens[b] = Old)
  /\ \A b \in Bases \ had : tokens[b] # Old

\* A token in memory is the vault's, and its address has no operation.
HandedOut ==
  \A b \in Bases : mem[b] # NoToken =>
    tokens[b] = mem[b] /\ djson.toks = {} /\ cop[b].pc = "idle"

\* What the operation of an address knows of the vault and of the file.
CredOpKnows(b) ==
  /\ cop[b].todo \subseteq had
  /\ cop[b].pc \in {"migrate", "resolve"} \/ (cop[b].pc \in {"write", "check"} /\ cop[b].todo # {}) =>
       \A t \in had \ cop[b].todo : tokens[t] = Old
  /\ cop[b].pc = "resolve" => cop[b].todo # {} /\ cop[b].tok = Old
  /\ cop[b].pc \in {"write", "check"} /\ cop[b].todo # {} => cop[b].tok = Old
  /\ cop[b].pc \in {"write", "check"} /\ cop[b].todo = {} =>
       cop[b].tok \in 1..Regs /\ djson.toks = {} /\ b \notin had
  /\ cop[b].pc = "read" => djson.toks = {} /\ cop[b].todo = {}
  /\ cop[b].pc = "save" => djson.toks = {} /\ b \notin had /\ tokens[b] = cop[b].tok /\ cop[b].tok \in 1..Regs

CredIInv == CredTypes /\ HadKept /\ HandedOut /\ \A b \in Bases : CredOpKnows(b)

\* The first device.json is the only place of its tokens.
LEMMA CredInitKeeps ==
  CredInit => CredIInv
  BY CredAssumption DEF CredInit, CredIInv, CredTypes, CredTypeOK, CredOp, HadKept, HandedOut, CredOpKnows,
     NoCredOp, Tokens, NoToken, Old

\* An address without an operation is typed.
LEMMA NoCredOpTyped ==
  NoCredOp \in CredOp
  BY DEF NoCredOp, CredOp, Tokens, NoToken, Old

\* A step of an operation is a step of its own address only.
LEMMA GoesTo ==
  ASSUME CredTypes, NEW b \in Bases, NEW o \in CredOp, Goes(b, o)
  PROVE  /\ cop' \in [Bases -> CredOp] /\ cop'[b] = o
         /\ \A c \in Bases \ {b} : cop'[c] = cop[c]
  BY DEF CredTypes, Goes

\* While no old token leaves the vault and none is put back into the file, what the
\* operations of the other addresses know stays true.
LEMMA OthersKnow ==
  ASSUME CredIInv, NEW b \in Bases, had' = had, djson'.toks \in {djson.toks, {}},
         \A c \in Bases \ {b} : cop'[c] = cop[c],
         \A t \in had : tokens[t] = Old => tokens'[t] = Old,
         \A t \in Bases \ had : t # b => tokens'[t] = tokens[t]
  PROVE  \A c \in Bases \ {b} : CredOpKnows(c)'
  BY DEF CredIInv, CredTypes, CredTypeOK, CredOpKnows

\* A rejected operation leaves the file and the vault as they are.
LEMMA RejectsKeeps ==
  ASSUME CredIInv, NEW b \in Bases, Rejects(b), regs' \in 0..Regs,
         UNCHANGED <<djson, had, tokens, mem>>
  PROVE  CredIInv'
  <1>1. cop' \in [Bases -> CredOp] /\ cop'[b] = NoCredOp /\ \A c \in Bases \ {b} : cop'[c] = cop[c]
    BY NoCredOpTyped, GoesTo DEF CredIInv, Rejects
  <1>2. \A c \in Bases : CredOpKnows(c)'
    <2>1. \A c \in Bases \ {b} : CredOpKnows(c)'
      BY <1>1, OthersKnow
    <2> QED BY <1>1, <2>1 DEF CredOpKnows, NoCredOp
  <1> QED BY <1>1, <1>2 DEF CredIInv, CredTypes, CredTypeOK, HadKept, HandedOut, NoCredOp

\* So does one that only goes on, if what it knows then is true.
LEMMA MovesKeeps ==
  ASSUME CredIInv, NEW b \in Bases, NEW o \in CredOp, Goes(b, o), cop[b].pc # "idle", regs' \in 0..Regs,
         UNCHANGED <<djson, had, tokens, mem>>, CredOpKnows(b)'
  PROVE  CredIInv'
  <1>1. cop' \in [Bases -> CredOp] /\ cop'[b] = o /\ \A c \in Bases \ {b} : cop'[c] = cop[c]
    BY GoesTo DEF CredIInv
  <1>2. \A c \in Bases : CredOpKnows(c)'
    BY <1>1, OthersKnow
  <1> QED BY <1>1, <1>2 DEF CredIInv, CredTypes, CredTypeOK, HadKept, HandedOut

\* An operation knows the tokens the file lists when it is read.
LEMMA LoadStateKeeps ==
  ASSUME CredIInv, NEW b \in Bases, LoadState(b)
  PROVE  CredIInv'
  <1>1. CredTypes'
    BY CredAssumption DEF CredIInv, CredTypes, CredTypeOK, CredOp, LoadState, Goes
  <1>2. HadKept'
    BY CredAssumption DEF CredIInv, HadKept, LoadState
  <1>3. HandedOut'
    BY CredAssumption DEF CredIInv, HandedOut, LoadState, Goes
  <1>4. \A c \in Bases : CredOpKnows(c)'
    BY CredAssumption DEF CredIInv, HadKept, CredOpKnows, LoadState, Goes
  <1> QED BY <1>1, <1>2, <1>3, <1>4 DEF CredIInv

\* The migration skips what the vault holds and never takes another token for it.
LEMMA MigrateTokenKeeps ==
  ASSUME CredIInv, NEW b \in Bases, MigrateToken(b)
  PROVE  CredIInv'
  <1> DEFINE l == CHOOSE t \in cop[b].todo : TRUE
  <1>1. /\ cop[b].pc = "migrate" /\ l \in cop[b].todo /\ cop[b] \in CredOp /\ CredOpKnows(b)
        /\ regs' \in 0..Regs /\ UNCHANGED <<djson, had, tokens, mem>>
    BY DEF MigrateToken, CredIInv, CredTypes
  <1>2. l \in had /\ l \in Bases
    BY <1>1 DEF CredOpKnows, CredIInv, CredTypes
  <1>3. CASE tokens[l] = Old
    <2> DEFINE o == [cop[b] EXCEPT !.todo = @ \ {l}, !.ids = @ \cup {l}]
    <2>1. o \in CredOp
      BY <1>1, <1>2 DEF CredOp
    <2>2. Goes(b, o)
      BY <1>3 DEF MigrateToken, Old, NoToken
    <2>3. o.pc = "migrate" /\ o.todo = cop[b].todo \ {l}
      BY <1>1 DEF CredOp
    <2> HIDE DEF l, o
    <2>4. cop'[b] = o
      BY <2>1, <2>2, GoesTo DEF CredIInv
    <2>5. CredOpKnows(b)'
      BY <1>1, <1>2, <1>3, <2>3, <2>4 DEF CredOpKnows
    <2> QED BY <1>1, <2>1, <2>2, <2>5, MovesKeeps
  <1>4. CASE tokens[l] = NoToken
    <2> DEFINE pc == IF l \in cop[b].ids THEN "write" ELSE "resolve"
    <2>1. Goes(b, [cop[b] EXCEPT !.tok = Old, !.pc = pc])
      BY <1>4 DEF MigrateToken, NoToken, Old
    <2>0. pc \in {"write", "resolve"}
      OBVIOUS
    <2> HIDE DEF pc
    <2> DEFINE o == [cop[b] EXCEPT !.tok = Old, !.pc = pc]
    <2>2. o \in CredOp /\ o.pc = pc /\ o.todo = cop[b].todo /\ o.tok = Old
      BY <1>1, <2>0 DEF CredOp, Tokens
    <2> HIDE DEF l, o
    <2>3. cop'[b] = o
      BY <2>1, <2>2, GoesTo DEF CredIInv, o
    <2>4. CredOpKnows(b)'
      BY <1>1, <2>0, <2>2, <2>3 DEF CredOpKnows
    <2> QED BY <1>1, <2>1, <2>2, <2>4, MovesKeeps DEF o
  <1>5. CASE tokens[l] # Old /\ tokens[l] # NoToken
    <2>1. Rejects(b)
      BY <1>5 DEF MigrateToken
    <2> QED BY <1>1, <2>1, RejectsKeeps
  <1> QED BY <1>3, <1>4, <1>5

\* An id that was asked for changes nothing of the tokens.
LEMMA ResolveKeeps ==
  ASSUME CredIInv, NEW b \in Bases, Resolve(b)
  PROVE  CredIInv'
  <1>1. /\ cop[b].pc = "resolve" /\ cop[b] \in CredOp /\ CredOpKnows(b)
        /\ regs' \in 0..Regs /\ UNCHANGED <<djson, had, tokens, mem>>
    BY DEF Resolve, CredIInv, CredTypes
  <1>2. CASE Goes(b, [cop[b] EXCEPT !.pc = "write"])
    <2> DEFINE o == [cop[b] EXCEPT !.pc = "write"]
    <2>1. o \in CredOp /\ o.pc = "write" /\ o.todo = cop[b].todo /\ o.tok = cop[b].tok
      BY <1>1 DEF CredOp
    <2> HIDE DEF o
    <2>2. cop'[b] = o
      BY <1>2, <2>1, GoesTo DEF CredIInv, o
    <2>3. CredOpKnows(b)'
      BY <1>1, <2>1, <2>2 DEF CredOpKnows
    <2> QED BY <1>1, <1>2, <2>1, <2>3, MovesKeeps DEF o
  <1>3. CASE Rejects(b)
    BY <1>1, <1>3, RejectsKeeps
  <1> QED BY <1>2, <1>3 DEF Resolve

\* What is written is the old token of an address that had one, or a new token of
\* an address that had none.
LEMMA WriteTokenKeeps ==
  ASSUME CredIInv, NEW b \in Bases, WriteToken(b)
  PROVE  CredIInv'
  <1> DEFINE l == Target(b)
             o == [cop[b] EXCEPT !.pc = "check"]
  <1>1. /\ cop[b].pc = "write" /\ cop[b] \in CredOp /\ CredOpKnows(b) /\ mem[b] = NoToken
        /\ regs' \in 0..Regs /\ UNCHANGED <<djson, had, mem, regs>>
    BY DEF WriteToken, CredIInv, CredTypes, HandedOut
  <1>2. o \in CredOp /\ o.pc = "check" /\ o.todo = cop[b].todo /\ o.tok = cop[b].tok
    BY <1>1 DEF CredOp
  <1>3. CASE Goes(b, o) /\ tokens' = [tokens EXCEPT ![l] = cop[b].tok]
    <2>1. l \in Bases /\ (cop[b].todo # {} => l \in cop[b].todo) /\ (cop[b].todo = {} => l = b)
      BY <1>1 DEF Target, CredOp
    <2>2. \/ l \in had /\ cop[b].tok = Old
          \/ l = b /\ b \notin had /\ cop[b].tok \in 1..Regs
      BY <1>1, <2>1 DEF CredOpKnows
    <2> HIDE DEF l, o
    <2>3. cop' \in [Bases -> CredOp] /\ cop'[b] = o /\ \A c \in Bases \ {b} : cop'[c] = cop[c]
      BY <1>2, <1>3, GoesTo DEF CredIInv
    <2>4. tokens' \in [Bases -> Tokens] /\ tokens'[l] = cop[b].tok /\ \A t \in Bases \ {l} : tokens'[t] = tokens[t]
      BY <1>1, <1>3, <2>1 DEF CredIInv, CredTypes, CredTypeOK, CredOp
    <2>5. CredTypes'
      BY <1>1, <2>3, <2>4 DEF CredIInv, CredTypes, CredTypeOK
    <2>6. HadKept'
      BY <1>1, <2>1, <2>2, <2>4 DEF CredIInv, HadKept, CredTypes, Old
    <2>7. HandedOut'
      BY <1>1, <1>2, <2>1, <2>2, <2>3, <2>4 DEF CredIInv, HandedOut, HadKept
    <2>8. \A c \in Bases \ {b} : CredOpKnows(c)'
      BY <1>1, <2>2, <2>3, <2>4, OthersKnow DEF CredIInv, CredTypes
    <2>9. CredOpKnows(b)'
      BY <1>1, <1>2, <2>2, <2>3, <2>4 DEF CredOpKnows, CredIInv, CredTypes
    <2> QED BY <2>5, <2>6, <2>7, <2>8, <2>9 DEF CredIInv
  <1>4. CASE Goes(b, o) /\ UNCHANGED tokens
    <2> HIDE DEF o
    <2>1. cop'[b] = o
      BY <1>2, <1>4, GoesTo DEF CredIInv
    <2>2. CredOpKnows(b)'
      BY <1>1, <1>2, <1>4, <2>1 DEF CredOpKnows
    <2> QED BY <1>1, <1>2, <1>4, <2>2, MovesKeeps
  <1>5. CASE Rejects(b) /\ UNCHANGED tokens
    BY <1>1, <1>5, RejectsKeeps
  <1> QED BY <1>3, <1>4, <1>5 DEF WriteToken

\* A token read back is in the vault: the migration may go on.
LEMMA CheckTokenKeeps ==
  ASSUME CredIInv, NEW b \in Bases, CheckToken(b)
  PROVE  CredIInv'
  <1> DEFINE l == Target(b)
  <1>1. /\ cop[b].pc = "check" /\ cop[b] \in CredOp /\ CredOpKnows(b)
        /\ regs' \in 0..Regs /\ UNCHANGED <<djson, had, tokens, mem>>
    BY DEF CheckToken, CredIInv, CredTypes
  <1>2. l = IF cop[b].todo # {} THEN CHOOSE t \in cop[b].todo : TRUE ELSE b
    BY <1>1 DEF Target
  <1>3. CASE ~ReadsBack(b)
    <2>1. Rejects(b)
      BY <1>3 DEF CheckToken
    <2> QED BY <1>1, <2>1, RejectsKeeps
  <1>4. CASE ReadsBack(b) /\ cop[b].todo # {}
    <2>1. l \in cop[b].todo /\ tokens[l] = Old /\ l \in Bases
      BY <1>1, <1>2, <1>4 DEF ReadsBack, CredOpKnows, CredOp
    <2> DEFINE o == [cop[b] EXCEPT !.todo = @ \ {l}, !.ids = @ \cup {l}, !.pc = "migrate"]
    <2>2. o \in CredOp /\ o.pc = "migrate" /\ o.todo = cop[b].todo \ {l}
      BY <1>1, <2>1 DEF CredOp
    <2>3. Goes(b, o)
      BY <1>4 DEF CheckToken
    <2> HIDE DEF l, o
    <2>4. cop'[b] = o
      BY <2>2, <2>3, GoesTo DEF CredIInv
    <2>5. CredOpKnows(b)'
      BY <1>1, <1>4, <2>1, <2>2, <2>4 DEF CredOpKnows
    <2> QED BY <1>1, <2>2, <2>3, <2>5, MovesKeeps
  <1>5. CASE ReadsBack(b) /\ cop[b].todo = {}
    <2> DEFINE o == [cop[b] EXCEPT !.pc = "save"]
    <2>1. o \in CredOp /\ o.pc = "save" /\ o.todo = {} /\ o.tok = cop[b].tok
      BY <1>1, <1>5 DEF CredOp
    <2>2. Goes(b, o)
      BY <1>5 DEF CheckToken
    <2>3. tokens[b] = cop[b].tok
      BY <1>2, <1>5 DEF ReadsBack
    <2> HIDE DEF l, o
    <2>4. cop'[b] = o
      BY <2>1, <2>2, GoesTo DEF CredIInv
    <2>5. CredOpKnows(b)'
      BY <1>1, <1>5, <2>1, <2>3, <2>4 DEF CredOpKnows
    <2> QED BY <1>1, <2>1, <2>2, <2>5, MovesKeeps
  <1> QED BY <1>3, <1>4, <1>5

\* The file is replaced when every token it had is in the vault.
LEMMA MigratedKeeps ==
  ASSUME CredIInv, NEW b \in Bases, Migrated(b)
  PROVE  CredIInv'
  <1> DEFINE o == [cop[b] EXCEPT !.pc = "read", !.rewrite = FALSE]
  <1>1. /\ cop[b].pc = "migrate" /\ cop[b].todo = {} /\ cop[b] \in CredOp /\ CredOpKnows(b)
        /\ regs' \in 0..Regs /\ UNCHANGED <<had, tokens, mem, regs>>
    BY DEF Migrated, CredIInv, CredTypes
  <1>2. o \in CredOp /\ o.pc = "read" /\ o.todo = {} /\ Goes(b, o)
    BY <1>1 DEF CredOp, Migrated
  <1>3. djson'.toks = {} /\ djson' \in [kind : {"absent", "old", "v2"}, toks : SUBSET Bases, ids : SUBSET Bases]
    BY <1>1 DEF Migrated, Metadata, CredOp
  <1> HIDE DEF o
  <1>4. cop' \in [Bases -> CredOp] /\ cop'[b] = o /\ \A c \in Bases \ {b} : cop'[c] = cop[c]
    BY <1>2, GoesTo DEF CredIInv
  <1>5. CredTypes'
    BY <1>1, <1>3, <1>4 DEF CredIInv, CredTypes, CredTypeOK
  <1>6. HadKept'
    BY <1>1, <1>3 DEF CredIInv, HadKept, CredOpKnows
  <1>7. HandedOut'
    BY <1>1, <1>3, <1>4 DEF CredIInv, HandedOut
  <1>8. \A c \in Bases \ {b} : CredOpKnows(c)'
    BY <1>1, <1>3, <1>4, OthersKnow
  <1>9. CredOpKnows(b)'
    BY <1>1, <1>2, <1>3, <1>4 DEF CredOpKnows
  <1> QED BY <1>5, <1>6, <1>7, <1>8, <1>9 DEF CredIInv

\* The token handed out is the vault's, and the file holds none.
LEMMA HandOutKeeps ==
  ASSUME CredIInv, NEW b \in Bases, HandOut(b)
  PROVE  CredIInv'
  <1>1. CredTypes'
    BY CredAssumption DEF CredIInv, CredTypes, CredTypeOK, CredOp, HandOut, Goes, NoCredOp, Metadata, Tokens
  <1>2. HadKept'
    BY CredAssumption DEF CredIInv, CredOpKnows, HadKept, HandOut, Metadata
  <1>3. HandedOut'
    BY CredAssumption DEF CredIInv, CredOpKnows, CredTypes, HandedOut, HandOut, Goes, NoCredOp, Metadata
  <1>4. \A c \in Bases : CredOpKnows(c)'
    BY CredAssumption DEF CredIInv, CredOpKnows, HandOut, Goes, NoCredOp, Metadata
  <1> QED BY <1>1, <1>2, <1>3, <1>4 DEF CredIInv

\* A device registers only at an address that had no token.
LEMMA RegisterAtKeeps ==
  ASSUME CredIInv, NEW b \in Bases, RegisterAt(b)
  PROVE  CredIInv'
  <1>1. /\ cop[b].pc = "read" /\ cop[b] \in CredOp /\ CredOpKnows(b) /\ tokens[b] = NoToken
        /\ regs' \in 0..Regs /\ regs + 1 \in 1..Regs /\ UNCHANGED <<djson, had, tokens, mem>>
    BY CredAssumption DEF RegisterAt, CredIInv, CredTypes
  <1>2. b \notin had
    BY <1>1 DEF CredIInv, HadKept, CredOpKnows, NoToken, Old
  <1>3. CASE Goes(b, [cop[b] EXCEPT !.pc = "write", !.tok = regs + 1])
    <2> DEFINE o == [cop[b] EXCEPT !.pc = "write", !.tok = regs + 1]
    <2>1. o \in CredOp /\ o.pc = "write" /\ o.todo = cop[b].todo /\ o.tok = regs + 1
      BY <1>1 DEF CredOp, Tokens
    <2> HIDE DEF o
    <2>2. cop'[b] = o
      BY <1>3, <2>1, GoesTo DEF CredIInv, o
    <2>3. CredOpKnows(b)'
      BY <1>1, <1>2, <2>1, <2>2 DEF CredOpKnows
    <2> QED BY <1>1, <1>3, <2>1, <2>3, MovesKeeps DEF o
  <1>4. CASE Rejects(b)
    BY <1>1, <1>4, RejectsKeeps
  <1> QED BY <1>3, <1>4 DEF RegisterAt

\* The registered token is saved after it has been read back.
LEMMA SaveTokenKeeps ==
  ASSUME CredIInv, NEW b \in Bases, SaveToken(b)
  PROVE  CredIInv'
  <1>1. CredTypes'
    BY CredAssumption DEF CredIInv, CredTypes, CredTypeOK, CredOp, SaveToken, Goes, NoCredOp, Metadata, Tokens
  <1>2. HadKept'
    BY CredAssumption DEF CredIInv, CredOpKnows, HadKept, SaveToken, Metadata
  <1>3. HandedOut'
    BY CredAssumption DEF CredIInv, CredOpKnows, CredTypes, HandedOut, SaveToken, Goes, NoCredOp, Metadata
  <1>4. \A c \in Bases : CredOpKnows(c)'
    BY CredAssumption DEF CredIInv, CredOpKnows, SaveToken, Goes, NoCredOp, Metadata
  <1> QED BY <1>1, <1>2, <1>3, <1>4 DEF CredIInv

\* A death leaves the file and the vault.
LEMMA DieKeeps ==
  ASSUME CredIInv, Die
  PROVE  CredIInv'
  <1>1. CredTypes'
    BY CredAssumption DEF CredIInv, CredTypes, CredTypeOK, CredOp, Die, NoCredOp, Tokens
  <1>2. HadKept'
    BY CredAssumption DEF CredIInv, HadKept, Die
  <1>3. HandedOut'
    BY CredAssumption DEF HandedOut, Die
  <1>4. \A c \in Bases : CredOpKnows(c)'
    BY CredAssumption DEF CredOpKnows, Die, NoCredOp
  <1> QED BY <1>1, <1>2, <1>3, <1>4 DEF CredIInv

\* device-credential-store.ts: no token of an old device.json is lost or overtaken by a
\* registration, whatever fails and however the calls interleave.
THEOREM CredentialsStay ==
  CredSpec => []CredentialsKept
  <1>1. CredIInv => CredentialsKept
    BY DEF CredIInv, CredTypes, CredentialsKept, HadKept, HandedOut, CredOpKnows
  <1>2. ASSUME CredIInv, [CredNext]_credVars PROVE CredIInv'
    <2>1. CASE CredNext
      BY <1>2, <2>1, LoadStateKeeps, MigrateTokenKeeps, ResolveKeeps, WriteTokenKeeps, CheckTokenKeeps,
         MigratedKeeps, HandOutKeeps, RegisterAtKeeps, SaveTokenKeeps, DieKeeps DEF CredNext
    <2>2. CASE UNCHANGED credVars
      BY <1>2, <2>2 DEF credVars, CredIInv, CredTypes, CredTypeOK, HadKept, HandedOut, CredOpKnows
    <2> QED BY <1>2, <2>1, <2>2
  <1> QED BY <1>1, <1>2, CredInitKeeps, PTL DEF CredSpec

(***************************************************************************)
(* The client's start.  What runs, and what the cache keeps, was answered   *)
(* by the cloud (CloudAnswered): it expires within one validity of now, of  *)
(* the moment it was replaced and of the stop.  An answer on its way        *)
(* is one of these however late it comes, and a 304 is for the cached       *)
(* configuration (StartHolds); what is current is neither replaced nor      *)
(* stopped (HistoryHolds).                                                  *)
(***************************************************************************)
\* A cached or used configuration, an answer of the cloud, and an activation code.
Document == [ver : 0..(Edits + 1), exp : Nat, at : Nat]
Replies == [kind : {"none", "refused", "transient"}]
           \cup [kind : {"modified", "not_modified"}, ver : 1..(Edits + 1), exp : Nat]
CodeSet == [st : {"none", "active", "revoked"}, uses : Nat, exp : Nat]
StartSet == [pc : {"off", "window", "cache", "ask", "answer", "failed", "up"}, att : 0..Attempts,
             cached : Document, reply : Replies, used : Document]

BootTypes ==
  /\ clock \in 1..MaxClock
  /\ code \in [Codes -> CodeSet]
  /\ actv \in [BootDevices -> Codes \cup {NoCode}]
  /\ model \in [ver : 1..(Edits + 1), disabled : BOOLEAN]
  /\ editor \in [on : {FALSE}] \cup [on : {TRUE}, disabled : BOOLEAN]
  /\ stopped \in 1..Never
  /\ replaced \in [1..(Edits + 1) -> 1..Never]
  /\ kcache \in Document
  /\ start \in StartSet

\* The devices of a code are counted among its uses; a code not yet made has none.
Holders(a, c) == {d \in BootDevices : a[d] = c}
HoldersCounted(a, co) ==
  \A c \in Codes : /\ Cardinality(Holders(a, c)) <= co[c].uses
                   /\ co[c].uses <= MaxUses
                   /\ co[c].st = "none" => co[c].uses = 0

\* What is not yet replaced or stopped is current.
HistoryHolds ==
  /\ \A v \in 1..(Edits + 1) : v >= model.ver => replaced[v] = Never
  /\ stopped # Never => model.disabled /\ stopped <= clock

\* A configuration the cloud has answered expires within one validity of now, of the
\* moment it was replaced and of an emergency stop.
CloudAnswered(v, e, now, cur, repl, stop) ==
  /\ v \in 1..cur /\ e \in Nat
  /\ e <= now + Validity /\ e <= repl[v] + Validity
  /\ stop # Never => e <= stop + Validity

\* Every configuration the client holds was answered: in its cache, on the way and in use.
CacheHolds(k, now, cur, repl, stop) ==
  k.ver # 0 => CloudAnswered(k.ver, k.exp, now, cur, repl, stop) /\ k.at <= now /\ k.exp <= k.at + Validity
StartHolds(s, now, cur, repl, stop) ==
  /\ s.reply.kind \in {"modified", "not_modified"} =>
       /\ s.pc = "answer"
       /\ CloudAnswered(s.reply.ver, s.reply.exp, now, cur, repl, stop)
       /\ s.reply.kind = "not_modified" => s.cached.ver = s.reply.ver
  /\ s.pc = "up" => CloudAnswered(s.used.ver, s.used.exp, now, cur, repl, stop)

ConfigHolds ==
  /\ CacheHolds(kcache, clock, model.ver, replaced, stopped)
  /\ StartHolds(start, clock, model.ver, replaced, stopped)

BootIInv == BootTypes /\ HoldersCounted(actv, code) /\ HistoryHolds /\ ConfigHolds

\* The devices of the tenant are finitely many.
LEMMA DevicesFinite == BootAssumption => IsFiniteSet(BootDevices)
  BY FS_Singleton, FS_Union DEF BootAssumption, BootDevices

\* So are those of a code.
LEMMA HoldersFinite ==
  ASSUME BootAssumption, NEW a, NEW c
  PROVE  IsFiniteSet(Holders(a, c)) /\ Cardinality(Holders(a, c)) \in Nat
  BY DevicesFinite, FS_Subset, FS_CardinalityType DEF Holders

\* A client that is off holds no configuration.
LEMMA NothingStarted ==
  BootAssumption => NoCache \in Document /\ NotStarted \in StartSet /\ NotStarted.reply.kind = "none"
                    /\ NotStarted.pc = "off" /\ NotStarted.att = 0
  BY DEF BootAssumption, NoCache, NotStarted, Document, Replies, StartSet

\* No code is made and no configuration answered at first.
LEMMA BootInitKeeps == BootAssumption /\ BootInit => BootIInv
  <1> SUFFICES ASSUME BootAssumption, BootInit PROVE BootIInv
    OBVIOUS
  <1>1. BootTypes
    BY NothingStarted DEF BootAssumption, BootInit, BootTypes, CodeSet, Never
  <1>2. HoldersCounted(actv, code)
    <2> SUFFICES ASSUME NEW c \in Codes PROVE Holders(actv, c) = {} /\ code[c].uses = 0
      BY FS_EmptySet DEF HoldersCounted, BootAssumption
    <2> QED BY DEF BootAssumption, BootInit, Holders, NoCode
  <1>3. HistoryHolds
    BY DEF BootInit, HistoryHolds
  <1>4. ConfigHolds
    BY DEF BootInit, ConfigHolds, CacheHolds, StartHolds, NoCache, NotStarted
  <1> QED BY <1>1, <1>2, <1>3, <1>4 DEF BootIInv

\* A configuration that was answered stays so as time passes,
LEMMA StillAnswered ==
  ASSUME BootAssumption, NEW v, NEW e, NEW now \in Nat, NEW cur, NEW repl, NEW stop,
         CloudAnswered(v, e, now, cur, repl, stop)
  PROVE  CloudAnswered(v, e, now + 1, cur, repl, stop)
  BY DEF BootAssumption, CloudAnswered

\* and as it is replaced or the clients are stopped, now.
LEMMA AnsweredBefore ==
  ASSUME BootAssumption, NEW v, NEW e, NEW now \in Nat, NEW cur \in 1..Edits, NEW repl \in [1..(Edits + 1) -> 1..Never],
         NEW stop, NEW stop2 \in {Never, stop, now}, CloudAnswered(v, e, now, cur, repl, stop)
  PROVE  CloudAnswered(v, e, now, cur + 1, [repl EXCEPT ![cur] = now], stop2)
  BY DEF BootAssumption, CloudAnswered

\* Nothing of what a configuration is judged by has changed, but the start or the cache.
LEMMA HistoryStays ==
  ASSUME HistoryHolds, UNCHANGED <<clock, model, stopped, replaced>>
  PROVE  HistoryHolds'
  BY DEF HistoryHolds

\* A use is counted with the device that takes it.
LEMMA RedeemKeeps ==
  ASSUME BootAssumption, BootIInv, NEW d \in BootDevices, NEW c \in Codes, Redeem(d, c)
  PROVE  /\ code' \in [Codes -> CodeSet] /\ actv' \in [BootDevices -> Codes \cup {NoCode}]
         /\ HoldersCounted(actv', code') /\ UNCHANGED <<model, editor, stopped, replaced>>
  <1>1. code \in [Codes -> CodeSet] /\ actv \in [BootDevices -> Codes \cup {NoCode}] /\ HoldersCounted(actv, code)
        /\ UNCHANGED <<model, editor, stopped, replaced>>
    BY DEF BootIInv, BootTypes, Redeem
  <1>2. CASE UNCHANGED <<code, actv>>
    BY <1>1, <1>2
  <1>3. CASE actv[d] = c /\ code' = code /\ actv' = [actv EXCEPT ![d] = c]
    <2>1. actv' = actv
      BY <1>1, <1>3
    <2> QED BY <1>1, <1>3, <2>1
  <1>4. CASE /\ actv[d] # c /\ code[c].uses < MaxUses /\ ValidCode(c)
             /\ code' = [code EXCEPT ![c].uses = @ + 1] /\ actv' = [actv EXCEPT ![d] = c]
    <2>1. code' \in [Codes -> CodeSet] /\ code'[c].uses = code[c].uses + 1 /\ code'[c].st = "active"
          /\ \A k \in Codes \ {c} : code'[k] = code[k]
      BY <1>1, <1>4 DEF CodeSet, ValidCode
    <2>2. \A k \in Codes \ {c} : Holders(actv', k) \subseteq Holders(actv, k)
      BY <1>1, <1>4 DEF Holders
    <2>3. Holders(actv', c) = Holders(actv, c) \cup {d}
      BY <1>1, <1>4 DEF Holders
    <2>4. Cardinality(Holders(actv', c)) <= Cardinality(Holders(actv, c)) + 1
      <3>1. IsFiniteSet(Holders(actv, c)) /\ Cardinality(Holders(actv, c)) \in Nat
        BY HoldersFinite
      <3>2. Cardinality(Holders(actv, c) \cup {d}) \in {Cardinality(Holders(actv, c)), Cardinality(Holders(actv, c)) + 1}
        BY <3>1, FS_AddElement
      <3> QED BY <2>3, <3>1, <3>2
    <2>5. \A k \in Codes \ {c} : Cardinality(Holders(actv', k)) <= Cardinality(Holders(actv, k))
      BY <2>2, HoldersFinite, FS_Subset
    <2>6. HoldersCounted(actv', code')
      <3> SUFFICES ASSUME NEW k \in Codes
                   PROVE  /\ Cardinality(Holders(actv', k)) <= code'[k].uses
                          /\ code'[k].uses <= MaxUses
                          /\ code'[k].st = "none" => code'[k].uses = 0
        BY DEF HoldersCounted
      <3>1. code[k].uses \in Nat /\ Cardinality(Holders(actv', k)) \in Nat /\ Cardinality(Holders(actv, k)) \in Nat
            /\ Cardinality(Holders(actv, k)) <= code[k].uses /\ code[k].uses <= MaxUses
            /\ (code[k].st = "none" => code[k].uses = 0)
        BY <1>1, HoldersFinite DEF CodeSet, HoldersCounted
      <3>2. CASE k = c
        BY <1>4, <2>1, <2>4, <3>1, <3>2 DEF BootAssumption
      <3>3. CASE k # c
        BY <2>1, <2>5, <3>1, <3>3 DEF BootAssumption
      <3> QED BY <3>2, <3>3
    <2>7. actv' \in [BootDevices -> Codes \cup {NoCode}]
      BY <1>1, <1>4
    <2> QED BY <1>1, <2>1, <2>6, <2>7
  <1> QED BY <1>2, <1>3, <1>4 DEF Redeem, Redeemable

\* Another device touches the codes only.
LEMMA RivalActivatesKeeps ==
  ASSUME BootAssumption, BootIInv, NEW d \in Rivals, NEW c \in Codes, RivalActivates(d, c)
  PROVE  BootIInv'
  <1>1. Redeem(d, c) /\ d \in BootDevices /\ UNCHANGED <<clock, kcache, start>>
    BY DEF RivalActivates, BootDevices
  <1>2. BootTypes' /\ UNCHANGED <<model, stopped, replaced>> /\ HoldersCounted(actv', code')
    BY <1>1, RedeemKeeps DEF BootIInv, BootTypes
  <1> QED BY <1>1, <1>2, HistoryStays DEF BootIInv, ConfigHolds

\* A code is made without uses, and revoked with those it has.
LEMMA CodeKeeps ==
  ASSUME BootAssumption, BootIInv, NEW c \in Codes, CreateCode(c) \/ RevokeCode(c)
  PROVE  BootIInv'
  <1>1. UNCHANGED <<clock, actv, model, editor, stopped, replaced, kcache, start>>
    BY DEF CreateCode, RevokeCode
  <1>2. code \in [Codes -> CodeSet] /\ HoldersCounted(actv, code) /\ clock \in Nat
    BY DEF BootIInv, BootTypes
  <1>3. code' \in [Codes -> CodeSet] /\ \A k \in Codes : code'[k].uses = code[k].uses /\ (k # c => code'[k].st = code[k].st)
        /\ code'[c].st # "none"
    <2>1. CASE CreateCode(c)
      BY <1>2, <2>1 DEF CreateCode, CodeSet, HoldersCounted, BootAssumption
    <2>2. CASE RevokeCode(c)
      BY <1>2, <2>2 DEF RevokeCode, CodeSet
    <2> QED BY <2>1, <2>2
  <1>4. HoldersCounted(actv', code')
    BY <1>1, <1>2, <1>3 DEF HoldersCounted
  <1> QED BY <1>1, <1>3, <1>4, HistoryStays DEF BootIInv, BootTypes, ConfigHolds

\* A start that has no answer in hand and runs on nothing.
LEMMA StartMoves ==
  ASSUME BootAssumption, BootIInv, start' \in StartSet, UNCHANGED <<clock, model, editor, stopped, replaced, kcache>>,
         UNCHANGED <<code, actv>>, start'.reply.kind \notin {"modified", "not_modified"}, start'.pc # "up"
  PROVE  BootIInv'
  <1>1. ConfigHolds'
    BY DEF BootIInv, ConfigHolds, StartHolds
  <1> QED BY <1>1, HistoryStays DEF BootIInv, BootTypes

\* The status decides where the start goes.
LEMMA AskStatusKeeps ==
  ASSUME BootAssumption, BootIInv, AskStatus
  PROVE  BootIInv'
  <1>1. \E pc \in {"cache", "window", "failed"} : start' = [NotStarted EXCEPT !.pc = pc]
    BY DEF AskStatus
  <1>2. start' \in StartSet /\ start'.reply.kind = "none" /\ start'.pc # "up"
    BY <1>1, NothingStarted DEF StartSet
  <1> QED BY <1>2, StartMoves DEF AskStatus, bootCloudVars

\* A client that is left runs on nothing.
LEMMA LeaveClientKeeps ==
  ASSUME BootAssumption, BootIInv, LeaveClient
  PROVE  BootIInv'
  BY NothingStarted, StartMoves DEF LeaveClient, bootCloudVars

\* The client's own activation, its answer lost or not.
LEMMA ActivateKeeps ==
  ASSUME BootAssumption, BootIInv, NEW c \in Codes, Activate(c)
  PROVE  BootIInv'
  <1>1. Redeem(Own, c) /\ Own \in BootDevices /\ UNCHANGED <<clock, kcache>> /\ start.pc = "window" /\ start \in StartSet
    BY DEF Activate, BootDevices, BootIInv, BootTypes
  <1>2. /\ code' \in [Codes -> CodeSet] /\ actv' \in [BootDevices -> Codes \cup {NoCode}]
        /\ HoldersCounted(actv', code') /\ UNCHANGED <<model, editor, stopped, replaced>>
    BY <1>1, RedeemKeeps
  <1>3. start' \in {start, [start EXCEPT !.pc = "cache"]}
    BY DEF Activate
  <1>4. start' \in StartSet /\ start'.reply = start.reply /\ start'.pc \in {"window", "cache"}
    BY <1>1, <1>3 DEF StartSet
  <1>5. ConfigHolds'
    BY <1>1, <1>2, <1>4 DEF BootIInv, ConfigHolds, StartHolds
  <1> QED BY <1>1, <1>2, <1>4, <1>5, HistoryStays DEF BootIInv, BootTypes

\* An edit that has only read changes nothing.
LEMMA EditReadsKeeps ==
  ASSUME BootAssumption, BootIInv, EditReads
  PROVE  BootIInv'
  <1>1. editor' \in [on : {TRUE}, disabled : BOOLEAN] /\ UNCHANGED <<clock, code, actv, model, stopped, replaced, kcache, start>>
    <2>1. model.disabled \in BOOLEAN
      BY DEF BootIInv, BootTypes
    <2>2. PICK d \in BOOLEAN : editor' = [on |-> TRUE, disabled |-> d]
      BY <2>1 DEF EditReads
    <2> QED BY <2>2 DEF EditReads
  <1> QED BY <1>1, HistoryStays DEF BootIInv, BootTypes, ConfigHolds

\* A save replaces the configuration now, and stops the clients no earlier than now.
LEMMA SaveConfigKeeps ==
  ASSUME BootAssumption, BootIInv, NEW x \in BOOLEAN, SaveConfig(x),
         editor' \in [on : {FALSE}] \cup [on : {TRUE}, disabled : BOOLEAN]
  PROVE  BootIInv'
  <1>1. /\ model.ver \in 1..Edits /\ model'.ver = model.ver + 1 /\ model'.disabled = x
        /\ model' \in [ver : 1..(Edits + 1), disabled : BOOLEAN]
        /\ replaced \in [1..(Edits + 1) -> 1..Never] /\ clock \in 1..MaxClock /\ model.disabled \in BOOLEAN
        /\ replaced' = [replaced EXCEPT ![model.ver] = clock]
        /\ UNCHANGED <<clock, code, actv, kcache, start>>
    BY DEF SaveConfig, BootIInv, BootTypes, BootAssumption
  <1>2. stopped' \in {Never, stopped, clock} /\ (stopped' # Never => x /\ ((model.disabled /\ stopped' = stopped) \/ stopped' = clock))
    <2>1. CASE ~x
      BY <2>1 DEF SaveConfig
    <2>2. CASE x /\ model.disabled
      BY <2>2 DEF SaveConfig
    <2>3. CASE x /\ ~model.disabled
      BY <2>3 DEF SaveConfig
    <2> QED BY <2>1, <2>2, <2>3
  <1>3. HistoryHolds'
    BY <1>1, <1>2 DEF HistoryHolds, BootIInv, BootAssumption
  <1>4. BootTypes'
    <2>1. stopped \in 1..Never /\ clock \in 1..Never
      BY <1>1 DEF BootIInv, BootTypes, BootAssumption, Never
    <2>2. stopped' \in 1..Never
      BY <1>2, <2>1 DEF BootAssumption, Never
    <2>3. replaced' \in [1..(Edits + 1) -> 1..Never]
      BY <1>1, <2>1
    <2> QED BY <1>1, <2>2, <2>3 DEF BootIInv, BootTypes
  <1>5. \A v, e : CloudAnswered(v, e, clock, model.ver, replaced, stopped) => CloudAnswered(v, e, clock', model'.ver, replaced', stopped')
    <2>1. clock \in Nat /\ stopped' \in {Never, stopped, clock}
      BY <1>1, <1>2
    <2> TAKE v, e
    <2>2. CloudAnswered(v, e, clock, model.ver, replaced, stopped)
          => CloudAnswered(v, e, clock, model.ver + 1, [replaced EXCEPT ![model.ver] = clock], stopped')
      BY <1>1, <2>1, AnsweredBefore
    <2> QED BY <1>1, <2>2
  <1>6. ConfigHolds'
    BY <1>1, <1>5 DEF BootIInv, ConfigHolds, CacheHolds, StartHolds
  <1> QED BY <1>1, <1>3, <1>4, <1>6 DEF BootIInv

\* Both edits are saves, whatever each has read.
LEMMA EditKeeps ==
  ASSUME BootAssumption, BootIInv, EditSaves \/ EditOvertakes
  PROVE  BootIInv'
  <1>1. editor \in [on : {FALSE}] \cup [on : {TRUE}, disabled : BOOLEAN] /\ model.disabled \in BOOLEAN
    BY DEF BootIInv, BootTypes
  <1>2. CASE EditSaves
    <2>1. editor.disabled \in BOOLEAN /\ editor' \in [on : {FALSE}] /\ SaveConfig(editor.disabled)
      BY <1>1, <1>2 DEF EditSaves
    <2> QED BY <2>1, SaveConfigKeeps
  <1>3. CASE EditOvertakes
    BY <1>1, <1>3, SaveConfigKeeps DEF EditOvertakes
  <1> QED BY <1>2, <1>3

\* Time only brings the ends nearer.
LEMMA BootTickKeeps ==
  ASSUME BootAssumption, BootIInv, BootTick
  PROVE  BootIInv'
  <1>1. clock \in 1..MaxClock /\ clock' = clock + 1 /\ clock' \in 1..MaxClock
        /\ UNCHANGED <<code, actv, model, editor, stopped, replaced, kcache, start>>
    BY DEF BootTick, bootCloudVars, BootIInv, BootTypes, BootAssumption
  <1>2. HistoryHolds'
    BY <1>1 DEF HistoryHolds, BootIInv, BootTypes, BootAssumption, Never
  <1>3. \A v, e : CloudAnswered(v, e, clock, model.ver, replaced, stopped) => CloudAnswered(v, e, clock', model'.ver, replaced', stopped')
    BY <1>1, StillAnswered DEF BootAssumption
  <1>4. CacheHolds(kcache', clock', model'.ver, replaced', stopped')
    BY <1>1, <1>3 DEF BootIInv, BootTypes, ConfigHolds, CacheHolds, Document
  <1>5. ConfigHolds'
    BY <1>1, <1>3, <1>4 DEF BootIInv, ConfigHolds, StartHolds
  <1> QED BY <1>1, <1>2, <1>5 DEF BootIInv, BootTypes

\* The cache gives a start the ETag it asks with.
LEMMA ReadCacheKeeps ==
  ASSUME BootAssumption, BootIInv, ReadCache
  PROVE  BootIInv'
  <1>1. start.pc = "cache" /\ start \in StartSet /\ kcache \in Document /\ start.reply.kind \notin {"modified", "not_modified"}
    BY DEF ReadCache, BootIInv, BootTypes, ConfigHolds, StartHolds
  <1>2. PICK k \in Document : start' = [start EXCEPT !.pc = "ask", !.att = 1, !.cached = k]
    BY <1>1, NothingStarted DEF ReadCache
  <1>3. start' \in StartSet /\ start'.reply = start.reply /\ start'.pc = "ask"
    <2>1. 1 \in 0..Attempts
      BY DEF BootAssumption
    <2> QED BY <1>1, <1>2, <2>1 DEF StartSet
  <1> QED BY <1>1, <1>3, StartMoves DEF ReadCache, bootCloudVars

\* What the cloud answers now is a current configuration.
LEMMA CloudAnswers ==
  ASSUME BootAssumption, BootIInv
  PROVE  /\ CloudReply \in Replies
         /\ CloudReply.kind \in {"modified", "not_modified"} =>
              /\ CloudAnswered(CloudReply.ver, CloudReply.exp, clock, model.ver, replaced, stopped)
              /\ CloudReply.kind = "not_modified" => start.cached.ver = CloudReply.ver
  <1>1. /\ clock \in 1..MaxClock /\ model.ver \in 1..(Edits + 1) /\ model.disabled \in BOOLEAN
        /\ stopped \in 1..Never /\ HistoryHolds
    BY DEF BootIInv, BootTypes
  <1>2. CASE ~Activated(Own)
    BY <1>2 DEF CloudReply, Replies
  <1>3. CASE Activated(Own) /\ model.disabled
    BY <1>3 DEF CloudReply, Replies
  <1>4. CASE Activated(Own) /\ ~model.disabled
    <2>1. CloudReply = [kind |-> IF start.cached.ver = model.ver THEN "not_modified" ELSE "modified",
                        ver |-> model.ver, exp |-> clock + Validity]
      BY <1>4 DEF CloudReply
    <2>2. stopped = Never /\ replaced[model.ver] = Never
      BY <1>1, <1>4 DEF HistoryHolds
    <2>3. CloudAnswered(model.ver, clock + Validity, clock, model.ver, replaced, stopped)
      BY <1>1, <2>2 DEF CloudAnswered, Never, BootAssumption
    <2>4. CloudReply \in Replies
      BY <1>1, <2>1 DEF Replies, BootAssumption
    <2> QED BY <2>1, <2>3, <2>4
  <1> QED BY <1>2, <1>3, <1>4

\* An answer on its way is a current configuration, or none.
LEMMA AskConfigKeeps ==
  ASSUME BootAssumption, BootIInv, AskConfig
  PROVE  BootIInv'
  <1>1. UNCHANGED <<clock, code, actv, model, editor, stopped, replaced, kcache>> /\ start \in StartSet
    BY DEF AskConfig, bootCloudVars, BootIInv, BootTypes
  <1>2. PICK r \in {CloudReply, [kind |-> "transient"]} : start' = [start EXCEPT !.pc = "answer", !.reply = r]
    BY DEF AskConfig
  <1>3. r \in Replies /\ (r.kind \in {"modified", "not_modified"} => r = CloudReply)
    BY <1>2, CloudAnswers DEF Replies
  <1>4. start' \in StartSet /\ start'.reply = r /\ start'.pc = "answer" /\ start'.cached = start.cached
    BY <1>1, <1>2, <1>3 DEF StartSet
  <1>5. StartHolds(start', clock, model.ver, replaced, stopped)
    BY <1>3, <1>4, CloudAnswers DEF StartHolds
  <1>6. ConfigHolds'
    BY <1>1, <1>5 DEF BootIInv, ConfigHolds
  <1> QED BY <1>1, <1>4, <1>6, HistoryStays DEF BootIInv, BootTypes

\* A start on a configuration that was answered.
LEMMA RunsOnAnswered ==
  ASSUME BootAssumption, BootIInv, NEW k \in Document, start' = RunsOn(k),
         CloudAnswered(k.ver, k.exp, clock, model.ver, replaced, stopped)
  PROVE  start' \in StartSet /\ StartHolds(start', clock, model.ver, replaced, stopped)
  <1>1. start' \in StartSet /\ start'.reply.kind = "none" /\ start'.used = k
    BY DEF BootIInv, BootTypes, RunsOn, StartSet, Replies
  <1> QED BY <1>1 DEF StartHolds

\* A start runs on the answer, or on a cache that may still be used.
LEMMA TakeAnswerKeeps ==
  ASSUME BootAssumption, BootIInv, TakeAnswer
  PROVE  BootIInv'
  <1> DEFINE r == start.reply
             k == Fetched(r)
  <1>1. /\ UNCHANGED <<clock, code, actv, model, editor, stopped, replaced>> /\ start.pc = "answer"
        /\ start \in StartSet /\ kcache \in Document /\ clock \in 1..MaxClock
    BY DEF TakeAnswer, bootCloudVars, BootIInv, BootTypes
  <1>2. CASE r.kind \in {"modified", "not_modified"} /\ clock < k.exp /\ start' = RunsOn(k) /\ kcache' \in {kcache, k}
    <2>1. CloudAnswered(r.ver, r.exp, clock, model.ver, replaced, stopped) /\ (r.kind = "not_modified" => start.cached.ver = r.ver)
      BY <1>1, <1>2 DEF BootIInv, ConfigHolds, StartHolds
    <2>2. k.ver = r.ver /\ k.exp = r.exp /\ k.at = clock /\ k \in Document
      <3>1. r.ver \in 0..(Edits + 1) /\ r.exp \in Nat /\ clock \in Nat
        BY <1>1, <1>2 DEF StartSet, Replies, BootAssumption
      <3>2. k = [ver |-> r.ver, exp |-> r.exp, at |-> clock]
        BY <1>2, <2>1 DEF Fetched
      <3> QED BY <3>1, <3>2 DEF Document
    <2> HIDE DEF k
    <2>3. start' \in StartSet /\ StartHolds(start', clock, model.ver, replaced, stopped)
      BY <1>2, <2>1, <2>2, RunsOnAnswered
    <2>4. CacheHolds(kcache', clock, model.ver, replaced, stopped) /\ kcache' \in Document
      BY <1>1, <1>2, <2>1, <2>2 DEF CacheHolds, CloudAnswered, BootIInv, ConfigHolds
    <2> QED BY <1>1, <2>3, <2>4, HistoryStays DEF BootIInv, BootTypes, ConfigHolds
  <1>3. CASE UNCHANGED kcache /\ Usable(kcache) /\ start' = RunsOn(kcache)
    <2>1. CloudAnswered(kcache.ver, kcache.exp, clock, model.ver, replaced, stopped)
      BY <1>3 DEF Usable, BootIInv, ConfigHolds, CacheHolds
    <2>2. start' \in StartSet /\ StartHolds(start', clock, model.ver, replaced, stopped)
      BY <1>1, <1>3, <2>1, RunsOnAnswered
    <2> QED BY <1>1, <1>3, <2>2, HistoryStays DEF BootIInv, BootTypes, ConfigHolds
  <1>4. CASE UNCHANGED kcache /\ start' = [NotStarted EXCEPT !.pc = "failed"]
    <2>1. start' \in StartSet /\ start'.reply.kind = "none" /\ start'.pc # "up"
      BY <1>4, NothingStarted DEF StartSet
    <2> QED BY <1>1, <1>4, <2>1, StartMoves
  <1>5. CASE UNCHANGED kcache /\ start.att < Attempts /\ r.kind = "transient" /\ start' = [start EXCEPT !.pc = "ask", !.att = @ + 1]
    <2>1. start' \in StartSet /\ start'.reply.kind = "transient" /\ start'.pc # "up"
      <3>1. start.att + 1 \in 0..Attempts
        BY <1>1, <1>5 DEF StartSet, BootAssumption
      <3> QED BY <1>1, <1>5, <3>1 DEF StartSet
    <2> QED BY <1>1, <1>5, <2>1, StartMoves
  <1>6. \/ r.kind \in {"modified", "not_modified"} /\ clock < k.exp /\ start' = RunsOn(k) /\ kcache' \in {kcache, k}
        \/ UNCHANGED kcache /\ Usable(kcache) /\ start' = RunsOn(kcache)
        \/ UNCHANGED kcache /\ start' = [NotStarted EXCEPT !.pc = "failed"]
        \/ UNCHANGED kcache /\ start.att < Attempts /\ r.kind = "transient" /\ start' = [start EXCEPT !.pc = "ask", !.att = @ + 1]
    <2>1. CASE r.kind \in {"modified", "not_modified"}
      <3>1. k.exp = r.exp /\ r.exp \in Nat
        BY <1>1, <2>1 DEF Fetched, StartSet, Replies
      <3>2. CASE clock >= k.exp
        BY <2>1, <3>2 DEF TakeAnswer
      <3>3. CASE ~(clock >= k.exp)
        <4>1. start' = RunsOn(k) /\ WriteCache(k)
          BY <2>1, <3>3 DEF TakeAnswer
        <4>2. clock < k.exp
          BY <1>1, <3>1, <3>3
        <4> HIDE DEF k
        <4> QED BY <2>1, <4>1, <4>2 DEF WriteCache
      <3> QED BY <3>2, <3>3
    <2>2. CASE r.kind = "refused"
      BY <2>2 DEF TakeAnswer
    <2>3. CASE r.kind = "transient"
      BY <2>3 DEF TakeAnswer
    <2> QED BY <2>1, <2>2, <2>3 DEF TakeAnswer
  <1> QED BY <1>2, <1>3, <1>4, <1>5, <1>6

\* Every step keeps the inductive invariant,
LEMMA BootStep == BootAssumption /\ BootIInv /\ [BootNext]_bootVars => BootIInv'
  <1> SUFFICES ASSUME BootAssumption, BootIInv, [BootNext]_bootVars PROVE BootIInv'
    OBVIOUS
  <1>1. CASE BootNext
    BY <1>1, RivalActivatesKeeps, CodeKeeps, ActivateKeeps, AskStatusKeeps, EditReadsKeeps, EditKeeps, BootTickKeeps,
       ReadCacheKeeps, AskConfigKeeps, TakeAnswerKeeps, LeaveClientKeeps DEF BootNext
  <1>2. CASE UNCHANGED bootVars
    BY <1>2, HistoryStays DEF bootVars, BootIInv, BootTypes, ConfigHolds
  <1> QED BY <1>1, <1>2

\* which implies the property.
LEMMA BootIsSafe == BootAssumption /\ BootIInv => BootInv
  BY DEF BootIInv, BootTypes, BootTypeOK, HoldersCounted, Holders, ConfigHolds, CacheHolds, StartHolds,
     CloudAnswered, StartSet, BootInv

\* activation-code.ts, runtime-config-resolver.ts: uses are counted, and a client runs on
\* no configuration for longer than one validity after it was replaced or stopped.
THEOREM BootStays == BootSpec => []BootInv
  BY BootAssumption, BootInitKeeps, BootStep, BootIsSafe, PTL DEF BootSpec

\* The client starts with the credentials it had, and on a configuration that may
\* still be used; the two parts of the start share no state.
THEOREM StartIsSafe == CredSpec /\ BootSpec => []StartupInv
  <1>1. CredentialsKept /\ BootInv => StartupInv
    BY DEF StartupInv
  <1> QED BY <1>1, CredentialsStay, BootStays, PTL

(***************************************************************************)
(* Configuration backups.  ConfigBackupInv is not inductive: that a backup  *)
(* is complete when its metadata appears needs that no other request        *)
(* writes under its id, and that a restore still has a copy of what it      *)
(* replaces needs that the copy it made, or the target of the restore that  *)
(* came first, stays complete (JobHolds).                                   *)
(***************************************************************************)
\* A content or none, and a request between two of its steps.
Content == Configs \cup {"none"}
JobSet == [at : {"idle", "copy", "read", "content", "meta", "validate", "rename"},
           id : BackupIds \cup {"none"}, from : Content, target : Content, edited : BOOLEAN]
CfgTypes == CfgTypeOK /\ job \in [Savers -> JobSet]

\* A backup that is complete.
Complete(s, c) == \E i \in BackupIds : s[i] = [content |-> c, meta |-> c]

\* What a request has written: its content under an id no other request has, then all of it.
JobHolds(q, s, c) ==
  /\ q.at = "idle" => q = NoJob
  /\ q.at \in {"copy", "read"} => q.from = "none"
  /\ q.at = "read" => q.id \in BackupIds
  /\ q.at \in {"content", "meta"} => q.from # "none"
  /\ q.at = "meta" => q.id \in BackupIds /\ s[q.id] = [content |-> q.from, meta |-> "none"]
  /\ q.at \in {"validate", "rename"} => q.target # "none" /\ (q.from # "none" => Complete(s, q.from))
  /\ q.target # "none" => Complete(s, q.target)
  /\ q.at \in {"content", "meta", "validate", "rename"} /\ q.from # "none" =>
       c # "none" /\ (c = q.from \/ q.edited \/ Complete(s, c))

CfgIInv ==
  /\ CfgTypes /\ ListedIsRestorable
  /\ \A j \in Savers : JobHolds(job[j], store, cfg)
  /\ \A j, k \in Savers : j # k /\ job[j].at = "meta" /\ job[k].at = "meta" => job[j].id # job[k].id

\* A request that is not under way holds whatever there is.
LEMMA NoJobHolds ==
  NoJob \in JobSet /\ \A s, c : JobHolds(NoJob, s, c)
  BY DEF NoJob, JobSet, JobHolds, Content

\* The first state of the Manager: no backup, no request.
LEMMA CfgInitKeeps == CfgAssumption /\ CfgInit => CfgIInv
  <1> SUFFICES ASSUME CfgAssumption, CfgInit PROVE CfgIInv
    OBVIOUS
  <1>1. CfgTypes
    BY NoJobHolds DEF CfgInit, CfgTypes, CfgTypeOK, NoBackup
  <1>2. ListedIsRestorable
    BY DEF CfgInit, ListedIsRestorable, Listed, NoBackup
  <1>3. \A j \in Savers : JobHolds(job[j], store, cfg) /\ job[j].at = "idle"
    BY NoJobHolds DEF CfgInit, NoJob
  <1> QED BY <1>1, <1>2, <1>3 DEF CfgIInv

\* One request goes on, and no backup and no configuration changes.
LEMMA JobMoves ==
  ASSUME CfgIInv, NEW j \in Savers, NEW q \in JobSet, job' = [job EXCEPT ![j] = q],
         UNCHANGED <<cfg, store>>, q.at # "meta", JobHolds(q, store, cfg)
  PROVE  CfgIInv'
  <1>1. job' \in [Savers -> JobSet] /\ job'[j] = q /\ \A k \in Savers \ {j} : job'[k] = job[k]
    BY DEF CfgIInv, CfgTypes
  <1> QED BY <1>1 DEF CfgIInv, CfgTypes, CfgTypeOK, ListedIsRestorable, Listed

\* A request that is answered and changes nothing else.
LEMMA ReplyKeeps ==
  ASSUME CfgIInv, NEW j \in Savers, Reply(j), UNCHANGED <<cfg, store>>
  PROVE  CfgIInv'
  BY NoJobHolds, JobMoves DEF Reply, NoJob

\* handleConfigBackups, handleConfigRestore: a request begins.
LEMMA ReceiveSaveKeeps ==
  ASSUME CfgAssumption, CfgIInv, NEW j \in Savers, ReceiveSave(j)
  PROVE  CfgIInv'
  <1>1. job[j] = NoJob /\ UNCHANGED <<cfg, store>>
    BY DEF CfgIInv, JobHolds, ReceiveSave
  <1>2. PICK q \in JobSet : /\ q.at \in {"copy", "read"} /\ q.target = "none" /\ q.from = "none"
                            /\ q.at = "read" => q.id \in BackupIds
                            /\ job' = [job EXCEPT ![j] = q]
    <2>1. CASE job' = [job EXCEPT ![j].at = "copy"]
      <3> DEFINE q == [NoJob EXCEPT !.at = "copy"]
      <3>1. q \in JobSet /\ q.at = "copy" /\ q.target = "none" /\ q.from = "none"
        BY DEF JobSet, NoJob, Content
      <3>2. job' = [job EXCEPT ![j] = q]
        BY <1>1, <2>1
      <3> HIDE DEF q
      <3> QED BY <3>1, <3>2
    <2>2. ASSUME NEW i \in BackupIds, job' = [job EXCEPT ![j].at = "read", ![j].id = i]
          PROVE  \E q \in JobSet : /\ q.at \in {"copy", "read"} /\ q.target = "none" /\ q.from = "none"
                                   /\ q.at = "read" => q.id \in BackupIds
                                   /\ job' = [job EXCEPT ![j] = q]
      <3> DEFINE q == [NoJob EXCEPT !.at = "read", !.id = i]
      <3>1. q \in JobSet /\ q.at = "read" /\ q.target = "none" /\ q.from = "none" /\ q.id = i
        BY DEF JobSet, NoJob, Content
      <3>2. job' = [job EXCEPT ![j] = q]
        BY <1>1, <2>2
      <3> HIDE DEF q
      <3> QED BY <3>1, <3>2
    <2> QED BY <2>1, <2>2 DEF ReceiveSave
  <1>3. JobHolds(q, store, cfg)
    BY <1>2 DEF JobHolds
  <1> QED BY <1>1, <1>2, <1>3, JobMoves

\* readBackup: what the request will restore is a complete backup.
LEMMA ReadBackupKeeps ==
  ASSUME CfgAssumption, CfgIInv, NEW j \in Savers, ReadBackup(j)
  PROVE  CfgIInv'
  <1> DEFINE b == store[job[j].id]
             to == IF cfg = "none" THEN "validate" ELSE "copy"
             q == [job[j] EXCEPT !.target = b.content, !.at = to]
  <1>1. /\ job[j] \in JobSet /\ job[j].from = "none" /\ job[j].id \in BackupIds
        /\ UNCHANGED <<cfg, store>>
    BY DEF CfgIInv, CfgTypes, JobHolds, ReadBackup
  <1>2. CASE Reply(j)
    BY <1>1, <1>2, ReplyKeeps
  <1>3. CASE b.meta # "none" /\ b.content = b.meta /\ job' = [job EXCEPT ![j].target = b.content, ![j].at = to]
    <2>1. b = [content |-> b.content, meta |-> b.content] /\ b.content \in Configs
      BY <1>1, <1>3 DEF CfgIInv, CfgTypes, CfgTypeOK
    <2>2. Complete(store, b.content)
      BY <1>1, <2>1 DEF Complete
    <2>3. q \in JobSet /\ q.target = b.content /\ q.from = "none" /\ q.at \in {"validate", "copy"}
      BY <1>1, <1>3, <2>1 DEF JobSet, Content
    <2>4. job' = [job EXCEPT ![j] = q]
      BY <1>1, <1>3
    <2> HIDE DEF q, to, b
    <2>5. JobHolds(q, store, cfg)
      BY <2>1, <2>2, <2>3 DEF JobHolds, CfgAssumption
    <2>6. q.at # "meta"
      BY <2>3
    <2> QED BY <1>1, <2>3, <2>4, <2>5, <2>6, JobMoves
  <1> QED BY <1>2, <1>3 DEF ReadBackup

\* readActive: what the request will save is what the file holds.
LEMMA ReadActiveKeeps ==
  ASSUME CfgAssumption, CfgIInv, NEW j \in Savers, ReadActive(j)
  PROVE  CfgIInv'
  <1> DEFINE q == [job[j] EXCEPT !.from = cfg, !.at = "content", !.edited = FALSE]
  <1>1. job[j] \in JobSet /\ JobHolds(job[j], store, cfg) /\ cfg \in Content /\ UNCHANGED <<cfg, store>>
    BY DEF CfgIInv, CfgTypes, CfgTypeOK, Content, ReadActive
  <1>2. CASE Reply(j)
    BY <1>1, <1>2, ReplyKeeps
  <1>3. CASE cfg # "none" /\ job' = [job EXCEPT ![j].from = cfg, ![j].at = "content", ![j].edited = FALSE]
    <2>1. q \in JobSet /\ q.at = "content" /\ q.from = cfg /\ q.target = job[j].target
      BY <1>1 DEF JobSet
    <2>2. job' = [job EXCEPT ![j] = q]
      BY <1>1, <1>3
    <2> HIDE DEF q
    <2>3. JobHolds(q, store, cfg) /\ q.at # "meta"
      BY <1>1, <1>3, <2>1 DEF JobHolds
    <2> QED BY <1>1, <2>1, <2>2, <2>3, JobMoves
  <1> QED BY <1>2, <1>3 DEF ReadActive

\* A backup is written or removed only where none is complete.
LEMMA CompleteStays ==
  ASSUME NEW s, NEW r, NEW c, NEW i, Complete(s, c), s[i].meta = "none", c # "none",
         \A k \in BackupIds \ {i} : r[k] = s[k]
  PROVE  Complete(r, c)
  BY DEF Complete

\* What one request writes under its own id says nothing of another's.
LEMMA OthersHold ==
  ASSUME CfgIInv, NEW k \in Savers, NEW i \in BackupIds, NEW r, store[i].meta = "none",
         \A m \in BackupIds \ {i} : r[m] = store[m],
         job[k].at = "meta" => job[k].id # i
  PROVE  JobHolds(job[k], r, cfg)
  <1>1. JobHolds(job[k], store, cfg)
    BY DEF CfgIInv
  <1>2. \A c : c # "none" /\ Complete(store, c) => Complete(r, c)
    BY CompleteStays
  <1> QED BY <1>1, <1>2 DEF JobHolds

\* writeBackup, its first file: an id that no other request has.
LEMMA WriteContentKeeps ==
  ASSUME CfgAssumption, CfgIInv, NEW j \in Savers, WriteContent(j)
  PROVE  CfgIInv'
  <1>1. job[j] \in JobSet /\ job[j].at = "content" /\ job[j].from \in Configs /\ JobHolds(job[j], store, cfg)
        /\ UNCHANGED cfg /\ job \in [Savers -> JobSet]
    BY DEF CfgIInv, CfgTypes, JobHolds, JobSet, Content, WriteContent
  <1>2. CASE Reply(j) /\ store' = store
    BY <1>1, <1>2, ReplyKeeps
  <1>3. ASSUME NEW i \in BackupIds, store[i] = NoBackup, store' = [store EXCEPT ![i].content = job[j].from],
               job' = [job EXCEPT ![j].at = "meta", ![j].id = i]
        PROVE  CfgIInv'
    <2> DEFINE q == [job[j] EXCEPT !.at = "meta", !.id = i]
    <2>1. q \in JobSet /\ q.at = "meta" /\ q.id = i /\ q.from = job[j].from /\ q.target = job[j].target /\ q.edited = job[j].edited
      BY <1>1 DEF JobSet
    <2>2. job' = [job EXCEPT ![j] = q]
      BY <1>1, <1>3
    <2> HIDE DEF q
    <2>3. job' \in [Savers -> JobSet] /\ job'[j] = q /\ \A k \in Savers \ {j} : job'[k] = job[k]
      BY <1>1, <2>1, <2>2
    <2>4. /\ store'[i] = [content |-> q.from, meta |-> "none"] /\ \A k \in BackupIds \ {i} : store'[k] = store[k]
          /\ store' \in [BackupIds -> [content : Content, meta : Content]]
      BY <1>1, <1>3, <2>1 DEF CfgIInv, CfgTypes, CfgTypeOK, NoBackup, Content
    <2>5. store[i].meta = "none" /\ store[i].content = "none"
      BY <1>3 DEF NoBackup
    <2>6. ASSUME NEW k \in Savers, job[k].at = "meta" PROVE job[k].id # i
      <3>1. JobHolds(job[k], store, cfg)
        BY DEF CfgIInv
      <3>2. store[job[k].id].content = job[k].from /\ job[k].from # "none"
        BY <2>6, <3>1 DEF JobHolds
      <3> QED BY <2>5, <3>2
    <2>7. ASSUME NEW k \in Savers \ {j} PROVE JobHolds(job'[k], store', cfg')
      BY <1>1, <2>3, <2>4, <2>5, <2>6, OthersHold
    <2>8. JobHolds(q, store', cfg')
      <3>1. JobHolds(job[j], store', cfg)
        BY <1>1, <2>4, <2>5, OthersHold
      <3> QED BY <1>1, <2>1, <2>4, <3>1 DEF JobHolds
    <2>9. CfgTypes' /\ ListedIsRestorable'
      BY <1>1, <2>3, <2>4, <2>5 DEF CfgIInv, CfgTypes, CfgTypeOK, ListedIsRestorable, Listed, Content
    <2>10. \A k, m \in Savers : k # m /\ job'[k].at = "meta" /\ job'[m].at = "meta" => job'[k].id # job'[m].id
      BY <2>1, <2>3, <2>6 DEF CfgIInv
    <2> QED BY <2>3, <2>7, <2>8, <2>9, <2>10 DEF CfgIInv
  <1> QED BY <1>2, <1>3 DEF WriteContent

\* writeBackup, its second file: complete, or the content removed.
LEMMA WriteMetaKeeps ==
  ASSUME CfgAssumption, CfgIInv, NEW j \in Savers, WriteMeta(j)
  PROVE  CfgIInv'
  <1> DEFINE i == job[j].id
  <1>1. job[j] \in JobSet /\ job[j].at = "meta" /\ job[j].from \in Configs /\ JobHolds(job[j], store, cfg)
        /\ UNCHANGED cfg /\ job \in [Savers -> JobSet] /\ i \in BackupIds
        /\ store[i] = [content |-> job[j].from, meta |-> "none"]
    BY DEF CfgIInv, CfgTypes, JobHolds, JobSet, Content, WriteMeta
  <1>2. \A k \in Savers \ {j} : job[k].at = "meta" => job[k].id # i
    BY <1>1 DEF CfgIInv
  <1>3. \/ store' = [store EXCEPT ![i].meta = job[j].from]
        \/ store' = [store EXCEPT ![i].content = "none"]
    BY DEF WriteMeta
  <1>4. /\ store' \in [BackupIds -> [content : Content, meta : Content]] /\ \A k \in BackupIds \ {i} : store'[k] = store[k]
        /\ (store'[i].meta # "none" => store'[i].content = store'[i].meta)
    BY <1>1, <1>3 DEF CfgIInv, CfgTypes, CfgTypeOK, Content
  <1>5. PICK q \in JobSet : /\ job' = [job EXCEPT ![j] = q] /\ q.at # "meta" /\ JobHolds(q, store', cfg)
    <2>1. CASE Reply(j)
      <3>1. job' = [job EXCEPT ![j] = NoJob] /\ NoJob.at # "meta"
        BY <2>1 DEF Reply, NoJob
      <3> QED BY <3>1, NoJobHolds
    <2>2. CASE /\ store' = [store EXCEPT ![i].meta = job[j].from] /\ job[j].target # "none"
               /\ job' = [job EXCEPT ![j].at = "validate"]
      <3> DEFINE q == [job[j] EXCEPT !.at = "validate"]
      <3>1. q \in JobSet /\ q.at = "validate" /\ q.from = job[j].from /\ q.target = job[j].target /\ q.edited = job[j].edited
        BY <1>1 DEF JobSet
      <3>2. job' = [job EXCEPT ![j] = q]
        BY <1>1, <2>2
      <3> HIDE DEF q
      <3>3. store'[i] = [content |-> job[j].from, meta |-> job[j].from]
        BY <1>1, <2>2 DEF CfgIInv, CfgTypes, CfgTypeOK
      <3>4. Complete(store', q.from)
        BY <1>1, <3>1, <3>3 DEF Complete
      <3>5. \A c : c # "none" /\ Complete(store, c) => Complete(store', c)
        BY <1>1, <1>4, CompleteStays
      <3>6. JobHolds(q, store', cfg)
        BY <1>1, <2>2, <3>1, <3>4, <3>5 DEF JobHolds
      <3> QED BY <3>1, <3>2, <3>6
    <2> QED BY <2>1, <2>2 DEF WriteMeta
  <1> HIDE DEF i
  <1>6. job' \in [Savers -> JobSet] /\ job'[j] = q /\ \A k \in Savers \ {j} : job'[k] = job[k]
    BY <1>1, <1>5
  <1>7. ASSUME NEW k \in Savers \ {j} PROVE JobHolds(job'[k], store', cfg')
    BY <1>1, <1>2, <1>4, <1>6, OthersHold
  <1>8. CfgTypes' /\ ListedIsRestorable'
    BY <1>1, <1>4, <1>6 DEF CfgIInv, CfgTypes, CfgTypeOK, ListedIsRestorable, Listed, Content
  <1> QED BY <1>1, <1>5, <1>6, <1>7, <1>8 DEF CfgIInv

\* ValidateConfigCandidate touches neither the file nor a backup.
LEMMA ValidateKeeps ==
  ASSUME CfgAssumption, CfgIInv, NEW j \in Savers, Validate(j)
  PROVE  CfgIInv'
  <1> DEFINE q == [job[j] EXCEPT !.at = "rename"]
  <1>1. job[j] \in JobSet /\ job[j].at = "validate" /\ JobHolds(job[j], store, cfg) /\ UNCHANGED <<cfg, store>>
    BY DEF CfgIInv, CfgTypes, Validate
  <1>2. CASE Reply(j)
    BY <1>1, <1>2, ReplyKeeps
  <1>3. CASE job' = [job EXCEPT ![j].at = "rename"]
    <2>1. q \in JobSet /\ q.at = "rename" /\ q.from = job[j].from /\ q.target = job[j].target /\ q.edited = job[j].edited
      BY <1>1 DEF JobSet
    <2>2. job' = [job EXCEPT ![j] = q]
      BY <1>1, <1>3
    <2> HIDE DEF q
    <2>3. JobHolds(q, store, cfg) /\ q.at # "meta"
      BY <1>1, <2>1 DEF JobHolds
    <2> QED BY <1>1, <2>1, <2>2, <2>3, JobMoves
  <1> QED BY <1>2, <1>3 DEF Validate

\* atomicRename: the file now holds what a complete backup holds.
LEMMA AtomicRenameKeeps ==
  ASSUME CfgAssumption, CfgIInv, NEW j \in Savers, AtomicRename(j)
  PROVE  CfgIInv'
  <1>1. /\ job \in [Savers -> JobSet] /\ job[j].target \in Configs /\ Complete(store, job[j].target)
        /\ UNCHANGED store /\ cfg' \in {cfg, job[j].target} /\ job' = [job EXCEPT ![j] = NoJob]
    BY DEF CfgIInv, CfgTypes, JobHolds, JobSet, Content, AtomicRename, Reply
  <1>2. job' \in [Savers -> JobSet] /\ job'[j] = NoJob /\ \A k \in Savers \ {j} : job'[k] = job[k]
    BY <1>1, NoJobHolds
  <1>3. ASSUME NEW k \in Savers PROVE JobHolds(job'[k], store', cfg')
    <2>1. CASE k = j
      BY <1>2, <2>1, NoJobHolds
    <2>2. CASE k # j
      <3>1. JobHolds(job[k], store, cfg) /\ job'[k] = job[k]
        BY <1>2, <2>2 DEF CfgIInv
      <3> QED BY <1>1, <3>1 DEF JobHolds, CfgAssumption
    <2> QED BY <2>1, <2>2
  <1>4. NoJob.at # "meta"
    BY DEF NoJob
  <1> QED BY <1>1, <1>2, <1>3, <1>4 DEF CfgIInv, CfgTypes, CfgTypeOK, ListedIsRestorable, Listed

\* The user's own write is known to every request under way.
LEMMA EditSavedKeeps ==
  ASSUME CfgAssumption, CfgIInv, Edit
  PROVE  CfgIInv'
  <1>1. /\ job \in [Savers -> JobSet] /\ UNCHANGED store /\ cfg' \in Configs
        /\ job' = [j \in Savers |-> [job[j] EXCEPT !.edited = job[j].at # "idle"]]
    BY DEF CfgIInv, CfgTypes, Edit
  <1>2. \A j \in Savers : /\ job'[j] \in JobSet /\ job'[j].at = job[j].at /\ job'[j].id = job[j].id
                          /\ job'[j].from = job[j].from /\ job'[j].target = job[j].target
                          /\ job'[j].edited = (job[j].at # "idle")
    BY <1>1 DEF JobSet
  <1>3. ASSUME NEW j \in Savers PROVE JobHolds(job'[j], store', cfg')
    <2>1. JobHolds(job[j], store, cfg) /\ job[j] \in JobSet
      BY <1>1 DEF CfgIInv
    <2>2. CASE job[j].at = "idle"
      <3>1. job[j] = NoJob
        BY <2>1, <2>2 DEF JobHolds
      <3>2. job'[j] = [job[j] EXCEPT !.edited = FALSE]
        BY <1>1, <2>2
      <3>3. [NoJob EXCEPT !.edited = FALSE] = NoJob
        <4>1. NoJob = [at |-> "idle", id |-> "none", from |-> "none", target |-> "none", edited |-> FALSE]
          BY DEF NoJob
        <4>2. NoJob.edited = FALSE
          BY DEF NoJob
        <4>3. [NoJob EXCEPT !.edited = FALSE] = [NoJob EXCEPT !.edited = NoJob.edited]
          BY <4>2
        <4> QED BY <4>1, <4>3
      <3>4. job'[j] = NoJob
        BY <3>1, <3>2, <3>3
      <3> QED BY <3>4, NoJobHolds
    <2>3. CASE job[j].at # "idle"
      <3>1. (job[j].at # "idle") = TRUE
        BY <2>3
      <3>2. job'[j] = [job[j] EXCEPT !.edited = TRUE]
        BY <1>1, <3>1
      <3>3. job'[j].edited
        BY <2>1, <3>2 DEF JobSet
      <3> QED BY <1>1, <1>2, <2>1, <2>3, <3>3 DEF JobHolds, CfgAssumption
    <2> QED BY <2>2, <2>3
  <1>4. job' \in [Savers -> JobSet]
    BY <1>1, <1>2
  <1>5. CfgTypes' /\ ListedIsRestorable'
    BY <1>1, <1>4 DEF CfgIInv, CfgTypes, CfgTypeOK, ListedIsRestorable, Listed
  <1>6. ASSUME NEW j \in Savers, NEW k \in Savers, j # k, job'[j].at = "meta", job'[k].at = "meta"
        PROVE  job'[j].id # job'[k].id
    BY <1>2, <1>6 DEF CfgIInv
  <1> QED BY <1>3, <1>5, <1>6 DEF CfgIInv

\* A stopped Manager leaves what it had written.
LEMMA CfgCrashKeeps ==
  ASSUME CfgAssumption, CfgIInv, CfgCrash
  PROVE  CfgIInv'
  <1>1. job' = [j \in Savers |-> NoJob] /\ UNCHANGED <<cfg, store>> /\ NoJob.at # "meta"
    BY DEF CfgCrash, NoJob
  <1> QED BY <1>1, NoJobHolds DEF CfgIInv, CfgTypes, CfgTypeOK, ListedIsRestorable, Listed

\* Every step, and stuttering.
LEMMA CfgStep == CfgAssumption /\ CfgIInv /\ [CfgNext]_cfgVars => CfgIInv'
  <1> SUFFICES ASSUME CfgAssumption, CfgIInv, [CfgNext]_cfgVars PROVE CfgIInv'
    OBVIOUS
  <1>1. CASE CfgNext
    BY <1>1, ReceiveSaveKeeps, ReadBackupKeeps, ReadActiveKeeps, WriteContentKeeps, WriteMetaKeeps, ValidateKeeps,
       AtomicRenameKeeps, EditSavedKeeps, CfgCrashKeeps DEF CfgNext
  <1>2. CASE UNCHANGED cfgVars
    BY <1>2 DEF cfgVars, CfgIInv, CfgTypes, CfgTypeOK, ListedIsRestorable, Listed
  <1> QED BY <1>1, <1>2

\* What the invariant gives: the property of the runs.
LEMMA CfgIsSafe == CfgIInv => ConfigBackupInv
  BY DEF CfgIInv, CfgTypes, JobHolds, Complete, Saved, ReplacedIsSaved, ConfigBackupInv

\* manager.go: whatever requests, edits and crashes come together, what List offers can
\* be restored and Restore replaces nothing of which no complete copy is left.
THEOREM BackupsRestore == CfgSpec => []ConfigBackupInv
  BY CfgAssumption, CfgInitKeeps, CfgStep, CfgIsSafe, PTL DEF CfgSpec

\* The Manager controls only its own Gateway and keeps every configuration it replaces;
\* the two parts of it share no state.
THEOREM ManagerIsSafe == RtSpec /\ CfgSpec => []ManagerInv
  <1>1. ManagerRuntimeInv /\ ConfigBackupInv => ManagerInv
    BY DEF ManagerInv
  <1> QED BY <1>1, RuntimeIsOwned, BackupsRestore, PTL

(***************************************************************************)
(* The tool of the OpenClaw plugin.  That an answer was computed for its    *)
(* call needs that the key of a task is the identity of its request         *)
(* (TaskOK), and that a call which knows a task is a call with that task's  *)
(* own request (CallOK): the Cloud's comparison of the bodies makes it so.  *)
(***************************************************************************)
\* A task under its key: its request has that identity, and it runs once.
TaskOK(k, t) ==
  /\ t.st \in {"none", "pending", "running"} \cup Terminal /\ t.runs \in Nat /\ t.runs <= 1
  /\ t.st = "none" => t = NoTask
  /\ t.st = "pending" => t.runs = 0
  /\ t.st # "none" => t.req \in ToolRequests /\ Identity(t.req) = k

\* A call whose task was created or replayed is that task's: the key fixes session and
\* tool call, the Cloud's comparison the input.
ToolSet == [at : {"idle", "create", "created", "poll"}, req : ToolRequests \cup {NoReq}, known : BOOLEAN]
CallOK(q, ts) ==
  /\ q \in ToolSet
  /\ q.at # "idle" => q.req \in ToolRequests
  /\ q.at \in {"created", "poll"} => ts[Identity(q.req)].st # "none" /\ ts[Identity(q.req)].req = q.req
  /\ q.known => q.at = "poll"

PluginIInv ==
  /\ PlTypeOK
  /\ DOMAIN task = Keys /\ task = [k \in Keys |-> task[k]] /\ \A k \in Keys : TaskOK(k, task[k])
  /\ tool = [c \in Callers |-> tool[c]] /\ \A c \in Callers : CallOK(tool[c], task)
  /\ \A a \in answers : a.to = a.from

\* No task and no call.
LEMMA PlInitKeeps == PluginAssumption /\ PlInit => PluginIInv
  BY DEF PluginAssumption, PlInit, PluginIInv, PlTypeOK, TaskOK, CallOK, ToolSet, NoTask, NoCall, NoReq, Terminal

\* A caller between two calls knows nothing.
LEMMA NoCallOK == \A ts : CallOK(NoCall, ts)
  BY DEF CallOK, NoCall, ToolSet

\* A step of one call that leaves the tasks.
LEMMA CallStep ==
  ASSUME PluginIInv, NEW c \in Callers, NEW q, tool' = [tool EXCEPT ![c] = q], CallOK(q, task), UNCHANGED task
  PROVE  /\ tool' = [d \in Callers |-> tool'[d]] /\ \A d \in Callers : CallOK(tool'[d], task')
         /\ \A d \in Callers : tool'[d].at \in {"idle", "create", "created", "poll"}
  <1>1. \A d \in Callers : tool'[d] = IF d = c THEN q ELSE tool[d]
    BY DEF PluginIInv
  <1>2. \A d \in Callers : CallOK(tool'[d], task')
    BY <1>1 DEF PluginIInv
  <1> QED BY <1>1, <1>2 DEF PluginIInv, CallOK, ToolSet

\* A task that is there keeps its request; its calls keep it.
LEMMA TaskStep ==
  ASSUME PluginIInv, NEW k \in Keys, NEW t, task' = [task EXCEPT ![k] = t], TaskOK(k, t), t.st # "none",
         task[k].st # "none" => t.req = task[k].req
  PROVE  /\ DOMAIN task' = Keys /\ task' = [m \in Keys |-> task'[m]] /\ \A m \in Keys : TaskOK(m, task'[m])
         /\ \A m \in Keys : task'[m].st \in {"none", "pending", "running"} \cup Terminal
         /\ \A q : CallOK(q, task) => CallOK(q, task')
  <1>1. \A m \in Keys : task'[m] = IF m = k THEN t ELSE task[m]
    BY DEF PluginIInv
  <1>2. \A m \in Keys : TaskOK(m, task'[m])
    BY <1>1 DEF PluginIInv
  <1>3. \A q : CallOK(q, task) => CallOK(q, task')
    <2> SUFFICES ASSUME NEW q, CallOK(q, task), q.at \in {"created", "poll"}
                 PROVE  task'[Identity(q.req)].st # "none" /\ task'[Identity(q.req)].req = q.req
      BY DEF CallOK
    <2>1. Identity(q.req) \in Keys
      BY DEF CallOK, Keys
    <2> QED BY <1>1, <2>1 DEF CallOK
  <1> QED BY <1>1, <1>2, <1>3 DEF PluginIInv, TaskOK

\* The key of a request is one of the keys.
LEMMA KeyTyped ==
  ASSUME PluginIInv, NEW c \in Callers, tool[c].at # "idle"
  PROVE  tool[c].req \in ToolRequests /\ KeyOf(c) \in Keys /\ KeyOf(c) = Identity(tool[c].req) /\ TaskOK(KeyOf(c), task[KeyOf(c)])
  BY DEF PluginIInv, CallOK, KeyOf, Keys

\* execute: a call begins, with a request of its session.
LEMMA ExecuteKeeps ==
  ASSUME PluginAssumption, PluginIInv, NEW c \in Callers, NEW r \in ToolRequests, Execute(c, r)
  PROVE  PluginIInv'
  <1> DEFINE q == [at |-> "create", req |-> r, known |-> FALSE]
  <1>1. CallOK(q, task)
    BY DEF CallOK, ToolSet
  <1>2. tool' = [tool EXCEPT ![c] = q] /\ UNCHANGED <<task, answers, paired, plfaults>> /\ plcalls' \in 0..PlCalls
    BY DEF Execute, PluginIInv, PlTypeOK, PluginAssumption
  <1> HIDE DEF q
  <1>3. /\ tool' = [d \in Callers |-> tool'[d]] /\ \A d \in Callers : CallOK(tool'[d], task')
        /\ \A d \in Callers : tool'[d].at \in {"idle", "create", "created", "poll"}
    BY <1>1, <1>2, CallStep
  <1> QED BY <1>2, <1>3 DEF PluginIInv, PlTypeOK

\* A call that ends.
LEMMA EndStep ==
  ASSUME PluginIInv, NEW c \in Callers, End(c), UNCHANGED task
  PROVE  /\ tool' = [d \in Callers |-> tool'[d]] /\ \A d \in Callers : CallOK(tool'[d], task')
         /\ \A d \in Callers : tool'[d].at \in {"idle", "create", "created", "poll"}
  BY NoCallOK, CallStep DEF End

\* POST /v1/tasks: only a task of the same request is replayed.
LEMMA CreateTaskKeeps ==
  ASSUME PluginAssumption, PluginIInv, NEW c \in Callers, CreateTask(c)
  PROVE  PluginIInv'
  <1> DEFINE k == KeyOf(c)
             q == [tool[c] EXCEPT !.at = "created"]
             t == [st |-> "pending", req |-> tool[c].req, runs |-> 0]
  <1>1. /\ tool[c].at = "create" /\ UNCHANGED <<answers, paired, plcalls, plfaults>>
        /\ CallOK(tool[c], task) /\ tool[c].known = FALSE
    BY DEF CreateTask, PluginIInv, CallOK, ToolSet
  <1>2. tool[c].req \in ToolRequests /\ k \in Keys /\ k = Identity(tool[c].req) /\ TaskOK(k, task[k])
    BY <1>1, KeyTyped
  <1>3. q \in ToolSet /\ q.at = "created" /\ q.req = tool[c].req /\ q.known = FALSE
    BY <1>1 DEF CallOK, ToolSet
  <1>4. CASE End(c) /\ UNCHANGED task
    BY <1>1, <1>4, EndStep DEF PluginIInv, PlTypeOK
  <1>5. CASE task[k] # NoTask /\ Wire(task[k].req) = Wire(tool[c].req) /\ UNCHANGED task /\ tool' = [tool EXCEPT ![c].at = "created"]
    <2>1. task[k].st # "none" /\ task[k].req \in ToolRequests /\ Identity(task[k].req) = Identity(tool[c].req)
      BY <1>2, <1>5 DEF TaskOK
    <2>2. task[k].req = tool[c].req
      <3> DEFINE x == task[k].req
                 y == tool[c].req
      <3>1. x \in ToolRequests /\ y \in ToolRequests /\ Identity(x) = Identity(y) /\ Wire(x) = Wire(y)
        BY <1>2, <1>5, <2>1
      <3> HIDE DEF x, y
      <3>2. x.s = y.s /\ x.t = y.t /\ x.i = y.i
        BY <3>1 DEF Wire, Identity
      <3>3. x = y
        BY <3>1, <3>2 DEF ToolRequests
      <3> QED BY <3>3 DEF x, y
    <2>3. tool' = [tool EXCEPT ![c] = q]
      BY <1>5
    <2> HIDE DEF q, k
    <2>4. CallOK(q, task)
      BY <1>2, <1>3, <2>1, <2>2 DEF CallOK
    <2>5. /\ tool' = [d \in Callers |-> tool'[d]] /\ \A d \in Callers : CallOK(tool'[d], task')
          /\ \A d \in Callers : tool'[d].at \in {"idle", "create", "created", "poll"}
      BY <1>5, <2>3, <2>4, CallStep
    <2> QED BY <1>1, <1>5, <2>5 DEF PluginIInv, PlTypeOK
  <1>6. CASE task[k] = NoTask /\ task' = [task EXCEPT ![k] = t] /\ tool' = [tool EXCEPT ![c].at = "created"]
    <2>1. TaskOK(k, t) /\ t.st # "none" /\ t.req = tool[c].req /\ task[k].st = "none"
      BY <1>2, <1>6 DEF TaskOK, NoTask
    <2>2. tool' = [tool EXCEPT ![c] = q]
      BY <1>6
    <2> HIDE DEF q, k, t
    <2>3. /\ DOMAIN task' = Keys /\ task' = [m \in Keys |-> task'[m]] /\ \A m \in Keys : TaskOK(m, task'[m])
          /\ \A m \in Keys : task'[m].st \in {"none", "pending", "running"} \cup Terminal
          /\ \A p : CallOK(p, task) => CallOK(p, task')
      BY <1>2, <1>6, <2>1, TaskStep
    <2>4. task'[k] = t
      BY <1>2, <1>6 DEF PluginIInv
    <2>5. CallOK(q, task')
      BY <1>2, <1>3, <2>1, <2>4 DEF CallOK
    <2>6. \A d \in Callers : tool'[d] = IF d = c THEN q ELSE tool[d]
      BY <2>2 DEF PluginIInv
    <2>7. \A d \in Callers : CallOK(tool'[d], task')
      BY <2>3, <2>5, <2>6 DEF PluginIInv
    <2>8. tool' = [d \in Callers |-> tool'[d]]
      BY <2>2 DEF PluginIInv
    <2>9. \A d \in Callers : tool'[d].at \in {"idle", "create", "created", "poll"}
      BY <2>7 DEF CallOK, ToolSet
    <2> QED BY <1>1, <2>3, <2>7, <2>8, <2>9 DEF PluginIInv, PlTypeOK
  <1> QED BY <1>4, <1>5, <1>6 DEF CreateTask

\* The answer arrives or is lost.
LEMMA CreatedKeeps ==
  ASSUME PluginAssumption, PluginIInv, NEW c \in Callers, Created(c)
  PROVE  PluginIInv'
  <1> DEFINE q == [tool[c] EXCEPT !.at = "poll", !.known = TRUE]
  <1>1. tool[c].at = "created" /\ CallOK(tool[c], task) /\ UNCHANGED <<task, answers, paired, plcalls>> /\ plfaults' \in 0..PlFaults
    BY DEF Created, LoseIt, PluginIInv, PlTypeOK, PluginAssumption
  <1>2. CASE End(c)
    BY <1>1, <1>2, EndStep DEF PluginIInv, PlTypeOK
  <1>3. CASE tool' = [tool EXCEPT ![c].at = "poll", ![c].known = TRUE]
    <2>1. q \in ToolSet /\ q.at = "poll" /\ q.req = tool[c].req
      BY <1>1 DEF CallOK, ToolSet
    <2>2. tool' = [tool EXCEPT ![c] = q]
      BY <1>3
    <2> HIDE DEF q
    <2>3. CallOK(q, task)
      BY <1>1, <2>1 DEF CallOK
    <2>4. /\ tool' = [d \in Callers |-> tool'[d]] /\ \A d \in Callers : CallOK(tool'[d], task')
          /\ \A d \in Callers : tool'[d].at \in {"idle", "create", "created", "poll"}
      BY <1>1, <2>2, <2>3, CallStep
    <2> QED BY <1>1, <2>4 DEF PluginIInv, PlTypeOK
  <1> QED BY <1>2, <1>3 DEF Created

\* The task's result is that of the call's own request.
LEMMA PollKeeps ==
  ASSUME PluginAssumption, PluginIInv, NEW c \in Callers, Poll(c)
  PROVE  PluginIInv'
  <1> DEFINE t == task[KeyOf(c)]
  <1>1. tool[c].at = "poll" /\ CallOK(tool[c], task) /\ UNCHANGED <<task, paired, plcalls>> /\ End(c) /\ plfaults' \in 0..PlFaults
    BY DEF Poll, LoseIt, PluginIInv, PlTypeOK, PluginAssumption
  <1>2. tool[c].req \in ToolRequests /\ t.req = tool[c].req
    BY <1>1, KeyTyped DEF CallOK
  <1>3. answers' \in {answers, answers \cup {[to |-> tool[c].req, from |-> t.req]}}
    BY DEF Poll
  <1>4. answers' \subseteq [to : ToolRequests, from : ToolRequests] /\ \A a \in answers' : a.to = a.from
    BY <1>2, <1>3 DEF PluginIInv, PlTypeOK
  <1> QED BY <1>1, <1>4, EndStep DEF PluginIInv, PlTypeOK

\* A cancelled task never runs again.
LEMMA AbortCallKeeps ==
  ASSUME PluginAssumption, PluginIInv, NEW c \in Callers, AbortCall(c)
  PROVE  PluginIInv'
  <1> DEFINE k == KeyOf(c)
             t == [task[k] EXCEPT !.st = "cancelled"]
  <1>1. tool[c].at # "idle" /\ End(c) /\ UNCHANGED <<answers, paired, plcalls>> /\ plfaults' \in 0..PlFaults
    BY DEF AbortCall, LoseIt, PluginIInv, PlTypeOK, PluginAssumption
  <1>2. k \in Keys /\ TaskOK(k, task[k])
    BY <1>1, KeyTyped
  <1>3. CASE UNCHANGED task
    BY <1>1, <1>3, EndStep DEF PluginIInv, PlTypeOK
  <1>4. CASE task[k].st \in {"pending", "running"} /\ task' = [task EXCEPT ![k].st = "cancelled"]
    <2>1. TaskOK(k, t) /\ t.st # "none" /\ t.req = task[k].req
      BY <1>2, <1>4 DEF TaskOK, Terminal
    <2>2. task' = [task EXCEPT ![k] = t]
      BY <1>4
    <2> HIDE DEF t, k
    <2>3. /\ DOMAIN task' = Keys /\ task' = [m \in Keys |-> task'[m]] /\ \A m \in Keys : TaskOK(m, task'[m])
          /\ \A m \in Keys : task'[m].st \in {"none", "pending", "running"} \cup Terminal
          /\ \A p : CallOK(p, task) => CallOK(p, task')
      BY <1>2, <2>1, <2>2, TaskStep
    <2>4. \A d \in Callers : tool'[d] = IF d = c THEN NoCall ELSE tool[d]
      BY <1>1 DEF End, PluginIInv
    <2>5. \A d \in Callers : CallOK(tool'[d], task')
      BY <2>3, <2>4, NoCallOK DEF PluginIInv
    <2>6. tool' = [d \in Callers |-> tool'[d]]
      BY <1>1 DEF End, PluginIInv
    <2>7. \A d \in Callers : tool'[d].at \in {"idle", "create", "created", "poll"}
      BY <2>5 DEF CallOK, ToolSet
    <2> QED BY <1>1, <2>3, <2>5, <2>6, <2>7 DEF PluginIInv, PlTypeOK
  <1> QED BY <1>3, <1>4 DEF AbortCall

\* The Cloud runs a pending task, once.
LEMMA RunTaskKeeps ==
  ASSUME PluginAssumption, PluginIInv, NEW k \in Keys, RunTask(k)
  PROVE  PluginIInv'
  <1>1. TaskOK(k, task[k]) /\ UNCHANGED <<tool, answers, paired, plcalls, plfaults>>
    BY DEF RunTask, PluginIInv
  <1>2. PICK t : task' = [task EXCEPT ![k] = t] /\ TaskOK(k, t) /\ t.st # "none" /\ t.req = task[k].req
    <2>1. CASE task[k].st = "pending" /\ task' = [task EXCEPT ![k].st = "running", ![k].runs = @ + 1]
      <3> DEFINE t == [task[k] EXCEPT !.st = "running", !.runs = @ + 1]
      <3>1. TaskOK(k, t) /\ t.st # "none" /\ t.req = task[k].req
        BY <1>1, <2>1 DEF TaskOK, Terminal
      <3>2. task' = [task EXCEPT ![k] = t]
        BY <2>1
      <3> HIDE DEF t
      <3> QED BY <3>1, <3>2
    <2>2. ASSUME NEW st \in {"succeeded", "failed"}, task[k].st = "running", task' = [task EXCEPT ![k].st = st]
          PROVE  \E t : task' = [task EXCEPT ![k] = t] /\ TaskOK(k, t) /\ t.st # "none" /\ t.req = task[k].req
      <3> DEFINE t == [task[k] EXCEPT !.st = st]
      <3>1. TaskOK(k, t) /\ t.st # "none" /\ t.req = task[k].req
        BY <1>1, <2>2 DEF TaskOK, Terminal
      <3>2. task' = [task EXCEPT ![k] = t]
        BY <2>2
      <3> HIDE DEF t
      <3> QED BY <3>1, <3>2
    <2> QED BY <2>1, <2>2 DEF RunTask
  <1>3. /\ DOMAIN task' = Keys /\ task' = [m \in Keys |-> task'[m]] /\ \A m \in Keys : TaskOK(m, task'[m])
        /\ \A m \in Keys : task'[m].st \in {"none", "pending", "running"} \cup Terminal
        /\ \A p : CallOK(p, task) => CallOK(p, task')
    BY <1>2, TaskStep
  <1> QED BY <1>1, <1>3 DEF PluginIInv, PlTypeOK

\* Every step, and stuttering.
LEMMA PluginStep == PluginAssumption /\ PluginIInv /\ [PlNext]_pluginVars => PluginIInv'
  <1> SUFFICES ASSUME PluginAssumption, PluginIInv, [PlNext]_pluginVars PROVE PluginIInv'
    OBVIOUS
  <1>1. CASE PlNext
    <2>1. CASE Unpair
      BY <2>1 DEF Unpair, PluginIInv, PlTypeOK
    <2> QED BY <1>1, <2>1, ExecuteKeeps, CreateTaskKeeps, CreatedKeeps, PollKeeps, AbortCallKeeps, RunTaskKeeps DEF PlNext
  <1>2. CASE UNCHANGED pluginVars
    BY <1>2 DEF pluginVars, PluginIInv, PlTypeOK
  <1> QED BY <1>1, <1>2

\* A session's tool call has one key, so one task that can have run.
LEMMA PluginIsSafe == PluginIInv => PluginInv
  <1> SUFFICES ASSUME PluginIInv PROVE PluginInv
    OBVIOUS
  <1>1. ASSUME NEW s \in ToolSessions, NEW t \in ToolCalls
        PROVE  Cardinality({k \in Keys : task[k].runs > 0 /\ task[k].req.s = s /\ task[k].req.t = t}) <= 1
    <2> DEFINE S == {k \in Keys : task[k].runs > 0 /\ task[k].req.s = s /\ task[k].req.t = t}
    <2>1. S \subseteq {<<s, t>>}
      <3> SUFFICES ASSUME NEW k \in Keys, task[k].runs > 0, task[k].req.s = s, task[k].req.t = t PROVE k = <<s, t>>
        OBVIOUS
      <3>1. TaskOK(k, task[k])
        BY DEF PluginIInv
      <3>2. task[k].st # "none"
        BY <3>1 DEF TaskOK, NoTask
      <3> QED BY <3>1, <3>2 DEF TaskOK, Identity
    <2> HIDE DEF S
    <2>2. IsFiniteSet({<<s, t>>}) /\ Cardinality({<<s, t>>}) = 1
      BY FS_Singleton
    <2>3. Cardinality(S) <= 1
      BY <2>1, <2>2, FS_Subset
    <2> QED BY <2>3 DEF S
  <1> QED BY <1>1 DEF PluginIInv, TaskOK, PluginInv

\* openclaw plugin, tool.ts and client.ts: however a tool call is repeated, lost or aborted,
\* it runs at most once and is answered with its own result.
THEOREM PluginIsOnce == PlSpec => []PluginInv
  BY PluginAssumption, PlInitKeeps, PluginStep, PluginIsSafe, PTL DEF PlSpec

(***************************************************************************)
(* The Cloud CLI.  What a finished command says is true because of what it  *)
(* knew on its way: before the installation the plugin is still the one it  *)
(* read, an update has a newer target and a loaded plugin to go back to     *)
(* (CmdOK); and no accepted credential that was kept is lost because the    *)
(* vault is only written while it is empty, and only emptied when the       *)
(* device in it is revoked (CredOK).                                        *)
(***************************************************************************)
\* A plugin, and a command between two of its steps.
PluginSet == [v : PluginVersions \cup {0}, loaded : BOOLEAN]
AtVault   == {"vault", "register", "write", "save", "challenge", "revoke", "delete"}
BeforeIt  == {"latest", "rollback", "stage", "install"}
AfterIt   == {"inspect", "restore"}
CliSet == [at : {"idle"} \cup AtVault \cup BeforeIt \cup AfterIt,
           cmd : {"none", "pair", "logout", "install", "update"}, cur : PluginSet,
           tgt : PluginVersions \cup {0}, dev : Devices \cup {"none"}, failed : BOOLEAN, calm : BOOLEAN]

\* What a command knows of the plugin: it has not touched it before the installation, and
\* an update has something loaded to go back to and a newer release to go to.
CmdOK(q, p) ==
  /\ q \in CliSet /\ p \in PluginSet
  /\ q.at = "idle" => q = NoCommand
  /\ q.at \in AtVault => q.cmd \in {"pair", "logout"}
  /\ q.at \in BeforeIt \cup AfterIt => q.cmd \in {"install", "update"}
  /\ q.at \in BeforeIt => p = q.cur
  /\ q.cmd = "update" => q.cur.loaded
  /\ q.at \in {"rollback", "stage", "install"} \cup AfterIt =>
       q.tgt \in PluginVersions /\ (q.cmd = "update" => q.tgt > q.cur.v)
  /\ q.at = "restore" => q.cmd = "update"

\* What is recorded of devices: fingerprints are those of devices that were created, at most
\* one device of each is accepted, and a credential that was kept is there while it is accepted.
Recorded(dv, va, me, pr, kp) ==
  /\ me # "none" => dv[me] # "unused"
  /\ \A d \in Devices : /\ pr[d] # "none" => dv[pr[d]] # "unused"
                        /\ dv[d] # "unused" => pr[d] # "none"
  /\ \A d \in kp : dv[d] # "unused" /\ (dv[d] = "active" => va = d)
  /\ \A d, e \in Devices : dv[d] = "active" /\ dv[e] = "active" /\ pr[d] = pr[e] => d = e

\* What a command knows of the credential: there is none while it registers, then there is
\* that of its device.
CredOK(q, dv, va, me, pr, kp) ==
  /\ Recorded(dv, va, me, pr, kp)
  /\ q.at \in {"write", "save", "challenge", "revoke", "delete"} => q.dev \in Devices
  /\ q.at \in {"register", "write"} => va = "none"
  /\ q.at \in {"write", "save"} => dv[q.dev] # "unused"
  /\ q.at \in {"save", "revoke", "delete"} => va = q.dev
  /\ q.at = "delete" => dv[q.dev] # "active"

Truthful(p, o) ==
  o.cmd \in {"install", "update"} =>
    /\ o.res = "installed" => p.v = o.tgt /\ p.loaded /\ (o.cmd = "update" => o.tgt > o.cur.v)
    /\ o.res \in {"rolled_back", "refused", "current"} => p = o.cur
    /\ o.cmd = "update" /\ ~p.loaded => o.res \in {"rollback_failed", "crashed"}

CliIInv ==
  /\ CliTypeOK
  /\ CmdOK(cli, plugin)
  /\ CredOK(cli, device, vault, meta, prints, kept)
  /\ cli.at = "idle" => Truthful(plugin, outcome)

\* The record a command starts from knows nothing.
LEMMA CliStarts ==
  ASSUME CliAssumption
  PROVE  /\ NoPlugin \in PluginSet /\ NoCommand \in CliSet /\ NoCommand.at = "idle" /\ NoCommand.cmd = "none"
         /\ \A p \in PluginSet : CmdOK(NoCommand, p)
  <1>1. NoPlugin \in PluginSet
    BY DEF NoPlugin, PluginSet
  <1>2. NoCommand \in CliSet /\ NoCommand.at = "idle" /\ NoCommand.cmd = "none"
    BY <1>1 DEF NoCommand, CliSet
  <1> QED BY <1>1, <1>2 DEF CmdOK, AtVault, BeforeIt, AfterIt

\* The first state: no command, no device.
LEMMA CliInitKeeps == CliAssumption /\ CliInit => CliIInv
  <1> SUFFICES ASSUME CliAssumption, CliInit PROVE CliIInv
    OBVIOUS
  <1>0. PICK p \in {NoPlugin} \cup {[v |-> v, loaded |-> TRUE] : v \in PluginVersions} : plugin = p
    BY DEF CliInit
  <1>1. plugin \in PluginSet
    <2>1. CASE p = NoPlugin
      BY <1>0, <2>1, CliStarts
    <2>2. ASSUME NEW w \in PluginVersions, p = [v |-> w, loaded |-> TRUE] PROVE plugin \in PluginSet
      BY <1>0, <2>2 DEF PluginSet
    <2> QED BY <1>0, <2>1, <2>2
  <1>2. CliTypeOK
    <2>1. plugin.v \in PluginVersions \cup {0} /\ plugin.loaded \in BOOLEAN
      BY <1>1 DEF PluginSet
    <2> QED BY <2>1 DEF CliInit, CliTypeOK, CliAssumption
  <1>3. CmdOK(cli, plugin) /\ CredOK(cli, device, vault, meta, prints, kept)
    BY <1>1, CliStarts DEF CliInit, CredOK, Recorded
  <1>4. Truthful(plugin, outcome)
    BY DEF CliInit, Truthful, NoResult
  <1> QED BY <1>2, <1>3, <1>4 DEF CliIInv

\* A command ends: what it answers is true, and no accepted credential is lost.
LEMMA FinishKeeps ==
  ASSUME CliAssumption, CliIInv, NEW r, Finish(r), CliTypeOK', plugin' \in PluginSet,
         Recorded(device', vault', meta', prints', kept'),
         Truthful(plugin', [cmd |-> cli.cmd, res |-> r, cur |-> cli.cur, tgt |-> cli.tgt, calm |-> cli.calm])
  PROVE  CliIInv'
  <1>1. cli' = NoCommand /\ outcome' = [cmd |-> cli.cmd, res |-> r, cur |-> cli.cur, tgt |-> cli.tgt, calm |-> cli.calm]
    BY DEF Finish
  <1>2. CmdOK(cli', plugin') /\ CredOK(cli', device', vault', meta', prints', kept')
    BY <1>1, CliStarts DEF CredOK
  <1> QED BY <1>1, <1>2 DEF CliIInv

\* A command about the credential says nothing of the plugin.
LEMMA FinishAtVault ==
  ASSUME CliAssumption, CliIInv, NEW r, Finish(r), cli.at \in AtVault, CliTypeOK', UNCHANGED plugin,
         Recorded(device', vault', meta', prints', kept')
  PROVE  CliIInv'
  <1>1. plugin' \in PluginSet
    BY DEF CliIInv, CmdOK
  <1>2. Truthful(plugin', [cmd |-> cli.cmd, res |-> r, cur |-> cli.cur, tgt |-> cli.tgt, calm |-> cli.calm])
    BY DEF CliIInv, CmdOK, Truthful
  <1> QED BY <1>1, <1>2, FinishKeeps

\* A command about the plugin touches no credential.
LEMMA FinishOfPlugin ==
  ASSUME CliAssumption, CliIInv, NEW r, Finish(r), CliTypeOK', plugin' \in PluginSet,
         UNCHANGED <<device, vault, meta, prints, kept>>,
         Truthful(plugin', [cmd |-> cli.cmd, res |-> r, cur |-> cli.cur, tgt |-> cli.tgt, calm |-> cli.calm])
  PROVE  CliIInv'
  <1>1. Recorded(device', vault', meta', prints', kept')
    BY DEF CliIInv, CredOK
  <1> QED BY <1>1, FinishKeeps

\* What was refused has changed nothing.
LEMMA RefusedKeeps ==
  ASSUME CliAssumption, CliIInv, NEW r \in {"refused", "current"}, Finish(r), cli.at \in BeforeIt,
         CliTypeOK', UNCHANGED <<plugin, device, vault, meta, prints, kept>>
  PROVE  CliIInv'
  <1>1. plugin = cli.cur /\ plugin \in PluginSet /\ (cli.cmd = "update" => cli.cur.loaded)
    BY DEF CliIInv, CmdOK
  <1>2. Truthful(plugin', [cmd |-> cli.cmd, res |-> r, cur |-> cli.cur, tgt |-> cli.tgt, calm |-> cli.calm])
    BY <1>1 DEF Truthful
  <1> QED BY <1>1, <1>2, FinishOfPlugin

\* A command goes on.
LEMMA GoesOnKeeps ==
  ASSUME CliIInv, NEW q, cli' = q, q.at # "idle", CliTypeOK', CmdOK(q, plugin'), CredOK(q, device', vault', meta', prints', kept')
  PROVE  CliIInv'
  BY DEF CliIInv

\* main: a command begins; update requires a loaded plugin.
LEMMA BeginKeeps ==
  ASSUME CliAssumption, CliIInv, NEW c \in {"pair", "logout", "install", "update"}, Begin(c)
  PROVE  CliIInv'
  <1> DEFINE to == IF c \in {"pair", "logout"} THEN "vault" ELSE "latest"
             q == [NoCommand EXCEPT !.cmd = c, !.cur = plugin, !.at = to]
  <1>1. /\ cli' = q /\ UNCHANGED <<plugin, release, device, vault, meta, prints, kept, outcome, clifaults>>
        /\ cliruns' \in 0..CliRuns /\ (c = "update" => plugin.loaded) /\ plugin \in PluginSet
        /\ CredOK(cli, device, vault, meta, prints, kept)
    BY DEF Begin, CliIInv, CliTypeOK, CmdOK, CliAssumption
  <1>2. /\ q \in CliSet /\ q.at = to /\ q.cmd = c /\ q.cur = plugin
    BY <1>1, CliStarts DEF CliSet, AtVault, BeforeIt
  <1>3. to \in {"vault", "latest"} /\ (to = "vault" => c \in {"pair", "logout"}) /\ (to = "latest" => c \in {"install", "update"})
    OBVIOUS
  <1> HIDE DEF q, to
  <1>4. CmdOK(q, plugin)
    BY <1>1, <1>2, <1>3 DEF CmdOK, AtVault, BeforeIt, AfterIt
  <1>5. CredOK(q, device, vault, meta, prints, kept)
    BY <1>1, <1>2, <1>3 DEF CredOK
  <1>6. CliTypeOK'
    BY <1>1 DEF CliIInv, CliTypeOK
  <1> QED BY <1>1, <1>2, <1>3, <1>4, <1>5, <1>6, GoesOnKeeps

\* readVault decides whether a device is registered or logged out.
LEMMA ReadVaultKeeps ==
  ASSUME CliAssumption, CliIInv, ReadVault
  PROVE  CliIInv'
  <1>1. /\ cli.at = "vault" /\ cli \in CliSet /\ cli.cmd \in {"pair", "logout"} /\ CmdOK(cli, plugin)
        /\ CredOK(cli, device, vault, meta, prints, kept)
        /\ UNCHANGED <<plugin, release, device, vault, meta, prints, kept, cliruns, clifaults>> /\ CliTypeOK'
    BY DEF ReadVault, CliIInv, CliTypeOK, CmdOK, AtVault
  <1>2. CASE Finish("ok")
    BY <1>1, <1>2, FinishAtVault DEF AtVault, CredOK
  <1>3. CASE vault # "none" /\ cli' = [cli EXCEPT !.dev = vault, !.at = IF cli.cmd = "pair" THEN "challenge" ELSE "revoke"]
    <2> DEFINE to == IF cli.cmd = "pair" THEN "challenge" ELSE "revoke"
               q == [cli EXCEPT !.dev = vault, !.at = to]
    <2>1. vault \in Devices
      BY <1>3 DEF CliIInv, CliTypeOK
    <2>2. q \in CliSet /\ q.at = to /\ q.cmd = cli.cmd /\ q.cur = cli.cur /\ q.dev = vault /\ to \in {"challenge", "revoke"}
      BY <1>1, <2>1 DEF CliSet, AtVault
    <2>3. cli' = q
      BY <1>3
    <2> HIDE DEF q, to
    <2>4. CmdOK(q, plugin')
      BY <1>1, <2>2 DEF CmdOK, AtVault, BeforeIt, AfterIt
    <2>5. CredOK(q, device', vault', meta', prints', kept')
      BY <1>1, <2>1, <2>2 DEF CredOK
    <2> QED BY <1>1, <2>2, <2>3, <2>4, <2>5, GoesOnKeeps
  <1>4. CASE vault = "none" /\ cli.cmd = "pair" /\ Goto("register")
    <2> DEFINE q == [cli EXCEPT !.at = "register"]
    <2>1. q \in CliSet /\ q.at = "register" /\ q.cmd = cli.cmd /\ q.cur = cli.cur
      BY <1>1 DEF CliSet, AtVault
    <2>2. cli' = q
      BY <1>4 DEF Goto
    <2> HIDE DEF q
    <2>3. CmdOK(q, plugin') /\ CredOK(q, device', vault', meta', prints', kept')
      BY <1>1, <1>4, <2>1 DEF CmdOK, CredOK, AtVault, BeforeIt, AfterIt
    <2> QED BY <1>1, <2>1, <2>2, <2>3, GoesOnKeeps
  <1> QED BY <1>2, <1>3, <1>4 DEF ReadVault

\* The device the Cloud creates is new, and the only accepted one of its fingerprint.
LEMMA RegisterDeviceKeeps ==
  ASSUME CliAssumption, CliIInv, RegisterDevice
  PROVE  CliIInv'
  <1>1. /\ cli.at = "register" /\ cli \in CliSet /\ cli.cmd \in {"pair", "logout"} /\ CmdOK(cli, plugin)
        /\ CredOK(cli, device, vault, meta, prints, kept) /\ UNCHANGED <<plugin, release, vault, meta, kept, cliruns>>
        /\ meta \in Devices \cup {"none"} /\ "none" \notin Devices /\ kept \subseteq Devices
        /\ prints \in [Devices -> Devices \cup {"none"}] /\ device \in [Devices -> {"unused", "active", "revoked"}]
    BY DEF RegisterDevice, CliIInv, CliTypeOK, CmdOK, AtVault, CliAssumption
  <1>2. CASE (\E r : Finish(r)) /\ UNCHANGED <<device, prints>>
    <2>0. UNCHANGED clifaults \/ Fault
      BY DEF RegisterDevice
    <2>1. clifaults' \in 0..CliFaults
      BY <2>0 DEF CliIInv, CliTypeOK, Fault, CliAssumption
    <2>2. CliTypeOK'
      BY <1>1, <1>2, <2>1 DEF CliIInv, CliTypeOK
    <2> QED BY <1>1, <1>2, <2>2, FinishAtVault DEF AtVault, CredOK
  <1>3. ASSUME NEW d \in Devices, device[d] = "unused", device' = [device EXCEPT ![d] = "active"],
               prints' = [prints EXCEPT ![d] = IF meta = "none" THEN d ELSE meta], ~Taken(meta),
               \/ cli' = [cli EXCEPT !.at = "write", !.dev = d] /\ UNCHANGED <<outcome, clifaults>>
               \/ Fault /\ Finish("unreachable")
        PROVE  CliIInv'
    <2>1. clifaults' \in 0..CliFaults
      BY <1>3 DEF CliIInv, CliTypeOK, Fault, CliAssumption
    <2>2. device' \in [Devices -> {"unused", "active", "revoked"}] /\ device'[d] = "active"
          /\ \A e \in Devices : e # d => device'[e] = device[e]
      BY <1>1, <1>3
    <2>3. /\ prints' \in [Devices -> Devices \cup {"none"}]
          /\ prints'[d] = IF meta = "none" THEN d ELSE meta
          /\ \A e \in Devices : e # d => prints'[e] = prints[e]
      BY <1>1, <1>3
    <2>4. CliTypeOK'
      BY <1>1, <2>1, <2>2, <2>3 DEF CliIInv, CliTypeOK
    <2>5. Recorded(device, vault, meta, prints, kept)
      BY <1>1 DEF CredOK
    <2>6. \A e \in Devices : device[e] = "active" => prints[e] # prints'[d]
      <3>1. CASE meta = "none"
        BY <1>1, <1>3, <2>3, <2>5, <3>1 DEF Recorded
      <3>2. CASE meta # "none"
        BY <1>3, <2>3, <3>2 DEF Taken
      <3> QED BY <3>1, <3>2
    <2>7. Recorded(device', vault', meta', prints', kept')
      <3>1. meta' # "none" => device'[meta'] # "unused"
        BY <1>1, <1>3, <2>2, <2>5 DEF Recorded
      <3>2. \A e \in Devices : /\ prints'[e] # "none" => device'[prints'[e]] # "unused"
                               /\ device'[e] # "unused" => prints'[e] # "none"
        BY <1>1, <1>3, <2>2, <2>3, <2>5 DEF Recorded
      <3>3. \A e \in kept' : device'[e] # "unused" /\ (device'[e] = "active" => vault' = e)
        <4>1. d \notin kept
          BY <1>3, <2>5 DEF Recorded
        <4> QED BY <1>1, <2>2, <2>5, <4>1 DEF Recorded
      <3>4. \A e, f \in Devices : device'[e] = "active" /\ device'[f] = "active" /\ prints'[e] = prints'[f] => e = f
        BY <2>2, <2>3, <2>5, <2>6 DEF Recorded
      <3> QED BY <3>1, <3>2, <3>3, <3>4 DEF Recorded
    <2>8. CASE Finish("unreachable")
      BY <1>1, <2>4, <2>7, <2>8, FinishAtVault DEF AtVault
    <2>9. CASE cli' = [cli EXCEPT !.at = "write", !.dev = d]
      <3> DEFINE q == [cli EXCEPT !.at = "write", !.dev = d]
      <3>1. q \in CliSet /\ q.at = "write" /\ q.cmd = cli.cmd /\ q.cur = cli.cur /\ q.dev = d
        BY <1>1 DEF CliSet, AtVault
      <3>2. cli' = q
        BY <2>9
      <3> HIDE DEF q
      <3>3. CmdOK(q, plugin')
        BY <1>1, <3>1 DEF CmdOK, AtVault, BeforeIt, AfterIt
      <3>4. CredOK(q, device', vault', meta', prints', kept')
        BY <1>1, <2>2, <2>7, <3>1 DEF CredOK
      <3> QED BY <2>4, <3>1, <3>2, <3>3, <3>4, GoesOnKeeps
    <2> QED BY <1>3, <2>8, <2>9
  <1> QED BY <1>2, <1>3 DEF RegisterDevice

\* The credential is in the vault before device.json has its fingerprint.
LEMMA WriteVaultKeeps ==
  ASSUME CliAssumption, CliIInv, WriteVault
  PROVE  CliIInv'
  <1>1. /\ cli.at = "write" /\ cli \in CliSet /\ cli.cmd \in {"pair", "logout"} /\ CmdOK(cli, plugin) /\ cli.dev \in Devices
        /\ CredOK(cli, device, vault, meta, prints, kept) /\ UNCHANGED <<plugin, release, device, meta, prints, cliruns>>
        /\ vault = "none" /\ "none" \notin Devices /\ kept \subseteq Devices
    BY DEF WriteVault, CliIInv, CliTypeOK, CmdOK, CredOK, AtVault, CliAssumption
  <1>2. \/ vault' = cli.dev /\ kept' = kept \cup {cli.dev}
        \/ UNCHANGED <<vault, kept>>
    BY DEF WriteVault
  <1>3. clifaults' \in 0..CliFaults
    BY DEF WriteVault, CliIInv, CliTypeOK, Fault, CliAssumption
  <1>4. CliTypeOK'
    BY <1>1, <1>2, <1>3 DEF CliIInv, CliTypeOK
  <1>5. Recorded(device', vault', meta', prints', kept')
    BY <1>1, <1>2 DEF CredOK, Recorded
  <1>6. CASE Finish("vault_failed")
    BY <1>1, <1>4, <1>5, <1>6, FinishAtVault DEF AtVault
  <1>7. CASE vault' = cli.dev /\ Goto("save")
    <2> DEFINE q == [cli EXCEPT !.at = "save"]
    <2>1. q \in CliSet /\ q.at = "save" /\ q.cmd = cli.cmd /\ q.cur = cli.cur /\ q.dev = cli.dev
      BY <1>1 DEF CliSet, AtVault
    <2>2. cli' = q
      BY <1>7 DEF Goto
    <2> HIDE DEF q
    <2>3. CmdOK(q, plugin')
      BY <1>1, <2>1 DEF CmdOK, AtVault, BeforeIt, AfterIt
    <2>4. CredOK(q, device', vault', meta', prints', kept')
      BY <1>1, <1>5, <1>7, <2>1 DEF CredOK
    <2> QED BY <1>4, <2>1, <2>2, <2>3, <2>4, GoesOnKeeps
  <1> QED BY <1>6, <1>7 DEF WriteVault

\* device.json now has the fingerprint of the device of the vault.
LEMMA SaveMetadataKeeps ==
  ASSUME CliAssumption, CliIInv, SaveMetadata
  PROVE  CliIInv'
  <1> DEFINE q == [cli EXCEPT !.at = "challenge"]
  <1>1. /\ cli.at = "save" /\ cli \in CliSet /\ cli.cmd \in {"pair", "logout"} /\ CmdOK(cli, plugin) /\ cli.dev \in Devices
        /\ CredOK(cli, device, vault, meta, prints, kept) /\ meta' = prints[cli.dev] /\ cli' = q
        /\ UNCHANGED <<plugin, release, device, vault, prints, kept, cliruns, clifaults>>
        /\ prints \in [Devices -> Devices \cup {"none"}]
    BY DEF SaveMetadata, Goto, CliIInv, CliTypeOK, CmdOK, CredOK, AtVault
  <1>2. q \in CliSet /\ q.at = "challenge" /\ q.cmd = cli.cmd /\ q.cur = cli.cur /\ q.dev = cli.dev
    BY <1>1 DEF CliSet, AtVault
  <1> HIDE DEF q
  <1>3. CmdOK(q, plugin')
    BY <1>1, <1>2 DEF CmdOK, AtVault, BeforeIt, AfterIt
  <1>4. CredOK(q, device', vault', meta', prints', kept')
    BY <1>1, <1>2 DEF CredOK, Recorded
  <1>5. CliTypeOK'
    BY <1>1 DEF CliIInv, CliTypeOK
  <1> QED BY <1>1, <1>2, <1>3, <1>4, <1>5, GoesOnKeeps

\* The challenge changes nothing at the Cloud.
LEMMA ChallengeKeeps ==
  ASSUME CliAssumption, CliIInv, Challenge
  PROVE  CliIInv'
  <1>1. /\ cli.at = "challenge" /\ CredOK(cli, device, vault, meta, prints, kept)
        /\ UNCHANGED <<plugin, release, device, vault, meta, prints, kept, cliruns>> /\ clifaults' \in 0..CliFaults
    BY DEF Challenge, Fault, CliIInv, CliTypeOK, CliAssumption
  <1>2. CliTypeOK'
    BY <1>1 DEF CliIInv, CliTypeOK
  <1>3. \E r : Finish(r)
    BY DEF Challenge
  <1> QED BY <1>1, <1>2, <1>3, FinishAtVault DEF AtVault, CredOK

\* A device that is revoked is one credential fewer to keep.
LEMMA RevokedStaysRecorded ==
  ASSUME CliIInv, UNCHANGED <<vault, meta, prints, kept>>,
         \A e \in Devices : device'[e] = device[e] \/ (device[e] = "active" /\ device'[e] = "revoked")
  PROVE  Recorded(device', vault', meta', prints', kept')
  <1>1. /\ meta \in Devices \cup {"none"} /\ kept \subseteq Devices /\ Recorded(device, vault, meta, prints, kept)
        /\ \A d \in Devices : prints[d] \in Devices \cup {"none"}
    BY DEF CliIInv, CliTypeOK, CredOK
  <1>2. \A e \in Devices : /\ device[e] # "unused" => device'[e] # "unused"
                           /\ device'[e] # "unused" => device[e] # "unused"
                           /\ device'[e] = "active" => device[e] = "active"
    OBVIOUS
  <1>3. meta' # "none" => device'[meta'] # "unused"
    BY <1>1, <1>2 DEF Recorded
  <1>4. \A d \in Devices : /\ prints'[d] # "none" => device'[prints'[d]] # "unused"
                           /\ device'[d] # "unused" => prints'[d] # "none"
    BY <1>1, <1>2 DEF Recorded
  <1>5. \A d \in kept' : device'[d] # "unused" /\ (device'[d] = "active" => vault' = d)
    BY <1>1, <1>2 DEF Recorded
  <1>6. \A d, e \in Devices : device'[d] = "active" /\ device'[e] = "active" /\ prints'[d] = prints'[e] => d = e
    BY <1>1, <1>2 DEF Recorded
  <1> QED BY <1>3, <1>4, <1>5, <1>6 DEF Recorded

\* Only an answered revocation goes on to delete the credential.
LEMMA RevokeSelfKeeps ==
  ASSUME CliAssumption, CliIInv, RevokeSelf
  PROVE  CliIInv'
  <1>1. /\ cli.at = "revoke" /\ cli \in CliSet /\ cli.cmd \in {"pair", "logout"} /\ CmdOK(cli, plugin) /\ cli.dev \in Devices
        /\ CredOK(cli, device, vault, meta, prints, kept) /\ UNCHANGED <<plugin, release, vault, meta, prints, kept, cliruns>>
        /\ clifaults' \in 0..CliFaults
    BY DEF RevokeSelf, Fault, CliIInv, CliTypeOK, CmdOK, CredOK, AtVault, CliAssumption
  <1>2. device' \in {device, [device EXCEPT ![cli.dev] = "revoked"]}
    BY DEF RevokeSelf
  <1>3. device' \in [Devices -> {"unused", "active", "revoked"}]
        /\ \A e \in Devices : device'[e] = device[e] \/ (device[e] = "active" /\ device'[e] = "revoked")
    BY <1>1, <1>2 DEF RevokeSelf, CliIInv, CliTypeOK
  <1>4. CliTypeOK'
    BY <1>1, <1>3 DEF CliIInv, CliTypeOK
  <1>5. Recorded(device', vault', meta', prints', kept')
    BY <1>1, <1>3, RevokedStaysRecorded
  <1>6. ASSUME NEW r, Finish(r) PROVE CliIInv'
    BY <1>1, <1>4, <1>5, <1>6, FinishAtVault DEF AtVault
  <1>7. CASE device' = [device EXCEPT ![cli.dev] = "revoked"] /\ Goto("delete")
    <2> DEFINE q == [cli EXCEPT !.at = "delete"]
    <2>1. q \in CliSet /\ q.at = "delete" /\ q.cmd = cli.cmd /\ q.cur = cli.cur /\ q.dev = cli.dev
      BY <1>1 DEF CliSet, AtVault
    <2>2. cli' = q /\ device'[cli.dev] = "revoked"
      BY <1>1, <1>7 DEF Goto, CliIInv, CliTypeOK
    <2> HIDE DEF q
    <2>3. CmdOK(q, plugin')
      BY <1>1, <2>1 DEF CmdOK, AtVault, BeforeIt, AfterIt
    <2>4. CredOK(q, device', vault', meta', prints', kept')
      BY <1>1, <1>5, <2>1, <2>2 DEF CredOK
    <2> QED BY <1>4, <2>1, <2>2, <2>3, <2>4, GoesOnKeeps
  <1> QED BY <1>6, <1>7 DEF RevokeSelf

\* The vault is emptied of a device that is not accepted any more.
LEMMA DeleteCredentialKeeps ==
  ASSUME CliAssumption, CliIInv, DeleteCredential
  PROVE  CliIInv'
  <1>1. /\ cli.at = "delete" /\ CredOK(cli, device, vault, meta, prints, kept) /\ vault' = "none" /\ Finish("ok")
        /\ UNCHANGED <<plugin, release, device, meta, prints, kept, cliruns, clifaults>>
    BY DEF DeleteCredential, CliIInv
  <1>2. CliTypeOK'
    BY <1>1 DEF CliIInv, CliTypeOK
  <1>3. Recorded(device', vault', meta', prints', kept')
    BY <1>1 DEF CredOK, Recorded
  <1> QED BY <1>1, <1>2, <1>3, FinishAtVault DEF AtVault

\* A step of a command about the plugin that only goes on.
LEMMA NextStepKeeps ==
  ASSUME CliAssumption, CliIInv, NEW l \in {"rollback", "stage", "install"}, NEW v \in PluginVersions,
         cli.at \in BeforeIt, cli' = [cli EXCEPT !.tgt = v, !.at = l],
         cli.cmd = "update" => v > cli.cur.v,
         UNCHANGED <<plugin, device, vault, meta, prints, kept>>, CliTypeOK'
  PROVE  CliIInv'
  <1> DEFINE q == [cli EXCEPT !.tgt = v, !.at = l]
  <1>1. cli \in CliSet /\ CmdOK(cli, plugin) /\ CredOK(cli, device, vault, meta, prints, kept)
    BY DEF CliIInv, CmdOK
  <1>2. q \in CliSet /\ q.at = l /\ q.cmd = cli.cmd /\ q.cur = cli.cur /\ q.tgt = v
    BY <1>1 DEF CliSet, BeforeIt
  <1>3. cli' = q
    OBVIOUS
  <1> HIDE DEF q
  <1>4. CmdOK(q, plugin') /\ CredOK(q, device', vault', meta', prints', kept')
    BY <1>1, <1>2 DEF CmdOK, CredOK, AtVault, BeforeIt, AfterIt
  <1> QED BY <1>2, <1>3, <1>4, GoesOnKeeps

\* An update goes on only to a release that is newer.
LEMMA FetchLatestKeeps ==
  ASSUME CliAssumption, CliIInv, FetchLatest
  PROVE  CliIInv'
  <1>0. cli.at = "latest" /\ UNCHANGED <<plugin, release, device, vault, meta, prints, kept, cliruns, clifaults>> /\ CliTypeOK'
    BY DEF FetchLatest, CliIInv, CliTypeOK
  <1>1. cli.at = "latest" /\ UNCHANGED <<plugin, release, device, vault, meta, prints, kept, cliruns, clifaults>> /\ CliTypeOK'
        /\ cli.cur.v \in Nat
    <2>1. cli \in CliSet
      BY DEF CliIInv, CmdOK
    <2>2. cli.cur \in PluginSet
      BY <2>1 DEF CliSet
    <2>3. \A p \in PluginSet : p.v \in PluginVersions \cup {0}
      BY DEF PluginSet
    <2>4. PluginVersions \cup {0} \subseteq Nat
      BY DEF CliAssumption
    <2>5. cli.cur.v \in Nat
      BY <2>2, <2>3, <2>4
    <2> QED BY <1>0, <2>5
  <1>2. ASSUME NEW r \in {"refused", "current"}, Finish(r) PROVE CliIInv'
    BY <1>1, <1>2, RefusedKeeps DEF BeforeIt
  <1>3. ASSUME NEW v \in PluginVersions, ~Backwards(v), ~(cli.cmd = "update" /\ v = cli.cur.v),
               cli' = [cli EXCEPT !.tgt = v, !.at = IF cli.cmd = "update" THEN "rollback" ELSE "stage"]
        PROVE  CliIInv'
    <2>1. cli.cmd = "update" => v > cli.cur.v
      BY <1>1, <1>3 DEF Backwards, CliAssumption
    <2>2. PICK l \in {"rollback", "stage"} : cli' = [cli EXCEPT !.tgt = v, !.at = l]
      BY <1>3
    <2> QED BY <1>1, <2>1, <2>2, NextStepKeeps DEF BeforeIt
  <1> QED BY <1>2, <1>3 DEF FetchLatest

\* stageRelease ends the command or goes on; nothing is installed yet.
LEMMA StagedKeeps ==
  ASSUME CliAssumption, CliIInv, NEW v, NEW l \in {"stage", "install"}, cli.at \in {"rollback", "stage"},
         Staged(v, l), UNCHANGED <<plugin, release, device, vault, meta, prints, kept, cliruns>>
  PROVE  CliIInv'
  <1>1. CliTypeOK'
    BY DEF Staged, Fault, CliIInv, CliTypeOK, CliAssumption
  <1>2. CASE Finish("refused")
    BY <1>1, <1>2, RefusedKeeps DEF BeforeIt
  <1>3. CASE Goto(l)
    <2>1. cli \in CliSet /\ cli.tgt \in PluginVersions /\ (cli.cmd = "update" => cli.tgt > cli.cur.v)
      BY DEF CliIInv, CmdOK
    <2>2. cli' = [cli EXCEPT !.tgt = cli.tgt, !.at = l]
      BY <1>3, <2>1 DEF Goto, CliSet
    <2> QED BY <1>1, <2>1, <2>2, NextStepKeeps DEF BeforeIt
  <1> QED BY <1>2, <1>3 DEF Staged

\* Whatever the installation leaves behind, the inspection is still to come.
LEMMA InstallKeepsCli ==
  ASSUME CliAssumption, CliIInv, Install
  PROVE  CliIInv'
  <1>1. /\ cli.at = "install" /\ cli \in CliSet /\ CmdOK(cli, plugin) /\ CredOK(cli, device, vault, meta, prints, kept)
        /\ cli.tgt \in PluginVersions /\ UNCHANGED <<release, device, vault, meta, prints, kept, cliruns>>
    BY DEF Install, CliIInv, CmdOK
  <1>2. clifaults' \in 0..CliFaults /\ plugin' \in {plugin, NoPlugin, [v |-> cli.tgt, loaded |-> FALSE], [v |-> cli.tgt, loaded |-> TRUE]}
    BY DEF Install, OpenClawInstalls, Fault, CliIInv, CliTypeOK, CliAssumption
  <1>3. plugin' \in PluginSet
    BY <1>1, <1>2, CliStarts DEF CmdOK, PluginSet
  <1>4. CliTypeOK'
    BY <1>1, <1>2, <1>3 DEF CliIInv, CliTypeOK, PluginSet
  <1>5. PICK f \in BOOLEAN : cli' = [cli EXCEPT !.at = "inspect", !.failed = f]
    <2>1. CASE cli' = [cli EXCEPT !.at = "inspect"]
      <3>1. cli' = [cli EXCEPT !.at = "inspect", !.failed = cli.failed] /\ cli.failed \in BOOLEAN
        BY <1>1, <2>1 DEF CliSet
      <3> QED BY <3>1
    <2>2. CASE cli' = [cli EXCEPT !.at = "inspect", !.failed = TRUE]
      BY <2>2
    <2> QED BY <2>1, <2>2 DEF Install, OpenClawInstalls, Goto
  <1> DEFINE q == [cli EXCEPT !.at = "inspect", !.failed = f]
  <1>6. q \in CliSet /\ q.at = "inspect" /\ q.cmd = cli.cmd /\ q.cur = cli.cur /\ q.tgt = cli.tgt
    BY <1>1 DEF CliSet, AfterIt
  <1>7. cli' = q
    BY <1>5
  <1> HIDE DEF q
  <1>8. CmdOK(q, plugin') /\ CredOK(q, device', vault', meta', prints', kept')
    BY <1>1, <1>3, <1>6 DEF CmdOK, CredOK, AtVault, BeforeIt, AfterIt
  <1> QED BY <1>4, <1>6, <1>7, <1>8, GoesOnKeeps

\* Only the target, loaded, is reported as installed.
LEMMA InspectPluginKeeps ==
  ASSUME CliAssumption, CliIInv, InspectPlugin
  PROVE  CliIInv'
  <1>1. /\ cli.at = "inspect" /\ cli \in CliSet /\ plugin \in PluginSet /\ CmdOK(cli, plugin) /\ CredOK(cli, device, vault, meta, prints, kept)
        /\ UNCHANGED <<plugin, release, device, vault, meta, prints, kept, cliruns>>
    BY DEF InspectPlugin, CliIInv, CmdOK
  <1>2. CliTypeOK'
    BY <1>1 DEF InspectPlugin, Fault, CliIInv, CliTypeOK, CliAssumption
  <1>3. CASE plugin.v = cli.tgt /\ plugin.loaded /\ Finish("installed")
    <2>1. Truthful(plugin', [cmd |-> cli.cmd, res |-> "installed", cur |-> cli.cur, tgt |-> cli.tgt, calm |-> cli.calm])
      BY <1>1, <1>3 DEF Truthful, CmdOK, AfterIt
    <2> QED BY <1>1, <1>2, <1>3, <2>1, FinishOfPlugin
  <1>4. CASE cli.cmd # "update" /\ Finish("failed")
    <2>1. Truthful(plugin', [cmd |-> cli.cmd, res |-> "failed", cur |-> cli.cur, tgt |-> cli.tgt, calm |-> cli.calm])
      BY <1>4 DEF Truthful
    <2> QED BY <1>1, <1>2, <1>4, <2>1, FinishOfPlugin
  <1>5. CASE cli.cmd = "update" /\ Goto("restore")
    <2> DEFINE q == [cli EXCEPT !.at = "restore"]
    <2>1. q \in CliSet /\ q.at = "restore" /\ q.cmd = cli.cmd /\ q.cur = cli.cur /\ q.tgt = cli.tgt
      BY <1>1 DEF CliSet, AfterIt
    <2>2. cli' = q
      BY <1>5 DEF Goto
    <2> HIDE DEF q
    <2>3. CmdOK(q, plugin') /\ CredOK(q, device', vault', meta', prints', kept')
      BY <1>1, <1>5, <2>1 DEF CmdOK, CredOK, AtVault, BeforeIt, AfterIt
    <2> QED BY <1>2, <2>1, <2>2, <2>3, GoesOnKeeps
  <1> QED BY <1>3, <1>4, <1>5 DEF InspectPlugin

\* The plugin that ran before is back, or the answer says it is not.
LEMMA RestoreKeeps ==
  ASSUME CliAssumption, CliIInv, Restore
  PROVE  CliIInv'
  <1>1. /\ cli.at = "restore" /\ cli.cmd = "update" /\ cli.cur \in PluginSet /\ cli.cur.loaded /\ plugin \in PluginSet
        /\ UNCHANGED <<release, device, vault, meta, prints, kept, cliruns>>
    BY DEF Restore, CliIInv, CmdOK, CliSet
  <1>2. clifaults' \in 0..CliFaults
    BY DEF Restore, Fault, CliIInv, CliTypeOK, CliAssumption
  <1>3. plugin' \in {plugin, NoPlugin, [cli.cur EXCEPT !.loaded = FALSE], cli.cur}
    BY DEF Restore
  <1>4. plugin' \in PluginSet
    BY <1>1, <1>3, CliStarts DEF PluginSet
  <1>5. CliTypeOK'
    BY <1>1, <1>2, <1>4 DEF CliIInv, CliTypeOK, PluginSet
  <1>6. PICK r \in {"rolled_back", "rollback_failed"} : Finish(r) /\ (r = "rolled_back" => plugin' = cli.cur)
    BY DEF Restore
  <1>7. Truthful(plugin', [cmd |-> cli.cmd, res |-> r, cur |-> cli.cur, tgt |-> cli.tgt, calm |-> cli.calm])
    BY <1>1, <1>6 DEF Truthful
  <1> QED BY <1>1, <1>4, <1>5, <1>6, <1>7, FinishOfPlugin

\* A killed command says nothing but that.
LEMMA CliCrashKeeps ==
  ASSUME CliAssumption, CliIInv, CliCrash
  PROVE  CliIInv'
  <1>1. Finish("crashed") /\ UNCHANGED <<plugin, release, device, vault, meta, prints, kept, cliruns>> /\ CliTypeOK' /\ plugin \in PluginSet
    BY DEF CliCrash, Fault, CliIInv, CliTypeOK, CmdOK, CliAssumption
  <1>2. Truthful(plugin', [cmd |-> cli.cmd, res |-> "crashed", cur |-> cli.cur, tgt |-> cli.tgt, calm |-> cli.calm])
    BY DEF Truthful
  <1> QED BY <1>1, <1>2, FinishOfPlugin

\* An administrator accepts no device again and disturbs the running command.
LEMMA AdministerKeeps ==
  ASSUME CliAssumption, CliIInv, Administer
  PROVE  CliIInv'
  <1>1. cli \in CliSet /\ CmdOK(cli, plugin) /\ CredOK(cli, device, vault, meta, prints, kept) /\ UNCHANGED <<plugin, vault, meta, prints, kept, outcome, cliruns>>
    BY DEF Administer, CliIInv, CmdOK
  <1>2. /\ clifaults' \in 0..CliFaults /\ release' \in [PluginVersions -> {"paused", "partial", "full", "withdrawn"}]
        /\ device' \in [Devices -> {"unused", "active", "revoked"}]
        /\ \A e \in Devices : device'[e] = device[e] \/ (device[e] = "active" /\ device'[e] = "revoked")
    BY DEF Administer, Fault, CliIInv, CliTypeOK, CliAssumption
  <1>3. CliTypeOK'
    BY <1>1, <1>2 DEF CliIInv, CliTypeOK
  <1>4. Recorded(device', vault', meta', prints', kept')
    BY <1>1, <1>2, RevokedStaysRecorded
  <1>5. CASE cli = NoCommand /\ cli' = cli
    <2>1. CredOK(cli', device', vault', meta', prints', kept')
      BY <1>4, <1>5, CliStarts DEF CredOK
    <2> QED BY <1>1, <1>3, <1>5, <2>1 DEF CliIInv
  <1>6. CASE cli # NoCommand /\ cli' = [cli EXCEPT !.calm = FALSE]
    <2> DEFINE q == [cli EXCEPT !.calm = FALSE]
    <2>1. /\ q \in CliSet /\ q.at = cli.at /\ q.cmd = cli.cmd /\ q.cur = cli.cur /\ q.tgt = cli.tgt /\ q.dev = cli.dev
      BY <1>1 DEF CliSet
    <2>2. cli' = q /\ q.at # "idle"
      BY <1>1, <1>6, <2>1 DEF CmdOK
    <2> HIDE DEF q
    <2>3. CmdOK(q, plugin')
      BY <1>1, <2>1, <2>2 DEF CmdOK
    <2>4. CredOK(q, device', vault', meta', prints', kept')
      BY <1>1, <1>2, <1>4, <2>1 DEF CredOK
    <2> QED BY <1>3, <2>2, <2>3, <2>4, GoesOnKeeps
  <1> QED BY <1>5, <1>6 DEF Administer

\* Every step, and stuttering.
LEMMA CliStep == CliAssumption /\ CliIInv /\ [CliNext]_cliVars => CliIInv'
  <1> SUFFICES ASSUME CliAssumption, CliIInv, [CliNext]_cliVars PROVE CliIInv'
    OBVIOUS
  <1>1. CASE CliNext
    <2>1. ASSUME StageRollback \/ StageTarget PROVE CliIInv'
      BY <2>1, StagedKeeps DEF StageRollback, StageTarget
    <2> QED BY <1>1, <2>1, BeginKeeps, ReadVaultKeeps, RegisterDeviceKeeps, WriteVaultKeeps, SaveMetadataKeeps, ChallengeKeeps,
         RevokeSelfKeeps, DeleteCredentialKeeps, FetchLatestKeeps, InstallKeepsCli, InspectPluginKeeps, RestoreKeeps,
         CliCrashKeeps, AdministerKeeps DEF CliNext
  <1>2. CASE UNCHANGED cliVars
    BY <1>2 DEF cliVars, CliIInv, CliTypeOK
  <1> QED BY <1>1, <1>2

\* What the invariant gives: the property of the runs.
LEMMA CliIsSafe == CliAssumption /\ CliIInv => CliInv
  <1> SUFFICES ASSUME CliAssumption, CliIInv PROVE CliInv
    OBVIOUS
  <1>1. UpdateTruthful
    BY CliStarts DEF CliIInv, Truthful, UpdateTruthful
  <1>2. CredentialKept
    BY DEF CliIInv, CliTypeOK, CredOK, Recorded, CredentialKept, CliAssumption
  <1> QED BY <1>1, <1>2 DEF CliIInv, CliInv

\* cli.ts and the vault: for every sequence of commands, faults and administrators, a command
\* tells the truth, a credential that the vault has held stays there while the Cloud accepts it,
\* and a registration is refused only for a device whose credential never reached the vault.
THEOREM CliIsTruthful == CliSpec => []CliInv
  BY CliAssumption, CliInitKeeps, CliStep, CliIsSafe, PTL DEF CliSpec

\* The two clients of the Cloud on a computer are truthful together: they share no state.
THEOREM CloudClientIsSafe == CliSpec /\ PlSpec => []CloudClientInv
  <1>1. CliInv /\ PluginInv => CloudClientInv
    BY DEF CloudClientInv
  <1> QED BY <1>1, CliIsTruthful, PluginIsOnce, PTL

(***************************************************************************)
(* The recycle bin of sessions.  SessionTrashInv alone is not inductive:   *)
(* that a Gateway deletes only what was earned needs the session of a      *)
(* deletion on its way to be one whose retention had run out, and that two *)
(* deletions never share a confirmation needs that only a deletion holds   *)
(* one and that every one held is used up (OpHolds).                       *)
(***************************************************************************)
\* An operation on its way is about a session, and a deletion about one that was due, with a
\* confirmation of that session that is used up; only deletions hold one.
OpHolds(q, ns, m) ==
  /\ q.pc # "idle" => q.key \in Sessions /\ q.kind # "none"
  /\ q.kind # "none" => q.pc # "idle"
  /\ q.kind = "delete" => q.nonce \in Nonces /\ q.key \in m /\ ns[q.nonce] = [key |-> q.key, st |-> "gone"]
  /\ q.kind # "delete" => q.nonce = NoKey

\* The inductive invariant.
TrashIInv ==
  /\ TrashTypeOK /\ DeletionEarned
  /\ \A o \in TrashOps : OpHolds(top[o], nonces, matured)
  /\ \A o, p \in TrashOps : top[o].kind = "delete" /\ top[p].nonce = top[o].nonce => o = p
  /\ \A n \in Nonces : nonces[n].st = "live" => nonces[n].key \in matured

\* A confirmation, and an operation.
NonceSet == [key : Sessions \cup {NoKey}, st : {"free", "live", "expired", "gone"}]
TrashOpSet == [kind : {"none", "trash", "restore", "delete"}, key : Sessions \cup {NoKey},
               pc : {"idle", "describe", "act", "commit"}, nonce : Nonces \cup {NoKey}]

\* An operation that ends holds nothing.
LEMMA IdleHolds ==
  IdleOp \in TrashOpSet /\ IdleOp.kind = "none" /\ \A ns, m : OpHolds(IdleOp, ns, m)
  BY DEF IdleOp, TrashOpSet, OpHolds, NoKey

\* Nothing is under way and no confirmation handed out at the start.
LEMMA TrashInitKeeps == TrashAssumption /\ TrashInit => TrashIInv
  <1> SUFFICES ASSUME TrashAssumption, TrashInit PROVE TrashIInv
    OBVIOUS
  <1>1. NoNonce \in NonceSet /\ NoNonce.st = "free"
    BY DEF NoNonce, NonceSet
  <1>2. TrashTypeOK /\ DeletionEarned
    BY <1>1, IdleHolds DEF TrashInit, TrashTypeOK, DeletionEarned, NonceSet, TrashOpSet
  <1> QED BY <1>1, <1>2, IdleHolds DEF TrashInit, TrashIInv

\* One operation goes on, and no confirmation is touched.
LEMMA OpMoves ==
  ASSUME TrashAssumption, TrashIInv, NEW o \in TrashOps, NEW q \in TrashOpSet,
         top' = [top EXCEPT ![o] = q], UNCHANGED <<nonces, matured>>,
         OpHolds(q, nonces, matured), q.kind = "delete" => top[o].kind = "delete" /\ q.nonce = top[o].nonce,
         TrashTypeOK', DeletionEarned'
  PROVE  TrashIInv'
  <1>1. top \in [TrashOps -> TrashOpSet]
    BY DEF TrashIInv, TrashTypeOK, TrashOpSet
  <1>2. top'[o] = q /\ \A p \in TrashOps : p # o => top'[p] = top[p]
    BY <1>1
  <1>3. \A p \in TrashOps : OpHolds(top'[p], nonces', matured')
    BY <1>2 DEF TrashIInv
  <1>4. ASSUME NEW p \in TrashOps, NEW r \in TrashOps, top'[p].kind = "delete", top'[r].nonce = top'[p].nonce
        PROVE  p = r
    <2>1. \A x \in TrashOps : top[x].kind = "delete" => top[x].nonce \in Nonces
      BY DEF TrashIInv, OpHolds
    <2>2. \A x \in TrashOps : top[x].kind # "delete" => top[x].nonce = NoKey
      BY DEF TrashIInv, OpHolds
    <2>3. NoKey \notin Nonces
      BY DEF TrashAssumption, NoKey
    <2>4. \A x, y \in TrashOps : top[x].kind = "delete" /\ top[y].nonce = top[x].nonce => x = y
      BY DEF TrashIInv
    <2>5. q.kind # "delete" => q.nonce = NoKey
      BY DEF OpHolds
    <2>6. CASE p = o
      BY <1>2, <1>4, <2>4, <2>6
    <2>7. CASE p # o /\ r # o
      BY <1>2, <1>4, <2>4, <2>7
    <2>8. CASE p # o /\ r = o
      <3>1. top[p].kind = "delete" /\ top[p].nonce \in Nonces /\ q.nonce = top[p].nonce
        BY <1>2, <1>4, <2>1, <2>8
      <3>2. q.kind = "delete"
        BY <3>1, <2>3, <2>5
      <3> QED BY <3>1, <3>2, <2>4, <2>8
    <2> QED BY <2>6, <2>7, <2>8
  <1> QED BY <1>3, <1>4 DEF TrashIInv

\* trash() and restore() hold no confirmation.
LEMMA StartKeeps ==
  ASSUME TrashAssumption, TrashIInv, NEW o \in TrashOps, NEW k \in Sessions, NEW kind \in {"trash", "restore"},
         Starts(o, kind, k, NoKey), UNCHANGED <<gs, recs, tfile, nonces, matured>>
  PROVE  TrashIInv'
  <1> DEFINE q == [kind |-> kind, key |-> k, pc |-> "describe", nonce |-> NoKey]
  <1>1. q \in TrashOpSet /\ OpHolds(q, nonces, matured) /\ q.kind # "delete"
    BY DEF TrashOpSet, OpHolds
  <1>2. top' = [top EXCEPT ![o] = q]
    BY DEF Starts
  <1> HIDE DEF q
  <1>3. TrashTypeOK' /\ DeletionEarned'
    BY <1>1, <1>2 DEF TrashIInv, TrashTypeOK, DeletionEarned, TrashOpSet
  <1> QED BY <1>1, <1>2, <1>3, OpMoves

\* A fresh confirmation is held by nobody yet.
LEMMA RequestDeleteKeeps ==
  ASSUME TrashAssumption, TrashIInv, NEW k \in Sessions, NEW n \in Nonces, RequestPermanentDelete(k, n)
  PROVE  TrashIInv'
  <1>1. /\ nonces \in [Nonces -> NonceSet] /\ nonces[n].st = "free" /\ UNCHANGED <<gs, recs, tfile, top>>
        /\ nonces' = [nonces EXCEPT ![n] = [key |-> k, st |-> "live"]] /\ matured' = matured \cup {k}
    BY DEF RequestPermanentDelete, TrashIInv, TrashTypeOK, NonceSet
  <1>2. TrashTypeOK' /\ DeletionEarned'
    BY <1>1 DEF TrashIInv, TrashTypeOK, DeletionEarned
  <1>3. \A m \in Nonces : nonces'[m].st = "gone" <=> nonces[m].st = "gone"
    BY <1>1
  <1>4. ASSUME NEW p \in TrashOps PROVE OpHolds(top'[p], nonces', matured')
    <2>1. OpHolds(top[p], nonces, matured)
      BY DEF TrashIInv
    <2>2. top[p].kind = "delete" => top[p].nonce # n
      BY <1>1, <2>1 DEF OpHolds
    <2> QED BY <1>1, <2>1, <2>2 DEF OpHolds
  <1>5. \A m \in Nonces : nonces'[m].st = "live" => nonces'[m].key \in matured'
    BY <1>1 DEF TrashIInv
  <1> QED BY <1>1, <1>2, <1>4, <1>5 DEF TrashIInv

\* A confirmation that was good is held by no deletion, so the one that takes it is alone.
LEMMA PermanentlyDeleteKeeps ==
  ASSUME TrashAssumption, TrashIInv, NEW o \in TrashOps, NEW k \in Sessions, NEW n \in Nonces,
         PermanentlyDelete(o, k, n)
  PROVE  TrashIInv'
  <1>1. /\ nonces \in [Nonces -> NonceSet] /\ top \in [TrashOps -> TrashOpSet]
        /\ nonces[n].st \in {"live", "expired"} /\ UNCHANGED <<gs, recs, tfile, matured>>
        /\ nonces' = [nonces EXCEPT ![n].st = "gone"] /\ top[o].pc = "idle"
    BY DEF PermanentlyDelete, TrashIInv, TrashTypeOK, NonceSet, TrashOpSet
  <1>2. /\ nonces' \in [Nonces -> NonceSet] /\ nonces'[n] = [key |-> nonces[n].key, st |-> "gone"]
        /\ \A m \in Nonces : m # n => nonces'[m] = nonces[m]
    BY <1>1 DEF NonceSet
  <1>3. \A m \in Nonces : nonces'[m].st = "live" => nonces'[m].key \in matured'
    BY <1>1, <1>2 DEF TrashIInv
  <1>4. \A p \in TrashOps : top[p].kind = "delete" => top[p].nonce # n
    <2>1. ASSUME NEW p \in TrashOps, top[p].kind = "delete" PROVE nonces[top[p].nonce].st = "gone"
      <3>1. OpHolds(top[p], nonces, matured)
        BY DEF TrashIInv
      <3> QED BY <2>1, <3>1 DEF OpHolds
    <2>2. nonces[n].st # "gone"
      BY <1>1
    <2> QED BY <2>1, <2>2
  <1>5. \A p \in TrashOps : OpHolds(top[p], nonces', matured') /\ OpHolds(top[p], nonces, matured)
    BY <1>1, <1>2, <1>4 DEF TrashIInv, OpHolds
  <1>6. DeletionEarned'
    BY <1>1 DEF TrashIInv, DeletionEarned
  <1>7. CASE UNCHANGED top
    <2>1. TrashTypeOK'
      BY <1>1, <1>2, <1>7 DEF TrashIInv, TrashTypeOK, NonceSet, TrashOpSet
    <2>2. \A p \in TrashOps : OpHolds(top'[p], nonces', matured')
      BY <1>5, <1>7
    <2>3. \A p, r \in TrashOps : top'[p].kind = "delete" /\ top'[r].nonce = top'[p].nonce => p = r
      BY <1>7 DEF TrashIInv
    <2> QED BY <1>3, <1>6, <2>1, <2>2, <2>3 DEF TrashIInv
  <1>8. CASE Starts(o, "delete", k, n) /\ nonces[n] = [key |-> k, st |-> "live"]
    <2> DEFINE q == [kind |-> "delete", key |-> k, pc |-> "describe", nonce |-> n]
    <2>1. q \in TrashOpSet /\ q.kind = "delete" /\ q.nonce = n /\ OpHolds(q, nonces', matured')
      BY <1>1, <1>2, <1>8 DEF TrashOpSet, OpHolds, TrashIInv
    <2>2. top' = [top EXCEPT ![o] = q]
      BY <1>8 DEF Starts
    <2> HIDE DEF q
    <2>3. top' \in [TrashOps -> TrashOpSet] /\ top'[o] = q /\ \A p \in TrashOps : p # o => top'[p] = top[p]
      BY <1>1, <2>1, <2>2
    <2>4. TrashTypeOK'
      BY <1>1, <1>2, <2>3 DEF TrashIInv, TrashTypeOK, NonceSet, TrashOpSet
    <2>5. \A p \in TrashOps : p # o => top[p].nonce # n
      BY <1>4, <1>5 DEF OpHolds, TrashAssumption, NoKey
    <2>6. \A p, r \in TrashOps : top'[p].kind = "delete" /\ top'[r].nonce = top'[p].nonce => p = r
      BY <2>1, <2>3, <2>5 DEF TrashIInv
    <2>7. \A p \in TrashOps : OpHolds(top'[p], nonces', matured')
      BY <1>5, <2>1, <2>3
    <2> QED BY <1>3, <1>6, <2>4, <2>6, <2>7 DEF TrashIInv
  <1> QED BY <1>7, <1>8 DEF PermanentlyDelete

\* describeOwned() ends an operation or lets it go on with what it holds.
LEMMA DescribeKeeps ==
  ASSUME TrashAssumption, TrashIInv, NEW o \in TrashOps, Describe(o)
  PROVE  TrashIInv'
  <1>1. /\ top[o] \in TrashOpSet /\ top \in [TrashOps -> TrashOpSet] /\ top[o].pc = "describe"
        /\ UNCHANGED <<gs, recs, tfile, nonces, matured>> /\ OpHolds(top[o], nonces, matured)
    BY DEF Describe, TrashIInv, TrashTypeOK, TrashOpSet
  <1>2. PICK q \in {IdleOp, [top[o] EXCEPT !.pc = "act"]} : top' = [top EXCEPT ![o] = q]
    BY DEF Describe
  <1>3. /\ q \in TrashOpSet /\ OpHolds(q, nonces, matured)
        /\ (q.kind = "delete" => top[o].kind = "delete" /\ q.nonce = top[o].nonce)
    <2>1. CASE q = IdleOp
      BY <2>1, IdleHolds
    <2>2. CASE q = [top[o] EXCEPT !.pc = "act"]
      BY <1>1, <2>2 DEF TrashOpSet, OpHolds
    <2> QED BY <2>1, <2>2
  <1>4. TrashTypeOK' /\ DeletionEarned'
    BY <1>1, <1>2, <1>3 DEF TrashIInv, TrashTypeOK, DeletionEarned, TrashOpSet
  <1> QED BY <1>1, <1>2, <1>3, <1>4, OpMoves

\* Only a deletion makes the Gateway delete, and its session was due.
LEMMA ActKeeps ==
  ASSUME TrashAssumption, TrashIInv, NEW o \in TrashOps, Act(o)
  PROVE  TrashIInv'
  <1>1. /\ top[o] \in TrashOpSet /\ top \in [TrashOps -> TrashOpSet] /\ top[o].pc = "act"
        /\ UNCHANGED <<recs, tfile, nonces, matured>> /\ OpHolds(top[o], nonces, matured)
    BY DEF Act, TrashIInv, TrashTypeOK, TrashOpSet
  <1>2. PICK q \in {IdleOp, [top[o] EXCEPT !.pc = "commit"]} : top' = [top EXCEPT ![o] = q]
    BY DEF Act
  <1>3. /\ q \in TrashOpSet /\ OpHolds(q, nonces, matured)
        /\ (q.kind = "delete" => top[o].kind = "delete" /\ q.nonce = top[o].nonce)
    <2>1. CASE q = IdleOp
      BY <2>1, IdleHolds
    <2>2. CASE q = [top[o] EXCEPT !.pc = "commit"]
      BY <1>1, <2>2 DEF TrashOpSet, OpHolds
    <2> QED BY <2>1, <2>2
  <1>4. top[o].key \in Sessions /\ top[o].kind \in {"trash", "restore", "delete"}
        /\ (top[o].kind = "delete" => top[o].key \in matured)
    BY <1>1 DEF OpHolds, TrashOpSet
  <1>5. GatewayResult(top[o].kind) \in {"live", "archived", "deleted"}
        /\ (GatewayResult(top[o].kind) = "deleted" => top[o].kind = "delete")
    <2>1. CASE top[o].kind = "trash"
      BY <2>1 DEF GatewayResult
    <2>2. CASE top[o].kind = "restore"
      BY <2>2 DEF GatewayResult
    <2>3. CASE top[o].kind = "delete"
      BY <2>3 DEF GatewayResult
    <2> QED BY <1>4, <2>1, <2>2, <2>3
  <1>6. gs' = gs \/ gs' = [gs EXCEPT ![top[o].key] = GatewayResult(top[o].kind)]
    BY DEF Act
  <1>7. gs' \in [Sessions -> {"live", "archived", "deleted"}] /\ DeletionEarned'
    BY <1>1, <1>4, <1>5, <1>6 DEF TrashIInv, TrashTypeOK, DeletionEarned
  <1>8. TrashTypeOK'
    BY <1>1, <1>2, <1>3, <1>7 DEF TrashIInv, TrashTypeOK, TrashOpSet
  <1> QED BY <1>1, <1>2, <1>3, <1>7, <1>8, OpMoves

\* A commit touches records only.
LEMMA CommitKeeps ==
  ASSUME TrashAssumption, TrashIInv, NEW o \in TrashOps, Commit(o)
  PROVE  TrashIInv'
  <1>1. UNCHANGED <<gs, nonces, matured>> /\ top' = [top EXCEPT ![o] = IdleOp]
    BY DEF Commit
  <1>2. recs' \in [Sessions -> {"none", "kept", "due"}] /\ tfile' \in [Sessions -> {"none", "kept", "due"}]
    BY DEF Commit, TrashIInv, TrashTypeOK
  <1>3. TrashTypeOK' /\ DeletionEarned'
    BY <1>1, <1>2, IdleHolds DEF TrashIInv, TrashTypeOK, DeletionEarned, TrashOpSet
  <1> QED BY <1>1, <1>3, IdleHolds, OpMoves

\* Time and the user delete nothing.
LEMMA OutsideKeeps ==
  ASSUME TrashAssumption, TrashIInv, NEW k \in Sessions, RetentionEnds(k) \/ UserToggles(k)
  PROVE  TrashIInv'
  <1>1. TrashTypeOK' /\ DeletionEarned' /\ UNCHANGED <<nonces, top, matured>>
    BY DEF TrashIInv, TrashTypeOK, DeletionEarned, RetentionEnds, UserToggles
  <1> QED BY <1>1 DEF TrashIInv

\* A confirmation that expires was still good, so no deletion holds it.
LEMMA NonceExpiresKeeps ==
  ASSUME TrashAssumption, TrashIInv, NEW n \in Nonces, NonceExpires(n)
  PROVE  TrashIInv'
  <1>1. /\ nonces \in [Nonces -> NonceSet] /\ nonces[n].st = "live" /\ UNCHANGED <<gs, recs, tfile, top, matured>>
        /\ nonces' = [nonces EXCEPT ![n].st = "expired"]
    BY DEF NonceExpires, TrashIInv, TrashTypeOK, NonceSet
  <1>2. /\ nonces' \in [Nonces -> NonceSet] /\ nonces'[n].st = "expired"
        /\ \A m \in Nonces : m # n => nonces'[m] = nonces[m]
    BY <1>1 DEF NonceSet
  <1>3. \A p \in TrashOps : top[p].kind = "delete" => top[p].nonce # n
    <2>1. ASSUME NEW p \in TrashOps, top[p].kind = "delete" PROVE nonces[top[p].nonce].st = "gone"
      <3>1. OpHolds(top[p], nonces, matured)
        BY DEF TrashIInv
      <3> QED BY <2>1, <3>1 DEF OpHolds
    <2>2. nonces[n].st # "gone"
      BY <1>1
    <2> QED BY <2>1, <2>2
  <1>4. \A p \in TrashOps : OpHolds(top'[p], nonces', matured')
    BY <1>1, <1>2, <1>3 DEF TrashIInv, OpHolds
  <1>5. TrashTypeOK' /\ DeletionEarned'
    BY <1>1, <1>2 DEF TrashIInv, TrashTypeOK, DeletionEarned, NonceSet
  <1> QED BY <1>1, <1>2, <1>4, <1>5 DEF TrashIInv

\* A restart forgets every confirmation and every operation.
LEMMA TrashRestartsKeeps ==
  ASSUME TrashAssumption, TrashIInv, TrashRestarts
  PROVE  TrashIInv'
  <1>1. /\ top' = [o \in TrashOps |-> IdleOp] /\ UNCHANGED <<gs, tfile, matured>> /\ recs' = tfile
        /\ nonces' = [n \in Nonces |-> IF nonces[n].st = "free" THEN NoNonce ELSE [nonces[n] EXCEPT !.st = "gone"]]
        /\ nonces \in [Nonces -> NonceSet]
    BY DEF TrashRestarts, TrashIInv, TrashTypeOK, NonceSet
  <1>2. \A n \in Nonces : nonces'[n] \in NonceSet /\ nonces'[n].st # "live"
    BY <1>1 DEF NonceSet, NoNonce
  <1>3. nonces' \in [Nonces -> NonceSet]
    BY <1>1, <1>2
  <1>4. TrashTypeOK' /\ DeletionEarned'
    BY <1>1, <1>3, IdleHolds DEF TrashIInv, TrashTypeOK, DeletionEarned, NonceSet, TrashOpSet
  <1> QED BY <1>1, <1>2, <1>4, IdleHolds DEF TrashIInv

\* Every step, and stuttering.
LEMMA TrashStep ==
  ASSUME TrashAssumption, TrashIInv, [TrashNext]_trashVars
  PROVE  TrashIInv'
  <1>1. CASE UNCHANGED trashVars
    BY <1>1 DEF trashVars, TrashIInv, TrashTypeOK, DeletionEarned
  <1>2. ASSUME NEW o \in TrashOps, NEW k \in Sessions, Trash(o, k) \/ RestoreSession(o, k)
        PROVE  TrashIInv'
    BY <1>2, StartKeeps DEF Trash, RestoreSession
  <1> QED BY <1>1, <1>2, RequestDeleteKeeps, PermanentlyDeleteKeeps, DescribeKeeps, ActKeeps, CommitKeeps,
             OutsideKeeps, NonceExpiresKeeps, TrashRestartsKeeps DEF TrashNext

\* What the invariant gives: the property of the runs.
LEMMA TrashIsSafe == TrashAssumption /\ TrashIInv => SessionTrashInv
  BY DEF TrashIInv, OpHolds, OneDeletionPerNonce, SessionTrashInv

\* session-management.ts: for any sessions, confirmations and operations, failures,
\* restarts and a user who archives elsewhere, a session is deleted only after its own
\* retention and by a confirmation of its own that no other deletion uses.
THEOREM DeletionsAreEarned == TrashSpec => []SessionTrashInv
  BY TrashAssumption, TrashInitKeeps, TrashStep, TrashIsSafe, PTL DEF TrashSpec

-----------------------------------------------------------------------------
(***************************************************************************)
(* Telemetry.  Of its invariant, what the folds over batches say (events   *)
(* in order and once, counted once) is model-checked; the rest is proved.  *)
(* A waiting event has a timer or a batch under way, because every flush   *)
(* that does nothing does so for one of those reasons.  The map of the     *)
(* route never exceeds its bound, since a new device is refused at the     *)
(* bound: so the sweep, which runs only above it, never does.              *)
(***************************************************************************)

\* What an entry of the map of attempts, a batch and the reporter are.
Entries == [count : Nat, over : BOOLEAN]
PostSet == [events : Seq(1..MaxRecords), st : {"sent", "admitted", "stored", "unsure", "refused"}]
ReporterSet == [queue : Seq(1..MaxRecords), timer : BOOLEAN, sending : Nat, stopped : BOOLEAN]

\* The map of attempts, of which the one for this device counts what was let through.
AttemptsOK(a, n) ==
  /\ a \in [DOMAIN a -> Entries] /\ DOMAIN a \subseteq Reporters
  /\ IsFiniteSet(DOMAIN a) /\ Cardinality(DOMAIN a) <= MaxDevices
  /\ n \in Nat /\ n <= RateLimit
  /\ Me \in DOMAIN a /\ ~a[Me].over => a[Me].count = n

\* A reporter rp with batches ps, of which those in td were reported as dropped.
ReporterOK(rp, ps, td) ==
  /\ rp \in ReporterSet /\ rp.sending \in 0..Len(ps)
  /\ rp.queue # <<>> /\ ~rp.stopped => rp.timer \/ rp.sending # 0
  /\ \A i \in 1..Len(ps) : i # rp.sending /\ ps[i].st # "stored" => i \in td

\* The inductive invariant: the reporter with its batches, and the map of attempts.
TelemetryIInv ==
  /\ posts \in Seq(PostSet) /\ seen \in 0..MaxRecords /\ refused \subseteq 1..MaxRecords /\ told \subseteq 1..Len(posts)
  /\ ReporterOK(rep, posts, told) /\ AttemptsOK(attempts, accepted)

\* The server and the client have just started.
LEMMA TelemetryInitKeeps == TelemetryAssumption /\ TelemetryInit => TelemetryIInv
  <1> SUFFICES ASSUME TelemetryAssumption, TelemetryInit PROVE TelemetryIInv
    OBVIOUS
  <1>1. posts = <<>> /\ Len(posts) = 0 /\ posts \in Seq(PostSet)
    BY DEF TelemetryInit
  <1>2. ReporterOK(rep, posts, told)
    BY <1>1 DEF TelemetryInit, ReporterOK, ReporterSet
  <1>3. DOMAIN attempts = {} /\ attempts \in [DOMAIN attempts -> Entries]
    BY DEF TelemetryInit, Entries
  <1>4. AttemptsOK(attempts, accepted)
    BY <1>3, FS_EmptySet DEF TelemetryInit, TelemetryAssumption, AttemptsOK
  <1> QED BY <1>1, <1>2, <1>4 DEF TelemetryInit, TelemetryAssumption, TelemetryIInv

\* schedule(): a reporter that runs has a timer afterwards.
LEMMA ScheduleIs ==
  ASSUME NEW rp \in ReporterSet
  PROVE  /\ Schedule(rp) \in ReporterSet /\ Schedule(rp).queue = rp.queue /\ Schedule(rp).sending = rp.sending
         /\ Schedule(rp).stopped = rp.stopped /\ (~rp.stopped => Schedule(rp).timer)
  BY DEF Schedule, ReporterSet

\* splice(): the batch and what it leaves are events.
LEMMA BatchIs ==
  ASSUME TelemetryAssumption, NEW rp \in ReporterSet
  PROVE  Batch(rp) \in Seq(1..MaxRecords) /\ SubSeq(rp.queue, Len(Batch(rp)) + 1, Len(rp.queue)) \in Seq(1..MaxRecords)
  <1>1. rp.queue \in Seq(1..MaxRecords) /\ Len(rp.queue) \in Nat
    BY DEF ReporterSet
  <1> DEFINE n == IF Len(rp.queue) < MaxEvents THEN Len(rp.queue) ELSE MaxEvents
  <1>2. n \in 0..Len(rp.queue)
    BY <1>1 DEF TelemetryAssumption
  <1>3. Batch(rp) = SubSeq(rp.queue, 1, n)
    BY DEF Batch
  <1> HIDE DEF n
  <1>4. \A i \in 1..Len(rp.queue) : rp.queue[i] \in 1..MaxRecords
    <2> DEFINE S == 1..MaxRecords
               q == rp.queue
    <2>1. q \in Seq(S)
      BY <1>1
    <2> HIDE DEF S, q
    <2>2. \A i \in 1..Len(q) : q[i] \in S
      BY <2>1
    <2> QED BY <2>2 DEF S, q
  <1>5. Batch(rp) \in Seq(1..MaxRecords) /\ Len(Batch(rp)) = n
    <2>1. 1 \in Int /\ n \in Int /\ \A i \in 1..n : rp.queue[i] \in 1..MaxRecords
      BY <1>1, <1>2, <1>4
    <2>2. SubSeq(rp.queue, 1, n) \in Seq(1..MaxRecords) /\ Len(SubSeq(rp.queue, 1, n)) = IF 1 <= n THEN n - 1 + 1 ELSE 0
      BY <2>1, SubSeqProperties
    <2> QED BY <1>2, <1>3, <2>2
  <1>6. SubSeq(rp.queue, Len(Batch(rp)) + 1, Len(rp.queue)) \in Seq(1..MaxRecords)
    <2>1. /\ Len(Batch(rp)) + 1 \in Int /\ Len(rp.queue) \in Int
          /\ \A i \in Len(Batch(rp)) + 1 .. Len(rp.queue) : rp.queue[i] \in 1..MaxRecords
      BY <1>1, <1>2, <1>4, <1>5
    <2> QED BY <2>1, SubSeqProperties
  <1> QED BY <1>5, <1>6

\* A reporter that flushes waits for the new batch; one that cannot waits for another.
LEMMA FlushKeeps ==
  ASSUME TelemetryAssumption, TelemetryIInv, NEW rp \in ReporterSet, Flush(rp), rp.sending = rep.sending,
         UNCHANGED <<told, attempts, accepted>>, seen' \in 0..MaxRecords, refused' \subseteq 1..MaxRecords
  PROVE  TelemetryIInv'
  <1>1. posts \in Seq(PostSet) /\ ReporterOK(rep, posts, told) /\ AttemptsOK(attempts, accepted) /\ told \subseteq 1..Len(posts)
    BY DEF TelemetryIInv
  <1>2. CASE ~Flushes(rp)
    <2>1. rep' = rp /\ UNCHANGED posts /\ (rp.sending # 0 \/ rp.queue = <<>>)
      BY <1>2 DEF Flush, Flushes
    <2>2. ReporterOK(rep', posts', told')
      BY <1>1, <2>1 DEF ReporterOK
    <2> QED BY <1>1, <2>1, <2>2 DEF TelemetryIInv
  <1>3. CASE Flushes(rp)
    <2> DEFINE b == Batch(rp)
               p == [events |-> b, st |-> "sent"]
               q == SubSeq(rp.queue, Len(b) + 1, Len(rp.queue))
    <2>1. /\ rep' = [rp EXCEPT !.timer = FALSE, !.queue = q, !.sending = Len(posts) + 1]
          /\ posts' = Append(posts, p) /\ rep.sending = 0
      BY <1>3 DEF Flush, Flushes
    <2>2. b \in Seq(1..MaxRecords) /\ q \in Seq(1..MaxRecords)
      BY BatchIs
    <2> HIDE DEF b, q
    <2>3. p \in PostSet
      BY <2>2 DEF PostSet
    <2> HIDE DEF p
    <2>4. /\ posts' \in Seq(PostSet) /\ Len(posts') = Len(posts) + 1 /\ Len(posts) \in Nat
          /\ \A i \in 1..Len(posts) : posts'[i] = posts[i]
      BY <1>1, <2>1, <2>3
    <2>5. rep' \in ReporterSet /\ rep'.sending = Len(posts')
      <3> DEFINE n == Len(posts) + 1
      <3>1. n \in Nat /\ Len(posts') = n
        BY <2>4
      <3>2. rep' = [rp EXCEPT !.timer = FALSE, !.queue = q, !.sending = n]
        BY <2>1
      <3> HIDE DEF n
      <3> QED BY <2>2, <3>1, <3>2 DEF ReporterSet
    <2>6. \A i \in 1..Len(posts') : i # rep'.sending /\ posts'[i].st # "stored" => i \in told'
      BY <1>1, <2>1, <2>4, <2>5 DEF ReporterOK
    <2>7. ReporterOK(rep', posts', told')
      BY <2>4, <2>5, <2>6 DEF ReporterOK
    <2> QED BY <1>1, <2>4, <2>7 DEF TelemetryIInv
  <1> QED BY <1>2, <1>3

\* record(): the event is refused, flushed or given a timer.
LEMMA RecordKeeps ==
  ASSUME TelemetryAssumption, TelemetryIInv, Record
  PROVE  TelemetryIInv'
  <1> DEFINE q == [rep EXCEPT !.queue = Append(@, seen + 1)]
  <1>1. /\ rep \in ReporterSet /\ seen \in 0..MaxRecords /\ seen < MaxRecords /\ seen' = seen + 1 /\ ~rep.stopped
        /\ UNCHANGED <<told, attempts, accepted>> /\ MaxRecords \in Nat /\ refused \subseteq 1..MaxRecords
        /\ ReporterOK(rep, posts, told)
    BY DEF Record, TelemetryIInv, ReporterOK, TelemetryAssumption
  <1>2. seen' \in 0..MaxRecords /\ seen + 1 \in 1..MaxRecords
    BY <1>1
  <1>3. q \in ReporterSet /\ q.sending = rep.sending /\ q.stopped = rep.stopped
    <2>1. rep.queue \in Seq(1..MaxRecords)
      BY <1>1 DEF ReporterSet
    <2> DEFINE longer == Append(rep.queue, seen + 1)
    <2>2. longer \in Seq(1..MaxRecords)
      BY <1>2, <2>1
    <2>3. q = [rep EXCEPT !.queue = longer]
      BY <1>1 DEF ReporterSet
    <2> HIDE DEF q, longer
    <2> QED BY <1>1, <2>2, <2>3 DEF ReporterSet
  <1>4. CASE Len(rep.queue) >= MaxEvents
    <2>1. refused' = refused \cup {seen + 1} /\ UNCHANGED <<rep, posts>>
      BY <1>4 DEF Record
    <2> QED BY <1>1, <1>2, <2>1 DEF TelemetryIInv
  <1>5. CASE ~(Len(rep.queue) >= MaxEvents)
    <2>1. UNCHANGED refused /\ (Flush(q) \/ (rep' = Schedule(q) /\ UNCHANGED posts))
      BY <1>5 DEF Record
    <2> HIDE DEF q
    <2>2. CASE Flush(q)
      BY <1>1, <1>2, <1>3, <2>1, <2>2, FlushKeeps
    <2>3. CASE rep' = Schedule(q) /\ UNCHANGED posts
      <3>1. ReporterOK(rep', posts', told')
        BY <1>1, <1>3, <2>3, ScheduleIs DEF ReporterOK
      <3> QED BY <1>1, <1>2, <2>1, <2>3, <3>1 DEF TelemetryIInv
    <2> QED BY <2>1, <2>2, <2>3
  <1> QED BY <1>4, <1>5

\* The timer and stop() flush.
LEMMA TimerStopKeeps ==
  ASSUME TelemetryAssumption, TelemetryIInv, TimerFires \/ StopReporter
  PROVE  TelemetryIInv'
  <1>1. rep \in ReporterSet /\ UNCHANGED <<seen, refused, told, attempts, accepted>>
    BY DEF TelemetryIInv, ReporterOK, TimerFires, StopReporter
  <1>2. PICK rp \in {[rep EXCEPT !.timer = FALSE], [rep EXCEPT !.stopped = TRUE, !.timer = FALSE]} : Flush(rp)
    BY DEF TimerFires, StopReporter
  <1>3. rp \in ReporterSet /\ rp.sending = rep.sending
    BY <1>1, <1>2 DEF ReporterSet
  <1> QED BY <1>1, <1>2, <1>3, FlushKeeps DEF TelemetryIInv

\* The end of a fetch, with or without its answer.
LEMMA FetchEndsKeeps ==
  ASSUME TelemetryAssumption, TelemetryIInv, NEW ok \in BOOLEAN, FetchEnds(ok), rep.sending # 0,
         ok => posts[rep.sending].st = "stored", UNCHANGED <<posts, seen, refused, attempts, accepted>>
  PROVE  TelemetryIInv'
  <1> DEFINE done == [rep EXCEPT !.sending = 0]
  <1>1. rep \in ReporterSet /\ ReporterOK(rep, posts, told) /\ rep.sending \in 1..Len(posts) /\ posts \in Seq(PostSet)
    BY DEF TelemetryIInv, ReporterOK
  <1>2. done \in ReporterSet /\ done.sending = 0 /\ done.queue = rep.queue /\ done.stopped = rep.stopped
    BY <1>1 DEF ReporterSet
  <1>3. rep' = IF done.queue # <<>> /\ ~done.stopped THEN Schedule(done) ELSE done
    BY DEF FetchEnds
  <1> HIDE DEF done
  <1>4. rep' \in ReporterSet /\ rep'.sending = 0 /\ (rep'.queue # <<>> /\ ~rep'.stopped => rep'.timer)
    BY <1>2, <1>3, ScheduleIs
  <1>5. told' = (IF ok THEN told ELSE told \cup {rep.sending})
    BY DEF FetchEnds
  <1>6. told' \subseteq 1..Len(posts) /\ \A i \in 1..Len(posts) : posts[i].st # "stored" => i \in told'
    BY <1>1, <1>5 DEF TelemetryIInv, ReporterOK
  <1>7. ReporterOK(rep', posts', told')
    BY <1>1, <1>4, <1>6 DEF ReporterOK
  <1> QED BY <1>6, <1>7 DEF TelemetryIInv

\* An answer, or none.
LEMMA AnsweredKeeps ==
  ASSUME TelemetryAssumption, TelemetryIInv, Answered \/ FetchFails
  PROVE  TelemetryIInv'
  <1>1. CASE Answered
    BY <1>1, FetchEndsKeeps DEF Answered
  <1>2. CASE FetchFails
    BY <1>2, FetchEndsKeeps DEF FetchFails
  <1> QED BY <1>1, <1>2

\* The map never grows past its bound, so the sweep of entries never runs.
LEMMA SweepNeverRuns ==
  ASSUME NEW a, NEW n, AttemptsOK(a, n), TelemetryAssumption
  PROVE  Swept(a) = a
  <1>1. Cardinality(DOMAIN a) \in Nat /\ Cardinality(DOMAIN a) <= MaxDevices /\ MaxDevices \in Nat
    BY FS_CardinalityType DEF AttemptsOK, TelemetryAssumption
  <1> QED BY <1>1 DEF Swept

\* An entry is added only below the bound of the map, and counts up to the rate.
LEMMA EntryIs ==
  ASSUME TelemetryAssumption, NEW a, NEW n, AttemptsOK(a, n), NEW d \in Reporters, Passes(a, d)
  PROVE  AttemptsOK(Entry(a, d), IF d # Me THEN n ELSE IF RateVerdict(a, d) = "first" THEN 1 ELSE n + 1)
  <1> DEFINE new == Entry(a, d)
             c == IF RateVerdict(a, d) = "first" THEN 1 ELSE a[d].count + 1
             m == IF d # Me THEN n ELSE IF RateVerdict(a, d) = "first" THEN 1 ELSE n + 1
  <1>1. /\ a \in [DOMAIN a -> Entries] /\ DOMAIN a \subseteq Reporters /\ IsFiniteSet(DOMAIN a)
        /\ Cardinality(DOMAIN a) <= MaxDevices /\ MaxDevices \in Nat \ {0} /\ RateLimit \in Nat \ {0} /\ n \in Nat
        /\ n <= RateLimit /\ (Me \in DOMAIN a /\ ~a[Me].over => a[Me].count = n)
    BY DEF AttemptsOK, TelemetryAssumption
  <1>2. new = [x \in DOMAIN a \cup {d} |-> IF x = d THEN [count |-> c, over |-> FALSE] ELSE a[x]]
    BY DEF Entry
  <1>3. RateVerdict(a, d) # "first" => d \in DOMAIN a /\ ~a[d].over /\ ~(a[d].count >= RateLimit)
    BY DEF Passes, RateVerdict
  <1>4. c \in Nat
    BY <1>1, <1>3 DEF Entries
  <1>5. d \notin DOMAIN a => ~(Cardinality(DOMAIN a) >= MaxDevices)
    BY DEF Passes, RateVerdict
  <1>6. m \in Nat /\ m <= RateLimit /\ (d = Me => c = m)
    BY <1>1, <1>3 DEF Entries
  <1> HIDE DEF new, c, m
  <1>7. DOMAIN new = DOMAIN a \cup {d} /\ new[d] = [count |-> c, over |-> FALSE] /\ \A x \in DOMAIN a : x # d => new[x] = a[x]
    BY <1>2
  <1>8. IsFiniteSet(DOMAIN new) /\ Cardinality(DOMAIN new) <= MaxDevices
    <2>1. /\ IsFiniteSet(DOMAIN a \cup {d}) /\ Cardinality(DOMAIN a) \in Nat
          /\ Cardinality(DOMAIN a \cup {d}) = IF d \in DOMAIN a THEN Cardinality(DOMAIN a) ELSE Cardinality(DOMAIN a) + 1
      BY <1>1, FS_AddElement, FS_CardinalityType
    <2> QED BY <1>1, <1>5, <1>7, <2>1
  <1>9. new \in [DOMAIN new -> Entries]
    BY <1>1, <1>2, <1>4 DEF Entries
  <1>10. Me \in DOMAIN new /\ ~new[Me].over => new[Me].count = m
    <2>1. CASE d = Me
      BY <1>6, <1>7, <2>1
    <2>2. CASE d # Me
      <3>1. m = n
        BY <2>2 DEF m
      <3> QED BY <1>1, <1>7, <2>2, <3>1
    <2> QED BY <2>1, <2>2
  <1> QED BY <1>1, <1>6, <1>7, <1>8, <1>9, <1>10 DEF AttemptsOK, new, m

\* The batches keep their number and their events; one that was stored stays so.
LEMMA PostMoves ==
  ASSUME TelemetryIInv, NEW i \in 1..Len(posts), NEW st \in {"admitted", "stored", "unsure", "refused"},
         posts[i].st # "stored", posts' = [posts EXCEPT ![i].st = st], UNCHANGED <<rep, seen, refused, told>>,
         AttemptsOK(attempts', accepted')
  PROVE  TelemetryIInv'
  <1>1. posts \in Seq(PostSet) /\ ReporterOK(rep, posts, told) /\ Len(posts) \in Nat
    BY DEF TelemetryIInv
  <1>2. posts[i] \in PostSet
    BY <1>1
  <1> DEFINE p == [posts[i] EXCEPT !.st = st]
  <1>3. p \in PostSet /\ posts' = [posts EXCEPT ![i] = p]
    BY <1>1, <1>2 DEF PostSet
  <1> HIDE DEF p
  <1>4. posts' \in Seq(PostSet) /\ Len(posts') = Len(posts) /\ \A j \in 1..Len(posts) : j # i => posts'[j] = posts[j]
    BY <1>1, <1>3
  <1>5. \A j \in 1..Len(posts') : j # rep'.sending /\ posts'[j].st # "stored" => j \in told'
    BY <1>1, <1>4 DEF ReporterOK
  <1>6. ReporterOK(rep', posts', told')
    BY <1>1, <1>4, <1>5 DEF ReporterOK
  <1> QED BY <1>4, <1>6 DEF TelemetryIInv

\* The limit of this device.
LEMMA AdmitKeeps ==
  ASSUME TelemetryAssumption, TelemetryIInv, NEW i \in 1..Len(posts), Admit(i)
  PROVE  TelemetryIInv'
  <1>1. AttemptsOK(attempts, accepted) /\ Me \in Reporters
    BY DEF TelemetryIInv, Reporters
  <1>2. Swept(attempts) = attempts
    BY <1>1, SweepNeverRuns
  <1>3. PICK st \in {"admitted", "refused"} : posts' = [posts EXCEPT ![i].st = st]
    BY DEF Admit
  <1>4. posts[i].st = "sent" /\ UNCHANGED <<rep, seen, refused, told>>
    BY DEF Admit
  <1>5. \/ UNCHANGED <<attempts, accepted>>
        \/ /\ Passes(attempts, Me) /\ attempts' = Entry(attempts, Me)
           /\ accepted' = IF RateVerdict(attempts, Me) = "first" THEN 1 ELSE accepted + 1
    BY <1>2 DEF Admit
  <1>6. AttemptsOK(attempts', accepted')
    <2>1. CASE UNCHANGED <<attempts, accepted>>
      BY <1>1, <2>1
    <2>2. CASE Passes(attempts, Me) /\ attempts' = Entry(attempts, Me)
               /\ accepted' = IF RateVerdict(attempts, Me) = "first" THEN 1 ELSE accepted + 1
      BY <1>1, <2>2, EntryIs
    <2> QED BY <1>5, <2>1, <2>2
  <1> QED BY <1>3, <1>4, <1>6, PostMoves

\* The hourly counts of the store.
LEMMA IncrementKeeps ==
  ASSUME TelemetryAssumption, TelemetryIInv, NEW i \in 1..Len(posts), Increment(i)
  PROVE  TelemetryIInv'
  <1>1. PICK st \in {"stored", "unsure", "refused"} : posts' = [posts EXCEPT ![i].st = st]
    BY DEF Increment
  <1>2. posts[i].st = "admitted" /\ UNCHANGED <<rep, seen, refused, told, attempts, accepted>>
    BY DEF Increment
  <1>3. AttemptsOK(attempts', accepted')
    BY <1>2 DEF TelemetryIInv
  <1> QED BY <1>1, <1>2, <1>3, PostMoves

\* Another device reports.
LEMMA OtherReportsKeeps ==
  ASSUME TelemetryAssumption, TelemetryIInv, NEW d \in OtherDevices, OtherReports(d)
  PROVE  TelemetryIInv'
  <1>1. AttemptsOK(attempts, accepted) /\ d \in Reporters /\ d # Me
    BY DEF TelemetryIInv, Reporters, TelemetryAssumption
  <1>2. Swept(attempts) = attempts
    BY <1>1, SweepNeverRuns
  <1>3. attempts' = IF Passes(attempts, d) THEN Entry(attempts, d) ELSE attempts
    BY <1>2 DEF OtherReports
  <1>4. UNCHANGED <<rep, posts, seen, refused, told, accepted>>
    BY DEF OtherReports
  <1>5. AttemptsOK(attempts', accepted)
    BY <1>1, <1>3, EntryIs
  <1> QED BY <1>4, <1>5 DEF TelemetryIInv

\* A window of an hour ends.
LEMMA HourEndsKeeps ==
  ASSUME TelemetryIInv, NEW d \in Reporters, HourEnds(d)
  PROVE  TelemetryIInv'
  <1>1. /\ AttemptsOK(attempts, accepted) /\ d \in DOMAIN attempts /\ attempts' = [attempts EXCEPT ![d].over = TRUE]
        /\ UNCHANGED <<rep, posts, seen, refused, told, accepted>>
    BY DEF HourEnds, TelemetryIInv
  <1>2. /\ DOMAIN attempts' = DOMAIN attempts /\ attempts' \in [DOMAIN attempts -> Entries] /\ attempts'[d].over
        /\ \A x \in DOMAIN attempts : x # d => attempts'[x] = attempts[x]
    BY <1>1 DEF AttemptsOK, Entries
  <1>3. AttemptsOK(attempts', accepted)
    BY <1>1, <1>2 DEF AttemptsOK
  <1> QED BY <1>1, <1>3 DEF TelemetryIInv

\* Every step keeps the invariant.
LEMMA TelemetryStep ==
  ASSUME TelemetryAssumption, TelemetryIInv, [TelemetryNext]_telemetryVars
  PROVE  TelemetryIInv'
  <1>1. CASE UNCHANGED telemetryVars
    BY <1>1 DEF telemetryVars, TelemetryIInv
  <1>2. CASE EventsAge
    BY <1>2 DEF EventsAge, TelemetryIInv
  <1> QED BY <1>1, <1>2, RecordKeeps, TimerStopKeeps, AnsweredKeeps, AdmitKeeps, IncrementKeeps, OtherReportsKeeps,
             HourEndsKeeps DEF TelemetryNext

\* What the invariant gives: these parts of TelemetryInv.
LEMMA TelemetryIsSafe ==
  TelemetryIInv => TelemetryTypeOK /\ NothingStranded /\ EveryLossIsTold /\ RateHolds
  <1> SUFFICES ASSUME TelemetryIInv PROVE TelemetryTypeOK /\ NothingStranded /\ EveryLossIsTold /\ RateHolds
    OBVIOUS
  <1>1. rep \in [queue : Seq(1..MaxRecords), timer : BOOLEAN, sending : 0..Len(posts), stopped : BOOLEAN]
    BY DEF TelemetryIInv, ReporterOK, ReporterSet
  <1>2. \A i \in 1..Len(posts) : posts[i].st \in {"sent", "admitted", "stored", "unsure", "refused"}
    <2>1. posts \in Seq(PostSet)
      BY DEF TelemetryIInv
    <2>2. \A i \in 1..Len(posts) : posts[i] \in PostSet
      BY <2>1
    <2> QED BY <2>2 DEF PostSet
  <1>3. TelemetryTypeOK /\ RateHolds
    BY <1>1, <1>2 DEF TelemetryIInv, AttemptsOK, TelemetryTypeOK, RateHolds
  <1> QED BY <1>3 DEF TelemetryIInv, ReporterOK, NothingStranded, EveryLossIsTold

\* client-telemetry.ts, server.ts: for any queue, rate, number of devices and of events,
\* and any failures, no event is stranded while the reporter runs, every batch that was
\* not surely counted is reported as dropped, and the server's rate and its map keep to
\* their bounds.
THEOREM LossesAreTold ==
  ASSUME TelemetryAssumption
  PROVE  TelemetrySpec => [](TelemetryTypeOK /\ NothingStranded /\ EveryLossIsTold /\ RateHolds)
  BY TelemetryInitKeeps, TelemetryStep, TelemetryIsSafe, PTL DEF TelemetrySpec

-----------------------------------------------------------------------------
(***************************************************************************)
(* Cleaning.  An installer that is waited for is never a candidate, so it  *)
(* stays; and a directory goes only when nothing is left in it, judged by  *)
(* the entries after the cleaning.                                         *)
(***************************************************************************)
\* The inductive invariant.
StorageIInv ==
  /\ items \in [Names -> [there : BOOLEAN, age : 0..2, link : BOOLEAN]]
  /\ wanted \in DlVersions \cup {0}
  /\ PendingInstallerKept

\* A version has two names.
LEMMA VersionNames ==
  ASSUME NEW v \in DlVersions
  PROVE  /\ [kind |-> "partial", ver |-> v] \in Names /\ [kind |-> "installer", ver |-> v] \in Names
         /\ \A n \in Names : n.ver # 0 => n.ver \in DlVersions
  BY DEF Names

\* What stays and what goes in a cleaning that removes <gone>, or fails to.
LEMMA StartClientKeeps ==
  ASSUME StorageIInv, StartClient
  PROVE  StorageIInv'
  <1>1. PICK gone \in SUBSET Candidates :
             LET it == [n \in Names |-> IF n \in gone THEN NoEntry ELSE items[n]]
             IN  items' = it /\ dirs' \in {dirs, dirs \ EmptyDirs(it)}
    BY DEF StartClient
  <1> DEFINE it == [n \in Names |-> IF n \in gone THEN NoEntry ELSE items[n]]
  <1>2. items' = it /\ dirs' \in {dirs, dirs \ EmptyDirs(it)} /\ wanted' = wanted
    BY <1>1 DEF StartClient
  <1>3. it \in [Names -> [there : BOOLEAN, age : 0..2, link : BOOLEAN]]
    BY DEF StorageIInv, NoEntry
  <1>4. \A n \in Names : it[n].there => items[n].there
    BY DEF NoEntry
  <1>5. \A n \in Names : IsProtected(n) => it[n] = items[n]
    BY DEF Candidates
  <1> HIDE DEF it
  <1>6. ASSUME wanted # 0 PROVE it[[kind |-> "installer", ver |-> wanted]].there
    <2>1. wanted \in DlVersions
      BY <1>6 DEF StorageIInv
    <2> QED BY <1>5, <1>6, <2>1, VersionNames DEF IsProtected, StorageIInv, PendingInstallerKept
  <1>7. ASSUME NEW n \in Names, it[n].there, n.ver # 0 PROVE n.ver \in dirs'
    <2>1. n.ver \in dirs
      BY <1>4, <1>7 DEF StorageIInv, PendingInstallerKept
    <2>2. n.ver \notin EmptyDirs(it)
      BY <1>7 DEF EmptyDirs
    <2> QED BY <1>2, <2>1, <2>2
  <1> QED BY <1>2, <1>3, <1>6, <1>7 DEF StorageIInv, PendingInstallerKept

\* Downloads begin in their directory and end as an installer.
LEMMA DownloadKeeps ==
  ASSUME StorageIInv, NEW v \in DlVersions, BeginDownload(v) \/ FinishDownload(v) \/ StageUpdate(v)
  PROVE  StorageIInv'
  <1> DEFINE p == [kind |-> "partial", ver |-> v]
             q == [kind |-> "installer", ver |-> v]
  <1>1. p \in Names /\ q \in Names /\ p.ver = v /\ q.ver = v /\ \A u : [kind |-> "installer", ver |-> u] # p
    BY VersionNames
  <1>2. CASE BeginDownload(v)
    <2>1. items' = [items EXCEPT ![p] = Fresh] /\ dirs' = dirs \cup {v} /\ wanted' = wanted
      BY <1>2 DEF BeginDownload, Put
    <2> HIDE DEF p
    <2> QED BY <1>1, <2>1 DEF StorageIInv, PendingInstallerKept, Fresh
  <1>3. CASE FinishDownload(v)
    <2>1. /\ items' = [items EXCEPT ![p] = NoEntry, ![q] = Fresh] /\ items[p].there
          /\ dirs' = dirs /\ wanted' = wanted
      BY <1>3 DEF FinishDownload
    <2>2. v # 0 => v \in dirs
      BY <1>1, <2>1 DEF StorageIInv, PendingInstallerKept
    <2> HIDE DEF p, q
    <2>3. items' \in [Names -> [there : BOOLEAN, age : 0..2, link : BOOLEAN]]
      <3> DEFINE E == [there : BOOLEAN, age : 0..2, link : BOOLEAN]
      <3>1. NoEntry \in E /\ Fresh \in E
        BY DEF NoEntry, Fresh
      <3>2. items \in [Names -> E]
        BY DEF StorageIInv
      <3> HIDE DEF E
      <3>3. items' \in [Names -> E]
        BY <1>1, <2>1, <3>1, <3>2
      <3> QED BY <3>3 DEF E
    <2>4. \A n \in Names : n # p /\ items[n].there => items'[n].there
      BY <1>1, <2>1 DEF StorageIInv, Fresh, NoEntry
    <2>5. \A n \in Names : items'[n].there /\ n # q => items[n].there
      BY <1>1, <2>1 DEF StorageIInv, Fresh, NoEntry
    <2>6. wanted # 0 => items'[[kind |-> "installer", ver |-> wanted]].there
      BY <1>1, <2>4, VersionNames DEF StorageIInv, PendingInstallerKept
    <2>7. \A n \in Names : items'[n].there /\ n.ver # 0 => n.ver \in dirs
      BY <1>1, <2>2, <2>5 DEF StorageIInv, PendingInstallerKept
    <2> QED BY <2>1, <2>3, <2>6, <2>7 DEF StorageIInv, PendingInstallerKept
  <1>4. CASE StageUpdate(v)
    BY <1>4 DEF StageUpdate, StorageIInv, PendingInstallerKept
  <1> QED BY <1>2, <1>3, <1>4

\* A temporary file, and the clock, take nothing away.
LEMMA AgeingKeeps ==
  ASSUME StorageIInv, LeftOver \/ TimePasses
  PROVE  StorageIInv'
  <1>1. UNCHANGED <<dirs, wanted>>
    BY DEF LeftOver, TimePasses
  <1>2. CASE LeftOver
    <2> DEFINE t == [kind |-> "temp", ver |-> 0]
    <2>1. PICK l \in BOOLEAN : items' = [items EXCEPT ![t] = [Fresh EXCEPT !.link = l]]
      BY <1>2 DEF LeftOver
    <2>2. t \in Names /\ t.ver = 0 /\ \A u : [kind |-> "installer", ver |-> u] # t
      BY DEF Names
    <2> DEFINE f == [Fresh EXCEPT !.link = l]
    <2>3. f \in [there : BOOLEAN, age : 0..2, link : BOOLEAN]
      <3>1. Fresh \in [there : BOOLEAN, age : 0..2, link : BOOLEAN]
        BY DEF Fresh
      <3>2. l \in BOOLEAN
        BY <2>1
      <3> QED BY <3>1, <3>2
    <2> HIDE DEF t, f
    <2>4. /\ items' \in [Names -> [there : BOOLEAN, age : 0..2, link : BOOLEAN]]
          /\ \A n \in Names : n # t => items'[n] = items[n]
      BY <2>1, <2>2, <2>3 DEF StorageIInv, f
    <2>5. wanted # 0 => [kind |-> "installer", ver |-> wanted] \in Names
      BY VersionNames DEF StorageIInv
    <2> QED BY <1>1, <2>2, <2>4, <2>5 DEF StorageIInv, PendingInstallerKept
  <1>3. CASE TimePasses
    <2>1. items' \in [Names -> [there : BOOLEAN, age : 0..2, link : BOOLEAN]]
      BY <1>3 DEF TimePasses, StorageIInv
    <2>2. \A n \in Names : items'[n].there = items[n].there
      BY <1>3 DEF TimePasses, StorageIInv
    <2>3. wanted # 0 => [kind |-> "installer", ver |-> wanted] \in Names
      BY VersionNames DEF StorageIInv
    <2> QED BY <1>1, <2>1, <2>2, <2>3 DEF StorageIInv, PendingInstallerKept
  <1> QED BY <1>2, <1>3

\* Every step keeps the invariant.
LEMMA StorageStep ==
  ASSUME StorageIInv, [StorageNext]_storageVars
  PROVE  StorageIInv'
  <1>1. CASE UNCHANGED <<items, dirs, wanted>>
    BY <1>1 DEF StorageIInv, PendingInstallerKept
  <1>2. CASE SettleUpdate
    BY <1>2 DEF SettleUpdate, StorageIInv, PendingInstallerKept
  <1>3. EndClient \/ (\E s \in LineSizes : WriteLine(s) \/ RotationStops(s)) \/ UNCHANGED storageVars
          => UNCHANGED <<items, dirs, wanted>>
    BY DEF EndClient, WriteLine, RotationStops, storageVars
  <1> QED BY <1>1, <1>2, <1>3, StartClientKeeps, DownloadKeeps, AgeingKeeps DEF StorageNext

\* storage-maintenance.ts, client-update-coordinator.ts: for any versions, limits and
\* failures, and however old the file is, a cleaning removes neither the installer of a
\* pending update nor the directory of anything that is left.
THEOREM PendingInstallerStays == StorageSpec => []PendingInstallerKept
  <1>1. StorageInit => StorageIInv
    BY DEF StorageInit, StorageIInv, PendingInstallerKept, Names, NoEntry, Fresh
  <1>2. StorageIInv => PendingInstallerKept
    BY DEF StorageIInv
  <1> QED BY <1>1, <1>2, StorageStep, PTL DEF StorageSpec

================================================================================
