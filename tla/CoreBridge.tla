------------------------------ MODULE CoreBridge ------------------------------
(***************************************************************************)
(* The way of a tool call from the Gateway to a Skill: the desktop's       *)
(* ToolBridgeHost, the Core process with its policy, its entitlement check *)
(* and its one-time confirmations, the confirmation window, and the        *)
(* waiters the desktop keeps for it.  A bounded workflow is one more       *)
(* source of calls.                                                        *)
(*                                                                         *)
(* A confirmation's binding (agent, profile, Skill, session, tool call,    *)
(* permissions, payload and display) is abstracted to the tool call id.    *)
(***************************************************************************)
EXTENDS Naturals, FiniteSets, Sequences

CONSTANTS
  Calls,            \* requests at the bridge; two may carry one tool call id
  BridgeToolCalls,  \* tool call ids
  ConfirmIds,       \* bound: confirmations that are ever made
  Pushes,           \* bound: policies that are ever pushed
  WorkflowSteps     \* the limit of executed steps of a workflow (20 in the code)

ASSUME BridgeAssumption ==
  ConfirmIds \in Nat /\ Pushes \in Nat /\ WorkflowSteps \in Nat

VARIABLES
  parser,    \* TRUE: policies pass core-process's parser; FALSE: the runtime is
             \* used directly, as its own package does.  It never changes.
  grants,    \* CoreRuntime.bridgePolicy: the Skills one agent may call
  epoch,     \* history: how often the policy was replaced
  refusals,  \* history: policies of the desktop that Core refused
  call,      \* each request of the bridge host
  conf,      \* CoreRuntime.confirmations by binding
  made,      \* confirmations made so far
  events,    \* event.confirm.request messages not yet shown
  window,    \* the one confirmation window
  waiter,    \* confirmationWaiters: tool call id -> is one registered
  approved,  \* history: tool call id -> approvals given, and in which epoch
  ran,       \* history: tool call id -> executions of a write
  wf         \* a workflow's run

coreVars == <<parser, grants, epoch, refusals, call, conf, made, events, window, waiter,
              approved, ran, wf>>

\* A read needs no confirmation; a write has one declared with its grant.
Skills == {"read", "write"}

NoConf == [st |-> "none"]
CallIdle == [st |-> "idle"]

(***************************************************************************)
(* Policies.                                                               *)
(***************************************************************************)
\* constrainBridgePolicy: what the packs grant, without the grants that need a
\* confirmation unless the feature policy allows them online.
Constrained(packs, online) == {s \in packs : s = "write" => online}

\* parseBridgePolicy knows the ten fields of a grant; "confirmation" is not one.
PolicyParses(p) == parser => "write" \notin p

\* Variant: the confirmations of the old policy stay.
ReplaceKeeping(p) ==
  /\ epoch < Pushes
  /\ epoch' = epoch + 1
  /\ grants' = p
  /\ UNCHANGED <<parser, refusals, call, conf, made, events, window, waiter, approved, ran, wf>>

\* bridge.policy.replace: a new policy is a new epoch, every confirmation dies.
Replace(p) ==
  /\ epoch < Pushes
  /\ epoch' = epoch + 1
  /\ IF PolicyParses(p)
       THEN grants' = p /\ conf' = [t \in BridgeToolCalls |-> NoConf] /\ UNCHANGED refusals
       ELSE refusals' = refusals + 1 /\ UNCHANGED <<grants, conf>>
  /\ UNCHANGED <<parser, call, made, events, window, waiter, approved, ran, wf>>

(***************************************************************************)
(* executeBridgeSkill.                                                     *)
(***************************************************************************)
\* Up to the entitlement check: the grant is looked up now and used afterwards.
Lookup(k, s, t, n, w) ==
  call' = [call EXCEPT ![k] =
             IF s \in grants
               THEN [st |-> "verify", skill |-> s, tool |-> t, try |-> n, wf |-> w]
               ELSE [st |-> "end", ok |-> FALSE, wf |-> w]]

AskBridge(k, s, t) ==
  /\ call[k] = CallIdle
  /\ Lookup(k, s, t, 1, FALSE)
  /\ UNCHANGED <<parser, grants, epoch, refusals, conf, made, events, window, waiter,
                 approved, ran, wf>>

\* Only a workflow looks at the result of its call.
CallResult(c, ok) == [st |-> "end", ok |-> c.wf /\ ok, wf |-> c.wf]

Ended(k, ok) == [call EXCEPT ![k] = CallResult(call[k], ok)]

\* The online check fails, or the entitlement is not active.
Unentitled(k) ==
  /\ call[k].st = "verify"
  /\ call' = Ended(k, FALSE)
  /\ UNCHANGED <<parser, grants, epoch, refusals, conf, made, events, window, waiter,
                 approved, ran, wf>>

Live(t) == conf[t].st \in {"pending", "approved", "denied"} /\ ~conf[t].expired

\* pruneConfirmations.
Pruned == [t \in BridgeToolCalls |-> IF Live(t) THEN conf[t] ELSE NoConf]

\* Entitled, and nothing to confirm: on to the worker.
RunRead(k) ==
  /\ call[k].st = "verify" /\ call[k].skill = "read"
  /\ call' = [call EXCEPT ![k].st = "exec"]
  /\ UNCHANGED <<parser, grants, epoch, refusals, conf, made, events, window, waiter,
                 approved, ran, wf>>

\* settleConfirmationWaiter: everyone who awaits the promise goes on.
Settled(cs, t, ok) ==
  [k \in Calls |->
     IF cs[k].st = "wait" /\ cs[k].tool = t
       THEN IF ok THEN [cs[k] EXCEPT !.st = "again", !.try = 2]
                  ELSE CallResult(cs[k], FALSE)
       ELSE cs[k]]

\* No confirmation of this binding: make one, tell the desktop, which registers a
\* waiter (and settles an older one), and answer CONFIRMATION_REQUIRED.  The host
\* waits once; its second attempt ends with the error.
MakeConfirmation(k) ==
  /\ call[k].st = "verify" /\ call[k].skill = "write"
  /\ ~Live(call[k].tool)
  /\ made < ConfirmIds
  /\ LET t == call[k].tool
         cs == IF waiter[t] THEN Settled(call, t, FALSE) ELSE call
     IN /\ made' = made + 1
        /\ conf' = [Pruned EXCEPT ![t] =
                      [st |-> "pending", id |-> made + 1, expired |-> FALSE]]
        /\ events' = events \cup {[id |-> made + 1, tool |-> t]}
        /\ waiter' = [waiter EXCEPT ![t] = TRUE]
        /\ call' = [cs EXCEPT ![k] =
                      IF cs[k].try = 1
                        THEN [cs[k] EXCEPT !.st = "wait"]
                        ELSE CallResult(cs[k], FALSE)]
  /\ UNCHANGED <<parser, grants, epoch, refusals, window, approved, ran, wf>>

\* A confirmation that is still open, or was denied.
AwaitConfirmation(k) ==
  /\ call[k].st = "verify" /\ call[k].skill = "write"
  /\ Live(call[k].tool) /\ conf[call[k].tool].st # "approved"
  /\ call' = IF /\ conf[call[k].tool].st = "pending"
                /\ call[k].try = 1 /\ waiter[call[k].tool]
               THEN [call EXCEPT ![k].st = "wait"]
               ELSE Ended(k, FALSE)
  /\ conf' = Pruned
  /\ UNCHANGED <<parser, grants, epoch, refusals, made, events, window, waiter, approved,
                 ran, wf>>

\* An approval is consumed in the step that starts the execution.
RunWrite(k) ==
  /\ call[k].st = "verify" /\ call[k].skill = "write"
  /\ Live(call[k].tool) /\ conf[call[k].tool].st = "approved"
  /\ conf' = [Pruned EXCEPT ![call[k].tool] = NoConf]
  /\ ran' = [ran EXCEPT ![call[k].tool] = @ + 1]
  /\ call' = [call EXCEPT ![k].st = "exec"]
  /\ UNCHANGED <<parser, grants, epoch, refusals, made, events, window, waiter, approved, wf>>

\* The bridge host's second attempt, after the waiter was settled with TRUE.
Again(k) ==
  /\ call[k].st = "again"
  /\ Lookup(k, call[k].skill, call[k].tool, 2, call[k].wf)
  /\ UNCHANGED <<parser, grants, epoch, refusals, conf, made, events, window, waiter,
                 approved, ran, wf>>

\* The worker answers, fails, or outlives the budget's duration.
Executed(k, ok) ==
  /\ call[k].st = "exec"
  /\ call' = Ended(k, ok)
  /\ UNCHANGED <<parser, grants, epoch, refusals, conf, made, events, window, waiter,
                 approved, ran, wf>>

(***************************************************************************)
(* The user's side: one window at a time.                                  *)
(***************************************************************************)
\* respondBridgeConfirmation accepts one answer to a confirmation that is pending.
Answerable(id, t) == conf[t].st = "pending" /\ conf[t].id = id /\ ~conf[t].expired

\* Core's part of confirm.respond, then the desktop settles the waiter; an answer
\* Core refuses settles it with FALSE.
Respond(id, t, ok) ==
  LET good == Answerable(id, t)
  IN /\ conf' = IF good
                  THEN [conf EXCEPT ![t].st = IF ok THEN "approved" ELSE "denied"]
                  ELSE conf
     /\ approved' = IF good /\ ok
                      THEN [approved EXCEPT ![t] = [n |-> @.n + 1, epoch |-> epoch]]
                      ELSE approved
     /\ call' = IF waiter[t] THEN Settled(call, t, good /\ ok) ELSE call
     /\ waiter' = [waiter EXCEPT ![t] = FALSE]

\* openConfirmation: shown, or denied at once when another one is open.
Show(e) ==
  /\ events' = events \ {e}
  /\ IF window = NoConf /\ ~(conf[e.tool] # NoConf /\ conf[e.tool].id = e.id /\ conf[e.tool].expired)
       THEN /\ window' = [st |-> "open", id |-> e.id, tool |-> e.tool]
            /\ UNCHANGED <<conf, approved, call, waiter>>
       ELSE /\ Respond(e.id, e.tool, FALSE)
            /\ UNCHANGED window
  /\ UNCHANGED <<parser, grants, epoch, refusals, made, ran, wf>>

\* Approve, deny, close, or the window's own expiry timer (which denies).
Click(ok) ==
  /\ window # NoConf
  /\ Respond(window.id, window.tool, ok)
  /\ window' = NoConf
  /\ UNCHANGED <<parser, grants, epoch, refusals, made, events, ran, wf>>

\* Five minutes pass.
Expire(t) ==
  /\ conf[t] # NoConf /\ ~conf[t].expired
  /\ conf' = [conf EXCEPT ![t].expired = TRUE]
  /\ UNCHANGED <<parser, grants, epoch, refusals, call, made, events, window, waiter,
                 approved, ran, wf>>

\* The waiter's own timer, at the same moment as the confirmation's expiry.
WaiterExpires(t) ==
  /\ waiter[t] /\ (conf[t] # NoConf => conf[t].expired)
  /\ waiter' = [waiter EXCEPT ![t] = FALSE]
  /\ call' = Settled(call, t, FALSE)
  /\ UNCHANGED <<parser, grants, epoch, refusals, conf, made, events, window, approved,
                 ran, wf>>

(***************************************************************************)
(* BoundedWorkflowEngine: branches and loops are unrolled to the steps     *)
(* that run.                                                               *)
(***************************************************************************)
\* runWorkflow takes its own copy of the grants when it starts.
WorkflowStarts ==
  /\ wf.st = "idle"
  /\ wf' = [st |-> "step", grants |-> grants, steps |-> 0, denied |-> FALSE]
  /\ UNCHANGED <<parser, grants, epoch, refusals, call, conf, made, events, window, waiter,
                 approved, ran>>

\* check() before every step, then a confirmation step of its own.
WorkflowConfirms(ok) ==
  /\ wf.st = "step" /\ wf.steps < WorkflowSteps
  /\ wf' = [wf EXCEPT !.steps = @ + 1, !.st = IF ok THEN "step" ELSE "failed",
                      !.denied = ~ok]
  /\ UNCHANGED <<parser, grants, epoch, refusals, call, conf, made, events, window, waiter,
                 approved, ran>>

\* A Skill step: described from the copy; a write is forbidden, a read goes
\* through the bridge like any other call.
WorkflowCalls(k, s, t) ==
  /\ wf.st = "step" /\ wf.steps < WorkflowSteps
  /\ call[k] = CallIdle
  /\ IF s \in wf.grants /\ s # "write"
       THEN /\ wf' = [wf EXCEPT !.steps = @ + 1, !.st = "called"]
            /\ Lookup(k, s, t, 1, TRUE)
       ELSE /\ wf' = [wf EXCEPT !.steps = @ + 1, !.st = "failed"]
            /\ UNCHANGED call
  /\ UNCHANGED <<parser, grants, epoch, refusals, conf, made, events, window, waiter,
                 approved, ran>>

\* The step's result is added, or its error ends the run.
WorkflowReturns(k) ==
  /\ wf.st = "called" /\ call[k].st = "end" /\ call[k].wf
  /\ wf' = [wf EXCEPT !.st = IF call[k].ok THEN "step" ELSE "failed"]
  /\ call' = [call EXCEPT ![k] = CallIdle]
  /\ UNCHANGED <<parser, grants, epoch, refusals, conf, made, events, window, waiter,
                 approved, ran>>

\* The steps are done, or check() finds the limit, the time or a cancellation.
WorkflowEnds ==
  /\ wf.st = "step"
  /\ wf' = [wf EXCEPT !.st = "done"]
  /\ UNCHANGED <<parser, grants, epoch, refusals, call, conf, made, events, window, waiter,
                 approved, ran>>

CoreInit ==
  /\ parser \in BOOLEAN /\ grants \in SUBSET Skills /\ PolicyParses(grants)
  /\ epoch = 0 /\ refusals = 0
  /\ call = [k \in Calls |-> CallIdle]
  /\ conf = [t \in BridgeToolCalls |-> NoConf] /\ made = 0
  /\ events = {} /\ window = NoConf
  /\ waiter = [t \in BridgeToolCalls |-> FALSE]
  /\ approved = [t \in BridgeToolCalls |-> [n |-> 0, epoch |-> 0]]
  /\ ran = [t \in BridgeToolCalls |-> 0]
  /\ wf = [st |-> "idle"]

CallSteps(k) ==
  \/ Unentitled(k) \/ RunRead(k) \/ MakeConfirmation(k) \/ AwaitConfirmation(k)
  \/ RunWrite(k) \/ Again(k)
  \/ \E ok \in BOOLEAN : Executed(k, ok)

CoreNext ==
  \/ \E packs \in SUBSET Skills, online \in BOOLEAN : Replace(Constrained(packs, online))
  \/ \E k \in Calls, s \in Skills, t \in BridgeToolCalls : AskBridge(k, s, t)
  \/ \E k \in Calls : CallSteps(k)
  \/ \E e \in events : Show(e)
  \/ \E ok \in BOOLEAN : Click(ok)
  \/ \E t \in BridgeToolCalls : Expire(t)
  \/ \E t \in BridgeToolCalls : WaiterExpires(t)
  \/ WorkflowStarts
  \/ \E ok \in BOOLEAN : WorkflowConfirms(ok)
  \/ \E k \in Calls, s \in Skills, t \in BridgeToolCalls : WorkflowCalls(k, s, t)
  \/ \E k \in Calls : WorkflowReturns(k)
  \/ WorkflowEnds

CoreSpec == CoreInit /\ [][CoreNext]_coreVars

(***************************************************************************)
(* Properties.                                                             *)
(***************************************************************************)
CoreTypeOK ==
  /\ parser \in BOOLEAN /\ grants \subseteq Skills
  /\ made \in 0..ConfirmIds
  /\ \A t \in BridgeToolCalls : conf[t].st \in {"none", "pending", "approved", "denied"}
  /\ \A k \in Calls : call[k].st \in {"idle", "verify", "wait", "again", "exec", "end"}

\* One approval of the user pays for at most one execution of a write, however
\* many calls share the tool call id and whatever is pushed in between.
ApprovedOnce == \A t \in BridgeToolCalls : ran[t] <= approved[t].n

\* An approval waiting to be consumed was given under the policy in force: none
\* survives a change of the policy.
ApprovedNow ==
  \A t \in BridgeToolCalls : conf[t].st = "approved" => approved[t].epoch = epoch - refusals

\* A call waits only while something will wake it: its waiter is registered.
WaitersLive ==
  \A k \in Calls : call[k].st = "wait" => waiter[call[k].tool]

\* A workflow stays within its steps and runs nothing after a denied confirmation.
WorkflowBounded ==
  wf.st # "idle" => /\ wf.steps <= WorkflowSteps
                    /\ wf.denied => wf.st = "failed"

\* Writes of the tool bridge run once per approval and only under the policy the
\* user approved them in, and no call is left waiting for nobody
\* (CoreRuntime.executeBridgeSkill, main.ts's confirmation waiters).
CoreInv ==
  /\ CoreTypeOK
  /\ ApprovedOnce
  /\ ApprovedNow
  /\ WaitersLive
  /\ WorkflowBounded
===============================================================================
