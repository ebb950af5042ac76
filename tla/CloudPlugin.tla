----------------------------- MODULE CloudPlugin -----------------------------
(***************************************************************************)
(* The OpenClaw plugin's longhub_cloud_skill tool (tool-factory.ts,        *)
(* protocol.ts, client.ts) against POST /v1/tasks, its status and cancel   *)
(* routes.  OpenClaw may run a tool call again, in the same session or,    *)
(* with the same tool call id, in another one; answers get lost, the call  *)
(* times out or is aborted at any point, and the device may be revoked.    *)
(* The command (CloudCli) has paired the device before; the two share no   *)
(* state.                                                                  *)
(***************************************************************************)
EXTENDS CloudCli, FiniteSets

CONSTANTS Callers,      \* concurrent execute calls
          ToolSessions, \* session ids
          ToolCalls,    \* tool call ids
          ToolInputs,   \* business inputs
          PlCalls,      \* bound on tool calls
          PlFaults      \* bound on lost answers

ASSUME PluginAssumption == PlCalls \in Nat /\ PlFaults \in Nat

VARIABLES task,      \* the Cloud's tasks by idempotency key
          tool,      \* per caller: the progress of its tool call
          answers,   \* results given back: the call and the run that computed it
          paired,    \* the vault holds a credential the Cloud accepts
          plcalls, plfaults

pluginVars == <<task, tool, answers, paired, plcalls, plfaults>>

ToolRequests == [s : ToolSessions, t : ToolCalls, i : ToolInputs]
NoReq    == [s |-> "none", t |-> "none", i |-> "none"]
NoTask   == [st |-> "none", req |-> NoReq, runs |-> 0]
NoCall   == [at |-> "idle", req |-> NoReq, known |-> FALSE]

\* Variant: the session id takes no part in the identity.
IdentityBySession(r) == r.t
\* executionIdentity: derived from session and tool call; the input is not part of it.
Identity(r) == <<r.s, r.t>>
\* toCloudSkillRequest: the session id is not sent; the Cloud compares what is.
Wire(r) == <<r.t, r.i>>
Keys == {Identity(r) : r \in ToolRequests}

PlInit ==
    /\ task = [k \in Keys |-> NoTask] /\ tool = [c \in Callers |-> NoCall]
    /\ answers = {} /\ paired = TRUE /\ plcalls = 0 /\ plfaults = 0

End(c)   == tool' = [tool EXCEPT ![c] = NoCall]
LoseIt   == plfaults < PlFaults /\ plfaults' = plfaults + 1
Terminal == {"succeeded", "failed", "cancelled"}
KeyOf(c) == Identity(tool[c].req)

\* execute of the tool: validated parameters and context become one request.
Execute(c, r) ==
    /\ tool[c] = NoCall /\ plcalls < PlCalls /\ plcalls' = plcalls + 1 /\ paired
    /\ tool' = [tool EXCEPT ![c] = [at |-> "create", req |-> r, known |-> FALSE]]
    /\ UNCHANGED <<task, answers, paired, plfaults>>

\* POST /v1/tasks at the Cloud: a known key is replayed for the same request, else 409.
CreateTask(c) ==
    LET k == KeyOf(c) IN
    /\ tool[c].at = "create"
    /\ IF ~paired \/ (task[k] # NoTask /\ Wire(task[k].req) # Wire(tool[c].req))
       THEN End(c) /\ UNCHANGED task
       ELSE /\ tool' = [tool EXCEPT ![c].at = "created"]
            /\ task' = IF task[k] = NoTask THEN [task EXCEPT ![k] = [st |-> "pending", req |-> tool[c].req, runs |-> 0]] ELSE task
    /\ UNCHANGED <<answers, paired, plcalls, plfaults>>

\* The answer arrives, or the call ends without knowing the task.
Created(c) ==
    /\ tool[c].at = "created"
    /\ \/ tool' = [tool EXCEPT ![c].at = "poll", ![c].known = TRUE] /\ UNCHANGED plfaults
       \/ LoseIt /\ End(c)
    /\ UNCHANGED <<task, answers, paired, plcalls>>

\* GET /v1/tasks/{id}: a terminal task ends the call, so do a lost answer and a 401.
Poll(c) ==
    LET t == task[KeyOf(c)] IN
    /\ tool[c].at = "poll"
    /\ \/ /\ paired /\ t.st \in Terminal /\ End(c) /\ UNCHANGED plfaults
          /\ answers' = IF t.st = "succeeded" THEN answers \cup {[to |-> tool[c].req, from |-> t.req]} ELSE answers
       \/ LoseIt /\ End(c) /\ UNCHANGED answers
       \/ ~paired /\ End(c) /\ UNCHANGED <<answers, plfaults>>
    /\ UNCHANGED <<task, paired, plcalls>>

\* The timeout or the caller's signal: a known task is asked to be cancelled, once.
AbortCall(c) ==
    /\ tool[c].at \in {"create", "created", "poll"} /\ End(c)
    /\ LET k == KeyOf(c) IN
       \/ /\ tool[c].known /\ paired /\ task[k].st \in {"pending", "running"}
          /\ task' = [task EXCEPT ![k].st = "cancelled"] /\ UNCHANGED plfaults
       \/ ~(tool[c].known /\ paired /\ task[k].st \in {"pending", "running"}) /\ UNCHANGED <<task, plfaults>>
       \/ tool[c].known /\ LoseIt /\ UNCHANGED task
    /\ UNCHANGED <<answers, paired, plcalls>>

\* The Cloud runs its tasks (CloudTask) and forgets devices.
RunTask(k) ==
    /\ \/ task[k].st = "pending" /\ task' = [task EXCEPT ![k].st = "running", ![k].runs = @ + 1]
       \/ task[k].st = "running" /\ \E st \in {"succeeded", "failed"} : task' = [task EXCEPT ![k].st = st]
    /\ UNCHANGED <<tool, answers, paired, plcalls, plfaults>>
Unpair == paired /\ paired' = FALSE /\ UNCHANGED <<task, tool, answers, plcalls, plfaults>>

PlNext ==
    \/ \E c \in Callers :
          \/ \E r \in ToolRequests : Execute(c, r)
          \/ CreateTask(c) \/ Created(c) \/ Poll(c) \/ AbortCall(c)
    \/ \E k \in Keys : RunTask(k)
    \/ Unpair

PlSpec == PlInit /\ [][PlNext]_pluginVars

-----------------------------------------------------------------------------
\* Types of what the properties below are about.
PlTypeOK ==
    /\ DOMAIN task = Keys /\ \A k \in Keys : task[k].st \in {"none", "pending", "running"} \cup Terminal
    /\ \A c \in Callers : tool[c].at \in {"idle", "create", "created", "poll"}
    /\ answers \subseteq [to : ToolRequests, from : ToolRequests] /\ paired \in BOOLEAN
    /\ plcalls \in 0 .. PlCalls /\ plfaults \in 0 .. PlFaults

\* However a tool call is repeated, lost, aborted or overtaken by a new session, it runs in the
\* Cloud at most once, and a result that is given back was computed for that session, that tool
\* call and that input.
PluginInv ==
    /\ PlTypeOK
    /\ \A a \in answers : a.to = a.from
    /\ \A s \in ToolSessions, t \in ToolCalls :
          Cardinality({k \in Keys : task[k].runs > 0 /\ task[k].req.s = s /\ task[k].req.t = t}) <= 1
    /\ \A k \in Keys : task[k].runs <= 1

\* What the command and the plugin tell the user is true (cli.ts, protocol.ts).
CloudClientInv == CliInv /\ PluginInv
=============================================================================
