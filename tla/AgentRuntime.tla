---------------------------- MODULE AgentRuntime ----------------------------
(***************************************************************************)
(* The agent service of apps/agent: AgentRuntime.run and handleToolCall    *)
(* over a provider, a ToolRegistry, a PermissionPolicy and the in-memory   *)
(* AuditLog.  POST /agent/jobs calls run once for each request, all on one *)
(* AgentRuntime, so jobs share the audit log and the counter of run ids.   *)
(*                                                                         *)
(* JavaScript runs one job at a time between two awaits: an action is the  *)
(* code from one await to the next, and the actions of different jobs      *)
(* interleave.  pc names what the job awaits:                              *)
(*   idle      the job is not submitted                                    *)
(*   loop      an audit append that precedes the head of the step loop     *)
(*   provider  provider.next                                               *)
(*   decided   the append of agent_decision                                *)
(*   checking  policy.check                                                *)
(*   permitted the append of permission_checked                            *)
(*   started   the append of tool_started                                  *)
(*   executing the tool's handler                                          *)
(*   stopped   the append of tool_failed, or nothing but the return of     *)
(*             handleToolCall to run                                       *)
(*   finishing the append of run_finished                                  *)
(*   returned  nothing: the caller has the result                          *)
(*                                                                         *)
(* The log is kept as list(runId) shows it, one sequence for each run: the *)
(* runtime reads it in no other way.                                       *)
(*                                                                         *)
(* max_steps of a request is any JSON number, which need be no whole one   *)
(* and not positive; it is the fraction n / d here.  A number too large    *)
(* for a float64, such as 1e400, is parsed to Infinity, n / 0 here, and    *)
(* limits nothing: MaxTurns bounds the model for such a job.               *)
(***************************************************************************)
EXTENDS Integers, Sequences, FiniteSets

CONSTANTS
    Jobs,           \* calls of run
    Tools,          \* names in the registry
    Unregistered,   \* tool names a provider may make up
    Risk,           \* risk of each registered tool
    Policies,       \* the policies a runtime may be built with
    Decisions,      \* StaticPolicy: decisions for some of the tools
    DefaultDecision,\* StaticPolicy: decision for the others
    StepLimits,     \* values of max_steps
    MaxTurns,       \* bound on the turns of a job without a finite limit
    None            \* no tool, no decision

Risks       == {"read", "write", "external", "shell"}
Permissions == {"allow", "approval_required", "deny"}
Statuses    == {"completed", "approval_required", "denied", "failed"}
Names       == Tools \cup Unregistered

ASSUME AgentAssumption ==
    /\ IsFiniteSet(Jobs)
    /\ Tools \cap Unregistered = {} /\ None \notin Names
    /\ Risk \in [Tools -> Risks]
    /\ Policies \subseteq {"AllowAllPolicy", "StaticPolicy", "RiskBasedPolicy"}
    /\ \E T \in SUBSET Tools : Decisions \in [T -> Permissions]
    /\ DefaultDecision \in Permissions
    /\ None \notin Permissions \cup Statuses
    /\ StepLimits \subseteq [n : Int, d : Nat]
    /\ MaxTurns \in Nat

\* s < x of JavaScript, for a count of steps and a limit; the limit that no
\* count reaches; and that of a job not yet submitted.
Below(s, x) == s * x.d < x.n
Endless(x)  == x.d = 0 /\ x.n > 0
NoLimit     == [n |-> 0, d |-> 1]

\* run_1, run_2, ...: at most one run for each job.
RunIds == 1 .. Cardinality(Jobs)

(***************************************************************************)
(* Audit events, with the data the trail is judged by: the tool, and the   *)
(* permission decision or the final status.                                *)
(***************************************************************************)
Entry(type, tool, info) == [type |-> type, tool |-> tool, info |-> info]

Event ==
    [type : {"run_started"}, tool : {None}, info : {None}]
      \cup [type : {"agent_decision"}, tool : Names \cup {None}, info : {None}]
      \cup [type : {"permission_checked"}, tool : Tools, info : Permissions]
      \cup [type : {"tool_started", "tool_finished", "tool_failed"},
            tool : Tools, info : {None}]
      \cup [type : {"run_finished"}, tool : {None}, info : Statuses]

PCs == {"idle", "loop", "provider", "decided", "checking", "permitted",
        "started", "executing", "stopped", "finishing", "returned"}

VARIABLES
    policy,      \* AgentRuntime.policy, given to the constructor
    nextRunId,   \* AgentRuntime.nextRunId
    log,         \* InMemoryAuditLog.events, by run
    pc,          \* what each job awaits
    runId,       \* run's local variables
    maxSteps,
    step,
    toolName,    \* tool of the provider's decision, None for a final one
    permission,  \* what the policy answered
    toolResults, \* the tools whose results the run has collected, in order
    status,      \* status of the result
    calls        \* history: handlers called, and how long the log was then

vars == <<policy, nextRunId, log, pc, runId, maxSteps, step, toolName, permission,
          toolResults, status, calls>>

-----------------------------------------------------------------------------
(* Helpers.                                                                *)

Await(j, what) == pc' = [pc EXCEPT ![j] = what]

audit(j, e) == log' = [log EXCEPT ![runId[j]] = Append(@, e)]

\* finish(): the last event, whatever the way the run ended.
finish(j, s) ==
    /\ status' = [status EXCEPT ![j] = s]
    /\ audit(j, Entry("run_finished", None, s))
    /\ Await(j, "finishing")

\* handleToolCall returns a result, which makes run stop.
Stop(j, s) == status' = [status EXCEPT ![j] = s] /\ Await(j, "stopped")

\* Faults the properties must notice: a risk class is forgotten; a tool the
\* static policy does not name has no decision.
WriteAllowed(t) ==
    CASE policy = "AllowAllPolicy"  -> "allow"
      [] policy = "StaticPolicy"    ->
            IF t \in DOMAIN Decisions THEN Decisions[t] ELSE DefaultDecision
      [] policy = "RiskBasedPolicy" ->
            IF Risk[t] \in {"shell", "external"} THEN "approval_required" ELSE "allow"
NoDefaultDecision(t) ==
    CASE policy = "AllowAllPolicy"  -> "allow"
      [] policy = "StaticPolicy"    ->
            IF t \in DOMAIN Decisions THEN Decisions[t] ELSE None
      [] policy = "RiskBasedPolicy" ->
            IF Risk[t] = "read" THEN "allow" ELSE "approval_required"

\* PermissionPolicy.check of the three policies.
check(t) ==
    CASE policy = "AllowAllPolicy"  -> "allow"
      [] policy = "StaticPolicy"    ->
            IF t \in DOMAIN Decisions THEN Decisions[t] ELSE DefaultDecision
      [] policy = "RiskBasedPolicy" ->
            IF Risk[t] \in {"shell", "external", "write"}
            THEN "approval_required" ELSE "allow"

\* A fault the properties must notice: one step too many.
StepLeftInclusive(j) == step[j] * maxSteps[j].d <= maxSteps[j].n

StepLeft(j) == Below(step[j], maxSteps[j])

-----------------------------------------------------------------------------
(* run                                                                     *)

\* A fault the properties must notice: the counter is not advanced.
StartSharesId(j) ==
    /\ pc[j] = "idle"
    /\ \E n \in StepLimits : maxSteps' = [maxSteps EXCEPT ![j] = n]
    /\ runId' = [runId EXCEPT ![j] = nextRunId]
    /\ log' = [log EXCEPT ![nextRunId] = Append(@, Entry("run_started", None, None))]
    /\ Await(j, "loop")
    /\ UNCHANGED <<nextRunId, step, toolName, permission, toolResults, status, calls>>

Start(j) ==
    /\ pc[j] = "idle"
    /\ \E n \in StepLimits : maxSteps' = [maxSteps EXCEPT ![j] = n]
    /\ runId' = [runId EXCEPT ![j] = nextRunId]
    /\ nextRunId' = nextRunId + 1
    /\ log' = [log EXCEPT ![nextRunId] = Append(@, Entry("run_started", None, None))]
    /\ Await(j, "loop")
    /\ UNCHANGED <<step, toolName, permission, toolResults, status, calls>>

AskProvider(j) ==
    /\ pc[j] = "loop" /\ StepLeft(j)
    /\ Endless(maxSteps[j]) => step[j] < MaxTurns
    /\ Await(j, "provider")
    /\ UNCHANGED <<nextRunId, log, runId, maxSteps, step, toolName, permission,
                   toolResults, status, calls>>

\* "Agent exceeded max steps"
ExceedMaxSteps(j) ==
    /\ pc[j] = "loop" /\ ~StepLeft(j)
    /\ finish(j, "failed")
    /\ UNCHANGED <<nextRunId, runId, maxSteps, step, toolName, permission,
                   toolResults, calls>>

\* The provider answers with a tool call or, as None, with a final message
\* (which is all that MissingProvider ever answers).
ProviderDecides(j) ==
    /\ pc[j] = "provider"
    /\ \E t \in Names \cup {None} :
          /\ toolName' = [toolName EXCEPT ![j] = t]
          /\ audit(j, Entry("agent_decision", t, None))
    /\ Await(j, "decided")
    /\ UNCHANGED <<nextRunId, runId, maxSteps, step, permission, toolResults,
                   status, calls>>

\* provider.next throws: the request fails, or what comes back is not one of
\* the two decisions.  run's catch ends the run.
ProviderFails(j) ==
    /\ pc[j] = "provider"
    /\ finish(j, "failed")
    /\ UNCHANGED <<nextRunId, runId, maxSteps, step, toolName, permission,
                   toolResults, calls>>

Complete(j) ==
    /\ pc[j] = "decided" /\ toolName[j] = None
    /\ finish(j, "completed")
    /\ UNCHANGED <<nextRunId, runId, maxSteps, step, toolName, permission,
                   toolResults, calls>>

\* handleToolCall has returned a result.
FinishStopped(j) ==
    /\ pc[j] = "stopped"
    /\ finish(j, status[j])
    /\ UNCHANGED <<nextRunId, runId, maxSteps, step, toolName, permission,
                   toolResults, calls>>

Return(j) ==
    /\ pc[j] = "finishing"
    /\ Await(j, "returned")
    /\ UNCHANGED <<nextRunId, log, runId, maxSteps, step, toolName, permission,
                   toolResults, status, calls>>

-----------------------------------------------------------------------------
(* handleToolCall                                                          *)

UnknownTool(j) ==
    /\ pc[j] = "decided" /\ toolName[j] \in Unregistered
    /\ Stop(j, "failed")
    /\ UNCHANGED <<nextRunId, log, runId, maxSteps, step, toolName, permission,
                   toolResults, calls>>

\* asJsonObject throws on an input that is no object, past handleToolCall's
\* own catch and into run's.
InputNotObject(j) ==
    /\ pc[j] = "decided" /\ toolName[j] \in Tools
    /\ finish(j, "failed")
    /\ UNCHANGED <<nextRunId, runId, maxSteps, step, toolName, permission,
                   toolResults, calls>>

CheckPermission(j) ==
    /\ pc[j] = "decided" /\ toolName[j] \in Tools
    /\ permission' = [permission EXCEPT ![j] = check(toolName[j])]
    /\ Await(j, "checking")
    /\ UNCHANGED <<nextRunId, log, runId, maxSteps, step, toolName, toolResults,
                   status, calls>>

auditPermission(j) ==
    /\ pc[j] = "checking"
    /\ audit(j, Entry("permission_checked", toolName[j], permission[j]))
    /\ Await(j, "permitted")
    /\ UNCHANGED <<nextRunId, runId, maxSteps, step, toolName, permission,
                   toolResults, status, calls>>

\* A fault the properties must notice: the job waits for the approval.
PausesInPlace(j) ==
    /\ pc[j] = "permitted" /\ permission[j] = "deny"
    /\ Stop(j, "denied")
    /\ UNCHANGED <<nextRunId, log, runId, maxSteps, step, toolName, permission,
                   toolResults, calls>>

\* The policy does not allow the call: the run ends.
Withhold(j) ==
    /\ pc[j] = "permitted"
    /\ \/ permission[j] = "approval_required" /\ Stop(j, "approval_required")
       \/ permission[j] = "deny" /\ Stop(j, "denied")
    /\ UNCHANGED <<nextRunId, log, runId, maxSteps, step, toolName, permission,
                   toolResults, calls>>

\* A fault the properties must notice: a denied call goes on.
StartUnlessApprovalNeeded(j) ==
    /\ pc[j] = "permitted" /\ permission[j] # "approval_required"
    /\ audit(j, Entry("tool_started", toolName[j], None))
    /\ Await(j, "started")
    /\ UNCHANGED <<nextRunId, runId, maxSteps, step, toolName, permission,
                   toolResults, status, calls>>

StartTool(j) ==
    /\ pc[j] = "permitted" /\ permission[j] = "allow"
    /\ audit(j, Entry("tool_started", toolName[j], None))
    /\ Await(j, "started")
    /\ UNCHANGED <<nextRunId, runId, maxSteps, step, toolName, permission,
                   toolResults, status, calls>>

\* registry.execute: the input passes the tool's validation and its handler
\* is called ...
execute(j) ==
    /\ pc[j] = "started"
    /\ calls' = [calls EXCEPT ![j] =
                    Append(@, [tool |-> toolName[j], at |-> Len(log[runId[j]])])]
    /\ Await(j, "executing")
    /\ UNCHANGED <<nextRunId, log, runId, maxSteps, step, toolName, permission,
                   toolResults, status>>

\* A fault the properties must notice: the run goes on after a failed call.
FailureIgnored(j) ==
    /\ pc[j] \in {"started", "executing"}
    /\ audit(j, Entry("tool_failed", toolName[j], None))
    /\ step' = [step EXCEPT ![j] = @ + 1]
    /\ Await(j, "loop")
    /\ UNCHANGED <<nextRunId, runId, maxSteps, toolName, permission,
                   toolResults, status, calls>>

\* ... or validateInput throws.  The handler may throw as well, before or
\* after the CRM has done what it was asked.
ToolFails(j) ==
    /\ pc[j] \in {"started", "executing"}
    /\ audit(j, Entry("tool_failed", toolName[j], None))
    /\ Stop(j, "failed")
    /\ UNCHANGED <<nextRunId, runId, maxSteps, step, toolName, permission,
                   toolResults, calls>>

\* A fault the properties must notice: results of all runs in one array.
SharesResults(j) ==
    /\ pc[j] = "executing"
    /\ toolResults' = [i \in Jobs |-> Append(toolResults[i], toolName[j])]
    /\ audit(j, Entry("tool_finished", toolName[j], None))
    /\ step' = [step EXCEPT ![j] = @ + 1]
    /\ Await(j, "loop")
    /\ UNCHANGED <<nextRunId, runId, maxSteps, toolName, permission, status, calls>>

ToolReturns(j) ==
    /\ pc[j] = "executing"
    /\ toolResults' = [toolResults EXCEPT ![j] = Append(@, toolName[j])]
    /\ audit(j, Entry("tool_finished", toolName[j], None))
    /\ step' = [step EXCEPT ![j] = @ + 1]
    /\ Await(j, "loop")
    /\ UNCHANGED <<nextRunId, runId, maxSteps, toolName, permission, status, calls>>

handleToolCall(j) ==
    \/ UnknownTool(j)     \/ InputNotObject(j)
    \/ CheckPermission(j) \/ auditPermission(j)
    \/ Withhold(j)        \/ StartTool(j)
    \/ execute(j)         \/ ToolFails(j)        \/ ToolReturns(j)

-----------------------------------------------------------------------------

Init ==
    /\ policy \in Policies
    /\ nextRunId = 1
    /\ log = [r \in RunIds |-> <<>>]
    /\ pc = [j \in Jobs |-> "idle"]
    /\ runId = [j \in Jobs |-> 0]
    /\ maxSteps = [j \in Jobs |-> NoLimit]
    /\ step = [j \in Jobs |-> 0]
    /\ toolName = [j \in Jobs |-> None]
    /\ permission = [j \in Jobs |-> None]
    /\ toolResults = [j \in Jobs |-> <<>>]
    /\ status = [j \in Jobs |-> None]
    /\ calls = [j \in Jobs |-> <<>>]

run(j) ==
    \/ AskProvider(j)  \/ ExceedMaxSteps(j)
    \/ ProviderDecides(j) \/ ProviderFails(j)
    \/ Complete(j)     \/ handleToolCall(j)
    \/ FinishStopped(j) \/ Return(j)

Next == \E j \in Jobs : (Start(j) \/ run(j)) /\ UNCHANGED policy

Spec == Init /\ [][Next]_vars

\* The event loop resumes every job whose promise is settled, and the calls
\* of a provider or a tool settle: fetch gives up in the end.
FairSpec == Spec /\ \A j \in Jobs : WF_vars(run(j) /\ UNCHANGED policy)
=============================================================================
