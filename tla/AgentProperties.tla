-------------------------- MODULE AgentProperties --------------------------
(***************************************************************************)
(* What must hold of the agent service of AgentRuntime.                    *)
(***************************************************************************)
EXTENDS AgentRuntime

\* Type correctness.
TypeOK ==
    /\ policy \in Policies
    /\ nextRunId \in 1 .. Cardinality(Jobs) + 1
    /\ log \in [RunIds -> Seq(Event)]
    /\ pc \in [Jobs -> PCs]
    /\ runId \in [Jobs -> RunIds \cup {0}]
    /\ maxSteps \in [Jobs -> StepLimits \cup {NoLimit}]
    /\ step \in [Jobs -> Nat]
    /\ toolName \in [Jobs -> Names \cup {None}]
    /\ permission \in [Jobs -> Permissions \cup {None}]
    /\ toolResults \in [Jobs -> Seq(Tools)]
    /\ status \in [Jobs -> Statuses \cup {None}]
    /\ calls \in [Jobs -> Seq([tool : Tools, at : Nat])]

Trail(j)  == log[runId[j]]
Live(j)   == pc[j] # "idle"
Of(j, ty) == {i \in 1 .. Len(Trail(j)) : Trail(j)[i].type = ty}

-----------------------------------------------------------------------------

\* README.md:124, the runtime writes an audit trail.  What may come after an
\* event in the trail of one run.
MayFollow(e, f) ==
    CASE e.type = "run_started" ->
            f.type = "agent_decision" \/ f = Entry("run_finished", None, "failed")
      [] e.type = "agent_decision" /\ e.tool = None ->
            f = Entry("run_finished", None, "completed")
      [] e.type = "agent_decision" /\ e.tool # None ->
            \/ f.type = "permission_checked" /\ f.tool = e.tool
            \/ f = Entry("run_finished", None, "failed")
      [] e.type = "permission_checked" ->
            f = CASE e.info = "allow" -> Entry("tool_started", e.tool, None)
                  [] e.info = "deny"  -> Entry("run_finished", None, "denied")
                  [] OTHER            -> Entry("run_finished", None, "approval_required")
      [] e.type = "tool_started" ->
            f.type \in {"tool_finished", "tool_failed"} /\ f.tool = e.tool
      [] e.type = "tool_finished" ->
            f.type = "agent_decision" \/ f = Entry("run_finished", None, "failed")
      [] e.type = "tool_failed" -> f = Entry("run_finished", None, "failed")
      [] OTHER -> FALSE

\* The trail of every run tells one run from its start to at most one end,
\* although all runs append to one log: no event is missing, doubled, out of
\* order or another run's, and the status at the end follows from the events
\* before it.  Once the caller has the answer, the trail ends with its status.
TrailTellsOneRun ==
    \A r \in RunIds :
        /\ log[r] # <<>> => log[r][1].type = "run_started"
        /\ \A i \in 1 .. Len(log[r]) - 1 : MayFollow(log[r][i], log[r][i + 1])
        /\ \A j \in Jobs : pc[j] = "returned" /\ runId[j] = r =>
              log[r] # <<>> /\ log[r][Len(log[r])] = Entry("run_finished", None, status[j])

\* docs/agent-backend.md:16, a policy allows, denies or pauses before the tool
\* is executed.  Every call of a handler has its own permission_checked event
\* with "allow", and its tool_started event, in the trail before it.
CallsFollowPermission ==
    \A j \in Jobs : \A k \in 1 .. Len(calls[j]) :
        LET c == calls[j][k]
        IN  /\ c.at \in 3 .. Len(Trail(j))
            /\ Trail(j)[c.at] = Entry("tool_started", c.tool, None)
            /\ Trail(j)[c.at - 1] = Entry("permission_checked", c.tool, "allow")
            /\ k > 1 => calls[j][k - 1].at < c.at

\* docs/agent-backend.md:40, the default runtime executes read tools alone; a
\* tool the static policy denies or holds back, by name or by its default, is
\* never executed.
OnlyPermittedTools ==
    \A j \in Jobs : \A k \in 1 .. Len(calls[j]) :
        LET t == calls[j][k].tool
        IN  /\ policy = "RiskBasedPolicy" => Risk[t] = "read"
            /\ policy = "StaticPolicy" =>
                  /\ t \in DOMAIN Decisions => Decisions[t] = "allow"
                  /\ t \notin DOMAIN Decisions => DefaultDecision = "allow"

\* tool_results of the answer are the results of the tool_finished events of
\* the run's own trail, in their order, and every handler called before the
\* last one has its result there.
ResultsMatchTrail ==
    \A j \in Jobs : Live(j) =>
        /\ Len(toolResults[j]) = Cardinality(Of(j, "tool_finished"))
        /\ \A i \in Of(j, "tool_finished") :
              LET place == Cardinality({k \in Of(j, "tool_finished") : k <= i})
              IN  toolResults[j][place] = Trail(j)[i].tool
        /\ Len(calls[j]) - Len(toolResults[j]) \in {0, 1}

\* agent-runtime.md:48, "Treating failed API writes as successful job
\* completion" is an anti-pattern.  A completed run has no failed call, and
\* has the result of every call it made.
CompletedMeansAllSucceeded ==
    \A j \in Jobs : status[j] = "completed" =>
        /\ Of(j, "tool_failed") = {}
        /\ Len(calls[j]) = Len(toolResults[j])

\* As many steps as the loop takes before its guard s < limit is false.
Within(count, limit) == count > 0 => Below(count - 1, limit)

\* docs/agent-backend.md:14, max-step protection.  A run asks the provider at
\* most max_steps times, and calls at most max_steps handlers; a limit that is
\* no whole number is rounded up, and a negative one is as good as 0.  Infinity
\* protects from nothing (AgentRuntime.ts:73, server.ts:86).
MaxStepProtection ==
    \A j \in Jobs : Live(j) =>
        /\ Within(Cardinality(Of(j, "agent_decision")), maxSteps[j])
        /\ Within(Len(calls[j]), maxSteps[j])

\* POST /agent/jobs is synchronous.  Every job with a finite limit returns; the
\* jobs of other clients, those without a finite limit too, do not keep it.
EveryJobReturns ==
    \A j \in Jobs : pc[j] # "idle" /\ ~Endless(maxSteps[j]) ~> pc[j] = "returned"
=============================================================================
