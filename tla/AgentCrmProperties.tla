------------------------- MODULE AgentCrmProperties -------------------------
(***************************************************************************)
(* What the agent may be relied on for, from the job to the record in the  *)
(* CRM, and the instance TLC checks.                                       *)
(***************************************************************************)
EXTENDS AgentCrm

CONSTANTS j1, j2, list, create

\* agent-runtime.md:48: a failed write is no success.  Every create that a run
\* was told is done was done, by the request of that run and of no other, even
\* when a lost answer made a client submit its job again: of two jobs that are
\* told of one record, one was told of it before the CRM lost the record.
ToldMeansDone ==
    /\ told \subseteq done
    /\ \A a, b \in told : a.record = b.record /\ a.life = b.life => a = b

\* What requests of the present run of a job are in one of the histories.
Mine(j, history) == {e \in history : e.run = runId[j] /\ e.restart = restarts}

\* agent-runtime.md:48 and docs/agent-backend.md:9.  A run that completed and
\* the CRM agree for good: what it asked the CRM to create, what its requests
\* brought about there (served late or not), and what it was told of are the
\* same, and each such record is there unless the CRM has lost it since.
CompletedMeansServed ==
    \A j \in Jobs : status[j] = "completed" =>
        /\ Mine(j, told) = Mine(j, done)
        /\ \A k \in DOMAIN wire[j] : wire[j][k].record # NoRecord =>
              \E e \in Mine(j, done) : e.record = wire[j][k].record
        /\ \A e \in Mine(j, done) : e.record \in crm \/ e.life < life[e.record]

\* docs/agent-backend.md:9, 17: what an agent did is on record.  Unless the
\* agent process has been restarted since, the trail of the run whose request
\* created a record has the permission and the start of a create tool.  It
\* holds for requests that take effect after their run has ended or was told
\* of a failure, too, and for records deleted since.
EffectsOnRecord ==
    \A e \in done : e.restart = restarts =>
        \E i \in 2 .. Len(log[e.run]) :
            /\ log[e.run][i].type = "tool_started" /\ log[e.run][i].tool \in Creates
            /\ log[e.run][i - 1] = Entry("permission_checked", log[e.run][i].tool, "allow")

\* docs/agent-backend.md:45: under the default policy write operations stay
\* behind the approval boundary, whatever the provider decides: no request of
\* the agent, late ones included, ever changes the CRM.
DefaultPolicyNeverWrites == policy = "RiskBasedPolicy" => done = {}

-----------------------------------------------------------------------------

MCJobs  == {j1, j2}
MCTools == {list, create}
MCRisk  == list :> "read" @@ create :> "write"
MCDecisions == create :> "deny"
MCLimits == {[n |-> 2, d |-> 1]}

\* The jobs are alike.
MCSymmetry == Permutations(MCJobs)
=============================================================================
