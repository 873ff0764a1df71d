------------------------------ MODULE AgentMC ------------------------------
(***************************************************************************)
(* Instances of AgentRuntime for TLC.                                      *)
(***************************************************************************)
EXTENDS AgentProperties, TLC

CONSTANTS j1, j2, list, create, exec, bogus

MCJobs == {j1, j2}

\* A read tool, a write tool and one that reaches outside.
MCTools == {list, create, exec}
MCRisk  == list :> "read" @@ create :> "write" @@ exec :> "external"

\* One tool is allowed, one waits for approval, the third is not named and
\* denied by default.
MCDecisions == list :> "allow" @@ create :> "approval_required"

\* -1, 0, 1.5 and Infinity.
MCLimits == {[n |-> -1, d |-> 1], [n |-> 0, d |-> 1], [n |-> 3, d |-> 2], [n |-> 1, d |-> 0]}
=============================================================================
