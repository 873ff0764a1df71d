------------------------------ MODULE AgentCrm ------------------------------
(***************************************************************************)
(* The agent service of AgentRuntime at work on the CRM: the tools of      *)
(* crmApiTools.ts send HTTP requests to the API, and the network and both  *)
(* processes may fail them.                                                *)
(*                                                                         *)
(* The handler of a tool awaits fetch and then the body of the answer, and *)
(* returns its content or throws.  A request that fetch has given up may   *)
(* still be on its way, so it outlives the call and even the job; one that *)
(* is lost is never handled.  The CRM is the API of CrmApi, as far as one  *)
(* tenant's records go: a record that is there is not created again (409), *)
(* any request may be refused (400, 404, 500), and over Postgres a create  *)
(* may take effect and be answered 500 all the same.  No tool deletes, but *)
(* other clients of the API create and delete records, and the deletion of *)
(* the tenant or a restart over the memory store takes all of them.        *)
(*                                                                         *)
(* A client that gets no answer submits its job again: the second job.     *)
(* A restart of the agent process loses the runs, the log and the counter  *)
(* of run ids; the requests it had sent stay with the network.             *)
(***************************************************************************)
EXTENDS AgentProperties, SequencesExt

CONSTANTS
    Records,        \* the records create tools are asked to create
    Creates,        \* the tools that create one, a subset of Tools
    MaxRestarts,    \* bound on the restarts of the agent process
    MaxLosses       \* bound on how often the CRM loses a record

NoRecord == "no record"

\* crmApiTools registers each create tool as a write.
ASSUME AgentCrmAssumption ==
    /\ Creates \subseteq Tools /\ \A t \in Creates : Risk[t] # "read"
    /\ NoRecord \notin Records
    /\ MaxRestarts \in Nat /\ MaxLosses \in Nat

VARIABLES
    crm,        \* the records the CRM has
    life,       \* history: how often the CRM has lost each record
    wire,       \* [Jobs -> the requests its calls sent, in their order], each
                \* "sent", or answered: "ok" or "refused"
    late,       \* requests sent before a restart and not yet handled
    restarts,   \* how often the agent process was restarted
    done,       \* history: [record, life, run, restart] of every create that a
                \* request of the agent brought about
    told        \* history: the same of every create that was reported done

crmVars == <<crm, life, wire, late, restarts, done, told>>
allVars == <<vars, crmVars>>

Mark(r, n) == [record |-> r.record, life |-> n, run |-> r.run, restart |-> r.restart]

\* The CRM's create handlers store the record, which is not there.
Create(r) ==
    /\ r.record \notin crm \cup {NoRecord}
    /\ crm' = crm \cup {r.record}
    /\ done' = done \cup {Mark(r, life[r.record])}

Current(j) == Last(wire[j])

-----------------------------------------------------------------------------
(* crmApiTools.                                                            *)

\* execute, and the handler up to its fetch.
Send(j) ==
    /\ execute(j)
    /\ \E rec \in IF toolName[j] \in Creates THEN Records ELSE {NoRecord} :
          wire' = [wire EXCEPT ![j] = Append(@,
                     [record |-> rec, run |-> runId[j], restart |-> restarts,
                      state |-> "sent", life |-> 0])]
    /\ UNCHANGED <<policy, crm, life, late, restarts, done, told>>

\* A fault the properties must notice: an answer is taken for success without
\* a look at response.ok.
AnyAnswer(j) == Current(j).state \in {"ok", "refused"}

\* request returns the content: there is an answer, it is whole, and
\* response.ok holds.
ResponseOk(j) == Current(j).state = "ok"

Succeed(j) ==
    /\ ToolReturns(j)
    /\ ResponseOk(j)
    /\ told' = IF Current(j).record = NoRecord THEN told
               ELSE told \cup {Mark(Current(j), Current(j).life)}
    /\ UNCHANGED <<policy, crm, life, wire, late, restarts, done>>

\* request throws: requireString finds a field missing, fetch fails whatever
\* became of the request, the answer breaks off or is no JSON, or response.ok
\* is false.
Fail(j) == ToolFails(j) /\ UNCHANGED <<policy, crmVars>>

Elsewhere(j) ==
    /\ \/ AskProvider(j) \/ ExceedMaxSteps(j) \/ ProviderDecides(j) \/ ProviderFails(j)
       \/ Complete(j)    \/ UnknownTool(j)    \/ InputNotObject(j)  \/ CheckPermission(j)
       \/ auditPermission(j) \/ Withhold(j)   \/ StartTool(j)       \/ FinishStopped(j)
       \/ Return(j)
    /\ UNCHANGED <<policy, crmVars>>

Submit(j) == Start(j) /\ UNCHANGED <<policy, crmVars>>

-----------------------------------------------------------------------------
(* The network and the CRM.                                                *)

\* A create takes effect, whatever its answer; or the request reads, or is
\* refused.
Handle(j, k) ==
    LET r == wire[j][k]
    IN  /\ r.state = "sent"
        /\ \/ /\ Create(r)
              /\ \E a \in {"ok", "refused"} :
                    wire' = [wire EXCEPT ![j][k] = [r EXCEPT !.state = a, !.life = life[r.record]]]
           \/ /\ \E a \in {"refused"} \cup IF r.record = NoRecord THEN {"ok"} ELSE {} :
                    wire' = [wire EXCEPT ![j][k] = [r EXCEPT !.state = a]]
              /\ UNCHANGED <<crm, done>>
        /\ UNCHANGED <<vars, life, late, restarts, told>>

\* A request whose sender is gone.
HandleLate(r) ==
    /\ r \in late
    /\ late' = late \ {r}
    /\ Create(r) \/ UNCHANGED <<crm, done>>
    /\ UNCHANGED <<vars, life, wire, restarts, told>>

\* Another client of the API creates a record ...
OtherCreate ==
    /\ \E rec \in Records \ crm : crm' = crm \cup {rec}
    /\ UNCHANGED <<vars, life, wire, late, restarts, done, told>>

\* ... or records are lost: a client deletes one, over Postgres with those that
\* refer to it, or the tenant with all of them, or the API is restarted over
\* the memory store.
Lose ==
    /\ \E R \in SUBSET crm \ {{}} :
          /\ \A rec \in R : life[rec] < MaxLosses
          /\ crm' = crm \ R
          /\ life' = [rec \in Records |-> IF rec \in R THEN life[rec] + 1 ELSE life[rec]]
    /\ UNCHANGED <<vars, wire, late, restarts, done, told>>

\* The agent process dies and is started again.
Restart ==
    /\ restarts < MaxRestarts
    /\ restarts' = restarts + 1
    /\ late' = late \cup {r \in UNION {{wire[j][k] : k \in DOMAIN wire[j]} : j \in Jobs} :
                            r.state = "sent"}
    /\ wire' = [j \in Jobs |-> <<>>]
    /\ nextRunId' = 1
    /\ log' = [r \in RunIds |-> <<>>]
    /\ pc' = [j \in Jobs |-> "idle"]
    /\ runId' = [j \in Jobs |-> 0]
    /\ maxSteps' = [j \in Jobs |-> NoLimit]
    /\ step' = [j \in Jobs |-> 0]
    /\ toolName' = [j \in Jobs |-> None]
    /\ permission' = [j \in Jobs |-> None]
    /\ toolResults' = [j \in Jobs |-> <<>>]
    /\ status' = [j \in Jobs |-> None]
    /\ calls' = [j \in Jobs |-> <<>>]
    /\ UNCHANGED <<policy, crm, life, done, told>>

-----------------------------------------------------------------------------

CrmInit ==
    /\ Init
    /\ crm = {} /\ life = [rec \in Records |-> 0]
    /\ wire = [j \in Jobs |-> <<>>] /\ late = {} /\ restarts = 0
    /\ done = {} /\ told = {}

Work(j) == Send(j) \/ Succeed(j) \/ Fail(j) \/ Elsewhere(j)

CrmNext ==
    \/ \E j \in Jobs : Submit(j) \/ Work(j)
    \/ \E j \in Jobs : \E k \in DOMAIN wire[j] : Handle(j, k)
    \/ \E r \in late : HandleLate(r)
    \/ OtherCreate \/ Lose
    \/ Restart

CrmSpec == CrmInit /\ [][CrmNext]_allVars
=============================================================================
