--------------------------- MODULE AgentCrmProofs ---------------------------
(***************************************************************************)
(* Theorems about AgentCrm for any number of jobs, tools, records and      *)
(* restarts, and any policies.                                             *)
(*                                                                         *)
(* A step of a job is a step of AgentRuntime, so Inv of AgentProofs holds  *)
(* here as well.  CrmInv adds what ties the requests on the wire to the    *)
(* calls that sent them, and the histories of the CRM to both.             *)
(***************************************************************************)
EXTENDS AgentCrmProperties, AgentProofs

Request == [record : Records \cup {NoRecord}, run : Nat, restart : Nat,
            state : {"sent", "ok", "refused"}, life : Nat]

CrmTypeOK ==
    /\ wire \in [Jobs -> Seq(Request)]
    /\ late \subseteq Request
    /\ restarts \in Nat
    /\ life \in [Records -> Nat]

\* No call of the job has failed yet, or none ever will.
Unbroken(j) ==
    \/ pc[j] \notin {"executing", "stopped", "finishing", "returned"}
    \/ status[j] = "completed"

\* What a request that took effect has left in the history.
Made(r) == Mark(r, r.life)

\* A request was sent by a call, bears its run, and is accounted for if it is
\* answered with success.
RequestFits(j, k) ==
    /\ wire[j][k].run = runId[j] /\ wire[j][k].restart = restarts
    /\ wire[j][k].record # NoRecord => calls[j][k].tool \in Creates
    /\ wire[j][k].record # NoRecord /\ wire[j][k].state = "ok" => Made(wire[j][k]) \in done

\* The run has been told of its success.
Reported(j, k) ==
    /\ wire[j][k].state = "ok"
    /\ wire[j][k].record # NoRecord => Made(wire[j][k]) \in told

WireFits(j) ==
    /\ Len(wire[j]) = Len(calls[j])
    /\ \A k \in 1 .. Len(wire[j]) : RequestFits(j, k)
    /\ Unbroken(j) => \A k \in 1 .. Len(wire[j]) : Reported(j, k)
    /\ pc[j] = "executing" => \A k \in 1 .. Len(wire[j]) - 1 : Reported(j, k)

\* A request that outlived its process asks for nothing the policy withholds.
LateFits ==
    \A r \in late : /\ r.restart < restarts
                    /\ policy = "RiskBasedPolicy" => r.record = NoRecord

\* What the present agent process brought about, a request on its wire did.
Origin(e) ==
    \E j \in Jobs : \E k \in 1 .. Len(wire[j]) :
        wire[j][k].state # "sent" /\ e = Made(wire[j][k])

OriginsFit == \A e \in done : e.restart = restarts => Origin(e)

\* A record is created once in each of its lives.
DoneFits ==
    /\ \A e \in done : /\ e.record \in Records
                       /\ e.life \in Nat /\ e.life <= life[e.record]
                       /\ e.record \in crm \/ e.life < life[e.record]
                       /\ e.restart \in Nat /\ e.restart <= restarts
    /\ \A a, b \in done : a.record = b.record /\ a.life = b.life => a = b
    /\ told \subseteq done
    /\ policy = "RiskBasedPolicy" => done = {}

CrmInv ==
    /\ CrmTypeOK
    /\ \A j \in Jobs : WireFits(j)
    /\ LateFits
    /\ OriginsFit
    /\ DoneFits

-----------------------------------------------------------------------------
(* What a step of one job does to the rest of the agent service.           *)

\* A step of a job is one of AgentRuntime.
LEMMA JobStep ==
    ASSUME NEW j \in Jobs, Submit(j) \/ Work(j)
    PROVE  (Start(j) \/ run(j)) /\ UNCHANGED policy
BY DEF Submit, Work, Send, Succeed, Fail, Elsewhere, run, handleToolCall

\* What more a step of one job leaves of another than OthersKeep says.
LEMMA OthersStand ==
    ASSUME Inv, NEW j \in Jobs, Start(j) \/ run(j), NEW i \in Jobs \ {j}
    PROVE  runId'[i] = runId[i] /\ status'[i] = status[i]
BY DEF Inv, TypeOK, Start, run, handleToolCall, AskProvider, ExceedMaxSteps, ProviderDecides,
       ProviderFails, Complete, FinishStopped, Return, UnknownTool, InputNotObject,
       CheckPermission, auditPermission, Withhold, StartTool, execute, ToolFails,
       ToolReturns, Await, finish, Stop

\* Of a step of a job only its own requests need a look.
LEMMA WireKept ==
    ASSUME Inv, CrmInv, NEW j \in Jobs, Start(j) \/ run(j), UNCHANGED <<restarts, done>>,
           told \subseteq told', \A i \in Jobs \ {j} : wire'[i] = wire[i], WireFits(j)'
    PROVE  \A i \in Jobs : WireFits(i)'
<1> SUFFICES ASSUME NEW i \in Jobs \ {j} PROVE WireFits(i)'
  OBVIOUS
<1>1. /\ pc'[i] = pc[i] /\ calls'[i] = calls[i] /\ wire'[i] = wire[i]
      /\ runId'[i] = runId[i] /\ status'[i] = status[i]
  BY OthersKeep, OthersStand
<1>2. WireFits(i)
  BY DEF CrmInv
<1>3. \A k \in 1 .. Len(wire[i]) : RequestFits(i, k)'
  BY <1>1, <1>2 DEF WireFits, RequestFits, Made, Mark
<1>4. \A k : Reported(i, k) => Reported(i, k)'
  BY <1>1 DEF Reported, Made, Mark
<1> QED  BY <1>1, <1>2, <1>3, <1>4 DEF WireFits, Unbroken

\* What was brought about keeps its origin while answered requests stay.
LEMMA OriginStays ==
    ASSUME CrmTypeOK, NEW e, Origin(e),
           \A j \in Jobs : /\ Len(wire'[j]) \in Nat /\ Len(wire[j]) <= Len(wire'[j])
                          /\ \A k \in 1 .. Len(wire[j]) :
                                wire[j][k].state # "sent" => wire'[j][k] = wire[j][k]
    PROVE  Origin(e)'
<1>1. PICK j \in Jobs : \E k \in 1 .. Len(wire[j]) :
         wire[j][k].state # "sent" /\ e = Made(wire[j][k])
  BY DEF Origin
<1>2. PICK k \in 1 .. Len(wire[j]) : wire[j][k].state # "sent" /\ e = Made(wire[j][k])
  BY <1>1
<1>3. Len(wire[j]) \in Nat
  BY DEF CrmTypeOK
<1>4. k \in 1 .. Len(wire'[j]) /\ wire'[j][k] = wire[j][k]
  BY <1>2, <1>3
<1>5. Made(wire'[j][k]) = e /\ wire'[j][k].state # "sent"
  BY <1>2, <1>4 DEF Made, Mark
<1> QED  BY <1>4, <1>5 DEF Origin, Made, Mark

\* A step that serves no request leaves what is known of the CRM's history.
LEMMA DoneKept ==
    ASSUME CrmInv, UNCHANGED <<policy, crm, life, restarts, done>>, told' \subseteq done,
           \A j \in Jobs : /\ Len(wire'[j]) \in Nat /\ Len(wire[j]) <= Len(wire'[j])
                          /\ \A k \in 1 .. Len(wire[j]) :
                                wire[j][k].state # "sent" => wire'[j][k] = wire[j][k]
    PROVE  DoneFits' /\ OriginsFit'
<1>1. DoneFits'
  BY DEF CrmInv, DoneFits
<1>2. OriginsFit'
  <2> SUFFICES ASSUME NEW e \in done, e.restart = restarts PROVE Origin(e)'
    BY DEF OriginsFit
  <2>1. Origin(e)
    BY DEF CrmInv, OriginsFit
  <2> QED  BY <2>1, OriginStays DEF CrmInv
<1> QED  BY <1>1, <1>2

-----------------------------------------------------------------------------
(* The actions of CrmNext.                                                 *)

\* A job that makes no call and gets no answer.
LEMMA QuietKeeps ==
    ASSUME Inv, CrmInv, NEW j \in Jobs, Start(j) \/ run(j),
           UNCHANGED <<policy, crmVars>>, calls' = calls, runId'[j] = runId[j] \/ wire[j] = <<>>,
           Unbroken(j)' => Unbroken(j) \/ wire[j] = <<>>, pc'[j] # "executing"
    PROVE  CrmInv'
<1>0. UNCHANGED <<crm, life, wire, late, restarts, done, told>>
  BY DEF crmVars
<1>1. CrmTypeOK' /\ LateFits'
  BY <1>0 DEF CrmInv, CrmTypeOK, LateFits
<1>2. WireFits(j) /\ wire[j] \in Seq(Request)
  BY DEF CrmInv, CrmTypeOK
<1>3. WireFits(j)'
  <2>1. \A k \in 1 .. Len(wire[j]) : RequestFits(j, k)'
    BY <1>0, <1>2 DEF WireFits, RequestFits, Made, Mark
  <2>2. Unbroken(j)' => \A k \in 1 .. Len(wire[j]) : Reported(j, k)
    BY <1>2 DEF WireFits
  <2>3. \A k : Reported(j, k)' <=> Reported(j, k)
    BY <1>0 DEF Reported, Made, Mark
  <2> QED  BY <1>0, <1>2, <2>1, <2>2, <2>3 DEF WireFits
<1>4. \A i \in Jobs : WireFits(i)'
  BY <1>0, <1>3, WireKept
<1>5. DoneFits' /\ OriginsFit'
  <2>1. \A i \in Jobs : Len(wire[i]) \in Nat
    BY DEF CrmInv, CrmTypeOK
  <2> QED  BY <1>0, <2>1, DoneKept DEF CrmInv, DoneFits
<1> QED  BY <1>1, <1>4, <1>5 DEF CrmInv

LEMMA SubmitKeeps ==
    ASSUME Inv, CrmInv, NEW j \in Jobs, Submit(j)
    PROVE  CrmInv'
<1>1. pc[j] = "idle" /\ pc'[j] = "loop" /\ calls' = calls
  BY DEF Submit, Start, Await, Inv, TypeOK
<1>2. wire[j] = <<>>
  <2>1. calls[j] = <<>>
    BY <1>1 DEF Inv, Fits
  <2> QED  BY <2>1 DEF CrmInv, CrmTypeOK, WireFits
<1> QED  BY <1>1, <1>2, QuietKeeps DEF Submit

LEMMA ElsewhereKeeps ==
    ASSUME Inv, CrmInv, NEW j \in Jobs, Elsewhere(j)
    PROVE  CrmInv'
<1>1. run(j) /\ UNCHANGED <<policy, crmVars>>
  BY DEF Elsewhere, run, handleToolCall
<1>2. calls' = calls /\ runId' = runId /\ pc'[j] # "executing"
  BY DEF Elsewhere, AskProvider, ExceedMaxSteps, ProviderDecides, ProviderFails, Complete,
         UnknownTool, InputNotObject, CheckPermission, auditPermission, Withhold, StartTool,
         FinishStopped, Return, Await, finish, Stop, Inv, TypeOK
<1>3. Unbroken(j)' => Unbroken(j)
  <2>1. CASE \/ AskProvider(j) \/ ProviderDecides(j) \/ CheckPermission(j) \/ auditPermission(j)
             \/ StartTool(j) \/ Complete(j)
    BY <2>1 DEF AskProvider, ProviderDecides, CheckPermission, auditPermission, StartTool,
                Complete, Unbroken
  <2>2. CASE \/ ExceedMaxSteps(j) \/ ProviderFails(j) \/ UnknownTool(j) \/ InputNotObject(j)
             \/ Withhold(j)
    BY <2>2 DEF ExceedMaxSteps, ProviderFails, UnknownTool, InputNotObject, Withhold, Unbroken
  <2>3. CASE FinishStopped(j) \/ Return(j)
    <3>1. pc'[j] \in {"finishing", "returned"} /\ status'[j] = status[j]
      BY <2>3 DEF FinishStopped, Return, finish, Await, Inv, TypeOK
    <3> QED  BY <3>1 DEF Unbroken
  <2> QED  BY <2>1, <2>2, <2>3 DEF Elsewhere
<1> QED  BY <1>1, <1>2, <1>3, QuietKeeps

LEMMA FailKeeps ==
    ASSUME Inv, CrmInv, NEW j \in Jobs, Fail(j)
    PROVE  CrmInv'
<1>1. run(j) /\ UNCHANGED <<policy, crmVars>>
  BY DEF Fail, run, handleToolCall
<1>2. /\ calls' = calls /\ runId' = runId
      /\ pc'[j] = "stopped" /\ status'[j] = "failed"
  BY DEF Fail, ToolFails, Stop, Await, Inv, TypeOK
<1> QED  BY <1>1, <1>2, QuietKeeps DEF Unbroken

LEMMA SendKeeps ==
    ASSUME Inv, CrmInv, NEW j \in Jobs, Send(j)
    PROVE  CrmInv'
<1>1. execute(j) /\ run(j) /\ UNCHANGED <<policy, crm, life, late, restarts, done, told>>
  BY DEF Send, run, handleToolCall
<1>2. PICK rec \in IF toolName[j] \in Creates THEN Records ELSE {NoRecord} :
         wire' = [wire EXCEPT ![j] = Append(@,
                    [record |-> rec, run |-> runId[j], restart |-> restarts,
                     state |-> "sent", life |-> 0])]
  BY DEF Send
<1> DEFINE q == [record |-> rec, run |-> runId[j], restart |-> restarts,
                 state |-> "sent", life |-> 0]
           c == [tool |-> toolName[j], at |-> Len(log[runId[j]])]
<1>3. /\ pc[j] = "started" /\ pc'[j] = "executing" /\ runId' = runId
      /\ calls'[j] = Append(calls[j], c) /\ status' = status
  BY <1>1 DEF execute, Await, Inv, TypeOK
<1>4. status[j] # "completed"
  BY <1>3 DEF Inv, Fits, LocalsFit
<1>5. wire \in [Jobs -> Seq(Request)] /\ restarts \in Nat /\ runId[j] \in Nat
  BY DEF CrmInv, CrmTypeOK, Inv, TypeOK, RunIds
<1>6. q \in Request
  BY <1>5 DEF Request
<1>7. /\ wire' \in [Jobs -> Seq(Request)] /\ wire'[j] = Append(wire[j], q)
      /\ \A i \in Jobs \ {j} : wire'[i] = wire[i]
  <2> HIDE DEF q
  <2>1. wire' = [wire EXCEPT ![j] = Append(@, q)]
    BY <1>2 DEF q
  <2> QED  BY <1>5, <1>6, <2>1
<1>8. CrmTypeOK' /\ LateFits'
  BY <1>1, <1>7 DEF CrmInv, CrmTypeOK, LateFits
<1>9. WireFits(j)'
  <2>1. /\ WireFits(j) /\ Len(wire[j]) = Len(calls[j])
        /\ \A k \in 1 .. Len(wire[j]) : Reported(j, k) /\ RequestFits(j, k)
    BY <1>3 DEF CrmInv, WireFits, Unbroken
  <2>2. calls[j] \in Seq([tool : Tools, at : Nat])
    BY DEF Inv, TypeOK
  <2> DEFINE n == Len(wire[j])
  <2>3. /\ n \in Nat /\ Len(wire'[j]) = n + 1 /\ wire'[j][n + 1] = q
        /\ \A k \in 1 .. n : wire'[j][k] = wire[j][k]
    BY <1>5, <1>7
  <2>4. /\ Len(calls'[j]) = n + 1 /\ calls'[j][n + 1] = c
        /\ \A k \in 1 .. n : calls'[j][k] = calls[j][k]
    <3> HIDE DEF c
    <3> QED  BY <1>3, <2>1, <2>2
  <2>5. ASSUME NEW k \in 1 .. n + 1
        PROVE  RequestFits(j, k)'
    <3>1. CASE k = n + 1
      <4>1. q.record # NoRecord => toolName[j] \in Creates
        BY <1>2
      <4>2. c.tool = toolName[j] /\ q.run = runId[j] /\ q.restart = restarts /\ q.state # "ok"
        OBVIOUS
      <4> HIDE DEF q, c
      <4> QED  BY <1>1, <1>3, <2>3, <2>4, <3>1, <4>1, <4>2 DEF RequestFits
    <3>2. CASE k \in 1 .. n
      <4>1. RequestFits(j, k)
        BY <2>1, <3>2
      <4>2. wire'[j][k] = wire[j][k] /\ calls'[j][k] = calls[j][k]
        BY <2>3, <2>4, <3>2
      <4> QED  BY <1>1, <1>3, <4>1, <4>2 DEF RequestFits, Made, Mark
    <3> QED  BY <2>3, <3>1, <3>2
  <2>6. ~Unbroken(j)'
    BY <1>3, <1>4 DEF Unbroken
  <2>7. \A k \in 1 .. Len(wire'[j]) - 1 : Reported(j, k)'
    BY <1>1, <2>1, <2>3 DEF Reported, Made, Mark
  <2> HIDE DEF n
  <2> QED  BY <2>3, <2>4, <2>5, <2>6, <2>7 DEF WireFits
<1>10. \A i \in Jobs : WireFits(i)'
  BY <1>1, <1>7, <1>9, WireKept
<1>11. DoneFits' /\ OriginsFit'
  <2>1. ASSUME NEW i \in Jobs
        PROVE  /\ Len(wire'[i]) \in Nat /\ Len(wire[i]) <= Len(wire'[i])
               /\ \A k \in 1 .. Len(wire[i]) : wire'[i][k] = wire[i][k]
    <3>1. CASE i = j
      <4> HIDE DEF q
      <4> QED  BY <1>5, <1>6, <1>7, <3>1
    <3>2. CASE i # j
      <4>1. wire[i] \in Seq(Request) /\ wire'[i] = wire[i]
        BY <1>5, <1>7, <3>2
      <4> QED  BY <4>1
    <3> QED  BY <3>1, <3>2
  <2> QED  BY <1>1, <2>1, DoneKept DEF CrmInv, DoneFits
<1> QED  BY <1>8, <1>10, <1>11 DEF CrmInv

LEMMA SucceedKeeps ==
    ASSUME Inv, CrmInv, NEW j \in Jobs, Succeed(j)
    PROVE  CrmInv'
<1>1. ToolReturns(j) /\ run(j) /\ UNCHANGED <<policy, crm, life, wire, late, restarts, done>>
  BY DEF Succeed, run, handleToolCall
<1>2. pc[j] = "executing" /\ pc'[j] = "loop" /\ runId' = runId /\ calls' = calls
  BY <1>1 DEF ToolReturns, Await, Inv, TypeOK
<1>3. /\ WireFits(j) /\ wire[j] \in Seq(Request) /\ Len(wire[j]) = Len(calls[j])
      /\ \A k \in 1 .. Len(wire[j]) : RequestFits(j, k)
      /\ \A k \in 1 .. Len(wire[j]) - 1 : Reported(j, k)
  BY <1>2 DEF CrmInv, CrmTypeOK, WireFits
<1> DEFINE n == Len(wire[j])
<1>4. n \in Nat \ {0}
  <2>1. /\ calls[j] \in Seq([tool : Tools, at : Nat]) /\ toolResults[j] \in Seq(Tools)
        /\ Len(calls[j]) = Len(toolResults[j]) + 1
    BY <1>2 DEF Inv, TypeOK, Fits, ResultsFit
  <2>2. Len(toolResults[j]) \in Nat
    BY <2>1
  <2> QED  BY <1>3, <2>1, <2>2
<1>5. Current(j) = wire[j][n] /\ wire[j][n].state = "ok"
  BY DEF Succeed, ResponseOk, Current, Last
<1>6. told \subseteq told' /\ (wire[j][n].record # NoRecord => Made(wire[j][n]) \in told')
  BY <1>5 DEF Succeed, Made
<1>7. \A k \in 1 .. n : Reported(j, k)'
  <2>1. \A k \in 1 .. n - 1 : Reported(j, k)'
    BY <1>1, <1>3, <1>6 DEF Reported, Made, Mark
  <2>2. ASSUME NEW k \in 1 .. n, k = n
        PROVE  Reported(j, k)'
    BY <1>1, <1>5, <1>6, <2>2 DEF Reported, Made, Mark
  <2> QED  BY <1>4, <2>1, <2>2
<1>8. CrmTypeOK' /\ LateFits'
  BY <1>1 DEF CrmInv, CrmTypeOK, LateFits
<1>9. WireFits(j)'
  <2>1. \A k \in 1 .. n : RequestFits(j, k)'
    BY <1>1, <1>2, <1>3 DEF RequestFits, Made, Mark
  <2> QED  BY <1>1, <1>2, <1>3, <1>7, <2>1 DEF WireFits
<1>10. \A i \in Jobs : WireFits(i)'
  BY <1>1, <1>6, <1>9, WireKept
<1>11. told' \subseteq done
  <2>1. Current(j).record # NoRecord => Mark(Current(j), Current(j).life) \in done
    BY <1>3, <1>4, <1>5 DEF RequestFits, Made
  <2>2. told \subseteq done
    BY DEF CrmInv, DoneFits
  <2> QED  BY <2>1, <2>2 DEF Succeed
<1>12. DoneFits' /\ OriginsFit'
  <2>1. \A i \in Jobs : Len(wire[i]) \in Nat
    BY DEF CrmInv, CrmTypeOK
  <2> QED  BY <1>1, <1>11, <2>1, DoneKept
<1> QED  BY <1>8, <1>10, <1>12 DEF CrmInv

\* The CRM creates the record of a request that the policy does not withhold.
LEMMA CreateKeeps ==
    ASSUME CrmTypeOK, DoneFits, NEW r \in Request, Create(r),
           UNCHANGED <<policy, life, restarts, told>>,
           r.restart <= restarts, policy # "RiskBasedPolicy"
    PROVE  DoneFits'
<1> DEFINE m == Mark(r, life[r.record])
<1>1. crm' = crm \cup {r.record} /\ done' = done \cup {m} /\ r.record \in Records \ crm
  BY DEF Create, Request
<1>2. /\ m.record = r.record /\ m.life = life[r.record] /\ m.restart = r.restart
      /\ r.restart \in Nat /\ life[r.record] \in Nat
  BY <1>1 DEF Mark, Request, CrmTypeOK
<1> HIDE DEF m
<1>3. \A e \in done' :
         /\ e.record \in Records
         /\ e.life \in Nat /\ e.life <= life[e.record]
         /\ e.record \in crm' \/ e.life < life[e.record]
         /\ e.restart \in Nat /\ e.restart <= restarts
  BY <1>1, <1>2 DEF DoneFits
<1>4. ASSUME NEW a \in done', NEW b \in done', a.record = b.record, a.life = b.life
      PROVE  a = b
  \* Of the record's present life there is no other entry: it is not in the CRM.
  <2>1. \A e \in done : e.record = m.record => e.life # m.life
    BY <1>1, <1>2 DEF DoneFits
  <2> QED  BY <1>1, <1>4, <2>1 DEF DoneFits
<1> QED  BY <1>1, <1>3, <1>4 DEF DoneFits

\* The trail of a run has the permission and the start of a create tool.
Recorded(r) ==
    \E i \in 2 .. Len(log[r]) :
       /\ log[r][i].type = "tool_started" /\ log[r][i].tool \in Creates
       /\ log[r][i - 1] = Entry("permission_checked", log[r][i].tool, "allow")

\* A request that asks for a record is on record, and its tool is allowed.
LEMMA RequestOnRecord ==
    ASSUME Inv, CrmInv, NEW j \in Jobs, NEW k \in DOMAIN wire[j], wire[j][k].record # NoRecord
    PROVE  /\ runId[j] \in RunIds /\ Recorded(runId[j])
           /\ policy # "RiskBasedPolicy"
<1>1. /\ wire[j] \in Seq(Request) /\ Len(wire[j]) = Len(calls[j])
      /\ RequestFits(j, k) /\ k \in 1 .. Len(calls[j])
  BY DEF CrmInv, CrmTypeOK, WireFits
<1> DEFINE c == calls[j][k]
<1>2. c.tool \in Creates
  BY <1>1 DEF RequestFits
<1>3. pc[j] # "idle"
  BY <1>1 DEF Inv, Fits
<1>4. /\ runId[j] \in RunIds /\ CallFits(j, c)
  BY <1>1, <1>3 DEF Inv, Fits, CallsFit
<1>5. /\ check(c.tool) = "allow" /\ c.at \in 3 .. Len(Trail(j))
      /\ Trail(j)[c.at] = Entry("tool_started", c.tool, None)
      /\ Trail(j)[c.at - 1] = Entry("permission_checked", c.tool, "allow")
  BY <1>4 DEF CallFits
<1>6. Entry("tool_started", c.tool, None).type = "tool_started"
      /\ Entry("tool_started", c.tool, None).tool = c.tool
  BY DEF Entry
<1>7. Len(Trail(j)) \in Nat
  BY <1>4 DEF Inv, TypeOK, Trail
<1>8. c.at \in 2 .. Len(Trail(j))
  BY <1>5, <1>7
<1>9. Recorded(runId[j])
  BY <1>2, <1>5, <1>6, <1>8 DEF Recorded, Trail
<1>10. policy # "RiskBasedPolicy"
  <2>1. c.tool \in Tools /\ Risk[c.tool] # "read" /\ Risk[c.tool] \in Risks
    BY <1>2, AgentCrmAssumption, AgentAssumption
  <2> QED  BY <1>5, <2>1 DEF check, Risks
<1> QED  BY <1>4, <1>9, <1>10

LEMMA HandleKeeps ==
    ASSUME Inv, CrmInv, NEW j \in Jobs, NEW k \in DOMAIN wire[j], Handle(j, k)
    PROVE  CrmInv'
<1> DEFINE q == wire[j][k]
<1>1. /\ wire \in [Jobs -> Seq(Request)] /\ WireFits(j) /\ k \in 1 .. Len(wire[j])
      /\ q \in Request /\ RequestFits(j, k) /\ q.state = "sent"
  BY DEF CrmInv, CrmTypeOK, WireFits, Handle
<1>2. UNCHANGED <<vars, life, late, restarts, told>>
  BY DEF Handle
<1>3. PICK p \in Request :
         /\ wire' = [wire EXCEPT ![j][k] = p]
         /\ p.record = q.record /\ p.run = q.run /\ p.restart = q.restart /\ p.state # "sent"
         /\ \/ Create(q) /\ p.life = life[q.record]
            \/ /\ UNCHANGED <<crm, done>>
               /\ q.record # NoRecord => p.state # "ok"
  <2>1. CASE /\ Create(q)
             /\ \E a \in {"ok", "refused"} :
                   wire' = [wire EXCEPT ![j][k] = [q EXCEPT !.state = a, !.life = life[q.record]]]
    <3>1. PICK a \in {"ok", "refused"} :
             wire' = [wire EXCEPT ![j][k] = [q EXCEPT !.state = a, !.life = life[q.record]]]
      BY <2>1
    <3>2. life[q.record] \in Nat
      BY <1>1, <2>1 DEF Create, Request, CrmInv, CrmTypeOK
    <3> DEFINE p == [q EXCEPT !.state = a, !.life = life[q.record]]
    <3> HIDE DEF q
    <3>3. /\ p \in Request /\ p.record = q.record /\ p.run = q.run /\ p.restart = q.restart
          /\ p.state # "sent" /\ p.life = life[q.record]
      BY <1>1, <3>2 DEF Request
    <3> HIDE DEF p
    <3> QED  BY <2>1, <3>1, <3>3 DEF p
  <2>2. CASE \E a \in {"refused"} \cup IF q.record = NoRecord THEN {"ok"} ELSE {} :
                /\ wire' = [wire EXCEPT ![j][k] = [q EXCEPT !.state = a]]
                /\ UNCHANGED <<crm, done>>
    <3>1. PICK a \in {"ok", "refused"} :
             /\ wire' = [wire EXCEPT ![j][k] = [q EXCEPT !.state = a]]
             /\ UNCHANGED <<crm, done>> /\ (q.record # NoRecord => a # "ok")
      BY <2>2
    <3> DEFINE p == [q EXCEPT !.state = a]
    <3> HIDE DEF q
    <3>3. /\ p \in Request /\ p.record = q.record /\ p.run = q.run /\ p.restart = q.restart
          /\ p.state = a /\ a # "sent"
      BY <1>1 DEF Request
    <3> HIDE DEF p
    <3> QED  BY <3>1, <3>3 DEF p
  <2> QED  BY <2>1, <2>2 DEF Handle
<1>5. /\ wire' \in [Jobs -> Seq(Request)] /\ Len(wire'[j]) = Len(wire[j])
      /\ wire'[j][k] = p /\ \A m \in 1 .. Len(wire[j]) : m # k => wire'[j][m] = wire[j][m]
      /\ \A i \in Jobs \ {j} : wire'[i] = wire[i]
  <2>1. wire' = [wire EXCEPT ![j] = [wire[j] EXCEPT ![k] = p]]
    BY <1>3
  <2> HIDE DEF q
  <2>2. [wire[j] EXCEPT ![k] = p] \in Seq(Request) /\ Len([wire[j] EXCEPT ![k] = p]) = Len(wire[j])
    BY <1>1, <1>3
  <2> QED  BY <1>1, <2>1, <2>2
<1>6. done \subseteq done' /\ (q.record # NoRecord /\ p.state = "ok" => Made(p) \in done')
  <2>1. CASE Create(q) /\ p.life = life[q.record]
    <3>1. Made(p) = Mark(q, life[q.record])
      BY <1>3, <2>1 DEF Made, Mark
    <3> QED  BY <2>1, <3>1 DEF Create
  <2>2. CASE UNCHANGED <<crm, done>> /\ (q.record # NoRecord => p.state # "ok")
    BY <2>2
  <2> QED  BY <1>3, <2>1, <2>2
<1>7. CrmTypeOK' /\ LateFits'
  BY <1>2, <1>5 DEF CrmInv, CrmTypeOK, LateFits, vars
<1>8. ASSUME NEW i \in Jobs
      PROVE  WireFits(i)'
  <2>1. WireFits(i)
    BY DEF CrmInv
  <2>2. CASE i # j
    <3>1. wire'[i] = wire[i]
      BY <1>5, <2>2
    <3>2. \A m \in 1 .. Len(wire[i]) : RequestFits(i, m)'
      BY <1>2, <1>6, <2>1, <3>1 DEF WireFits, RequestFits, Made, Mark, vars
    <3>3. \A m : Reported(i, m)' <=> Reported(i, m)
      BY <1>2, <3>1 DEF Reported, Made, Mark
    <3> QED  BY <1>2, <2>1, <3>1, <3>2, <3>3 DEF WireFits, Unbroken, vars
  <2>3. CASE i = j
    <3>1. ASSUME NEW m \in 1 .. Len(wire[j])
          PROVE  RequestFits(j, m)'
      <4>1. RequestFits(j, m)
        BY <1>1 DEF WireFits
      <4>2. CASE m # k
        BY <1>2, <1>5, <1>6, <4>1, <4>2 DEF RequestFits, Made, Mark, vars
      <4>3. CASE m = k
        <5>1. (Made(wire[j][k]))' = Made(p)
          BY <1>5 DEF Made, Mark
        <5> QED  BY <1>2, <1>3, <1>5, <1>6, <4>1, <4>3, <5>1 DEF RequestFits, vars
      <4> QED  BY <4>2, <4>3
    <3>2. \A m \in 1 .. Len(wire[j]) : Reported(j, m) => Reported(j, m)'
      BY <1>1, <1>2, <1>5 DEF Reported, Made, Mark
    <3>3. /\ Len(wire'[j]) = Len(wire[j]) /\ Len(wire[j]) \in Nat
          /\ UNCHANGED <<calls, pc, status>>
      BY <1>1, <1>2, <1>5 DEF vars
    <3>4. Unbroken(j)' => Unbroken(j)
      BY <3>3 DEF Unbroken
    <3> QED  BY <2>1, <2>3, <3>1, <3>2, <3>3, <3>4 DEF WireFits
  <2> QED  BY <2>2, <2>3
<1>9. /\ DoneFits /\ restarts \in Nat /\ q.restart = restarts
      /\ (q.record # NoRecord => policy # "RiskBasedPolicy")
  BY <1>1, RequestOnRecord DEF CrmInv, CrmTypeOK, RequestFits
<1>10. DoneFits'
  <2>1. CASE Create(q)
    <3>1. q.record # NoRecord
      BY <2>1 DEF Create
    <3> QED  BY <1>1, <1>2, <1>9, <2>1, <3>1, CreateKeeps DEF vars, CrmInv
  <2>2. CASE UNCHANGED <<crm, done>>
    BY <1>2, <1>9, <2>2 DEF DoneFits, vars
  <2> QED  BY <1>3, <2>1, <2>2
<1>11. OriginsFit'
  <2> SUFFICES ASSUME NEW e \in done', e.restart = restarts PROVE Origin(e)'
    BY <1>2 DEF OriginsFit
  <2>1. CASE e \in done
    <3>1. Origin(e)
      BY <2>1 DEF CrmInv, OriginsFit
    <3>2. ASSUME NEW i \in Jobs
          PROVE  /\ Len(wire'[i]) \in Nat /\ Len(wire[i]) <= Len(wire'[i])
                 /\ \A m \in 1 .. Len(wire[i]) :
                       wire[i][m].state # "sent" => wire'[i][m] = wire[i][m]
      <4>1. wire'[i] \in Seq(Request)
        BY <1>5
      <4>2. Len(wire'[i]) \in Nat /\ Len(wire'[i]) = Len(wire[i])
        BY <1>5, <4>1
      <4>3. CASE i = j
        BY <1>1, <1>5, <4>2, <4>3
      <4>4. CASE i # j
        <5>1. wire'[i] = wire[i]
          BY <1>5, <4>4
        <5> QED  BY <4>2, <5>1
      <4> QED  BY <4>3, <4>4
    <3> QED  BY <3>1, <3>2, OriginStays DEF CrmInv
  <2>2. CASE e \notin done
    <3>1. Create(q) /\ p.life = life[q.record] /\ e = Mark(q, life[q.record])
      BY <1>3, <2>2 DEF Create
    <3>2. e = Made(p)
      BY <1>3, <3>1 DEF Made, Mark
    <3>3. (Made(wire[j][k]))' = e /\ (wire'[j][k]).state # "sent" /\ k \in 1 .. Len(wire'[j])
      BY <1>1, <1>3, <1>5, <3>2 DEF Made, Mark
    <3> QED  BY <3>3 DEF Origin
  <2> QED  BY <2>1, <2>2
<1> QED  BY <1>7, <1>8, <1>10, <1>11 DEF CrmInv

\* Requests and calls stay while the CRM alone does something.
LEMMA WiresStand ==
    ASSUME CrmInv, UNCHANGED <<vars, wire, restarts, told>>, done \subseteq done'
    PROVE  \A j \in Jobs : WireFits(j)'
<1> TAKE j \in Jobs
<1>1. WireFits(j)
  BY DEF CrmInv
<1>2. \A k \in 1 .. Len(wire[j]) : RequestFits(j, k)'
  BY <1>1 DEF WireFits, RequestFits, Made, Mark, vars
<1>3. \A k : Reported(j, k)' <=> Reported(j, k)
  BY DEF Reported, Made, Mark
<1> QED  BY <1>1, <1>2, <1>3 DEF WireFits, Unbroken, vars

LEMMA HandleLateKeeps ==
    ASSUME Inv, CrmInv, NEW r \in late, HandleLate(r)
    PROVE  CrmInv'
<1>1. r \in Request /\ r.restart < restarts /\ r.restart \in Nat /\ restarts \in Nat
      /\ (policy = "RiskBasedPolicy" => r.record = NoRecord) /\ CrmTypeOK /\ DoneFits
  BY DEF CrmInv, CrmTypeOK, LateFits, Request
<1>2. UNCHANGED <<vars, life, wire, restarts, told>> /\ late' = late \ {r}
  BY DEF HandleLate
<1>3. CrmTypeOK' /\ LateFits'
  BY <1>2 DEF CrmInv, CrmTypeOK, LateFits, vars
<1>4. /\ done \subseteq done'
      /\ \A e \in done' : e \notin done => e.restart = r.restart
  BY DEF HandleLate, Create, Mark
<1>5. \A j \in Jobs : WireFits(j)'
  BY <1>2, <1>4, WiresStand
<1>6. DoneFits'
  <2>1. CASE Create(r)
    <3>1. policy # "RiskBasedPolicy"
      BY <1>1, <2>1 DEF Create
    <3> QED  BY <1>1, <1>2, <2>1, <3>1, CreateKeeps DEF vars
  <2>2. CASE UNCHANGED <<crm, done>>
    BY <1>1, <1>2, <2>2 DEF DoneFits, vars
  <2> QED  BY <2>1, <2>2 DEF HandleLate
<1>7. OriginsFit'
  <2>1. \A e \in done' : e.restart = restarts => e \in done
    BY <1>1, <1>4
  <2> QED  BY <1>2, <2>1 DEF CrmInv, OriginsFit, Origin, Made, Mark
<1> QED  BY <1>3, <1>5, <1>6, <1>7 DEF CrmInv

\* What other clients, and a restart of the API, do to the records.
LEMMA OtherCreateKeeps ==
    ASSUME Inv, CrmInv, OtherCreate
    PROVE  CrmInv'
<1>1. UNCHANGED <<vars, life, wire, late, restarts, done, told>> /\ crm \subseteq crm'
  BY DEF OtherCreate
<1>2. CrmTypeOK' /\ LateFits' /\ OriginsFit'
  <2>1. CrmTypeOK' /\ LateFits'
    BY <1>1 DEF CrmInv, CrmTypeOK, LateFits, vars
  <2>2. \A e : Origin(e)' <=> Origin(e)
    BY <1>1 DEF Origin, Made, Mark
  <2> QED  BY <1>1, <2>1, <2>2 DEF CrmInv, OriginsFit
<1>3. DoneFits'
  BY <1>1 DEF CrmInv, DoneFits, vars
<1>4. \A j \in Jobs : WireFits(j)'
  BY <1>1, WiresStand
<1> QED  BY <1>2, <1>3, <1>4 DEF CrmInv

LEMMA LoseKeeps ==
    ASSUME Inv, CrmInv, Lose
    PROVE  CrmInv'
<1>1. UNCHANGED <<vars, wire, late, restarts, done, told>>
  BY DEF Lose
<1>2. PICK R \in SUBSET crm :
         /\ crm' = crm \ R
         /\ life' = [rec \in Records |-> IF rec \in R THEN life[rec] + 1 ELSE life[rec]]
  BY DEF Lose
<1>3. life \in [Records -> Nat] /\ life' \in [Records -> Nat]
  BY <1>2 DEF CrmInv, CrmTypeOK
<1>4. CrmTypeOK' /\ LateFits' /\ OriginsFit'
  BY <1>1, <1>3 DEF CrmInv, CrmTypeOK, LateFits, OriginsFit, Origin, Made, Mark, vars
<1>5. ASSUME NEW e \in done
      PROVE  /\ e.record \in Records
             /\ e.life \in Nat /\ e.life <= life'[e.record]
             /\ e.record \in crm' \/ e.life < life'[e.record]
             /\ e.restart \in Nat /\ e.restart <= restarts
  <2>1. /\ e.record \in Records
        /\ e.life \in Nat /\ e.life <= life[e.record]
        /\ e.record \in crm \/ e.life < life[e.record]
        /\ e.restart \in Nat /\ e.restart <= restarts
    BY DEF CrmInv, DoneFits
  <2>2. life[e.record] \in Nat
    BY <1>3, <2>1
  <2>3. CASE e.record \in R
    BY <1>2, <2>1, <2>2, <2>3
  <2>4. CASE e.record \notin R
    BY <1>2, <2>1, <2>2, <2>4
  <2> QED  BY <2>3, <2>4
<1>6. DoneFits'
  BY <1>1, <1>5 DEF CrmInv, DoneFits, vars
<1> QED  BY <1>1, <1>4, <1>6, WiresStand DEF CrmInv

\* The agent service starts afresh.
LEMMA RestartInit == Inv /\ Restart => Init'
BY DEF Inv, TypeOK, Restart, Init

LEMMA InitInvNext == Init' => Inv'
BY InitInv, PTL

LEMMA RestartKeeps ==
    ASSUME Inv, CrmInv, Restart
    PROVE  CrmInv'
<1>1. /\ wire' = [j \in Jobs |-> <<>>] /\ calls' = [j \in Jobs |-> <<>>]
      /\ restarts' = restarts + 1 /\ restarts \in Nat
      /\ UNCHANGED <<policy, crm, life, done, told>>
  BY DEF Restart, CrmInv, CrmTypeOK
<1>2. \A r \in late' \ late : \E j \in Jobs : \E k \in DOMAIN wire[j] : r = wire[j][k]
  BY DEF Restart
<1>3. CrmTypeOK'
  <2>1. late' \subseteq Request
    BY <1>2 DEF CrmInv, CrmTypeOK
  <2> QED  BY <1>1, <2>1 DEF CrmInv, CrmTypeOK
<1>4. \A j \in Jobs : WireFits(j)'
  BY <1>1 DEF WireFits
<1>5. LateFits'
  <2> SUFFICES ASSUME NEW r \in late'
               PROVE  r.restart < restarts' /\ (policy' = "RiskBasedPolicy" => r.record = NoRecord)
    BY DEF LateFits
  <2>1. CASE r \in late
    <3>1. r.restart \in Nat /\ r.restart < restarts
      BY <2>1 DEF CrmInv, CrmTypeOK, LateFits, Request
    <3> QED  BY <1>1, <2>1, <3>1 DEF CrmInv, LateFits
  <2>2. CASE r \notin late
    <3>0. PICK j \in Jobs : \E k \in DOMAIN wire[j] : r = wire[j][k]
      BY <1>2, <2>2
    <3>1. PICK k \in DOMAIN wire[j] : r = wire[j][k]
      BY <3>0
    <3>2. RequestFits(j, k)
      BY DEF CrmInv, CrmTypeOK, WireFits
    <3>3. r.restart = restarts
      BY <3>1, <3>2 DEF RequestFits
    <3> QED  BY <1>1, <3>1, <3>3, RequestOnRecord
  <2> QED  BY <2>1, <2>2
<1>6. DoneFits' /\ OriginsFit'
  <2>1. \A e \in done : e.restart \in Nat /\ e.restart <= restarts
    BY DEF CrmInv, DoneFits
  <2>2. \A e \in done : e.restart \in Nat /\ e.restart <= restarts + 1 /\ e.restart # restarts + 1
    BY <1>1, <2>1
  <2> QED  BY <1>1, <2>2 DEF CrmInv, DoneFits, OriginsFit
<1> QED  BY <1>3, <1>4, <1>5, <1>6 DEF CrmInv

-----------------------------------------------------------------------------

LEMMA CrmInitInv == CrmInit => Inv /\ CrmInv
<1> SUFFICES ASSUME CrmInit PROVE Inv /\ CrmInv
  OBVIOUS
<1>1. Inv
  BY InitInv DEF CrmInit
<1>2. CrmTypeOK /\ LateFits /\ OriginsFit /\ DoneFits
  BY DEF CrmInit, CrmTypeOK, LateFits, OriginsFit, DoneFits
<1>3. \A j \in Jobs : WireFits(j)
  BY DEF CrmInit, Init, WireFits
<1> QED  BY <1>1, <1>2, <1>3 DEF CrmInv

LEMMA CrmNextKeeps == Inv /\ CrmInv /\ [CrmNext]_allVars => (Inv /\ CrmInv)'
<1> SUFFICES ASSUME Inv, CrmInv, [CrmNext]_allVars PROVE Inv' /\ CrmInv'
  OBVIOUS
<1>1. CASE \E j \in Jobs : Submit(j) \/ Work(j)
  <2>1. PICK j \in Jobs : Submit(j) \/ Work(j)
    BY <1>1
  <2>2. Inv'
    BY <2>1, JobStep, NextKeeps DEF Next
  <2>3. CrmInv'
    BY <2>1, SubmitKeeps, SendKeeps, SucceedKeeps, FailKeeps, ElsewhereKeeps DEF Work
  <2> QED  BY <2>2, <2>3
<1>2. CASE \E j \in Jobs : \E k \in DOMAIN wire[j] : Handle(j, k)
  BY <1>2, HandleKeeps, NextKeeps DEF Handle
<1>3. CASE \E r \in late : HandleLate(r)
  BY <1>3, HandleLateKeeps, NextKeeps DEF HandleLate
<1>4. CASE Restart
  BY <1>4, RestartInit, InitInvNext, RestartKeeps
<1>5. CASE OtherCreate \/ Lose
  BY <1>5, OtherCreateKeeps, LoseKeeps, NextKeeps DEF OtherCreate, Lose
<1>6. CASE UNCHANGED allVars
  <2>1. UNCHANGED vars /\ UNCHANGED <<crm, life, wire, late, restarts, done, told>>
    BY <1>6 DEF allVars, crmVars
  <2>2. CrmTypeOK' /\ LateFits' /\ OriginsFit' /\ DoneFits'
    BY <2>1 DEF CrmInv, CrmTypeOK, LateFits, OriginsFit, Origin, Made, Mark, DoneFits, vars
  <2> QED  BY <2>1, <2>2, WiresStand, NextKeeps DEF CrmInv
<1> QED  BY <1>1, <1>2, <1>3, <1>4, <1>5, <1>6 DEF CrmNext

\* The invariant the other theorems rest on: requests, calls and the history
\* of the CRM agree, across failures of the network and restarts.
THEOREM CrmFits == CrmSpec => [](Inv /\ CrmInv)
BY CrmInitInv, CrmNextKeeps, PTL DEF CrmSpec

\* request of crmApiTools.ts looks at response.ok: what a run was told is done
\* was done, by that run, and once until the CRM loses the record.
THEOREM ToldIsDone == CrmSpec => []ToldMeansDone
<1>1. CrmInv => ToldMeansDone
  BY DEF CrmInv, DoneFits, ToldMeansDone
<1> QED  BY <1>1, CrmFits, PTL

\* run and crmApiTools.ts: what a completed run asked for, what its requests
\* brought about and what it was told of are the same, and there unless lost.
THEOREM CompletedIsServed == CrmSpec => []CompletedMeansServed
<1>1. Inv /\ CrmInv => CompletedMeansServed
  <2> SUFFICES ASSUME Inv, CrmInv, NEW j \in Jobs, status[j] = "completed"
               PROVE  /\ Mine(j, told) = Mine(j, done)
                      /\ \A k \in DOMAIN wire[j] : wire[j][k].record # NoRecord =>
                            \E e \in Mine(j, done) : e.record = wire[j][k].record
                      /\ \A e \in Mine(j, done) : e.record \in crm \/ e.life < life[e.record]
    BY DEF CompletedMeansServed
  <2>1. /\ WireFits(j) /\ wire[j] \in Seq(Request) /\ told \subseteq done
        /\ \A k \in 1 .. Len(wire[j]) : RequestFits(j, k) /\ Reported(j, k)
    BY DEF CrmInv, CrmTypeOK, DoneFits, WireFits, Unbroken
  <2>2. j \in Started
    BY AgentAssumption DEF Started, Live, Inv, Fits, Statuses
  <2>3. ASSUME NEW e \in Mine(j, done)
        PROVE  e \in told
    <3>1. e \in done /\ e.run = runId[j] /\ e.restart = restarts
      BY DEF Mine
    <3>2. Origin(e)
      BY <3>1 DEF CrmInv, OriginsFit
    <3>3. PICK i \in Jobs : \E k \in 1 .. Len(wire[i]) : e = Made(wire[i][k])
      BY <3>2 DEF Origin
    <3>4. PICK k \in 1 .. Len(wire[i]) : e = Made(wire[i][k])
      BY <3>3
    <3>5. /\ WireFits(i) /\ wire[i] \in Seq(Request) /\ wire[i][k] \in Request
          /\ RequestFits(i, k) /\ Len(calls[i]) = Len(wire[i])
      BY DEF CrmInv, CrmTypeOK, WireFits
    <3>6. i \in Started
      <4>1. calls[i] # <<>>
        BY <3>4, <3>5
      <4> QED  BY <4>1 DEF Started, Live, Inv, Fits
    <3>7. e.run = runId[i] /\ e.record = wire[i][k].record
      BY <3>4, <3>5 DEF RequestFits, Made, Mark
    <3>8. i = j
      BY <2>2, <3>1, <3>6, <3>7 DEF Inv, OwnRuns
    <3>9. e.record # NoRecord
      BY <3>1, AgentCrmAssumption DEF CrmInv, DoneFits
    <3> QED  BY <2>1, <3>4, <3>7, <3>8, <3>9 DEF Reported
  <2>4. Mine(j, told) = Mine(j, done)
    BY <2>1, <2>3 DEF Mine
  <2>5. ASSUME NEW k \in DOMAIN wire[j], wire[j][k].record # NoRecord
        PROVE  \E e \in Mine(j, done) : e.record = wire[j][k].record
    <3>1. k \in 1 .. Len(wire[j])
      BY <2>1
    <3>2. Made(wire[j][k]) \in done
      BY <2>1, <2>5, <3>1 DEF Reported
    <3>3. /\ Made(wire[j][k]).run = runId[j] /\ Made(wire[j][k]).restart = restarts
          /\ Made(wire[j][k]).record = wire[j][k].record
      BY <2>1, <3>1 DEF RequestFits, Made, Mark
    <3> QED  BY <3>2, <3>3 DEF Mine
  <2>6. \A e \in Mine(j, done) : e.record \in crm \/ e.life < life[e.record]
    BY DEF Mine, CrmInv, DoneFits
  <2> QED  BY <2>4, <2>5, <2>6
<1> QED  BY <1>1, CrmFits, PTL

\* handleToolCall and AuditLog: what a request of a run brought about is on
\* record in the trail of that run.
THEOREM EffectsRecorded == CrmSpec => []EffectsOnRecord
<1>1. Inv /\ CrmInv => EffectsOnRecord
  <2> SUFFICES ASSUME Inv, CrmInv, NEW e \in done, e.restart = restarts
               PROVE  Recorded(e.run)
    BY DEF EffectsOnRecord, Recorded
  <2>1. PICK j \in Jobs : \E k \in 1 .. Len(wire[j]) : e = Made(wire[j][k])
    BY DEF CrmInv, OriginsFit, Origin
  <2>2. PICK k \in 1 .. Len(wire[j]) : e = Made(wire[j][k])
    BY <2>1
  <2>3. wire[j] \in Seq(Request) /\ RequestFits(j, k)
    BY DEF CrmInv, CrmTypeOK, WireFits
  <2>4. k \in DOMAIN wire[j] /\ e.run = runId[j] /\ e.record = wire[j][k].record
    BY <2>2, <2>3 DEF RequestFits, Made, Mark
  <2>5. wire[j][k].record # NoRecord
    BY <2>4, AgentCrmAssumption DEF CrmInv, DoneFits
  <2> QED  BY <2>4, <2>5, RequestOnRecord
<1> QED  BY <1>1, CrmFits, PTL

\* RiskBasedPolicy.check: under the default policy no request of the agent ever
\* creates a record, whatever tools the provider asks for.
THEOREM DefaultNeverWrites == CrmSpec => []DefaultPolicyNeverWrites
<1>1. CrmInv => DefaultPolicyNeverWrites
  BY DEF CrmInv, DoneFits, DefaultPolicyNeverWrites
<1> QED  BY <1>1, CrmFits, PTL
=============================================================================
