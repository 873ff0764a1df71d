---------------------------- MODULE AgentProofs ----------------------------
(***************************************************************************)
(* Theorems about AgentRuntime for any number of jobs, any tools, risks,   *)
(* policies and step limits.                                               *)
(*                                                                         *)
(* A step after the start of a job changes that job's variables alone and  *)
(* appends at most one event, to the job's own trail (OwnStep).  So what   *)
(* has to be proved of an action is that it leaves its own job as Fits     *)
(* says; OwnStepKeeps does the rest once for all of them.                  *)
(***************************************************************************)
EXTENDS AgentProperties, FiniteSetTheorems, TLAPS

End(j) == Trail(j)[Len(Trail(j))]

\* What the trail of a job ends with while it awaits what pc says; for a job
\* that handleToolCall has stopped, together with its status.
StoppedFits(j) ==
    \/ /\ status[j] = "failed"
       /\ \/ End(j).type = "agent_decision" /\ End(j).tool # None
          \/ End(j).type = "tool_failed"
    \/ /\ End(j).type = "permission_checked"
       /\ \/ End(j).info = "deny" /\ status[j] = "denied"
          \/ End(j).info = "approval_required" /\ status[j] = "approval_required"

TrailFits(j) ==
    /\ pc[j] \in {"loop", "provider"} => End(j).type \in {"run_started", "tool_finished"}
    /\ pc[j] \in {"decided", "checking"} =>
          End(j) = Entry("agent_decision", toolName[j], None)
    /\ pc[j] = "permitted" =>
          End(j) = Entry("permission_checked", toolName[j], permission[j])
    /\ pc[j] \in {"started", "executing"} =>
          /\ End(j) = Entry("tool_started", toolName[j], None)
          /\ Len(Trail(j)) >= 3
          /\ Trail(j)[Len(Trail(j)) - 1] = Entry("permission_checked", toolName[j], "allow")
    /\ pc[j] = "stopped" => StoppedFits(j)
    /\ pc[j] \in {"finishing", "returned"} =>
          End(j) = Entry("run_finished", None, status[j])

\* The local variables of a job agree with what it awaits.
LocalsFit(j) ==
    /\ pc[j] \in {"checking", "permitted", "started", "executing"} => toolName[j] \in Tools
    /\ pc[j] \in {"checking", "permitted"} => permission[j] = check(toolName[j])
    /\ pc[j] \in {"started", "executing"} => check(toolName[j]) = "allow"
    /\ status[j] = "completed" => pc[j] \in {"finishing", "returned"}

\* What is known of the calls a job has made.
CallFits(j, c) ==
    /\ check(c.tool) = "allow"
    /\ c.at \in 3 .. Len(Trail(j))
    /\ Trail(j)[c.at] = Entry("tool_started", c.tool, None)
    /\ Trail(j)[c.at - 1] = Entry("permission_checked", c.tool, "allow")

CallsFit(j) ==
    /\ \A k \in 1 .. Len(calls[j]) : CallFits(j, calls[j][k])
    /\ \A k \in 2 .. Len(calls[j]) : calls[j][k - 1].at < calls[j][k].at
    /\ pc[j] = "started" => \A k \in 1 .. Len(calls[j]) : calls[j][k].at < Len(Trail(j))

\* No call has failed before the job is stopped, and each has its result.
Unfailed(j) == \A i \in 1 .. Len(Trail(j)) : Trail(j)[i].type # "tool_failed"

ResultsFit(j) ==
    /\ pc[j] \notin {"stopped", "finishing", "returned"} \/ status[j] = "completed" => Unfailed(j)
    /\ pc[j] \in {"loop", "provider", "decided", "checking", "permitted", "started"}
          \/ status[j] = "completed" => Len(calls[j]) = Len(toolResults[j])
    /\ pc[j] = "executing" => Len(calls[j]) = Len(toolResults[j]) + 1

Fits(j) ==
    IF pc[j] = "idle"
    THEN calls[j] = <<>> /\ toolResults[j] = <<>> /\ status[j] = None
    ELSE /\ runId[j] \in RunIds /\ runId[j] < nextRunId /\ Trail(j) # <<>>
         /\ TrailFits(j) /\ LocalsFit(j) /\ CallsFit(j) /\ ResultsFit(j)

\* A trail that tells one run.
Tells(s) ==
    /\ s # <<>> => s[1].type = "run_started"
    /\ \A i \in 1 .. Len(s) - 1 : MayFollow(s[i], s[i + 1])

Started == {j \in Jobs : Live(j)}

\* Run ids are given out once each, and no run without a job has a trail.
OwnRuns ==
    /\ nextRunId = Cardinality(Started) + 1
    /\ \A i, j \in Started : runId[i] = runId[j] => i = j
    /\ \A r \in RunIds : r >= nextRunId => log[r] = <<>>

Inv ==
    /\ TypeOK
    /\ OwnRuns
    /\ \A r \in RunIds : Tells(log[r])
    /\ \A j \in Jobs : Fits(j)

-----------------------------------------------------------------------------
(* The shape of every step but Start.                                      *)

OwnStep(j) ==
    /\ Live(j) /\ pc'[j] # "idle"
    /\ UNCHANGED <<policy, nextRunId, runId, maxSteps>>
    /\ \A i \in Jobs \ {j} :
          /\ pc'[i] = pc[i] /\ toolName'[i] = toolName[i] /\ status'[i] = status[i]
          /\ permission'[i] = permission[i] /\ toolResults'[i] = toolResults[i]
          /\ calls'[i] = calls[i]
    /\ \/ log' = log
       \/ \E e \in Event : audit(j, e) /\ MayFollow(End(j), e)

LEMMA TellsAppend ==
    ASSUME NEW s \in Seq(Event), s # <<>>, Tells(s),
           NEW e \in Event, MayFollow(s[Len(s)], e)
    PROVE  Tells(Append(s, e))
<1>1. /\ Len(Append(s, e)) = Len(s) + 1 /\ Len(s) \in Nat \ {0}
      /\ \A i \in 1 .. Len(s) : Append(s, e)[i] = s[i]
      /\ Append(s, e)[Len(s) + 1] = e
  OBVIOUS
<1>2. Append(s, e)[1].type = "run_started"
  BY <1>1 DEF Tells
<1>3. ASSUME NEW i \in 1 .. Len(Append(s, e)) - 1
      PROVE  MayFollow(Append(s, e)[i], Append(s, e)[i + 1])
  <2>1. CASE i = Len(s)
    BY <2>1, <1>1
  <2>2. CASE i # Len(s)
    <3>1. i \in 1 .. Len(s) - 1 /\ i + 1 \in 1 .. Len(s)
      BY <2>2, <1>1
    <3>2. MayFollow(s[i], s[i + 1])
      BY <3>1 DEF Tells
    <3> QED  BY <3>1, <3>2, <1>1
  <2> QED  BY <2>1, <2>2
<1> QED  BY <1>2, <1>3 DEF Tells

\* What an append to j's trail does to the log.
LEMMA AuditOwn ==
    ASSUME Inv, NEW j \in Jobs, Live(j), NEW e \in Event, audit(j, e),
           runId' = runId
    PROVE  /\ log' \in [RunIds -> Seq(Event)]
           /\ Trail(j)' = Append(Trail(j), e)
           /\ \A r \in RunIds : r # runId[j] => log'[r] = log[r]
           /\ Trail(j) \in Seq(Event) /\ Trail(j) # <<>>
           /\ runId[j] \in RunIds /\ runId[j] < nextRunId
<1>1. runId[j] \in RunIds /\ runId[j] < nextRunId /\ Trail(j) # <<>>
  BY DEF Inv, Fits, Live
<1>2. log \in [RunIds -> Seq(Event)]
  BY DEF Inv, TypeOK
<1> QED  BY <1>1, <1>2 DEF audit, Trail

\* A step of one job leaves everything else as it has to be.
LEMMA OwnStepKeeps ==
    ASSUME Inv, NEW j \in Jobs, OwnStep(j), TypeOK', Fits(j)'
    PROVE  Inv'
<1>1. \A i \in Jobs : Live(i)' <=> Live(i)
  BY DEF OwnStep, Live
<1>2. Started' = Started
  BY <1>1 DEF Started
<1>3. \A r \in RunIds : r # runId[j] => log'[r] = log[r]
  BY AuditOwn DEF OwnStep
<1>4. runId[j] \in RunIds /\ runId[j] < nextRunId
  BY DEF OwnStep, Inv, Fits, Live
<1>5. OwnRuns'
  <2>1. nextRunId' = Cardinality(Started') + 1
    BY <1>2 DEF OwnStep, Inv, OwnRuns
  <2>2. \A i, k \in Started' : runId'[i] = runId'[k] => i = k
    BY <1>2 DEF OwnStep, Inv, OwnRuns
  <2>3. ASSUME NEW r \in RunIds, r >= nextRunId'
        PROVE  log'[r] = <<>>
    <3>1. nextRunId' = nextRunId /\ nextRunId \in Nat
      BY DEF OwnStep, Inv, TypeOK
    <3>2. r # runId[j]
      BY <2>3, <3>1, <1>4 DEF RunIds
    <3> QED  BY <2>3, <3>1, <3>2, <1>3 DEF Inv, OwnRuns
  <2> QED  BY <2>1, <2>2, <2>3 DEF OwnRuns
<1>6. ASSUME NEW r \in RunIds
      PROVE  Tells(log'[r])
  <2>1. CASE log' = log \/ r # runId[j]
    BY <2>1, <1>3 DEF Inv
  <2>2. CASE log' # log /\ r = runId[j]
    <3>1. PICK e \in Event : audit(j, e) /\ MayFollow(End(j), e)
      BY <2>2 DEF OwnStep
    <3>2. /\ Trail(j)' = Append(Trail(j), e)
          /\ Trail(j) \in Seq(Event) /\ Trail(j) # <<>>
      BY <3>1, AuditOwn DEF OwnStep
    <3>3. Tells(Trail(j))
      BY <1>4 DEF Inv, Trail
    <3>4. Tells(Append(Trail(j), e))
      BY <3>1, <3>2, <3>3, TellsAppend DEF End
    <3>5. log'[r] = Trail(j)'
      BY <2>2 DEF Trail, OwnStep
    <3> QED  BY <3>2, <3>4, <3>5
  <2> QED  BY <2>1, <2>2
<1>7. ASSUME NEW i \in Jobs \ {j}
      PROVE  Fits(i)'
  <2>0. Fits(i)
    BY DEF Inv
  <2>1. CASE pc[i] = "idle"
    BY <2>0, <2>1 DEF OwnStep, Fits
  <2>2. CASE pc[i] # "idle"
    <3>1. i \in Started /\ j \in Started
      BY <2>2 DEF Started, Live, OwnStep
    <3>2. runId[i] # runId[j] /\ runId[i] \in RunIds
      BY <3>1, <2>0, <2>2 DEF Inv, OwnRuns, Fits
    <3>3. Trail(i)' = Trail(i)
      BY <3>2, <1>3 DEF Trail, OwnStep
    <3>4. \A t : check(t)' = check(t)
      BY DEF check, OwnStep
    <3>5. TrailFits(i)' /\ LocalsFit(i)' /\ CallsFit(i)' /\ ResultsFit(i)'
      <4>1. TrailFits(i)'
        BY <2>0, <2>2, <3>3 DEF Fits, TrailFits, StoppedFits, End, OwnStep
      <4>2. LocalsFit(i)'
        BY <2>0, <2>2, <3>4 DEF Fits, LocalsFit, OwnStep
      <4>3. CallsFit(i)'
        <5>1. calls'[i] = calls[i] /\ pc'[i] = pc[i]
          BY DEF OwnStep
        <5>2. ASSUME NEW k \in 1 .. Len(calls[i])
              PROVE  CallFits(i, calls[i][k])'
          <6>1. CallFits(i, calls[i][k])
            BY <2>0, <2>2 DEF Fits, CallsFit
          <6>2. policy' = policy
            BY DEF OwnStep
          <6> QED  BY <3>3, <5>1, <6>1, <6>2 DEF CallFits, check
        <5>3. \A k \in 1 .. Len(calls[i]) : CallFits(i, calls[i][k])'
          BY <5>2
        <5> QED  BY <2>0, <2>2, <3>3, <5>1, <5>3 DEF Fits, CallsFit
      <4>4. ResultsFit(i)'
        BY <2>0, <2>2, <3>3 DEF Fits, ResultsFit, Unfailed, OwnStep
      <4> QED  BY <4>1, <4>2, <4>3, <4>4
    <3> QED  BY <2>0, <2>2, <3>2, <3>3, <3>5 DEF Fits, OwnStep
  <2> QED  BY <2>1, <2>2
<1> QED  BY <1>5, <1>6, <1>7 DEF Inv

-----------------------------------------------------------------------------
(* What is common to many actions.                                         *)

\* The calls of a job that makes none in this step stay as they have to be.
LEMMA CallsKept ==
    ASSUME Inv, NEW j \in Jobs, OwnStep(j), calls' = calls,
           log' = log => pc'[j] # "started"
    PROVE  CallsFit(j)'
<1>1. CallsFit(j) /\ Trail(j) \in Seq(Event)
  BY DEF Inv, TypeOK, Fits, OwnStep, Live, Trail
<1>2. Len(Trail(j)) \in Nat
  BY <1>1
<1>3. \A k \in 1 .. Len(calls[j]) : calls[j][k].at \in 3 .. Len(Trail(j))
  BY <1>1 DEF CallsFit, CallFits
<1>4. policy' = policy
  BY DEF OwnStep
<1>5. CASE log' = log
  <2>1. Trail(j)' = Trail(j)
    BY <1>5 DEF Trail, OwnStep
  <2> QED  BY <1>1, <1>4, <1>5, <2>1 DEF CallsFit, CallFits, check
<1>6. CASE log' # log
  <2>1. PICK e \in Event : audit(j, e)
    BY <1>6 DEF OwnStep
  <2>2. Trail(j)' = Append(Trail(j), e)
    BY <2>1, AuditOwn DEF OwnStep
  <2>3. /\ Len(Trail(j)') = Len(Trail(j)) + 1
        /\ \A i \in 1 .. Len(Trail(j)) : Trail(j)'[i] = Trail(j)[i]
    BY <1>1, <2>2
  <2>4. ASSUME NEW k \in 1 .. Len(calls[j])
        PROVE  CallFits(j, calls[j][k])' /\ (calls[j][k].at)' < Len(Trail(j)')
    <3>1. CallFits(j, calls[j][k]) /\ calls[j][k].at \in 3 .. Len(Trail(j))
      BY <1>1, <1>3 DEF CallsFit
    <3>2. calls[j][k].at - 1 \in 1 .. Len(Trail(j)) /\ calls[j][k].at \in 1 .. Len(Trail(j))
      BY <3>1, <1>2
    <3>3. check(calls[j][k].tool)' = check(calls[j][k].tool)
      BY <1>4 DEF check
    <3>4. /\ Trail(j)'[calls[j][k].at] = Trail(j)[calls[j][k].at]
          /\ Trail(j)'[calls[j][k].at - 1] = Trail(j)[calls[j][k].at - 1]
      BY <2>3, <3>2
    <3>5. calls[j][k].at \in 3 .. Len(Trail(j)') /\ calls[j][k].at < Len(Trail(j)')
      BY <1>2, <2>3, <3>1
    <3> QED  BY <3>1, <3>3, <3>4, <3>5 DEF CallFits
  <2> QED  BY <1>1, <2>4 DEF CallsFit
<1> QED  BY <1>5, <1>6

\* An event that is no failure leaves a trail without failures.
LEMMA UnfailedKept ==
    ASSUME Inv, NEW j \in Jobs, Live(j), NEW e \in Event, audit(j, e),
           runId' = runId, e.type # "tool_failed", Unfailed(j)
    PROVE  Unfailed(j)'
<1>1. Trail(j)' = Append(Trail(j), e) /\ Trail(j) \in Seq(Event)
  BY AuditOwn
<1>2. /\ Len(Trail(j)') = Len(Trail(j)) + 1 /\ Len(Trail(j)) \in Nat
      /\ \A i \in 1 .. Len(Trail(j)) : Trail(j)'[i] = Trail(j)[i]
      /\ Trail(j)'[Len(Trail(j)) + 1] = e
  BY <1>1
<1>3. ASSUME NEW i \in 1 .. Len(Trail(j)')
      PROVE  Trail(j)'[i].type # "tool_failed"
  <2>1. CASE i = Len(Trail(j)) + 1
    BY <2>1, <1>2
  <2>2. CASE i \in 1 .. Len(Trail(j))
    BY <2>2, <1>2 DEF Unfailed
  <2> QED  BY <2>1, <2>2, <1>2
<1> QED  BY <1>3 DEF Unfailed

\* The end of a trail after an append, and the length it had.
LEMMA AppendEnds ==
    ASSUME Inv, NEW j \in Jobs, Live(j), NEW e \in Event, audit(j, e),
           runId' = runId
    PROVE  /\ End(j)' = e /\ Trail(j)' # <<>>
           /\ Len(Trail(j)') = Len(Trail(j)) + 1
           /\ Len(Trail(j)) \in Nat \ {0}
           /\ Trail(j)'[Len(Trail(j)') - 1] = End(j)
<1>1. Trail(j)' = Append(Trail(j), e) /\ Trail(j) \in Seq(Event) /\ Trail(j) # <<>>
  BY AuditOwn
<1>2. Len(Trail(j)) \in Nat \ {0}
  BY <1>1
<1> QED  BY <1>1, <1>2 DEF End

LEMMA Entries ==
    /\ Entry("run_started", None, None) \in Event
    /\ \A t \in Names \cup {None} : Entry("agent_decision", t, None) \in Event
    /\ \A t \in Tools, p \in Permissions : Entry("permission_checked", t, p) \in Event
    /\ \A t \in Tools, ty \in {"tool_started", "tool_finished", "tool_failed"} :
          Entry(ty, t, None) \in Event
    /\ \A s \in Statuses : Entry("run_finished", None, s) \in Event
BY DEF Event, Entry

LEMMA CheckType == Inv => \A t \in Tools : check(t) \in Permissions
BY AgentAssumption DEF Inv, TypeOK, check, Permissions

-----------------------------------------------------------------------------
(* The actions.  finish, which five of them end in, comes first.           *)

LEMMA FinishKeeps ==
    ASSUME Inv, NEW j \in Jobs, Live(j), NEW s \in Statuses, finish(j, s),
           MayFollow(End(j), Entry("run_finished", None, s)),
           s = "completed" =>
              pc[j] \in {"loop", "provider", "decided", "checking", "permitted", "started"},
           UNCHANGED <<policy, nextRunId, runId, maxSteps, step, toolName,
                       permission, toolResults, calls>>
    PROVE  Inv'
<1> DEFINE e == Entry("run_finished", None, s)
<1>1. e \in Event /\ audit(j, e)
  BY Entries DEF finish
<1>2. pc' = [pc EXCEPT ![j] = "finishing"] /\ status' = [status EXCEPT ![j] = s]
  BY DEF finish, Await
<1>3. pc'[j] = "finishing" /\ status'[j] = s
  BY <1>2 DEF Inv, TypeOK
<1>4. OwnStep(j)
  BY <1>1, <1>2, <1>3 DEF OwnStep, Inv, TypeOK
<1>5. TypeOK'
  <2>1. log' \in [RunIds -> Seq(Event)]
    BY <1>1, AuditOwn
  <2>2. "finishing" \in PCs
    BY DEF PCs
  <2> QED  BY <1>2, <2>1, <2>2 DEF Inv, TypeOK
<1>6. Trail(j)' # <<>> /\ End(j)' = e
  BY <1>1, AppendEnds
<1>7. TrailFits(j)' /\ LocalsFit(j)'
  BY <1>3, <1>6 DEF TrailFits, LocalsFit
<1>8. CallsFit(j)'
  BY <1>3, <1>4, CallsKept
<1>9. ResultsFit(j)'
  <2>1. CASE s # "completed"
    BY <2>1, <1>3 DEF ResultsFit
  <2>2. CASE s = "completed"
    <3>1. Unfailed(j) /\ Len(calls[j]) = Len(toolResults[j])
      BY <2>2 DEF Inv, Fits, ResultsFit, Live
    <3>2. Unfailed(j)'
      BY <1>1, <3>1, UnfailedKept DEF Entry
    <3> QED  BY <1>3, <3>1, <3>2 DEF ResultsFit
  <2> QED  BY <2>1, <2>2
<1>10. Fits(j)'
  BY <1>3, <1>6, <1>7, <1>8, <1>9 DEF Fits, Inv, Live
<1> QED  BY <1>4, <1>5, <1>10, OwnStepKeeps

LEMMA EndsKeep ==
    ASSUME Inv, NEW j \in Jobs, UNCHANGED policy,
           \/ ExceedMaxSteps(j) \/ ProviderFails(j) \/ Complete(j)
           \/ InputNotObject(j) \/ FinishStopped(j)
    PROVE  Inv'
<1> USE DEF Statuses
<1>0. pc[j] # "idle" => Fits(j) /\ TrailFits(j) /\ LocalsFit(j)
  BY DEF Inv, Fits
<1>1. CASE ExceedMaxSteps(j)
  <2>1. End(j).type \in {"run_started", "tool_finished"}
    BY <1>0, <1>1 DEF ExceedMaxSteps, TrailFits, Entry, Names
  <2>2. MayFollow(End(j), Entry("run_finished", None, "failed"))
    BY <2>1 DEF MayFollow, Entry
  <2> QED  BY <1>1, <2>2, FinishKeeps DEF ExceedMaxSteps, Live
<1>2. CASE ProviderFails(j)
  <2>1. End(j).type \in {"run_started", "tool_finished"}
    BY <1>0, <1>2 DEF ProviderFails, TrailFits, Entry, Names
  <2>2. MayFollow(End(j), Entry("run_finished", None, "failed"))
    BY <2>1 DEF MayFollow, Entry
  <2> QED  BY <1>2, <2>2, FinishKeeps DEF ProviderFails, Live
<1>3. CASE Complete(j)
  <2>1. End(j) = Entry("agent_decision", None, None)
    BY <1>0, <1>3 DEF Complete, TrailFits, Entry, Names
  <2>2. MayFollow(End(j), Entry("run_finished", None, "completed"))
    BY <2>1 DEF MayFollow, Entry
  <2> QED  BY <1>3, <2>2, FinishKeeps DEF Complete, Live
<1>4. CASE InputNotObject(j)
  <2>1. End(j).type = "agent_decision" /\ End(j).tool # None
    BY <1>0, <1>4, AgentAssumption DEF InputNotObject, TrailFits, Entry, Names
  <2>2. MayFollow(End(j), Entry("run_finished", None, "failed"))
    BY <2>1 DEF MayFollow, Entry
  <2> QED  BY <1>4, <2>2, FinishKeeps DEF InputNotObject, Live
<1>5. CASE FinishStopped(j)
  <2>1. StoppedFits(j) /\ status[j] # "completed"
    BY <1>0, <1>5 DEF FinishStopped, TrailFits, LocalsFit
  <2>2. status[j] \in Statuses
    BY <2>1 DEF StoppedFits
  <2>3. MayFollow(End(j), Entry("run_finished", None, status[j]))
    BY <2>1 DEF StoppedFits, MayFollow, Entry
  <2> QED  BY <1>5, <2>1, <2>2, <2>3, FinishKeeps DEF FinishStopped, Live
<1> QED  BY <1>1, <1>2, <1>3, <1>4, <1>5

\* Return changes pc alone, from a place where nothing but the end is known.
LEMMA ReturnKeeps ==
    ASSUME Inv, NEW j \in Jobs, Return(j), UNCHANGED policy
    PROVE  Inv'
<1>1. pc' = [pc EXCEPT ![j] = "returned"] /\ pc'[j] = "returned"
  BY DEF Return, Await, Inv, TypeOK
<1>2. OwnStep(j)
  BY <1>1 DEF OwnStep, Return, Live, Inv, TypeOK
<1>3. TypeOK'
  BY <1>1 DEF Return, Inv, TypeOK, PCs
<1>4. Trail(j)' = Trail(j)
  BY DEF Return, Trail
<1>5. Fits(j)
  BY DEF Inv
<1>6. CallsFit(j)'
  BY <1>1, <1>2, CallsKept DEF Return
<1>7. TrailFits(j)' /\ LocalsFit(j)'
  <2>1. End(j) = Entry("run_finished", None, status[j])
    BY <1>5 DEF Return, Fits, TrailFits
  <2>2. End(j)' = End(j) /\ status' = status
    BY <1>4 DEF End, Return
  <2> QED  BY <1>1, <2>1, <2>2 DEF TrailFits, LocalsFit
<1>8. ResultsFit(j)'
  BY <1>1, <1>4, <1>5 DEF Return, Fits, ResultsFit, Unfailed
<1> QED  BY <1>1, <1>2, <1>3, <1>4, <1>5, <1>6, <1>7, <1>8, OwnStepKeeps DEF Fits, Return

\* A tool call that is stopped: an unknown tool, or no permission.
LEMMA StopKeeps ==
    ASSUME Inv, NEW j \in Jobs, UNCHANGED policy, UnknownTool(j) \/ Withhold(j)
    PROVE  Inv'
<1>1. PICK s \in Statuses \ {"completed"} :
         /\ Stop(j, s)
         /\ \/ pc[j] = "decided" /\ toolName[j] \in Unregistered /\ s = "failed"
            \/ pc[j] = "permitted" /\ permission[j] = "approval_required" /\ s = permission[j]
            \/ pc[j] = "permitted" /\ permission[j] = "deny" /\ s = "denied"
  BY DEF UnknownTool, Withhold, Statuses
<1>0. UNCHANGED <<nextRunId, log, runId, maxSteps, step, toolName, permission, toolResults, calls>>
  BY DEF UnknownTool, Withhold
<1>2. /\ pc' = [pc EXCEPT ![j] = "stopped"] /\ pc'[j] = "stopped"
      /\ status' = [status EXCEPT ![j] = s] /\ status'[j] = s
  BY <1>1 DEF Stop, Await, Inv, TypeOK
<1>3. OwnStep(j)
  BY <1>0, <1>1, <1>2 DEF OwnStep, Live, Inv, TypeOK
<1>4. TypeOK'
  BY <1>0, <1>1, <1>2 DEF Inv, TypeOK, PCs
<1>5. Trail(j)' = Trail(j)
  BY <1>0 DEF Trail
<1>6. Fits(j) /\ TrailFits(j)
  BY <1>1 DEF Inv, Fits
<1>7. TrailFits(j)'
  <2>1. StoppedFits(j)'
    BY <1>1, <1>2, <1>5, <1>6, AgentAssumption DEF StoppedFits, TrailFits, End, Entry, Names
  <2> QED  BY <1>2, <2>1 DEF TrailFits
<1>8. LocalsFit(j)' /\ ResultsFit(j)'
  BY <1>1, <1>2 DEF LocalsFit, ResultsFit
<1>9. CallsFit(j)'
  BY <1>0, <1>2, <1>3, CallsKept
<1> QED  BY <1>0, <1>1, <1>2, <1>3, <1>4, <1>5, <1>6, <1>7, <1>8, <1>9, OwnStepKeeps DEF Fits

LEMMA AskProviderKeeps ==
    ASSUME Inv, NEW j \in Jobs, AskProvider(j), UNCHANGED policy
    PROVE  Inv'
<1>1. pc' = [pc EXCEPT ![j] = "provider"] /\ pc'[j] = "provider" /\ pc[j] = "loop"
  BY DEF AskProvider, Await, Inv, TypeOK
<1>2. OwnStep(j)
  BY <1>1 DEF OwnStep, AskProvider, Live, Inv, TypeOK
<1>3. TypeOK'
  BY <1>1 DEF AskProvider, Inv, TypeOK, PCs
<1>4. Trail(j)' = Trail(j)
  BY DEF AskProvider, Trail
<1>5. Fits(j)
  BY DEF Inv
<1>6. CallsFit(j)'
  BY <1>1, <1>2, CallsKept DEF AskProvider
<1>7. TrailFits(j)' /\ LocalsFit(j)'
  BY <1>1, <1>4, <1>5 DEF AskProvider, Fits, TrailFits, LocalsFit, End
<1>8. ResultsFit(j)'
  BY <1>1, <1>4, <1>5 DEF AskProvider, Fits, ResultsFit, Unfailed
<1> QED  BY <1>1, <1>2, <1>3, <1>4, <1>5, <1>6, <1>7, <1>8, OwnStepKeeps DEF Fits, AskProvider

LEMMA CheckPermissionKeeps ==
    ASSUME Inv, NEW j \in Jobs, CheckPermission(j), UNCHANGED policy
    PROVE  Inv'
<1>1. /\ pc' = [pc EXCEPT ![j] = "checking"] /\ pc'[j] = "checking" /\ pc[j] = "decided"
      /\ permission' = [permission EXCEPT ![j] = check(toolName[j])]
      /\ permission'[j] = check(toolName[j]) /\ toolName[j] \in Tools
  BY DEF CheckPermission, Await, Inv, TypeOK
<1>2. OwnStep(j)
  BY <1>1 DEF OwnStep, CheckPermission, Live, Inv, TypeOK
<1>3. TypeOK'
  BY <1>1, CheckType DEF CheckPermission, Inv, TypeOK, PCs
<1>4. Trail(j)' = Trail(j)
  BY DEF CheckPermission, Trail
<1>5. Fits(j)
  BY DEF Inv
<1>6. CallsFit(j)'
  BY <1>1, <1>2, CallsKept DEF CheckPermission
<1>7. TrailFits(j)'
  BY <1>1, <1>4, <1>5 DEF CheckPermission, Fits, TrailFits, End
<1>8. LocalsFit(j)'
  <2>1. check(toolName[j])' = check(toolName[j])
    BY DEF check, CheckPermission
  <2> QED  BY <1>1, <1>5, <2>1 DEF CheckPermission, Fits, LocalsFit
<1>9. ResultsFit(j)'
  BY <1>1, <1>4, <1>5 DEF CheckPermission, Fits, ResultsFit, Unfailed
<1> QED  BY <1>1, <1>2, <1>3, <1>4, <1>5, <1>6, <1>7, <1>8, <1>9, OwnStepKeeps
         DEF Fits, CheckPermission

LEMMA ProviderDecidesKeeps ==
    ASSUME Inv, NEW j \in Jobs, ProviderDecides(j), UNCHANGED policy
    PROVE  Inv'
<1>1. PICK t \in Names \cup {None} :
         /\ toolName' = [toolName EXCEPT ![j] = t]
         /\ audit(j, Entry("agent_decision", t, None))
  BY DEF ProviderDecides
<1> DEFINE e == Entry("agent_decision", t, None)
<1>2. /\ pc' = [pc EXCEPT ![j] = "decided"] /\ pc'[j] = "decided" /\ pc[j] = "provider"
      /\ toolName'[j] = t /\ Live(j)
  BY <1>1 DEF ProviderDecides, Await, Inv, TypeOK, Live
<1>3. e \in Event /\ runId' = runId
  BY Entries DEF ProviderDecides
<1>4. Fits(j) /\ TrailFits(j)
  BY <1>2 DEF Inv, Fits
<1>5. MayFollow(End(j), e)
  BY <1>2, <1>4 DEF TrailFits, MayFollow, Entry
<1>6. OwnStep(j)
  BY <1>1, <1>2, <1>3, <1>5 DEF OwnStep, ProviderDecides, Inv, TypeOK
<1>7. TypeOK'
  <2>1. log' \in [RunIds -> Seq(Event)]
    BY <1>1, <1>2, <1>3, AuditOwn
  <2> QED  BY <1>1, <1>2, <2>1 DEF ProviderDecides, Inv, TypeOK, PCs
<1>8. End(j)' = e /\ Trail(j)' # <<>>
  BY <1>1, <1>2, <1>3, AppendEnds
<1>9. TrailFits(j)'
  BY <1>2, <1>8 DEF TrailFits
<1>10. LocalsFit(j)'
  BY <1>2, <1>4 DEF ProviderDecides, Fits, LocalsFit
<1>11. CallsFit(j)'
  BY <1>2, <1>6, CallsKept DEF ProviderDecides
<1>12. ResultsFit(j)'
  <2>1. Unfailed(j) /\ Len(calls[j]) = Len(toolResults[j])
    BY <1>2, <1>4 DEF Fits, ResultsFit
  <2>2. Unfailed(j)'
    BY <1>1, <1>2, <1>3, <2>1, UnfailedKept DEF Entry
  <2> QED  BY <1>2, <2>1, <2>2 DEF ProviderDecides, ResultsFit
<1> QED  BY <1>2, <1>4, <1>6, <1>7, <1>8, <1>9, <1>10, <1>11, <1>12, OwnStepKeeps
         DEF Fits, ProviderDecides

LEMMA auditPermissionKeeps ==
    ASSUME Inv, NEW j \in Jobs, auditPermission(j), UNCHANGED policy
    PROVE  Inv'
<1> DEFINE e == Entry("permission_checked", toolName[j], permission[j])
<1>1. /\ pc' = [pc EXCEPT ![j] = "permitted"] /\ pc'[j] = "permitted" /\ pc[j] = "checking"
      /\ audit(j, e) /\ Live(j) /\ runId' = runId
  BY DEF auditPermission, Await, Inv, TypeOK, Live
<1>2. Fits(j) /\ TrailFits(j) /\ LocalsFit(j)
  BY <1>1 DEF Inv, Fits
<1>3. toolName[j] \in Tools /\ permission[j] \in Permissions
  BY <1>1, <1>2, CheckType DEF LocalsFit
<1>4. e \in Event
  BY <1>3, Entries
<1>5. MayFollow(End(j), e)
  BY <1>1, <1>2, <1>3, AgentAssumption DEF TrailFits, MayFollow, Entry, Names
<1>6. OwnStep(j)
  BY <1>1, <1>4, <1>5 DEF OwnStep, auditPermission, Inv, TypeOK
<1>7. TypeOK'
  <2>1. log' \in [RunIds -> Seq(Event)]
    BY <1>1, <1>4, AuditOwn
  <2> QED  BY <1>1, <2>1 DEF auditPermission, Inv, TypeOK, PCs
<1>8. End(j)' = e /\ Trail(j)' # <<>>
  BY <1>1, <1>4, AppendEnds
<1>9. TrailFits(j)'
  BY <1>1, <1>8 DEF TrailFits, auditPermission
<1>10. LocalsFit(j)'
  <2>1. check(toolName[j])' = check(toolName[j])
    BY DEF check, auditPermission
  <2> QED  BY <1>1, <1>2, <2>1 DEF auditPermission, LocalsFit
<1>11. CallsFit(j)'
  BY <1>1, <1>6, CallsKept DEF auditPermission
<1>12. ResultsFit(j)'
  <2>1. Unfailed(j) /\ Len(calls[j]) = Len(toolResults[j])
    BY <1>1, <1>2 DEF Fits, ResultsFit
  <2>2. Unfailed(j)'
    BY <1>1, <1>4, <2>1, UnfailedKept DEF Entry
  <2> QED  BY <1>1, <2>1, <2>2 DEF auditPermission, ResultsFit
<1> QED  BY <1>1, <1>2, <1>6, <1>7, <1>8, <1>9, <1>10, <1>11, <1>12, OwnStepKeeps
         DEF Fits, auditPermission

LEMMA StartToolKeeps ==
    ASSUME Inv, NEW j \in Jobs, StartTool(j), UNCHANGED policy
    PROVE  Inv'
<1> DEFINE e == Entry("tool_started", toolName[j], None)
<1>1. /\ pc' = [pc EXCEPT ![j] = "started"] /\ pc'[j] = "started" /\ pc[j] = "permitted"
      /\ audit(j, e) /\ Live(j) /\ runId' = runId /\ permission[j] = "allow"
  BY DEF StartTool, Await, Inv, TypeOK, Live
<1>2. Fits(j) /\ TrailFits(j) /\ LocalsFit(j)
  BY <1>1 DEF Inv, Fits
<1>3. toolName[j] \in Tools /\ check(toolName[j]) = "allow"
  BY <1>1, <1>2 DEF LocalsFit
<1>4. e \in Event
  BY <1>3, Entries
<1>5. End(j) = Entry("permission_checked", toolName[j], "allow")
  BY <1>1, <1>2 DEF TrailFits
<1>6. MayFollow(End(j), e)
  BY <1>5 DEF MayFollow, Entry
<1>7. OwnStep(j)
  BY <1>1, <1>4, <1>6 DEF OwnStep, StartTool, Inv, TypeOK
<1>8. TypeOK'
  <2>1. log' \in [RunIds -> Seq(Event)]
    BY <1>1, <1>4, AuditOwn
  <2> QED  BY <1>1, <2>1 DEF StartTool, Inv, TypeOK, PCs
<1>9. /\ End(j)' = e /\ Trail(j)' # <<>>
      /\ Len(Trail(j)') = Len(Trail(j)) + 1 /\ Len(Trail(j)) \in Nat \ {0}
      /\ Trail(j)'[Len(Trail(j)') - 1] = End(j)
  BY <1>1, <1>4, AppendEnds
<1>10. Len(Trail(j)) # 1
  <2>1. Trail(j)[1].type = "run_started"
    BY <1>1, <1>2 DEF Inv, Tells, Fits, Trail
  <2> QED  BY <2>1, <1>5 DEF End, Entry
<1>11. TrailFits(j)'
  <2>1. Len(Trail(j)') >= 3
    BY <1>9, <1>10
  <2>2. toolName' = toolName
    BY DEF StartTool
  <2> QED  BY <1>1, <1>5, <1>9, <2>1, <2>2 DEF TrailFits
<1>12. LocalsFit(j)'
  <2>1. check(toolName[j])' = check(toolName[j])
    BY DEF check, StartTool
  <2> QED  BY <1>1, <1>2, <1>3, <2>1 DEF StartTool, LocalsFit
<1>13. CallsFit(j)'
  <2>1. log' # log
    BY <1>9 DEF Trail, StartTool
  <2> QED  BY <2>1, <1>7, CallsKept DEF StartTool
<1>14. ResultsFit(j)'
  <2>1. Unfailed(j) /\ Len(calls[j]) = Len(toolResults[j])
    BY <1>1, <1>2 DEF Fits, ResultsFit
  <2>2. Unfailed(j)'
    BY <1>1, <1>4, <2>1, UnfailedKept DEF Entry
  <2> QED  BY <1>1, <2>1, <2>2 DEF StartTool, ResultsFit
<1> QED  BY <1>1, <1>2, <1>7, <1>8, <1>9, <1>11, <1>12, <1>13, <1>14, OwnStepKeeps
         DEF Fits, StartTool

LEMMA executeKeeps ==
    ASSUME Inv, NEW j \in Jobs, execute(j), UNCHANGED policy
    PROVE  Inv'
<1> DEFINE n == Len(Trail(j))
           c == [tool |-> toolName[j], at |-> n]
<1>1. /\ pc' = [pc EXCEPT ![j] = "executing"] /\ pc'[j] = "executing" /\ pc[j] = "started"
      /\ Trail(j)' = Trail(j) /\ Live(j)
      /\ calls' = [calls EXCEPT ![j] = Append(@, c)]
  BY DEF execute, Await, Inv, TypeOK, Trail, Live
<1>2. Fits(j) /\ TrailFits(j) /\ LocalsFit(j) /\ CallsFit(j) /\ ResultsFit(j)
  BY <1>1 DEF Inv, Fits
<1>3. toolName[j] \in Tools /\ check(toolName[j]) = "allow"
  BY <1>1, <1>2 DEF LocalsFit
<1>4. /\ n >= 3 /\ Trail(j)[n] = Entry("tool_started", toolName[j], None)
      /\ Trail(j)[n - 1] = Entry("permission_checked", toolName[j], "allow")
  BY <1>1, <1>2 DEF TrailFits, End
<1>5. n \in Nat
  BY <1>1, <1>2 DEF Inv, TypeOK, Fits, Trail, Live
<1>6. OwnStep(j)
  BY <1>1 DEF OwnStep, execute, Inv, TypeOK
<1>7. c \in [tool : Tools, at : Nat] /\ calls[j] \in Seq([tool : Tools, at : Nat])
  BY <1>3, <1>5 DEF Inv, TypeOK
<1>8. TypeOK'
  <2>1. calls' \in [Jobs -> Seq([tool : Tools, at : Nat])]
    <3> DEFINE Calls == [tool : Tools, at : Nat]
               call == c
    <3>1. call \in Calls /\ calls \in [Jobs -> Seq(Calls)]
      BY <1>7 DEF Inv, TypeOK
    <3>2. calls' = [calls EXCEPT ![j] = Append(@, call)]
      BY <1>1
    <3> HIDE DEF Calls, call
    <3>3. calls' \in [Jobs -> Seq(Calls)]
      BY <3>1, <3>2
    <3> QED  BY <3>3 DEF Calls
  <2>2. pc' \in [Jobs -> PCs]
    BY <1>1 DEF Inv, TypeOK, PCs
  <2>3. UNCHANGED <<policy, nextRunId, log, runId, maxSteps, step, toolName, permission,
                    toolResults, status>>
    BY DEF execute
  <2> QED  BY <2>1, <2>2, <2>3 DEF Inv, TypeOK
<1>9. /\ Len(calls'[j]) = Len(calls[j]) + 1 /\ Len(calls[j]) \in Nat
      /\ \A k \in 1 .. Len(calls[j]) : calls'[j][k] = calls[j][k]
      /\ calls'[j][Len(calls[j]) + 1] = c
  <2>1. calls'[j] = Append(calls[j], c)
    BY <1>1 DEF Inv, TypeOK
  <2> QED  BY <1>7, <2>1
<1>10. TrailFits(j)'
  BY <1>1, <1>2 DEF execute, TrailFits, End
<1>11. \A t : check(t)' = check(t)
  BY DEF check
<1>12. LocalsFit(j)'
  BY <1>1, <1>2, <1>3, <1>11 DEF execute, LocalsFit
<1>13. CallsFit(j)'
  <2>1. ASSUME NEW k \in 1 .. Len(calls'[j])
        PROVE  CallFits(j, calls[j][k])'
    <3>1. CASE k = Len(calls[j]) + 1
      BY <1>1, <1>3, <1>4, <1>5, <1>9, <1>11, <3>1 DEF CallFits
    <3>2. CASE k \in 1 .. Len(calls[j])
      <4>1. CallFits(j, calls[j][k])
        BY <1>2, <3>2 DEF CallsFit
      <4>2. calls'[j][k] = calls[j][k]
        BY <1>9, <3>2
      <4> QED  BY <1>1, <1>11, <4>1, <4>2 DEF CallFits
    <3> QED  BY <1>9, <3>1, <3>2
  <2>2. ASSUME NEW k \in 2 .. Len(calls'[j])
        PROVE  calls'[j][k - 1].at < calls'[j][k].at
    <3>1. CASE k = Len(calls[j]) + 1
      <4>1. k - 1 \in 1 .. Len(calls[j]) /\ calls[j][k - 1].at < n
        BY <1>1, <1>2, <1>9, <3>1 DEF CallsFit
      <4> QED  BY <1>9, <3>1, <4>1
    <3>2. CASE k \in 2 .. Len(calls[j])
      <4>1. k - 1 \in 1 .. Len(calls[j]) /\ k \in 1 .. Len(calls[j])
        BY <1>9, <3>2
      <4> QED  BY <1>2, <1>9, <3>2, <4>1 DEF CallsFit
    <3> QED  BY <1>9, <3>1, <3>2
  <2> QED  BY <1>1, <2>1, <2>2 DEF CallsFit
<1>14. ResultsFit(j)'
  BY <1>1, <1>2, <1>9 DEF execute, ResultsFit, Unfailed, LocalsFit
<1> QED  BY <1>1, <1>2, <1>6, <1>8, <1>10, <1>12, <1>13, <1>14, OwnStepKeeps
         DEF Fits, execute

LEMMA ToolFailsKeeps ==
    ASSUME Inv, NEW j \in Jobs, ToolFails(j), UNCHANGED policy
    PROVE  Inv'
<1> DEFINE e == Entry("tool_failed", toolName[j], None)
<1>1. /\ pc' = [pc EXCEPT ![j] = "stopped"] /\ pc'[j] = "stopped"
      /\ pc[j] \in {"started", "executing"}
      /\ status' = [status EXCEPT ![j] = "failed"] /\ status'[j] = "failed"
      /\ audit(j, e) /\ Live(j) /\ runId' = runId
  BY DEF ToolFails, Stop, Await, Inv, TypeOK, Live
<1>2. Fits(j) /\ TrailFits(j) /\ LocalsFit(j)
  BY <1>1 DEF Inv, Fits
<1>3. e \in Event
  BY <1>1, <1>2, Entries DEF LocalsFit
<1>4. MayFollow(End(j), e)
  BY <1>1, <1>2 DEF TrailFits, MayFollow, Entry
<1>5. OwnStep(j)
  BY <1>1, <1>3, <1>4 DEF OwnStep, ToolFails, Inv, TypeOK
<1>6. TypeOK'
  <2>1. log' \in [RunIds -> Seq(Event)]
    BY <1>1, <1>3, AuditOwn
  <2> QED  BY <1>1, <2>1 DEF ToolFails, Inv, TypeOK, PCs, Statuses
<1>7. End(j)' = e /\ Trail(j)' # <<>>
  BY <1>1, <1>3, AppendEnds
<1>8. TrailFits(j)'
  BY <1>1, <1>7 DEF TrailFits, StoppedFits, Entry
<1>9. LocalsFit(j)' /\ ResultsFit(j)'
  BY <1>1 DEF LocalsFit, ResultsFit
<1>10. CallsFit(j)'
  BY <1>1, <1>5, CallsKept DEF ToolFails
<1> QED  BY <1>1, <1>2, <1>5, <1>6, <1>7, <1>8, <1>9, <1>10, OwnStepKeeps
         DEF Fits, ToolFails

LEMMA ToolReturnsKeeps ==
    ASSUME Inv, NEW j \in Jobs, ToolReturns(j), UNCHANGED policy
    PROVE  Inv'
<1> DEFINE e == Entry("tool_finished", toolName[j], None)
<1>1. /\ pc' = [pc EXCEPT ![j] = "loop"] /\ pc'[j] = "loop" /\ pc[j] = "executing"
      /\ toolResults' = [toolResults EXCEPT ![j] = Append(@, toolName[j])]
      /\ audit(j, e) /\ Live(j) /\ runId' = runId
  BY DEF ToolReturns, Await, Inv, TypeOK, Live
<1>2. Fits(j) /\ TrailFits(j) /\ LocalsFit(j) /\ ResultsFit(j)
  BY <1>1 DEF Inv, Fits
<1>3. toolName[j] \in Tools /\ toolResults[j] \in Seq(Tools)
  BY <1>1, <1>2 DEF LocalsFit, Inv, TypeOK
<1>4. e \in Event
  BY <1>3, Entries
<1>5. MayFollow(End(j), e)
  BY <1>1, <1>2 DEF TrailFits, MayFollow, Entry
<1>6. OwnStep(j)
  BY <1>1, <1>4, <1>5 DEF OwnStep, ToolReturns, Inv, TypeOK
<1>7. toolResults'[j] \in Seq(Tools) /\ Len(toolResults'[j]) = Len(toolResults[j]) + 1
  <2>1. toolResults'[j] = Append(toolResults[j], toolName[j])
    BY <1>1 DEF Inv, TypeOK
  <2> QED  BY <1>3, <2>1
<1>8. TypeOK'
  <2>1. log' \in [RunIds -> Seq(Event)]
    BY <1>1, <1>4, AuditOwn
  <2>2. toolResults' \in [Jobs -> Seq(Tools)]
    BY <1>1, <1>3 DEF Inv, TypeOK
  <2>3. step' \in [Jobs -> Nat]
    BY DEF ToolReturns, Inv, TypeOK
  <2> QED  BY <1>1, <2>1, <2>2, <2>3 DEF ToolReturns, Inv, TypeOK, PCs
<1>9. End(j)' = e /\ Trail(j)' # <<>>
  BY <1>1, <1>4, AppendEnds
<1>10. TrailFits(j)'
  BY <1>1, <1>9 DEF TrailFits, Entry
<1>11. LocalsFit(j)'
  BY <1>1, <1>2 DEF ToolReturns, LocalsFit
<1>12. CallsFit(j)'
  BY <1>1, <1>6, CallsKept DEF ToolReturns
<1>13. ResultsFit(j)'
  <2>1. Unfailed(j)'
    BY <1>1, <1>2, <1>4, UnfailedKept DEF ResultsFit, Entry
  <2>2. Len(calls'[j]) = Len(toolResults'[j])
    BY <1>1, <1>2, <1>7 DEF ToolReturns, ResultsFit
  <2> QED  BY <1>1, <2>1, <2>2 DEF ResultsFit
<1> QED  BY <1>1, <1>2, <1>6, <1>8, <1>9, <1>10, <1>11, <1>12, <1>13, OwnStepKeeps
         DEF Fits, ToolReturns

-----------------------------------------------------------------------------
(* The beginning: of the service, and of a job.                            *)

LEMMA InitInv == Init => Inv
<1> SUFFICES ASSUME Init PROVE Inv
  OBVIOUS
<1>1. Started = {}
  BY DEF Init, Started, Live
<1>2. Cardinality(Started) = 0
  BY <1>1, FS_EmptySet
<1>3. Cardinality(Jobs) \in Nat
  BY AgentAssumption, FS_CardinalityType
<1>4. TypeOK
  BY <1>3 DEF Init, TypeOK, PCs
<1>5. OwnRuns
  BY <1>1, <1>2 DEF Init, OwnRuns
<1>6. \A r \in RunIds : Tells(log[r])
  BY DEF Init, Tells
<1>7. \A j \in Jobs : Fits(j)
  BY DEF Init, Fits
<1> QED  BY <1>4, <1>5, <1>6, <1>7 DEF Inv

\* As long as a job is idle, there is a run id left for it.
LEMMA RunIdLeft ==
    ASSUME Inv, NEW j \in Jobs, pc[j] = "idle"
    PROVE  /\ IsFiniteSet(Started) /\ j \notin Started
           /\ nextRunId \in RunIds /\ nextRunId + 1 \in 1 .. Cardinality(Jobs) + 1
<1>1. IsFiniteSet(Jobs)
  BY AgentAssumption
<1>2. j \notin Started
  BY DEF Started, Live
<1>3. IsFiniteSet(Jobs \ {j}) /\ Cardinality(Jobs \ {j}) = Cardinality(Jobs) - 1
  BY <1>1, FS_RemoveElement
<1>4. Started \subseteq Jobs \ {j}
  BY <1>2 DEF Started
<1>5. IsFiniteSet(Started) /\ Cardinality(Started) <= Cardinality(Jobs \ {j})
  BY <1>3, <1>4, FS_Subset
<1>6. Cardinality(Started) \in Nat /\ Cardinality(Jobs) \in Nat
  BY <1>1, <1>5, FS_CardinalityType
<1>7. nextRunId = Cardinality(Started) + 1
  BY DEF Inv, OwnRuns
<1> QED  BY <1>2, <1>3, <1>5, <1>6, <1>7 DEF RunIds

LEMMA StartKeeps ==
    ASSUME Inv, NEW j \in Jobs, Start(j), UNCHANGED policy
    PROVE  Inv'
<1> DEFINE n == nextRunId
           e == Entry("run_started", None, None)
<1>1. /\ pc[j] = "idle" /\ pc' = [pc EXCEPT ![j] = "loop"] /\ pc'[j] = "loop"
      /\ runId' = [runId EXCEPT ![j] = n] /\ runId'[j] = n
      /\ nextRunId' = n + 1
  BY DEF Start, Await, Inv, TypeOK
<1>2. /\ IsFiniteSet(Started) /\ j \notin Started
      /\ n \in RunIds /\ nextRunId' \in 1 .. Cardinality(Jobs) + 1 /\ n \in Nat
  BY <1>1, RunIdLeft DEF RunIds
<1>3. log[n] = <<>> /\ log \in [RunIds -> Seq(Event)] /\ e \in Event
  BY <1>2, Entries DEF Inv, OwnRuns, TypeOK
<1>4. /\ log' = [log EXCEPT ![n] = <<e>>] /\ log'[n] = <<e>>
      /\ \A r \in RunIds : r # n => log'[r] = log[r]
  BY <1>2, <1>3 DEF Start
<1>5. TypeOK'
  <2>1. log' \in [RunIds -> Seq(Event)]
    <3> DEFINE Trails == Seq(Event)
               first == <<e>>
    <3>1. first \in Trails
      BY <1>3
    <3>2. log \in [RunIds -> Trails] /\ log' = [log EXCEPT ![n] = first]
      BY <1>3, <1>4
    <3> HIDE DEF Trails, first
    <3>3. log' \in [RunIds -> Trails]
      BY <3>1, <3>2
    <3> QED  BY <3>3 DEF Trails
  <2>2. runId' \in [Jobs -> RunIds \cup {0}]
    BY <1>1, <1>2 DEF Inv, TypeOK
  <2>3. pc' \in [Jobs -> PCs]
    BY <1>1 DEF Inv, TypeOK, PCs
  <2>4. maxSteps' \in [Jobs -> StepLimits \cup {NoLimit}]
    BY DEF Start, Inv, TypeOK
  <2>5. UNCHANGED <<step, toolName, permission, toolResults, status, calls>>
    BY DEF Start
  <2> QED  BY <1>2, <2>1, <2>2, <2>3, <2>4, <2>5 DEF Inv, TypeOK
<1>6. Started' = Started \cup {j}
  BY <1>1 DEF Started, Live, Inv, TypeOK
<1>7. OwnRuns'
  <2>1. nextRunId' = Cardinality(Started') + 1
    <3>1. Cardinality(Started') = Cardinality(Started) + 1
      BY <1>2, <1>6, FS_AddElement
    <3> QED  BY <1>1, <3>1 DEF Inv, OwnRuns
  <2>2. ASSUME NEW i \in Started', NEW k \in Started', runId'[i] = runId'[k]
        PROVE  i = k
    <3>1. \A m \in Started : m # j /\ runId'[m] = runId[m] /\ runId[m] < n
      <4> TAKE m \in Started
      <4>1. m \in Jobs /\ pc[m] # "idle" /\ m # j
        BY <1>2 DEF Started, Live
      <4>2. runId[m] < n
        BY <4>1 DEF Inv, Fits
      <4>3. runId'[m] = runId[m]
        BY <1>1, <4>1 DEF Inv, TypeOK
      <4> QED  BY <4>1, <4>2, <4>3
    <3>2. \A m \in Started : runId[m] \in Nat
      BY DEF Inv, Fits, Started, Live, RunIds
    <3> QED  BY <1>1, <1>2, <1>6, <2>2, <3>1, <3>2 DEF Inv, OwnRuns
  <2>3. ASSUME NEW r \in RunIds, r >= nextRunId'
        PROVE  log'[r] = <<>>
    <3>1. r >= n /\ r # n
      BY <1>1, <1>2, <2>3 DEF RunIds
    <3> QED  BY <1>4, <3>1 DEF Inv, OwnRuns
  <2> QED  BY <2>1, <2>2, <2>3 DEF OwnRuns
<1>8. ASSUME NEW r \in RunIds
      PROVE  Tells(log'[r])
  <2>1. CASE r = n
    <3>1. Len(<<e>>) = 1 /\ <<e>>[1] = e /\ e.type = "run_started"
      BY DEF Entry
    <3> QED  BY <1>4, <2>1, <3>1 DEF Tells
  <2>2. CASE r # n
    BY <1>4, <2>2 DEF Inv
  <2> QED  BY <2>1, <2>2
<1>9. Fits(j)'
  <2>1. calls'[j] = <<>> /\ toolResults'[j] = <<>> /\ status'[j] = None
    BY <1>1 DEF Start, Inv, Fits
  <2>2. Trail(j)' = <<e>>
    BY <1>1, <1>4 DEF Trail
  <2>3. Len(<<e>>) = 1 /\ <<e>>[1] = e /\ e.type = "run_started" /\ <<e>> # <<>>
    BY DEF Entry
  <2>4. TrailFits(j)'
    BY <1>1, <2>2, <2>3 DEF TrailFits, End
  <2>5. LocalsFit(j)'
    BY <1>1, <2>1, AgentAssumption DEF LocalsFit, Statuses
  <2>6. CallsFit(j)'
    BY <1>1, <2>1 DEF CallsFit
  <2>7. ResultsFit(j)'
    BY <1>1, <2>1, <2>2, <2>3, AgentAssumption DEF ResultsFit, Unfailed, Statuses
  <2>8. runId'[j] \in RunIds /\ runId'[j] < nextRunId'
    BY <1>1, <1>2
  <2> QED  BY <1>1, <2>2, <2>3, <2>4, <2>5, <2>6, <2>7, <2>8 DEF Fits
<1>10. ASSUME NEW i \in Jobs \ {j}
       PROVE  Fits(i)'
  <2>0. /\ Fits(i) /\ pc'[i] = pc[i] /\ runId'[i] = runId[i]
        /\ UNCHANGED <<policy, step, toolName, permission, toolResults, status, calls>>
    BY <1>1 DEF Inv, TypeOK, Start
  <2>1. CASE pc[i] = "idle"
    BY <2>0, <2>1 DEF Fits
  <2>2. CASE pc[i] # "idle"
    <3>1. runId[i] \in RunIds /\ runId[i] < n
      BY <2>0, <2>2 DEF Fits
    <3>2. Trail(i)' = Trail(i)
      BY <1>2, <1>4, <2>0, <3>1 DEF Trail, RunIds
    <3>3. \A t : check(t)' = check(t)
      BY <2>0 DEF check
    <3>4. TrailFits(i)' /\ LocalsFit(i)'
      BY <2>0, <2>2, <3>2, <3>3 DEF Fits, TrailFits, StoppedFits, LocalsFit, End
    <3>5. CallsFit(i)'
      BY <2>0, <2>2, <3>2, <3>3 DEF Fits, CallsFit, CallFits
    <3>6. ResultsFit(i)'
      BY <2>0, <2>2, <3>2 DEF Fits, ResultsFit, Unfailed
    <3>7. runId'[i] < nextRunId'
      BY <1>1, <1>2, <2>0, <3>1 DEF RunIds
    <3> QED  BY <2>0, <2>2, <3>1, <3>2, <3>4, <3>5, <3>6, <3>7 DEF Fits
  <2> QED  BY <2>1, <2>2
<1> QED  BY <1>5, <1>7, <1>8, <1>9, <1>10 DEF Inv

-----------------------------------------------------------------------------

LEMMA NextKeeps == Inv /\ [Next]_vars => Inv'
<1> SUFFICES ASSUME Inv, [Next]_vars PROVE Inv'
  OBVIOUS
<1>1. CASE Next
  <2>1. PICK j \in Jobs : (Start(j) \/ run(j)) /\ UNCHANGED policy
    BY <1>1 DEF Next
  <2>2. CASE Start(j)
    BY <2>1, <2>2, StartKeeps
  <2>3. CASE AskProvider(j)
    BY <2>1, <2>3, AskProviderKeeps
  <2>4. CASE ExceedMaxSteps(j) \/ ProviderFails(j) \/ Complete(j) \/ InputNotObject(j)
             \/ FinishStopped(j)
    BY <2>1, <2>4, EndsKeep
  <2>5. CASE ProviderDecides(j)
    BY <2>1, <2>5, ProviderDecidesKeeps
  <2>6. CASE Return(j)
    BY <2>1, <2>6, ReturnKeeps
  <2>7. CASE UnknownTool(j) \/ Withhold(j)
    BY <2>1, <2>7, StopKeeps
  <2>8. CASE CheckPermission(j)
    BY <2>1, <2>8, CheckPermissionKeeps
  <2>9. CASE auditPermission(j)
    BY <2>1, <2>9, auditPermissionKeeps
  <2>10. CASE StartTool(j)
    BY <2>1, <2>10, StartToolKeeps
  <2>11. CASE execute(j)
    BY <2>1, <2>11, executeKeeps
  <2>12. CASE ToolFails(j)
    BY <2>1, <2>12, ToolFailsKeeps
  <2>13. CASE ToolReturns(j)
    BY <2>1, <2>13, ToolReturnsKeeps
  <2> QED
    BY <2>1, <2>2, <2>3, <2>4, <2>5, <2>6, <2>7, <2>8, <2>9, <2>10, <2>11, <2>12, <2>13
       DEF run, handleToolCall
<1>2. CASE UNCHANGED vars
  <2>1. OwnRuns' /\ TypeOK'
    <3>1. Started' = Started
      BY <1>2 DEF vars, Started, Live
    <3> QED  BY <1>2, <3>1 DEF vars, Inv, OwnRuns, TypeOK
  <2>2. \A j \in Jobs : Fits(j)'
    <3> TAKE j \in Jobs
    <3>1. Fits(j) /\ Trail(j)' = Trail(j)
      BY <1>2 DEF Inv, vars, Trail
    <3>2. \A t : check(t)' = check(t)
      BY <1>2 DEF vars, check
    <3>3. CallsFit(j) => CallsFit(j)'
      BY <1>2, <3>1, <3>2 DEF vars, CallsFit, CallFits
    <3> QED  BY <1>2, <3>1, <3>2, <3>3
             DEF vars, Fits, TrailFits, StoppedFits, End, LocalsFit, ResultsFit, Unfailed
  <2> QED  BY <1>2, <2>1, <2>2 DEF Inv, vars
<1> QED  BY <1>1, <1>2

\* The invariant the other theorems rest on: the trail of a job and its local
\* variables agree with what it awaits.
THEOREM JobsFit == Spec => []Inv
BY InitInv, NextKeeps, PTL DEF Spec

\* AgentRuntime and AuditLog: every variable has its type, and run ids never
\* run out.
THEOREM TypeCorrect == Spec => []TypeOK
<1>1. Inv => TypeOK
  BY DEF Inv
<1> QED  BY <1>1, JobsFit, PTL

\* AuditLog.append by concurrent runs: the trail of every run tells one run.
THEOREM TrailsTell == Spec => []TrailTellsOneRun
<1>1. Inv => TrailTellsOneRun
  <2> SUFFICES ASSUME Inv PROVE TrailTellsOneRun
    OBVIOUS
  <2>1. \A r \in RunIds : Tells(log[r])
    BY DEF Inv
  <2>2. ASSUME NEW j \in Jobs, pc[j] = "returned"
        PROVE  Trail(j) # <<>> /\ End(j) = Entry("run_finished", None, status[j])
    BY <2>2 DEF Inv, Fits, TrailFits
  <2> QED  BY <2>1, <2>2 DEF TrailTellsOneRun, Tells, Trail, End
<1> QED  BY <1>1, JobsFit, PTL

\* handleToolCall: each call of a handler has its own permission and start in
\* the trail before it.
THEOREM PermissionFirst == Spec => []CallsFollowPermission
<1>1. Inv => CallsFollowPermission
  <2> SUFFICES ASSUME Inv, NEW j \in Jobs, NEW k \in 1 .. Len(calls[j])
               PROVE  LET c == calls[j][k]
                      IN  /\ c.at \in 3 .. Len(Trail(j))
                          /\ Trail(j)[c.at] = Entry("tool_started", c.tool, None)
                          /\ Trail(j)[c.at - 1] = Entry("permission_checked", c.tool, "allow")
                          /\ k > 1 => calls[j][k - 1].at < c.at
    BY DEF CallsFollowPermission
  <2>1. Fits(j) /\ Len(calls[j]) \in Nat
    BY DEF Inv, TypeOK
  <2>2. CallsFit(j)
    BY <2>1, AgentAssumption DEF Fits
  <2>3. CallFits(j, calls[j][k])
    BY <2>2 DEF CallsFit
  <2>4. k > 1 => calls[j][k - 1].at < calls[j][k].at
    BY <2>1, <2>2 DEF CallsFit
  <2> QED  BY <2>3, <2>4 DEF CallFits
<1> QED  BY <1>1, JobsFit, PTL

\* The policies: no handler of a tool the policy does not allow is called.
THEOREM OnlyPermitted == Spec => []OnlyPermittedTools
<1>1. Inv => OnlyPermittedTools
  <2> SUFFICES ASSUME Inv, NEW j \in Jobs, NEW k \in 1 .. Len(calls[j])
               PROVE  LET t == calls[j][k].tool
                      IN  /\ policy = "RiskBasedPolicy" => Risk[t] = "read"
                          /\ policy = "StaticPolicy" =>
                                /\ t \in DOMAIN Decisions => Decisions[t] = "allow"
                                /\ t \notin DOMAIN Decisions => DefaultDecision = "allow"
    BY DEF OnlyPermittedTools
  <2>1. Fits(j) /\ calls[j] \in Seq([tool : Tools, at : Nat])
    BY DEF Inv, TypeOK
  <2>2. CallsFit(j)
    BY <2>1 DEF Fits
  <2>3. check(calls[j][k].tool) = "allow" /\ calls[j][k].tool \in Tools
    <3> DEFINE Calls == [tool : Tools, at : Nat]
    <3>1. calls[j] \in Seq(Calls)
      BY <2>1
    <3> HIDE DEF Calls
    <3>2. calls[j][k] \in Calls
      BY <3>1
    <3>3. calls[j][k].tool \in Tools
      BY <3>2 DEF Calls
    <3>4. CallFits(j, calls[j][k])
      BY <2>2 DEF CallsFit
    <3> QED  BY <3>3, <3>4 DEF CallFits
  <2>4. Risk[calls[j][k].tool] \in {"read", "write", "external", "shell"}
    BY <2>3, AgentAssumption DEF Risks
  <2> QED  BY <2>3, <2>4 DEF check
<1> QED  BY <1>1, JobsFit, PTL

\* run and handleToolCall: a run whose status is completed has no failed call
\* and the result of every call.
THEOREM CompletedSucceeded == Spec => []CompletedMeansAllSucceeded
<1>1. Inv => CompletedMeansAllSucceeded
  BY AgentAssumption
     DEF Inv, Fits, ResultsFit, Unfailed, CompletedMeansAllSucceeded, Of, Statuses
<1> QED  BY <1>1, JobsFit, PTL

-----------------------------------------------------------------------------
(* The step limit, on top of Inv.                                          *)

Asked(j) == Of(j, "agent_decision")

\* How often a job has asked its provider and called a handler, by what it
\* awaits.
StepsFit(j) ==
    IF pc[j] = "idle" THEN step[j] = 0
    ELSE /\ step[j] = Len(toolResults[j]) /\ Within(step[j], maxSteps[j])
         /\ IsFiniteSet(Asked(j)) /\ Within(Cardinality(Asked(j)), maxSteps[j])
         /\ Within(Len(calls[j]), maxSteps[j])
         /\ pc[j] \in {"loop", "provider"} => Cardinality(Asked(j)) = step[j]
         /\ pc[j] \in {"provider", "decided", "checking", "permitted", "started", "executing"}
              => Below(step[j], maxSteps[j])
         /\ pc[j] \in {"decided", "checking", "permitted", "started", "executing"}
              => Cardinality(Asked(j)) = step[j] + 1

StepsInv == \A j \in Jobs : StepsFit(j)

LEMMA AskedAppend ==
    ASSUME Inv, NEW j \in Jobs, Live(j), NEW e \in Event, audit(j, e),
           runId' = runId, IsFiniteSet(Asked(j))
    PROVE  /\ IsFiniteSet(Asked(j)')
           /\ Cardinality(Asked(j)') =
                 Cardinality(Asked(j)) + IF e.type = "agent_decision" THEN 1 ELSE 0
<1> DEFINE n == Len(Trail(j))
<1>1. Trail(j)' = Append(Trail(j), e) /\ Trail(j) \in Seq(Event)
  BY AuditOwn
<1>2. /\ n \in Nat /\ Len(Trail(j)') = n + 1 /\ Trail(j)'[n + 1] = e
      /\ \A i \in 1 .. n : Trail(j)'[i] = Trail(j)[i]
  BY <1>1
<1>3. Cardinality(Asked(j)) \in Nat
  BY FS_CardinalityType
<1>4. CASE e.type = "agent_decision"
  <2>1. Asked(j)' = Asked(j) \cup {n + 1}
    BY <1>2, <1>4 DEF Asked, Of
  <2>2. n + 1 \notin Asked(j)
    BY <1>2 DEF Asked, Of
  <2> QED  BY <1>3, <1>4, <2>1, <2>2, FS_AddElement
<1>5. CASE e.type # "agent_decision"
  <2>1. Asked(j)' = Asked(j)
    BY <1>2, <1>5 DEF Asked, Of
  <2> QED  BY <1>3, <1>5, <2>1
<1> QED  BY <1>4, <1>5

\* A step appends nothing, or one event; ProviderDecides alone appends a
\* decision.
LEMMA StepShape ==
    ASSUME Inv, NEW j \in Jobs, run(j)
    PROVE  /\ Live(j) /\ runId' = runId /\ maxSteps' = maxSteps
           /\ \/ log' = log /\ ~ProviderDecides(j)
              \/ \E e \in Event : /\ audit(j, e)
                                  /\ e.type = "agent_decision" <=> ProviderDecides(j)
<1>0. Fits(j)
  BY DEF Inv
<1>1. CASE ProviderDecides(j)
  <2>1. PICK t \in Names \cup {None} : audit(j, Entry("agent_decision", t, None))
    BY <1>1 DEF ProviderDecides
  <2> QED  BY <1>1, <2>1, Entries DEF ProviderDecides, Live, Entry
<1>2. CASE \/ AskProvider(j) \/ UnknownTool(j) \/ CheckPermission(j) \/ Withhold(j)
           \/ execute(j) \/ Return(j)
  BY <1>2 DEF AskProvider, UnknownTool, CheckPermission, Withhold, execute, Return,
              ProviderDecides, Live
<1>3. CASE ExceedMaxSteps(j) \/ Complete(j) \/ InputNotObject(j) \/ ProviderFails(j)
           \/ FinishStopped(j)
  <2>1. PICK s \in Statuses : finish(j, s) /\ Live(j) /\ runId' = runId /\ maxSteps' = maxSteps
    <3>1. CASE FinishStopped(j)
      <4>1. status[j] \in Statuses
        BY <1>0, <3>1 DEF FinishStopped, Fits, TrailFits, StoppedFits, Statuses
      <4> QED  BY <3>1, <4>1 DEF FinishStopped, Live
    <3>2. CASE ~FinishStopped(j)
      BY <1>3, <3>2 DEF ExceedMaxSteps, Complete, InputNotObject, ProviderFails, Statuses, Live
    <3> QED  BY <3>1, <3>2
  <2>2. pc'[j] = "finishing"
    BY <2>1 DEF finish, Await, Inv, TypeOK
  <2>3. ~ProviderDecides(j)
    BY <2>2 DEF ProviderDecides, Await, Inv, TypeOK
  <2> QED  BY <2>1, <2>3, Entries DEF finish, Entry
<1>4. CASE auditPermission(j) \/ StartTool(j) \/ ToolFails(j) \/ ToolReturns(j)
  <2>1. pc[j] \in {"checking", "permitted", "started", "executing"} /\ runId' = runId
        /\ maxSteps' = maxSteps
    BY <1>4 DEF auditPermission, StartTool, ToolFails, ToolReturns
  <2>2. toolName[j] \in Tools /\ (pc[j] = "checking" => permission[j] \in Permissions)
    BY <1>0, <2>1, CheckType DEF Fits, LocalsFit
  <2>3. ~ProviderDecides(j)
    BY <2>1 DEF ProviderDecides
  <2> QED  BY <1>4, <2>1, <2>2, <2>3, Entries
           DEF auditPermission, StartTool, ToolFails, ToolReturns, Entry, Live
<1> QED  BY <1>1, <1>2, <1>3, <1>4 DEF run, handleToolCall

\* What a step of j leaves of another job.
LEMMA OthersKeep ==
    ASSUME Inv, NEW j \in Jobs, Start(j) \/ run(j), NEW i \in Jobs \ {j}
    PROVE  /\ pc'[i] = pc[i] /\ step'[i] = step[i] /\ maxSteps'[i] = maxSteps[i]
           /\ toolResults'[i] = toolResults[i] /\ calls'[i] = calls[i]
           /\ Live(i) => Trail(i)' = Trail(i)
<1>1. /\ pc'[i] = pc[i] /\ step'[i] = step[i] /\ maxSteps'[i] = maxSteps[i]
      /\ toolResults'[i] = toolResults[i] /\ calls'[i] = calls[i]
  BY DEF Inv, TypeOK, Start, run, handleToolCall, AskProvider, ExceedMaxSteps, ProviderDecides,
         ProviderFails, Complete, FinishStopped, Return, UnknownTool, InputNotObject,
         CheckPermission, auditPermission, Withhold, StartTool, execute, ToolFails,
         ToolReturns, Await, finish, Stop
<1>2. ASSUME Live(i)
      PROVE  Trail(i)' = Trail(i)
  <2>1. runId[i] \in RunIds /\ runId[i] < nextRunId /\ nextRunId \in Nat
    BY <1>2 DEF Inv, TypeOK, Fits, Live
  <2>2. CASE Start(j)
    <3>1. runId'[i] = runId[i] /\ runId[i] # nextRunId
      BY <2>1, <2>2 DEF Start, Inv, TypeOK, RunIds
    <3> QED  BY <2>1, <2>2, <3>1 DEF Start, Inv, TypeOK, Trail
  <2>3. CASE run(j)
    <3>1. Live(j) /\ runId' = runId
      BY <2>3, StepShape
    <3>2. runId[i] # runId[j]
      BY <1>2, <3>1 DEF Inv, OwnRuns, Started
    <3>3. log' = log \/ \E e \in Event : audit(j, e)
      BY <2>3, StepShape
    <3>4. log'[runId[i]] = log[runId[i]]
      BY <2>1, <3>1, <3>2, <3>3, AuditOwn
    <3> QED  BY <3>1, <3>4 DEF Trail
  <2> QED  BY <2>2, <2>3
<1> QED  BY <1>1, <1>2

\* The numbers StepsFit counts are natural numbers.
LEMMA StepTypes ==
    ASSUME Inv, NEW j \in Jobs
    PROVE  step[j] \in Nat /\ Len(toolResults[j]) \in Nat /\ Len(calls[j]) \in Nat
<1>1. step[j] \in Nat
  BY DEF Inv, TypeOK
<1>3. toolResults[j] \in Seq(Tools) /\ calls[j] \in Seq([tool : Tools, at : Nat])
  BY DEF Inv, TypeOK
<1>4. Len(toolResults[j]) \in Nat
  BY <1>3
<1>5. Len(calls[j]) \in Nat
  BY <1>3
<1> QED  BY <1>1, <1>4, <1>5

LEMMA StepsOfStart ==
    ASSUME Inv, Inv', StepsInv, NEW j \in Jobs, Start(j)
    PROVE  StepsFit(j)'
<1> DEFINE e == Entry("run_started", None, None)
<1>1. /\ pc[j] = "idle" /\ pc'[j] = "loop" /\ runId'[j] = nextRunId
      /\ step' = step /\ toolResults' = toolResults /\ calls' = calls
  BY DEF Start, Await, Inv, TypeOK
<1>2. step'[j] = 0 /\ toolResults'[j] = <<>> /\ calls'[j] = <<>>
  BY <1>1 DEF StepsInv, StepsFit, Inv, Fits
<1>3. \A x : Within(0, x)
  BY DEF Within
<1>4. Trail(j)' = <<e>>
  <2>1. nextRunId \in RunIds
    BY <1>1, RunIdLeft
  <2>2. log[nextRunId] = <<>> /\ log \in [RunIds -> Seq(Event)]
    BY <2>1 DEF Inv, OwnRuns, TypeOK, RunIds
  <2>3. log'[nextRunId] = Append(<<>>, e)
    BY <2>1, <2>2 DEF Start
  <2> QED  BY <1>1, <2>3 DEF Trail
<1>5. Asked(j)' = {}
  <2>1. Len(<<e>>) = 1 /\ <<e>>[1] = e /\ e.type = "run_started"
    BY DEF Entry
  <2> QED  BY <1>4, <2>1 DEF Asked, Of
<1>6. IsFiniteSet(Asked(j)') /\ Cardinality(Asked(j)') = 0
  BY <1>5, FS_EmptySet
<1> QED  BY <1>1, <1>2, <1>3, <1>6 DEF StepsFit

\* A count one beyond a step that was below the limit is within it.
LEMMA WithinNext ==
    ASSUME NEW n \in Nat, NEW x, Below(n, x)
    PROVE  Within(n + 1, x)
<1>1. (n + 1) - 1 = n
  OBVIOUS
<1> QED  BY <1>1 DEF Within, Below

LEMMA StepsOfRun ==
    ASSUME Inv, Inv', StepsInv, NEW j \in Jobs, run(j)
    PROVE  StepsFit(j)'
<1>1. Live(j) /\ pc[j] # "idle" /\ runId' = runId /\ maxSteps'[j] = maxSteps[j]
  BY StepShape DEF Live
<1>2. /\ step[j] = Len(toolResults[j]) /\ Within(step[j], maxSteps[j])
      /\ IsFiniteSet(Asked(j)) /\ Within(Cardinality(Asked(j)), maxSteps[j])
      /\ Within(Len(calls[j]), maxSteps[j])
      /\ pc[j] \in {"loop", "provider"} => Cardinality(Asked(j)) = step[j]
      /\ pc[j] \in {"provider", "decided", "checking", "permitted", "started", "executing"}
           => Below(step[j], maxSteps[j])
      /\ pc[j] \in {"decided", "checking", "permitted", "started", "executing"}
           => Cardinality(Asked(j)) = step[j] + 1
  BY <1>1 DEF StepsInv, StepsFit
<1>3. /\ step[j] \in Nat /\ Len(calls[j]) \in Nat
      /\ Len(toolResults[j]) \in Nat
  BY StepTypes
<1>4. Cardinality(Asked(j)) \in Nat
  BY <1>2, FS_CardinalityType
<1>5. /\ IsFiniteSet(Asked(j)')
      /\ Cardinality(Asked(j)') =
            Cardinality(Asked(j)) + IF ProviderDecides(j) THEN 1 ELSE 0
  <2>1. CASE log' = log /\ ~ProviderDecides(j)
    <3>1. Asked(j)' = Asked(j)
      BY <1>1, <2>1 DEF Asked, Of, Trail
    <3> QED  BY <1>2, <1>4, <2>1, <3>1
  <2>2. CASE \E e \in Event : audit(j, e) /\ (e.type = "agent_decision" <=> ProviderDecides(j))
    <3>1. PICK e \in Event : audit(j, e) /\ (e.type = "agent_decision" <=> ProviderDecides(j))
      BY <2>2
    <3>2. /\ IsFiniteSet(Asked(j)')
          /\ Cardinality(Asked(j)') =
                Cardinality(Asked(j)) + IF e.type = "agent_decision" THEN 1 ELSE 0
      BY <1>1, <1>2, <3>1, AskedAppend
    <3> QED  BY <3>1, <3>2
  <2> QED  BY <2>1, <2>2, StepShape
<1>6. Fits(j) /\ ResultsFit(j)
  BY <1>1 DEF Inv, Fits
<1>0. Below(step[j], maxSteps[j]) => Within(step[j] + 1, maxSteps[j])
  BY <1>3, WithinNext
<1> DEFINE same == step'[j] = step[j] /\ toolResults'[j] = toolResults[j] /\ calls'[j] = calls[j]
<1>7. CASE ProviderDecides(j)
  <2>1. pc[j] = "provider" /\ pc'[j] = "decided" /\ same
    BY <1>7 DEF ProviderDecides, Await, Inv, TypeOK
  <2> QED  BY <1>0, <1>1, <1>2, <1>3, <1>4, <1>5, <1>7, <2>1 DEF StepsFit
<1>8. CASE AskProvider(j)
  <2>1. /\ pc[j] = "loop" /\ pc'[j] = "provider" /\ same
        /\ Below(step[j], maxSteps[j]) /\ ~ProviderDecides(j)
    BY <1>8 DEF AskProvider, ProviderDecides, StepLeft, Await, Inv, TypeOK
  <2> QED  BY <1>0, <1>1, <1>2, <1>3, <1>4, <1>5, <2>1 DEF StepsFit
<1>9. CASE CheckPermission(j) \/ auditPermission(j) \/ StartTool(j)
  <2>1. /\ pc[j] \in {"decided", "checking", "permitted"} /\ same /\ ~ProviderDecides(j)
        /\ pc'[j] \in {"checking", "permitted", "started"}
    BY <1>9 DEF CheckPermission, auditPermission, StartTool, ProviderDecides, Await, Inv, TypeOK
  <2> QED  BY <1>0, <1>1, <1>2, <1>3, <1>4, <1>5, <2>1 DEF StepsFit
<1>10. CASE execute(j)
  <2>1. /\ pc[j] = "started" /\ pc'[j] = "executing" /\ ~ProviderDecides(j)
        /\ step'[j] = step[j] /\ toolResults'[j] = toolResults[j]
    BY <1>10 DEF execute, ProviderDecides, Await, Inv, TypeOK
  <2>2. Len(calls'[j]) = Len(toolResults'[j]) + 1
    BY <2>1 DEF Inv, Fits, ResultsFit
  <2> QED  BY <1>0, <1>1, <1>2, <1>3, <1>4, <1>5, <2>1, <2>2 DEF StepsFit
<1>11. CASE ToolReturns(j)
  <2>1. /\ pc[j] = "executing" /\ pc'[j] = "loop" /\ ~ProviderDecides(j)
        /\ step'[j] = step[j] + 1 /\ calls'[j] = calls[j]
        /\ toolResults'[j] = Append(toolResults[j], toolName[j])
    BY <1>11 DEF ToolReturns, ProviderDecides, Await, Inv, TypeOK
  <2>2. Len(toolResults'[j]) = Len(toolResults[j]) + 1
    BY <2>1 DEF Inv, TypeOK
  <2> QED  BY <1>0, <1>1, <1>2, <1>3, <1>4, <1>5, <2>1, <2>2 DEF StepsFit
<1>12. CASE \/ UnknownTool(j) \/ Withhold(j) \/ ToolFails(j) \/ ExceedMaxSteps(j)
            \/ ProviderFails(j) \/ Complete(j) \/ InputNotObject(j) \/ FinishStopped(j)
            \/ Return(j)
  <2>1. same /\ pc'[j] \in {"stopped", "finishing", "returned"}
    BY <1>12 DEF UnknownTool, Withhold, ToolFails, ExceedMaxSteps, ProviderFails, Complete,
                InputNotObject, FinishStopped, Return, Stop, finish, Await, Inv, TypeOK
  <2>2. ~ProviderDecides(j)
    BY <2>1 DEF ProviderDecides, Await, Inv, TypeOK
  <2> QED  BY <1>0, <1>1, <1>2, <1>3, <1>4, <1>5, <2>1, <2>2 DEF StepsFit
<1> QED  BY <1>7, <1>8, <1>9, <1>10, <1>11, <1>12 DEF run, handleToolCall

LEMMA StepsKeep == Inv /\ Inv' /\ StepsInv /\ [Next]_vars => StepsInv'
<1> SUFFICES ASSUME Inv, Inv', StepsInv, [Next]_vars, NEW i \in Jobs
             PROVE  StepsFit(i)'
  BY DEF StepsInv
<1>1. CASE Next
  <2>1. PICK j \in Jobs : Start(j) \/ run(j)
    BY <1>1 DEF Next
  <2>2. CASE i = j
    BY <2>1, <2>2, StepsOfStart, StepsOfRun
  <2>3. CASE i # j
    <3>1. /\ pc'[i] = pc[i] /\ step'[i] = step[i] /\ maxSteps'[i] = maxSteps[i]
          /\ toolResults'[i] = toolResults[i] /\ calls'[i] = calls[i]
          /\ Live(i) => Trail(i)' = Trail(i)
      BY <2>1, <2>3, OthersKeep
    <3>2. Live(i) => Asked(i)' = Asked(i)
      BY <3>1 DEF Asked, Of
    <3> QED  BY <3>1, <3>2 DEF StepsInv, StepsFit, Live
  <2> QED  BY <2>2, <2>3
<1>2. CASE UNCHANGED vars
  BY <1>2 DEF vars, StepsInv, StepsFit, Asked, Of, Trail
<1> QED  BY <1>1, <1>2

\* run: max_steps, whole or not and finite or not, bounds how often the provider
\* is asked and handlers are called.
THEOREM StepsBounded == Spec => []MaxStepProtection
<1>1. Init => StepsInv
  BY DEF Init, StepsInv, StepsFit
<1>2. StepsInv => MaxStepProtection
  BY DEF StepsInv, StepsFit, MaxStepProtection, Live, Asked
<1> QED  BY <1>1, <1>2, StepsKeep, JobsFit, PTL DEF Spec

-----------------------------------------------------------------------------
(* The results, on top of Inv.                                             *)

Finished(j) == Of(j, "tool_finished")
UpTo(j, i)  == {k \in Finished(j) : k <= i}

\* The results a job has collected are those its trail tells of.
Matches(j) ==
    Live(j) =>
        /\ IsFiniteSet(Finished(j)) /\ Len(toolResults[j]) = Cardinality(Finished(j))
        /\ \A i \in Finished(j) : toolResults[j][Cardinality(UpTo(j, i))] = Trail(j)[i].tool
        /\ Len(calls[j]) - Len(toolResults[j]) \in {0, 1}

ResultsInv == \A j \in Jobs : Matches(j)

\* ToolReturns alone appends a tool_finished event, that of the tool it called.
LEMMA FinishedShape ==
    ASSUME Inv, NEW j \in Jobs, run(j)
    PROVE  \/ log' = log /\ ~ToolReturns(j)
           \/ \E e \in Event : /\ audit(j, e)
                               /\ e.type = "tool_finished" <=> ToolReturns(j)
                               /\ ToolReturns(j) => e.tool = toolName[j]
<1>1. CASE \/ AskProvider(j) \/ UnknownTool(j) \/ CheckPermission(j) \/ Withhold(j)
           \/ execute(j) \/ Return(j)
  <2>1. pc'[j] # "loop" /\ log' = log
    BY <1>1 DEF AskProvider, UnknownTool, CheckPermission, Withhold, execute, Return,
                Stop, Await, Inv, TypeOK
  <2> QED  BY <2>1 DEF ToolReturns, Await, Inv, TypeOK
<1>2. CASE ProviderDecides(j)
  <2>1. PICK t \in Names \cup {None} : audit(j, Entry("agent_decision", t, None))
    BY <1>2 DEF ProviderDecides
  <2>2. ~ToolReturns(j)
    BY <1>2 DEF ProviderDecides, ToolReturns
  <2> QED  BY <2>1, <2>2, Entries DEF Entry
<1>3. CASE ExceedMaxSteps(j) \/ Complete(j) \/ InputNotObject(j) \/ ProviderFails(j)
           \/ FinishStopped(j)
  <2>1. PICK s \in Statuses : finish(j, s)
    <3>0. Fits(j)
      BY DEF Inv
    <3>1. CASE FinishStopped(j)
      <4>1. status[j] \in Statuses
        BY <3>0, <3>1 DEF FinishStopped, Fits, TrailFits, StoppedFits, Statuses
      <4> QED  BY <3>1, <4>1 DEF FinishStopped
    <3>2. CASE ~FinishStopped(j)
      BY <1>3, <3>2 DEF ExceedMaxSteps, Complete, InputNotObject, ProviderFails, Statuses
    <3> QED  BY <3>1, <3>2
  <2>2. ~ToolReturns(j)
    BY <2>1 DEF finish, ToolReturns, Await, Inv, TypeOK
  <2> QED  BY <2>1, <2>2, Entries DEF finish, Entry
<1>4. CASE auditPermission(j) \/ StartTool(j) \/ ToolFails(j)
  <2>1. pc[j] \in {"checking", "permitted", "started", "executing"} /\ pc'[j] # "loop"
    BY <1>4 DEF auditPermission, StartTool, ToolFails, Stop, Await, Inv, TypeOK
  <2>2. toolName[j] \in Tools /\ (pc[j] = "checking" => permission[j] \in Permissions)
    BY <2>1, CheckType DEF Inv, Fits, LocalsFit
  <2>3. ~ToolReturns(j)
    BY <2>1 DEF ToolReturns, Await, Inv, TypeOK
  <2> QED  BY <1>4, <2>2, <2>3, Entries DEF auditPermission, StartTool, ToolFails, Entry
<1>5. CASE ToolReturns(j)
  <2>1. toolName[j] \in Tools
    BY <1>5 DEF ToolReturns, Inv, Fits, LocalsFit
  <2> QED  BY <1>5, <2>1, Entries DEF ToolReturns, Entry
<1> QED  BY <1>1, <1>2, <1>3, <1>4, <1>5 DEF run, handleToolCall

\* What an event appended to j's trail does to its finished ones.
LEMMA FinishedAppend ==
    ASSUME Inv, NEW j \in Jobs, Live(j), NEW e \in Event, audit(j, e), runId' = runId,
           NEW n, n = Len(Trail(j)) + 1
    PROVE  /\ \A i \in Finished(j) : /\ Trail(j)'[i] = Trail(j)[i]
                                     /\ UpTo(j, i)' = UpTo(j, i)
           /\ e.type # "tool_finished" => Finished(j)' = Finished(j)
           /\ e.type = "tool_finished" =>
                 /\ Finished(j)' = Finished(j) \cup {n} /\ n \notin Finished(j)
                 /\ Trail(j)'[n] = e /\ UpTo(j, n)' = Finished(j)'
<1>1. Trail(j)' = Append(Trail(j), e) /\ Trail(j) \in Seq(Event)
  BY AuditOwn
<1>2. /\ n \in Nat \ {0} /\ Len(Trail(j)') = n /\ Trail(j)'[n] = e
      /\ \A i \in 1 .. n - 1 : Trail(j)'[i] = Trail(j)[i]
      /\ Finished(j) \subseteq 1 .. n - 1
  BY <1>1 DEF Finished, Of
<1>3. Finished(j)' = Finished(j) \cup (IF e.type = "tool_finished" THEN {n} ELSE {})
  BY <1>2 DEF Finished, Of
<1>4. \A i \in Finished(j) : UpTo(j, i)' = UpTo(j, i)
  BY <1>2, <1>3 DEF UpTo
<1>5. e.type = "tool_finished" => UpTo(j, n)' = Finished(j)'
  BY <1>2, <1>3 DEF UpTo
<1> QED  BY <1>2, <1>3, <1>4, <1>5

\* The place of a result is one the results have.
LEMMA PlaceOfResult ==
    ASSUME NEW j \in Jobs, IsFiniteSet(Finished(j)), NEW i \in Finished(j)
    PROVE  Cardinality(UpTo(j, i)) \in 1 .. Cardinality(Finished(j))
<1>1. UpTo(j, i) \subseteq Finished(j) /\ i \in UpTo(j, i)
  BY DEF UpTo, Finished, Of
<1>2. IsFiniteSet(UpTo(j, i)) /\ Cardinality(UpTo(j, i)) <= Cardinality(Finished(j))
  BY <1>1, FS_Subset
<1>3. Cardinality(UpTo(j, i)) \in Nat /\ Cardinality(UpTo(j, i)) # 0
  BY <1>1, <1>2, FS_CardinalityType, FS_EmptySet
<1>4. Cardinality(Finished(j)) \in Nat
  BY FS_CardinalityType
<1> QED  BY <1>2, <1>3, <1>4

LEMMA ResultsOfStart ==
    ASSUME Inv, Inv', NEW j \in Jobs, Start(j)
    PROVE  Matches(j)'
<1> DEFINE e == Entry("run_started", None, None)
<1>1. pc[j] = "idle" /\ runId'[j] = nextRunId /\ toolResults' = toolResults /\ calls' = calls
  BY DEF Start, Inv, TypeOK
<1>2. toolResults'[j] = <<>> /\ calls'[j] = <<>>
  BY <1>1 DEF Inv, Fits
<1>3. Trail(j)' = <<e>>
  <2>1. nextRunId \in RunIds
    BY <1>1, RunIdLeft
  <2>2. log[nextRunId] = <<>> /\ log \in [RunIds -> Seq(Event)]
    BY <2>1 DEF Inv, OwnRuns, TypeOK, RunIds
  <2>3. log'[nextRunId] = Append(<<>>, e)
    BY <2>1, <2>2 DEF Start
  <2> QED  BY <1>1, <2>3 DEF Trail
<1>4. Finished(j)' = {}
  <2>1. Len(<<e>>) = 1 /\ <<e>>[1] = e /\ e.type = "run_started"
    BY DEF Entry
  <2> QED  BY <1>3, <2>1 DEF Finished, Of
<1> QED  BY <1>2, <1>4, FS_EmptySet DEF Matches

LEMMA ResultsOfRun ==
    ASSUME Inv, Inv', ResultsInv, NEW j \in Jobs, run(j)
    PROVE  Matches(j)'
<1> DEFINE R == toolResults[j]
           F == Finished(j)
<1>1. Live(j) /\ runId' = runId
  BY StepShape
<1>2. /\ IsFiniteSet(F) /\ Len(R) = Cardinality(F)
      /\ \A i \in F : R[Cardinality(UpTo(j, i))] = Trail(j)[i].tool
      /\ Len(calls[j]) - Len(R) \in {0, 1}
  BY <1>1 DEF ResultsInv, Matches
<1>3. R \in Seq(Tools) /\ Len(R) \in Nat /\ Len(calls[j]) \in Nat
  BY StepTypes DEF Inv, TypeOK
<1>4. Len(calls'[j]) - Len(toolResults'[j]) \in {0, 1}
  <2>1. ResultsFit(j) /\ Len(calls'[j]) \in Nat
    <3>1. calls'[j] \in Seq([tool : Tools, at : Nat])
      BY DEF Inv, TypeOK
    <3> QED  BY <1>1, <3>1 DEF Inv, Fits, Live
  <2>2. CASE ToolReturns(j)
    <3>1. pc[j] = "executing" /\ calls'[j] = calls[j] /\ toolResults'[j] = Append(R, toolName[j])
      BY <2>2 DEF ToolReturns, Inv, TypeOK
    <3>2. Len(toolResults'[j]) = Len(R) + 1
      BY <1>3, <3>1
    <3> QED  BY <1>3, <2>1, <3>1, <3>2 DEF ResultsFit
  <2>3. CASE execute(j)
    <3>1. pc[j] = "started" /\ pc'[j] = "executing" /\ toolResults'[j] = R
      BY <2>3 DEF execute, Await, Inv, TypeOK
    <3>2. Len(calls'[j]) = Len(toolResults'[j]) + 1
      BY <3>1 DEF Inv, Fits, ResultsFit
    <3> QED  BY <1>3, <3>1, <3>2
  <2>4. CASE ~ToolReturns(j) /\ ~execute(j)
    <3>1. toolResults' = toolResults /\ calls' = calls
      BY <2>4 DEF run, handleToolCall, AskProvider, ExceedMaxSteps, ProviderDecides,
         ProviderFails, Complete, FinishStopped, Return, UnknownTool, InputNotObject,
         CheckPermission, auditPermission, Withhold, StartTool, ToolFails
    <3> QED  BY <1>2, <3>1
  <2> QED  BY <2>2, <2>3, <2>4
<1>5. ASSUME ~ToolReturns(j)
      PROVE  toolResults'[j] = R
  BY <1>5 DEF run, handleToolCall, AskProvider, ExceedMaxSteps, ProviderDecides,
     ProviderFails, Complete, FinishStopped, Return, UnknownTool, InputNotObject,
     CheckPermission, auditPermission, Withhold, StartTool, execute, ToolFails
<1>6. CASE log' = log /\ ~ToolReturns(j)
  <2>1. Trail(j)' = Trail(j)
    BY <1>1, <1>6 DEF Trail
  <2>2. Finished(j)' = F /\ \A i : UpTo(j, i)' = UpTo(j, i)
    BY <2>1 DEF Finished, Of, UpTo
  <2> QED  BY <1>2, <1>4, <1>5, <1>6, <2>1, <2>2 DEF Matches
<1>7. CASE \E e \in Event : /\ audit(j, e)
                            /\ e.type = "tool_finished" <=> ToolReturns(j)
                            /\ ToolReturns(j) => e.tool = toolName[j]
  <2>1. PICK e \in Event : /\ audit(j, e)
                           /\ e.type = "tool_finished" <=> ToolReturns(j)
                           /\ ToolReturns(j) => e.tool = toolName[j]
    BY <1>7
  <2>0. PICK n : n = Len(Trail(j)) + 1
    OBVIOUS
  <2>2. /\ \A i \in F : Trail(j)'[i] = Trail(j)[i] /\ UpTo(j, i)' = UpTo(j, i)
        /\ e.type # "tool_finished" => Finished(j)' = F
        /\ e.type = "tool_finished" =>
              /\ Finished(j)' = F \cup {n} /\ n \notin F
              /\ Trail(j)'[n] = e /\ UpTo(j, n)' = Finished(j)'
    BY <1>1, <2>0, <2>1, FinishedAppend
  <2>3. CASE ~ToolReturns(j)
    <3>1. Finished(j)' = F /\ toolResults'[j] = R
      BY <1>5, <2>1, <2>2, <2>3
    <3>2. \A i \in Finished(j)' : UpTo(j, i)' = UpTo(j, i) /\ Trail(j)'[i] = Trail(j)[i]
      BY <2>2, <3>1
    <3>3. \A i \in Finished(j)' : toolResults'[j][Cardinality(UpTo(j, i)')] = Trail(j)'[i].tool
      BY <1>2, <3>1, <3>2
    <3> QED  BY <1>2, <1>4, <3>1, <3>3 DEF Matches
  <2>4. CASE ToolReturns(j)
    <3>1. toolResults'[j] = Append(R, toolName[j])
      BY <2>4 DEF ToolReturns, Inv, TypeOK
    <3>2. /\ Len(toolResults'[j]) = Len(R) + 1
          /\ \A m \in 1 .. Len(R) : toolResults'[j][m] = R[m]
          /\ toolResults'[j][Len(R) + 1] = toolName[j]
      BY <1>3, <3>1
    <3>3. IsFiniteSet(Finished(j)') /\ Cardinality(Finished(j)') = Len(R) + 1
      BY <1>2, <2>1, <2>2, <2>4, FS_AddElement
    <3>4. ASSUME NEW i \in Finished(j)'
          PROVE  toolResults'[j][Cardinality(UpTo(j, i)')] = Trail(j)'[i].tool
      <4>1. CASE i = n
        <5>1. Cardinality(UpTo(j, i)') = Len(R) + 1 /\ Trail(j)'[i].tool = toolName[j]
          BY <2>1, <2>2, <2>4, <3>3, <4>1
        <5> QED  BY <3>2, <5>1
      <4>2. CASE i # n
        <5>1. i \in F /\ UpTo(j, i)' = UpTo(j, i) /\ Trail(j)'[i] = Trail(j)[i]
          BY <2>1, <2>2, <2>4, <4>2
        <5>2. Cardinality(UpTo(j, i)) \in 1 .. Len(R)
          BY <1>2, <5>1, PlaceOfResult
        <5> QED  BY <1>2, <3>2, <5>1, <5>2
      <4> QED  BY <4>1, <4>2
    <3> QED  BY <1>4, <3>2, <3>3, <3>4 DEF Matches
  <2> QED  BY <2>3, <2>4
<1> QED  BY <1>6, <1>7, FinishedShape

LEMMA ResultsKeep == Inv /\ Inv' /\ ResultsInv /\ [Next]_vars => ResultsInv'
<1> SUFFICES ASSUME Inv, Inv', ResultsInv, [Next]_vars, NEW i \in Jobs
             PROVE  Matches(i)'
  BY DEF ResultsInv
<1>1. CASE Next
  <2>1. PICK j \in Jobs : Start(j) \/ run(j)
    BY <1>1 DEF Next
  <2>2. CASE i = j
    BY <2>1, <2>2, ResultsOfStart, ResultsOfRun
  <2>3. CASE i # j
    <3>1. /\ pc'[i] = pc[i] /\ toolResults'[i] = toolResults[i] /\ calls'[i] = calls[i]
          /\ Live(i) => Trail(i)' = Trail(i)
      BY <2>1, <2>3, OthersKeep
    <3>2. Live(i) => Finished(i)' = Finished(i) /\ \A k : UpTo(i, k)' = UpTo(i, k)
      BY <3>1 DEF Finished, Of, UpTo
    <3> QED  BY <3>1, <3>2 DEF ResultsInv, Matches, Live
  <2> QED  BY <2>2, <2>3
<1>2. CASE UNCHANGED vars
  <2>1. /\ pc'[i] = pc[i] /\ toolResults'[i] = toolResults[i] /\ calls'[i] = calls[i]
        /\ Trail(i)' = Trail(i)
    BY <1>2 DEF vars, Trail
  <2>2. Finished(i)' = Finished(i) /\ \A k : UpTo(i, k)' = UpTo(i, k)
    BY <2>1 DEF Finished, Of, UpTo
  <2> QED  BY <2>1, <2>2 DEF ResultsInv, Matches, Live
<1> QED  BY <1>1, <1>2

\* run: the results in the answer are those of the tools whose end the run's
\* own trail tells of, in that order, with at most one handler still under way.
THEOREM ResultsMatch == Spec => []ResultsMatchTrail
<1>1. Init => ResultsInv
  BY DEF Init, ResultsInv, Matches, Live
<1>2. ResultsInv => ResultsMatchTrail
  BY DEF ResultsInv, Matches, ResultsMatchTrail, Finished, UpTo
<1> QED  BY <1>1, <1>2, ResultsKeep, JobsFit, PTL DEF Spec
=============================================================================
