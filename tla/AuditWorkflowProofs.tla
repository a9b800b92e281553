------------------------- MODULE AuditWorkflowProofs -------------------------
(***************************************************************************)
(* Proofs about AuditWorkflow for every number of requests, approvers,     *)
(* operators and concurrent attempts, and every score scale.               *)
(***************************************************************************)
EXTENDS AuditWorkflow, TLAPS

(***************************************************************************)
(* The plan of either kind of audit names known steps and holds the        *)
(* approval gate at exactly one place (workflow.go, steps).                *)
(***************************************************************************)
LEMMA PlanFacts ==
  ASSUME NEW t \in AuditTypes, NEW i \in 1..LastStep(t)
  PROVE  /\ Plan(t)[i] \in StepNames
         /\ Plan(t)[i] = "check_approval_gate" <=> i = GateStep(t)
<1>1. CASE t = "incremental"
  <2>1. i \in {1, 2, 3, 4, 5, 6, 7, 8, 9}
    BY <1>1 DEF LastStep
  <2> QED
    BY <1>1, <2>1 DEF Plan, StepNames, GateStep
<1>2. CASE t = "full"
  <2>1. i \in {1, 2, 3, 4, 5, 6, 7, 8}
    BY <1>2 DEF LastStep
  <2> QED
    BY <1>2, <2>1 DEF Plan, StepNames, GateStep
<1> QED
  BY <1>1, <1>2 DEF AuditTypes

(***************************************************************************)
(* Percentages computed by integer division stay within 0..100.            *)
(***************************************************************************)
LEMMA PctBounds ==
  ASSUME NEW t \in AuditTypes, NEW i \in 1..LastStep(t)
  PROVE  PctDone(i, t) \in 0..100 /\ PctFail(i, t) \in 0..100
<1>1. CASE t = "incremental"
  BY <1>1 DEF LastStep, PctDone, PctFail
<1>2. CASE t = "full"
  BY <1>2 DEF LastStep, PctDone, PctFail
<1> QED
  BY <1>1, <1>2 DEF AuditTypes

-----------------------------------------------------------------------------
rowVars     == <<auditType, job, tableScore, req, recorded, late>>
flowVars    == <<trigger, workflowVars, signals>>
handlerVars == <<desk, click>>

(***************************************************************************)
(* A part of the type invariant survives a step that leaves its variables. *)
(***************************************************************************)
LEMMA RowStutter == ASSUME RowTypes, UNCHANGED rowVars PROVE RowTypes'
BY DEF RowTypes, rowVars

LEMMA FlowStutter ==
  ASSUME WorkflowTypes, UNCHANGED auditType, UNCHANGED flowVars
  PROVE  WorkflowTypes'
BY DEF WorkflowTypes, flowVars, workflowVars

LEMMA HandlerStutter == ASSUME HandlerTypes, UNCHANGED handlerVars PROVE HandlerTypes'
BY DEF HandlerTypes, handlerVars

LEMMA InitTypeOK == ASSUME Init PROVE TypeOK
<1>1. RowTypes
  <2>1. job \in Job
    <3>1. job = [status |-> "none", step |-> "", progress |-> 0, score |-> 0]
      BY DEF Init
    <3>2. 0 \in 0..100 /\ 0 \in Nat 
      OBVIOUS
    <3>3. "none" \in Statuses /\ "" \in StepNames \cup {""}
      BY DEF Statuses
    <3> QED
      BY <3>1, <3>2, <3>3, Zenon DEF Job
  <2>2. recorded \subseteq (Requests \X Decisions) /\ tableScore \in Nat
    BY DEF Init
  <2>3. req \in [Requests -> {"none", "pending"} \cup Decisions]
    BY DEF Init
  <2> QED
    BY <2>1, <2>2, <2>3 DEF RowTypes, Init
<1>2. WorkflowTypes
  <2>1. step \in 1..LastStep(auditType)
    <3>1. step = 1
      BY DEF Init
    <3> QED
      BY <3>1 DEF LastStep
  <2>2. attempt \in [Slots -> Attempt]
    BY DEF Init, Idle, Attempt
  <2>3. tries \in 0..MaxTries
    <3>1. tries = 0
      BY DEF Init
    <3> QED
      BY <3>1, BoundsAssumption
  <2>4. signals \in Seq(BOOLEAN)
    <3>1. signals = << >>
      BY DEF Init
    <3> QED
      BY <3>1
  <2>5. /\ phase \in Phases /\ gate \in {"unchecked", "clear", "required"}
        /\ trigger \in {"idle", "starting", "started", "lost"}
        /\ live \in Slots \cup {NoSlot}
    BY DEF Init, Phases
  <2> QED
    BY <2>1, <2>2, <2>3, <2>4, <2>5 DEF WorkflowTypes
<1>3. HandlerTypes
  BY DEF Init, HandlerTypes, IdleDesk, Desk
<1> QED
  BY <1>1, <1>2, <1>3 DEF TypeOK

(***************************************************************************)
(* Writing one status, or a step's status, name and percentage, or a score *)
(* with its percentage, keeps the row well formed.                         *)
(***************************************************************************)
LEMMA JobStatusType ==
  ASSUME job \in Job, NEW st \in Statuses, job' = [job EXCEPT !.status = st]
  PROVE  job' \in Job
BY DEF Job

LEMMA JobStepType ==
  ASSUME job \in Job, NEW st \in Statuses, NEW n \in StepNames, NEW pct \in 0..100,
         job' = [job EXCEPT !.status = st, !.step = n, !.progress = pct]
  PROVE  job' \in Job
BY DEF Job

LEMMA JobScoreType ==
  ASSUME job \in Job, NEW pct \in 0..100, NEW sc \in Nat,
         job' = [job EXCEPT !.progress = pct, !.score = sc]
  PROVE  job' \in Job
BY DEF Job

(***************************************************************************)
(* The trigger's goroutine, the operators and the approvers.               *)
(***************************************************************************)
LEMMA TriggerTypes ==
  ASSUME TypeOK,
         TriggerAudit \/ StartAuditWorkflow \/ GoroutineFails
  PROVE  TypeOK'
<1>1. HandlerTypes'
  BY HandlerStutter DEF TypeOK, TriggerAudit, StartAuditWorkflow,
     GoroutineFails, handlerVars
<1>2. RowTypes'
  <2>1. CASE TriggerAudit
    <3>1. job' \in Job
      BY <2>1, JobStatusType DEF TriggerAudit, TypeOK, RowTypes, Statuses
    <3> QED
      BY <2>1, <3>1 DEF TriggerAudit, TypeOK, RowTypes
  <2>2. CASE StartAuditWorkflow \/ GoroutineFails
    BY <2>2, RowStutter DEF TypeOK, rowVars, StartAuditWorkflow, GoroutineFails
  <2> QED
    BY <2>1, <2>2
<1>3. WorkflowTypes'
  BY DEF TypeOK, WorkflowTypes, workflowVars, Phases, TriggerAudit,
     StartAuditWorkflow, GoroutineFails
<1> QED
  BY <1>1, <1>2, <1>3 DEF TypeOK

LEMMA ClickTypes ==
  ASSUME TypeOK, NEW u \in Operators,
         BeginClick(u) \/ PauseAudit(u) \/ ResumeAudit(u)
  PROVE  TypeOK'
<1>1. HandlerTypes'
  BY DEF TypeOK, HandlerTypes, clickOthers, BeginClick, PauseAudit, ResumeAudit
<1>2. WorkflowTypes'
  BY FlowStutter DEF TypeOK, flowVars, clickOthers, BeginClick, PauseAudit, ResumeAudit
<1>3. job' \in Job
  BY JobStatusType DEF TypeOK, RowTypes, Statuses, BeginClick, PauseAudit, ResumeAudit
<1>4. RowTypes'
  BY <1>3 DEF TypeOK, RowTypes, clickOthers, BeginClick, PauseAudit, ResumeAudit
<1> QED
  BY <1>1, <1>2, <1>4 DEF TypeOK

LEMMA ApproverTypes ==
  ASSUME TypeOK, NEW a \in Approvers,
         BeginDecide(a) \/ DecideApproval(a) \/ DecideDies(a)
  PROVE  TypeOK'
<1> USE DEF TypeOK, deskOthers
<1>1. CASE BeginDecide(a)
  <2>1. PICK r \in Requests, d \in Decisions :
          desk' = [desk EXCEPT ![a] = [pc |-> "decide", r |-> r, d |-> d]]
    BY <1>1 DEF BeginDecide
  <2>2. [pc |-> "decide", r |-> r, d |-> d] \in Desk
    BY DEF Desk
  <2>3. HandlerTypes'
    BY <1>1, <2>1, <2>2 DEF HandlerTypes, BeginDecide
  <2> QED
    BY <1>1, <2>3, RowStutter, FlowStutter DEF BeginDecide, rowVars, flowVars
<1>2. ASSUME desk[a].pc # "idle",
             UNCHANGED click,
             \/ LeaveDesk(a)
             \/ \E pc \in {"readJob", "writeJob", "signal"} : GoDesk(a, pc)
      PROVE  HandlerTypes'
  <2>1. CASE LeaveDesk(a)
    <3>1. IdleDesk \in Desk /\ IdleDesk.pc = "idle"
      BY DEF IdleDesk, Desk
    <3> QED
      BY <1>2, <2>1, <3>1 DEF HandlerTypes, LeaveDesk
  <2>2. ASSUME NEW pc \in {"readJob", "writeJob", "signal"}, GoDesk(a, pc)
        PROVE  HandlerTypes'
    <3>1. desk[a] \in Desk /\ desk[a].r \in Requests /\ desk[a].d \in Decisions
      BY <1>2 DEF HandlerTypes
    <3>2. desk' = [desk EXCEPT ![a].pc = pc] /\ click' = click
      BY <2>2, <1>2 DEF GoDesk
    <3>3. [desk[a] EXCEPT !.pc = pc] \in Desk
      BY <3>1 DEF Desk
    <3>4. /\ [desk[a] EXCEPT !.pc = pc].r = desk[a].r
          /\ [desk[a] EXCEPT !.pc = pc].d = desk[a].d
      BY <3>1 DEF Desk
    <3> QED
      BY <3>1, <3>2, <3>3, <3>4 DEF HandlerTypes
  <2> QED
    BY <1>2, <2>1, <2>2
<1>3. CASE UpdateApprovalStatus(a)
  <2>1. HandlerTypes'
    BY <1>3, <1>2 DEF UpdateApprovalStatus
  <2>2. desk[a].r \in Requests /\ desk[a].d \in Decisions
    BY <1>3 DEF UpdateApprovalStatus, HandlerTypes
  <2>3. req' \in [Requests -> {"none", "pending"} \cup Decisions]
    BY <1>3, <2>2 DEF UpdateApprovalStatus, RowTypes
  <2>4. recorded' \subseteq (Requests \X Decisions)
    BY <1>3, <2>2 DEF UpdateApprovalStatus, RowTypes
  <2>5. RowTypes'
    BY <1>3, <2>3, <2>4 DEF UpdateApprovalStatus, RowTypes
  <2>6. WorkflowTypes'
    BY <1>3, FlowStutter DEF UpdateApprovalStatus, flowVars
  <2> QED
    BY <2>1, <2>5, <2>6
<1>4. CASE DecideReadsAudit(a)
  <2>1. HandlerTypes'
    BY <1>4, <1>2 DEF DecideReadsAudit
  <2> QED
    BY <1>4, <2>1, RowStutter, FlowStutter DEF DecideReadsAudit, rowVars, flowVars
<1>5. CASE DecideResumesAudit(a)
  <2>1. HandlerTypes'
    BY <1>5, <1>2 DEF DecideResumesAudit
  <2>2. job' \in Job
    BY <1>5, JobStatusType DEF DecideResumesAudit, RowTypes, Statuses
  <2>3. RowTypes'
    BY <1>5, <2>2 DEF DecideResumesAudit, RowTypes
  <2>4. WorkflowTypes'
    BY <1>5, FlowStutter DEF DecideResumesAudit, flowVars
  <2> QED
    BY <2>1, <2>3, <2>4
<1>6. CASE SignalWorkflow(a)
  <2>1. HandlerTypes'
    BY <1>6, <1>2 DEF SignalWorkflow
  <2>2. signals' \in Seq(BOOLEAN)
    <3> DEFINE b == desk[a].d = "approved"
    <3>1. b \in BOOLEAN
      OBVIOUS
    <3>2. signals' = signals \/ signals' = Append(signals, b)
      BY <1>6 DEF SignalWorkflow
    <3>3. signals \in Seq(BOOLEAN)
      BY DEF WorkflowTypes
    <3> HIDE DEF b
    <3>4. Append(signals, b) \in Seq(BOOLEAN)
      BY <3>1, <3>3
    <3> QED
      BY <3>2, <3>3, <3>4
  <2>3. WorkflowTypes'
    BY <1>6, <2>2 DEF SignalWorkflow, WorkflowTypes, workflowVars
  <2>4. RowTypes'
    BY <1>6, RowStutter DEF SignalWorkflow, rowVars
  <2> QED
    BY <2>1, <2>3, <2>4
<1>7. CASE DecideDies(a)
  <2>1. HandlerTypes'
    BY <1>7, <1>2 DEF DecideDies
  <2> QED
    BY <1>7, <2>1, RowStutter, FlowStutter DEF DecideDies, rowVars, flowVars
<1> QED
  BY <1>1, <1>3, <1>4, <1>5, <1>6, <1>7 DEF DecideApproval

(***************************************************************************)
(* The activity the workflow is blocked on is a known one.                 *)
(***************************************************************************)
LEMMA ScheduledType == ASSUME TypeOK PROVE Scheduled \in Acts \cup {"none"}
<1>1. Plan(auditType)[step] \in StepNames
  BY PlanFacts DEF TypeOK, RowTypes, WorkflowTypes
<1> QED
  BY <1>1 DEF Scheduled, Acts, Bookkeeping, GateActs

LEMMA SlotTypes ==
  ASSUME TypeOK, NEW s \in Slots,
         StartAttempt(s) \/ LoseAttempt(s) \/ AbandonedAttemptStops(s)
  PROVE  TypeOK'
<1> USE DEF TypeOK
<1>1. RowTypes' /\ HandlerTypes'
  BY RowStutter, HandlerStutter
  DEF rowVars, handlerVars, StartAttempt, LoseAttempt, AbandonedAttemptStops
<1>2. attempt' \in [Slots -> Attempt]
  <2>1. Idle \in Attempt
    BY DEF Idle, Attempt
  <2>2. [Idle EXCEPT !.act = Scheduled] \in Attempt
    BY ScheduledType, <2>1 DEF Attempt
  <2>3. attempt \in [Slots -> Attempt]
    BY DEF WorkflowTypes
  <2>4. \/ attempt' = [attempt EXCEPT ![s] = Idle]
        \/ attempt' = [attempt EXCEPT ![s] = [Idle EXCEPT !.act = Scheduled]]
        \/ attempt' = attempt
    BY DEF StartAttempt, LoseAttempt, AbandonedAttemptStops
  <2> QED
    BY <2>1, <2>2, <2>3, <2>4
<1>3. live' \in Slots \cup {NoSlot}
  BY DEF WorkflowTypes, StartAttempt, LoseAttempt, AbandonedAttemptStops
<1>4. tries' \in 0..MaxTries
  BY BoundsAssumption DEF WorkflowTypes, StartAttempt, LoseAttempt, AbandonedAttemptStops
<1>5. WorkflowTypes'
  BY <1>2, <1>3, <1>4 DEF WorkflowTypes, StartAttempt, LoseAttempt, AbandonedAttemptStops
<1> QED
  BY <1>1, <1>5

(***************************************************************************)
(* Advancing an attempt to its next point, with or without the score it    *)
(* read, keeps the attempts well formed.                                   *)
(***************************************************************************)
LEMMA AdvanceTypes ==
  ASSUME attempt \in [Slots -> Attempt], NEW s \in Slots,
         NEW q \in {"begin", "counted", "scored", "ended"}, NEW n \in Nat,
         \/ attempt' = [attempt EXCEPT ![s].at = q]
         \/ attempt' = [attempt EXCEPT ![s].at = q, ![s].seen = n]
  PROVE  attempt' \in [Slots -> Attempt]
<1>1. attempt[s] \in Attempt
  OBVIOUS
<1>2. /\ [attempt[s] EXCEPT !.at = q] \in Attempt
      /\ [attempt[s] EXCEPT !.at = q, !.seen = n] \in Attempt
  BY <1>1 DEF Attempt
<1> QED
  BY <1>2

(***************************************************************************)
(* An attempt stays with its activity while it performs.                   *)
(***************************************************************************)
LEMMA AdvanceAct ==
  ASSUME attempt \in [Slots -> Attempt], NEW s \in Slots, NEW q, NEW n,
         \/ attempt' = [attempt EXCEPT ![s].at = q]
         \/ attempt' = [attempt EXCEPT ![s].at = q, ![s].seen = n],
         NEW t \in Slots
  PROVE  attempt'[t].act = attempt[t].act
<1>1. attempt[s] \in Attempt
  OBVIOUS
<1>2. /\ [attempt[s] EXCEPT !.at = q].act = attempt[s].act
      /\ [attempt[s] EXCEPT !.at = q, !.seen = n].act = attempt[s].act
  BY <1>1 DEF Attempt
<1> QED
  BY <1>2

performVars == <<auditType, trigger, phase, step, gate, live, tries, signals,
                 desk, click, recorded>>

(***************************************************************************)
(* What every step of a running activity leaves alone.                     *)
(***************************************************************************)
LEMMA PerformFrame ==
  ASSUME TypeOK, NEW s \in Slots, Perform(s)
  PROVE  /\ UNCHANGED performVars
         /\ attempt' \in [Slots -> Attempt]
         /\ \A t \in Slots : attempt'[t].act = attempt[t].act
<1>1. attempt \in [Slots -> Attempt] /\ job.score \in Nat /\ tableScore \in Nat
  BY DEF TypeOK, WorkflowTypes, RowTypes, Job
<1>2. /\ UNCHANGED performVars
      /\ \E q \in {"begin", "counted", "scored", "ended"}, n \in Nat :
           \/ attempt' = [attempt EXCEPT ![s].at = q]
           \/ attempt' = [attempt EXCEPT ![s].at = q, ![s].seen = n]
  <2>1. ASSUME NEW acts, NEW p, NEW q \in {"begin", "ended", "scored"}, Runs(s, acts, p, q)
        PROVE  /\ UNCHANGED performVars
               /\ attempt' = [attempt EXCEPT ![s].at = q]
    BY <2>1 DEF Runs, performVars
  <2>2. CASE CountFindingsBySeverity(s) \/ CheckApprovalGate(s)
    BY <2>2, <1>1 DEF CountFindingsBySeverity, CheckApprovalGate, performVars
  <2>3. CASE \/ InitializeAudit(s) \/ CreateFinding(s) \/ ReturnFromActivity(s)
             \/ CalculateRiskScore(s) \/ CompleteScore(s) \/ CompleteStatus(s)
             \/ CreateApprovalRequest(s) \/ CancelAudit(s)
             \/ UpdateAuditStep(s) \/ MarkAuditFailed(s)
    <3>1. \E acts, p : \E q \in {"begin", "ended", "scored"} : Runs(s, acts, p, q)
      BY <2>3, Zenon DEF InitializeAudit, CreateFinding, ReturnFromActivity,
         CalculateRiskScore, CompleteScore, CompleteStatus,
         CreateApprovalRequest, CancelAudit, UpdateAuditStep, MarkAuditFailed
    <3>2. 0 \in Nat
      OBVIOUS
    <3> QED
      BY <2>1, <3>1, <3>2
  <2> QED
    BY <2>2, <2>3 DEF Perform
<1> QED
  BY <1>1, <1>2, AdvanceTypes, AdvanceAct

(***************************************************************************)
(* Every write of an activity keeps the rows well formed: scores stay      *)
(* natural numbers, percentages within 0..100, names those of the plan.    *)
(***************************************************************************)
LEMMA PerformRows ==
  ASSUME TypeOK, NEW s \in Slots, Perform(s)
  PROVE  job' \in Job /\ tableScore' \in Nat
         /\ req' \in [Requests -> {"none", "pending"} \cup Decisions]
<1>1. /\ job \in Job /\ tableScore \in Nat /\ auditType \in AuditTypes
      /\ req \in [Requests -> {"none", "pending"} \cup Decisions]
      /\ step \in 1..LastStep(auditType)
      /\ attempt \in [Slots -> Attempt]
  BY DEF TypeOK, RowTypes, WorkflowTypes
<1>2. attempt[s].seen \in Nat
  BY <1>1 DEF Attempt
<1>3. /\ Plan(auditType)[step] \in StepNames
      /\ PctDone(step, auditType) \in 0..100 /\ PctFail(step, auditType) \in 0..100
  BY <1>1, PlanFacts, PctBounds
<1>4. CASE CancelAudit(s) \/ CompleteStatus(s)
  <2>1. \E st \in Statuses : job' = [job EXCEPT !.status = st]
    BY <1>4 DEF CancelAudit, CompleteStatus, Statuses
  <2> QED
    BY <1>1, <1>4, <2>1, JobStatusType DEF CancelAudit, CompleteStatus
<1>10. CASE InitializeAudit(s)
  <2>1. job' \in Job
    BY <1>1, <1>10, JobStatusType DEF InitializeAudit, Statuses
  <2> QED
    BY <1>1, <1>10, <2>1 DEF InitializeAudit
<1>5. CASE CreateFinding(s)
  <2>1. PICK w \in Weights : tableScore' = Clamp(tableScore + w)
    BY <1>5 DEF CreateFinding
  <2>2. tableScore' \in Nat
    BY <1>1, <2>1, BoundsAssumption DEF Clamp
  <2> QED
    BY <1>1, <1>5, <2>2 DEF CreateFinding
<1>6. CASE ReturnFromActivity(s) \/ CountFindingsBySeverity(s) \/ CheckApprovalGate(s)
  BY <1>1, <1>6 DEF ReturnFromActivity, CountFindingsBySeverity, CheckApprovalGate
<1>7. CASE CalculateRiskScore(s) \/ CompleteScore(s)
  <2>1. 50 \in 0..100 /\ 100 \in 0..100
    OBVIOUS
  <2>2. \E pct \in 0..100, sc \in Nat : job' = [job EXCEPT !.progress = pct, !.score = sc]
    BY <1>7, <1>2, <2>1, Zenon DEF CalculateRiskScore, CompleteScore
  <2>3. job' \in Job
    BY <1>1, <2>2, JobScoreType
  <2> QED
    BY <1>1, <1>7, <2>3 DEF CalculateRiskScore, CompleteScore
<1>8. CASE CreateApprovalRequest(s)
  BY <1>1, <1>8 DEF CreateApprovalRequest
<1>9. CASE UpdateAuditStep(s) \/ MarkAuditFailed(s)
  <2>1. /\ {"paused", "running", "failed"} \subseteq Statuses
        /\ 100 \in 0..100
    BY DEF Statuses
  <2>2. \E st \in Statuses, n \in StepNames, pct \in 0..100 :
          job' = [job EXCEPT !.status = st, !.step = n, !.progress = pct]
    <3>1. CASE UpdateAuditStep(s)
      <4> DEFINE st == IF phase = "pause" THEN "paused" ELSE "running"
      <4>1. st \in Statuses
        BY <2>1
      <4> QED
        BY <3>1, <4>1, <1>3, Zenon DEF UpdateAuditStep
    <3>2. CASE MarkAuditFailed(s)
      <4> DEFINE pct == IF step = LastStep(auditType) THEN 100 ELSE PctFail(step, auditType)
      <4>1. pct \in 0..100 /\ "failed" \in Statuses
        BY <2>1, <1>3
      <4> QED
        BY <3>2, <4>1, <1>3, Zenon DEF MarkAuditFailed
    <3> QED
      BY <1>9, <3>1, <3>2
  <2>3. job' \in Job
    BY <1>1, <2>2, JobStepType
  <2> QED
    BY <1>1, <1>9, <2>3 DEF UpdateAuditStep, MarkAuditFailed
<1> QED
  BY <1>4, <1>5, <1>6, <1>7, <1>8, <1>9, <1>10 DEF Perform

\* What activities may record as late.
LEMMA LateWrites ==
  ASSUME NEW s \in Slots, Perform(s)
  PROVE  late \subseteq late' /\ late' \subseteq late \cup {"finding", "score"}
<1>1. CASE CreateFinding(s) \/ CalculateRiskScore(s)
  BY <1>1 DEF CreateFinding, CalculateRiskScore
<1>2. CASE CountFindingsBySeverity(s) \/ CheckApprovalGate(s)
  BY <1>2 DEF CountFindingsBySeverity, CheckApprovalGate
<1>3. CASE \/ InitializeAudit(s) \/ ReturnFromActivity(s) \/ CompleteScore(s)
           \/ CompleteStatus(s) \/ CreateApprovalRequest(s) \/ CancelAudit(s)
           \/ UpdateAuditStep(s) \/ MarkAuditFailed(s)
  BY <1>3 DEF InitializeAudit, ReturnFromActivity, CompleteScore, CompleteStatus,
     CreateApprovalRequest, CancelAudit, UpdateAuditStep, MarkAuditFailed
<1> QED
  BY <1>1, <1>2, <1>3 DEF Perform

LEMMA PerformTypes ==
  ASSUME TypeOK, NEW s \in Slots, Perform(s)
  PROVE  TypeOK'
<1>1. RowTypes'
  BY PerformFrame, PerformRows, LateWrites DEF TypeOK, RowTypes, performVars
<1>2. WorkflowTypes'
  BY PerformFrame DEF TypeOK, WorkflowTypes, performVars
<1>3. HandlerTypes'
  BY PerformFrame, HandlerStutter DEF TypeOK, performVars, handlerVars
<1> QED
  BY <1>1, <1>2, <1>3 DEF TypeOK

(***************************************************************************)
(* The workflow function moves between its known positions.  That the step *)
(* after the gate exists is not a matter of types alone: it takes          *)
(* GateShape to know that a workflow resumes only at the gate.             *)
(***************************************************************************)
LEMMA ContinueFrame ==
  ASSUME TypeOK, GateShape, NEW s \in Slots, WorkflowContinues(s)
  PROVE  /\ Result(s)
         /\ phase' \in Phases
         /\ gate' \in {"unchecked", "clear", "required"}
         /\ step' \in 1..LastStep(auditType)
<1>1. /\ phase \in Phases /\ gate \in {"unchecked", "clear", "required"}
      /\ step \in 1..LastStep(auditType)
      /\ LastStep(auditType) \in Nat
  BY DEF TypeOK, WorkflowTypes, LastStep
<1>2. CASE GateReturns(s)
  BY <1>1, <1>2 DEF GateReturns, Phases
<1>3. CASE RecordReturns(s)
  BY <1>1, <1>3 DEF RecordReturns, Goto, NextStep, Phases
<1>4. CASE ResumeReturns(s)
  <2>1. step = GateStep(auditType)
    BY <1>4 DEF ResumeReturns, GateShape, AtGate
  <2>2. step < LastStep(auditType)
    BY <2>1 DEF GateStep, LastStep
  <2> QED
    BY <1>1, <1>4, <2>2 DEF ResumeReturns, NextStep, Phases
<1>5. CASE \/ StepReturns(s) \/ AskReturns(s) \/ PauseReturns(s) \/ CancelReturns(s)
           \/ CompleteReturns(s) \/ FailReturns(s)
  BY <1>1, <1>5 DEF StepReturns, AskReturns, PauseReturns, CancelReturns,
     CompleteReturns, FailReturns, Goto, Phases
<1> QED
  BY <1>2, <1>3, <1>4, <1>5 DEF WorkflowContinues

LEMMA ContinueTypes ==
  ASSUME TypeOK, GateShape, NEW s \in Slots, WorkflowContinues(s)
  PROVE  TypeOK'
<1>1. RowTypes' /\ HandlerTypes'
  BY ContinueFrame, RowStutter, HandlerStutter DEF TypeOK, Result, rowVars, handlerVars
<1>2. attempt' \in [Slots -> Attempt]
  <2>1. Idle \in Attempt
    BY DEF Idle, Attempt
  <2> QED
    BY <2>1, ContinueFrame DEF TypeOK, WorkflowTypes, Result
<1>3. tries' \in 0..MaxTries /\ live' \in Slots \cup {NoSlot}
  <2>1. tries' = 0 /\ live' = NoSlot
    BY ContinueFrame DEF Result
  <2> QED
    BY <2>1, BoundsAssumption
<1>4. /\ auditType' = auditType /\ trigger' = trigger /\ signals' = signals
  BY ContinueFrame DEF Result
<1>5. WorkflowTypes'
  BY <1>2, <1>3, <1>4, ContinueFrame DEF TypeOK, WorkflowTypes
<1> QED
  BY <1>1, <1>5 DEF TypeOK

LEMMA ReceiveTypes ==
  ASSUME TypeOK, ReceiveSignal
  PROVE  TypeOK'
<1>1. RowTypes' /\ HandlerTypes'
  BY RowStutter, HandlerStutter DEF TypeOK, ReceiveSignal, rowVars, handlerVars
<1>2. signals' \in Seq(BOOLEAN)
  <2>1. signals \in Seq(BOOLEAN) /\ signals # << >> /\ signals' = Tail(signals)
    BY DEF TypeOK, WorkflowTypes, ReceiveSignal
  <2> QED
    BY <2>1
<1>3. phase' \in Phases /\ UNCHANGED <<step, gate>>
  BY DEF ReceiveSignal, Goto, Phases
<1>4. WorkflowTypes'
  BY <1>2, <1>3 DEF TypeOK, WorkflowTypes, ReceiveSignal
<1> QED
  BY <1>1, <1>4 DEF TypeOK

LEMMA GiveUpTypes ==
  ASSUME TypeOK, GiveUp
  PROVE  TypeOK'
<1>1. RowTypes' /\ HandlerTypes'
  BY RowStutter, HandlerStutter DEF TypeOK, GiveUp, rowVars, handlerVars
<1>2. phase' \in Phases /\ UNCHANGED <<step, gate>>
  BY DEF GiveUp, Goto, Phases
<1>3. tries' \in 0..MaxTries
  <2>1. tries' = 0
    BY DEF GiveUp
  <2> QED
    BY <2>1, BoundsAssumption
<1>4. WorkflowTypes'
  BY <1>2, <1>3 DEF TypeOK, WorkflowTypes, GiveUp
<1> QED
  BY <1>1, <1>4 DEF TypeOK

(***************************************************************************)
(* One step from a well-formed state whose position fits its verdict.      *)
(***************************************************************************)
LEMMA NextTypeOK ==
  ASSUME TypeOK, GateShape, [Next]_vars
  PROVE  TypeOK'
<1>1. CASE UNCHANGED vars
  BY <1>1, RowStutter, FlowStutter, HandlerStutter
  DEF TypeOK, vars, workflowVars, rowVars, flowVars, handlerVars
<1>2. CASE TriggerAudit \/ StartAuditWorkflow \/ GoroutineFails
  BY <1>2, TriggerTypes
<1>3. ASSUME NEW s \in Slots,
             \/ StartAttempt(s) \/ LoseAttempt(s) \/ AbandonedAttemptStops(s)
             \/ Perform(s) \/ WorkflowContinues(s)
      PROVE  TypeOK'
  BY <1>3, SlotTypes, PerformTypes, ContinueTypes
<1>4. CASE ReceiveSignal \/ GiveUp
  BY <1>4, ReceiveTypes, GiveUpTypes
<1>5. ASSUME NEW a \in Approvers, BeginDecide(a) \/ DecideApproval(a) \/ DecideDies(a)
      PROVE  TypeOK'
  BY <1>5, ApproverTypes
<1>6. ASSUME NEW u \in Operators, BeginClick(u) \/ PauseAudit(u) \/ ResumeAudit(u)
      PROVE  TypeOK'
  BY <1>6, ClickTypes
<1>7. CASE Rest
  BY <1>1, <1>7 DEF Rest
<1> QED
  BY <1>1, <1>2, <1>3, <1>4, <1>5, <1>6, <1>7 DEF Next

-----------------------------------------------------------------------------
(***************************************************************************)
(* The position of the workflow fits its verdict after every step.         *)
(***************************************************************************)
positionVars == <<auditType, phase, step, gate>>

LEMMA GatePlace ==
  ASSUME auditType \in AuditTypes
  PROVE  /\ GateStep(auditType) \in 2..LastStep(auditType)
         /\ GateStep(auditType) < LastStep(auditType)
         /\ LastStep(auditType) \in Nat
BY DEF AuditTypes, GateStep, LastStep

LEMMA InitGateShape == ASSUME Init PROVE GateShape
<1>1. phase = "none" /\ step = 1 /\ gate = "unchecked" /\ auditType \in AuditTypes
  BY DEF Init
<1> QED
  BY <1>1, GatePlace DEF GateShape, AtGate

LEMMA ContinueShape ==
  ASSUME TypeOK, GateShape, NEW s \in Slots, WorkflowContinues(s)
  PROVE  GateShape'
<1>1. auditType' = auditType /\ trigger' = trigger
  BY ContinueFrame DEF Result
<1>2. /\ auditType \in AuditTypes /\ step \in 1..LastStep(auditType)
      /\ gate \in {"unchecked", "clear", "required"}
  BY DEF TypeOK, RowTypes, WorkflowTypes
<1>3. /\ GateStep(auditType) \in Nat /\ LastStep(auditType) \in Nat /\ step \in Nat
      /\ GateStep(auditType) < LastStep(auditType)
  BY <1>2, GatePlace
<1>4. phase = "step" => (Scheduled = "check_approval_gate" <=> step = GateStep(auditType))
  BY <1>2, PlanFacts DEF Scheduled
<1> USE <1>1, <1>2, <1>3, <1>4 DEF GateShape, AtGate, Goto
<1>5. CASE StepReturns(s)
  BY <1>5 DEF StepReturns
<1>6. CASE GateReturns(s)
  BY <1>6 DEF GateReturns
<1>7. CASE RecordReturns(s)
  BY <1>7 DEF RecordReturns, NextStep
<1>8. CASE ResumeReturns(s)
  BY <1>8 DEF ResumeReturns, NextStep
<1>9. CASE AskReturns(s) \/ PauseReturns(s) \/ CancelReturns(s)
  BY <1>9 DEF AskReturns, PauseReturns, CancelReturns
<1>10. CASE CompleteReturns(s) \/ FailReturns(s)
  BY <1>10 DEF CompleteReturns, FailReturns
<1> QED
  BY <1>5, <1>6, <1>7, <1>8, <1>9, <1>10 DEF WorkflowContinues

LEMMA GiveUpShape ==
  ASSUME TypeOK, GateShape, GiveUp
  PROVE  GateShape'
<1>1. /\ auditType \in AuditTypes /\ step \in 1..LastStep(auditType)
      /\ gate \in {"unchecked", "clear", "required"}
  BY DEF TypeOK, RowTypes, WorkflowTypes
<1>2. /\ GateStep(auditType) \in Nat /\ LastStep(auditType) \in Nat /\ step \in Nat
      /\ GateStep(auditType) < LastStep(auditType)
  BY <1>1, GatePlace
<1>3. UNCHANGED <<auditType, trigger, step, gate>>
  BY DEF GiveUp, Goto
<1> USE <1>2, <1>3 DEF GateShape, AtGate, Goto
<1>4. CASE phase = "step" /\ step # LastStep(auditType) /\ Goto("fail")
  BY <1>4
<1>5. CASE phase = "step" /\ step = LastStep(auditType) /\ Goto("record")
  BY <1>5
<1>6. CASE phase = "ask" /\ Goto("pause")
  BY <1>6
<1>7. CASE phase = "cancel" /\ Goto("errored")
  BY <1>7
<1>8. CASE phase = "complete" /\ Goto("fail")
  BY <1>8
<1> QED
  BY <1>4, <1>5, <1>6, <1>7, <1>8 DEF GiveUp

(***************************************************************************)
(* Every other step leaves the position alone, but for the workflow's      *)
(* start and the signal.                                                   *)
(***************************************************************************)
LEMMA PositionFrame ==
  ASSUME TypeOK,
         \/ TriggerAudit \/ GoroutineFails
         \/ \E s \in Slots : StartAttempt(s) \/ LoseAttempt(s)
                             \/ AbandonedAttemptStops(s) \/ Perform(s)
         \/ \E a \in Approvers : BeginDecide(a) \/ DecideApproval(a) \/ DecideDies(a)
         \/ \E u \in Operators : BeginClick(u) \/ PauseAudit(u) \/ ResumeAudit(u)
         \/ Rest \/ UNCHANGED vars
  PROVE  /\ UNCHANGED positionVars
         /\ trigger' \in {"idle", "starting"} => trigger \in {"idle", "starting"}
<1> USE DEF positionVars, workflowVars
<1>1. CASE TriggerAudit \/ GoroutineFails
  BY <1>1 DEF TriggerAudit, GoroutineFails
<1>2. ASSUME NEW s \in Slots, StartAttempt(s) \/ LoseAttempt(s) \/ AbandonedAttemptStops(s)
      PROVE  UNCHANGED <<positionVars, trigger>>
  BY <1>2 DEF StartAttempt, LoseAttempt, AbandonedAttemptStops
<1>3. ASSUME NEW s \in Slots, Perform(s)
      PROVE  UNCHANGED <<positionVars, trigger>>
  BY <1>3, PerformFrame DEF performVars
<1>4. ASSUME NEW a \in Approvers, BeginDecide(a) \/ DecideApproval(a) \/ DecideDies(a)
      PROVE  UNCHANGED <<positionVars, trigger>>
  BY <1>4 DEF BeginDecide, DecideApproval, UpdateApprovalStatus, DecideReadsAudit,
     DecideResumesAudit, SignalWorkflow, DecideDies, deskOthers
<1>5. ASSUME NEW u \in Operators, BeginClick(u) \/ PauseAudit(u) \/ ResumeAudit(u)
      PROVE  UNCHANGED <<positionVars, trigger>>
  BY <1>5 DEF BeginClick, PauseAudit, ResumeAudit, clickOthers
<1>6. CASE Rest \/ UNCHANGED vars
  BY <1>6 DEF Rest, vars
<1> QED
  BY <1>1, <1>2, <1>3, <1>4, <1>5, <1>6

LEMMA NextGateShape ==
  ASSUME TypeOK, GateShape, [Next]_vars
  PROVE  GateShape'
<1>1. auditType \in AuditTypes
  BY DEF TypeOK, RowTypes
<1>2. ASSUME UNCHANGED positionVars,
             trigger' \in {"idle", "starting"} => trigger \in {"idle", "starting"}
      PROVE  GateShape'
  BY <1>2 DEF positionVars, GateShape, AtGate
<1>3. CASE StartAuditWorkflow
  <2>1. /\ phase = "none" /\ step = 1 /\ phase' = "step" /\ trigger' = "started"
        /\ UNCHANGED <<auditType, step, gate>>
    BY <1>3 DEF StartAuditWorkflow, GateShape
  <2> QED
    BY <1>1, <2>1, GatePlace DEF GateShape, AtGate
<1>4. CASE ReceiveSignal
  <2>1. /\ phase = "wait" /\ phase' \in {"resume", "cancel"}
        /\ UNCHANGED <<auditType, step, gate, trigger>>
    BY <1>4 DEF ReceiveSignal, Goto
  <2> QED
    BY <2>1 DEF GateShape, AtGate
<1>5. CASE \/ TriggerAudit \/ GoroutineFails
           \/ \E s \in Slots : StartAttempt(s) \/ LoseAttempt(s)
                               \/ AbandonedAttemptStops(s) \/ Perform(s)
           \/ \E a \in Approvers : BeginDecide(a) \/ DecideApproval(a) \/ DecideDies(a)
           \/ \E u \in Operators : BeginClick(u) \/ PauseAudit(u) \/ ResumeAudit(u)
           \/ Rest \/ UNCHANGED vars
  BY <1>2, <1>5, PositionFrame
<1>6. CASE GiveUp \/ \E s \in Slots : WorkflowContinues(s)
  BY <1>6, GiveUpShape, ContinueShape
<1> QED
  BY <1>3, <1>4, <1>5, <1>6 DEF Next

(***************************************************************************)
(* Every reachable state is well formed, whatever attempts are lost,       *)
(* repeated or left running and however the handlers interleave: statuses, *)
(* step names, percentages and scores stay those the schema and the        *)
(* clients expect (auditjob.go, sqlrepo.go).                               *)
(***************************************************************************)
THEOREM TypeCorrect == Spec => []TypeOK
<1>1. Init => TypeOK /\ GateShape
  BY InitTypeOK, InitGateShape
<1>2. TypeOK /\ GateShape /\ [Next]_vars => (TypeOK /\ GateShape)'
  BY NextTypeOK, NextGateShape
<1> QED
  BY <1>1, <1>2, PTL DEF Spec

-----------------------------------------------------------------------------
(***************************************************************************)
(* Decisions stay on record, and only UpdateApprovalStatus records one.    *)
(***************************************************************************)
decisionVars == <<signals, recorded, desk>>

LEMMA DecisionFrame ==
  ASSUME TypeOK, GateShape,
         \/ TriggerAudit \/ StartAuditWorkflow \/ GoroutineFails
         \/ \E s \in Slots : StartAttempt(s) \/ LoseAttempt(s)
              \/ AbandonedAttemptStops(s) \/ Perform(s) \/ WorkflowContinues(s)
         \/ GiveUp
         \/ \E u \in Operators : BeginClick(u) \/ PauseAudit(u) \/ ResumeAudit(u)
         \/ Rest \/ UNCHANGED vars
  PROVE  UNCHANGED decisionVars
<1> USE DEF decisionVars
<1>1. CASE TriggerAudit \/ StartAuditWorkflow \/ GoroutineFails
  BY <1>1 DEF TriggerAudit, StartAuditWorkflow, GoroutineFails
<1>2. ASSUME NEW s \in Slots, StartAttempt(s) \/ LoseAttempt(s) \/ AbandonedAttemptStops(s)
      PROVE  UNCHANGED decisionVars
  BY <1>2 DEF StartAttempt, LoseAttempt, AbandonedAttemptStops
<1>3. ASSUME NEW s \in Slots, Perform(s)
      PROVE  UNCHANGED decisionVars
  BY <1>3, PerformFrame DEF performVars
<1>4. ASSUME NEW s \in Slots, WorkflowContinues(s)
      PROVE  UNCHANGED decisionVars
  BY <1>4, ContinueFrame DEF Result
<1>5. CASE GiveUp
  BY <1>5 DEF GiveUp
<1>6. ASSUME NEW u \in Operators, BeginClick(u) \/ PauseAudit(u) \/ ResumeAudit(u)
      PROVE  UNCHANGED decisionVars
  BY <1>6 DEF BeginClick, PauseAudit, ResumeAudit, clickOthers
<1>7. CASE Rest \/ UNCHANGED vars
  BY <1>7 DEF Rest, vars
<1> QED
  BY <1>1, <1>2, <1>3, <1>4, <1>5, <1>6, <1>7

LEMMA RecordGrows ==
  ASSUME TypeOK, GateShape, [Next]_vars
  PROVE  /\ recorded \subseteq recorded'
         /\ Approved => Approved'
         /\ Rejected => Rejected'
<1>1. recorded \subseteq recorded'
  <2>1. ASSUME NEW a \in Approvers, BeginDecide(a) \/ DecideApproval(a) \/ DecideDies(a)
        PROVE  recorded \subseteq recorded'
    BY <2>1 DEF BeginDecide, DecideApproval, UpdateApprovalStatus, DecideReadsAudit,
       DecideResumesAudit, SignalWorkflow, DecideDies
  <2>2. CASE ReceiveSignal
    BY <2>2 DEF ReceiveSignal
  <2> QED
    BY <2>1, <2>2, DecisionFrame DEF Next, decisionVars
<1> QED
  BY <1>1 DEF Approved, Rejected

LEMMA InitDecided == ASSUME Init PROVE SignalsDecided /\ DesksDecided
<1>1. signals = << >> /\ desk = [a \in Approvers |-> IdleDesk]
  BY DEF Init
<1> QED
  BY <1>1 DEF SignalsDecided, DesksDecided, IdleDesk

(***************************************************************************)
(* A handler that is past its update holds a recorded decision, and goes   *)
(* by way of ResumeAudit only if that decision is an approval.             *)
(***************************************************************************)
LEMMA NextDesksDecided ==
  ASSUME TypeOK, GateShape, DesksDecided, [Next]_vars
  PROVE  DesksDecided'
<1>1. desk \in [Approvers -> Desk] /\ recorded \subseteq recorded'
  BY RecordGrows DEF TypeOK, HandlerTypes
<1>2. CASE UNCHANGED decisionVars
  BY <1>2 DEF decisionVars, DesksDecided
<1>3. CASE ReceiveSignal
  BY <1>3 DEF ReceiveSignal, DesksDecided
<1>4. ASSUME NEW a \in Approvers, BeginDecide(a) \/ DecideApproval(a) \/ DecideDies(a)
      PROVE  DesksDecided'
  <2>1. ASSUME NEW b \in Approvers, b # a
        PROVE  desk'[b] = desk[b]
    BY <1>1, <1>4, <2>1 DEF BeginDecide, DecideApproval, UpdateApprovalStatus,
       DecideReadsAudit, DecideResumesAudit, SignalWorkflow, DecideDies,
       GoDesk, LeaveDesk
  <2>2. /\ desk'[a].pc \in {"readJob", "writeJob", "signal"} =>
             <<desk'[a].r, desk'[a].d>> \in recorded'
        /\ desk'[a].pc \in {"readJob", "writeJob"} => desk'[a].d = "approved"
    <3>1. CASE BeginDecide(a)
      <4>1. desk'[a].pc = "decide"
        BY <1>1, <3>1 DEF BeginDecide
      <4> QED
        BY <4>1
    <3>2. CASE LeaveDesk(a)
      <4>1. desk'[a].pc = "idle"
        BY <1>1, <3>2 DEF LeaveDesk, IdleDesk
      <4> QED
        BY <4>1
    <3>3. ASSUME NEW pc, GoDesk(a, pc)
          PROVE  desk'[a].pc = pc /\ desk'[a].r = desk[a].r /\ desk'[a].d = desk[a].d
      BY <1>1, <3>3 DEF GoDesk, Desk
    <3>4. CASE UpdateApprovalStatus(a)
      <4>1. <<desk[a].r, desk[a].d>> \in recorded'
        BY <3>4 DEF UpdateApprovalStatus
      <4> QED
        BY <3>3, <3>4, <4>1 DEF UpdateApprovalStatus
    <3>5. CASE DecideReadsAudit(a) \/ DecideResumesAudit(a)
      <4>1. \/ LeaveDesk(a)
            \/ /\ desk[a].pc \in {"readJob", "writeJob"}
               /\ \E pc \in {"writeJob", "signal"} : GoDesk(a, pc)
        BY <3>5 DEF DecideReadsAudit, DecideResumesAudit
      <4>2. desk[a].pc \in {"readJob", "writeJob"} =>
              <<desk[a].r, desk[a].d>> \in recorded' /\ desk[a].d = "approved"
        BY <1>1 DEF DesksDecided
      <4> QED
        BY <3>2, <3>3, <4>1, <4>2
    <3>6. CASE SignalWorkflow(a) \/ DecideDies(a)
      BY <3>2, <3>6 DEF SignalWorkflow, DecideDies
    <3> QED
      BY <1>4, <3>1, <3>4, <3>5, <3>6 DEF DecideApproval
  <2> QED
    BY <1>1, <2>1, <2>2 DEF DesksDecided
<1> QED
  BY <1>2, <1>3, <1>4, DecisionFrame DEF Next

(***************************************************************************)
(* Every signal in the channel stands for a recorded decision.             *)
(***************************************************************************)
LEMMA NextSignalsDecided ==
  ASSUME TypeOK, GateShape, DesksDecided, SignalsDecided, [Next]_vars
  PROVE  SignalsDecided'
<1>1. /\ signals \in Seq(BOOLEAN)
      /\ Approved => Approved'
      /\ Rejected => Rejected'
  BY RecordGrows DEF TypeOK, WorkflowTypes
<1>2. CASE UNCHANGED signals
  BY <1>1, <1>2 DEF SignalsDecided
<1>3. CASE ReceiveSignal
  <2>1. signals # << >> /\ signals' = Tail(signals)
    BY <1>3 DEF ReceiveSignal
  <2>2. ASSUME NEW i \in 1..Len(signals')
        PROVE  i + 1 \in 1..Len(signals) /\ signals'[i] = signals[i + 1]
    BY <1>1, <2>1
  <2> QED
    BY <1>1, <2>2 DEF SignalsDecided
<1>4. ASSUME NEW a \in Approvers, SignalWorkflow(a)
      PROVE  SignalsDecided'
  <2>1. CASE signals' = signals
    BY <1>2, <2>1
  <2>2. CASE signals' = Append(signals, desk[a].d = "approved")
    <3>1. /\ desk[a].r \in Requests /\ desk[a].d \in Decisions
          /\ <<desk[a].r, desk[a].d>> \in recorded
      BY <1>4 DEF SignalWorkflow, TypeOK, HandlerTypes, DesksDecided
    <3>2. IF desk[a].d = "approved" THEN Approved ELSE Rejected
      BY <3>1 DEF Approved, Rejected, Decisions
    <3> DEFINE b == desk[a].d = "approved"
    <3>3. b \in BOOLEAN /\ (IF b THEN Approved' ELSE Rejected') /\ signals' = Append(signals, b)
      BY <1>1, <2>2, <3>2
    <3> HIDE DEF b
    <3>4. ASSUME NEW i \in 1..Len(signals')
          PROVE  (i \in 1..Len(signals) /\ signals'[i] = signals[i]) \/ signals'[i] = b
      BY <1>1, <3>3
    <3> QED
      BY <1>1, <3>3, <3>4 DEF SignalsDecided
  <2> QED
    BY <1>4, <2>1, <2>2 DEF SignalWorkflow
<1>5. ASSUME NEW a \in Approvers,
             \/ BeginDecide(a) \/ UpdateApprovalStatus(a) \/ DecideReadsAudit(a)
             \/ DecideResumesAudit(a) \/ DecideDies(a)
      PROVE  UNCHANGED signals
  BY <1>5 DEF BeginDecide, UpdateApprovalStatus, DecideReadsAudit,
     DecideResumesAudit, DecideDies
<1> QED
  BY <1>2, <1>3, <1>4, <1>5, DecisionFrame DEF Next, DecideApproval, decisionVars

-----------------------------------------------------------------------------
(***************************************************************************)
(* Once approval is required it stays required: the gate is checked once.  *)
(***************************************************************************)
LEMMA RequiredStays ==
  ASSUME TypeOK, GateShape, [Next]_vars, gate = "required"
  PROVE  gate' = "required"
<1>1. ASSUME NEW s \in Slots, WorkflowContinues(s)
      PROVE  gate' = gate
  <2>1. ~ GateReturns(s)
    <3>1. phase = "step" /\ Scheduled = "check_approval_gate" => step = GateStep(auditType)
      BY PlanFacts DEF Scheduled, TypeOK, RowTypes, WorkflowTypes
    <3> QED
      BY <3>1 DEF GateReturns, GateShape
  <2> QED
    BY <1>1, <2>1 DEF WorkflowContinues, StepReturns, RecordReturns, AskReturns,
       PauseReturns, CancelReturns, ResumeReturns, CompleteReturns, FailReturns,
       Goto, NextStep
<1>2. CASE StartAuditWorkflow \/ ReceiveSignal \/ GiveUp
  BY <1>2 DEF StartAuditWorkflow, ReceiveSignal, GiveUp, Goto
<1> QED
  BY <1>1, <1>2, PositionFrame DEF Next, positionVars

(***************************************************************************)
(* Only a held audit has requests, and handlers that decide them.          *)
(***************************************************************************)
LEMMA InitOnlyHeld == ASSUME Init PROVE OnlyHeldIsDecided
BY DEF Init, OnlyHeldIsDecided, Idle, IdleDesk

askVars == <<req, desk>>

LEMMA NextOnlyHeld ==
  ASSUME TypeOK, GateShape, OnlyHeldIsDecided, [Next]_vars
  PROVE  OnlyHeldIsDecided'
<1> SUFFICES ASSUME gate # "required"
             PROVE  /\ \A r \in Requests : req'[r] = "none"
                    /\ \A s \in Slots : attempt'[s].act # "create_approval_request"
                    /\ \A a \in Approvers : desk'[a].pc = "idle"
  BY RequiredStays DEF OnlyHeldIsDecided
<1>1. /\ \A r \in Requests : req[r] = "none"
      /\ \A s \in Slots : attempt[s].act # "create_approval_request"
      /\ \A a \in Approvers : desk[a].pc = "idle"
  BY DEF OnlyHeldIsDecided
<1>2. attempt \in [Slots -> Attempt] /\ phase \notin AtGate
  BY DEF TypeOK, WorkflowTypes, GateShape
<1>3. Idle.act # "create_approval_request"
  BY DEF Idle
<1>4. CASE \/ TriggerAudit \/ StartAuditWorkflow \/ GoroutineFails
           \/ ReceiveSignal \/ GiveUp \/ Rest \/ UNCHANGED vars
  <2>1. UNCHANGED <<askVars, attempt>>
    BY <1>4 DEF TriggerAudit, StartAuditWorkflow, GoroutineFails,
       ReceiveSignal, GiveUp, Rest, vars, workflowVars, askVars
  <2> QED
    BY <1>1, <2>1 DEF askVars
<1>5. ASSUME NEW s \in Slots,
             \/ StartAttempt(s) \/ LoseAttempt(s) \/ AbandonedAttemptStops(s)
             \/ WorkflowContinues(s)
      PROVE  /\ UNCHANGED askVars
             /\ \A t \in Slots : attempt'[t].act # "create_approval_request"
  <2>1. CASE StartAttempt(s)
    <3>1. Scheduled # "create_approval_request"
      <4>1. Plan(auditType)[step] \in StepNames
        BY PlanFacts DEF TypeOK, RowTypes, WorkflowTypes
      <4> QED
        BY <1>2, <4>1 DEF Scheduled, AtGate, StepNames
    <3>2. /\ UNCHANGED askVars
          /\ attempt' = [attempt EXCEPT ![s] = [Idle EXCEPT !.act = Scheduled]]
      BY <2>1 DEF StartAttempt, askVars
    <3>3. [Idle EXCEPT !.act = Scheduled].act = Scheduled
      BY DEF Idle
    <3> QED
      BY <1>1, <1>2, <3>1, <3>2, <3>3
  <2>2. CASE LoseAttempt(s) \/ AbandonedAttemptStops(s) \/ WorkflowContinues(s)
    <3>1. /\ UNCHANGED askVars
          /\ attempt' = attempt \/ attempt' = [attempt EXCEPT ![s] = Idle]
      BY <2>2, ContinueFrame DEF LoseAttempt, AbandonedAttemptStops, Result, askVars
    <3> QED
      BY <1>1, <1>2, <1>3, <3>1
  <2> QED
    BY <1>5, <2>1, <2>2
<1>6. ASSUME NEW s \in Slots, Perform(s)
      PROVE  /\ UNCHANGED askVars
             /\ \A t \in Slots : attempt'[t].act # "create_approval_request"
  <2>1. ~ CreateApprovalRequest(s)
    BY <1>1 DEF CreateApprovalRequest, Runs
  <2>2. UNCHANGED req
    BY <1>6, <2>1 DEF Perform, InitializeAudit, CreateFinding, ReturnFromActivity,
       CountFindingsBySeverity, CalculateRiskScore, CompleteScore, CompleteStatus,
       CheckApprovalGate, CancelAudit, UpdateAuditStep, MarkAuditFailed
  <2>3. \A t \in Slots : attempt'[t].act = attempt[t].act
    BY <1>6, PerformFrame
  <2> QED
    BY <1>1, <1>6, <2>2, <2>3, PerformFrame DEF askVars, performVars
<1>7. ASSUME NEW a \in Approvers, BeginDecide(a) \/ DecideApproval(a) \/ DecideDies(a)
      PROVE  FALSE
  BY <1>1, <1>7 DEF BeginDecide, DecideApproval, UpdateApprovalStatus, DecideReadsAudit,
     DecideResumesAudit, SignalWorkflow, DecideDies
<1>8. ASSUME NEW u \in Operators, BeginClick(u) \/ PauseAudit(u) \/ ResumeAudit(u)
      PROVE  UNCHANGED <<askVars, attempt>>
  BY <1>8 DEF BeginClick, PauseAudit, ResumeAudit, clickOthers, workflowVars, askVars
<1> QED
  BY <1>1, <1>4, <1>5, <1>6, <1>7, <1>8 DEF Next, askVars

(***************************************************************************)
(* The whole argument, one step at a time: the signal that lets a workflow *)
(* past its gate was sent by a handler that had recorded an approval.      *)
(***************************************************************************)
LEMMA InitGateInv == ASSUME Init PROVE GateInv
<1>1. phase = "none"
  BY DEF Init
<1> QED
  BY <1>1, InitGateShape, InitDecided, InitOnlyHeld DEF GateInv, GateHonoured, PastGate

LEMMA NextGateInv ==
  ASSUME TypeOK, GateInv, [Next]_vars
  PROVE  GateInv'
<1>1. GateShape' /\ SignalsDecided' /\ DesksDecided' /\ OnlyHeldIsDecided'
  BY NextGateShape, NextSignalsDecided, NextDesksDecided, NextOnlyHeld DEF GateInv
<1>2. (Approved => Approved') /\ (Rejected => Rejected')
  BY RecordGrows DEF GateInv
<1>3. /\ phase' = "cancel" => Rejected'
      /\ PastGate' => gate' = "clear" \/ Approved'
  <2>1. CASE UNCHANGED positionVars
    BY <1>2, <2>1 DEF positionVars, PastGate, GateInv, GateHonoured
  <2>2. CASE StartAuditWorkflow
    <3>1. phase' = "step" /\ step' = 1 /\ auditType' = auditType
      BY <2>2 DEF StartAuditWorkflow, GateInv, GateShape
    <3>2. GateStep(auditType) \in Nat /\ 1 < GateStep(auditType)
      BY GatePlace DEF TypeOK, RowTypes
    <3> QED
      BY <3>1, <3>2 DEF PastGate
  <2>3. CASE ReceiveSignal
    <3>1. phase = "wait" /\ UNCHANGED <<step, gate, auditType>>
      BY <2>3 DEF ReceiveSignal, Goto
    <3>2. signals # << >> /\ signals \in Seq(BOOLEAN)
      BY <2>3 DEF ReceiveSignal, TypeOK, WorkflowTypes
    <3>3. 1 \in 1..Len(signals) /\ Head(signals) = signals[1]
      BY <3>2
    <3>4. step = GateStep(auditType) /\ GateStep(auditType) \in Nat
      BY <3>1, GatePlace DEF GateInv, GateShape, AtGate, TypeOK, RowTypes
    <3>5. IF signals[1] THEN Approved ELSE Rejected
      BY <3>3, Zenon DEF GateInv, SignalsDecided
    <3>6. phase' = IF signals[1] THEN "resume" ELSE "cancel"
      BY <2>3, <3>3, Zenon DEF ReceiveSignal, Goto
    <3>7. \/ phase' = "resume" /\ Approved
          \/ phase' = "cancel" /\ Rejected
      BY <3>5, <3>6, Zenon
    <3>8. phase' = "cancel" => ~ PastGate'
      BY <3>1, <3>4 DEF PastGate
    <3> QED
      BY <1>2, <3>7, <3>8
  <2>4. CASE GiveUp
    <3>1. /\ UNCHANGED <<auditType, step, gate>>
          /\ phase \in {"step", "ask", "cancel", "complete"}
          /\ phase' \in {"fail", "record", "pause", "errored"}
          /\ phase' = "record" => step = LastStep(auditType)
      BY <2>4 DEF GiveUp, Goto
    <3>2. /\ GateStep(auditType) < LastStep(auditType)
          /\ GateStep(auditType) \in Nat /\ LastStep(auditType) \in Nat
      BY GatePlace DEF TypeOK, RowTypes
    <3>3. PastGate' => PastGate
      BY <3>1, <3>2 DEF PastGate
    <3> QED
      BY <1>2, <3>1, <3>3 DEF GateInv, GateHonoured
  <2>5. ASSUME NEW s \in Slots, WorkflowContinues(s)
        PROVE  <1>3
    <3>1. /\ auditType' = auditType /\ step \in Nat
          /\ GateStep(auditType) \in Nat /\ GateStep(auditType) < LastStep(auditType)
      BY <2>5, ContinueFrame, GatePlace DEF Result, GateInv, TypeOK, RowTypes, WorkflowTypes
    <3> USE <1>2, <3>1 DEF PastGate, GateInv, GateHonoured, GateShape, AtGate, Goto, NextStep
    <3>2. CASE GateReturns(s)
      <4>1. step = GateStep(auditType)
        BY <3>2, PlanFacts DEF GateReturns, Scheduled, TypeOK, RowTypes, WorkflowTypes
      <4> QED
        BY <3>2, <4>1 DEF GateReturns
    <3>3. CASE StepReturns(s)
      <4>1. step # GateStep(auditType)
        BY <3>3, PlanFacts DEF StepReturns, Scheduled, TypeOK, RowTypes, WorkflowTypes
      <4> QED
        BY <3>3, <4>1 DEF StepReturns
    <3>4. CASE RecordReturns(s)
      BY <3>4 DEF RecordReturns
    <3>5. CASE ResumeReturns(s)
      BY <3>5 DEF ResumeReturns
    <3>6. CASE AskReturns(s) \/ PauseReturns(s) \/ CancelReturns(s)
      BY <3>6 DEF AskReturns, PauseReturns, CancelReturns
    <3>7. CASE CompleteReturns(s) \/ FailReturns(s)
      BY <3>7 DEF CompleteReturns, FailReturns
    <3> QED
      BY <2>5, <3>2, <3>3, <3>4, <3>5, <3>6, <3>7 DEF WorkflowContinues
  <2> QED
    BY <2>1, <2>2, <2>3, <2>4, <2>5, PositionFrame DEF Next
<1> QED
  BY <1>1, <1>3 DEF GateInv, GateHonoured

(***************************************************************************)
(* The gate holds: whatever attempts are lost, repeated or left running,   *)
(* and however decisions, pauses, resumes and crashes interleave, a        *)
(* workflow is past check_approval_gate only when the score it read did    *)
(* not call for approval or an approval was recorded (workflow.go).        *)
(***************************************************************************)
THEOREM GateIsHonoured == Spec => []GateHonoured
<1>1. Init => TypeOK /\ GateInv
  BY InitTypeOK, InitGateInv
<1>2. TypeOK /\ GateInv /\ [Next]_vars => (TypeOK /\ GateInv)'
  BY NextTypeOK, NextGateInv DEF GateInv
<1>3. TypeOK /\ GateInv => GateHonoured
  BY DEF GateInv
<1> QED
  BY <1>1, <1>2, <1>3, PTL DEF Spec

-----------------------------------------------------------------------------
(***************************************************************************)
(* The audit implements ApprovalGate: its initial states are assessing     *)
(* with nothing decided, and each of its steps is a step of the gate or    *)
(* leaves the gate's two variables alone.                                  *)
(***************************************************************************)
LEMMA InitRefines == ASSUME Init PROVE Gate!Init
BY DEF Init, Gate!Init, GateStage

LEMMA StageFrame ==
  ASSUME UNCHANGED positionVars, UNCHANGED recorded
  PROVE  UNCHANGED Gate!vars
BY DEF positionVars, Gate!vars, GateStage

LEMMA DecideRefines ==
  ASSUME TypeOK, GateInv, NEW a \in Approvers,
         BeginDecide(a) \/ DecideApproval(a) \/ DecideDies(a)
  PROVE  [Gate!Next]_(Gate!vars)
<1>1. UNCHANGED positionVars
  BY PositionFrame
<1>2. GateStage' = GateStage
  BY <1>1 DEF positionVars, GateStage
<1>3. CASE UpdateApprovalStatus(a)
  <2>1. /\ recorded' = recorded \cup {<<desk[a].r, desk[a].d>>}
        /\ desk[a].r \in Requests /\ desk[a].d \in Gate!Decisions
        /\ desk[a].pc # "idle"
    BY <1>3 DEF UpdateApprovalStatus, TypeOK, HandlerTypes, Decisions, Gate!Decisions
  <2>2. gate = "required"
    BY <2>1 DEF GateInv, OnlyHeldIsDecided
  <2>3. GateStage \notin {"assessing", "cleared"}
    BY <2>2 DEF GateStage
  <2>4. Gate!Decide(desk[a].r, desk[a].d)
    BY <1>2, <2>1, <2>3 DEF Gate!Decide
  <2> QED
    BY <2>1, <2>4 DEF Gate!Next
<1>4. CASE \/ BeginDecide(a) \/ DecideReadsAudit(a) \/ DecideResumesAudit(a)
           \/ SignalWorkflow(a) \/ DecideDies(a)
  <2>1. UNCHANGED recorded
    BY <1>4 DEF BeginDecide, DecideReadsAudit, DecideResumesAudit, SignalWorkflow, DecideDies
  <2> QED
    BY <1>1, <2>1, StageFrame
<1> QED
  BY <1>3, <1>4 DEF DecideApproval

LEMMA ReceiveRefines ==
  ASSUME TypeOK, GateInv, GateInv', ReceiveSignal
  PROVE  Gate!Next
<1>1. /\ phase = "wait" /\ phase' \in {"resume", "cancel"}
      /\ UNCHANGED <<step, gate, auditType, recorded>>
  BY DEF ReceiveSignal, Goto
<1>2. step = GateStep(auditType) /\ gate = "required"
  BY <1>1 DEF GateInv, GateShape, AtGate
<1>3. GateStage = "held"
  BY <1>1 DEF GateStage
<1>4. CASE phase' = "resume"
  <2>1. Approved'
    BY <1>1, <1>2, <1>4 DEF GateInv, GateHonoured, PastGate
  <2>2. \E r \in Requests : <<r, "approved">> \in recorded
    BY <1>1, <2>1 DEF Approved
  <2>3. GateStage' = "granted"
    BY <1>1, <1>2, <1>4 DEF GateStage
  <2> QED
    BY <1>1, <1>3, <2>2, <2>3 DEF Gate!Next, Gate!Grant, Gate!Moves
<1>5. CASE phase' = "cancel"
  <2>1. \E r \in Requests : <<r, "rejected">> \in recorded
    BY <1>1, <1>5 DEF GateInv, Rejected
  <2>2. GateStage' = "refused"
    BY <1>1, <1>2, <1>5 DEF GateStage
  <2> QED
    BY <1>1, <1>3, <2>1, <2>2 DEF Gate!Next, Gate!Refuse, Gate!Moves
<1> QED
  BY <1>1, <1>4, <1>5

LEMMA GiveUpRefines ==
  ASSUME TypeOK, GateInv, GiveUp
  PROVE  [Gate!Next]_(Gate!vars)
<1>1. UNCHANGED <<auditType, step, gate, recorded>>
  BY DEF GiveUp, Goto
<1>2. gate \in {"unchecked", "clear", "required"}
  BY DEF TypeOK, WorkflowTypes
<1>3. GateShape
  BY DEF GateInv
<1>4. GateStep(auditType) < LastStep(auditType)
      /\ GateStep(auditType) \in Nat /\ LastStep(auditType) \in Nat
  BY GatePlace DEF TypeOK, RowTypes
<1>5. CASE phase \in {"step", "complete"} /\ phase' = "fail"
  <2>1. ~ (gate = "required" /\ step = GateStep(auditType))
    BY <1>3, <1>4, <1>5 DEF GateShape
  <2>2. GateStage \in {"assessing", "cleared", "granted"} /\ GateStage' = "aborted"
    BY <1>1, <1>2, <1>5, <2>1 DEF GateStage
  <2> QED
    BY <1>1, <2>2 DEF Gate!Next, Gate!Abort
<1>6. CASE \/ phase = "step" /\ phase' = "record"
           \/ phase = "ask" /\ phase' = "pause"
           \/ phase = "cancel" /\ phase' = "errored"
  <2>1. GateStage' = GateStage
    BY <1>1, <1>6 DEF GateStage
  <2> QED
    BY <1>1, <2>1 DEF Gate!vars
<1> QED
  BY <1>5, <1>6 DEF GiveUp, Goto

LEMMA ContinueRefines ==
  ASSUME TypeOK, GateInv, NEW s \in Slots, WorkflowContinues(s)
  PROVE  [Gate!Next]_(Gate!vars)
<1>1. UNCHANGED <<auditType, recorded>>
  BY ContinueFrame DEF Result, GateInv
<1>2. /\ gate \in {"unchecked", "clear", "required"} /\ GateShape
      /\ auditType \in AuditTypes
  BY DEF TypeOK, RowTypes, WorkflowTypes, GateInv
<1>3. CASE GateReturns(s)
  <2>1. step = GateStep(auditType) /\ phase = "step"
    BY <1>3, PlanFacts DEF GateReturns, Scheduled, TypeOK, RowTypes, WorkflowTypes
  <2>2. GateStage = "assessing"
    BY <1>2, <2>1 DEF GateShape, GateStage
  <2>3. \/ gate' = "required" /\ phase' = "ask"
        \/ gate' = "clear" /\ phase' = "record"
    BY <1>3 DEF GateReturns
  <2>4. GateStage' \in {"held", "cleared"}
    BY <2>3 DEF GateStage
  <2> QED
    BY <1>1, <2>2, <2>4 DEF Gate!Next, Gate!Clear, Gate!Hold
<1>4. CASE CompleteReturns(s)
  <2>1. phase = "complete" /\ phase' = "succeeded"
    BY <1>4 DEF CompleteReturns, Goto
  <2>2. step > GateStep(auditType)
    BY <1>2, <2>1, GatePlace DEF GateShape
  <2>3. GateStage \in {"cleared", "granted"} /\ GateStage' = "done"
    BY <1>2, <2>1, <2>2 DEF GateShape, GateStage
  <2> QED
    BY <1>1, <2>3 DEF Gate!Next, Gate!Finish
<1>5. CASE \/ StepReturns(s) \/ RecordReturns(s) \/ AskReturns(s) \/ PauseReturns(s)
           \/ CancelReturns(s) \/ ResumeReturns(s) \/ FailReturns(s)
  <2>1. gate' = gate
    BY <1>5 DEF StepReturns, RecordReturns, AskReturns, PauseReturns,
       CancelReturns, ResumeReturns, FailReturns, Goto, NextStep
  <2>2. \/ phase \in {"step", "record", "resume"} /\ phase' \in {"step", "record", "complete"}
        \/ phase \in {"ask", "pause"} /\ phase' \in {"pause", "wait"}
        \/ phase \in {"cancel", "fail"} /\ phase' = "errored" /\ step' = step
    BY <1>5 DEF StepReturns, RecordReturns, AskReturns, PauseReturns,
       CancelReturns, ResumeReturns, FailReturns, Goto, NextStep
  <2>3. GateStage' = GateStage
    BY <1>1, <2>1, <2>2 DEF GateStage
  <2> QED
    BY <1>1, <2>3 DEF Gate!vars
<1> QED
  BY <1>3, <1>4, <1>5 DEF WorkflowContinues

LEMMA StartRefines ==
  ASSUME TypeOK, GateInv, StartAuditWorkflow
  PROVE  UNCHANGED Gate!vars
<1>1. /\ phase = "none" /\ phase' = "step" /\ gate' = gate /\ recorded' = recorded
  BY DEF StartAuditWorkflow, GateInv, GateShape
<1>2. GateStage' = GateStage
  BY <1>1 DEF GateStage
<1> QED
  BY <1>1, <1>2 DEF Gate!vars

LEMMA NextRefines ==
  ASSUME TypeOK, GateInv, GateInv', [Next]_vars
  PROVE  [Gate!Next]_(Gate!vars)
<1>1. CASE \/ TriggerAudit \/ GoroutineFails
           \/ \E s \in Slots : StartAttempt(s) \/ LoseAttempt(s)
                               \/ AbandonedAttemptStops(s) \/ Perform(s)
           \/ \E u \in Operators : BeginClick(u) \/ PauseAudit(u) \/ ResumeAudit(u)
           \/ Rest \/ UNCHANGED vars
  <2>1. UNCHANGED positionVars
    BY <1>1, PositionFrame
  <2>2. UNCHANGED recorded
    BY <1>1, DecisionFrame DEF decisionVars, GateInv
  <2> QED
    BY <2>1, <2>2, StageFrame
<1>2. CASE \E a \in Approvers : BeginDecide(a) \/ DecideApproval(a) \/ DecideDies(a)
  BY <1>2, DecideRefines
<1>3. CASE StartAuditWorkflow
  BY <1>3, StartRefines
<1>4. CASE ReceiveSignal
  BY <1>4, ReceiveRefines
<1>5. CASE GiveUp \/ \E s \in Slots : WorkflowContinues(s)
  BY <1>5, GiveUpRefines, ContinueRefines
<1> QED
  BY <1>1, <1>2, <1>3, <1>4, <1>5 DEF Next

(***************************************************************************)
(* The audit, with its retries, races and crashes, implements the gate it  *)
(* promises: every behaviour of Spec, seen through GateStage and recorded, *)
(* is a behaviour of ApprovalGate.                                         *)
(***************************************************************************)
THEOREM RefinesApprovalGate == Spec => ImplementsApprovalGate
<1>1. Init => Gate!Init
  BY InitRefines
<1>2. Init => TypeOK /\ GateInv
  BY InitTypeOK, InitGateInv
<1>3. TypeOK /\ GateInv /\ [Next]_vars => (TypeOK /\ GateInv)'
  BY NextTypeOK, NextGateInv DEF GateInv
<1>4. TypeOK /\ GateInv /\ GateInv' /\ [Next]_vars => [Gate!Next]_(Gate!vars)
  BY NextRefines
<1> QED
  BY <1>1, <1>2, <1>3, <1>4, PTL DEF Spec, ImplementsApprovalGate, Gate!Spec

-----------------------------------------------------------------------------
(***************************************************************************)
(* What the attempts that are running can still write, for any number of   *)
(* them: a bookkeeping attempt is always the awaited one, and what an      *)
(* abandoned attempt belongs to lies behind the workflow.                  *)
(***************************************************************************)
Completing ==
  \/ phase \in {"complete", "succeeded"}
  \/ phase \in {"fail", "errored"} /\ step = LastStep(auditType)

AttemptFits(s) ==
  LET act == attempt[s].act
  IN  /\ live = s => act = Scheduled /\ act # "none"
      /\ act = "UpdateAuditStep" => live = s /\ phase \in {"record", "pause", "resume"}
      /\ act = "MarkAuditFailed" => live = s /\ phase = "fail"
      /\ act = "cancel_audit" => phase \in {"cancel", "errored"}
      /\ act = "complete_audit" => Completing
      /\ act = "calculate_risk_score" => step >= GateStep(auditType) - 1

AttemptsFit == \A s \in Slots : AttemptFits(s)

\* A terminal status belongs to a position.
StatusFits ==
  /\ job.status = "completed" => Completing
  /\ job.status = "cancelled" => phase \in {"cancel", "errored"}
  /\ job.status = "failed" => phase \in {"fail", "errored"}

\* The percentage the row may show at a position.
Reached ==
  CASE phase = "none"           -> 0
    [] phase = "errored"        -> 100
    [] phase \in {"step", "ask"} -> PctFail(step, auditType)
    [] phase = "fail" /\ step # LastStep(auditType) -> PctFail(step, auditType)
    [] OTHER                    -> PctDone(step, auditType)

ProgressFits == job.progress <= Reached

RowInv == AttemptsFit /\ StatusFits /\ ProgressFits

(***************************************************************************)
(* As long as no finding came late: the score the gate has seen is the     *)
(* score of the findings, and it is the one that is stored, whatever       *)
(* attempts run side by side.                                              *)
(***************************************************************************)
Scored ==
  \/ step >= GateStep(auditType)
  \/ step = GateStep(auditType) - 1 /\ phase = "record"

AttemptScores(s) ==
  LET a == attempt[s]
  IN  /\ a.at \in {"counted", "scored"} => a.seen = tableScore
      /\ a.act = "calculate_risk_score" /\ a.at = "ended" => job.score = tableScore
      /\ a.act = "check_approval_gate" /\ a.at = "ended" => a.seen = tableScore
      /\ a.at \in {"counted", "scored"} => a.act \in {"calculate_risk_score", "complete_audit"}
      /\ a.act = "check_approval_gate" => step >= GateStep(auditType)

ScoresFit ==
  /\ \A s \in Slots : AttemptScores(s)
  /\ Scored => job.score = tableScore
  /\ gate = "clear" => ~IsApprovalRequired(tableScore)

ScoreInv == "finding" \notin late => ScoresFit

\* What a failure says, and the one thing that can replace it.
FailureInv ==
  job.status = "failed" =>
    /\ job.step = Plan(auditType)[step]
    /\ \/ job.progress = IF step = LastStep(auditType)
                           THEN 100 ELSE PctFail(step, auditType)
       \/ job.progress = 50 /\ "score" \in late

(***************************************************************************)
(* Where the plan has the activities that matter here.                     *)
(***************************************************************************)
LEMMA PlanPlaces ==
  ASSUME NEW t \in AuditTypes, NEW i \in 1..LastStep(t)
  PROVE  /\ Plan(t)[i] = "calculate_risk_score" <=> i = GateStep(t) - 1
         /\ Plan(t)[i] \in Inserting => i < GateStep(t) - 1
         /\ Plan(t)[i] \in StepNames
<1>1. CASE t = "incremental"
  <2>1. i \in {1, 2, 3, 4, 5, 6, 7, 8, 9}
    BY <1>1 DEF LastStep
  <2> QED
    BY <1>1, <2>1 DEF Plan, StepNames, GateStep, Inserting
<1>2. CASE t = "full"
  <2>1. i \in {1, 2, 3, 4, 5, 6, 7, 8}
    BY <1>2 DEF LastStep
  <2> QED
    BY <1>2, <2>1 DEF Plan, StepNames, GateStep, Inserting
<1> QED
  BY <1>1, <1>2 DEF AuditTypes

LEMMA NamesApart ==
  /\ StepNames \cap (Bookkeeping \cup GateActs \cup {"none"}) = {}
  /\ Bookkeeping \cap GateActs = {}
BY DEF StepNames, Bookkeeping, GateActs

(***************************************************************************)
(* What is scheduled tells the position, and the other way round.          *)
(***************************************************************************)
LEMMA ScheduledAt ==
  ASSUME TypeOK
  PROVE  /\ Scheduled = "UpdateAuditStep" => phase \in {"record", "pause", "resume"}
         /\ Scheduled = "MarkAuditFailed" => phase = "fail"
         /\ Scheduled = "cancel_audit" => phase = "cancel"
         /\ Scheduled = "complete_audit" => phase = "complete"
         /\ Scheduled = "calculate_risk_score" => phase = "step" /\ step = GateStep(auditType) - 1
         /\ Scheduled = "check_approval_gate" => phase = "step" /\ step = GateStep(auditType)
         /\ Scheduled \in Inserting => phase = "step" /\ step < GateStep(auditType) - 1
         /\ phase = "fail" => Scheduled = "MarkAuditFailed"
         /\ phase \in {"none", "wait", "succeeded", "errored"} => Scheduled = "none"
<1>1. auditType \in AuditTypes /\ step \in 1..LastStep(auditType) /\ phase \in Phases
  BY DEF TypeOK, RowTypes, WorkflowTypes
<1> DEFINE p == Plan(auditType)[step]
<1>2. /\ p = "calculate_risk_score" <=> step = GateStep(auditType) - 1
      /\ p \in Inserting => step < GateStep(auditType) - 1
      /\ p \in StepNames
      /\ p = "check_approval_gate" <=> step = GateStep(auditType)
  BY <1>1, PlanPlaces, PlanFacts
<1>3. CASE phase = "step"
  <2>1. Scheduled = p
    BY <1>3 DEF Scheduled
  <2> HIDE DEF p
  <2>2. p \notin {"UpdateAuditStep", "MarkAuditFailed", "cancel_audit", "complete_audit"}
    BY <1>2, NamesApart DEF Bookkeeping, GateActs
  <2> QED
    BY <1>2, <1>3, <2>1, <2>2
<1>4. CASE phase # "step"
  <2>1. Scheduled \in Bookkeeping \cup GateActs \cup {"none"}
    BY <1>4 DEF Scheduled, Bookkeeping, GateActs
  <2>2. /\ Scheduled \notin {"calculate_risk_score", "check_approval_gate"}
        /\ Scheduled \notin Inserting
    BY <2>1 DEF Bookkeeping, GateActs, Inserting
  <2> QED
    BY <1>4, <2>2 DEF Scheduled
<1> QED
  BY <1>3, <1>4

(***************************************************************************)
(* One slot changes, or the workflow moves on with nobody awaited.         *)
(***************************************************************************)
slotVars == <<positionVars, live, attempt>>

LEMMA SlotIs ==
  ASSUME TypeOK, NEW s \in Slots, NEW a, attempt' = [attempt EXCEPT ![s] = a]
  PROVE  \A t \in Slots : attempt'[t] = IF t = s THEN a ELSE attempt[t]
BY DEF TypeOK, WorkflowTypes

LEMMA ActFits ==
  ASSUME NEW s \in Slots, AttemptFits(s), live' = live, UNCHANGED positionVars,
         attempt'[s].act = attempt[s].act
  PROVE  AttemptFits(s)'
<1>1. Scheduled' = Scheduled
  BY DEF Scheduled, positionVars
<1> QED
  BY <1>1 DEF AttemptFits, Completing, positionVars

LEMMA FreeFits ==
  ASSUME TypeOK, NEW s \in Slots, live' # s, attempt'[s] = Idle
  PROVE  AttemptFits(s)'
<1>1. attempt'[s].act = "none"
  BY DEF Idle
<1> QED
  BY <1>1 DEF AttemptFits

\* The workflow moves: an attempt that is left running is an abandoned one.
LEMMA LeftFits ==
  ASSUME TypeOK, NEW s \in Slots, AttemptFits(s), live # s, live' # s,
         attempt'[s] = attempt[s], auditType' = auditType, step' >= step,
         step \in Nat, step' \in Nat,
         phase \in {"cancel", "errored"} => phase' \in {"cancel", "errored"},
         Completing => Completing'
  PROVE  AttemptFits(s)'
<1>1. attempt[s].act \notin {"UpdateAuditStep", "MarkAuditFailed"}
  BY DEF AttemptFits
<1>2. attempt[s].act = "calculate_risk_score" => step' >= GateStep(auditType') - 1
  BY GatePlace DEF AttemptFits, TypeOK, RowTypes
<1> QED
  BY <1>1, <1>2 DEF AttemptFits

LEMMA SlotStepFits ==
  ASSUME TypeOK, AttemptsFit, NEW s \in Slots,
         StartAttempt(s) \/ LoseAttempt(s) \/ AbandonedAttemptStops(s)
  PROVE  AttemptsFit'
<1>1. UNCHANGED positionVars /\ NoSlot \notin Slots /\ Scheduled' = Scheduled
  BY SlotsAssumption
  DEF StartAttempt, LoseAttempt, AbandonedAttemptStops, positionVars, Scheduled
<1> SUFFICES ASSUME NEW t \in Slots PROVE AttemptFits(t)'
  BY DEF AttemptsFit
<1>2. AttemptFits(t)
  BY DEF AttemptsFit
<1>3. CASE StartAttempt(s)
  <2> DEFINE a == [Idle EXCEPT !.act = Scheduled]
  <2>1. a.act = Scheduled
    BY DEF Idle
  <2>2. live' = s /\ live = NoSlot /\ Scheduled # "none" /\ attempt' = [attempt EXCEPT ![s] = a]
    BY <1>3 DEF StartAttempt
  <2> HIDE DEF a
  <2>3. \A u \in Slots : attempt'[u] = IF u = s THEN a ELSE attempt[u]
    BY <2>2, SlotIs
  <2>4. CASE t # s
    <3>1. attempt'[t] = attempt[t] /\ live # t /\ live' # t
      BY <1>1, <2>2, <2>3, <2>4
    <3> QED
      BY <1>1, <1>2, <3>1 DEF AttemptFits, Completing, positionVars
  <2>5. CASE t = s
    <3>1. attempt'[t].act = Scheduled /\ live' = t
      BY <2>1, <2>2, <2>3, <2>5
    <3>2. /\ Scheduled = "calculate_risk_score" => step >= GateStep(auditType) - 1
      BY ScheduledAt, GatePlace DEF TypeOK, RowTypes
    <3>3. Scheduled = "complete_audit" => Completing
      BY ScheduledAt DEF Completing
    <3> QED
      BY <1>1, <2>2, <3>1, <3>2, <3>3, ScheduledAt DEF AttemptFits, Completing, positionVars
  <2> QED
    BY <2>4, <2>5
<1>4. CASE LoseAttempt(s)
  <2>1. live = s /\ live' = NoSlot /\ live' # t
    BY <1>1, <1>4 DEF LoseAttempt
  <2>2. CASE attempt' = [attempt EXCEPT ![s] = Idle]
    <3>1. attempt'[t] = IF t = s THEN Idle ELSE attempt[t]
      BY <2>2, SlotIs
    <3>2. CASE t = s
      BY <2>1, <3>1, <3>2, FreeFits
    <3>3. CASE t # s
      <4>1. attempt'[t] = attempt[t] /\ live # t
        BY <2>1, <3>1, <3>3
      <4> QED
        BY <1>1, <1>2, <2>1, <4>1 DEF AttemptFits, Completing, positionVars
    <3> QED
      BY <3>2, <3>3
  <2>3. CASE DefaultOptions(attempt[s].act) /\ UNCHANGED attempt
    <3>1. attempt'[t] = attempt[t]
      BY <2>3
    <3>2. attempt[t].act \notin Bookkeeping
      BY <1>2, <2>1, <2>3 DEF AttemptFits, DefaultOptions, Bookkeeping
    <3> QED
      BY <1>1, <1>2, <2>1, <3>1, <3>2 DEF AttemptFits, Completing, positionVars, Bookkeeping
  <2> QED
    BY <1>4, <2>2, <2>3 DEF LoseAttempt
<1>5. CASE AbandonedAttemptStops(s)
  <2>1. live' = live /\ live # s /\ attempt' = [attempt EXCEPT ![s] = Idle]
    BY <1>5 DEF AbandonedAttemptStops
  <2>2. attempt'[t] = IF t = s THEN Idle ELSE attempt[t]
    BY <2>1, SlotIs
  <2>3. CASE t = s
    BY <2>1, <2>2, <2>3, FreeFits
  <2>4. CASE t # s
    BY <1>1, <1>2, <2>1, <2>2, <2>4, ActFits
  <2> QED
    BY <2>3, <2>4
<1> QED
  BY <1>3, <1>4, <1>5

(***************************************************************************)
(* A step of the workflow function itself: it waits for nobody afterwards, *)
(* goes forward, and has the percentage of where it stood.                 *)
(***************************************************************************)
Moves ==
  /\ UNCHANGED <<auditType, job, tableScore, late>>
  /\ live' = NoSlot
  /\ step' >= step
  /\ phase \in {"cancel", "errored"} => phase' \in {"cancel", "errored"}
  /\ phase \in {"fail", "errored"} => phase' \in {"fail", "errored"} /\ step' = step
  /\ Completing => Completing'
  /\ Reached' >= Reached

LEMMA PercentFacts ==
  ASSUME NEW t \in AuditTypes, NEW i \in 1..LastStep(t)
  PROVE  /\ 0 <= PctFail(i, t) /\ PctFail(i, t) <= PctDone(i, t) /\ PctDone(i, t) <= 100
         /\ PctDone(i, t) \in Int /\ PctFail(i, t) \in Int
         /\ PctFail(i + 1, t) = PctDone(i, t)
         /\ i = LastStep(t) => PctDone(i, t) = 100
         /\ i >= GateStep(t) - 1 => 50 <= PctFail(i, t)
<1>1. CASE t = "incremental"
  <2>1. i \in {1, 2, 3, 4, 5, 6, 7, 8, 9}
    BY <1>1 DEF LastStep
  <2> QED
    BY <1>1, <2>1 DEF LastStep, PctDone, PctFail, GateStep
<1>2. CASE t = "full"
  <2>1. i \in {1, 2, 3, 4, 5, 6, 7, 8}
    BY <1>2 DEF LastStep
  <2> QED
    BY <1>2, <2>1 DEF LastStep, PctDone, PctFail, GateStep
<1> QED
  BY <1>1, <1>2 DEF AuditTypes

\* The facts of a position that its percentage needs.
LEMMA AtPosition ==
  ASSUME TypeOK
  PROVE  /\ step \in Nat /\ step + 1 > step /\ LastStep(auditType) \in Nat
         /\ auditType \in AuditTypes /\ step \in 1..LastStep(auditType)
         /\ 0 <= PctFail(step, auditType) /\ PctFail(step, auditType) <= PctDone(step, auditType)
         /\ PctDone(step, auditType) <= 100
         /\ PctDone(step, auditType) \in Int /\ PctFail(step, auditType) \in Int
         /\ PctFail(step + 1, auditType) = PctDone(step, auditType)
         /\ step = LastStep(auditType) => PctDone(step, auditType) = 100
<1>1. auditType \in AuditTypes /\ step \in 1..LastStep(auditType) /\ LastStep(auditType) \in Nat
  BY GatePlace DEF TypeOK, RowTypes, WorkflowTypes
<1>2. step \in Nat /\ step + 1 > step
  BY <1>1
<1> QED
  BY <1>1, <1>2, PercentFacts

\* From one position of a step to the next.
LEMMA GotoMoves ==
  ASSUME TypeOK, GateShape, NEW q, Goto(q), live' = NoSlot, UNCHANGED <<auditType, job, tableScore, late>>,
         \/ phase = "step" /\ q \in {"record", "ask"}
         \/ phase = "step" /\ step # LastStep(auditType) /\ q = "fail"
         \/ phase = "record" /\ step = LastStep(auditType) /\ q = "complete"
         \/ phase = "ask" /\ q = "pause"
         \/ phase = "pause" /\ q = "wait"
         \/ phase = "wait" /\ q \in {"resume", "cancel"}
         \/ phase = "cancel" /\ q = "errored"
         \/ phase = "complete" /\ q \in {"succeeded", "fail"}
         \/ phase = "fail" /\ q = "errored"
  PROVE  Moves
<1>1. phase' = q /\ step' = step /\ auditType' = auditType
  BY DEF Goto
<1>2. step' >= step
  BY <1>1, AtPosition
<1>3. phase = "complete" => step = LastStep(auditType)
  BY DEF GateShape
<1>4. Completing => Completing'
  BY <1>1, <1>3 DEF Completing
<1> DEFINE d == PctDone(step, auditType)
           f == PctFail(step, auditType)
<1>5. d' = d /\ f' = f
  BY <1>1
<1>6. /\ d \in Int /\ f \in Int /\ 0 <= f /\ f <= d /\ d <= 100
      /\ step = LastStep(auditType) => d = 100
  BY AtPosition
<1>7. Reached = IF phase = "none" THEN 0 ELSE IF phase = "errored" THEN 100
                ELSE IF phase \in {"step", "ask"} THEN f
                ELSE IF phase = "fail" /\ step # LastStep(auditType) THEN f ELSE d
  BY DEF Reached
<1>8. Reached' = IF q = "none" THEN 0 ELSE IF q = "errored" THEN 100
                ELSE IF q \in {"step", "ask"} THEN f
                ELSE IF q = "fail" /\ step # LastStep(auditType) THEN f ELSE d
  BY <1>1 DEF Reached
<1> HIDE DEF d, f
<1>9. Reached' >= Reached
  BY <1>3, <1>6, <1>7, <1>8
<1> QED
  BY <1>1, <1>2, <1>4, <1>9 DEF Moves

\* And on to the next step.
LEMMA NextStepMoves ==
  ASSUME TypeOK, NextStep, live' = NoSlot, UNCHANGED <<auditType, job, tableScore, late>>,
         phase \in {"record", "resume"}
  PROVE  Moves
<1>1. phase' = "step" /\ step' = step + 1 /\ auditType' = auditType
  BY DEF NextStep
<1>2. Reached = PctDone(step, auditType)
  BY DEF Reached
<1>3. Reached' = PctFail(step + 1, auditType)
  BY <1>1 DEF Reached
<1>4. Reached' >= Reached /\ step' >= step
  BY <1>1, <1>2, <1>3, AtPosition
<1> QED
  BY <1>1, <1>4 DEF Moves, Completing

LEMMA ContinueMoves ==
  ASSUME TypeOK, GateShape, NEW s \in Slots, WorkflowContinues(s)
  PROVE  Moves
<1>1. Result(s)
  BY ContinueFrame
<1>2. live' = NoSlot /\ UNCHANGED <<auditType, job, tableScore, late>>
  BY <1>1 DEF Result
<1>3. CASE GateReturns(s)
  <2>1. \E q \in {"record", "ask"} : phase' = q /\ step' = step
    BY <1>3 DEF GateReturns
  <2>2. phase = "step"
    BY <1>3 DEF GateReturns
  <2>3. /\ phase \notin {"cancel", "errored", "fail"} /\ ~Completing
        /\ Reached = PctFail(step, auditType)
    BY <2>2 DEF Completing, Reached
  <2>4. Reached' = PctDone(step, auditType) \/ Reached' = PctFail(step, auditType)
    BY <1>2, <2>1 DEF Reached
  <2>5. Reached' >= Reached /\ step' >= step
    BY <2>1, <2>3, <2>4, AtPosition
  <2> QED
    BY <1>2, <2>3, <2>5 DEF Moves
<1>4. CASE RecordReturns(s)
  BY <1>2, <1>4, GotoMoves, NextStepMoves DEF RecordReturns
<1>5. CASE ResumeReturns(s)
  BY <1>2, <1>5, NextStepMoves DEF ResumeReturns
<1>6. CASE StepReturns(s)
  BY <1>2, <1>6, GotoMoves DEF StepReturns
<1>7. CASE AskReturns(s)
  BY <1>2, <1>7, GotoMoves DEF AskReturns
<1>8. CASE PauseReturns(s)
  BY <1>2, <1>8, GotoMoves DEF PauseReturns
<1>9. CASE CancelReturns(s)
  BY <1>2, <1>9, GotoMoves DEF CancelReturns
<1>10. CASE CompleteReturns(s)
  BY <1>2, <1>10, GotoMoves DEF CompleteReturns
<1>11. CASE FailReturns(s)
  BY <1>2, <1>11, GotoMoves DEF FailReturns
<1> QED
  BY <1>3, <1>4, <1>5, <1>6, <1>7, <1>8, <1>9, <1>10, <1>11 DEF WorkflowContinues

LEMMA GiveUpMoves ==
  ASSUME TypeOK, GateShape, GiveUp
  PROVE  Moves
<1>1. live' = NoSlot /\ UNCHANGED <<auditType, job, tableScore, late>>
  BY DEF GiveUp
<1>2. \/ phase = "step" /\ step # LastStep(auditType) /\ Goto("fail")
      \/ phase = "step" /\ step = LastStep(auditType) /\ Goto("record")
      \/ phase = "ask"      /\ Goto("pause")
      \/ phase = "cancel"   /\ Goto("errored")
      \/ phase = "complete" /\ Goto("fail")
  BY DEF GiveUp
<1> QED
  BY <1>1, <1>2, GotoMoves

\* Nobody is awaited where nothing is scheduled.
LEMMA NobodyAwaited ==
  ASSUME TypeOK, AttemptsFit, phase \in {"none", "wait", "succeeded", "errored"}
  PROVE  live = NoSlot
<1>1. Scheduled = "none"
  BY ScheduledAt
<1>2. \A s \in Slots : live # s
  BY <1>1 DEF AttemptsFit, AttemptFits
<1> QED
  BY <1>2 DEF TypeOK, WorkflowTypes

LEMMA ReceiveMoves ==
  ASSUME TypeOK, GateShape, AttemptsFit, ReceiveSignal
  PROVE  Moves
<1>1. live' = live /\ UNCHANGED <<auditType, job, tableScore, late>> /\ phase = "wait"
  BY DEF ReceiveSignal
<1>2. live' = NoSlot
  BY <1>1, NobodyAwaited
<1>3. Goto("resume") \/ Goto("cancel")
  BY DEF ReceiveSignal
<1> QED
  BY <1>1, <1>2, <1>3, GotoMoves

LEMMA StartMoves ==
  ASSUME TypeOK, GateShape, AttemptsFit, StartAuditWorkflow
  PROVE  Moves
<1>1. /\ live' = live /\ UNCHANGED <<auditType, job, tableScore, late>> /\ phase = "none"
      /\ phase' = "step" /\ step' = step
  BY DEF StartAuditWorkflow, GateShape
<1>2. live' = NoSlot
  BY <1>1, NobodyAwaited
<1>3. Reached = 0 /\ Reached' = PctFail(step, auditType) /\ ~Completing
  BY <1>1 DEF Reached, Completing
<1>4. Reached' >= Reached /\ step' >= step
  BY <1>1, <1>3, AtPosition
<1> QED
  BY <1>1, <1>2, <1>3, <1>4 DEF Moves

(***************************************************************************)
(* Whatever the workflow does, the attempts fit its position afterwards.   *)
(***************************************************************************)
LEMMA MovesFit ==
  ASSUME TypeOK, TypeOK', AttemptsFit, Moves, live = NoSlot \/ live \in Slots,
         \A t \in Slots : attempt'[t] = attempt[t] \/ attempt'[t] = Idle,
         \A t \in Slots : live = t => attempt'[t] = Idle
  PROVE  AttemptsFit'
<1> SUFFICES ASSUME NEW t \in Slots PROVE AttemptFits(t)'
  BY DEF AttemptsFit
<1>1. live' # t /\ AttemptFits(t) /\ auditType' = auditType
  BY SlotsAssumption DEF Moves, AttemptsFit
<1>2. step \in Nat /\ step' \in Nat /\ step' >= step
  <2>1. /\ LastStep(auditType) \in Nat /\ step \in 1..LastStep(auditType)
        /\ step' \in 1..LastStep(auditType)
    BY <1>1, GatePlace DEF TypeOK, RowTypes, WorkflowTypes
  <2> QED
    BY <2>1 DEF Moves
<1>3. CASE attempt'[t] = Idle
  BY <1>1, <1>3, FreeFits
<1>4. CASE attempt'[t] = attempt[t] /\ live # t
  BY <1>1, <1>2, <1>4, LeftFits DEF Moves
<1> QED
  BY <1>3, <1>4

\* The steps at which the workflow moves.
LEMMA MovingSteps ==
  ASSUME TypeOK, GateShape, AttemptsFit,
         \/ \E s \in Slots : WorkflowContinues(s)
         \/ ReceiveSignal \/ GiveUp \/ StartAuditWorkflow
  PROVE  /\ Moves
         /\ \A t \in Slots : attempt'[t] = attempt[t] \/ attempt'[t] = Idle
         /\ \A t \in Slots : live = t => attempt'[t] = Idle
<1>1. ASSUME NEW s \in Slots, WorkflowContinues(s)
      PROVE  /\ Moves
             /\ \A t \in Slots : attempt'[t] = attempt[t] \/ attempt'[t] = Idle
             /\ \A t \in Slots : live = t => attempt'[t] = Idle
  <2>1. Result(s) /\ Moves
    BY <1>1, ContinueFrame, ContinueMoves
  <2>2. live = s /\ attempt' = [attempt EXCEPT ![s] = Idle]
    BY <2>1 DEF Result
  <2>3. \A t \in Slots : attempt'[t] = IF t = s THEN Idle ELSE attempt[t]
    BY <2>2, SlotIs
  <2> QED
    BY <2>1, <2>2, <2>3
<1>2. CASE ReceiveSignal \/ StartAuditWorkflow
  <2>1. Moves /\ attempt' = attempt
    BY <1>2, ReceiveMoves, StartMoves DEF ReceiveSignal, StartAuditWorkflow
  <2>2. phase \in {"none", "wait"}
    BY <1>2 DEF ReceiveSignal, StartAuditWorkflow, GateShape
  <2>3. live = NoSlot
    BY <2>2, NobodyAwaited
  <2> QED
    BY <2>1, <2>3, SlotsAssumption
<1>3. CASE GiveUp
  <2>1. Moves /\ attempt' = attempt /\ live = NoSlot
    BY <1>3, GiveUpMoves DEF GiveUp
  <2> QED
    BY <2>1, SlotsAssumption
<1> QED
  BY <1>1, <1>2, <1>3

(***************************************************************************)
(* The steps that leave the workflow and its attempts alone.               *)
(***************************************************************************)
Beside ==
  \/ TriggerAudit \/ GoroutineFails
  \/ \E a \in Approvers : BeginDecide(a) \/ DecideApproval(a) \/ DecideDies(a)
  \/ \E u \in Operators : BeginClick(u) \/ PauseAudit(u) \/ ResumeAudit(u)
  \/ Rest \/ UNCHANGED vars

LEMMA BesideFrame ==
  ASSUME TypeOK, Beside
  PROVE  /\ UNCHANGED <<slotVars, tableScore, late>>
         /\ job' = job \/ \E st \in Statuses \ Terminal : job' = [job EXCEPT !.status = st]
<1>1. {"running", "paused", "pending"} \subseteq Statuses \ Terminal
  BY DEF Statuses, Terminal
<1> USE DEF slotVars, positionVars, workflowVars
<1>2. CASE TriggerAudit
  BY <1>1, <1>2 DEF TriggerAudit
<1>3. CASE GoroutineFails
  BY <1>3 DEF GoroutineFails
<1>4. ASSUME NEW a \in Approvers, BeginDecide(a) \/ UpdateApprovalStatus(a)
                 \/ DecideReadsAudit(a) \/ SignalWorkflow(a) \/ DecideDies(a)
      PROVE  UNCHANGED <<slotVars, tableScore, late, job>>
  BY <1>4 DEF BeginDecide, UpdateApprovalStatus, DecideReadsAudit, SignalWorkflow,
              DecideDies, deskOthers
<1>5. ASSUME NEW a \in Approvers, DecideResumesAudit(a)
      PROVE  UNCHANGED <<slotVars, tableScore, late>> /\ job' = [job EXCEPT !.status = "running"]
  BY <1>5 DEF DecideResumesAudit, deskOthers
<1>6. ASSUME NEW u \in Operators, BeginClick(u)
      PROVE  UNCHANGED <<slotVars, tableScore, late, job>>
  BY <1>6 DEF BeginClick, clickOthers
<1>7. ASSUME NEW u \in Operators, PauseAudit(u) \/ ResumeAudit(u)
      PROVE  /\ UNCHANGED <<slotVars, tableScore, late>>
             /\ \/ job' = [job EXCEPT !.status = "running"]
                \/ job' = [job EXCEPT !.status = "paused"]
  BY <1>7 DEF PauseAudit, ResumeAudit, clickOthers
<1>8. CASE Rest \/ UNCHANGED vars
  BY <1>8 DEF Rest, vars
<1> QED
  BY <1>1, <1>2, <1>3, <1>4, <1>5, <1>6, <1>7, <1>8 DEF Beside, DecideApproval

\* Every step is one of four kinds.
LEMMA StepKinds ==
  ASSUME [Next]_vars
  PROVE  \/ Beside
         \/ \E s \in Slots : WorkflowContinues(s)
         \/ ReceiveSignal \/ GiveUp \/ StartAuditWorkflow
         \/ \E s \in Slots : StartAttempt(s) \/ LoseAttempt(s) \/ AbandonedAttemptStops(s)
         \/ \E s \in Slots : Perform(s)
BY DEF Next, Beside

LEMMA NextAttemptsFit ==
  ASSUME TypeOK, TypeOK', GateShape, AttemptsFit, [Next]_vars
  PROVE  AttemptsFit'
<1>1. CASE Beside
  <2> SUFFICES ASSUME NEW t \in Slots PROVE AttemptFits(t)'
    BY DEF AttemptsFit
  <2>1. UNCHANGED slotVars
    BY <1>1, BesideFrame
  <2> QED
    BY <2>1, ActFits DEF AttemptsFit, slotVars
<1>2. CASE \/ \E s \in Slots : WorkflowContinues(s)
           \/ ReceiveSignal \/ GiveUp \/ StartAuditWorkflow
  <2>1. /\ Moves
        /\ \A t \in Slots : attempt'[t] = attempt[t] \/ attempt'[t] = Idle
        /\ \A t \in Slots : live = t => attempt'[t] = Idle
    BY <1>2, MovingSteps
  <2>2. live = NoSlot \/ live \in Slots
    BY DEF TypeOK, WorkflowTypes
  <2> QED
    BY <2>1, <2>2, MovesFit
<1>3. CASE \E s \in Slots : StartAttempt(s) \/ LoseAttempt(s) \/ AbandonedAttemptStops(s)
  BY <1>3, SlotStepFits
<1>4. ASSUME NEW s \in Slots, Perform(s) PROVE AttemptsFit'
  <2>1. UNCHANGED performVars /\ \A t \in Slots : attempt'[t].act = attempt[t].act
    BY <1>4, PerformFrame
  <2> SUFFICES ASSUME NEW t \in Slots PROVE AttemptFits(t)'
    BY DEF AttemptsFit
  <2> QED
    BY <2>1, ActFits DEF AttemptsFit, performVars, positionVars
<1> QED
  BY <1>1, <1>2, <1>3, <1>4, StepKinds

(***************************************************************************)
(* What a step of a running activity writes into the row.                  *)
(***************************************************************************)
LEMMA PerformWrites ==
  ASSUME TypeOK, NEW s \in Slots, Perform(s)
  PROVE  \/ job' = job
         \/ /\ attempt[s].act = "initialize"
            /\ job'.status = "running" /\ job'.progress = job.progress
         \/ /\ attempt[s].act = "calculate_risk_score" /\ CalculateRiskScore(s)
            /\ job'.status = job.status /\ job'.progress = 50
         \/ /\ attempt[s].act = "complete_audit"
            /\ job'.status = job.status /\ job'.progress = 100
         \/ /\ attempt[s].act = "complete_audit"
            /\ job'.status = "completed" /\ job'.progress = job.progress
         \/ /\ attempt[s].act = "cancel_audit"
            /\ job'.status = "cancelled" /\ job'.progress = job.progress
         \/ /\ attempt[s].act = "UpdateAuditStep"
            /\ job'.status \in {"paused", "running"}
            /\ job'.progress = PctDone(step, auditType)
         \/ /\ attempt[s].act = "MarkAuditFailed"
            /\ job'.status = "failed"
            /\ job'.progress = IF step = LastStep(auditType)
                                 THEN 100 ELSE PctFail(step, auditType)
<1>1. job = [status |-> job.status, step |-> job.step, progress |-> job.progress,
             score |-> job.score]
  BY DEF TypeOK, RowTypes, Job
<1>2. CASE \/ CreateFinding(s) \/ ReturnFromActivity(s) \/ CountFindingsBySeverity(s)
           \/ CheckApprovalGate(s) \/ CreateApprovalRequest(s)
  BY <1>2 DEF CreateFinding, ReturnFromActivity, CountFindingsBySeverity,
              CheckApprovalGate, CreateApprovalRequest
<1>3. CASE InitializeAudit(s)
  BY <1>1, <1>3 DEF InitializeAudit, Runs
<1>4. CASE CalculateRiskScore(s)
  <2>1. job' = [job EXCEPT !.progress = 50, !.score = attempt[s].seen]
        /\ attempt[s].act = "calculate_risk_score"
    BY <1>4 DEF CalculateRiskScore, Runs
  <2> QED
    BY <1>1, <1>4, <2>1
<1>5. CASE CompleteScore(s)
  <2>1. job' = [job EXCEPT !.progress = 100, !.score = attempt[s].seen]
        /\ attempt[s].act = "complete_audit"
    BY <1>5 DEF CompleteScore, Runs
  <2> QED
    BY <1>1, <2>1
<1>6. CASE CompleteStatus(s) \/ CancelAudit(s)
  BY <1>1, <1>6 DEF CompleteStatus, CancelAudit, Runs
<1>7. CASE UpdateAuditStep(s)
  <2> DEFINE st == IF phase = "pause" THEN "paused" ELSE "running"
             p  == PctDone(step, auditType)
             n  == Plan(auditType)[step]
  <2>1. job' = [job EXCEPT !.status = st, !.step = n, !.progress = p]
        /\ attempt[s].act = "UpdateAuditStep"
    BY <1>7 DEF UpdateAuditStep, Runs
  <2>2. st \in {"paused", "running"}
    OBVIOUS
  <2> HIDE DEF st, p, n
  <2>3. job'.status = st /\ job'.progress = p
    BY <1>1, <2>1
  <2> QED
    BY <2>1, <2>2, <2>3 DEF p
<1>8. CASE MarkAuditFailed(s)
  <2> DEFINE p == IF step = LastStep(auditType) THEN 100 ELSE PctFail(step, auditType)
             n == Plan(auditType)[step]
  <2>1. job' = [job EXCEPT !.status = "failed", !.step = n, !.progress = p]
        /\ attempt[s].act = "MarkAuditFailed"
    BY <1>8 DEF MarkAuditFailed, Runs
  <2> HIDE DEF p, n
  <2>2. job'.status = "failed" /\ job'.progress = p
    BY <1>1, <2>1
  <2> QED
    BY <2>1, <2>2 DEF p
<1> QED
  BY <1>2, <1>3, <1>4, <1>5, <1>6, <1>7, <1>8 DEF Perform

\* An open audit that is triggered has no workflow yet.
LEMMA TriggerOpens ==
  ASSUME GateShape, StatusFits, TriggerAudit
  PROVE  job.status \notin Terminal
BY DEF TriggerAudit, GateShape, StatusFits, Completing, Terminal

LEMMA BesideKeepsJob ==
  ASSUME TypeOK, Beside
  PROVE  /\ job'.progress = job.progress
         /\ job'.status = job.status \/ job'.status \notin Terminal
<1>1. job' = job \/ \E st \in Statuses \ Terminal : job' = [job EXCEPT !.status = st]
  BY BesideFrame
<1> QED
  BY <1>1 DEF TypeOK, RowTypes, Job

LEMMA StatusFrame ==
  ASSUME StatusFits, UNCHANGED positionVars, job'.status = job.status \/ job'.status \notin Terminal
  PROVE  StatusFits'
BY DEF StatusFits, Completing, Terminal, positionVars

LEMMA NextStatusFits ==
  ASSUME TypeOK, TypeOK', GateShape, AttemptsFit, StatusFits, [Next]_vars
  PROVE  StatusFits'
<1>1. CASE Beside
  <2>1. UNCHANGED positionVars
    BY <1>1, BesideFrame DEF slotVars
  <2> QED
    BY <1>1, <2>1, BesideKeepsJob, StatusFrame
<1>2. CASE \/ \E s \in Slots : WorkflowContinues(s)
           \/ ReceiveSignal \/ GiveUp \/ StartAuditWorkflow
  <2>1. Moves
    BY <1>2, MovingSteps
  <2> QED
    BY <2>1 DEF Moves, StatusFits
<1>3. CASE \E s \in Slots : StartAttempt(s) \/ LoseAttempt(s) \/ AbandonedAttemptStops(s)
  <2>1. UNCHANGED <<positionVars, job>>
    BY <1>3 DEF StartAttempt, LoseAttempt, AbandonedAttemptStops, positionVars
  <2> QED
    BY <2>1, StatusFrame
<1>4. ASSUME NEW s \in Slots, Perform(s) PROVE StatusFits'
  <2>1. UNCHANGED positionVars
    BY <1>4, PerformFrame DEF performVars, positionVars
  <2>2. AttemptFits(s)
    BY DEF AttemptsFit
  <2>3. attempt[s].act = "complete_audit" => Completing
    BY <2>2 DEF AttemptFits
  <2>4. attempt[s].act = "cancel_audit" => phase \in {"cancel", "errored"}
    BY <2>2 DEF AttemptFits
  <2>5. attempt[s].act = "MarkAuditFailed" => phase = "fail"
    BY <2>2 DEF AttemptFits
  <2>6. \/ job'.status = job.status
        \/ job'.status \notin Terminal
        \/ job'.status = "completed" /\ Completing
        \/ job'.status = "cancelled" /\ phase \in {"cancel", "errored"}
        \/ job'.status = "failed" /\ phase = "fail"
    BY <1>4, <2>3, <2>4, <2>5, PerformWrites DEF Terminal
  <2> QED
    BY <2>1, <2>6, StatusFrame DEF StatusFits, Completing, positionVars
<1> QED
  BY <1>1, <1>2, <1>3, <1>4, StepKinds

(***************************************************************************)
(* The percentage a running attempt stores against the one of its place.   *)
(***************************************************************************)
LEMMA PerformProgress ==
  ASSUME TypeOK, GateShape, AttemptsFit, ProgressFits, NEW s \in Slots, Perform(s)
  PROVE  /\ job'.progress <= Reached
         /\ job'.progress >= job.progress \/ CalculateRiskScore(s)
<1>0. job.progress \in 0..100
  BY DEF TypeOK, RowTypes, Job
<1>1. AttemptFits(s) /\ job.progress \in Int /\ job.progress <= Reached
  BY <1>0 DEF AttemptsFit, ProgressFits
<1> DEFINE d == PctDone(step, auditType)
           f == PctFail(step, auditType)
<1>2. /\ d \in Int /\ f \in Int /\ 0 <= f /\ f <= d /\ d <= 100
      /\ step = LastStep(auditType) => d = 100
  BY AtPosition
<1>3. Reached = IF phase = "none" THEN 0 ELSE IF phase = "errored" THEN 100
                ELSE IF phase \in {"step", "ask"} THEN f
                ELSE IF phase = "fail" /\ step # LastStep(auditType) THEN f ELSE d
  BY DEF Reached
<1>4. phase \in {"complete", "succeeded"} => step = LastStep(auditType)
  BY DEF GateShape
<1>5. /\ phase = "none" => step = 1
      /\ step >= GateStep(auditType) - 1 => 50 <= f
      /\ GateStep(auditType) > 2 /\ GateStep(auditType) \in Nat
  <2>1. auditType \in AuditTypes /\ step \in 1..LastStep(auditType)
    BY AtPosition
  <2>2. GateStep(auditType) > 2 /\ GateStep(auditType) \in Nat
    BY DEF GateStep
  <2> QED
    BY <2>1, <2>2, PercentFacts DEF GateShape
<1>6. Reached \in Int /\ job.progress <= Reached
  BY <1>1, <1>2, <1>3
<1> HIDE DEF d, f
<1>7. CASE job'.progress = job.progress
  BY <1>1, <1>6, <1>7
<1>8. CASE attempt[s].act = "calculate_risk_score" /\ CalculateRiskScore(s) /\ job'.progress = 50
  <2>1. step >= GateStep(auditType) - 1
    BY <1>1, <1>8 DEF AttemptFits
  <2>2. 50 <= f /\ phase # "none"
    BY <1>5, <2>1
  <2> QED
    BY <1>2, <1>3, <1>8, <2>2
<1>9. CASE attempt[s].act = "complete_audit" /\ job'.progress = 100
  <2>1. Completing
    BY <1>1, <1>9 DEF AttemptFits
  <2>2. Reached = 100
    BY <1>2, <1>3, <1>4, <2>1 DEF Completing
  <2> QED
    BY <1>1, <1>9, <2>2
<1>10. CASE attempt[s].act = "UpdateAuditStep" /\ job'.progress = d
  <2>1. phase \in {"record", "pause", "resume"}
    BY <1>1, <1>10 DEF AttemptFits
  <2>2. Reached = d
    BY <1>3, <2>1
  <2> QED
    BY <1>1, <1>2, <1>10, <2>2
<1>11. CASE /\ attempt[s].act = "MarkAuditFailed"
            /\ job'.progress = IF step = LastStep(auditType) THEN 100 ELSE f
  <2>1. phase = "fail"
    BY <1>1, <1>11 DEF AttemptFits
  <2>2. Reached = IF step = LastStep(auditType) THEN 100 ELSE f
    BY <1>2, <1>3, <2>1
  <2> QED
    BY <1>1, <1>2, <1>11, <2>2
<1> QED
  BY <1>7, <1>8, <1>9, <1>10, <1>11, PerformWrites DEF d, f

LEMMA ReachedFrame ==
  ASSUME UNCHANGED positionVars PROVE Reached' = Reached
BY DEF Reached, PctDone, PctFail, LastStep, positionVars

LEMMA NextProgress ==
  ASSUME TypeOK, TypeOK', GateShape, AttemptsFit, ProgressFits, [Next]_vars
  PROVE  /\ ProgressFits'
         /\ job'.progress >= job.progress \/ \E s \in Slots : CalculateRiskScore(s)
<1>0. job.progress \in Int
  <2>1. job.progress \in 0..100
    BY DEF TypeOK, RowTypes, Job
  <2> QED
    BY <2>1
<1>1. ASSUME UNCHANGED positionVars, job'.progress = job.progress
      PROVE  ProgressFits' /\ job'.progress >= job.progress
  BY <1>0, <1>1, ReachedFrame DEF ProgressFits
<1>2. CASE Beside
  <2>1. UNCHANGED positionVars /\ job'.progress = job.progress
    BY <1>2, BesideFrame, BesideKeepsJob DEF slotVars
  <2> QED
    BY <1>1, <2>1
<1>3. CASE \/ \E s \in Slots : WorkflowContinues(s)
           \/ ReceiveSignal \/ GiveUp \/ StartAuditWorkflow
  <2>1. job' = job /\ Reached' >= Reached
    BY <1>3, MovingSteps DEF Moves
  <2>2. Reached \in Int /\ Reached' \in Int
    <3>1. Reached \in {0, 100, PctDone(step, auditType), PctFail(step, auditType)}
      BY DEF Reached
    <3>2. Reached' \in {0, 100, PctDone(step, auditType)', PctFail(step, auditType)'}
      BY DEF Reached
    <3>3. /\ PctDone(step, auditType) \in Int /\ PctFail(step, auditType) \in Int
          /\ PctDone(step, auditType)' \in Int /\ PctFail(step, auditType)' \in Int
      <4>1. /\ auditType \in AuditTypes /\ step \in 1..LastStep(auditType)
            /\ auditType' \in AuditTypes /\ step' \in 1..LastStep(auditType')
        BY DEF TypeOK, RowTypes, WorkflowTypes
      <4>2. /\ PctDone(step, auditType) \in 0..100 /\ PctFail(step, auditType) \in 0..100
            /\ PctDone(step', auditType') \in 0..100 /\ PctFail(step', auditType') \in 0..100
        BY <4>1, PctBounds
      <4> QED
        BY <4>2
    <3> QED
      BY <3>1, <3>2, <3>3
  <2> QED
    BY <1>0, <2>1, <2>2 DEF ProgressFits
<1>4. CASE \E s \in Slots : StartAttempt(s) \/ LoseAttempt(s) \/ AbandonedAttemptStops(s)
  <2>1. UNCHANGED <<positionVars, job>>
    BY <1>4 DEF StartAttempt, LoseAttempt, AbandonedAttemptStops, positionVars
  <2> QED
    BY <1>1, <2>1
<1>5. ASSUME NEW s \in Slots, Perform(s)
      PROVE  ProgressFits' /\ (job'.progress >= job.progress \/ CalculateRiskScore(s))
  <2>1. UNCHANGED positionVars
    BY <1>5, PerformFrame DEF performVars, positionVars
  <2> QED
    BY <1>5, <2>1, PerformProgress, ReachedFrame DEF ProgressFits
<1> QED
  BY <1>2, <1>3, <1>4, <1>5, StepKinds

(***************************************************************************)
(* What can take the row out of a terminal status.                         *)
(***************************************************************************)
LEMMA NextKeepsTerminal ==
  ASSUME TypeOK, GateShape, AttemptsFit, StatusFits, [Next]_vars,
         job.status \in Terminal, job'.status # job.status
  PROVE  \/ job.status = "completed" /\ job'.status = "failed"
         \/ \E s \in Slots : live # s /\ Perform(s)
         \/ \E a \in Approvers : DecideResumesAudit(a)
         \/ \E u \in Operators : PauseAudit(u) \/ ResumeAudit(u)
<1>1. CASE Beside
  <2>1. ~TriggerAudit
    BY TriggerOpens
  <2>2. job' # job
    OBVIOUS
  <2>3. ~(GoroutineFails \/ Rest \/ UNCHANGED vars)
    BY <2>2 DEF GoroutineFails, Rest, vars
  <2>4. ASSUME NEW a \in Approvers, BeginDecide(a) \/ DecideApproval(a) \/ DecideDies(a)
        PROVE  DecideResumesAudit(a)
    BY <2>2, <2>4 DEF BeginDecide, DecideApproval, UpdateApprovalStatus, DecideReadsAudit,
                      SignalWorkflow, DecideDies
  <2>5. ASSUME NEW u \in Operators, BeginClick(u) PROVE FALSE
    BY <2>2, <2>5 DEF BeginClick
  <2> QED
    BY <1>1, <2>1, <2>3, <2>4, <2>5 DEF Beside
<1>2. CASE \/ \E s \in Slots : WorkflowContinues(s)
           \/ ReceiveSignal \/ GiveUp \/ StartAuditWorkflow
  BY <1>2, MovingSteps DEF Moves
<1>3. CASE \E s \in Slots : StartAttempt(s) \/ LoseAttempt(s) \/ AbandonedAttemptStops(s)
  BY <1>3 DEF StartAttempt, LoseAttempt, AbandonedAttemptStops
<1>4. ASSUME NEW s \in Slots, Perform(s), live = s
      PROVE  job.status = "completed" /\ job'.status = "failed"
  <2>1. AttemptFits(s)
    BY DEF AttemptsFit
  <2>2. attempt[s].act = Scheduled
    BY <1>4, <2>1 DEF AttemptFits
  <2>3. phase \in {"complete", "succeeded", "fail", "errored", "cancel"}
    BY DEF StatusFits, Completing, Terminal
  <2>4. Scheduled \in {"complete_audit", "MarkAuditFailed", "cancel_audit", "none"}
    BY <2>3 DEF Scheduled
  <2>5. CASE attempt[s].act = "complete_audit" /\ job'.status = "completed"
    <3>1. phase \in {"complete", "succeeded"} \/ phase \in {"fail", "errored"}
      BY <2>1, <2>5 DEF AttemptFits, Completing
    <3>2. phase = "complete"
      BY <2>2, <2>3, <2>5 DEF Scheduled
    <3> QED
      BY <2>5, <3>2 DEF StatusFits, Completing, Terminal
  <2>6. CASE attempt[s].act = "cancel_audit" /\ job'.status = "cancelled"
    <3>1. phase = "cancel"
      BY <2>2, <2>3, <2>6 DEF Scheduled
    <3> QED
      BY <2>6, <3>1 DEF StatusFits, Completing, Terminal
  <2>7. CASE attempt[s].act = "MarkAuditFailed" /\ job'.status = "failed"
    <3>1. phase = "fail"
      BY <2>1, <2>7 DEF AttemptFits
    <3> QED
      BY <2>7, <3>1 DEF StatusFits, Completing, Terminal
  <2>8. attempt[s].act \notin {"initialize", "calculate_risk_score", "UpdateAuditStep"}
    BY <2>2, <2>4
  <2>9. \/ attempt[s].act = "complete_audit" /\ job'.status = "completed"
        \/ attempt[s].act = "cancel_audit" /\ job'.status = "cancelled"
        \/ attempt[s].act = "MarkAuditFailed" /\ job'.status = "failed"
    BY <1>4, <2>8, PerformWrites
  <2> QED
    BY <2>5, <2>6, <2>7, <2>9
<1> QED
  BY <1>1, <1>2, <1>3, <1>4, StepKinds

LEMMA InitRowInv == ASSUME Init PROVE RowInv
<1>1. /\ attempt = [s \in Slots |-> Idle] /\ live = NoSlot /\ phase = "none"
      /\ job.status = "none" /\ job.progress = 0
  BY DEF Init
<1>2. AttemptsFit
  BY <1>1, SlotsAssumption DEF AttemptsFit, AttemptFits, Idle
<1>3. StatusFits /\ ProgressFits
  BY <1>1 DEF StatusFits, ProgressFits, Reached
<1> QED
  BY <1>2, <1>3 DEF RowInv

LEMMA NextRowInv ==
  ASSUME TypeOK, TypeOK', GateShape, RowInv, [Next]_vars
  PROVE  RowInv'
BY NextAttemptsFit, NextStatusFits, NextProgress DEF RowInv

LEMMA RowIsKept == Spec => [](TypeOK /\ GateInv /\ RowInv)
<1>1. Init => TypeOK /\ GateInv /\ RowInv
  BY InitTypeOK, InitGateInv, InitRowInv
<1>2. TypeOK /\ GateInv /\ RowInv /\ [Next]_vars => (TypeOK /\ GateInv /\ RowInv)'
  BY NextTypeOK, NextGateInv, NextRowInv DEF GateInv
<1> QED
  BY <1>1, <1>2, PTL DEF Spec

(***************************************************************************)
(* However many attempts overlap, the percentage a client reads drops at   *)
(* CalculateRiskScore only (activities.go), as a RowTellsTheTruth part.    *)
(***************************************************************************)
THEOREM ProgressIsKept == Spec => ProgressDropsOnlyAtScore
<1>1. TypeOK /\ GateInv /\ RowInv /\ [Next]_vars
        => [job'.progress >= job.progress \/ \E s \in Slots : CalculateRiskScore(s)]_job
  BY NextTypeOK, NextProgress DEF RowInv, GateInv
<1> QED
  BY <1>1, RowIsKept, PTL DEF Spec, ProgressDropsOnlyAtScore

(***************************************************************************)
(* However many attempts overlap, the attempt the workflow waits for never *)
(* takes the audit out of a terminal status, but for completed to failed   *)
(* (workflow.go, markFailed after CompleteAudit).                          *)
(***************************************************************************)
THEOREM TerminalIsKept == Spec => WorkflowKeepsTerminal
<1> DEFINE Kept == job.status \in Terminal /\ job'.status # job.status =>
       \/ job.status = "completed" /\ job'.status = "failed"
       \/ \E s \in Slots : live # s /\ Perform(s)
       \/ \E a \in Approvers : DecideResumesAudit(a)
       \/ \E u \in Operators : PauseAudit(u) \/ ResumeAudit(u)
<1>1. TypeOK /\ GateInv /\ RowInv /\ [Next]_vars => [Kept]_vars
  BY NextKeepsTerminal DEF RowInv, GateInv
<1> QED
  BY <1>1, RowIsKept, PTL DEF Spec, WorkflowKeepsTerminal

(***************************************************************************)
(* While no finding comes late: how running attempts and scores go on.     *)
(***************************************************************************)
scoreVars == <<auditType, step, tableScore, job.score>>

LEMMA ScoresFrame ==
  ASSUME NEW s \in Slots, AttemptScores(s), UNCHANGED scoreVars, attempt'[s] = attempt[s]
  PROVE  AttemptScores(s)'
BY DEF AttemptScores, scoreVars, GateStep

LEMMA IdleScores ==
  ASSUME NEW s \in Slots, attempt'[s] = Idle
  PROVE  AttemptScores(s)'
BY DEF AttemptScores, Idle

LEMMA BeginScores ==
  ASSUME TypeOK, NEW s \in Slots, UNCHANGED scoreVars, attempt'[s].at = "begin",
         attempt'[s].act = Scheduled
  PROVE  AttemptScores(s)'
<1>1. Scheduled = "check_approval_gate" => step = GateStep(auditType)
  BY ScheduledAt
<1>2. step \in Int /\ GateStep(auditType) \in Int /\ GateStep(auditType)' = GateStep(auditType)
      /\ step' = step
  BY AtPosition, GatePlace DEF scoreVars
<1>3. attempt'[s].act = "check_approval_gate" => step' >= GateStep(auditType)'
  BY <1>1, <1>2
<1> QED
  BY <1>3 DEF AttemptScores

LEMMA BesideScore ==
  ASSUME TypeOK, Beside
  PROVE  UNCHANGED <<scoreVars, phase, gate, attempt>>
<1>1. /\ UNCHANGED <<slotVars, tableScore>>
      /\ job' = job \/ \E st \in Statuses \ Terminal : job' = [job EXCEPT !.status = st]
  BY BesideFrame
<1>2. job'.score = job.score
  BY <1>1 DEF TypeOK, RowTypes, Job
<1> QED
  BY <1>1, <1>2 DEF scoreVars, slotVars, positionVars

LEMMA ScoreFrame ==
  ASSUME ScoresFit, UNCHANGED <<scoreVars, phase, gate>>, \A s \in Slots : AttemptScores(s)'
  PROVE  ScoresFit'
BY DEF ScoresFit, Scored, scoreVars, GateStep

\* The attempt in s changes to a.
LEMMA AttemptScoresTo ==
  ASSUME NEW s \in Slots, NEW a, attempt'[s] = a,
         a.act = "check_approval_gate" => step' >= GateStep(auditType'),
         \/ a.at \notin {"counted", "scored"}
         \/ a.seen = tableScore' /\ a.act \in {"calculate_risk_score", "complete_audit"},
         a.act = "calculate_risk_score" /\ a.at = "ended" => job'.score = tableScore',
         a.act = "check_approval_gate" /\ a.at = "ended" => a.seen = tableScore'
  PROVE  AttemptScores(s)'
BY DEF AttemptScores

\* Nothing that came late is forgotten.
LEMMA LateGrows ==
  ASSUME TypeOK, GateShape, AttemptsFit, [Next]_vars
  PROVE  late \subseteq late'
<1>1. CASE Beside
  BY <1>1, BesideFrame
<1>2. CASE \/ \E s \in Slots : WorkflowContinues(s)
           \/ ReceiveSignal \/ GiveUp \/ StartAuditWorkflow
  BY <1>2, MovingSteps DEF Moves
<1>3. CASE \E s \in Slots : StartAttempt(s) \/ LoseAttempt(s) \/ AbandonedAttemptStops(s)
  BY <1>3 DEF StartAttempt, LoseAttempt, AbandonedAttemptStops
<1>4. CASE \E s \in Slots : Perform(s)
  BY <1>4, LateWrites
<1> QED
  BY <1>1, <1>2, <1>3, <1>4, StepKinds

\* A step of the attempt in s leaves the others alone.
LEMMA OthersStay ==
  ASSUME TypeOK, NEW s \in Slots, Perform(s)
  PROVE  \A t \in Slots : t # s => attempt'[t] = attempt[t]
<1>1. attempt \in [Slots -> Attempt]
  BY DEF TypeOK, WorkflowTypes
<1>2. \E a : attempt' = [attempt EXCEPT ![s] = a]
  <2>1. ASSUME NEW acts, NEW p, NEW q, Runs(s, acts, p, q)
        PROVE  \E a : attempt' = [attempt EXCEPT ![s] = a]
    BY <2>1 DEF Runs
  <2>2. CASE CountFindingsBySeverity(s) \/ CheckApprovalGate(s)
    BY <2>2 DEF CountFindingsBySeverity, CheckApprovalGate
  <2>3. CASE ~(CountFindingsBySeverity(s) \/ CheckApprovalGate(s))
    <3>1. \E acts, p, q : Runs(s, acts, p, q)
      BY <2>3, Zenon DEF Perform, InitializeAudit, CreateFinding, ReturnFromActivity,
         CalculateRiskScore, CompleteScore, CompleteStatus,
         CreateApprovalRequest, CancelAudit, UpdateAuditStep, MarkAuditFailed
    <3> QED
      BY <2>1, <3>1
  <2> QED
    BY <2>2, <2>3
<1> QED
  BY <1>1, <1>2

LEMMA PerformScore ==
  ASSUME TypeOK, TypeOK', GateShape, AttemptsFit, ScoresFit, "finding" \notin late',
         NEW s \in Slots, Perform(s)
  PROVE  ScoresFit'
<1>1. UNCHANGED <<auditType, phase, step, gate>> /\ attempt'[s].act = attempt[s].act
  BY PerformFrame DEF performVars
<1>2. AttemptScores(s)
  BY DEF ScoresFit
<1>3. attempt \in [Slots -> Attempt] /\ attempt[s] \in Attempt
  BY DEF TypeOK, WorkflowTypes
<1> DEFINE a == attempt[s]
           b == attempt'[s]
           ts == tableScore
<1>4. a = [act |-> a.act, at |-> a.at, seen |-> a.seen]
  BY <1>3 DEF Attempt
<1>5. /\ a.at \in {"counted", "scored"} => a.seen = tableScore
      /\ a.act = "check_approval_gate" => step >= GateStep(auditType)
      /\ a.at \in {"counted", "scored"} => a.act \in {"calculate_risk_score", "complete_audit"}
  BY <1>2 DEF AttemptScores
<1>6. b.act = "check_approval_gate" => step' >= GateStep(auditType')
  BY <1>1, <1>5
<1>7. ASSUME AttemptScores(s)', tableScore' = tableScore,
             job'.score = job.score \/ job'.score = tableScore
      PROVE  ScoresFit'
  <2>1. ASSUME NEW t \in Slots PROVE AttemptScores(t)'
    <3>1. t # s => attempt'[t] = attempt[t]
      BY OthersStay
    <3>2. AttemptScores(t) /\ step' = step /\ auditType' = auditType
      BY <1>1 DEF ScoresFit
    <3> QED
      BY <1>7, <3>1, <3>2 DEF AttemptScores, GateStep
  <2>2. /\ Scored => job.score = tableScore
        /\ gate = "clear" => ~IsApprovalRequired(tableScore)
    BY DEF ScoresFit
  <2>3. (Scored => job.score = tableScore)'
    BY <1>1, <1>7, <2>2 DEF Scored
  <2>4. (gate = "clear" => ~IsApprovalRequired(tableScore))'
    BY <1>1, <1>7, <2>2 DEF IsApprovalRequired
  <2> QED
    BY <2>1, <2>3, <2>4 DEF ScoresFit
<1>8. CASE CreateFinding(s)
  <2>1. job' = job /\ a.act \in Inserting /\ a.at = "begin"
        /\ attempt' = [attempt EXCEPT ![s].at = "begin"]
        /\ ~(step >= GateStep(auditType) - 1)
    BY <1>8 DEF CreateFinding, Runs
  <2>2. step \in Int /\ GateStep(auditType) \in Int /\ GateStep(auditType) < LastStep(auditType)
        /\ LastStep(auditType) \in Int
    BY AtPosition, GatePlace
  <2>3. step < GateStep(auditType) /\ step # GateStep(auditType) - 1
        /\ ~(step >= GateStep(auditType)) /\ step # LastStep(auditType)
    BY <2>1, <2>2
  <2>4. ASSUME NEW t \in Slots PROVE AttemptScores(t)'
    <3>1. attempt'[t].act = attempt[t].act /\ attempt'[t].at = attempt[t].at
          /\ attempt'[t].seen = attempt[t].seen
      BY <1>3, <2>1, SlotIs DEF Attempt
    <3>2. AttemptScores(t) /\ AttemptFits(t)
      BY DEF ScoresFit, AttemptsFit
    <3>3. attempt[t].act # "calculate_risk_score"
      BY <2>1, <3>2 DEF AttemptFits
    <3>4. attempt[t].act # "complete_audit"
      BY <2>3, <3>2 DEF AttemptFits, Completing, GateShape
    <3>5. attempt[t].act # "check_approval_gate"
      BY <2>3, <3>2 DEF AttemptScores
    <3>6. attempt[t].at \notin {"counted", "scored"}
      BY <3>2, <3>3, <3>4 DEF AttemptScores
    <3> QED
      BY <3>1, <3>3, <3>4, <3>5, <3>6 DEF AttemptScores
  <2>5. gate = "unchecked"
    BY <2>3 DEF GateShape
  <2>6. ~Scored'
    BY <1>1, <2>3 DEF Scored
  <2> QED
    BY <1>1, <2>4, <2>5, <2>6 DEF ScoresFit
<1>9. CASE CountFindingsBySeverity(s)
  <2>1. /\ a.act \in {"calculate_risk_score", "complete_audit"}
        /\ attempt' = [attempt EXCEPT ![s].at = "counted", ![s].seen = ts]
        /\ job' = job /\ tableScore' = tableScore
    BY <1>9 DEF CountFindingsBySeverity
  <2> HIDE DEF ts
  <2>2. b.at = "counted" /\ b.seen = ts
    BY <1>3, <1>4, <2>1
  <2>3. AttemptScores(s)'
    BY <1>1, <1>6, <2>1, <2>2, AttemptScoresTo DEF ts
  <2> QED
    BY <1>7, <2>1, <2>3
<1>10. CASE CalculateRiskScore(s) \/ CompleteScore(s)
  <2>1. /\ a.at = "counted" /\ tableScore' = tableScore
        /\ \E q \in {"ended", "scored"}, n \in {50, 100} :
             /\ attempt' = [attempt EXCEPT ![s].at = q]
             /\ job' = [job EXCEPT !.progress = n, !.score = a.seen]
        /\ a.act \in {"calculate_risk_score", "complete_audit"}
    BY <1>10 DEF CalculateRiskScore, CompleteScore, Runs
  <2>2. a.seen = tableScore
    BY <1>5, <2>1
  <2>3. job'.score = tableScore
    <3>1. job = [status |-> job.status, step |-> job.step, progress |-> job.progress,
                 score |-> job.score]
      BY DEF TypeOK, RowTypes, Job
    <3> QED
      BY <2>1, <2>2, <3>1
  <2>4. b.seen = a.seen
    BY <1>3, <1>4, <2>1
  <2>5. b.act = a.act /\ b.seen = tableScore' /\ job'.score = tableScore'
        /\ b.act \in {"calculate_risk_score", "complete_audit"}
    BY <1>1, <2>1, <2>2, <2>3, <2>4
  <2>6. AttemptScores(s)'
    BY <2>5 DEF AttemptScores
  <2> QED
    BY <1>7, <2>1, <2>3, <2>6
<1>11. CASE CheckApprovalGate(s)
  <2> DEFINE js == job.score
  <2>1. /\ a.act = "check_approval_gate"
        /\ attempt' = [attempt EXCEPT ![s].at = "ended", ![s].seen = js]
        /\ job' = job /\ tableScore' = tableScore
    BY <1>11 DEF CheckApprovalGate
  <2>2. js = tableScore
    <3>1. step >= GateStep(auditType)
      BY <1>5, <2>1
    <3> QED
      BY <3>1 DEF ScoresFit, Scored
  <2> HIDE DEF js
  <2>3. b.at = "ended" /\ b.seen = js
    BY <1>3, <1>4, <2>1
  <2>4. AttemptScores(s)'
    BY <1>1, <1>6, <2>1, <2>2, <2>3, AttemptScoresTo
  <2> QED
    BY <1>7, <2>1, <2>4
<1>12. CASE \/ InitializeAudit(s) \/ ReturnFromActivity(s) \/ CompleteStatus(s)
            \/ CreateApprovalRequest(s) \/ CancelAudit(s) \/ UpdateAuditStep(s)
            \/ MarkAuditFailed(s)
  <2>1. /\ attempt' = [attempt EXCEPT ![s].at = "ended"] /\ tableScore' = tableScore
        /\ a.act \notin {"calculate_risk_score", "check_approval_gate"}
    BY <1>12 DEF InitializeAudit, ReturnFromActivity, CompleteStatus,
       CreateApprovalRequest, CancelAudit, UpdateAuditStep, MarkAuditFailed, Runs,
       Inserting, External
  <2>2. job'.score = job.score
    <3>1. job = [status |-> job.status, step |-> job.step, progress |-> job.progress,
                 score |-> job.score]
      BY DEF TypeOK, RowTypes, Job
    <3>2. CASE InitializeAudit(s) \/ CompleteStatus(s) \/ CancelAudit(s)
      BY <3>1, <3>2 DEF InitializeAudit, CompleteStatus, CancelAudit
    <3>3. CASE ReturnFromActivity(s) \/ CreateApprovalRequest(s)
      BY <3>3 DEF ReturnFromActivity, CreateApprovalRequest
    <3>4. ASSUME NEW st, NEW n, NEW p,
                 job' = [job EXCEPT !.status = st, !.step = n, !.progress = p]
          PROVE  job'.score = job.score
      BY <3>1, <3>4
    <3>5. CASE UpdateAuditStep(s) \/ MarkAuditFailed(s)
      BY <3>4, <3>5 DEF UpdateAuditStep, MarkAuditFailed
    <3> QED
      BY <1>12, <3>2, <3>3, <3>5
  <2>3. b.at = "ended"
    BY <1>3, <1>4, <2>1
  <2>4. AttemptScores(s)'
    BY <1>1, <1>6, <2>1, <2>3, AttemptScoresTo
  <2> QED
    BY <1>7, <2>1, <2>2, <2>4
<1> QED
  BY <1>8, <1>9, <1>10, <1>11, <1>12 DEF Perform

(***************************************************************************)
(* The awaited result of the only attempt takes the workflow on.           *)
(***************************************************************************)
LEMMA ContinueScore ==
  ASSUME TypeOK, TypeOK', GateShape, AttemptsFit, ScoresFit, NEW s \in Slots,
         WorkflowContinues(s)
  PROVE  ScoresFit'
<1>1. Result(s)
  BY ContinueFrame
<1>2. attempt[s].at = "ended" /\ UNCHANGED <<auditType, job, tableScore, late>>
  BY <1>1 DEF Result
<1>3. \A t \in Slots : AttemptScores(t)'
  <2>1. attempt' = [attempt EXCEPT ![s] = Idle]
    BY <1>1 DEF Result
  <2>2. \A t \in Slots : attempt'[t] = IF t = s THEN Idle ELSE attempt[t]
    BY <2>1, SlotIs
  <2>3. ASSUME NEW t \in Slots, t # s PROVE AttemptScores(t)'
    <3>1. attempt'[t] = attempt[t] /\ AttemptScores(t) /\ UNCHANGED <<auditType, job, tableScore>>
      BY <1>2, <2>2, <2>3 DEF ScoresFit
    <3>2. step >= GateStep(auditType) => step' >= GateStep(auditType)'
      <4>1. step' >= step /\ auditType' = auditType
        BY ContinueMoves DEF Moves
      <4>2. step \in Int /\ GateStep(auditType) \in Int /\ step' \in Int
        BY <4>1, AtPosition, GatePlace DEF TypeOK, RowTypes, WorkflowTypes, LastStep
      <4> QED
        BY <4>1, <4>2 DEF GateStep
    <3> QED
      BY <3>1, <3>2 DEF AttemptScores
  <2> QED
    BY <2>2, <2>3, IdleScores
<1>4. AttemptScores(s)
  BY DEF ScoresFit
<1>5. /\ step \in Int /\ GateStep(auditType) \in Int
      /\ GateStep(auditType)' = GateStep(auditType)
      /\ auditType \in AuditTypes /\ step \in 1..LastStep(auditType)
  <2>1. auditType \in AuditTypes /\ step \in 1..LastStep(auditType) /\ step \in Int
    BY AtPosition
  <2>2. GateStep(auditType) \in Int /\ GateStep(auditType)' = GateStep(auditType)
    BY <1>2 DEF GateStep
  <2> QED
    BY <2>1, <2>2
<1>6. /\ Scored => job.score = tableScore
      /\ gate = "clear" => ~IsApprovalRequired(tableScore)
  BY DEF ScoresFit
<1>7. ASSUME Scored' => job.score = tableScore, gate' = gate PROVE ScoresFit'
  <2>1. (gate = "clear" => ~IsApprovalRequired(tableScore))'
    BY <1>2, <1>6, <1>7 DEF IsApprovalRequired
  <2> QED
    BY <1>2, <1>3, <1>7, <2>1 DEF ScoresFit
<1>8. CASE StepReturns(s)
  <2>1. phase = "step" /\ phase' = "record" /\ step' = step /\ gate' = gate /\ live = s
    BY <1>1, <1>8 DEF StepReturns, Goto, Result
  <2>2. CASE step = GateStep(auditType) - 1
    <3>1. Plan(auditType)[step] = "calculate_risk_score"
      BY <1>5, <2>2, PlanPlaces
    <3>2. attempt[s].act = "calculate_risk_score"
      BY <2>1, <3>1 DEF AttemptsFit, AttemptFits, Scheduled
    <3>3. job.score = tableScore
      BY <1>2, <1>4, <3>2 DEF AttemptScores
    <3> QED
      BY <1>7, <2>1, <3>3
  <2>3. CASE step >= GateStep(auditType)
    BY <1>6, <1>7, <2>1, <2>3 DEF Scored
  <2>4. CASE ~(step >= GateStep(auditType)) /\ step # GateStep(auditType) - 1
    <3>1. ~Scored'
      BY <1>5, <2>1, <2>4 DEF Scored
    <3> QED
      BY <1>7, <2>1, <3>1
  <2> QED
    BY <2>2, <2>3, <2>4
<1>9. CASE GateReturns(s)
  <2>1. step' = step /\ Scheduled = "check_approval_gate" /\ live = s
    BY <1>1, <1>9 DEF GateReturns, Result
  <2>2. step = GateStep(auditType)
    BY <2>1, ScheduledAt
  <2>3. Scored
    BY <1>5, <2>2 DEF Scored
  <2>4. attempt[s].act = "check_approval_gate"
    BY <2>1 DEF AttemptsFit, AttemptFits
  <2>5. attempt[s].seen = tableScore
    BY <1>2, <1>4, <2>4 DEF AttemptScores
  <2>6. gate' = "clear" => ~IsApprovalRequired(tableScore)
    BY <1>9, <2>5 DEF GateReturns
  <2>7. (gate = "clear" => ~IsApprovalRequired(tableScore))'
    BY <1>2, <2>6 DEF IsApprovalRequired
  <2>8. (Scored => job.score = tableScore)'
    BY <1>2, <1>6, <2>3
  <2> QED
    BY <1>3, <2>7, <2>8 DEF ScoresFit
<1>10. CASE RecordReturns(s) \/ ResumeReturns(s)
  <2>1. phase = "record" \/ (phase = "resume" /\ step = GateStep(auditType))
    BY <1>10 DEF RecordReturns, ResumeReturns, GateShape, AtGate
  <2>2. /\ gate' = gate
        /\ \/ phase' = "step" /\ step' = step + 1
           \/ phase' = "complete" /\ step' = step
    BY <1>10 DEF RecordReturns, ResumeReturns, Goto, NextStep
  <2>3. Scored' => Scored
    BY <1>5, <2>1, <2>2 DEF Scored
  <2> QED
    BY <1>6, <1>7, <2>2, <2>3
<1>11. CASE \/ AskReturns(s) \/ PauseReturns(s) \/ CancelReturns(s)
            \/ CompleteReturns(s) \/ FailReturns(s)
  <2>1. step' = step /\ gate' = gate /\ phase' # "record"
    BY <1>11 DEF AskReturns, PauseReturns, CancelReturns, CompleteReturns, FailReturns, Goto
  <2>2. Scored' => Scored
    BY <1>5, <2>1 DEF Scored
  <2> QED
    BY <1>6, <1>7, <2>1, <2>2
<1> QED
  BY <1>8, <1>9, <1>10, <1>11 DEF WorkflowContinues

(***************************************************************************)
(* The workflow moves on without a result: the findings are not touched,   *)
(* and it does not come to a scored step it was not at.                    *)
(***************************************************************************)
LEMMA WaitingScore ==
  ASSUME TypeOK, GateShape, ScoresFit, ReceiveSignal \/ GiveUp \/ StartAuditWorkflow
  PROVE  ScoresFit'
<1>1. UNCHANGED <<scoreVars, gate, attempt>>
  BY DEF ReceiveSignal, GiveUp, StartAuditWorkflow, Goto, scoreVars
<1>2. \A s \in Slots : AttemptScores(s)'
  BY <1>1, ScoresFrame DEF ScoresFit
<1>3. /\ step \in Int /\ GateStep(auditType) \in Int
      /\ GateStep(auditType)' = GateStep(auditType)
      /\ GateStep(auditType) < LastStep(auditType)
  BY <1>1, AtPosition, GatePlace DEF scoreVars, GateStep
<1>4. Scored' => Scored
  <2>1. phase' # "record" \/ step = LastStep(auditType)
    BY DEF ReceiveSignal, GiveUp, StartAuditWorkflow, Goto
  <2>2. step' = step
    BY <1>1 DEF scoreVars
  <2> QED
    BY <1>3, <2>1, <2>2 DEF Scored
<1>5. (Scored => job.score = tableScore)'
  BY <1>1, <1>4 DEF ScoresFit, scoreVars
<1>6. (gate = "clear" => ~IsApprovalRequired(tableScore))'
  BY <1>1 DEF ScoresFit, scoreVars, IsApprovalRequired
<1> QED
  BY <1>2, <1>5, <1>6 DEF ScoresFit

\* Slots are taken and left: nothing else happens.
LEMMA SlotScore ==
  ASSUME TypeOK, ScoresFit, NEW s \in Slots,
         StartAttempt(s) \/ LoseAttempt(s) \/ AbandonedAttemptStops(s)
  PROVE  ScoresFit'
<1>1. UNCHANGED <<scoreVars, phase, gate>>
  BY DEF StartAttempt, LoseAttempt, AbandonedAttemptStops, scoreVars
<1>2. ASSUME NEW t \in Slots PROVE AttemptScores(t)'
  <2>1. ASSUME attempt'[t] = attempt[t] PROVE AttemptScores(t)'
    BY <1>1, <2>1, ScoresFrame DEF ScoresFit
  <2>2. CASE attempt'[t] = Idle
    BY <2>2, IdleScores
  <2>3. CASE StartAttempt(s) /\ t = s
    <3> DEFINE a == [Idle EXCEPT !.act = Scheduled]
    <3>1. a.act = Scheduled /\ a.at = "begin"
      BY DEF Idle
    <3>2. attempt' = [attempt EXCEPT ![s] = a]
      BY <2>3 DEF StartAttempt
    <3> HIDE DEF a
    <3>3. \A u \in Slots : attempt'[u] = IF u = s THEN a ELSE attempt[u]
      BY <3>2, SlotIs
    <3>4. attempt'[t] = a
      BY <2>3, <3>3
    <3> QED
      BY <1>1, <3>1, <3>4, BeginScores
  <2>4. CASE StartAttempt(s) /\ t # s
    <3>1. PICK a : attempt' = [attempt EXCEPT ![s] = a]
      BY <2>4 DEF StartAttempt
    <3>2. attempt'[t] = attempt[t]
      BY <2>4, <3>1, SlotIs
    <3> QED
      BY <2>1, <3>2
  <2>5. CASE LoseAttempt(s) \/ AbandonedAttemptStops(s)
    <3>1. attempt' = [attempt EXCEPT ![s] = Idle] \/ attempt' = attempt
      BY <2>5 DEF LoseAttempt, AbandonedAttemptStops
    <3>2. attempt'[t] = Idle \/ attempt'[t] = attempt[t]
      BY <3>1, SlotIs
    <3> QED
      BY <2>1, <2>2, <3>2
  <2> QED
    BY <2>3, <2>4, <2>5
<1> QED
  BY <1>1, <1>2, ScoreFrame

LEMMA NextScoreInv ==
  ASSUME TypeOK, TypeOK', GateShape, AttemptsFit, ScoreInv, [Next]_vars
  PROVE  ScoreInv'
<1> SUFFICES ASSUME "finding" \notin late'
             PROVE  ScoresFit'
  BY DEF ScoreInv
<1>1. late \subseteq late'
  BY LateGrows
<1>2. ScoresFit
  BY <1>1 DEF ScoreInv
<1>3. CASE Beside
  <2>1. UNCHANGED <<scoreVars, phase, gate, attempt>>
    BY <1>3, BesideScore
  <2>2. \A s \in Slots : AttemptScores(s)'
    BY <1>2, <2>1, ScoresFrame DEF ScoresFit
  <2> QED
    BY <1>2, <2>1, <2>2, ScoreFrame
<1> QED
  BY <1>2, <1>3, StepKinds, ContinueScore, WaitingScore, SlotScore, PerformScore

LEMMA InitScoreInv == ASSUME Init PROVE ScoreInv
<1>1. /\ attempt = [s \in Slots |-> Idle] /\ gate = "unchecked"
      /\ job.score = 0 /\ tableScore = 0
  BY DEF Init
<1> QED
  BY <1>1 DEF ScoreInv, ScoresFit, AttemptScores, Idle

(***************************************************************************)
(* A completed audit is past its gate, and what the gate has seen is what  *)
(* is stored.                                                              *)
(***************************************************************************)
LEMMA CompletedIsApproved ==
  ASSUME TypeOK, GateInv, StatusFits, ScoreInv
  PROVE  UnapprovedOnlyLate
<1> SUFFICES ASSUME job.status = "completed", IsApprovalRequired(job.score)
             PROVE  Approved \/ (gate = "clear" /\ "finding" \in late)
  BY DEF UnapprovedOnlyLate
<1>1. Completing
  BY DEF StatusFits
<1>2. step = LastStep(auditType)
  BY <1>1 DEF Completing, GateInv, GateShape
<1>3. step > GateStep(auditType) /\ step >= GateStep(auditType)
  BY <1>2, AtPosition, GatePlace
<1>4. PastGate /\ Scored
  BY <1>1, <1>3 DEF PastGate, Scored, Completing
<1>5. gate = "clear" \/ Approved
  BY <1>4 DEF GateInv, GateHonoured
<1> QED
  BY <1>4, <1>5 DEF ScoreInv, ScoresFit

(***************************************************************************)
(* However many attempts overlap, an audit whose stored score calls for    *)
(* approval completes without one in a single way: it passed the gate with *)
(* a low score, and a timed-out attempt inserted a finding afterwards      *)
(* (workflow.go, Execute; auditlogic.go, UpdateAuditCompletion).           *)
(***************************************************************************)
THEOREM HighRiskIsApproved == Spec => []UnapprovedOnlyLate
<1>1. Init => TypeOK /\ GateInv /\ RowInv /\ ScoreInv
  BY InitTypeOK, InitGateInv, InitRowInv, InitScoreInv
<1>2. TypeOK /\ GateInv /\ RowInv /\ ScoreInv /\ [Next]_vars
        => (TypeOK /\ GateInv /\ RowInv /\ ScoreInv)'
  BY NextTypeOK, NextGateInv, NextRowInv, NextScoreInv DEF GateInv, RowInv
<1>3. TypeOK /\ GateInv /\ RowInv /\ ScoreInv => UnapprovedOnlyLate
  BY CompletedIsApproved DEF RowInv
<1> QED
  BY <1>1, <1>2, <1>3, PTL DEF Spec

(***************************************************************************)
(* What a step of an activity makes of a failure on the row: it is         *)
(* replaced as a whole, left alone, or loses its percentage.               *)
(***************************************************************************)
LEMMA FailurePerform ==
  ASSUME TypeOK, GateShape, AttemptsFit, StatusFits, FailureInv,
         NEW s \in Slots, Perform(s)
  PROVE  FailureInv'
<1> DEFINE p == IF step = LastStep(auditType) THEN 100 ELSE PctFail(step, auditType)
           n == Plan(auditType)[step]
<1>1. UNCHANGED positionVars /\ p' = p /\ n' = n
  BY PerformFrame DEF performVars, positionVars, PctFail, LastStep
<1>2. late \subseteq late'
  BY LateWrites
<1>3. FailureInv' <=> (job'.status = "failed" =>
         job'.step = n /\ (job'.progress = p \/ (job'.progress = 50 /\ "score" \in late')))
  BY <1>1 DEF FailureInv
<1>4. job.status = "failed" =>
         job.step = n /\ (job.progress = p \/ (job.progress = 50 /\ "score" \in late))
  BY DEF FailureInv
<1>5. job = [status |-> job.status, step |-> job.step, progress |-> job.progress,
             score |-> job.score]
  BY DEF TypeOK, RowTypes, Job
<1>6. AttemptFits(s) /\ (job.status = "failed" => phase \in {"fail", "errored"})
  BY DEF AttemptsFit, StatusFits
<1> HIDE DEF p, n
<1>7. CASE MarkAuditFailed(s)
  <2>1. job' = [job EXCEPT !.status = "failed", !.step = n, !.progress = p]
    BY <1>7 DEF MarkAuditFailed, p, n
  <2> QED
    BY <1>3, <1>5, <2>1
<1>8. CASE CalculateRiskScore(s)
  <2>1. /\ job' = [job EXCEPT !.progress = 50, !.score = attempt[s].seen]
        /\ attempt[s].act = "calculate_risk_score"
        /\ live # s => "score" \in late'
    BY <1>8 DEF CalculateRiskScore, Runs
  <2>2. job'.status = job.status /\ job'.step = job.step /\ job'.progress = 50
    BY <1>5, <2>1
  <2>3. job.status = "failed" => live # s
    BY <1>6, <2>1 DEF AttemptFits, Scheduled
  <2> QED
    BY <1>3, <1>4, <2>1, <2>2, <2>3
<1>9. CASE CompleteScore(s)
  <2>1. /\ job' = [job EXCEPT !.progress = 100, !.score = attempt[s].seen]
        /\ attempt[s].act = "complete_audit"
    BY <1>9 DEF CompleteScore, Runs
  <2>2. job'.status = job.status /\ job'.step = job.step /\ job'.progress = 100
    BY <1>5, <2>1
  <2>3. step = LastStep(auditType)
    BY <1>6, <2>1 DEF AttemptFits, Completing, GateShape
  <2>4. p = 100
    BY <2>3 DEF p
  <2> QED
    BY <1>3, <1>4, <2>2, <2>4
<1>10. CASE InitializeAudit(s) \/ CompleteStatus(s) \/ CancelAudit(s) \/ UpdateAuditStep(s)
  <2>1. job'.status # "failed"
    BY <1>5, <1>10 DEF InitializeAudit, CompleteStatus, CancelAudit, UpdateAuditStep
  <2> QED
    BY <1>3, <2>1
<1>11. CASE \/ CreateFinding(s) \/ ReturnFromActivity(s) \/ CountFindingsBySeverity(s)
            \/ CheckApprovalGate(s) \/ CreateApprovalRequest(s)
  <2>1. job' = job
    BY <1>11 DEF CreateFinding, ReturnFromActivity, CountFindingsBySeverity,
       CheckApprovalGate, CreateApprovalRequest
  <2> QED
    BY <1>2, <1>3, <1>4, <2>1
<1> QED
  BY <1>7, <1>8, <1>9, <1>10, <1>11 DEF Perform

LEMMA FailureFrame ==
  ASSUME FailureInv, UNCHANGED <<step, auditType, job, late>>
  PROVE  FailureInv'
BY DEF FailureInv, PctFail, LastStep

LEMMA NextFailureInv ==
  ASSUME TypeOK, GateShape, AttemptsFit, StatusFits, FailureInv, [Next]_vars
  PROVE  FailureInv'
<1>1. CASE Beside
  <2>1. /\ UNCHANGED <<slotVars, late>>
        /\ job' = job \/ \E st \in Statuses \ Terminal : job' = [job EXCEPT !.status = st]
    BY <1>1, BesideFrame
  <2>2. CASE job' = job
    BY <2>1, <2>2, FailureFrame DEF slotVars, positionVars
  <2>3. CASE \E st \in Statuses \ Terminal : job' = [job EXCEPT !.status = st]
    <3>1. job'.status # "failed"
      BY <2>3 DEF TypeOK, RowTypes, Job, Terminal
    <3> QED
      BY <3>1 DEF FailureInv
  <2> QED
    BY <2>1, <2>2, <2>3
<1>2. CASE \/ \E s \in Slots : WorkflowContinues(s)
           \/ ReceiveSignal \/ GiveUp \/ StartAuditWorkflow
  <2>1. Moves
    BY <1>2, MovingSteps
  <2>2. CASE job.status = "failed"
    <3>1. phase \in {"fail", "errored"}
      BY <2>2 DEF StatusFits
    <3> QED
      BY <2>1, <3>1, FailureFrame DEF Moves
  <2>3. CASE job.status # "failed"
    BY <2>1, <2>3 DEF Moves, FailureInv
  <2> QED
    BY <2>2, <2>3
<1>3. CASE \E s \in Slots : StartAttempt(s) \/ LoseAttempt(s) \/ AbandonedAttemptStops(s)
  BY <1>3, FailureFrame DEF StartAttempt, LoseAttempt, AbandonedAttemptStops
<1>4. CASE \E s \in Slots : Perform(s)
  BY <1>4, FailurePerform
<1> QED
  BY <1>1, <1>2, <1>3, <1>4, StepKinds

LEMMA InitFailureInv == ASSUME Init PROVE FailureInv
<1>1. job.status = "none"
  BY DEF Init
<1> QED
  BY <1>1 DEF FailureInv

LEMMA FailureIsNamed == Spec => []FailureNamesStep
<1>1. Init => TypeOK /\ GateInv /\ RowInv /\ FailureInv
  BY InitTypeOK, InitGateInv, InitRowInv, InitFailureInv
<1>2. TypeOK /\ GateInv /\ RowInv /\ FailureInv /\ [Next]_vars
        => (TypeOK /\ GateInv /\ RowInv /\ FailureInv)'
  BY NextTypeOK, NextGateInv, NextRowInv, NextFailureInv DEF GateInv, RowInv
<1>3. FailureInv => FailureNamesStep
  BY DEF FailureInv, FailureNamesStep
<1> QED
  BY <1>1, <1>2, <1>3, PTL DEF Spec

(***************************************************************************)
(* However many attempts overlap, what a client reads of an audit's        *)
(* status, failure and progress is what happened (workflow.go, updateStep  *)
(* and markFailed), but for the percentage that a timed-out                *)
(* CalculateRiskScore stores over a failure's.                             *)
(***************************************************************************)
THEOREM RowIsTrue == Spec => RowTellsTheTruth
BY FailureIsNamed, ProgressIsKept, TerminalIsKept DEF RowTellsTheTruth
=============================================================================
