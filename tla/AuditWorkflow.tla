---------------------------- MODULE AuditWorkflow ----------------------------
(***************************************************************************)
(* One compliance audit of audit-service: the audit_jobs row, the Temporal *)
(* workflow that drives it (temporal/workflow.go), the activity attempts   *)
(* the workflow schedules (temporal/activities.go), and the gRPC handlers  *)
(* that touch the same row (internal/grpcserver, internal/logic).          *)
(*                                                                         *)
(* Temporal runs an activity at least once: an attempt can be lost after   *)
(* it committed, is retried, and an attempt that missed its heartbeat      *)
(* deadline can keep running (and writing) next to its own retry.  Every   *)
(* database transaction of an activity or a handler is one action.         *)
(***************************************************************************)
EXTENDS Integers, Sequences, FiniteSets

CONSTANTS
  Requests,       \* ids CreateApprovalRequest can draw (uuid.New)
  Approvers,      \* DecideApproval calls that can be in flight together
  Operators,      \* PauseAudit / ResumeAudit calls that can be in flight together
  Slots,          \* activity attempts that can run at the same time
  Weights,        \* severity weights a finding can add to the score
  MaxScore,       \* the clamp of CalculateCompositeScore (100 in the code)
  HighThreshold,  \* RiskConfig.HighThreshold
  MaxTries,       \* bound: lost attempts of one scheduled activity
  MaxBusy,        \* bound: handlers at work and timed-out attempts together
  HandlersCrash   \* may a handler die between two of its statements?

ASSUME BoundsAssumption ==
  /\ MaxScore \in Nat /\ HighThreshold \in Nat
  /\ MaxTries \in Nat /\ MaxBusy \in Nat
  /\ Weights \subseteq Nat
  /\ HandlersCrash \in BOOLEAN

NoSlot == "no slot"

ASSUME SlotsAssumption == NoSlot \notin Slots

VARIABLES
  auditType,  \* audit_jobs.audit_type
  job,        \* audit_jobs: status, current_step, progress_percentage, risk_score
  tableScore, \* composite score of the audit's audit_findings rows
  req,        \* approval_requests: id -> status
  trigger,    \* the TriggerAudit handler and its background goroutine
  phase,      \* where the workflow function stands
  step,       \* index into its list of steps
  gate,       \* its local variable requiresApproval
  live,       \* the slot of the attempt Temporal is waiting for
  attempt,    \* the attempts that are running, timed-out ones included
  tries,      \* attempts of the scheduled activity that were lost so far
  signals,    \* the workflow's buffered "ApproveAuditSignal" channel
  desk,       \* DecideApproval handlers
  click,      \* PauseAudit / ResumeAudit handlers
  recorded,   \* history: every <<request, decision>> ever committed
  late        \* history: what attempts wrote after the step they belong to

workflowVars == <<phase, step, gate, live, attempt, tries>>
vars == <<auditType, job, tableScore, req, trigger, workflowVars, signals,
          desk, click, recorded, late>>

(***************************************************************************)
(* Steps of the workflow, and the percentages it reports for them.         *)
(***************************************************************************)
AuditTypes == {"full", "incremental"}

Plan(t) ==
  IF t = "incremental"
    THEN << "initialize", "load_previous_findings", "fetch_repository",
            "run_static_analysis", "generate_findings",
            "calculate_risk_score", "check_approval_gate",
            "generate_report", "notify_completion" >>
    ELSE << "initialize", "fetch_repository", "run_static_analysis",
            "generate_findings", "calculate_risk_score",
            "check_approval_gate", "generate_report", "notify_completion" >>

LastStep(t) == IF t = "incremental" THEN 9 ELSE 8
GateStep(t) == IF t = "incremental" THEN 7 ELSE 6
StepNames ==
  {"initialize", "load_previous_findings", "fetch_repository",
   "run_static_analysis", "generate_findings", "calculate_risk_score",
   "check_approval_gate", "generate_report", "notify_completion"}

\* Mutant: the percentage of the next step.
PctDoneOffByOne(i, t) == ((i + 1) * 100) \div LastStep(t)

PctDone(i, t) == (i * 100) \div LastStep(t)
PctFail(i, t) == ((i - 1) * 100) \div LastStep(t)

Statuses == {"none", "pending", "running", "paused",
             "completed", "failed", "cancelled"}
Terminal == {"completed", "failed", "cancelled"}
Clamp(s) == IF s > MaxScore THEN MaxScore ELSE s
IsApprovalRequired(s) == s >= HighThreshold

(***************************************************************************)
(* Activities.  Those with the default options have a heartbeat timeout    *)
(* and a ScheduleToClose limit; the two bookkeeping ones, called through   *)
(* updateStep and markFailed, have neither and are retried until they      *)
(* succeed.                                                                *)
(***************************************************************************)
Bookkeeping == {"UpdateAuditStep", "MarkAuditFailed"}
GateActs    == {"create_approval_request", "cancel_audit", "complete_audit"}
Acts        == StepNames \cup Bookkeeping \cup GateActs
External    == {"fetch_repository", "run_static_analysis",
                "generate_report", "notify_completion"}
Inserting   == {"load_previous_findings", "generate_findings"}

Idle    == [act |-> "none", at |-> "begin", seen |-> 0]
Attempt == [act  : Acts \cup {"none"},
            at   : {"begin", "counted", "scored", "ended"},
            seen : Nat]

Phases == {"none", "step", "record", "ask", "pause", "wait", "cancel",
           "resume", "complete", "fail", "succeeded", "errored"}
Closed == phase \in {"succeeded", "errored"}

\* The activity the workflow is blocked on, "none" if it is not on one.
Scheduled ==
  CASE phase = "step"                           -> Plan(auditType)[step]
    [] phase \in {"record", "pause", "resume"}  -> "UpdateAuditStep"
    [] phase = "fail"                           -> "MarkAuditFailed"
    [] phase = "ask"                            -> "create_approval_request"
    [] phase = "cancel"                         -> "cancel_audit"
    [] phase = "complete"                       -> "complete_audit"
    [] OTHER                                    -> "none"

DefaultOptions(act) == act \notin Bookkeeping

Room == Cardinality({a \in Approvers : desk[a].pc # "idle"})
        + Cardinality({u \in Operators : click[u] # "idle"})
        + Cardinality({s \in Slots : attempt[s] # Idle /\ live # s}) < MaxBusy

Decisions == {"approved", "rejected"}

Job == [status : Statuses, step : StepNames \cup {""},
        progress : 0..100, score : Nat]

RowTypes ==
  /\ auditType \in AuditTypes
  /\ job \in Job
  /\ tableScore \in Nat
  /\ req \in [Requests -> {"none", "pending"} \cup Decisions]
  /\ recorded \subseteq (Requests \X Decisions)
  /\ late \subseteq {"finding", "score"}

WorkflowTypes ==
  /\ trigger \in {"idle", "starting", "started", "lost"}
  /\ phase \in Phases
  /\ step \in 1..LastStep(auditType)
  /\ gate \in {"unchecked", "clear", "required"}
  /\ live \in Slots \cup {NoSlot}
  /\ attempt \in [Slots -> Attempt]
  /\ tries \in 0..MaxTries
  /\ signals \in Seq(BOOLEAN)

Desk == [pc : {"idle", "decide", "readJob", "writeJob", "signal"},
         r  : Requests \cup {"none"},
         d  : Decisions \cup {"none"}]

HandlerTypes ==
  /\ desk \in [Approvers -> Desk]
  /\ \A a \in Approvers :
       desk[a].pc # "idle" => desk[a].r \in Requests /\ desk[a].d \in Decisions
  /\ click \in [Operators -> {"idle", "pausing", "resuming"}]

TypeOK == RowTypes /\ WorkflowTypes /\ HandlerTypes

IdleDesk == [pc |-> "idle", r |-> "none", d |-> "none"]

Init ==
  /\ auditType \in AuditTypes
  /\ job = [status |-> "none", step |-> "", progress |-> 0, score |-> 0]
  /\ tableScore = 0
  /\ req = [r \in Requests |-> "none"]
  /\ trigger = "idle"
  /\ phase = "none" /\ step = 1 /\ gate = "unchecked"
  /\ live = NoSlot /\ attempt = [s \in Slots |-> Idle] /\ tries = 0
  /\ signals = << >>
  /\ desk = [a \in Approvers |-> IdleDesk]
  /\ click = [u \in Operators |-> "idle"]
  /\ recorded = {} /\ late = {}

-----------------------------------------------------------------------------
(***************************************************************************)
(* TriggerAudit inserts the row and answers the caller; a goroutine starts *)
(* the workflow.  Its errors are dropped, and nothing here ever reads the  *)
(* workflow id it stores at last (signals go to the audit's own id): that  *)
(* column is left out.                                                     *)
(***************************************************************************)
TriggerAudit ==
  /\ trigger = "idle"
  /\ job' = [job EXCEPT !.status = "pending"]
  /\ trigger' = "starting"
  /\ UNCHANGED <<auditType, tableScore, req, workflowVars, signals, desk,
                 click, recorded, late>>

\* ExecuteWorkflow may start the workflow and still report an error.
StartAuditWorkflow ==
  /\ trigger = "starting"
  /\ trigger' = "started"
  /\ phase' = "step"
  /\ UNCHANGED <<auditType, job, tableScore, req, step, gate, live, attempt,
                 tries, signals, desk, click, recorded, late>>

\* It starts none, or the process dies before.
GoroutineFails ==
  /\ trigger = "starting"
  /\ trigger' = "lost"
  /\ UNCHANGED <<auditType, job, tableScore, req, workflowVars, signals,
                 desk, click, recorded, late>>

-----------------------------------------------------------------------------
(***************************************************************************)
(* Attempts.  Temporal hands the scheduled activity to a worker, and takes *)
(* the attempt for lost when its worker died, when it returned an error,   *)
(* or when a deadline passed.  In the last case the attempt may run on: it *)
(* stays in its slot with nobody waiting for it.  The bookkeeping writes   *)
(* cannot outlive their deadline, which is also their context's.           *)
(***************************************************************************)
StartAttempt(s) ==
  /\ Scheduled # "none" /\ live = NoSlot /\ attempt[s] = Idle
  /\ live' = s
  /\ attempt' = [attempt EXCEPT ![s] = [Idle EXCEPT !.act = Scheduled]]
  /\ UNCHANGED <<auditType, job, tableScore, req, trigger, phase, step, gate,
                 tries, signals, desk, click, recorded, late>>

\* Mutant: a lost attempt is not scheduled again.
LoseWithoutRetry(s) ==
  /\ live = s /\ tries < MaxTries
  /\ tries' = tries + 1
  /\ attempt' = [attempt EXCEPT ![s] = Idle]
  /\ UNCHANGED <<auditType, job, tableScore, req, trigger, phase, step, gate,
                 live, signals, desk, click, recorded, late>>

LoseAttempt(s) ==
  /\ live = s /\ tries < MaxTries
  /\ tries' = tries + 1
  /\ live' = NoSlot
  /\ \/ attempt' = [attempt EXCEPT ![s] = Idle]
     \/ Room /\ DefaultOptions(attempt[s].act) /\ UNCHANGED attempt
  /\ UNCHANGED <<auditType, job, tableScore, req, trigger, phase, step, gate,
                 signals, desk, click, recorded, late>>

\* A timed-out attempt returns, or its context's deadline stops it.
AbandonedAttemptStops(s) ==
  /\ live # s /\ attempt[s] # Idle
  /\ attempt' = [attempt EXCEPT ![s] = Idle]
  /\ UNCHANGED <<auditType, job, tableScore, req, trigger, phase, step, gate,
                 live, tries, signals, desk, click, recorded, late>>

\* The attempt in s is at point p of one of the activities in acts, and
\* goes on to point q.
Runs(s, acts, p, q) ==
  /\ attempt[s].act \in acts /\ attempt[s].at = p
  /\ attempt' = [attempt EXCEPT ![s].at = q]
  /\ UNCHANGED <<auditType, trigger, phase, step, gate, live, tries, signals,
                 desk, click, recorded>>

\* The start time it sets as well is not modelled.
InitializeAudit(s) ==
  /\ Runs(s, {"initialize"}, "begin", "ended")
  /\ job' = [job EXCEPT !.status = "running"]
  /\ UNCHANGED <<tableScore, req, late>>

\* LoadPreviousFindings and GenerateFindings: one transaction per finding.
CreateFinding(s) ==
  /\ Runs(s, Inserting, "begin", "begin")
  /\ \E w \in Weights : tableScore' = Clamp(tableScore + w)
  /\ late' = late \cup IF step >= GateStep(auditType) - 1 THEN {"finding"} ELSE {}
  /\ UNCHANGED <<job, req>>

\* All findings written, or an activity that touches none of this state.
ReturnFromActivity(s) ==
  /\ Runs(s, Inserting \cup External, "begin", "ended")
  /\ UNCHANGED <<job, tableScore, req, late>>

\* CalculateRiskScore and UpdateAuditCompletion read the counts in one
\* transaction and write the score in another.
CountFindingsBySeverity(s) ==
  /\ attempt[s].act \in {"calculate_risk_score", "complete_audit"}
  /\ attempt[s].at = "begin"
  /\ attempt' = [attempt EXCEPT ![s].at = "counted", ![s].seen = tableScore]
  /\ UNCHANGED <<auditType, job, tableScore, req, trigger, phase, step, gate,
                 live, tries, signals, desk, click, recorded, late>>

\* Mutant: the percentage is stored, the score is not.
CalculateNoScore(s) ==
  /\ Runs(s, {"calculate_risk_score"}, "counted", "ended")
  /\ job' = [job EXCEPT !.progress = 50]
  /\ late' = late \cup IF live = s THEN {} ELSE {"score"}
  /\ UNCHANGED <<tableScore, req>>

CalculateRiskScore(s) ==
  /\ Runs(s, {"calculate_risk_score"}, "counted", "ended")
  /\ job' = [job EXCEPT !.progress = 50, !.score = attempt[s].seen]
  /\ late' = late \cup IF live = s THEN {} ELSE {"score"}
  /\ UNCHANGED <<tableScore, req>>

CompleteScore(s) ==
  /\ Runs(s, {"complete_audit"}, "counted", "scored")
  /\ job' = [job EXCEPT !.progress = 100, !.score = attempt[s].seen]
  /\ UNCHANGED <<tableScore, req, late>>

CompleteStatus(s) ==
  /\ Runs(s, {"complete_audit"}, "scored", "ended")
  /\ job' = [job EXCEPT !.status = "completed"]
  /\ UNCHANGED <<tableScore, req, late>>

CheckApprovalGate(s) ==
  /\ attempt[s].act = "check_approval_gate" /\ attempt[s].at = "begin"
  /\ attempt' = [attempt EXCEPT ![s].at = "ended", ![s].seen = job.score]
  /\ UNCHANGED <<auditType, job, tableScore, req, trigger, phase, step, gate,
                 live, tries, signals, desk, click, recorded, late>>

\* Every attempt draws a fresh id: a retry inserts a second request.
CreateApprovalRequest(s) ==
  /\ Runs(s, {"create_approval_request"}, "begin", "ended")
  /\ \E r \in Requests : req[r] = "none" /\ req' = [req EXCEPT ![r] = "pending"]
  /\ UNCHANGED <<job, tableScore, late>>

CancelAudit(s) ==
  /\ Runs(s, {"cancel_audit"}, "begin", "ended")
  /\ job' = [job EXCEPT !.status = "cancelled"]
  /\ UNCHANGED <<tableScore, req, late>>

UpdateAuditStep(s) ==
  /\ Runs(s, {"UpdateAuditStep"}, "begin", "ended")
  /\ job' = [job EXCEPT !.status = IF phase = "pause" THEN "paused" ELSE "running",
                        !.step = Plan(auditType)[step],
                        !.progress = PctDone(step, auditType)]
  /\ UNCHANGED <<tableScore, req, late>>

\* Mutants: a failure reported at the percentage of success, and at zero.
MarkAuditFailedAsDone(s) ==
  /\ Runs(s, {"MarkAuditFailed"}, "begin", "ended")
  /\ job' = [job EXCEPT !.status = "failed",
                        !.step = Plan(auditType)[step],
                        !.progress = PctDone(step, auditType)]
  /\ UNCHANGED <<tableScore, req, late>>

MarkAuditFailedAtZero(s) ==
  /\ Runs(s, {"MarkAuditFailed"}, "begin", "ended")
  /\ job' = [job EXCEPT !.status = "failed",
                        !.step = Plan(auditType)[step], !.progress = 0]
  /\ UNCHANGED <<tableScore, req, late>>

\* The last step cannot fail by itself: there markFailed follows CompleteAudit.
MarkAuditFailed(s) ==
  /\ Runs(s, {"MarkAuditFailed"}, "begin", "ended")
  /\ job' = [job EXCEPT !.status = "failed",
                        !.step = Plan(auditType)[step],
                        !.progress = IF step = LastStep(auditType)
                                       THEN 100 ELSE PctFail(step, auditType)]
  /\ UNCHANGED <<tableScore, req, late>>

Perform(s) ==
  \/ InitializeAudit(s)         \/ CreateFinding(s)
  \/ ReturnFromActivity(s)      \/ CountFindingsBySeverity(s)
  \/ CalculateRiskScore(s)      \/ CompleteScore(s)
  \/ CompleteStatus(s)          \/ CheckApprovalGate(s)
  \/ CreateApprovalRequest(s)   \/ CancelAudit(s)
  \/ UpdateAuditStep(s)         \/ MarkAuditFailed(s)

-----------------------------------------------------------------------------
(***************************************************************************)
(* The workflow function, from one blocking call to the next.              *)
(***************************************************************************)
Goto(p)  == phase' = p /\ UNCHANGED <<step, gate>>
NextStep == phase' = "step" /\ step' = step + 1 /\ UNCHANGED gate

\* The awaited attempt's result reaches the workflow.
Result(s) ==
  /\ live = s /\ attempt[s].at = "ended"
  /\ attempt' = [attempt EXCEPT ![s] = Idle]
  /\ live' = NoSlot /\ tries' = 0
  /\ UNCHANGED <<auditType, job, tableScore, req, trigger, signals, desk,
                 click, recorded, late>>

StepReturns(s) ==
  /\ phase = "step" /\ Scheduled # "check_approval_gate"
  /\ Result(s) /\ Goto("record")

GateReturns(s) ==
  /\ phase = "step" /\ Scheduled = "check_approval_gate"
  /\ Result(s)
  /\ IF IsApprovalRequired(attempt[s].seen)
       THEN gate' = "required" /\ phase' = "ask"
       ELSE gate' = "clear" /\ phase' = "record"
  /\ UNCHANGED step

RecordReturns(s) ==
  /\ phase = "record"
  /\ Result(s)
  /\ IF step = LastStep(auditType) THEN Goto("complete") ELSE NextStep

\* Mutants: the workflow does not wait for a signal; it goes on after
\* markFailed, without the early return.
PauseWithoutWait(s) == phase = "pause" /\ Result(s) /\ Goto("resume")
FailRunsOn(s)       == phase = "fail"  /\ Result(s) /\ Goto("record")

AskReturns(s)      == phase = "ask"      /\ Result(s) /\ Goto("pause")
PauseReturns(s)    == phase = "pause"    /\ Result(s) /\ Goto("wait")
CancelReturns(s)   == phase = "cancel"   /\ Result(s) /\ Goto("errored")
ResumeReturns(s)   == phase = "resume"   /\ Result(s) /\ NextStep
CompleteReturns(s) == phase = "complete" /\ Result(s) /\ Goto("succeeded")
FailReturns(s)     == phase = "fail"     /\ Result(s) /\ Goto("errored")

WorkflowContinues(s) ==
  \/ StepReturns(s)   \/ GateReturns(s)   \/ RecordReturns(s)
  \/ AskReturns(s)    \/ PauseReturns(s)  \/ CancelReturns(s)
  \/ ResumeReturns(s) \/ CompleteReturns(s) \/ FailReturns(s)

\* Mutants: any signal approves; a rejection is not acted on.
ReceiveAnySignal ==
  /\ phase = "wait" /\ signals # << >>
  /\ signals' = Tail(signals)
  /\ Goto("resume")
  /\ UNCHANGED <<auditType, job, tableScore, req, trigger, live, attempt,
                 tries, desk, click, recorded, late>>

ReceiveApprovalOnly ==
  /\ phase = "wait" /\ signals # << >>
  /\ signals' = Tail(signals)
  /\ Goto(IF Head(signals) THEN "resume" ELSE "wait")
  /\ UNCHANGED <<auditType, job, tableScore, req, trigger, live, attempt,
                 tries, desk, click, recorded, late>>

\* signalChan.Receive: one signal decides, later ones stay in the channel.
ReceiveSignal ==
  /\ phase = "wait" /\ signals # << >>
  /\ signals' = Tail(signals)
  /\ Goto(IF Head(signals) THEN "resume" ELSE "cancel")
  /\ UNCHANGED <<auditType, job, tableScore, req, trigger, live, attempt,
                 tries, desk, click, recorded, late>>

\* ScheduleToCloseTimeout: the activity's error reaches the workflow.
GiveUp ==
  /\ live = NoSlot /\ Scheduled # "none" /\ DefaultOptions(Scheduled)
  /\ tries' = 0
  /\ \/ phase = "step" /\ step # LastStep(auditType) /\ Goto("fail")
     \/ phase = "step" /\ step = LastStep(auditType) /\ Goto("record")
     \/ phase = "ask"      /\ Goto("pause")
     \/ phase = "cancel"   /\ Goto("errored")
     \/ phase = "complete" /\ Goto("fail")
  /\ UNCHANGED <<auditType, job, tableScore, req, trigger, live, attempt,
                 signals, desk, click, recorded, late>>

-----------------------------------------------------------------------------
(***************************************************************************)
(* DecideApproval: read the request, record the decision, for an approval  *)
(* run ResumeAudit (a read and a write), then signal the workflow.         *)
(***************************************************************************)
deskOthers == <<auditType, tableScore, trigger, workflowVars, click, late>>

GoDesk(a, pc) == desk' = [desk EXCEPT ![a].pc = pc]
LeaveDesk(a)  == desk' = [desk EXCEPT ![a] = IdleDesk]

\* A request that is not pending is refused: "already decided".
BeginDecide(a) ==
  /\ Room /\ desk[a].pc = "idle"
  /\ \E r \in Requests, d \in Decisions :
       /\ req[r] = "pending"
       /\ desk' = [desk EXCEPT ![a] = [pc |-> "decide", r |-> r, d |-> d]]
  /\ UNCHANGED <<deskOthers, job, req, signals, recorded>>

UpdateApprovalStatus(a) ==
  /\ desk[a].pc = "decide"
  /\ req' = [req EXCEPT ![desk[a].r] = desk[a].d]
  /\ recorded' = recorded \cup {<<desk[a].r, desk[a].d>>}
  /\ GoDesk(a, IF desk[a].d = "approved" THEN "readJob" ELSE "signal")
  /\ UNCHANGED <<deskOthers, job, signals>>

\* ResumeAudit fails unless the audit is paused, and the handler with it.
DecideReadsAudit(a) ==
  /\ desk[a].pc = "readJob"
  /\ IF job.status = "paused" THEN GoDesk(a, "writeJob") ELSE LeaveDesk(a)
  /\ UNCHANGED <<deskOthers, job, req, signals, recorded>>

DecideResumesAudit(a) ==
  /\ desk[a].pc = "writeJob"
  /\ job' = [job EXCEPT !.status = "running"]
  /\ GoDesk(a, "signal")
  /\ UNCHANGED <<deskOthers, req, signals, recorded>>

\* Mutant: only approvals are signalled.
SignalApprovalsOnly(a) ==
  /\ desk[a].pc = "signal"
  /\ signals' = IF Closed \/ desk[a].d = "rejected" THEN signals ELSE Append(signals, TRUE)
  /\ LeaveDesk(a)
  /\ UNCHANGED <<deskOthers, job, req, recorded>>

\* Temporal refuses a signal to a closed workflow.
SignalWorkflow(a) ==
  /\ desk[a].pc = "signal"
  /\ signals' = IF Closed THEN signals ELSE Append(signals, desk[a].d = "approved")
  /\ LeaveDesk(a)
  /\ UNCHANGED <<deskOthers, job, req, recorded>>

\* The service restarts, the caller hangs up, or the call to Temporal fails.
DecideDies(a) ==
  /\ HandlersCrash /\ desk[a].pc # "idle"
  /\ LeaveDesk(a)
  /\ UNCHANGED <<deskOthers, job, req, signals, recorded>>

DecideApproval(a) ==
  \/ UpdateApprovalStatus(a) \/ DecideReadsAudit(a)
  \/ DecideResumesAudit(a)   \/ SignalWorkflow(a)

(***************************************************************************)
(* PauseAudit and ResumeAudit: a status read, then an unconditional write  *)
(* in another transaction.  The workflow is not told.                      *)
(***************************************************************************)
clickOthers == <<auditType, tableScore, req, trigger, workflowVars, signals,
                 desk, recorded, late>>

BeginClick(u) ==
  /\ Room /\ click[u] = "idle"
  /\ \/ job.status = "running" /\ click' = [click EXCEPT ![u] = "pausing"]
     \/ job.status = "paused"  /\ click' = [click EXCEPT ![u] = "resuming"]
  /\ UNCHANGED <<clickOthers, job>>

PauseAudit(u) ==
  /\ click[u] = "pausing"
  /\ job' = [job EXCEPT !.status = "paused"]
  /\ click' = [click EXCEPT ![u] = "idle"]
  /\ UNCHANGED clickOthers

ResumeAudit(u) ==
  /\ click[u] = "resuming"
  /\ job' = [job EXCEPT !.status = "running"]
  /\ click' = [click EXCEPT ![u] = "idle"]
  /\ UNCHANGED clickOthers

-----------------------------------------------------------------------------
\* The workflow ended, never started, or waits for a person.
Rest ==
  /\ Closed \/ phase = "wait" \/ (phase = "none" /\ trigger = "lost")
  /\ UNCHANGED vars

Next ==
  \/ TriggerAudit \/ StartAuditWorkflow \/ GoroutineFails
  \/ \E s \in Slots :
       \/ StartAttempt(s) \/ LoseAttempt(s) \/ AbandonedAttemptStops(s)
       \/ Perform(s) \/ WorkflowContinues(s)
  \/ ReceiveSignal \/ GiveUp
  \/ \E a \in Approvers : BeginDecide(a) \/ DecideApproval(a) \/ DecideDies(a)
  \/ \E u \in Operators : BeginClick(u) \/ PauseAudit(u) \/ ResumeAudit(u)
  \/ Rest

Spec == Init /\ [][Next]_vars

(***************************************************************************)
(* Temporal retries, workers poll, an abandoned attempt ends with its      *)
(* context's deadline, and a handler that does not die runs to its end.    *)
(* Nothing makes a person decide, pause or resume, or an attempt get lost. *)
(***************************************************************************)
FairSpec ==
  /\ Spec
  /\ WF_vars(\E s \in Slots : StartAttempt(s))
  /\ \A s \in Slots : /\ WF_vars(Perform(s))
                      /\ WF_vars(WorkflowContinues(s))
                      /\ WF_vars(AbandonedAttemptStops(s))
  /\ WF_vars(ReceiveSignal)
  /\ \A a \in Approvers : WF_vars(DecideApproval(a))

-----------------------------------------------------------------------------
\* The workflow has left check_approval_gate behind it.
PastGate ==
  /\ phase # "none"
  /\ \/ step > GateStep(auditType)
     \/ step = GateStep(auditType) /\ phase \in {"record", "resume"}

Approved == \E r \in Requests : <<r, "approved">> \in recorded

(***************************************************************************)
(* The workflow goes past check_approval_gate only when the score it read  *)
(* did not call for approval, or somebody recorded an approval before,     *)
(* whatever attempts were lost, repeated or left running and however       *)
(* decisions, pauses and resumes interleave (workflow.go, Execute).        *)
(***************************************************************************)
GateHonoured == PastGate => gate = "clear" \/ Approved

(***************************************************************************)
(* "Currently requires approval for High or Critical severity"             *)
(* (calculator.go, IsApprovalRequired): a completed audit whose stored     *)
(* score is that high was approved.  Late findings break it.               *)
(***************************************************************************)
NoUnapprovedHighRisk ==
  job.status = "completed" /\ IsApprovalRequired(job.score) => Approved

(***************************************************************************)
(* In one way only does an audit complete with a score that calls for      *)
(* approval and nobody approved: it passed the gate with a low score, and  *)
(* an attempt that had timed out inserted a finding when the workflow had  *)
(* come to the score (CompleteAudit counts the findings again).  No other  *)
(* order of attempts, retries and decisions does it.                       *)
(***************************************************************************)
UnapprovedOnlyLate ==
  job.status = "completed" /\ IsApprovalRequired(job.score) =>
    Approved \/ (gate = "clear" /\ "finding" \in late)

(***************************************************************************)
(* The failure a client reads names the step the workflow died on, with    *)
(* the percentage of the steps before it (workflow.go, markFailed); only   *)
(* the 50 of a CalculateRiskScore that had timed out can replace it.       *)
(***************************************************************************)
FailureNamesStep ==
  phase = "errored" /\ job.status = "failed" =>
    /\ job.step = Plan(auditType)[step]
    /\ \/ job.progress = IF step = LastStep(auditType)
                           THEN 100 ELSE PctFail(step, auditType)
       \/ job.progress = 50 /\ "score" \in late

(***************************************************************************)
(* The percentage streamed to a client drops in one case only: the 50      *)
(* that CalculateRiskScore stores after a later percentage is on the row.  *)
(***************************************************************************)
ProgressDropsOnlyAtScore ==
  [][job'.progress >= job.progress \/ \E s \in Slots : CalculateRiskScore(s)]_job

(***************************************************************************)
(* What the workflow writes never takes an audit out of a terminal status, *)
(* but for a completion whose result got lost and was given up: it then    *)
(* reads failed.  Only an attempt nobody waits for any more, or a handler  *)
(* that read the status earlier, can do worse.                             *)
(***************************************************************************)
WorkflowKeepsTerminal ==
  [][job.status \in Terminal /\ job'.status # job.status =>
       \/ job.status = "completed" /\ job'.status = "failed"
       \/ \E s \in Slots : live # s /\ Perform(s)
       \/ \E a \in Approvers : DecideResumesAudit(a)
       \/ \E u \in Operators : PauseAudit(u) \/ ResumeAudit(u)]_vars

(***************************************************************************)
(* What a client reads of an audit's status, failure and progress is what  *)
(* happened: the three parts above (workflow.go, updateStep and            *)
(* markFailed; activities.go, CalculateRiskScore).                         *)
(***************************************************************************)
RowTellsTheTruth ==
  []FailureNamesStep /\ ProgressDropsOnlyAtScore /\ WorkflowKeepsTerminal

(***************************************************************************)
(* A started workflow does not hang in an activity: it reaches its end or  *)
(* the approval gate's Receive.                                            *)
(***************************************************************************)
WorkflowMoves == phase = "step" ~> Closed \/ phase = "wait"

(***************************************************************************)
(* A workflow that was signalled while it waited, or before, ends.         *)
(***************************************************************************)
SignalEndsAudit == signals # << >> ~> Closed

(***************************************************************************)
(* A rejection that is on record ends the audit's workflow                 *)
(* (server.go, DecideApproval: the decision, then the signal).             *)
(***************************************************************************)
RejectionEndsAudit == \A r \in Requests : req[r] = "rejected" ~> Closed

(***************************************************************************)
(* A started audit does not hang: it comes to the gate or to its end, and  *)
(* ends once a signal or a rejection has reached it.                       *)
(***************************************************************************)
AuditEnds == WorkflowMoves /\ SignalEndsAudit /\ RejectionEndsAudit

(***************************************************************************)
(* "DecideApproval updates the approval status and resumes the audit if    *)
(* approved" (auditlogic.go): after a recorded approval the workflow ends. *)
(***************************************************************************)
ApprovalResumesAudit == \A r \in Requests : req[r] = "approved" ~> Closed

(***************************************************************************)
(* The gate as its abstract specification sees it.  A refused workflow is  *)
(* the one that ends at the gate's step with approval required.            *)
(***************************************************************************)
GateStage ==
  CASE phase = "succeeded" -> "done"
    [] phase \in {"fail", "errored", "cancel"} ->
         IF gate = "required" /\ step = GateStep(auditType)
           THEN "refused" ELSE "aborted"
    [] phase \in {"ask", "pause", "wait"} -> "held"
    [] OTHER -> CASE gate = "unchecked" -> "assessing"
                  [] gate = "clear"     -> "cleared"
                  [] OTHER              -> "granted"

Gate == INSTANCE ApprovalGate WITH stage <- GateStage, decided <- recorded

(***************************************************************************)
(* Every step of the audit is a step of ApprovalGate or leaves the gate as *)
(* it is: no retry, race or crash lets a held audit move undecided.        *)
(***************************************************************************)
ImplementsApprovalGate == Gate!Spec

(***************************************************************************)
(* Why the gate holds, part by part (each is proved inductive together     *)
(* with TypeOK).  First, the workflow's position determines its verdict:   *)
(* nothing is decided before check_approval_gate, everything after it.     *)
(***************************************************************************)
AtGate == {"ask", "pause", "wait", "cancel", "resume"}

GateShape ==
  /\ trigger \in {"idle", "starting"} => phase = "none"
  /\ phase = "none" => step = 1
  /\ phase \in {"complete", "succeeded"} => step = LastStep(auditType)
  /\ phase \in AtGate => step = GateStep(auditType) /\ gate = "required"
  /\ step < GateStep(auditType) => gate = "unchecked"
  /\ step > GateStep(auditType) => gate # "unchecked"
  /\ step = GateStep(auditType) =>
       /\ phase \in {"step", "fail"} => gate = "unchecked"
       /\ phase = "record" => gate = "clear"

Rejected == \E r \in Requests : <<r, "rejected">> \in recorded

\* A signal in the channel, or about to be sent, follows a recorded decision.
SignalsDecided ==
  \A i \in 1..Len(signals) : IF signals[i] THEN Approved ELSE Rejected

DesksDecided ==
  \A a \in Approvers :
    /\ desk[a].pc \in {"readJob", "writeJob", "signal"} =>
         <<desk[a].r, desk[a].d>> \in recorded
    /\ desk[a].pc \in {"readJob", "writeJob"} => desk[a].d = "approved"

\* A request exists, is about to, or is being decided only for a held audit.
OnlyHeldIsDecided ==
  \/ gate = "required"
  \/ /\ \A r \in Requests : req[r] = "none"
     /\ \A s \in Slots : attempt[s].act # "create_approval_request"
     /\ \A a \in Approvers : desk[a].pc = "idle"

(***************************************************************************)
(* The gate's argument: a verdict for every position, a recorded decision  *)
(* behind every signal, and GateHonoured itself (workflow.go, Execute;     *)
(* auditlogic.go and server.go, DecideApproval).                           *)
(***************************************************************************)
GateInv ==
  /\ GateShape
  /\ SignalsDecided
  /\ DesksDecided
  /\ OnlyHeldIsDecided
  /\ phase = "cancel" => Rejected
  /\ GateHonoured
=============================================================================
