---------------------------- MODULE StatusStream ----------------------------
(***************************************************************************)
(* GetAuditStatus of audit-service (internal/grpcserver/server.go): a      *)
(* stream that reads the audit's row every second and sends what changed,  *)
(* until the audit has ended.  The row moves as the workflow and the       *)
(* operators write it (AuditWorkflow); here any sequence of rows is        *)
(* allowed.                                                                *)
(***************************************************************************)
EXTENDS Integers

CONSTANTS
  AuditStates,  \* the values of audit_jobs.status
  Ended,        \* the terminal ones
  Percents,     \* values of progress_percentage
  MaxMoves      \* bound: changes of the row

ASSUME StreamAssumption == 100 \in Percents /\ MaxMoves \in Nat

VARIABLES
  audit,   \* the row: state, step and percentage
  moves,   \* number of its changes
  stream,  \* where the handler stands
  last,    \* lastState, lastStep, lastProgress
  shown,   \* the last event of the client
  lastRead \* history: the row as the handler last read it

streamVars == <<audit, moves, stream, last, shown, lastRead>>

AuditRow == [state : AuditStates, step : 0..MaxMoves, percent : Percents]

StreamInit ==
  /\ audit \in [state : AuditStates, step : {0}, percent : Percents]
  /\ moves = 0 /\ stream = "called"
  /\ last = audit /\ shown = audit /\ lastRead = audit

StreamTypeOK ==
  /\ {audit, last, shown, lastRead} \subseteq AuditRow
  /\ moves \in 0..MaxMoves
  /\ stream \in {"called", "polling", "done", "unheard", "failed", "left"}

\* A write of the workflow or of an operator; a new step has a new number.
RowMoves ==
  /\ moves < MaxMoves /\ moves' = moves + 1
  /\ audit' \in [state : AuditStates, step : {audit.step, moves + 1}, percent : Percents]
  /\ UNCHANGED <<stream, last, shown, lastRead>>

\* An audit that has ended is reported as complete, whatever its percentage;
\* the call returns without an error also if that could not be sent.
OpenStream ==
  /\ stream = "called"
  /\ lastRead' = audit /\ last' = audit
  /\ \/ audit.state \in Ended /\ stream' = "done" /\ shown' = [audit EXCEPT !.percent = 100]
     \/ audit.state \in Ended /\ stream' = "unheard" /\ UNCHANGED shown
     \/ audit.state \notin Ended /\ stream' = "polling" /\ shown' = audit
  /\ UNCHANGED <<audit, moves>>

\* Mutant: only the percentage counts as a change.
PercentDiffers(row) == row.percent # last.percent

Differs(row) ==
  row.percent # last.percent \/ row.state # last.state \/ row.step # last.step

\* What differs is sent, and is what the next row is compared with.
Sends ==
  \/ Differs(audit) /\ shown' = audit /\ last' = audit
  \/ ~Differs(audit) /\ UNCHANGED <<shown, last>>

\* Mutant: the stream waits until the audit is complete.
PollUntilComplete ==
  /\ stream = "polling"
  /\ lastRead' = audit
  /\ Sends
  /\ stream' = IF audit.state = "completed" THEN "done" ELSE "polling"
  /\ UNCHANGED <<audit, moves>>

\* Mutant: the end of the audit is tested before its event is sent.
PollEndsFirst ==
  /\ stream = "polling"
  /\ lastRead' = audit
  /\ IF audit.state \in Ended
       THEN stream' = "done" /\ UNCHANGED <<shown, last>>
       ELSE Sends /\ UNCHANGED stream
  /\ UNCHANGED <<audit, moves>>

\* A tick.
Poll ==
  /\ stream = "polling"
  /\ lastRead' = audit
  /\ Sends
  /\ stream' = IF audit.state \in Ended THEN "done" ELSE "polling"
  /\ UNCHANGED <<audit, moves>>

\* A read that fails or finds no row, and a send that fails, end the call.
StreamFails ==
  /\ stream \in {"called", "polling"}
  /\ stream' = "failed"
  /\ UNCHANGED <<audit, moves, last, shown, lastRead>>

ClientLeaves ==
  /\ stream \in {"called", "polling"}
  /\ stream' = "left"
  /\ UNCHANGED <<audit, moves, last, shown, lastRead>>

StreamNext == RowMoves \/ OpenStream \/ Poll \/ StreamFails \/ ClientLeaves

\* A stream on its own.
StreamSpec == StreamInit /\ [][StreamNext]_streamVars

-----------------------------------------------------------------------------
\* The client knows what the handler last read: no change of state, step or
\* percentage is swallowed.  Only an audit that had ended before the stream
\* was opened is shown at 100 percent, whatever its row says.
ShownIsRead ==
  /\ stream = "polling" => shown = lastRead
  /\ stream = "done" => shown \in {lastRead, [lastRead EXCEPT !.percent = 100]}

\* A stream that is closed without an error has told how the audit ended, if
\* its only event could be sent.
ClosedAfterEnd == stream = "done" => shown.state \in Ended

\* The handler polls as long as the stream is open: a stream over an audit
\* that has ended closes, unless the audit moves on.
EndClosesStream ==
  stream = "polling" /\ audit.state \in Ended ~>
    stream # "polling" \/ audit.state \notin Ended

\* A stream tells every change and the end, and then closes.
StreamTellsTheEnd == [](ShownIsRead /\ ClosedAfterEnd) /\ EndClosesStream
=============================================================================
