---------------------------- MODULE AuditFindings ----------------------------
(***************************************************************************)
(* The findings of the audits of one repository: what LoadPreviousFindings *)
(* carries over from the previous audit, what GenerateFindings adds from   *)
(* repo-service's analysis, what CalculateRiskScore and CompleteAudit      *)
(* count (audit-service/temporal/activities.go, repo/sqlrepo.go,           *)
(* internal/logic/auditlogic.go), and the link TriggerAudit sets to the    *)
(* previous audit.                                                         *)
(*                                                                         *)
(* AuditWorkflow has the other activities and the approval gate; here a    *)
(* finding has an identity.  Each finding is read and inserted in          *)
(* transactions of its own and gets a fresh id, so an attempt that is lost *)
(* half way leaves rows that its retry does not know of, and an attempt    *)
(* that missed its heartbeat goes on inserting next to its retry.          *)
(***************************************************************************)
EXTENDS Integers, Sequences, FiniteSetsExt, Functions

CONSTANTS
  Audits,       \* audits of the repository
  Analyses,     \* results repo-service may return: sets of issues
  KnownTypes,   \* the six canonical issue types
  DefaultType,  \* IssueTypeSecurity, which replaces unknown types
  Severities,   \* the four canonical severities
  DefaultSev,   \* SeverityMedium, which replaces unknown severities
  Weight,       \* severity -> weight in the composite score
  MaxScore,     \* the clamp of CalculateCompositeScore
  Slots,        \* attempts of one audit that can run at the same time
  MaxLost,      \* bound: attempts lost in all
  NoSlot, None

ASSUME FindingsAssumption ==
  /\ DefaultType \in KnownTypes /\ DefaultSev \in Severities
  /\ Weight \in [Severities -> Nat] /\ MaxScore \in Nat /\ MaxLost \in Nat
  /\ NoSlot \notin Slots /\ None \notin Audits
  /\ IsFiniteSet(Audits) /\ IsFiniteSet(UNION Analyses) /\ IsFiniteSet(Severities)

VARIABLES
  row,         \* audit_jobs: status, type, previous audit, counters, score
  created,     \* the audits in the order of created_at
  phase,       \* where the workflow of an audit stands
  table,       \* audit_findings: audit -> finding -> number of rows
  attempt,     \* the activity attempts at work
  live,        \* the slot of the attempt the workflow waits for
  retrying,    \* has the scheduled activity lost an attempt?
  lost,        \* attempts lost so far, all audits together
  reported,    \* history: the analysis that GenerateFindings returned from
  carried,     \* history: findings per location when loading returned
  retried,     \* history: audits that lost an attempt
  overlapped   \* history: audits an attempt of which outlived its deadline

rows  == <<row, created, table>>
work  == <<phase, attempt, live, retrying, lost>>
story == <<reported, carried, retried, overlapped>>
vars  == <<rows, work, story>>

(***************************************************************************)
(* Issues and findings.  A location is a file path and a line; the         *)
(* deduplication looks at location and canonical issue type.               *)
(***************************************************************************)
NormalSeverity(s) == IF s \in Severities THEN s ELSE DefaultSev
NormalType(t)     == IF t \in KnownTypes THEN t ELSE DefaultType

Normal(i) == [loc |-> i.loc, type |-> NormalType(i.type),
              sev |-> NormalSeverity(i.sev)]

Finding    == {Normal(i) : i \in UNION Analyses}
Place(f)   == <<f.loc, f.type>>
Places     == {Place(f) : f \in Finding}
At(bag, p) == SumFunctionOnSet(bag, {f \in Finding : Place(f) = p})
Held(bag)  == {Place(f) : f \in {g \in Finding : bag[g] > 0}}
NoFindings == [f \in Finding |-> 0]

\* The findings an analysis stands for, one for each issue of its list.
FromAnalysis(is) ==
  [f \in Finding |-> Cardinality({i \in is : Normal(i) = f})]

Tally(bag) ==
  [s \in Severities |-> SumFunctionOnSet(bag, {f \in Finding : f.sev = s})]

\* Mutants: counts findings without their weights; does not clamp.
UnweightedScore(tally) ==
  LET sum == SumFunction(tally) IN IF sum > MaxScore THEN MaxScore ELSE sum
UnclampedScore(tally) == SumFunction([s \in Severities |-> tally[s] * Weight[s]])

CalculateCompositeScore(tally) ==
  LET sum == SumFunction([s \in Severities |-> tally[s] * Weight[s]])
  IN  IF sum > MaxScore THEN MaxScore ELSE sum

(***************************************************************************)
(* Types and initial states.                                               *)
(***************************************************************************)
Activities == {"load", "generate", "score", "complete"}
Positions  == {"idle", "begin", "insert", "copying", "scanning", "counted",
               "stored", "ended"}
NoTally    == [s \in Severities |-> 0]
Idle == [act |-> "none", at |-> "idle", todo |-> NoFindings, cur |-> None,
         src |-> {}, seen |-> NoTally]

NoRow == [status |-> "none", type |-> "full", prev |-> None,
          counts |-> NoTally, score |-> 0]

Init ==
  /\ row = [a \in Audits |-> NoRow]
  /\ created = <<>>
  /\ phase = [a \in Audits |-> "none"]
  /\ table = [a \in Audits |-> NoFindings]
  /\ attempt = [a \in Audits |-> [s \in Slots |-> Idle]]
  /\ live = [a \in Audits |-> NoSlot]
  /\ retrying = [a \in Audits |-> FALSE]
  /\ lost = 0
  /\ reported = [a \in Audits |-> {}]
  /\ carried = [a \in Audits |-> NoFindings]
  /\ retried = {}
  /\ overlapped = {}

AuditJob == [status : {"none", "running", "completed", "failed"},
             type : {"full", "incremental"}, prev : Audits \cup {None},
             counts : [Severities -> Nat], score : 0..MaxScore]
Attempt  == [act : Activities \cup {"none"}, at : Positions,
             todo : [Finding -> Nat], cur : Finding \cup {None},
             src : Analyses \cup {{}}, seen : [Severities -> Nat]]

\* One type invariant for the rows, the attempts and the history.
TypeOK ==
  /\ row \in [Audits -> AuditJob]
  /\ created \in Seq(Audits) /\ IsInjective(created)
  /\ phase \in [Audits -> Activities \cup {"none", "linked", "end"}]
  /\ table \in [Audits -> [Finding -> Nat]]
  /\ attempt \in [Audits -> [Slots -> Attempt]]
  /\ live \in [Audits -> Slots \cup {NoSlot}]
  /\ retrying \in [Audits -> BOOLEAN] /\ lost \in 0..MaxLost
  /\ reported \in [Audits -> Analyses \cup {{}}]
  /\ carried \in [Audits -> [Finding -> Nat]]
  /\ retried \subseteq Audits /\ overlapped \subseteq retried

(***************************************************************************)
(* TriggerAudit: the previous audit is looked up in one transaction, the   *)
(* audit is inserted in another.  completed_at is never written, so the    *)
(* order of the lookup is that of created_at.                              *)
(***************************************************************************)
\* Mutant: the previous audit need not be completed.
LatestAudit == IF created = <<>> THEN None ELSE created[Len(created)]

GetPreviousCompletedAudit ==
  LET done == {k \in DOMAIN created : row[created[k]].status = "completed"}
  IN  IF done = {} THEN None ELSE created[Max(done)]

TriggerAudit(a, type) ==
  /\ phase[a] = "none"
  /\ row' = [row EXCEPT ![a].type = type,
                        ![a].prev = IF type = "incremental"
                                      THEN GetPreviousCompletedAudit ELSE None]
  /\ phase' = [phase EXCEPT ![a] = "linked"]
  /\ UNCHANGED <<created, table, attempt, live, retrying, lost, story>>

CreateAudit(a) ==
  /\ phase[a] = "linked"
  /\ row' = [row EXCEPT ![a].status = "running"]
  /\ created' = Append(created, a)
  /\ phase' = [phase EXCEPT ![a] = IF row[a].type = "incremental"
                                     THEN "load" ELSE "generate"]
  /\ UNCHANGED <<table, attempt, live, retrying, lost, story>>

(***************************************************************************)
(* Attempts.  A lost one is gone, or goes on in its slot next to the       *)
(* retry: the activities never heartbeat.                                  *)
(***************************************************************************)
StartAttempt(a, s) ==
  /\ phase[a] \in Activities /\ live[a] = NoSlot /\ attempt[a][s] = Idle
  /\ live' = [live EXCEPT ![a] = s]
  /\ attempt' = [attempt EXCEPT ![a][s].act = phase[a],
                                ![a][s].at = "begin"]
  /\ UNCHANGED <<rows, phase, retrying, lost, story>>

LoseAttempt(a, goesOn) ==
  /\ live[a] # NoSlot /\ lost < MaxLost
  /\ live' = [live EXCEPT ![a] = NoSlot]
  /\ retrying' = [retrying EXCEPT ![a] = TRUE]
  /\ lost' = lost + 1
  /\ attempt' = IF goesOn THEN attempt
                ELSE [attempt EXCEPT ![a][live[a]] = Idle]
  /\ retried' = retried \cup {a}
  /\ overlapped' = IF goesOn THEN overlapped \cup {a} ELSE overlapped
  /\ UNCHANGED <<rows, phase, reported, carried>>

AbandonedAttemptEnds(a, s) ==
  /\ live[a] # s /\ attempt[a][s].at = "ended"
  /\ attempt' = [attempt EXCEPT ![a][s] = Idle]
  /\ UNCHANGED <<rows, phase, live, retrying, lost, story>>

\* The schedule-to-close limit of an activity passes: markFailed.
GiveUp(a) ==
  /\ phase[a] \in Activities /\ live[a] = NoSlot /\ retrying[a]
  /\ row' = [row EXCEPT ![a].status = "failed"]
  /\ phase' = [phase EXCEPT ![a] = "end"]
  /\ UNCHANGED <<created, table, attempt, live, retrying, lost, story>>

(***************************************************************************)
(* The transactions of an attempt.                                         *)
(***************************************************************************)
\* The attempt in slot s is at a position, and moves to its next state.
Doing(a, s, act, at) == attempt[a][s].act = act /\ attempt[a][s].at = at
Becomes(a, s, new) ==
  /\ attempt' = [attempt EXCEPT ![a][s] = new]
  /\ UNCHANGED <<created, phase, live, retrying, lost, story>>

Done(bag, f) == [bag EXCEPT ![f] = @ - 1]

\* LoadPreviousFindings: the audit, and the findings of the previous one.
GetFindingsForAudit(a, s) ==
  /\ Doing(a, s, "load", "begin")
  /\ Becomes(a, s,
       IF row[a].prev = None THEN [attempt[a][s] EXCEPT !.at = "ended"]
       ELSE [attempt[a][s] EXCEPT !.at = "copying",
                                  !.todo = table[row[a].prev]])
  /\ UNCHANGED <<row, table>>

\* One copy, with an id of its own.
CopyFinding(a, s) ==
  /\ Doing(a, s, "load", "copying")
  /\ \E f \in Finding :
       /\ attempt[a][s].todo[f] > 0
       /\ table' = [table EXCEPT ![a][f] = @ + 1]
       /\ Becomes(a, s, [attempt[a][s] EXCEPT !.todo = Done(@, f)])
  /\ UNCHANGED row

\* GenerateFindings: the analysis as repo-service has it now.
GetAnalysisResults(a, s) ==
  /\ Doing(a, s, "generate", "begin")
  /\ \E is \in Analyses :
       Becomes(a, s, [attempt[a][s] EXCEPT !.at = "scanning", !.src = is,
                                           !.todo = FromAnalysis(is)])
  /\ UNCHANGED <<row, table>>

\* Mutants: looks at the previous audit's findings; compares the issue type
\* only.
ExistsBefore(a, f) ==
  row[a].prev # None /\ At(table[row[a].prev], Place(f)) > 0
ExistsByType(a, f) == \E g \in Finding : g.type = f.type /\ table[a][g] > 0

FindingExistsByLocation(a, f) == At(table[a], Place(f)) > 0

\* The next issue: an incremental audit skips it if its place is taken,
\* whatever the severity recorded there.
NextIssue(a, s) ==
  /\ Doing(a, s, "generate", "scanning")
  /\ \E f \in Finding :
       /\ attempt[a][s].todo[f] > 0
       /\ Becomes(a, s,
            IF row[a].type = "incremental" /\ FindingExistsByLocation(a, f)
              THEN [attempt[a][s] EXCEPT !.todo = Done(@, f)]
              ELSE [attempt[a][s] EXCEPT !.todo = Done(@, f),
                                         !.at = "insert", !.cur = f])
  /\ UNCHANGED <<row, table>>

CreateFinding(a, s) ==
  /\ Doing(a, s, "generate", "insert")
  /\ table' = [table EXCEPT ![a][attempt[a][s].cur] = @ + 1]
  /\ Becomes(a, s, [attempt[a][s] EXCEPT !.at = "scanning", !.cur = None])
  /\ UNCHANGED row

\* Mutant: leaves the last finding of the list out.
ListEndsEarly(a, s) ==
  /\ attempt[a][s].at \in {"copying", "scanning"}
  /\ SumFunction(attempt[a][s].todo) <= 1
  /\ Becomes(a, s, [attempt[a][s] EXCEPT !.at = "ended"])
  /\ UNCHANGED <<row, table>>

ListExhausted(a, s) ==
  /\ attempt[a][s].at \in {"copying", "scanning"}
  /\ attempt[a][s].todo = NoFindings
  /\ Becomes(a, s, [attempt[a][s] EXCEPT !.at = "ended"])
  /\ UNCHANGED <<row, table>>

\* CalculateRiskScore and UpdateAuditCompletion count ...
CountFindingsBySeverity(a, s) ==
  /\ attempt[a][s].act \in {"score", "complete"}
  /\ attempt[a][s].at = "begin"
  /\ Becomes(a, s, [attempt[a][s] EXCEPT !.at = "counted",
                                         !.seen = Tally(table[a])])
  /\ UNCHANGED <<row, table>>

\* Mutant: adds to the counters instead of setting them.
AddAuditProgress(a, s) ==
  /\ attempt[a][s].at = "counted"
  /\ LET sum == [v \in Severities |-> row[a].counts[v] + attempt[a][s].seen[v]]
     IN  row' = [row EXCEPT ![a].counts = sum,
                            ![a].score = CalculateCompositeScore(sum)]
  /\ Becomes(a, s, [attempt[a][s] EXCEPT
       !.at = IF attempt[a][s].act = "complete" THEN "stored" ELSE "ended"])
  /\ UNCHANGED table

\* ... and store the counters and the score in another transaction.
UpdateAuditProgress(a, s) ==
  /\ attempt[a][s].at = "counted"
  /\ row' = [row EXCEPT
       ![a].counts = attempt[a][s].seen,
       ![a].score = CalculateCompositeScore(attempt[a][s].seen)]
  /\ Becomes(a, s, [attempt[a][s] EXCEPT
       !.at = IF attempt[a][s].act = "complete" THEN "stored" ELSE "ended"])
  /\ UNCHANGED table

UpdateAuditStatus(a, s) ==
  /\ attempt[a][s].at = "stored"
  /\ row' = [row EXCEPT ![a].status = "completed"]
  /\ Becomes(a, s, [attempt[a][s] EXCEPT !.at = "ended"])
  /\ UNCHANGED table

(***************************************************************************)
(* The awaited attempt has returned: the workflow goes on.                 *)
(***************************************************************************)
NextPhase(p) == CASE p = "load" -> "generate" [] p = "generate" -> "score"
                  [] p = "score" -> "complete" [] OTHER -> "end"

WorkflowContinues(a) ==
  /\ live[a] # NoSlot /\ attempt[a][live[a]].at = "ended"
  /\ phase' = [phase EXCEPT ![a] = NextPhase(@)]
  /\ live' = [live EXCEPT ![a] = NoSlot]
  /\ retrying' = [retrying EXCEPT ![a] = FALSE]
  /\ reported' = IF phase[a] = "generate"
                   THEN [reported EXCEPT ![a] = attempt[a][live[a]].src]
                   ELSE reported
  /\ carried' = IF phase[a] = "load"
                  THEN [carried EXCEPT ![a] = table[a]] ELSE carried
  /\ attempt' = [attempt EXCEPT ![a][live[a]] = Idle]
  /\ UNCHANGED <<rows, lost, retried, overlapped>>

AttemptStep(a, s) ==
  \/ GetFindingsForAudit(a, s) \/ CopyFinding(a, s)
  \/ GetAnalysisResults(a, s) \/ NextIssue(a, s) \/ CreateFinding(a, s)
  \/ ListExhausted(a, s) \/ CountFindingsBySeverity(a, s)
  \/ UpdateAuditProgress(a, s) \/ UpdateAuditStatus(a, s)

Next ==
  \E a \in Audits :
    \/ \E type \in {"full", "incremental"} : TriggerAudit(a, type)
    \/ CreateAudit(a)
    \/ \E goesOn \in BOOLEAN : LoseAttempt(a, goesOn)
    \/ GiveUp(a)
    \/ WorkflowContinues(a)
    \/ \E s \in Slots :
         StartAttempt(a, s) \/ AttemptStep(a, s) \/ AbandonedAttemptEnds(a, s)

Spec == Init /\ [][Next]_vars

(***************************************************************************)
(* What must hold.  Ancestors(a) are the audits a builds on, a included:   *)
(* those that are in every set that has a and is closed under the links.   *)
(***************************************************************************)
RiskOf(issues) ==
  Min({MaxScore, SumFunction([i \in issues |-> Weight[NormalSeverity(i.sev)]])})

Ancestors(a) ==
  LET closed == {S \in SUBSET Audits :
                   a \in S /\ \A b \in S : row[b].prev \in S \cup {None}}
  IN  {b \in Audits : \A S \in closed : b \in S}

Generated == {a \in Audits : phase[a] \in {"score", "complete"}
                               \/ row[a].status = "completed"}

\* Nothing repo-service reported gets lost, whatever attempts were lost or
\* overlapped: when GenerateFindings has returned, every issue of the analysis
\* it read has its finding; in an incremental audit one at its place.
EveryIssueHasAFinding ==
  \A a \in Generated : \A i \in reported[a] :
    IF row[a].type = "full" THEN table[a][Normal(i)] > 0
    ELSE At(table[a], Place(Normal(i))) > 0

\* A retry can make a full audit look riskier than its repository is, never
\* safer: once scored, the row's score is at least that of the analysis.
ScoreNotUnderstated ==
  \A a \in Audits :
    row[a].type = "full" /\ (phase[a] = "complete" \/ row[a].status = "completed")
      => row[a].score >= RiskOf(reported[a])

\* An issue stays on record: what the previous audit held when it was
\* completed is in every incremental audit built on it, resolved or not,
\* unless an abandoned attempt added to the previous audit afterwards.
BaselineCarried ==
  \A a \in Audits :
    (row[a].prev # None /\ phase[a] \in {"generate", "score", "complete"}
       /\ row[a].prev \notin overlapped)
      => Held(table[row[a].prev]) \subseteq Held(table[a])

\* No issue gets lost: not one the analysis reports, not one that was on record
\* before, whatever attempts are lost, repeated or overlap.
IssuesOnRecord == EveryIssueHasAFinding /\ BaselineCarried

\* Retried or not, GenerateFindings of an incremental audit lists no finding
\* that was carried over once more, and no new one twice; only an attempt that
\* overlaps with its retry can (it checks, then inserts).
NothingListedTwice ==
  \A a \in Generated \ overlapped :
    row[a].type = "incremental" =>
      \A f \in Finding : table[a][f] <= 1 \/ table[a][f] <= carried[a][f]

\* The report adds up: the counters of a completed audit are those of its
\* findings, unless abandoned attempts inserted after the count.
ReportAddsUp ==
  \A a \in Audits \ overlapped :
    row[a].status = "completed" =>
      /\ row[a].counts = Tally(table[a])
      /\ row[a].score = CalculateCompositeScore(Tally(table[a]))

\* The stored score and counters can be relied on: they are those of the
\* findings, and a score never hides what the analysis reported.
ScoreHolds == ScoreNotUnderstated /\ ReportAddsUp

\* Where no attempt was lost, in the audit and in those it builds on, a full
\* audit has the findings of its analysis, one for each issue, and an
\* incremental one those of the previous audit, each as often as it had it, and
\* besides them only findings the analysis reports, once each.
UndisturbedIsExact ==
  \A a \in Generated :
    Ancestors(a) \cap retried = {} =>
      LET old == IF row[a].prev = None THEN NoFindings ELSE table[row[a].prev]
          new == FromAnalysis(reported[a])
      IN  IF row[a].type = "full" THEN table[a] = new
          ELSE \A f \in Finding :
                 \/ table[a][f] = old[f]
                 \/ old[f] = 0 /\ table[a][f] = 1 /\ new[f] > 0

\* What the comment of GenerateFindings says of an incremental audit: "only new
\* or changed issues are added" (activities.go), so that a reported issue has
\* its own finding, also where the severity of one on record has changed.
ChangedIssuesAreAdded ==
  \A a \in Generated :
    (row[a].type = "incremental" /\ Ancestors(a) \cap retried = {}) =>
      \A i \in reported[a] : table[a][Normal(i)] > 0
=============================================================================
