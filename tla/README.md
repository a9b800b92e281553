# Verification of the Sovereign AI compliance platform

The repository is a set of Go services around one PostgreSQL database and a
Temporal server: companies register AI systems and source repositories, have
them audited against the EU AI Act, index their documents, ask questions about
them, and have compliance documents written. This directory holds TLA+ models of
the services' control flow, the TLC configurations that check them on small
instances, and TLAPS proofs about them.

| modules | part of the system |
|---|---|
| `ApprovalGate` | what the approval gate of an audit promises |
| `AuditWorkflow`, `MCAuditWorkflow` | one audit: its row, Temporal workflow, activity attempts, handlers |
| `AuditWorkflowProofs` | its theorems |
| `AuditFindings`, `MCAuditFindings` | the findings of a repository's audits: carry-over, deduplication, score |
| `AuditFindingsProofs` | its theorems |
| `VersionHistory` | what a document's version history promises |
| `DocLifecycle`, `MCDocLifecycle` | one generated document: row, versions, generation, handlers, exports |
| `DocLifecycleProofs` | its theorems |
| `Chunker`, `RagDocuments`, `MCRagDocuments` | an uploaded document, its processing and its index |
| `RagDocumentsProofs` | its theorems, and those of the chunker |
| `ChatSession`, `MCChatSession` | the requests of one chat, down to the events the browser reads |
| `ChatSessionProofs` | its theorems |
| `Accounts`, `MCAccounts` | one user: sessions, password resets, changes by administrators |
| `AccountsProofs` | its theorems |
| `OrgPolicy` | compliance policies and AI systems |
| `RepoConnection` | a repository, its webhooks, its scans |
| `Notifications` | notifications and their paged lists |
| `RateLimiter` | the gateway's buckets |
| `StatusStream` | the stream that follows an audit |
| `TenantPool` | row-level security over a connection pool |
| `MCServices` | an instance of the last six, one at a time |
| `ServicesProofs` | the theorems of these six |
| `NumberInduction` | induction over numbers as facts about sets, for the proofs |

`PROJECT.json` lists the runs, the theorems, the source lines every definition
translates, for every checked property a one-definition change of the model
that breaks it, and the hazards of the code with the properties that watch them.

## 1. Inventory

Every service answers gRPC calls; `api-gateway` turns HTTP into those calls.
They share one database, in which every table carries a tenant, and
`shared/database/rls.go` opens transactions that set the tenant for row-level
security. Almost every repository method is a transaction of its own, so a
handler with three repository calls is three transactions, and whatever it read
first may be stale when it writes. That, and background work nobody resumes, is
where most of the hazards are.

**audit-service** keeps `audit_jobs`, `audit_findings` and `approval_requests`.
`TriggerAudit` inserts an audit and starts a Temporal workflow from a goroutine.
The workflow runs eight steps (nine for an incremental audit), each an activity
followed by a bookkeeping write to the row: initialise, load the previous
findings, fetch the repository and run its analysis (calls to repo-service),
insert findings, compute the risk score, check the approval gate, report,
notify. At the gate an audit whose score is high waits, without a timer, for a
signal that `DecideApproval` sends. `PauseAudit` and `ResumeAudit` write the
status column. `GetAuditStatus` streams the row by polling. *Hard:* at-least-once
activities, attempts that overlap with their own retries, a decision made of
four separate effects, three writers of one status column. *Correct when:* no
audit passes the gate without a clear score or an approval; decisions and
statuses that are final stay so; a started audit ends or waits for a person;
what clients read about progress, failure and risk is what happened.

**doc-service** keeps `generated_documents`, `document_versions` and
`document_export_jobs`. `GenerateDocument` inserts a row and generates in a
goroutine (facts from other services, language model, validation) with a
thirty-minute context. `UpdateDocument` and `RollbackToVersion` snapshot and
rewrite the row; `DeleteDocument` deletes it with its records; `CreateExportJob`
writes a file in another goroutine. *Hard:* edits, rollbacks and generation of
the same row in interleaved transactions; goroutines that fail, overrun or die.
*Correct when:* no content that was accepted is lost; a record holds what the
document really held; generation and export end; a completed export has a file.

**rag-service** keeps `documents`, `embeddings`, `chat_sessions` and
`chat_messages`. Uploads are extracted, chunked, embedded and inserted by a
goroutine; reprocessing deletes the embeddings and starts another one. A chat
message goes through a per-tenant limiter and a turn cap, is stored, answered by
a pipeline (analysis, retrieval, guardrail, synthesis, fallbacks) whose tokens
are streamed, and the answer is stored. *Hard:* two processing goroutines of one
document; count-then-insert; failures in the middle of a stream. *Correct when:*
a completed document's chunks are each indexed once; the cap holds; a stored
answer is the one the user saw.

**auth-service** keeps `users`, `refresh_tokens`, `password_reset_tokens`.
Refresh reads the token, revokes it and stores its successor in three
statements; logout revokes all; a reset token is marked used before the password
is written. *Hard:* concurrent refresh and logout, partial failure. *Correct
when:* a token yields at most one successor; after logout none is live.

**org-service** keeps `tenants`, `ai_systems`, `compliance_policies` and shares
`users`. Updates read a row, change fields and write the whole row;
`UpdatePolicy` deactivates the old policies and creates the new one. *Correct
when:* one policy is active at a time; no update is lost.

**repo-service** keeps `repositories` and `repository_scan_results`. Connecting
a repository creates a webhook at the provider, then a row; deleting it deletes
the row. A scan clones, analyses and stores. *Hard:* two systems and no
transaction over both. *Correct when:* webhooks and rows correspond; a scan ends.

**notification-service** stores and lists notifications and preferences;
**monitoring-service** reads Prometheus and keeps nothing; **agent-orchestrator**
forwards a request to the language model or another service and keeps nothing.

**api-gateway** checks tokens, sets the tenant, limits requests per tenant with
a map of token buckets and its cleanup goroutine, and relays a chat as an event
stream. *Correct when:* a tenant has one bucket; a stream ends with one
terminal event.

**shared** has the tenant context, row-level-security transactions, the
language-model client, evaluation heuristics, metrics, configuration,
encryption and generated protobuf code. **deploy** and **scripts** set it up.

How they interact: the gateway calls every service; audit-service calls repo-service
(analysis) and notification-service (completion) and is driven by Temporal;
doc-service reads org-, audit- and rag-service to assemble facts; agent-orchestrator
calls doc-, audit- and rag-service; auth- and org-service write the same `users` rows.

## 2. The audit workflow

`AuditWorkflow` is one audit. The variables are the database (`job`,
`tableScore` for the findings, `req`), the workflow's own position and locals
(`phase`, `step`, `gate`, and `signals`, the buffered channel), what Temporal
and the workers hold (`live`, `attempt`, `tries`), the goroutine of
`TriggerAudit` (`trigger`), the handlers at work (`desk` for `DecideApproval`,
`click` for pause and resume), and two history variables: `recorded`, every
decision ever committed, and `late`, what attempts wrote when the workflow had
left the step they belong to.

- Every transaction is an action, and so is every step of the workflow between
  two blocking calls. `Scheduled` is the activity the workflow blocks on in each
  phase; `StartAttempt` hands it to a worker; the activity's transactions move
  the attempt from `begin` to `ended`; the workflow continues on its `Result`.
- `LoseAttempt` is a dead worker, an error or a deadline. Only in the last case
  does the attempt run on in its slot, next to its retry: activities with the
  default options have a one-minute heartbeat timeout and never heartbeat, while
  the bookkeeping ones end with their own deadline. `GiveUp` is the
  schedule-to-close limit, which the bookkeeping activities do not have.
- `DecideApproval` is four effects in order: the check that the request is
  pending, the decision, for an approval `ResumeAudit`'s read and write (an error
  there ends the handler), and the signal. A handler may die between any two.
- Pause and resume read the status, then write it unconditionally.

*Abstractions.* Findings are the composite score they add up to; scores count in
units of the high threshold. The percentage arithmetic is kept. `started_at`,
`completed_at`, titles and messages are left out. The database role bypasses
row-level security, as the superuser of `docker-compose.yml` does (see 8).
Requests are created with fresh ids, so a retried `CreateApprovalRequest`
inserts a second one.

**The runs.**

| run | instance | shows |
|---|---|---|
| `audit_gate` | 2 requests, 2 approvers, 2 slots (attempts overlap with their retries), lost attempts, dying handlers, no operator; 1.75 M states | the audit implements `ApprovalGate` (`ImplementsApprovalGate`), `GateHonoured`, an audit completes with a high score that nobody approved in one way only (`UnapprovedOnlyLate`), the row tells what happened (`RowTellsTheTruth`), types |
| `audit_live` | 2 requests, 1 approver, 1 operator, `FairSpec`; 202 k states | `AuditEnds`: a started workflow ends or reaches the gate, a signalled one ends, a recorded rejection ends it |

`RowTellsTheTruth` joins three claims: a failure names the step it happened at,
the percentage falls only at the score step, and the awaited work never takes an
audit out of a terminal status. Its exceptions are named in it: the 50 percent
that a timed-out score attempt stores over a failure's percentage, a completion
whose result got lost and that is given up, and a pause or resume whose check was
stale: these test the status in one transaction and write it in another, so they
can overwrite `failed` or `completed`.

Two requests are what one lost attempt can make; two approvers, or one and a
retry, are what it takes to decide twice. One weight that reaches the threshold
and a clamp of two of them give scores below, at and above every comparison. With
more lost attempts (`MaxTries`) the same situations repeat: `tries` restarts with
each activity. `MaxBusy` bounds the handlers at work and the timed-out attempts
together: two deciders meet, or a decider and an attempt that outlived its deadline.

*Fairness* (`FairSpec`). Temporal schedules and retries until an activity
returns or its limit passes and workers poll, so `StartAttempt`, `Perform` and
`WorkflowContinues` are weakly fair; a signal in the channel is received; an
abandoned attempt ends with its context's deadline; a handler that does not die
runs to its end. Nothing makes a person decide, pause or resume. A lost attempt
is never required. In `audit_live` handlers do not die: with
`HandlersCrash = TRUE` a recorded rejection need not end the audit, since nothing
repeats a lost signal.

**What the code does not do.** Two sentences of the code are refuted:

| run | property | |
|---|---|---|
| `approval_gap` | `ApprovalResumesAudit` | an approval that arrives before the row is `paused`, or after an operator resumed it, is stored but never signalled |
| `late_findings` | `NoUnapprovedHighRisk` | with two slots, findings of an abandoned attempt arrive after the gate; the final recount stores a high score nobody approved |

`UnapprovedOnlyLate`, which `audit_gate` checks with the same two slots, says that
this is the only way: the audit had passed the gate with a low score and an attempt
that had timed out inserted a finding afterwards. The model has two more behaviours
that a reader of the code may not expect: two concurrent decisions of one request are
both stored, and both signal; and a pause only writes the row, so the workflow goes on
and completes the paused audit.

**The proofs** (`AuditWorkflowProofs`), for any number of requests, approvers,
operators, slots, retries and any scores:

- `TypeCorrect`: `Spec => []TypeOK`. Not inductive alone: that `step` stays
  within the plan needs `GateShape`, which ties it to `phase`.
- `GateIsHonoured`: `Spec => []GateHonoured`, from the inductive `GateInv`. Its
  parts: the workflow's position determines its verdict (`GateShape`); every
  signal in the channel follows a recorded decision of its kind
  (`SignalsDecided`), and so does every handler that is past its decision
  (`DesksDecided`), since the handler stores before it signals; requests exist,
  or are about to, only for a held audit (`OnlyHeldIsDecided`), which is what
  excludes an approval left over from before the gate; a workflow on its way to
  cancel was rejected.
- `RefinesApprovalGate`: `Spec => ImplementsApprovalGate`, one case per action,
  from the same invariant: every step of the audit is a step of the abstract gate
  or leaves it alone.

- `ProgressIsKept`: `Spec => ProgressDropsOnlyAtScore`, and `TerminalIsKept`:
  `Spec => WorkflowKeepsTerminal`, for any number of attempts that overlap, from
  `RowInv`. It says what an attempt can still write: a bookkeeping attempt is the
  awaited one, and what an abandoned attempt belongs to lies behind the workflow
  (`AttemptsFit`); a terminal status belongs to a position of the workflow
  (`StatusFits`), and so does a highest percentage (`ProgressFits`).
- `HighRiskIsApproved`: `Spec => []UnapprovedOnlyLate`, for any number of attempts
  that overlap. From `ScoreInv`: as long as no finding came late, the score the gate
  read, the stored one and that of the findings are the same once the score step has
  run, and so is whatever an attempt has counted and will store.
- `RowIsTrue`: `Spec => RowTellsTheTruth`, likewise. The part about failures is from
  `FailureInv`: while the row says `failed` it names the step the workflow failed at,
  and only a score attempt that timed out can still replace the percentage.

None of these assumes that attempts do not overlap: no activity sends a heartbeat, so
the code cannot promise it. The price is the exception in the statement, and
`late_findings` shows that it is needed.

They rest on `BoundsAssumption` (the numeric constants are naturals, `HandlersCrash` a
Boolean) and `SlotsAssumption` (the marker for "no slot" is not a slot).

## 3. The generated document

`DocLifecycle` is one document: `row` (absent, live, deleted), `doc` (status,
version, content), `versions` (number to content), the generation goroutine
(`gen`) and whether its context has `expired`, the handlers at work (`desk`),
the exports (`job`: a row, a goroutine's position, a file), and three history
variables: `shown`, every version and content the row ever held; `torn`, the
numbers whose content a stale write replaced or a failed insert left unrecorded;
`orphaned`, the background work whose last write was lost.

- Every repository call is one action. An `UPDATE` of a deleted row matches
  nothing and succeeds; an insert into `document_versions` fails when the
  document is gone (foreign key) or the number is taken (unique constraint), and
  every caller logs that and goes on. `Faults` lets calls fail, and lets a failed
  write of the goroutine have been committed.
- `runGeneration` runs on one context; when it has expired everything left of it
  fails, `failGeneration` included.
- `UpdateDocument` looks at the status, `RollbackToVersion` does not, so it can
  be called while the document is generated; then it finds no version.
- `DeleteDocument` takes the version records and export rows with it (cascade).
- `ServiceRestarts` ends every goroutine and handler and leaves the rows.

*Abstractions.* A content is a member of a small set; the sections of an edit are
one content. Assembling, prompting and validating are one step that succeeds or
fails; so is writing a file. `UpdateDocumentStatus` and its table of transitions
(approved, published) have no caller and no RPC, so they are not modelled.

**The runs.**

| run | instance | shows |
|---|---|---|
| `documents` | 2 editors, 1 export, 1 edited content, 3 versions, listing 2; failing calls, contexts that expire, restarts; 1.5 M states | the document implements `VersionHistory` (`ImplementsVersionHistory`, `HistoryInv`); records are honest (`HonestInv`); generation overwrites nobody's edit (`GenerationKeepsEdits`); a completed export has its file (`CompletedHasFile`); what reads as being worked on is worked on (`WorkIsOwned`); types |

Two editors are enough for every race of two handlers over one row; three versions are
a generated content, an edit, and an edit or a rollback beside or after it, and with a
list limit of two a rollback meets a version that the listing does not show. The
proofs below need no bound. The system may stop (all requests served, the document
deleted), so deadlock is not checked.

What the code loses is part of the specification, not assumed away. Two edits that
read the same version both write its successor, and the first one's content is then
in no record; a failed snapshot is logged, and the replaced content is in no record
either. Such a number is `torn`, and `VersionHistory` has a step `Lose` for it: a
version may be lost, but its number is not used again for a new version, and every
number that is not torn keeps its content. `Holds` and `Contiguous` tell exactly
which number a step tears: the one a handler writes while the row has moved past
what it read, or the one whose insert fails.

There is no liveness property here. When nothing fails, expires or restarts the
goroutines plainly reach their end; with them a document can stay `generating` for
ever, since a failure is stored on the context whose expiry caused it, and nothing
resumes what a restart strands. `WorkIsOwned` says what is left: whatever reads as
in progress has a goroutine, unless the last write of that goroutine was lost.

**The proofs** (`DocLifecycleProofs`), for any contents, number of versions, list
limit, exports, and any setting of the failure switches unless said otherwise:

- `TypeCorrect`: `Spec => []TypeOK`, with `DesksBounded` (a handler at work was
  called below the bound) as its strengthening.
- `RecordsAreHonest`: `Spec => []HonestInv`, for any number of concurrent
  editors and with failing calls: whatever a handler or the goroutine may still
  record, the row has held (`HonestRow`, `HonestDesk`).
- `EditsAreKept`: `Spec => GenerationKeepsEdits`. Until generation has stored,
  the row refuses edits and there is no record a rollback could find, so no handler
  gets past its lookup (`NobodyWrote`), however many there are.
- `CompletedHasItsFile`: `Spec => []CompletedHasFile`. A job about to complete has
  a file and a completed one has no goroutine left (`FilesKept`); a file is only
  removed on the way to failing.
- `WorkIsSomebodys`: `Spec => []WorkIsOwned`, which is inductive as it stands.
- `HistoryIsKept`: `Spec => []HistoryInv`, with any number of editors, failing calls,
  expired contexts and restarts.
- `RefinesVersionHistory`: `Spec => ImplementsVersionHistory`, likewise.

The last two assume nothing about who calls when. The argument, torn numbers aside:
every number passed is on record and none ahead is (`Contiguous`); before generation
has stored, nothing else is in the document (`GenerationAlone`); a handler holds
either the row or a number that is on record already (`Holds`). A handler that holds a
number the row has left tears what it writes over, and the torn numbers reach without
a gap down to the row's version (`TornFromTheRow`), so a number that is new is never
one that was lost. They rest on `DocAssumption` (naturals, Booleans, and the markers
differ from the contents).

## 4. The findings of a repository's audits

`AuditFindings` takes the three activities that `AuditWorkflow` folds into a
score, and gives findings an identity: a place (file, line, issue type) and a
severity, each with the number of rows that hold it (`table`). Several audits of
one repository follow each other; an incremental one builds on the audit that
was the latest completed when it was triggered (`TriggerAudit`,
`row[a].prev`).

- `CopyFinding` is one iteration of `LoadPreviousFindings`; `NextIssue` (the check
  that the place is not on record, in an incremental audit) and `CreateFinding`
  are one of `GenerateFindings`. Each is a transaction. Unknown types and severities
  become the defaults. `CountFindingsBySeverity` counts the rows, `UpdateAuditProgress`
  and `UpdateAuditStatus` write counters and score, and the status.
- `LoseAttempt` is a dead worker or a missed heartbeat; in the second case the
  attempt goes on inserting next to its retry, which starts from the beginning
  and reads the analysis again.

| run | instance | shows |
|---|---|---|
| `audit_findings` | 2 audits, 2 slots, 1 lost attempt, two places of which one changes its severity; 835 k states | `IssuesOnRecord`: no reported issue and no issue of the previous audit is lost; `ScoreHolds`: the stored score is that of the findings and never below the analysis; `NothingListedTwice`: an incremental audit lists nothing that was carried over once more and nothing new twice; `UndisturbedIsExact`: without a lost attempt the findings are exactly right |
| `changed_issues` | the same without lost attempts | violated: `ChangedIssuesAreAdded` |

One lost attempt makes every situation (before, between and after the inserts,
dead or still going), two audits are one link of the chain and
`BaselineCarried` speaks of each link. The exceptions in the properties are what
the code does not exclude: an attempt that overlaps its retry may insert a place
twice and after the count; a retry may count findings twice, so that a full audit
looks riskier, never safer.

`changed_issues` refutes a comment: `GenerateFindings` says that in an incremental
audit "only new or changed issues are added" (`activities.go`, 208), but the check
before an insert compares file, line and type only, so an issue whose severity has
changed stays on record with its old one, and the score with it. The properties that
hold are silent about such an issue: they would hold as well if it were added.

**The proofs** (`AuditFindingsProofs`), for any number of audits, slots and lost
attempts, any finite lists of issues, any weights and clamp. Three parts:

- Sums. The model counts with the library's folds over sets, which take one element
  after the other in an order of their own. `SumRemove` shows that the order does not
  matter; from it follow what one row more does to the sums (`AtMore`, `TallyMore`),
  that the score grows with the findings (`ScoreMonotone`), and that the score of an
  analysis, summed over its issues, is that of the findings it stands for
  (`RiskIsScore`).
- Steps. `GetFindingsIs` to `ContinuesIs` say of each action what it changes, field by
  field; `Elsewhere`, that it concerns one audit; `PhaseSteps`, `TableSteps`,
  `StatusSteps` and their like, which action can change what.
- The invariant `Inv`: the types, and for every audit eight parts. None of the checked
  properties is inductive, since each speaks of audits that are past a phase, and what
  an audit has there depends on the attempts that brought it there.

| part | says | needed for |
|---|---|---|
| `FlowOf` | the awaited attempt is of the phase's activity; other attempts exist only where one outlived its deadline | all others |
| `LinkOf` | an audit builds on another one, which was completed before | `BaselineOf`, `ExactOf` |
| `RecordedOf` | an issue is still to come in the attempt (`Pending`) or has its finding | `IssuesStayOnRecord` |
| `BaselineOf` | so is a finding of the previous audit | `IssuesStayOnRecord` |
| `ScoreOf` | what was counted, and what is stored, is at least the analysis | `ScoresHold` |
| `ReportOf` | what was counted is what is there | `ScoresHold` |
| `GapsOf` | where a finding is about to be inserted there is none | `NothingIsListedTwice` |
| `ExactOf` | findings and pending issues add up to the analysis, or to the previous audit's and such findings as the analysis reports | `FindingsAreExact` |

`RecordedOf` and `ScoreOf` speak of every attempt, overlapping ones included, so they
also cover a scoring attempt that is still at work after the workflow gave up;
`ReportOf`, `GapsOf` and `ExactOf` are about audits without an overlap, or without a
lost attempt, where the awaited attempt is the only one (`OneAttempt`). They rest on
`FindingsAssumption`: the weights and bounds are naturals, the defaults are among the
known values, the markers are no audit and no slot, and there are finitely many
audits, severities and issues.

## 5. Documents and their index

`Chunker` is the splitting of a text: `NextStart` (the loop's step and its
guard), `Window`, `Deduplicate`; and, to compare with, the windows in closed form
(`WindowsOf`, `Kept`, `AreChunksOf`) and what it means that chunks cover a text. A
text is a sequence of words. `RagDocuments` is one document: its `row`, its embeddings
`emb`, the goroutines `proc` that `processDocumentAsync` runs in, the handlers
`desk` of `ReprocessDocument`.

- Every repository call is an action. The extraction succeeds, finds no text, or
  fails; the splitting loop runs window by window; each chunk is embedded and
  inserted on its own; a chunk that fails is skipped, and the status at the end
  says `completed` when one was inserted.
- `ReprocessDocument` deletes the embeddings, resets the row and starts a
  goroutine; it does not know of one that is running, nor does the goroutine look
  whether another has started. An insert after `DeleteDocument` violates the
  foreign key and fails.
- `ServiceRestarts` ends the goroutines and leaves the rows.

The history variable `harm` names what the code has no answer to: two runs
overlapped (`raced`), the old embeddings could not be deleted (`undeleted`), the
handler ended between its two writes (`stranded`), a chunk was skipped, a final
write was lost (`unconcluded`). Each property names those it allows for.

| run | instance | shows |
|---|---|---|
| `rag_index` | chunks of 3 words with 1 in common, two texts (three windows, two of them equal; a short last one), 2 goroutines, 2 handlers, 3 runs, 1 fault, `FairSpec`; 374 k states | `IndexIsTheText`: a completed document at rest is indexed with exactly the chunks of its last text, and no word is missing; `IndexedOnce`; `SearchFindsTheLiving`: completed documents have chunks, deleted ones none; `ProcessingProceeds`: progress falls only for a reprocess, processing ends |

*Fairness:* a goroutine runs until it returns (`WF` of each goroutine's steps);
nobody has to upload.

The chunk size and the overlap are not checked by the constructor, and the loop's
guard ("Ensure we don't get stuck if overlap >= chunkSize", `chunker.go`, 44) tests
the old end, not the old start. The model takes any two naturals: with an overlap of
the size the loop stands still, with a larger one the next start is negative and the
slice panics, which ends the process (`ProcessDies`). The run has an overlap below
the size, as the defaults are, because nothing is indexed otherwise
(`OverlapIndexesNothing`, below): the safety properties then hold of an empty index,
and of the liveness ones `ProcessingEnds` fails while the loop stands still. So the
comment is wrong about the code; it is the theorem that says so.

A reprocess without content empties the index and fails, as `ReprocessDocument` has no
copy of the file. `processed_at` is never set.

**The proofs** (`RagDocumentsProofs`), for texts of any length, any chunk size,
overlap and least length, any number of goroutines, handlers, runs and faults:

- The chunker. `NextIs`: where the overlap is below the size (`Advances`) the guard
  never matters, a step is the stride. `SplitMore` and its companions: the windows the
  loop has cut are the first ones of the closed form, and when it ends they are all.
  `DeduplicateIs`: the chunks are the windows in `Kept`, each once and in order.
  `ChunksCover`: a window that was dropped as a repetition is among the chunks as its
  first occurrence, and one that is too short lies within the overlap of the window
  before it, so no word is lost, if the overlap is at least `MinWords - 1`.
- `TypeCorrect`, with what a goroutine holds at each of its stations (`Works`).
- `OverlapIndexesNothing`: with an overlap of the size or more nothing is ever in the
  index and no document is completed, from `StuckInv`: no goroutine gets past the
  first window. The other theorems hold for such values too, by this invariant, and
  for all others by the ones below.
- `IndexedOnlyOnce` from `CleanInv`: while no runs overlapped and old indexes could
  be deleted, one goroutine is at work, it has the latest text, and the index is a
  choice of the chunks it is done with, in order (`Taken`); a handler about to
  start one has an empty index and nobody next to it. `IndexIsExact` adds `ExactInv`:
  while nothing else went wrong the choice is all of them (`Whole`).
- `SearchFinds` from `FindsInv`: a goroutine that counts an insert has a row in the
  index, and nobody deletes it behind its back unless two runs raced.
- `ProgressGoesUp`, the safety part of `ProcessingProceeds`, from `FirstRunInv`: in
  the first run the row's percentage has reached no further than its goroutine.

The induction over a text goes through `NatSets` of `NumberInduction` (a set of
numbers that has 0 and the successor of each member is `Nat`), proved from
well-foundedness: the library's own induction theorems take an operator.

## 6. Chats

`ChatSession` is one session and the requests that talk in it, from the limiter
to the events the browser reads: `session`, `messages`, the requests `chat`, the
`events` each has been sent, the requests that are `gone`, and the tenant's
`bucket`.

- `StreamChat` takes a token from the limiter, verifies the owner, counts the
  messages, stores the question, reads the history, and runs the pipeline:
  retrieval, guardrail, synthesis, small talk, each with its fallback. Tokens go
  out one by one (`Token`); those sent before a failure stay in the answer. Then
  citations, the stored answer, the title, and `done` or one `error`.
- A browser may leave at any time; its context is cancelled, so later calls of
  the request fail, and it is sent nothing more. The session may be deleted
  meanwhile; inserts then fail.
- `Ends` is the gateway's `handleChatSSE`: which event closes the stream.

| run | instance | shows |
|---|---|---|
| `chat` | 2 requests of owner or stranger, a cap of two turns, up to three rows taken beforehand, prompts of two rows, a bucket of one and one refill, answers of up to one piece, 1 failing call, `FairSpec`; 764 k states | `StoredIsStreamed`: a stored answer is what was sent; `TurnsEnd`: every request ends, its browser reads one terminal event, `done` only behind the stored answer; `ConversationIsWhole`: history, ownership, name, deletion; `LimitsHold`: by how much the cap is exceeded, and the pace |
| `cap_exceeded` | 2 requests of the owner, a cap of one turn, 1 failing call | violated: `CapNeverExceeded` |

*Fairness:* the steps of a request in progress (`Serve`). The comment on the cap says
that it is "never exceeded even by one row" (`chat_logic.go`, 406). `cap_exceeded`
refutes it: a question whose answer failed makes the count odd, and the turn that
takes the last place goes one row over. Requests that are served at the same time go
further, since the count and the insert are two transactions; `RowsOverCap` says how
far: a turn alone goes one row over, and each that is served beside it adds two
(`crowd` is the most that were served at one time).

A prompt quotes the last six rows of the history only (`analysis.go`, `pipeline.go`
and `synthesis.go` cut it alike), which `PromptRows` stands for. So that the cut
matters in the run, a session begins with up to `Earlier` questions that were never
answered, and the prompt has room for fewer rows than there are. Which rows a turn
quotes when others overlap is not part of `HistoryIsWhole`. `"default"` stands for the
title "New Chat" that a session begins with: a question that reads just so would leave
the chat to be named again by the next turn, and is not among the questions
(`ChatAssumption`).

**The proofs** (`ChatSessionProofs`), for any number of requests, users and pieces,
any cap, bucket and history window. `StepKinds` first sorts the steps of a request
by what they do (refuse, accept, break, find, count, ask, load, think, show, store,
title, finish); each invariant then has one case per kind.

- `TypeCorrect`, and `OwnInv`: what a request has in the tables and in its stream,
  position by position.
- `LimitsAreKept`: the pace from `PaceInv` (tokens left and requests let through add
  up), the rows from `RowsInv`: those stored and those the turns at work may still
  store exceed the cap by what the largest crowd allows.
- `ConversationStaysWhole`: from `TurnsInv` (while no two requests were served at one
  time there is one at most, and it has loaded the rows before its question),
  `DataInv` (a row is its owner's; a deleted session has none) and `Unnamed` (until
  the chat has its name, an answer belongs to a turn that is about to give it one).
- `AnswersAreStreamed`: a stored answer is what its events add up to (`Shown`, a
  recursive function over the stream; `SpokenInv`), by induction over the events
  (`NatSets`, as in 5).
- `TurnsEndSafely`, the safety part of `TurnsEnd`: `done` is read only behind a
  stored answer, and one terminal event ends a stream (`StreamInv`, `StoredInv`).

## 7. Accounts

`Accounts` is one user, whose row auth-service and org-service both write:
`user`, the `tokens` and `resets`, and the handlers `job`, each with what it has
read. A refresh token carries `root`, the login it descends from.

- `Login`, `UpdateLastLogin` and `StoreRefreshToken` are the statements of a login;
  `GetRefreshToken`, `RevokeRefreshToken` and `StoreRefreshToken` those of a refresh,
  which looks at neither the user's row nor `is_active` (what a token says of its user
  is left out: no property is about it); `Logout` revokes all tokens in one statement.
- `GetPasswordResetToken`, `MarkResetTokenUsed`, `LoadUser`, `UpdateUser` are a
  password reset: the token is used up before the password is known to be
  acceptable, and the refresh tokens are not revoked. `UpdateUserRole` and
  `ToggleUserActive` are org-service's; all three write the whole row they read.
- `StatementFails` ends a handler at any statement.

| run | instance | shows |
|---|---|---|
| `accounts` | 2 handlers at a time, 2 roles, 2 passwords, 3 tokens, 1 reset, 2 changes, 1 failing statement; 1.3 M states | `TokensRotate`: a login has exactly one working token; `LogoutEndsAll`; `ResetOnce`; `NothingUndone`: no change of the row undoes another one, unless the two overlap |

Three tokens are two logins and a refresh, or a login refreshed twice; two
handlers are every race of two. Exceptions named in the properties: two refreshes
that read the same token before either revoked it both get a successor, and two
resets likewise; a login or refresh on its way when the user logs out stores its
token afterwards; a failed statement between revocation and insert costs the
session.

**The proofs** (`AccountsProofs`), for any number of handlers, tokens, resets,
changes and faults, from `AccountsAssumption` (naturals, finitely many handlers):

- `TypeCorrect`: `Spec => []TypeOK`. The strengthening `TypeInv` says that a
  handler's key names a row that exists (`Fits`), that the value it will write
  suits its column, and that there is room for every token that handlers are going
  to store (`Room`, a cardinality).
- `TokensAreRotated` and `LogoutIsKept`: from the inductive `RotationInv`.
  `TokensRotate` speaks of tokens only; between the revocation of a token and the
  insert of its successor a login has none, and what then stands for it is the
  handler. So the invariant adds the handlers: one that is going to store has no live
  token of its login next to it (`RefresherHolds`), there is one such handler per
  login (`OneRefresher`), and a login without a usable token has such a handler, a
  logout or a fault (`AllWork`). The lemmas go by the kind of step: those that leave
  the tokens alone (`AsideKeeps`), those after which fewer live (`FadeKeeps`), the
  read of a token (`GetKeeps`) and the insert (`StoreKeeps`).
- `ResetsAreOnce`: from `Spent` (a token whose handler is past its mark, or that
  has changed the password, is used) and `OneHolder` (a token that no two handlers
  have read has one holder, which has not written yet). The first makes the second
  inductive: a token that can be read again is still open, so whoever holds it has
  not marked it.
- `NothingIsUndone`: from `Undisturbed`: while no two writers have overlapped,
  there is one at most, and the row it has read is the row that is there.

## 8. The small services

Six modules of one page each. They share no state, so `MCServices` runs one of
them per behaviour and its state space is their sum (319 k states in the run
`services`).

| module | state | property |
|---|---|---|
| `OrgPolicy` | `compliance_policies`, an AI system, the calls; `UpdatePolicy` is `DeactivateOldPolicies`, the new policy's time (`StampPolicy`) and `CreatePolicy`; `UpdateAISystem` reads and writes back | `OrgRecordsKept`: when the calls have ended, crossed or not, the newest policy is in force, unless the last to deactivate lost its insert; no more are active than calls crossed; an update does not undo a deletion |
| `RepoConnection` | the row, the provider's webhooks, scans, clones, requests that fail, lose an answer or die | `NothingLeftBehind`: every webhook without a row is accounted for by a fault or a deletion (`Delete` leaves it), every open scan and clone is in use |
| `Notifications` | the events with the text of their channel, a client that walks the pages of a channel or of all | `ListsAreComplete`: a walk shows nothing but what was sent on its channel, and all of it that was there when it began |
| `RateLimiter` | the bucket in the map, buckets still held, the clean-up | `OneBurst`: racing requests share one bucket; a burst more for each bucket dropped while it mattered |
| `StatusStream` | the row, what was read and what was sent | `StreamTellsTheEnd`: no change is swallowed, a stream closes after the end and because of it |
| `TenantPool` | role, `app.current_tenant` of each connection, transactions, callers | `TenantsApart`: under a role that obeys the policies a call finds no other tenant's rows; in a transaction all of its own |

Two callers, connections and threads are a race; three policies are two that
cross and one after; four notifications are two pages and two that arrive. Only
the stream's ticker is fair (`Ticks`): it fires as long as the stream is open.

What the modules show of the code: a status filter `unread` or `read` compares with
the stored `pending` and `sent`, so it is not part of the filter property; channel and
priority are read back as unspecified; `page_size` 0 or over 100 announces a wrong
number of pages, which `WalkSeesAll` excludes; rows of the same `created_at` have no
order, and a walk could skip one: the model takes the times as distinct; a fresh
bucket has a zero `lastSeen` until its first request has touched it, and the clean-up
may drop it at once; an audit that had failed before the stream was opened is shown at
100 percent, and the call returns without an error even where that event could not be
sent. Statements on the pool outside a transaction find no row at all under a role
that obeys the policies, since nothing has set a tenant; the superuser of
`docker-compose.yml` bypasses the policies, and the other modules take that role.

**The proofs** (`ServicesProofs`). Each module has a specification of its own
(`OrgSpec`, `RepoSpec`, ...), and `EachOnItsOwn` proves that a behaviour of
`MCServices` is one of each: what follows, for any constants, holds of the instance
that TLC checks.

- `RecordsAreKept`: `OrgSpec => OrgRecordsKept`. Every policy has a time of its own,
  taken after its call has deactivated the others (`Drawn`). So while the call that
  was the last to deactivate has not lost its insert, it is still on its way to a time
  later than that of any inactive policy, or it has stored an active one (`Leading`),
  however many crossed. How many are active, with those still to be stored, is
  counted from the last deactivation on (`Counted`). That the active policies have a
  newest one at all is part of the invariant (`Heads`), because the prover cannot find
  the maximum of a finite set afterwards.
- `NothingIsLeft`: `RepoSpec => []NothingLeftBehind`. The ids and hooks a request
  has drawn are its own, and the row has one of them only when the answer to the
  insert was lost (`HookInv`); the same of scans and clones (`ScanInv`). The stray
  hooks are then counted: a step adds at most one, and only with a fault or a
  deletion (`StrayStays`, `StrayGrows`).
- `ListsHoldAll`: `NoteSpec => []ListsAreComplete`. Of what was there when it began, a
  client has seen all that the pages behind it hold, since what arrives only moves
  rows on to later pages (`WalkInv`, `Passed`), of its own list as of all; the pages
  it was told of reach to the end (`PagesReach`).
- `OneBurstIsGiven`: `LimitSpec => []OneBurst`. The tokens a tenant can still get
  are those in the bucket of the map and in the buckets its requests hold; they
  are counted as a set of coins (`Worth`), where bucket 0 stands for the full one
  that is made when the map has none. Admitted requests and these tokens never
  exceed what was given (`SpendInv`).
- `StreamIsTrue`, the safety part of `StreamTellsTheEnd`: while the handler polls,
  what it compares the row with is what it last read and last sent (`PollInv`).
- `TenantsAreApart`: `PoolSpec => []TenantsApart`. A connection is in at most one
  transaction and carries a tenant only while it is, that of its holder; `SET LOCAL`
  ends with the transaction.
- `TypeCorrect`: `FairSpec => []TypeOK`, of all six. That there are no more policies
  than calls is that count again.

They rest on the modules' assumptions about their constants: bounds that
are naturals, page sizes that are integers, a marker that is no tenant, and 100
among the percentages.

## 9. What is proved and what is only checked

Proved for every instance: all invariants that the passing runs check; the
refinements `ImplementsApprovalGate` and `ImplementsVersionHistory`; the action
properties `ProgressDropsOnlyAtScore`, `WorkflowKeepsTerminal` (in `RowTellsTheTruth`),
`GenerationKeepsEdits`, `ProgressRises`, `DeletionIsKept` (in `OrgRecordsKept`). No
theorem assumes that attempts, edits or calls do not overlap; where that costs
something the statement names it (`late`, `torn`, `crowd`, `shared`, `overlap`,
`raced`, `squeezed`).

Only checked by TLC: liveness, since the prover knows neither fairness nor `ENABLED`.
That is `AuditEnds` and the liveness parts of `ProcessingProceeds`, `TurnsEnd` and
`StreamTellsTheEnd`, whose safety parts are proved.

Induction over data is out of reach of the library's theorems (they take an
operator as a parameter), but not of a recursive function over numbers: `NatSets`
turns it into a fact about a set, and so `Deduplicate`, `Shown`, the splitting loop
and the folds over findings are computed for every input. The violated properties are
TLC's counterexamples.

## 10. Plan

1. Larger instances of `AuditFindings` (a chain of three audits) and of
   `ChatSession` (three requests), if the state spaces allow.
2. Composition: `StatusStream` over the row of `AuditWorkflow` instead of over any
   sequence of rows.
3. The abstract promise of `AuditFindings`: a specification with one step per activity
   that the audits without a lost attempt implement.

## 11. Not modelled

Half of the implementation's lines are generated (`*.pb.go`, `*.pb.gw.go`): they
convert messages and have no control of their own. Of what is written by hand,
these parts are left out:

- reads and listings that change nothing, mapping to and from protobuf, logging,
  metrics, configuration and start-up of the services;
- monitoring-service and agent-orchestrator, which keep no state, and the clients
  that call other services: a call that succeeds or fails in the modules above;
- `shared/llm`, `shared/eval`, the pattern analysis of repo-service, extraction of
  text and the layout of exported files: functions of text with no state to get
  wrong between steps, one step that succeeds or fails here;
- cryptography: hashes, signatures and encryption are assumed to work;
- `UpdateTenant` (the read and write back of `UpdateAISystem`), notification
  preferences (a placeholder), and code without a caller: `UpdateDocumentStatus`
  and its table of transitions, `BeginSystemTx`, `CreateEmbeddings`, the checksum
  lookup, `Pipeline.Execute`;
- time as such: timeouts are steps that may happen, timestamps are an order.
