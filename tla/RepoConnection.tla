--------------------------- MODULE RepoConnection ---------------------------
(***************************************************************************)
(* One repository URL of a tenant in repo-service: its row, the webhooks   *)
(* at the provider, and its scans (internal/logic/reposlogic.go,           *)
(* repo/sqlrepo.go, ProcessWebhook of internal/grpcserver/server.go).  A   *)
(* call of the database, of the provider or of git is one action; a call   *)
(* may take effect and lose its answer.  Credentials, secrets and          *)
(* signatures are left out.                                                *)
(***************************************************************************)
EXTENDS Integers, FiniteSets

CONSTANTS
  Clients,        \* requests in flight together
  MaxRepos,       \* bound: calls of Create
  MaxScans,       \* bound: rows of repository_scan_results
  MaxRepoFaults   \* bound: calls that fail or lose their answer, requests that die

ASSUME RepoAssumption == MaxRepos \in Nat /\ MaxScans \in Nat /\ MaxRepoFaults \in Nat

VARIABLES
  row,     \* the row with this URL (UNIQUE tenant_id, url): its id and webhook
  hooks,   \* webhooks at the provider, by the id their callback names
  scans,   \* repository_scan_results
  clones,  \* temporary directories
  client,  \* the requests
  drawn,   \* ids drawn by Create, scans begun
  mishaps  \* history: faults, and rows deleted

repoVars == <<row, hooks, scans, clones, client, drawn, mishaps>>

NoRow == [id |-> 0, hook |-> 0]
Waiting == [at |-> "idle", id |-> 0, hook |-> 0, scan |-> 0, found |-> "nothing"]

RepoInit ==
  /\ row = NoRow /\ hooks = {} /\ scans = {} /\ clones = {}
  /\ client = [c \in Clients |-> Waiting]
  /\ drawn = [ids |-> 0, scans |-> 0]
  /\ mishaps = [faults |-> 0, lost |-> FALSE, deleted |-> 0]

Ids == 0..MaxRepos

RepoTypeOK ==
  /\ row \in [id : Ids, hook : Ids] /\ row.hook \in {0, row.id}
  /\ hooks \subseteq 1..MaxRepos
  /\ scans \subseteq [no : 1..MaxScans, repo : 1..MaxRepos,
                      state : {"open", "nothing", "something"}]
  /\ clones \subseteq 1..MaxScans
  /\ client \in [Clients -> [at : {"idle", "hook", "insert", "undo", "clone", "record",
                                   "analyse", "save"},
                             id : Ids, hook : Ids, scan : 0..MaxScans,
                             found : {"nothing", "something"}]]
  /\ drawn \in [ids : Ids, scans : 0..MaxScans]
  /\ mishaps \in [faults : 0..MaxRepoFaults, lost : BOOLEAN, deleted : Nat]

Step(c, changed) == client' = [client EXCEPT ![c] = changed]
GoesTo(c, place) == Step(c, [client[c] EXCEPT !.at = place])
Returns(c) == Step(c, Waiting)
Faulty == mishaps.faults < MaxRepoFaults /\ mishaps' = [mishaps EXCEPT !.faults = @ + 1]

-----------------------------------------------------------------------------
\* A read that fails counts as "no such repository".  A self-hosted
\* provider gets no webhook.
GetByURL(c) ==
  /\ client[c].at = "idle" /\ drawn.ids < MaxRepos
  /\ \/ row = NoRow /\ UNCHANGED mishaps
     \/ row # NoRow /\ Faulty
  /\ drawn' = [drawn EXCEPT !.ids = @ + 1]
  /\ \E place \in {"hook", "insert"} :
       Step(c, [Waiting EXCEPT !.at = place, !.id = drawn.ids + 1])
  /\ UNCHANGED <<row, hooks, scans, clones>>

\* An error of the provider ends the call, whether or not it made the hook.
CreateWebhook(c) ==
  /\ client[c].at = "hook"
  /\ \/ /\ hooks' = hooks \cup {client[c].id}
        /\ Step(c, [client[c] EXCEPT !.at = "insert", !.hook = client[c].id])
        /\ UNCHANGED mishaps
     \/ /\ Faulty
        /\ hooks' \in {hooks, hooks \cup {client[c].id}}
        /\ Returns(c)
  /\ UNCHANGED <<row, scans, clones, drawn>>

\* Mutant: the webhook of a row that was not stored stays.
InsertOnly(c) ==
  /\ client[c].at = "insert"
  /\ \/ row = NoRow /\ row' = [id |-> client[c].id, hook |-> client[c].hook]
     \/ row # NoRow /\ UNCHANGED row
  /\ Returns(c)
  /\ UNCHANGED <<hooks, scans, clones, drawn, mishaps>>

\* Mutant: an upsert, which leaves the row its old id.
InsertOverwrites(c) ==
  /\ client[c].at = "insert"
  /\ row' = [id |-> IF row = NoRow THEN client[c].id ELSE row.id, hook |-> client[c].hook]
  /\ Returns(c)
  /\ UNCHANGED <<hooks, scans, clones, drawn, mishaps>>

\* The insert violates UNIQUE, fails, or is committed and loses its answer.
InsertRepository(c) ==
  /\ client[c].at = "insert"
  /\ \/ /\ row = NoRow /\ row' = [id |-> client[c].id, hook |-> client[c].hook]
        /\ Returns(c) /\ UNCHANGED mishaps
     \/ /\ row # NoRow
        /\ GoesTo(c, "undo") /\ UNCHANGED <<row, mishaps>>
     \/ /\ Faulty /\ row = NoRow
        /\ GoesTo(c, "undo") /\ UNCHANGED row
     \/ /\ mishaps.faults < MaxRepoFaults /\ row = NoRow
        /\ row' = [id |-> client[c].id, hook |-> client[c].hook]
        /\ mishaps' = [mishaps EXCEPT !.faults = @ + 1, !.lost = TRUE]
        /\ GoesTo(c, "undo")
  /\ UNCHANGED <<hooks, scans, clones, drawn>>

\* Mutant: deletes the webhook of the row that is there.
DeleteStoredWebhook(c) ==
  /\ client[c].at = "undo"
  /\ hooks' = hooks \ {row.hook}
  /\ Returns(c)
  /\ UNCHANGED <<row, scans, clones, drawn, mishaps>>

\* On the request's own context; an error is only logged.
DeleteWebhook(c) ==
  /\ client[c].at = "undo"
  /\ \/ hooks' = hooks \ {client[c].hook} /\ UNCHANGED mishaps
     \/ client[c].hook # 0 /\ Faulty /\ UNCHANGED hooks
  /\ Returns(c)
  /\ UNCHANGED <<row, scans, clones, drawn>>

\* The row and, by its foreign key, its scans; the webhook stays.
DeleteRepository ==
  /\ row # NoRow
  /\ row' = NoRow /\ scans' = {}
  /\ mishaps' = [mishaps EXCEPT !.deleted = @ + 1]
  /\ UNCHANGED <<hooks, clones, client, drawn>>

-----------------------------------------------------------------------------
\* TriggerScan, or a push: ProcessWebhook finds the row by the id in the
\* callback, and a row with a webhook has its secret.
BeginScan(c) ==
  /\ client[c].at = "idle" /\ drawn.scans < MaxScans
  /\ row # NoRow
  /\ drawn' = [drawn EXCEPT !.scans = @ + 1]
  /\ Step(c, [Waiting EXCEPT !.at = "clone", !.id = row.id, !.scan = drawn.scans + 1])
  /\ UNCHANGED <<row, hooks, scans, clones, mishaps>>

\* A clone that fails is removed.
PullCode(c) ==
  /\ client[c].at = "clone"
  /\ \/ clones' = clones \cup {client[c].scan} /\ GoesTo(c, "record")
     \/ UNCHANGED clones /\ Returns(c)
  /\ UNCHANGED <<row, hooks, scans, drawn, mishaps>>

\* The handler returns, and its deferred CleanupCode runs.
CleansUp(c) == clones' = clones \ {client[c].scan} /\ Returns(c)

\* Mutant: an early return leaves the directory.
RecordWithoutDefer(c) ==
  /\ client[c].at = "record"
  /\ \/ /\ row.id = client[c].id
        /\ scans' = scans \cup {[no |-> client[c].scan, repo |-> row.id, state |-> "open"]}
        /\ GoesTo(c, "analyse")
     \/ row.id # client[c].id /\ UNCHANGED scans /\ Returns(c)
  /\ UNCHANGED <<row, hooks, clones, drawn, mishaps>>

\* The clone has no HEAD, or the insert fails: the repository may be gone.
CreateScanRecord(c) ==
  /\ client[c].at = "record"
  /\ \/ /\ row.id = client[c].id
        /\ scans' = scans \cup {[no |-> client[c].scan, repo |-> row.id, state |-> "open"]}
        /\ GoesTo(c, "analyse") /\ UNCHANGED <<clones, mishaps>>
     \/ row.id # client[c].id /\ CleansUp(c) /\ UNCHANGED <<scans, mishaps>>
     \/ Faulty /\ CleansUp(c) /\ UNCHANGED scans
  /\ UNCHANGED <<row, hooks, drawn>>

\* Mutant: an analysis that fails returns at once.
AnalyseOrReturn(c) ==
  /\ client[c].at = "analyse"
  /\ \/ Step(c, [client[c] EXCEPT !.at = "save", !.found = "something"]) /\ UNCHANGED clones
     \/ CleansUp(c)
  /\ UNCHANGED <<row, hooks, scans, drawn, mishaps>>

\* An analysis that fails is saved as one that scanned no file.
AnalyzeDirectory(c) ==
  /\ client[c].at = "analyse"
  /\ \E found \in {"nothing", "something"} :
       Step(c, [client[c] EXCEPT !.at = "save", !.found = found])
  /\ UNCHANGED <<row, hooks, scans, clones, drawn, mishaps>>

\* An UPDATE of a row that is gone matches nothing and succeeds.
UpdateScanRecord(c) ==
  /\ client[c].at = "save"
  /\ \/ /\ scans' = {IF s.no = client[c].scan THEN [s EXCEPT !.state = client[c].found] ELSE s
                      : s \in scans}
        /\ UNCHANGED mishaps
     \/ Faulty /\ UNCHANGED scans
  /\ CleansUp(c)
  /\ UNCHANGED <<row, hooks, drawn>>

\* The process ends in the middle of a request.
RequestDies(c) ==
  /\ client[c].at # "idle" /\ Faulty
  /\ Returns(c)
  /\ UNCHANGED <<row, hooks, scans, clones, drawn>>

RepoNext ==
  \/ \E c \in Clients :
       \/ GetByURL(c) \/ CreateWebhook(c) \/ InsertRepository(c) \/ DeleteWebhook(c)
       \/ BeginScan(c) \/ PullCode(c) \/ CreateScanRecord(c)
       \/ AnalyzeDirectory(c) \/ UpdateScanRecord(c)
       \/ RequestDies(c)
  \/ DeleteRepository

\* The service on its own.
RepoSpec == RepoInit /\ [][RepoNext]_repoVars

-----------------------------------------------------------------------------
Held == {row.hook} \cup {client[c].hook : c \in Clients}

\* Webhooks without a repository.  The code has no answer to a call that failed
\* (its own cleanup may fail with the request) or to a deletion (which leaves
\* the webhook); this only says that nothing else strands one, and that neither
\* strands two.
StrayHooks == Cardinality(hooks \ Held) <= mishaps.faults + mishaps.deleted

\* A repository that has a webhook is called by its provider, unless the
\* insert was undone though it had been committed.
HookIsThere == row.hook \in hooks \cup {0} \/ mishaps.lost

\* A scan that is still open is running, or something failed under it.
OpenScanRuns ==
  \A s \in scans :
    s.state = "open" =>
      \/ mishaps.faults > 0
      \/ \E c \in Clients : client[c].scan = s.no /\ client[c].at \in {"analyse", "save"}

\* And so is a clone: no return of the handler leaves a directory behind.
CloneIsInUse ==
  \A n \in clones : mishaps.faults > 0 \/ \E c \in Clients : client[c].scan = n

\* What calls leave behind is accounted for: a webhook without its row by a
\* failure or a deletion, a row without its webhook by a lost answer, and an open
\* scan or a clone without a request by a failure.
NothingLeftBehind == StrayHooks /\ HookIsThere /\ OpenScanRuns /\ CloneIsInUse
=============================================================================
