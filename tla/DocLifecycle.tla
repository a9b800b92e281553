----------------------------- MODULE DocLifecycle -----------------------------
(***************************************************************************)
(* One generated document of doc-service: its row, its version records,    *)
(* the background goroutine that generates it (document_logic.go), the     *)
(* edit, rollback and delete handlers (document_logic.go, version_logic.go)*)
(* and the exports that run next to them (export_logic.go).                *)
(*                                                                         *)
(* Every repository call (repo/sqlrepo.go) is one transaction and one      *)
(* action.  An UPDATE of a deleted row matches nothing and succeeds; an    *)
(* insert into document_versions fails when the document is gone or the    *)
(* number is taken, and its caller goes on regardless.                     *)
(***************************************************************************)
EXTENDS Integers, FiniteSets

CONSTANTS
  Editors,     \* UpdateDocument / RollbackToVersion calls in flight together
  Exports,     \* ids CreateExportJob can draw
  Edits,       \* contents an editor can submit
  MaxVersion,  \* bound: versions of the document
  ListLimit,   \* page size RollbackToVersion lists versions with (1000)
  Faults,      \* may a database call fail?
  Overruns,    \* may a goroutine outlive its context's deadline?
  Restarts     \* may the service restart, or a request be cancelled?

Blank     == "blank"      \* no sections yet
Generated == "generated"  \* what the language model wrote
NoContent == "no record"  \* no version record of that number
Generating == "generation" \* the goroutine's name in "orphaned"
Contents  == Edits \cup {Blank, Generated}

ASSUME DocAssumption ==
  /\ MaxVersion \in Nat \ {0} /\ ListLimit \in Nat
  /\ Faults \in BOOLEAN /\ Overruns \in BOOLEAN /\ Restarts \in BOOLEAN
  /\ NoContent \notin Contents /\ Blank \notin Edits /\ Generated \notin Edits

VARIABLES
  row,       \* does the generated_documents row exist?
  doc,       \* its status, version and content
  versions,  \* document_versions: number -> content
  gen,       \* where the generation goroutine stands
  expired,   \* has its context's deadline passed?
  desk,      \* the handlers that edit or roll back
  job,       \* document_export_jobs and their goroutines
  shown,     \* history: every <<version, content>> the row ever held
  torn,      \* history: the numbers whose content a stale write replaced or
             \* a failed insert did not record
  orphaned   \* history: the background work whose last write was lost

vars == <<row, doc, versions, gen, expired, desk, job, shown, torn, orphaned>>

Numbers == 1..MaxVersion

Doc == [status  : {"generating", "editing", "failed"},
        version : Numbers,
        content : Contents]

Desk == [pc      : {"idle", "find", "snapshot", "update", "record"},
         op      : {"edit", "rollback"},
         version : Numbers,
         content : Contents,
         new     : Contents]

IdleDesk == [pc |-> "idle", op |-> "edit", version |-> 1,
             content |-> Blank, new |-> Blank]

\* A job's row, and where its goroutine stands.
Job == [status : {"none", "pending", "processing", "completed", "failed"},
        at     : {"idle", "start", "write", "check", "complete", "fail"},
        file   : BOOLEAN]

NoJob == [status |-> "none", at |-> "idle", file |-> FALSE]

TypeOK ==
  /\ row \in {"none", "live", "deleted"}
  /\ doc \in Doc
  /\ versions \in [Numbers -> Contents \cup {NoContent}]
  /\ gen \in {"idle", "working", "storing", "snapshot", "failing"}
  /\ expired \in BOOLEAN
  /\ desk \in [Editors -> Desk]
  /\ job \in [Exports -> Job]
  /\ shown \subseteq (Numbers \X Contents)
  /\ torn \subseteq Numbers
  /\ orphaned \subseteq Exports \cup {Generating}

Init ==
  /\ row = "none"
  /\ doc = [status |-> "generating", version |-> 1, content |-> Blank]
  /\ versions = [v \in Numbers |-> NoContent]
  /\ gen = "idle" /\ expired = FALSE
  /\ desk = [e \in Editors |-> IdleDesk]
  /\ job = [x \in Exports |-> NoJob]
  /\ shown = {} /\ torn = {} /\ orphaned = {}

-----------------------------------------------------------------------------
\* UPDATE generated_documents ... WHERE id: no row, no effect, no error.
StoreDoc(d) ==
  IF row = "live"
    THEN doc' = d /\ shown' = shown \cup {<<d.version, d.content>>}
    ELSE UNCHANGED <<doc, shown>>

\* INSERT INTO document_versions, under its foreign key and its UNIQUE
\* constraint.  A failure is logged, and "non-fatal".
CreateVersion(v, c) ==
  \/ IF row = "live" /\ versions[v] = NoContent
       THEN versions' = [versions EXCEPT ![v] = c]
       ELSE UNCHANGED versions
  \/ Faults /\ UNCHANGED versions

-----------------------------------------------------------------------------
(***************************************************************************)
(* GenerateDocument inserts the row and answers; runGeneration goes on in  *)
(* a goroutine with a context of its own that ends after thirty minutes.   *)
(***************************************************************************)
GenerateDocument ==
  /\ row = "none"
  /\ row' = "live" /\ gen' = "working"
  /\ shown' = {<<doc.version, doc.content>>}
  /\ UNCHANGED <<doc, versions, expired, desk, job, torn, orphaned>>

DeadlinePasses ==
  /\ Overruns /\ gen # "idle" /\ ~expired
  /\ expired' = TRUE
  /\ UNCHANGED <<row, doc, versions, gen, desk, job, shown, torn, orphaned>>

\* Assemble, Generate and ValidateContent: any of them may fail, and all
\* that is left of them fails once the context has expired.
GenerateContent ==
  /\ gen = "working"
  /\ \/ ~expired /\ gen' = "storing"
     \/ gen' = "failing"
  /\ UNCHANGED <<row, doc, versions, expired, desk, job, shown, torn, orphaned>>

\* A failed UPDATE may have been committed all the same.
StoreGenerated ==
  /\ gen = "storing"
  /\ \/ /\ ~expired /\ gen' = "snapshot"
        /\ StoreDoc([doc EXCEPT !.status = "editing", !.version = 1,
                                !.content = Generated])
     \/ /\ Faults /\ gen' = "failing"
        /\ StoreDoc([doc EXCEPT !.status = "editing", !.version = 1,
                                !.content = Generated])
     \/ /\ expired \/ Faults
        /\ gen' = "failing" /\ UNCHANGED <<doc, shown>>
  /\ UNCHANGED <<row, versions, expired, desk, job, torn, orphaned>>

CreateInitialVersion ==
  /\ gen = "snapshot"
  /\ IF expired THEN UNCHANGED versions ELSE CreateVersion(1, Generated)
  /\ gen' = "idle" /\ expired' = FALSE
  /\ UNCHANGED <<row, doc, desk, job, shown, torn, orphaned>>

\* Mutant: the failure is only logged.
FailGenerationSilently ==
  /\ gen = "failing"
  /\ gen' = "idle" /\ expired' = FALSE
  /\ UNCHANGED <<row, doc, versions, desk, job, shown, torn, orphaned>>

\* failGeneration runs on the goroutine's own context: when that has
\* expired its UPDATE fails too.
FailGeneration ==
  /\ gen = "failing"
  /\ \/ /\ ~expired /\ row = "live"
        /\ doc' = [doc EXCEPT !.status = "failed"]
        /\ UNCHANGED orphaned
     \/ /\ expired \/ Faults \/ row # "live"
        /\ orphaned' = orphaned \cup {Generating}
        /\ UNCHANGED doc
  /\ gen' = "idle" /\ expired' = FALSE
  /\ UNCHANGED <<row, versions, desk, job, shown, torn>>

-----------------------------------------------------------------------------
(***************************************************************************)
(* Handlers.  UpdateDocument: read and check the row, record the version   *)
(* it read, write the next one.  RollbackToVersion does the same with a    *)
(* recorded content, looks at no status, and records its result as well.   *)
(***************************************************************************)
deskOthers == <<row, gen, expired, job, orphaned>>

\* What a handler holds goes with it.
GoDesk(e, pc) ==
  desk' = [desk EXCEPT ![e] = IF pc = "idle" THEN IdleDesk ELSE [desk[e] EXCEPT !.pc = pc]]

\* Mutant: an edit is accepted whatever the status.
BeginEditAnyStatus(e) ==
  /\ desk[e].pc = "idle" /\ row = "live" /\ doc.version < MaxVersion
  /\ \E c \in Edits :
       desk' = [desk EXCEPT ![e] = [pc |-> "snapshot", op |-> "edit",
                  version |-> doc.version, content |-> doc.content, new |-> c]]
  /\ UNCHANGED <<deskOthers, doc, versions, shown, torn>>

BeginEdit(e) ==
  /\ desk[e].pc = "idle" /\ row = "live" /\ doc.version < MaxVersion
  /\ doc.status \in {"editing", "failed"}
  /\ \E c \in Edits :
       desk' = [desk EXCEPT ![e] = [pc |-> "snapshot", op |-> "edit",
                  version |-> doc.version, content |-> doc.content, new |-> c]]
  /\ UNCHANGED <<deskOthers, doc, versions, shown, torn>>

BeginRollback(e) ==
  /\ desk[e].pc = "idle" /\ row = "live" /\ doc.version < MaxVersion
  /\ desk' = [desk EXCEPT ![e] = [pc |-> "find", op |-> "rollback",
                version |-> doc.version, content |-> doc.content, new |-> Blank]]
  /\ UNCHANGED <<deskOthers, doc, versions, shown, torn>>

\* The newest ListLimit records.
Recorded == {v \in Numbers : versions[v] # NoContent}
Listed == {v \in Recorded : Cardinality({w \in Recorded : w > v}) < ListLimit}

\* Mutant: a version that was not found is restored.
FindAnyVersion(e) ==
  /\ desk[e].pc = "find"
  /\ \/ GoDesk(e, "idle")
     \/ \E v \in Numbers :
          desk' = [desk EXCEPT ![e].pc = "snapshot", ![e].new = versions[v]]
  /\ UNCHANGED <<deskOthers, doc, versions, shown, torn>>

\* "version not found" ends the handler; only a listed version can be found.
FindVersion(e) ==
  /\ desk[e].pc = "find"
  /\ \/ GoDesk(e, "idle")
     \/ \E v \in Listed :
          desk' = [desk EXCEPT ![e].pc = "snapshot", ![e].new = versions[v]]
  /\ UNCHANGED <<deskOthers, doc, versions, shown, torn>>

\* The content read is recorded; the handler goes on when that fails.  The
\* content is then in no record, unless the number was taken.
RecordBefore(e, c) ==
  LET n == desk[e].version
      missing == row = "live" /\ versions[n] = NoContent
  IN \/ /\ versions' = IF missing THEN [versions EXCEPT ![n] = c] ELSE versions
        /\ UNCHANGED torn
     \/ /\ Faults /\ UNCHANGED versions
        /\ torn' = IF missing THEN torn \cup {n} ELSE torn

\* Mutant: an edit records what it is about to write.
SnapshotNew(e) ==
  /\ desk[e].pc = "snapshot"
  /\ RecordBefore(e, desk[e].new)
  /\ GoDesk(e, "update")
  /\ UNCHANGED <<deskOthers, doc, shown>>

Snapshot(e) ==
  /\ desk[e].pc = "snapshot"
  /\ RecordBefore(e, desk[e].content)
  /\ GoDesk(e, "update")
  /\ UNCHANGED <<deskOthers, doc, shown>>

\* The numbers that writing version n takes from the versions it does not
\* know of.
Passed(n) == {k \in Numbers : n <= k /\ k <= doc.version}

\* Mutant: the version number is not incremented.
UpdateSameVersion(e) ==
  /\ desk[e].pc = "update"
  /\ torn' = IF row = "live" THEN torn \cup Passed(desk[e].version + 1) ELSE torn
  /\ StoreDoc([status |-> "editing", version |-> desk[e].version,
               content |-> desk[e].new])
  /\ GoDesk(e, IF desk[e].op = "rollback" THEN "record" ELSE "idle")
  /\ UNCHANGED <<deskOthers, versions>>

\* The write does not look at the row again.
Update(e) ==
  /\ desk[e].pc = "update"
  /\ torn' = IF row = "live" THEN torn \cup Passed(desk[e].version + 1) ELSE torn
  /\ StoreDoc([status |-> "editing", version |-> desk[e].version + 1,
               content |-> desk[e].new])
  /\ GoDesk(e, IF desk[e].op = "rollback" THEN "record" ELSE "idle")
  /\ UNCHANGED <<deskOthers, versions>>

RecordRollback(e) ==
  /\ desk[e].pc = "record"
  /\ CreateVersion(desk[e].version + 1, desk[e].new)
  /\ GoDesk(e, "idle")
  /\ UNCHANGED <<deskOthers, doc, shown, torn>>

\* A handler ends between two of its calls: its request was cancelled, or
\* the call failed.
HandlerStops(e) ==
  /\ Restarts /\ desk[e].pc # "idle"
  /\ GoDesk(e, "idle")
  /\ UNCHANGED <<deskOthers, doc, versions, shown, torn>>

\* The read before the DELETE changes nothing: a row never comes back, and
\* the DELETE itself reports that it matched none.  Version records and
\* export jobs go with the row (ON DELETE CASCADE); files stay.
DeleteDocument ==
  /\ row = "live"
  /\ row' = "deleted"
  /\ versions' = [v \in Numbers |-> NoContent]
  /\ job' = [x \in Exports |-> [job[x] EXCEPT !.status = "none"]]
  /\ UNCHANGED <<doc, gen, expired, desk, shown, torn, orphaned>>

-----------------------------------------------------------------------------
(***************************************************************************)
(* Exports.  CreateExportJob inserts the job and starts runExport with the *)
(* document it just read, whatever its status.                             *)
(***************************************************************************)
jobOthers == <<row, doc, versions, gen, expired, desk, shown, torn>>

\* UPDATE document_export_jobs: no row, no effect; an error is only logged.
SetJob(x, s, at, file) ==
  /\ \/ /\ job' = [job EXCEPT ![x] = [status |-> IF job[x].status = "none" THEN "none" ELSE s,
                                      at |-> at, file |-> file]]
        /\ UNCHANGED orphaned
     \/ /\ Faults /\ job' = [job EXCEPT ![x].at = at, ![x].file = file]
        /\ orphaned' = IF at = "idle" THEN orphaned \cup {x} ELSE orphaned
  /\ UNCHANGED jobOthers

CreateExportJob(x) ==
  /\ job[x] = NoJob /\ row = "live"
  /\ job' = [job EXCEPT ![x] = [status |-> "pending", at |-> "start", file |-> FALSE]]
  /\ UNCHANGED <<jobOthers, orphaned>>

StartExport(x) == job[x].at = "start" /\ SetJob(x, "processing", "write", FALSE)

\* The exporter writes the file, or fails on the way.
WriteExport(x) ==
  /\ job[x].at = "write"
  /\ \/ job' = [job EXCEPT ![x].at = "check", ![x].file = TRUE]
     \/ job' = [job EXCEPT ![x].at = "fail"]
  /\ UNCHANGED <<jobOthers, orphaned>>

\* Mutant: a file over the limit is removed, and the job goes on.
CheckExportNoReturn(x) ==
  /\ job[x].at = "check"
  /\ \/ job' = [job EXCEPT ![x].at = "complete"]
     \/ job' = [job EXCEPT ![x].at = "complete", ![x].file = FALSE]
  /\ UNCHANGED <<jobOthers, orphaned>>

\* Stat, and the size limit: a file over it is removed.
CheckExport(x) ==
  /\ job[x].at = "check"
  /\ \/ job' = [job EXCEPT ![x].at = "complete"]
     \/ job' = [job EXCEPT ![x].at = "fail", ![x].file = FALSE]
     \/ job' = [job EXCEPT ![x].at = "fail"]
  /\ UNCHANGED <<jobOthers, orphaned>>

CompleteExport(x) ==
  job[x].at = "complete" /\ SetJob(x, "completed", "idle", job[x].file)

\* Mutant: the failure is logged, and not stored.
FailExportSilently(x) ==
  job[x].at = "fail" /\ SetJob(x, job[x].status, "idle", job[x].file)

FailExport(x) == job[x].at = "fail" /\ SetJob(x, "failed", "idle", job[x].file)

\* The process ends: goroutines and handlers end with it, rows stay.
ServiceRestarts ==
  /\ Restarts /\ row # "none"
  /\ gen' = "idle" /\ expired' = FALSE
  /\ desk' = [e \in Editors |-> IdleDesk]
  /\ job' = [x \in Exports |-> [job[x] EXCEPT !.at = "idle"]]
  /\ orphaned' = orphaned \cup {x \in Exports : job[x].at # "idle"}
                          \cup (IF gen # "idle" THEN {Generating} ELSE {})
  /\ UNCHANGED <<row, doc, versions, shown, torn>>

-----------------------------------------------------------------------------
Generation == GenerateContent \/ StoreGenerated \/ CreateInitialVersion \/ FailGeneration
Handles(e) == FindVersion(e) \/ Snapshot(e) \/ Update(e) \/ RecordRollback(e)
RunExport(x) ==
  StartExport(x) \/ WriteExport(x) \/ CheckExport(x) \/ CompleteExport(x) \/ FailExport(x)

Next ==
  \/ GenerateDocument \/ DeadlinePasses \/ Generation \/ DeleteDocument
  \/ \E e \in Editors : BeginEdit(e) \/ BeginRollback(e) \/ Handles(e) \/ HandlerStops(e)
  \/ \E x \in Exports : CreateExportJob(x) \/ RunExport(x)
  \/ ServiceRestarts

Spec == Init /\ [][Next]_vars

-----------------------------------------------------------------------------
(***************************************************************************)
(* No content is lost: whatever the row held under some number is still    *)
(* there, as the row or as that number's record ("Create a version         *)
(* snapshot before updating", document_logic.go), unless the number is     *)
(* torn.  The blank content that generation replaces is not a version.     *)
(***************************************************************************)
NothingLost ==
  row = "live" =>
    \A p \in shown \ {<<1, Blank>>} :
      p[1] \in torn \/ versions[p[1]] = p[2] \/ p = <<doc.version, doc.content>>

(***************************************************************************)
(* A version record is honest: it holds a content the document had under   *)
(* that number, however edits, rollbacks and the generation interleave     *)
(* (CreateVersion's three callers).                                        *)
(***************************************************************************)
RecordsHonest ==
  \A v \in Numbers : versions[v] # NoContent => <<v, versions[v]>> \in shown

(***************************************************************************)
(* The generation goroutine never overwrites what a person wrote: it       *)
(* stores its content over the blank first version only (the status check  *)
(* of UpdateDocument, the version lookup of RollbackToVersion).            *)
(***************************************************************************)
GenerationKeepsEdits ==
  [][StoreGenerated /\ doc' # doc => doc.version = 1 /\ doc.content = Blank]_vars

(***************************************************************************)
(* A completed export can be downloaded: its file was written and is not   *)
(* one that the size limit removed (export_logic.go, runExport).           *)
(***************************************************************************)
CompletedHasFile == \A x \in Exports : job[x].status = "completed" => job[x].file

(***************************************************************************)
(* What reads as being worked on is worked on: a document stays generating *)
(* and an export pending or processing only while its goroutine is there,  *)
(* unless the goroutine's last write failed, came after its deadline, or   *)
(* the process ended before it ("failGeneration updates the document       *)
(* status to failed with an error context", document_logic.go; failExport, *)
(* export_logic.go).                                                       *)
(***************************************************************************)
WorkIsOwned ==
  /\ row = "live" /\ doc.status = "generating" =>
       gen \in {"working", "storing", "failing"} \/ Generating \in orphaned
  /\ \A x \in Exports :
       job[x].status \in {"pending", "processing"} => job[x].at # "idle" \/ x \in orphaned

(***************************************************************************)
(* The version history as its abstract specification sees it: the numbers  *)
(* that are not torn.                                                      *)
(***************************************************************************)
History ==
  IF row = "live"
    THEN [v \in (1..doc.version) \ torn |->
            IF v = doc.version THEN doc.content ELSE versions[v]]
    ELSE << >>

Lost == IF row = "live" THEN torn ELSE {}

VH == INSTANCE VersionHistory WITH history <- History, lost <- Lost

(***************************************************************************)
(* However edits, rollbacks and the generation interleave, whatever fails, *)
(* is cancelled or restarted, the document keeps a version history of the  *)
(* numbers that no stale write and no failed insert tore: a number is not  *)
(* used twice, and its content stays (document_logic.go, UpdateDocument    *)
(* and runGeneration; version_logic.go, RollbackToVersion).                *)
(***************************************************************************)
ImplementsVersionHistory == VH!Spec

\* A torn number ahead of the row was reached once: so are those before it.
TornFromTheRow == \A k \in torn : \A n \in Numbers : doc.version <= n /\ n <= k => n \in torn

\* Every passed number is recorded, no number ahead is, and the record of
\* the current one, if there is one, is right: torn ones aside.
Contiguous ==
  /\ row # "live" => \A v \in Numbers : versions[v] = NoContent
  /\ row = "live" =>
       /\ TornFromTheRow
       /\ \A v \in Numbers \ torn :
            /\ v < doc.version => versions[v] # NoContent
            /\ v > doc.version => versions[v] = NoContent
            /\ v = doc.version => versions[v] \in {NoContent, doc.content}

GenerationAlone ==
  row = "live" =>
    /\ gen \in {"working", "storing"} =>
         /\ doc = [status |-> "generating", version |-> 1, content |-> Blank]
         /\ versions[1] = NoContent /\ torn = {}
         /\ \A e \in Editors : desk[e].pc \in {"idle", "find"}
    /\ doc.version = 1 =>
         /\ torn \subseteq {1}
         /\ \A v \in Numbers : v > 1 => versions[v] = NoContent
         /\ \A e \in Editors : desk[e].version = 1 /\ desk[e].pc # "record"
         /\ gen = "snapshot" => doc.content = Generated

\* What handler e holds is the row, or the number it holds is on record:
\* torn ones aside.
Holds(e) ==
  LET d == desk[e]
      sound == d.version \notin torn
  IN /\ d.pc # "idle" /\ doc.version < d.version =>
          \A n \in Numbers : doc.version <= n /\ n <= d.version => n \in torn
     /\ d.pc = "find" =>
          /\ d.op = "rollback"
          /\ d.version = doc.version /\ sound => d.content = doc.content \/ doc.version = 1
     /\ d.pc = "snapshot" /\ d.version = doc.version /\ sound =>
          d.content = doc.content \/ versions[d.version] # NoContent
     /\ d.pc = "update" /\ sound => versions[d.version] # NoContent
     /\ d.pc \in {"snapshot", "update"} =>
          IF d.op = "edit" THEN d.new \in Edits
                           ELSE \E v \in Numbers : versions[v] = d.new
     /\ d.pc = "record" /\ d.version + 1 \notin torn =>
          /\ d.version + 1 <= doc.version
          /\ d.version + 1 = doc.version => d.new = doc.content

(***************************************************************************)
(* The version history's argument: a handler that holds a number the row   *)
(* has not left writes the next one; one that holds another number tears   *)
(* what it writes over (document_logic.go, version_logic.go).              *)
(***************************************************************************)
HistoryInv ==
  /\ Contiguous
  /\ GenerationAlone
  /\ \A e \in Editors : row = "live" => Holds(e)
  /\ NothingLost

\* A handler at work was called below the bound.
DesksBounded == \A e \in Editors : desk[e].pc # "idle" => desk[e].version < MaxVersion

\* What may be recorded was in the row.
HonestRow ==
  /\ row = "live" => <<doc.version, doc.content>> \in shown
  /\ row = "live" /\ gen = "snapshot" => <<1, Generated>> \in shown

HonestDesk(e) ==
  /\ desk[e].pc \in {"find", "snapshot", "update"} =>
       <<desk[e].version, desk[e].content>> \in shown
  /\ row = "live" /\ desk[e].pc = "record" =>
       <<desk[e].version + 1, desk[e].new>> \in shown

Untouched ==
  row = "none" =>
    /\ \A v \in Numbers : versions[v] = NoContent
    /\ \A e \in Editors : desk[e] = IdleDesk
    /\ gen = "idle" /\ torn = {}
    /\ doc = [status |-> "generating", version |-> 1, content |-> Blank]

(***************************************************************************)
(* Why records are honest, with any number of handlers and with failing    *)
(* calls: everything that may be recorded was in the row (CreateVersion's  *)
(* callers).                                                               *)
(***************************************************************************)
HonestInv ==
  /\ RecordsHonest
  /\ HonestRow
  /\ Untouched
  /\ \A e \in Editors : HonestDesk(e)
=============================================================================
