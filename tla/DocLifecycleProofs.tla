-------------------------- MODULE DocLifecycleProofs --------------------------
(***************************************************************************)
(* Proofs about DocLifecycle, for any number of editors, exports, contents *)
(* and versions.                                                           *)
(***************************************************************************)
EXTENDS DocLifecycle, TLAPS

rowVars  == <<row, doc, shown>>
goVars   == <<gen, expired>>

Pcs == {"idle", "find", "snapshot", "update", "record"}

(***************************************************************************)
(* Contents and "no record" are told apart; the first version is a number. *)
(***************************************************************************)
LEMMA ContentFacts ==
  /\ Blank \in Contents /\ Generated \in Contents /\ Blank # Generated
  /\ NoContent \notin Contents /\ Edits \subseteq Contents
  /\ 1 \in Numbers /\ Numbers \subseteq Nat
<1>1. Blank \in Contents /\ Generated \in Contents /\ Edits \subseteq Contents
  BY DEF Contents
<1>2. Blank # Generated
  BY DEF Blank, Generated
<1>3. NoContent \notin Contents
  BY DocAssumption
<1>4. MaxVersion \in Nat \ {0}
  BY DocAssumption
<1>5. 1 \in Numbers /\ Numbers \subseteq Nat
  BY <1>4 DEF Numbers
<1> QED
  BY <1>1, <1>2, <1>3, <1>5

(***************************************************************************)
(* StoreDoc: the row becomes d, or is gone and nothing changes.            *)
(***************************************************************************)
LEMMA StoreDocTypes ==
  ASSUME TypeOK, NEW d \in Doc, StoreDoc(d)
  PROVE  doc' \in Doc /\ shown' \subseteq (Numbers \X Contents)
<1>1. CASE row = "live"
  <2>1. doc' = d /\ shown' = shown \cup {<<d.version, d.content>>}
    BY <1>1 DEF StoreDoc
  <2>2. d.version \in Numbers /\ d.content \in Contents
    BY DEF Doc
  <2> QED
    BY <2>1, <2>2 DEF TypeOK
<1>2. CASE row # "live"
  BY <1>2 DEF StoreDoc, TypeOK
<1> QED
  BY <1>1, <1>2

(***************************************************************************)
(* CreateVersion: at most one record is added, under a free number of a    *)
(* live document.                                                          *)
(***************************************************************************)
LEMMA CreateVersionFacts ==
  ASSUME TypeOK, NEW v \in Numbers, NEW c \in Contents, CreateVersion(v, c)
  PROVE  /\ versions' \in [Numbers -> Contents \cup {NoContent}]
         /\ row # "live" => versions' = versions
         /\ \A w \in Numbers :
              \/ versions'[w] = versions[w]
              \/ w = v /\ versions[w] = NoContent /\ versions'[w] = c
         /\ row = "live" /\ ~Faults => versions'[v] # NoContent
<1>0. versions \in [Numbers -> Contents \cup {NoContent}]
  BY DEF TypeOK
<1>1. CASE row = "live" /\ versions[v] = NoContent /\ versions' = [versions EXCEPT ![v] = c]
  <2>1. versions' \in [Numbers -> Contents \cup {NoContent}]
    BY <1>0, <1>1
  <2>2. versions'[v] = c /\ c # NoContent
    BY <1>0, <1>1, ContentFacts
  <2>3. \A w \in Numbers : w # v => versions'[w] = versions[w]
    BY <1>0, <1>1
  <2> QED
    BY <1>1, <2>1, <2>2, <2>3
<1>2. CASE versions' = versions /\ (~(row = "live" /\ versions[v] = NoContent) \/ Faults)
  BY <1>0, <1>2
<1> QED
  BY <1>1, <1>2 DEF CreateVersion

(***************************************************************************)
(* RecordBefore is a CreateVersion that notes the number it leaves out.    *)
(***************************************************************************)
LEMMA RecordBeforeFacts ==
  ASSUME TypeOK, NEW e \in Editors, NEW c \in Contents, RecordBefore(e, c)
  PROVE  /\ CreateVersion(desk[e].version, c)
         /\ desk[e].version \in Numbers
         /\ torn' \in {torn, torn \cup {desk[e].version}}
         /\ row = "live" /\ torn' = torn =>
              versions'[desk[e].version] # NoContent \/ desk[e].version \in torn
         /\ row # "live" => torn' = torn
<1>1. desk[e].version \in Numbers
  BY DEF TypeOK, Desk
<1>2. versions \in [Numbers -> Contents \cup {NoContent}]
  BY DEF TypeOK
<1>3. c # NoContent
  BY ContentFacts
<1> QED
  BY <1>1, <1>2, <1>3 DEF RecordBefore, CreateVersion

(***************************************************************************)
(* A handler's next position, and the handlers' own bound.                 *)
(***************************************************************************)
DesksTyped == desk \in [Editors -> Desk] /\ DesksBounded

LEMMA GoDeskTypes ==
  ASSUME DesksTyped, NEW e \in Editors, NEW pc \in Pcs,
         desk[e].pc # "idle" \/ pc = "idle", GoDesk(e, pc)
  PROVE  DesksTyped'
<1> DEFINE d == IF pc = "idle" THEN IdleDesk ELSE [desk[e] EXCEPT !.pc = pc]
<1>1. desk' = [desk EXCEPT ![e] = d]
  BY DEF GoDesk
<1>2. desk[e] \in Desk
  BY DEF DesksTyped
<1>3. d \in Desk /\ d.pc = pc /\ (pc # "idle" => d.version = desk[e].version)
  BY <1>2, ContentFacts DEF Desk, Pcs, IdleDesk
<1> HIDE DEF d
<1>5. desk' \in [Editors -> Desk]
  BY <1>1, <1>3 DEF DesksTyped
<1>6. desk'[e] = d /\ \A f \in Editors : f # e => desk'[f] = desk[f]
  BY <1>1 DEF DesksTyped
<1>7. desk'[e].pc = pc /\ (pc # "idle" => desk'[e].version = desk[e].version)
  BY <1>3, <1>6
<1>8. DesksBounded'
  BY <1>6, <1>7 DEF DesksTyped, DesksBounded
<1> QED
  BY <1>5, <1>8 DEF DesksTyped

\* What a handler of e reads when it starts.
LEMMA BeginDeskTypes ==
  ASSUME DesksTyped, TypeOK, doc.version < MaxVersion, NEW e \in Editors,
         NEW pc \in Pcs, NEW op \in {"edit", "rollback"}, NEW c \in Contents,
         desk' = [desk EXCEPT ![e] = [pc |-> pc, op |-> op, version |-> doc.version,
                                      content |-> doc.content, new |-> c]]
  PROVE  DesksTyped'
<1> DEFINE d == [pc |-> pc, op |-> op, version |-> doc.version,
                 content |-> doc.content, new |-> c]
<1>1. doc.version \in Numbers /\ doc.content \in Contents
  BY DEF TypeOK, Doc
<1>2. d \in Desk /\ d.version = doc.version
  BY <1>1 DEF Desk, Pcs
<1>3. desk' = [desk EXCEPT ![e] = d]
  OBVIOUS
<1> HIDE DEF d
<1>4. desk' \in [Editors -> Desk]
  BY <1>2, <1>3 DEF DesksTyped
<1>5. desk'[e] = d /\ \A f \in Editors : f # e => desk'[f] = desk[f]
  BY <1>3 DEF DesksTyped
<1>6. DesksBounded'
  BY <1>2, <1>5 DEF DesksTyped, DesksBounded
<1> QED
  BY <1>4, <1>6 DEF DesksTyped

LEMMA FindTypes ==
  ASSUME DesksTyped, TypeOK, NEW e \in Editors, FindVersion(e)
  PROVE  DesksTyped'
<1>1. CASE GoDesk(e, "idle")
  BY <1>1, GoDeskTypes DEF Pcs
<1>2. ASSUME NEW v \in Listed,
             desk' = [desk EXCEPT ![e].pc = "snapshot", ![e].new = versions[v]]
      PROVE  DesksTyped'
  <2>1. versions[v] \in Contents
    BY <1>2 DEF TypeOK, Listed, Recorded
  <2> DEFINE d == [desk[e] EXCEPT !.pc = "snapshot", !.new = versions[v]]
  <2>2. desk[e] \in Desk /\ desk[e].pc = "find"
    BY DEF DesksTyped, FindVersion
  <2>3. d \in Desk /\ d.version = desk[e].version
    BY <2>1, <2>2 DEF Desk
  <2>4. desk' = [desk EXCEPT ![e] = d]
    BY <1>2
  <2> HIDE DEF d
  <2>5. desk' \in [Editors -> Desk]
    BY <2>3, <2>4 DEF DesksTyped
  <2>6. desk'[e] = d /\ \A f \in Editors : f # e => desk'[f] = desk[f]
    BY <2>4 DEF DesksTyped
  <2>7. DesksBounded'
    BY <2>2, <2>3, <2>6 DEF DesksTyped, DesksBounded
  <2> QED
    BY <2>5, <2>7 DEF DesksTyped
<1> QED
  BY <1>1, <1>2 DEF FindVersion

(***************************************************************************)
(* Types, group by group.                                                  *)
(***************************************************************************)
RowTyped == /\ row \in {"none", "live", "deleted"} /\ doc \in Doc
            /\ shown \subseteq (Numbers \X Contents)
VersionsTyped == versions \in [Numbers -> Contents \cup {NoContent}]
GenTyped == gen \in {"idle", "working", "storing", "snapshot", "failing"} /\ expired \in BOOLEAN
JobsTyped == job \in [Exports -> Job]

HistoryTyped == torn \subseteq Numbers /\ orphaned \subseteq Exports \cup {Generating}

LEMMA Typed ==
  TypeOK /\ DesksBounded <=>
    RowTyped /\ VersionsTyped /\ GenTyped /\ JobsTyped /\ DesksTyped /\ HistoryTyped
BY DEF TypeOK, RowTyped, VersionsTyped, GenTyped, JobsTyped, DesksTyped, HistoryTyped

\* What the history variables may gain.
LEMMA HistoryTypes ==
  ASSUME TypeOK, [Next]_vars
  PROVE  HistoryTyped'
<1>0. HistoryTyped
  BY DEF TypeOK, HistoryTyped
<1>1. CASE GenerateDocument \/ DeadlinePasses \/ Generation \/ DeleteDocument
  BY <1>0, <1>1 DEF GenerateDocument, DeadlinePasses, Generation, GenerateContent,
     StoreGenerated, CreateInitialVersion, FailGeneration, DeleteDocument, HistoryTyped
<1>2. ASSUME NEW e \in Editors,
             BeginEdit(e) \/ BeginRollback(e) \/ Handles(e) \/ HandlerStops(e)
      PROVE  HistoryTyped'
  <2>1. CASE Snapshot(e)
    <3>1. desk[e].content \in Contents /\ RecordBefore(e, desk[e].content)
      BY <2>1 DEF Snapshot, TypeOK, Desk
    <3> QED
      BY <1>0, <2>1, <3>1, RecordBeforeFacts DEF Snapshot, deskOthers, HistoryTyped
  <2>2. CASE Update(e)
    BY <1>0, <2>2 DEF Update, Passed, deskOthers, HistoryTyped
  <2>3. CASE BeginEdit(e) \/ BeginRollback(e) \/ FindVersion(e) \/ RecordRollback(e) \/ HandlerStops(e)
    BY <1>0, <2>3 DEF BeginEdit, BeginRollback, FindVersion, RecordRollback, HandlerStops,
       deskOthers, HistoryTyped
  <2> QED
    BY <1>2, <2>1, <2>2, <2>3 DEF Handles
<1>3. ASSUME NEW x \in Exports, CreateExportJob(x) \/ RunExport(x)
      PROVE  HistoryTyped'
  BY <1>0, <1>3 DEF CreateExportJob, RunExport, StartExport, WriteExport, CheckExport,
     CompleteExport, FailExport, SetJob, jobOthers, HistoryTyped
<1>4. CASE ServiceRestarts
  BY <1>0, <1>4 DEF ServiceRestarts, HistoryTyped
<1>5. CASE UNCHANGED vars
  BY <1>0, <1>5 DEF vars, HistoryTyped
<1> QED
  BY <1>1, <1>2, <1>3, <1>4, <1>5 DEF Next

LEMMA GenerationTypes ==
  ASSUME TypeOK, DesksBounded,
         GenerateDocument \/ DeadlinePasses \/ Generation
  PROVE  RowTyped' /\ VersionsTyped' /\ GenTyped' /\ UNCHANGED <<desk, job>>
<1>1. CASE GenerateDocument
  <2>1. <<doc.version, doc.content>> \in Numbers \X Contents
    BY DEF TypeOK, Doc
  <2> QED
    BY <1>1, <2>1 DEF GenerateDocument, TypeOK, RowTyped, VersionsTyped, GenTyped
<1>2. CASE DeadlinePasses \/ GenerateContent
  BY <1>2 DEF DeadlinePasses, GenerateContent, TypeOK, RowTyped, VersionsTyped, GenTyped
<1>3. CASE StoreGenerated
  <2> DEFINE d == [doc EXCEPT !.status = "editing", !.version = 1, !.content = Generated]
  <2>1. d \in Doc
    BY ContentFacts DEF TypeOK, Doc
  <2>2. StoreDoc(d) \/ UNCHANGED <<doc, shown>>
    BY <1>3 DEF StoreGenerated
  <2> HIDE DEF d
  <2>3. doc' \in Doc /\ shown' \subseteq (Numbers \X Contents)
    BY <2>1, <2>2, StoreDocTypes DEF TypeOK
  <2> QED
    BY <1>3, <2>3 DEF StoreGenerated, TypeOK, RowTyped, VersionsTyped, GenTyped
<1>4. CASE CreateInitialVersion
  <2>1. VersionsTyped'
    BY <1>4, ContentFacts, CreateVersionFacts DEF CreateInitialVersion, VersionsTyped, TypeOK
  <2> QED
    BY <1>4, <2>1 DEF CreateInitialVersion, TypeOK, RowTyped, GenTyped
<1>5. CASE FailGeneration
  <2>1. doc' \in Doc
    BY <1>5 DEF FailGeneration, TypeOK, Doc
  <2> QED
    BY <1>5, <2>1 DEF FailGeneration, TypeOK, RowTyped, VersionsTyped, GenTyped
<1> QED
  BY <1>1, <1>2, <1>3, <1>4, <1>5 DEF Generation

LEMMA HandlerTypes ==
  ASSUME TypeOK, DesksBounded, NEW e \in Editors,
         BeginEdit(e) \/ BeginRollback(e) \/ Handles(e) \/ HandlerStops(e)
  PROVE  RowTyped' /\ VersionsTyped' /\ DesksTyped' /\ UNCHANGED <<gen, expired, job>>
<1>0. DesksTyped /\ RowTyped /\ VersionsTyped /\ desk[e] \in Desk
  BY DEF DesksTyped, TypeOK, RowTyped, VersionsTyped
<1>1. CASE BeginEdit(e)
  <2>1. DesksTyped'
    BY <1>0, <1>1, BeginDeskTypes, ContentFacts DEF BeginEdit, Pcs
  <2> QED
    BY <1>0, <1>1, <2>1 DEF BeginEdit, deskOthers, RowTyped, VersionsTyped
<1>2. CASE BeginRollback(e)
  <2>1. DesksTyped'
    BY <1>0, <1>2, BeginDeskTypes, ContentFacts DEF BeginRollback, Pcs
  <2> QED
    BY <1>0, <1>2, <2>1 DEF BeginRollback, deskOthers, RowTyped, VersionsTyped
<1>3. CASE FindVersion(e)
  <2>1. DesksTyped'
    BY <1>0, <1>3, FindTypes
  <2> QED
    BY <1>0, <1>3, <2>1 DEF FindVersion, deskOthers, RowTyped, VersionsTyped
<1>4. CASE Snapshot(e)
  <2>1. desk[e].version \in Numbers /\ desk[e].content \in Contents
    BY <1>0 DEF Desk
  <2>2. VersionsTyped'
    BY <1>4, <2>1, RecordBeforeFacts, CreateVersionFacts DEF Snapshot, VersionsTyped
  <2>3. DesksTyped'
    BY <1>0, <1>4, GoDeskTypes DEF Snapshot, Pcs
  <2> QED
    BY <1>0, <1>4, <2>2, <2>3 DEF Snapshot, deskOthers, RowTyped
<1>5. CASE Update(e)
  <2> DEFINE d == [status |-> "editing", version |-> desk[e].version + 1,
                   content |-> desk[e].new]
  <2>1. desk[e].version < MaxVersion /\ desk[e].version \in Numbers /\ desk[e].new \in Contents
    BY <1>0, <1>5 DEF Update, DesksTyped, DesksBounded, Desk
  <2>2. desk[e].version + 1 \in Numbers
    BY <2>1, DocAssumption DEF Numbers
  <2>3. d \in Doc
    BY <2>1, <2>2 DEF Doc
  <2>4. StoreDoc(d)
    BY <1>5 DEF Update
  <2>5. doc' \in Doc /\ shown' \subseteq (Numbers \X Contents)
    BY <2>3, <2>4, StoreDocTypes
  <2>6. DesksTyped'
    <3>1. GoDesk(e, "record") \/ GoDesk(e, "idle")
      BY <1>5 DEF Update
    <3> QED
      BY <1>0, <1>5, <3>1, GoDeskTypes DEF Update, Pcs
  <2> QED
    BY <1>0, <1>5, <2>5, <2>6 DEF Update, deskOthers, RowTyped, VersionsTyped
<1>6. CASE RecordRollback(e)
  <2>1. desk[e].version < MaxVersion /\ desk[e].version \in Numbers /\ desk[e].new \in Contents
    BY <1>0, <1>6 DEF RecordRollback, DesksTyped, DesksBounded, Desk
  <2>2. desk[e].version + 1 \in Numbers
    BY <2>1, DocAssumption DEF Numbers
  <2>3. VersionsTyped'
    BY <1>6, <2>1, <2>2, CreateVersionFacts DEF RecordRollback, VersionsTyped
  <2>4. DesksTyped'
    BY <1>0, <1>6, GoDeskTypes DEF RecordRollback, Pcs
  <2> QED
    BY <1>0, <1>6, <2>3, <2>4 DEF RecordRollback, deskOthers, RowTyped
<1>7. CASE HandlerStops(e)
  <2>1. DesksTyped'
    BY <1>0, <1>7, GoDeskTypes DEF HandlerStops, Pcs
  <2> QED
    BY <1>0, <1>7, <2>1 DEF HandlerStops, deskOthers, RowTyped, VersionsTyped
<1> QED
  BY <1>1, <1>2, <1>3, <1>4, <1>5, <1>6, <1>7 DEF Handles

LEMMA SetJobTypes ==
  ASSUME JobsTyped, NEW x \in Exports,
         NEW s \in {"none", "pending", "processing", "completed", "failed"},
         NEW at \in {"idle", "start", "write", "check", "complete", "fail"},
         NEW file \in BOOLEAN, SetJob(x, s, at, file)
  PROVE  JobsTyped'
<1>1. job[x] \in Job
  BY DEF JobsTyped
<1>2. [status |-> IF job[x].status = "none" THEN "none" ELSE s, at |-> at, file |-> file] \in Job
  BY <1>1 DEF Job
<1>3. [job[x] EXCEPT !.at = at, !.file = file] \in Job
  BY <1>1 DEF Job
<1>4. CASE job' = [job EXCEPT ![x] = [status |-> IF job[x].status = "none" THEN "none" ELSE s,
                                   at |-> at, file |-> file]]
  BY <1>2, <1>4 DEF JobsTyped
<1>5. CASE job' = [job EXCEPT ![x].at = at, ![x].file = file]
  <2>1. job' = [job EXCEPT ![x] = [job[x] EXCEPT !.at = at, !.file = file]]
    BY <1>5
  <2> QED
    BY <1>3, <2>1 DEF JobsTyped
<1> QED
  BY <1>4, <1>5 DEF SetJob

LEMMA ExportTypes ==
  ASSUME TypeOK, NEW x \in Exports, CreateExportJob(x) \/ RunExport(x)
  PROVE  JobsTyped' /\ UNCHANGED jobOthers
<1>0. JobsTyped /\ job[x] \in Job
  BY DEF TypeOK, JobsTyped
<1>1. CASE CreateExportJob(x)
  BY <1>0, <1>1 DEF CreateExportJob, JobsTyped, Job
<1>2. CASE StartExport(x)
  BY <1>0, <1>2, SetJobTypes DEF StartExport, SetJob
<1>3. CASE CompleteExport(x) \/ FailExport(x)
  <2>1. job[x].file \in BOOLEAN
    BY <1>0 DEF Job
  <2>2. SetJob(x, "completed", "idle", job[x].file) \/ SetJob(x, "failed", "idle", job[x].file)
    BY <1>3 DEF CompleteExport, FailExport
  <2> QED
    BY <1>0, <2>1, <2>2, SetJobTypes DEF SetJob
<1>4. CASE WriteExport(x) \/ CheckExport(x)
  <2>1. \E at \in {"check", "complete", "fail"}, file \in BOOLEAN :
          job' = [job EXCEPT ![x] = [job[x] EXCEPT !.at = at, !.file = file]]
    <3>1. job[x].file \in BOOLEAN
      BY <1>0 DEF Job
    <3>2. \A at \in {"check", "complete", "fail"} :
            [job[x] EXCEPT !.at = at] = [job[x] EXCEPT !.at = at, !.file = job[x].file]
      BY <1>0 DEF Job
    <3> QED
      BY <1>4, <3>1, <3>2 DEF WriteExport, CheckExport
  <2>2. PICK at \in {"check", "complete", "fail"}, file \in BOOLEAN :
          job' = [job EXCEPT ![x] = [job[x] EXCEPT !.at = at, !.file = file]]
    BY <2>1
  <2>3. [job[x] EXCEPT !.at = at, !.file = file] \in Job
    BY <1>0 DEF Job
  <2> QED
    BY <1>0, <1>4, <2>2, <2>3 DEF WriteExport, CheckExport, JobsTyped
<1> QED
  BY <1>1, <1>2, <1>3, <1>4 DEF RunExport

LEMMA InitTyped == ASSUME Init PROVE TypeOK /\ DesksBounded
<1>1. doc \in Doc
  BY ContentFacts DEF Init, Doc
<1>2. versions \in [Numbers -> Contents \cup {NoContent}]
  BY DEF Init
<1>3. IdleDesk \in Desk /\ IdleDesk.pc = "idle"
  BY ContentFacts DEF IdleDesk, Desk
<1>4. desk \in [Editors -> Desk] /\ DesksBounded
  BY <1>3 DEF Init, DesksBounded
<1>5. NoJob \in Job
  BY DEF NoJob, Job
<1> QED
  BY <1>1, <1>2, <1>4, <1>5 DEF Init, TypeOK

LEMMA NextTyped ==
  ASSUME TypeOK, DesksBounded, [Next]_vars
  PROVE  TypeOK' /\ DesksBounded'
<1>0. RowTyped /\ VersionsTyped /\ GenTyped /\ JobsTyped /\ DesksTyped
  BY Typed
<1>1. ASSUME RowTyped' /\ VersionsTyped' /\ GenTyped' /\ JobsTyped' /\ DesksTyped'
      PROVE  TypeOK' /\ DesksBounded'
  BY <1>1, HistoryTypes
     DEF TypeOK, RowTyped, VersionsTyped, GenTyped, JobsTyped, DesksTyped, HistoryTyped
<1>2. CASE GenerateDocument \/ DeadlinePasses \/ Generation
  <2>1. RowTyped' /\ VersionsTyped' /\ GenTyped' /\ UNCHANGED <<desk, job>>
    BY <1>2, GenerationTypes
  <2>2. JobsTyped' /\ DesksTyped'
    BY <1>0, <2>1 DEF JobsTyped, DesksTyped, DesksBounded
  <2> QED
    BY <1>1, <2>1, <2>2
<1>3. CASE DeleteDocument
  <2>1. \A x \in Exports : [job[x] EXCEPT !.status = "none"] \in Job
    BY <1>0 DEF JobsTyped, Job
  <2>2. JobsTyped'
    BY <1>3, <2>1 DEF DeleteDocument, JobsTyped
  <2>3. VersionsTyped'
    BY <1>3 DEF DeleteDocument, VersionsTyped
  <2>4. RowTyped' /\ GenTyped' /\ DesksTyped'
    BY <1>0, <1>3 DEF DeleteDocument, RowTyped, GenTyped, DesksTyped, DesksBounded
  <2> QED
    BY <1>1, <2>2, <2>3, <2>4
<1>4. ASSUME NEW e \in Editors,
             BeginEdit(e) \/ BeginRollback(e) \/ Handles(e) \/ HandlerStops(e)
      PROVE  TypeOK' /\ DesksBounded'
  <2>1. RowTyped' /\ VersionsTyped' /\ DesksTyped' /\ UNCHANGED <<gen, expired, job>>
    BY <1>4, HandlerTypes
  <2>2. GenTyped' /\ JobsTyped'
    BY <1>0, <2>1 DEF JobsTyped, GenTyped
  <2> QED
    BY <1>1, <2>1, <2>2
<1>5. ASSUME NEW x \in Exports, CreateExportJob(x) \/ RunExport(x)
      PROVE  TypeOK' /\ DesksBounded'
  <2>1. JobsTyped' /\ UNCHANGED jobOthers
    BY <1>5, ExportTypes
  <2>2. RowTyped' /\ VersionsTyped' /\ GenTyped' /\ DesksTyped'
    BY <1>0, <2>1 DEF jobOthers, RowTyped, VersionsTyped, GenTyped, DesksTyped, DesksBounded
  <2> QED
    BY <1>1, <2>1, <2>2
<1>6. CASE ServiceRestarts
  <2>1. \A x \in Exports : [job[x] EXCEPT !.at = "idle"] \in Job
    BY <1>0 DEF JobsTyped, Job
  <2>2. JobsTyped'
    BY <1>6, <2>1 DEF ServiceRestarts, JobsTyped
  <2>3. IdleDesk \in Desk /\ IdleDesk.pc = "idle"
    BY ContentFacts DEF IdleDesk, Desk
  <2>4. DesksTyped'
    BY <1>6, <2>3 DEF ServiceRestarts, DesksTyped, DesksBounded
  <2>5. RowTyped' /\ VersionsTyped' /\ GenTyped'
    BY <1>0, <1>6 DEF ServiceRestarts, RowTyped, VersionsTyped, GenTyped
  <2> QED
    BY <1>1, <2>2, <2>4, <2>5
<1>7. CASE UNCHANGED vars
  BY <1>7 DEF vars, TypeOK, DesksBounded
<1> QED
  BY <1>2, <1>3, <1>4, <1>5, <1>6, <1>7 DEF Next

(***************************************************************************)
(* Every reachable state is well formed, and no handler writes past the    *)
(* bound it was called under.                                              *)
(***************************************************************************)
THEOREM TypeCorrect == Spec => []TypeOK
<1>1. Init => TypeOK /\ DesksBounded
  BY InitTyped
<1>2. TypeOK /\ DesksBounded /\ [Next]_vars => TypeOK' /\ DesksBounded'
  BY NextTyped
<1> QED
  BY <1>1, <1>2, PTL DEF Spec

-----------------------------------------------------------------------------
(***************************************************************************)
(* Records are honest: what a caller hands to CreateVersion was shown.     *)
(***************************************************************************)

(***************************************************************************)
(* StoreDoc only adds to what was shown, and shows what it stores.         *)
(***************************************************************************)
LEMMA StoreDocShows ==
  ASSUME NEW d, StoreDoc(d)
  PROVE  /\ shown \subseteq shown'
         /\ row = "live" => doc' = d /\ shown' = shown \cup {<<d.version, d.content>>}
         /\ row # "live" => doc' = doc
<1>1. CASE row = "live"
  <2>1. doc' = d /\ shown' = shown \cup {<<d.version, d.content>>}
    BY <1>1, Zenon DEF StoreDoc
  <2> QED
    BY <1>1, <2>1
<1>2. CASE row # "live"
  <2>1. doc' = doc /\ shown' = shown
    BY <1>2, Zenon DEF StoreDoc
  <2> QED
    BY <1>2, <2>1
<1> QED
  BY <1>1, <1>2

\* A record added for a pair that was shown keeps the records honest.
LEMMA RecordShown ==
  ASSUME TypeOK, RecordsHonest, NEW v \in Numbers, NEW c \in Contents,
         row = "live" => <<v, c>> \in shown, CreateVersion(v, c), shown' = shown
  PROVE  RecordsHonest'
<1> SUFFICES ASSUME NEW w \in Numbers, versions'[w] # NoContent
             PROVE  <<w, versions'[w]>> \in shown
  BY DEF RecordsHonest
<1>1. versions'[w] = versions[w] \/ (w = v /\ versions[w] = NoContent /\ versions'[w] = c)
  BY CreateVersionFacts
<1>2. CASE versions'[w] = versions[w]
  BY <1>2 DEF RecordsHonest
<1>3. CASE w = v /\ versions[w] = NoContent /\ versions'[w] = c
  <2>1. row = "live"
    BY <1>3, CreateVersionFacts
  <2> QED
    BY <1>3, <2>1
<1> QED
  BY <1>1, <1>2, <1>3

\* Other handlers keep what they hold.
LEMMA OtherDesks ==
  ASSUME DesksTyped, NEW e \in Editors, \A f \in Editors : HonestDesk(f),
         shown \subseteq shown', row' = row,
         NEW d, desk' = [desk EXCEPT ![e] = d],
         d.pc \in {"find", "snapshot", "update"} => <<d.version, d.content>> \in shown',
         row = "live" /\ d.pc = "record" => <<d.version + 1, d.new>> \in shown'
  PROVE  \A f \in Editors : HonestDesk(f)'
<1> TAKE f \in Editors
<1>1. CASE f = e
  <2>1. desk'[f] = d
    BY <1>1 DEF DesksTyped
  <2> QED
    BY <2>1 DEF HonestDesk
<1>2. CASE f # e
  <2>1. desk'[f] = desk[f]
    BY <1>2 DEF DesksTyped
  <2> QED
    BY <2>1 DEF HonestDesk
<1> QED
  BY <1>1, <1>2

\* Advancing a handler's position, field by field.
DeskGoes(e, pc, d) ==
  /\ desk' = [desk EXCEPT ![e] = d]
  /\ d.pc = pc
  /\ pc = "idle" => d = IdleDesk
  /\ pc # "idle" => /\ d.op = desk[e].op /\ d.version = desk[e].version
                   /\ d.content = desk[e].content /\ d.new = desk[e].new

LEMMA GoDeskIs ==
  ASSUME DesksTyped, NEW e \in Editors, NEW pc, GoDesk(e, pc)
  PROVE  \E d : DeskGoes(e, pc, d)
<1> DEFINE d == IF pc = "idle" THEN IdleDesk ELSE [desk[e] EXCEPT !.pc = pc]
<1>1. desk[e] \in Desk
  BY DEF DesksTyped
<1>2. /\ d.pc = pc /\ (pc = "idle" => d = IdleDesk)
      /\ pc # "idle" => /\ d.op = desk[e].op /\ d.version = desk[e].version
                       /\ d.content = desk[e].content /\ d.new = desk[e].new
  BY <1>1 DEF Desk, IdleDesk
<1>3. desk' = [desk EXCEPT ![e] = d]
  BY DEF GoDesk
<1> HIDE DEF d
<1>4. DeskGoes(e, pc, d)
  BY <1>2, <1>3 DEF DeskGoes
<1> QED
  BY <1>4

LEMMA DeskUnchanged ==
  ASSUME \A f \in Editors : HonestDesk(f), shown \subseteq shown', row' = row, desk' = desk
  PROVE  \A f \in Editors : HonestDesk(f)'
BY DEF HonestDesk

LEMMA GenerationHonest ==
  ASSUME TypeOK, HonestInv, DeadlinePasses \/ Generation
  PROVE  HonestInv'
<1>0. RecordsHonest /\ HonestRow /\ Untouched /\ \A e \in Editors : HonestDesk(e)
  BY DEF HonestInv
<1>a. row # "none" /\ row' = row /\ desk' = desk
  BY <1>0 DEF Untouched, DeadlinePasses, Generation, GenerateContent, StoreGenerated,
              CreateInitialVersion, FailGeneration
<1>b. Untouched'
  BY <1>a DEF Untouched
<1>c. ASSUME RecordsHonest', HonestRow', shown \subseteq shown' PROVE HonestInv'
  <2>1. \A e \in Editors : HonestDesk(e)'
    BY <1>0, <1>a, <1>c, DeskUnchanged
  <2> QED
    BY <1>b, <1>c, <2>1 DEF HonestInv
<1>1. CASE DeadlinePasses \/ GenerateContent
  BY <1>0, <1>a, <1>c, <1>1 DEF DeadlinePasses, GenerateContent, RecordsHonest, HonestRow
<1>2. CASE StoreGenerated
  <2> DEFINE d == [doc EXCEPT !.status = "editing", !.version = 1, !.content = Generated]
  <2>1. d.version = 1 /\ d.content = Generated
    BY DEF TypeOK, Doc
  <2>2. (StoreDoc(d) /\ gen' \in {"snapshot", "failing"})
          \/ (UNCHANGED <<doc, shown>> /\ gen' = "failing")
    BY <1>2 DEF StoreGenerated
  <2>3. versions' = versions
    BY <1>2 DEF StoreGenerated
  <2> HIDE DEF d
  <2>4. CASE UNCHANGED <<doc, shown>> /\ gen' = "failing"
    BY <1>0, <1>a, <1>c, <2>3, <2>4 DEF RecordsHonest, HonestRow
  <2>5. CASE StoreDoc(d) /\ row = "live"
    <3>1. shown' = shown \cup {<<1, Generated>>} /\ doc' = d
      BY <2>1, <2>5, StoreDocShows
    <3>2. HonestRow'
      BY <2>1, <3>1 DEF HonestRow
    <3>3. RecordsHonest'
      BY <1>0, <2>3, <3>1 DEF RecordsHonest
    <3> QED
      BY <1>c, <3>1, <3>2, <3>3
  <2>6. CASE StoreDoc(d) /\ row # "live"
    <3>1. shown \subseteq shown'
      BY <2>6, StoreDocShows
    <3>2. RecordsHonest'
      BY <1>0, <2>3, <3>1 DEF RecordsHonest
    <3> QED
      BY <1>a, <1>c, <2>6, <3>1, <3>2 DEF HonestRow
  <2> QED
    BY <2>2, <2>4, <2>5, <2>6
<1>3. CASE CreateInitialVersion
  <2>1. shown' = shown /\ doc' = doc /\ gen' = "idle"
    BY <1>3 DEF CreateInitialVersion
  <2>2. CASE versions' = versions
    BY <1>0, <1>a, <1>c, <2>1, <2>2 DEF RecordsHonest, HonestRow
  <2>3. CASE CreateVersion(1, Generated)
    <3>1. row = "live" => <<1, Generated>> \in shown
      BY <1>0, <1>3 DEF HonestRow, CreateInitialVersion
    <3>2. RecordsHonest'
      BY <1>0, <2>1, <2>3, <3>1, ContentFacts, RecordShown
    <3> QED
      BY <1>0, <1>a, <1>c, <2>1, <3>2 DEF HonestRow
  <2> QED
    BY <1>3, <2>2, <2>3 DEF CreateInitialVersion
<1>4. CASE FailGeneration
  <2>1. shown' = shown /\ versions' = versions /\ gen' = "idle"
    BY <1>4 DEF FailGeneration
  <2>2. doc'.version = doc.version /\ doc'.content = doc.content
    BY <1>4 DEF FailGeneration, TypeOK, Doc
  <2> QED
    BY <1>0, <1>a, <1>c, <2>1, <2>2 DEF RecordsHonest, HonestRow
<1> QED
  BY <1>1, <1>2, <1>3, <1>4 DEF Generation

LEMMA HandlerHonest ==
  ASSUME TypeOK, DesksBounded, HonestInv, NEW e \in Editors,
         BeginEdit(e) \/ BeginRollback(e) \/ Handles(e) \/ HandlerStops(e)
  PROVE  HonestInv'
<1>0. /\ RecordsHonest /\ HonestRow /\ Untouched /\ \A f \in Editors : HonestDesk(f)
      /\ DesksTyped /\ desk[e] \in Desk
  BY DEF HonestInv, DesksTyped, TypeOK
<1>a. row # "none" /\ row' = row /\ gen' = gen
  <2>1. row = "none" => desk[e].pc = "idle"
    BY <1>0 DEF Untouched, IdleDesk
  <2> QED
    BY <2>1 DEF BeginEdit, BeginRollback, Handles, HandlerStops, FindVersion,
                Snapshot, Update, RecordRollback, deskOthers
<1>b. Untouched'
  BY <1>a DEF Untouched
<1>c. ASSUME RecordsHonest', HonestRow', \A f \in Editors : HonestDesk(f)' PROVE HonestInv'
  BY <1>b, <1>c DEF HonestInv
<1>d. ASSUME UNCHANGED <<doc, versions, shown>>, \A f \in Editors : HonestDesk(f)'
      PROVE  HonestInv'
  BY <1>0, <1>a, <1>c, <1>d DEF RecordsHonest, HonestRow
<1>1. ASSUME BeginEdit(e) \/ BeginRollback(e) PROVE HonestInv'
  <2>1. UNCHANGED <<doc, versions, shown>> /\ row = "live"
    BY <1>1 DEF BeginEdit, BeginRollback
  <2>2. PICK pc \in {"find", "snapshot"}, op \in {"edit", "rollback"}, c \in Contents :
          desk' = [desk EXCEPT ![e] = [pc |-> pc, op |-> op, version |-> doc.version,
                                       content |-> doc.content, new |-> c]]
    BY <1>1, ContentFacts DEF BeginEdit, BeginRollback
  <2> DEFINE d == [pc |-> pc, op |-> op, version |-> doc.version,
                   content |-> doc.content, new |-> c]
  <2>3. <<d.version, d.content>> \in shown' /\ d.pc # "record"
    BY <1>0, <2>1, <2>2 DEF HonestRow
  <2>4. desk' = [desk EXCEPT ![e] = d] /\ shown \subseteq shown'
    BY <2>1, <2>2
  <2> HIDE DEF d
  <2>5. \A f \in Editors : HonestDesk(f)'
    BY <1>0, <1>a, <2>3, <2>4, OtherDesks
  <2> QED
    BY <1>d, <2>1, <2>5
<1>2. ASSUME NEW pc \in Pcs, GoDesk(e, pc), shown \subseteq shown',
             pc \in {"find", "snapshot", "update"} =>
               desk[e].pc \in {"find", "snapshot", "update"},
             pc = "record" /\ row = "live" =>
               <<desk[e].version + 1, desk[e].new>> \in shown'
      PROVE  \A f \in Editors : HonestDesk(f)'
  <2>0. DesksTyped /\ GoDesk(e, pc)
    BY <1>0, <1>2
  <2>1. PICK d : DeskGoes(e, pc, d)
    BY <2>0, GoDeskIs
  <2>2. d.pc \in {"find", "snapshot", "update"} => <<d.version, d.content>> \in shown'
    BY <1>0, <1>2, <2>1 DEF HonestDesk, DeskGoes
  <2>3. row = "live" /\ d.pc = "record" => <<d.version + 1, d.new>> \in shown'
    BY <1>2, <2>1 DEF DeskGoes
  <2> QED
    BY <1>0, <1>a, <1>2, <2>1, <2>2, <2>3, OtherDesks DEF DeskGoes
<1>3. ASSUME FindVersion(e) PROVE HonestInv'
  <2>1. UNCHANGED <<doc, versions, shown>> /\ desk[e].pc = "find"
    BY <1>3 DEF FindVersion
  <2>2. CASE GoDesk(e, "idle")
    <3>1. \A f \in Editors : HonestDesk(f)'
      BY <1>2, <2>1, <2>2 DEF Pcs
    <3> QED
      BY <1>d, <2>1, <3>1
  <2>3. ASSUME NEW v \in Listed,
               desk' = [desk EXCEPT ![e].pc = "snapshot", ![e].new = versions[v]]
        PROVE  HonestInv'
    <3> DEFINE d == [desk[e] EXCEPT !.pc = "snapshot", !.new = versions[v]]
    <3>1. d.pc = "snapshot" /\ d.version = desk[e].version /\ d.content = desk[e].content
      BY <1>0 DEF Desk
    <3>2. desk' = [desk EXCEPT ![e] = d]
      BY <2>3
    <3> HIDE DEF d
    <3>5. <<desk[e].version, desk[e].content>> \in shown
      BY <1>0, <2>1 DEF HonestDesk
    <3>3. <<d.version, d.content>> \in shown'
      BY <2>1, <3>1, <3>5
    <3>4. \A f \in Editors : HonestDesk(f)'
      BY <1>0, <1>a, <2>1, <3>1, <3>2, <3>3, OtherDesks
    <3> QED
      BY <1>d, <2>1, <3>4
  <2> QED
    BY <1>3, <2>2, <2>3 DEF FindVersion
<1>4. ASSUME Snapshot(e) PROVE HonestInv'
  <2>1. desk[e].pc = "snapshot" /\ UNCHANGED <<doc, shown>> /\ GoDesk(e, "update")
    BY <1>4 DEF Snapshot
  <2>2. desk[e].version \in Numbers /\ desk[e].content \in Contents
    BY <1>0 DEF Desk
  <2>3. <<desk[e].version, desk[e].content>> \in shown
    BY <1>0, <2>1 DEF HonestDesk
  <2>6. CreateVersion(desk[e].version, desk[e].content)
    BY <1>4, <2>2, RecordBeforeFacts DEF Snapshot
  <2>4. RecordsHonest'
    BY <1>0, <2>1, <2>2, <2>3, <2>6, RecordShown
  <2>5. \A f \in Editors : HonestDesk(f)'
    BY <1>2, <2>1 DEF Pcs
  <2> QED
    BY <1>0, <1>a, <1>c, <2>1, <2>4, <2>5 DEF HonestRow
<1>5. ASSUME Update(e) PROVE HonestInv'
  <2> DEFINE n == [status |-> "editing", version |-> desk[e].version + 1,
                   content |-> desk[e].new]
  <2>1. StoreDoc(n) /\ versions' = versions /\ desk[e].pc = "update"
    BY <1>5 DEF Update
  <2>2. n.version = desk[e].version + 1 /\ n.content = desk[e].new
    OBVIOUS
  <2> HIDE DEF n
  <2>3. /\ shown \subseteq shown'
        /\ row = "live" => doc' = n /\ shown' = shown \cup {<<n.version, n.content>>}
        /\ row # "live" => doc' = doc
    BY <2>1, StoreDocShows
  <2>4. row = "live" => <<desk[e].version + 1, desk[e].new>> \in shown'
    BY <2>2, <2>3
  <2>5. GoDesk(e, "record") \/ GoDesk(e, "idle")
    BY <1>5 DEF Update
  <2>6. \A f \in Editors : HonestDesk(f)'
    <3>1. CASE GoDesk(e, "record")
      BY <1>2, <2>3, <2>4, <3>1 DEF Pcs
    <3>2. CASE GoDesk(e, "idle")
      BY <1>2, <2>3, <3>2 DEF Pcs
    <3> QED
      BY <2>5, <3>1, <3>2
  <2>7. RecordsHonest'
    BY <1>0, <2>1, <2>3 DEF RecordsHonest
  <2>8. HonestRow'
    BY <1>0, <1>a, <2>2, <2>3 DEF HonestRow
  <2> QED
    BY <1>c, <2>6, <2>7, <2>8
<1>6. ASSUME RecordRollback(e) PROVE HonestInv'
  <2>1. desk[e].pc = "record" /\ UNCHANGED <<doc, shown>> /\ GoDesk(e, "idle")
    BY <1>6 DEF RecordRollback
  <2>2. desk[e].version \in Numbers /\ desk[e].new \in Contents /\ desk[e].version < MaxVersion
    BY <1>0, <2>1 DEF Desk, DesksBounded, DesksTyped
  <2>3. desk[e].version + 1 \in Numbers
    BY <2>2, DocAssumption DEF Numbers
  <2>4. row = "live" => <<desk[e].version + 1, desk[e].new>> \in shown
    BY <1>0, <2>1 DEF HonestDesk
  <2>5. RecordsHonest'
    BY <1>0, <1>6, <2>1, <2>2, <2>3, <2>4, RecordShown DEF RecordRollback
  <2>6. \A f \in Editors : HonestDesk(f)'
    BY <1>2, <2>1 DEF Pcs
  <2> QED
    BY <1>0, <1>a, <1>c, <2>1, <2>5, <2>6 DEF HonestRow
<1>7. ASSUME HandlerStops(e) PROVE HonestInv'
  <2>1. UNCHANGED <<doc, versions, shown>> /\ GoDesk(e, "idle")
    BY <1>7 DEF HandlerStops
  <2>2. \A f \in Editors : HonestDesk(f)'
    BY <1>2, <2>1 DEF Pcs
  <2> QED
    BY <1>d, <2>1, <2>2
<1> QED
  BY <1>1, <1>3, <1>4, <1>5, <1>6, <1>7 DEF Handles

LEMMA InitHonest == ASSUME Init PROVE HonestInv
<1>1. \A v \in Numbers : versions[v] = NoContent
  BY DEF Init
<1>2. \A e \in Editors : desk[e] = IdleDesk /\ desk[e].pc = "idle"
  BY DEF Init, IdleDesk
<1>3. row = "none" /\ gen = "idle" /\ torn = {}
        /\ doc = [status |-> "generating", version |-> 1, content |-> Blank]
  BY DEF Init
<1> QED
  BY <1>1, <1>2, <1>3 DEF HonestInv, RecordsHonest, HonestRow, HonestDesk, Untouched

LEMMA NextHonest ==
  ASSUME TypeOK, DesksBounded, HonestInv, [Next]_vars
  PROVE  HonestInv'
<1>0. RecordsHonest /\ HonestRow /\ Untouched /\ \A f \in Editors : HonestDesk(f)
  BY DEF HonestInv
<1>c. ASSUME RecordsHonest', HonestRow', Untouched', \A f \in Editors : HonestDesk(f)'
      PROVE  HonestInv'
  BY <1>c DEF HonestInv
<1>1. CASE GenerateDocument
  <2>1. row = "none" /\ row' = "live" /\ gen' = "working"
        /\ shown' = {<<doc.version, doc.content>>} /\ UNCHANGED <<doc, versions, desk>>
    BY <1>1 DEF GenerateDocument
  <2>2. (\A v \in Numbers : versions[v] = NoContent) /\ (\A e \in Editors : desk[e].pc = "idle")
    BY <1>0, <2>1 DEF Untouched, IdleDesk
  <2> QED
    BY <1>c, <2>1, <2>2 DEF RecordsHonest, HonestRow, Untouched, HonestDesk
<1>2. CASE DeadlinePasses \/ Generation
  BY <1>2, GenerationHonest
<1>3. CASE DeleteDocument
  <2>1. row' = "deleted" /\ UNCHANGED <<gen, desk, shown>>
        /\ \A v \in Numbers : versions'[v] = NoContent
    BY <1>3 DEF DeleteDocument
  <2> QED
    BY <1>0, <1>c, <2>1 DEF RecordsHonest, HonestRow, Untouched, HonestDesk
<1>4. ASSUME NEW e \in Editors,
             BeginEdit(e) \/ BeginRollback(e) \/ Handles(e) \/ HandlerStops(e)
      PROVE  HonestInv'
  BY <1>4, HandlerHonest
<1>5. ASSUME NEW x \in Exports, CreateExportJob(x) \/ RunExport(x) PROVE HonestInv'
  <2>1. UNCHANGED jobOthers
    BY <1>5, ExportTypes
  <2> QED
    BY <1>0, <1>c, <2>1 DEF jobOthers, RecordsHonest, HonestRow, Untouched, HonestDesk
<1>6. CASE ServiceRestarts
  <2>1. row # "none" /\ gen' = "idle" /\ UNCHANGED <<row, doc, versions, shown>>
    BY <1>6 DEF ServiceRestarts
  <2>2. \A e \in Editors : desk'[e].pc = "idle"
    BY <1>6 DEF ServiceRestarts, IdleDesk
  <2> QED
    BY <1>0, <1>c, <2>1, <2>2 DEF RecordsHonest, HonestRow, Untouched, HonestDesk
<1>7. CASE UNCHANGED vars
  BY <1>0, <1>c, <1>7 DEF vars, RecordsHonest, HonestRow, Untouched, HonestDesk
<1> QED
  BY <1>1, <1>2, <1>3, <1>4, <1>5, <1>6, <1>7 DEF Next

(***************************************************************************)
(* A version record is honest, with any number of editors at work and      *)
(* whatever calls fail (CreateVersion's callers).                          *)
(***************************************************************************)
THEOREM RecordsAreHonest == Spec => []HonestInv
<1>1. Init => TypeOK /\ DesksBounded /\ HonestInv
  BY InitTyped, InitHonest
<1>2. TypeOK /\ DesksBounded /\ HonestInv /\ [Next]_vars
        => TypeOK' /\ DesksBounded' /\ HonestInv'
  BY NextTyped, NextHonest
<1> QED
  BY <1>1, <1>2, PTL DEF Spec

-----------------------------------------------------------------------------

(***************************************************************************)
(* A completed job's file is there, and a job about to complete has one.   *)
(* What it takes from the goroutine: only CheckExport removes a file, and  *)
(* that job fails.                                                         *)
(***************************************************************************)
FileKept(x) ==
  /\ job[x].at \in {"check", "complete"} => job[x].file
  /\ job[x].at \in {"start", "write", "check", "complete"} => job[x].status # "completed"
  /\ job[x].status = "completed" => job[x].at = "idle" /\ job[x].file
FilesKept == \A x \in Exports : FileKept(x)

LEMMA OneJob ==
  ASSUME JobsTyped, FilesKept, NEW x \in Exports, NEW j, job' = [job EXCEPT ![x] = j],
         j.at \in {"check", "complete"} => j.file,
         j.at \in {"start", "write", "check", "complete"} => j.status # "completed",
         j.status = "completed" => j.at = "idle" /\ j.file
  PROVE  FilesKept'
<1>1. job'[x] = j /\ \A y \in Exports : y # x => job'[y] = job[y]
  BY DEF JobsTyped
<1>2. FileKept(x)'
  BY <1>1 DEF FileKept
<1>3. ASSUME NEW y \in Exports, y # x PROVE FileKept(y)'
  BY <1>1, <1>3 DEF FilesKept, FileKept
<1> QED
  BY <1>2, <1>3 DEF FilesKept

\* UPDATE document_export_jobs, whatever it does.
LEMMA SetJobKeeps ==
  ASSUME JobsTyped, FilesKept, NEW x \in Exports, job[x].status # "completed",
         NEW s, NEW at \in {"idle", "write"}, NEW file,
         s = "completed" => at = "idle" /\ file,
         SetJob(x, s, at, file)
  PROVE  FilesKept'
<1>1. job[x] \in Job
  BY DEF JobsTyped
<1>2. CASE job' = [job EXCEPT ![x] = [status |-> IF job[x].status = "none" THEN "none" ELSE s,
                                   at |-> at, file |-> file]]
  <2> DEFINE j == [status |-> IF job[x].status = "none" THEN "none" ELSE s,
                   at |-> at, file |-> file]
  <2>1. /\ j.at = at /\ j.file = file
        /\ j.status = IF job[x].status = "none" THEN "none" ELSE s
    OBVIOUS
  <2>2. job' = [job EXCEPT ![x] = j]
    BY <1>2
  <2> HIDE DEF j
  <2>3. j.status = "completed" => s = "completed"
    BY <2>1
  <2>4. j.at = "idle" \/ s # "completed"
    BY <2>1
  <2> QED
    BY <2>1, <2>2, <2>3, <2>4, OneJob
<1>3. CASE job' = [job EXCEPT ![x].at = at, ![x].file = file]
  <2> DEFINE j == [job[x] EXCEPT !.at = at, !.file = file]
  <2>1. j.at = at /\ j.file = file /\ j.status = job[x].status
    BY <1>1 DEF Job
  <2>2. job' = [job EXCEPT ![x] = j]
    BY <1>3
  <2> HIDE DEF j
  <2> QED
    BY <2>1, <2>2, OneJob
<1> QED
  BY <1>2, <1>3 DEF SetJob

LEMMA ExportKeepsFiles ==
  ASSUME JobsTyped, FilesKept, NEW x \in Exports, CreateExportJob(x) \/ RunExport(x)
  PROVE  FilesKept'
<1>0. job[x] \in Job /\ FileKept(x)
  BY DEF JobsTyped, FilesKept
<1>1. CASE CreateExportJob(x)
  <2> DEFINE j == [status |-> "pending", at |-> "start", file |-> FALSE]
  <2>1. j.at = "start" /\ j.status = "pending"
    OBVIOUS
  <2>2. job' = [job EXCEPT ![x] = j]
    BY <1>1 DEF CreateExportJob
  <2> HIDE DEF j
  <2> QED
    BY <2>1, <2>2, OneJob
<1>2. CASE StartExport(x)
  <2>1. SetJob(x, "processing", "write", FALSE) /\ job[x].status # "completed"
    BY <1>0, <1>2 DEF StartExport, FileKept
  <2> QED
    BY <2>1, SetJobKeeps
<1>3. CASE WriteExport(x) \/ CheckExport(x)
  <2>1. job[x].status # "completed" /\ (job[x].at = "check" => job[x].file)
    BY <1>0, <1>3 DEF WriteExport, CheckExport, FileKept
  <2>2. PICK j : /\ job' = [job EXCEPT ![x] = j]
                 /\ j.status = job[x].status
                 /\ j.at \in {"check", "complete"} => j.file
    <3> DEFINE a == [job[x] EXCEPT !.at = "check", !.file = TRUE]
               b == [job[x] EXCEPT !.at = "fail"]
               c == [job[x] EXCEPT !.at = "complete"]
               d == [job[x] EXCEPT !.at = "fail", !.file = FALSE]
    <3>1. a.status = job[x].status /\ a.at = "check" /\ a.file = TRUE
      BY <1>0 DEF Job
    <3>2. b.status = job[x].status /\ b.at = "fail"
      BY <1>0 DEF Job
    <3>3. c.status = job[x].status /\ c.at = "complete" /\ c.file = job[x].file
      BY <1>0 DEF Job
    <3>4. d.status = job[x].status /\ d.at = "fail"
      BY <1>0 DEF Job
    <3>5. CASE WriteExport(x)
      <4>1. job' = [job EXCEPT ![x] = a] \/ job' = [job EXCEPT ![x] = b]
        BY <3>5 DEF WriteExport
      <4> HIDE DEF a, b
      <4> QED
        BY <4>1, <3>1, <3>2
    <3>6. CASE CheckExport(x)
      <4>1. \/ job' = [job EXCEPT ![x] = c]
            \/ job' = [job EXCEPT ![x] = d]
            \/ job' = [job EXCEPT ![x] = b]
        BY <3>6 DEF CheckExport
      <4>2. job[x].file
        BY <2>1, <3>6 DEF CheckExport
      <4> HIDE DEF b, c, d
      <4> QED
        BY <4>1, <4>2, <3>2, <3>3, <3>4
    <3> QED
      BY <1>3, <3>5, <3>6
  <2> QED
    BY <2>1, <2>2, OneJob
<1>4. CASE CompleteExport(x)
  <2>1. /\ SetJob(x, "completed", "idle", job[x].file)
        /\ job[x].status # "completed" /\ job[x].file
    BY <1>0, <1>4 DEF CompleteExport, FileKept
  <2> QED
    BY <2>1, SetJobKeeps
<1>5. CASE FailExport(x)
  <2>1. SetJob(x, "failed", "idle", job[x].file) /\ job[x].status # "completed"
    BY <1>0, <1>5 DEF FailExport, FileKept
  <2> QED
    BY <2>1, SetJobKeeps
<1> QED
  BY <1>1, <1>2, <1>3, <1>4, <1>5 DEF RunExport

LEMMA NextKeepsFiles ==
  ASSUME JobsTyped, FilesKept, [Next]_vars
  PROVE  FilesKept'
<1>1. CASE UNCHANGED job
  BY <1>1 DEF FilesKept, FileKept
<1>2. ASSUME NEW e \in Editors,
             BeginEdit(e) \/ BeginRollback(e) \/ Handles(e) \/ HandlerStops(e)
      PROVE  UNCHANGED job
  BY <1>2 DEF Handles, BeginEdit, BeginRollback, FindVersion, Snapshot, Update,
              RecordRollback, HandlerStops, deskOthers
<1>3. CASE GenerateDocument \/ DeadlinePasses \/ Generation
  BY <1>1, <1>3 DEF GenerateDocument, DeadlinePasses, Generation, GenerateContent,
                    StoreGenerated, CreateInitialVersion, FailGeneration
<1>4. CASE DeleteDocument
  <2> SUFFICES ASSUME NEW x \in Exports PROVE FileKept(x)'
    BY DEF FilesKept
  <2>1. job[x] \in Job /\ FileKept(x)
    BY DEF JobsTyped, FilesKept
  <2>2. job'[x] = [job[x] EXCEPT !.status = "none"]
    BY <1>4 DEF DeleteDocument
  <2>3. job'[x].status = "none" /\ job'[x].at = job[x].at /\ job'[x].file = job[x].file
    BY <2>1, <2>2 DEF Job
  <2> QED
    BY <2>1, <2>3 DEF FileKept
<1>5. CASE ServiceRestarts
  <2> SUFFICES ASSUME NEW x \in Exports PROVE FileKept(x)'
    BY DEF FilesKept
  <2>1. job[x] \in Job /\ FileKept(x)
    BY DEF JobsTyped, FilesKept
  <2>2. job'[x] = [job[x] EXCEPT !.at = "idle"]
    BY <1>5 DEF ServiceRestarts
  <2>3. job'[x].status = job[x].status /\ job'[x].at = "idle" /\ job'[x].file = job[x].file
    BY <2>1, <2>2 DEF Job
  <2> QED
    BY <2>1, <2>3 DEF FileKept
<1>6. CASE UNCHANGED vars
  BY <1>1, <1>6 DEF vars
<1> QED
  BY <1>1, <1>2, <1>3, <1>4, <1>5, <1>6, ExportKeepsFiles DEF Next

(***************************************************************************)
(* A completed export can be downloaded, whatever fails, is deleted or is  *)
(* restarted on the way (export_logic.go, runExport).                      *)
(***************************************************************************)
THEOREM CompletedHasItsFile == Spec => []CompletedHasFile
<1>1. Init => FilesKept
  BY DEF Init, FilesKept, FileKept, NoJob
<1>2. TypeOK /\ FilesKept /\ [Next]_vars => FilesKept'
  <2>1. TypeOK => JobsTyped
    BY DEF TypeOK, JobsTyped
  <2> QED
    BY <2>1, NextKeepsFiles
<1>3. FilesKept => CompletedHasFile
  BY DEF FilesKept, FileKept, CompletedHasFile
<1> QED
  BY <1>1, <1>2, <1>3, TypeCorrect, PTL DEF Spec

(***************************************************************************)
(* Until the generation has stored its content nobody can have written: no *)
(* edit is accepted and there is no record to restore.                     *)
(***************************************************************************)
NobodyWrote ==
  row = "live" /\ gen \in {"working", "storing"} =>
    /\ doc = [status |-> "generating", version |-> 1, content |-> Blank]
    /\ \A v \in Numbers : versions[v] = NoContent
    /\ \A e \in Editors : desk[e].pc \in {"idle", "find"}

LEMMA NextNobodyWrote ==
  ASSUME TypeOK, Untouched, NobodyWrote, [Next]_vars
  PROVE  NobodyWrote'
<1> SUFFICES ASSUME row' = "live", gen' \in {"working", "storing"}
             PROVE  /\ doc' = [status |-> "generating", version |-> 1, content |-> Blank]
                    /\ \A v \in Numbers : versions'[v] = NoContent
                    /\ \A e \in Editors : desk'[e].pc \in {"idle", "find"}
  BY DEF NobodyWrote
<1>1. CASE GenerateDocument
  BY <1>1 DEF GenerateDocument, Untouched, IdleDesk
<1>2. ASSUME row = "live", gen \in {"working", "storing"}, UNCHANGED <<doc, versions, desk>>
      PROVE  /\ doc' = [status |-> "generating", version |-> 1, content |-> Blank]
             /\ \A v \in Numbers : versions'[v] = NoContent
             /\ \A e \in Editors : desk'[e].pc \in {"idle", "find"}
  BY <1>2 DEF NobodyWrote
<1>3. CASE DeadlinePasses \/ GenerateContent
  BY <1>2, <1>3 DEF DeadlinePasses, GenerateContent
<1>4. CASE StoreGenerated \/ CreateInitialVersion \/ FailGeneration \/ DeleteDocument
           \/ ServiceRestarts
  BY <1>4 DEF StoreGenerated, CreateInitialVersion, FailGeneration, DeleteDocument,
              ServiceRestarts
<1>5. ASSUME NEW e \in Editors,
             BeginEdit(e) \/ BeginRollback(e) \/ Handles(e) \/ HandlerStops(e)
      PROVE  /\ doc' = [status |-> "generating", version |-> 1, content |-> Blank]
             /\ \A v \in Numbers : versions'[v] = NoContent
             /\ \A f \in Editors : desk'[f].pc \in {"idle", "find"}
  <2>1. row' = row /\ gen' = gen
    BY <1>5 DEF Handles, BeginEdit, BeginRollback, FindVersion, Snapshot, Update,
                RecordRollback, HandlerStops, deskOthers
  <2>2. /\ doc.status = "generating" /\ desk[e].pc \in {"idle", "find"}
        /\ \A v \in Numbers : versions[v] = NoContent
        /\ \A f \in Editors : desk[f].pc \in {"idle", "find"}
        /\ doc = [status |-> "generating", version |-> 1, content |-> Blank]
    BY <2>1 DEF NobodyWrote
  <2>3. Listed = {}
    BY <2>2 DEF Listed, Recorded
  <2>4. /\ BeginRollback(e) \/ FindVersion(e) \/ HandlerStops(e)
        /\ UNCHANGED <<doc, versions>>
    BY <1>5, <2>2 DEF Handles, BeginEdit, BeginRollback, FindVersion, Snapshot, Update,
                      RecordRollback, HandlerStops
  <2>5. PICK d : desk' = [desk EXCEPT ![e] = d] /\ d.pc \in {"idle", "find"}
    <3>1. CASE BeginRollback(e)
      <4> DEFINE r == [pc |-> "find", op |-> "rollback", version |-> doc.version,
                       content |-> doc.content, new |-> Blank]
      <4>1. desk' = [desk EXCEPT ![e] = r]
        BY <3>1 DEF BeginRollback
      <4>2. r.pc = "find"
        OBVIOUS
      <4> HIDE DEF r
      <4> QED
        BY <4>1, <4>2
    <3>2. CASE FindVersion(e) \/ HandlerStops(e)
      <4>1. GoDesk(e, "idle")
        BY <2>3, <3>2 DEF FindVersion, HandlerStops
      <4>2. IdleDesk.pc = "idle"
        BY DEF IdleDesk
      <4> QED
        BY <4>1, <4>2 DEF GoDesk
    <3> QED
      BY <2>4, <3>1, <3>2
  <2>6. \A f \in Editors : desk'[f] = IF f = e THEN d ELSE desk[f]
    BY <2>5 DEF TypeOK
  <2> QED
    BY <2>2, <2>4, <2>5, <2>6
<1>6. ASSUME NEW x \in Exports, CreateExportJob(x) \/ RunExport(x)
      PROVE  UNCHANGED jobOthers
  BY <1>6, ExportTypes
<1>7. CASE UNCHANGED jobOthers
  BY <1>2, <1>7 DEF jobOthers
<1>8. CASE UNCHANGED vars
  BY <1>7, <1>8 DEF vars, jobOthers
<1> QED
  BY <1>1, <1>3, <1>4, <1>5, <1>6, <1>7, <1>8 DEF Next, Generation

(***************************************************************************)
(* The generation goroutine never overwrites what a person wrote, with any *)
(* number of handlers and with failing calls (document_logic.go).          *)
(***************************************************************************)
THEOREM EditsAreKept == Spec => GenerationKeepsEdits
<1>1. Init => NobodyWrote
  BY DEF Init, NobodyWrote
<1>2. TypeOK /\ Untouched /\ NobodyWrote /\ [Next]_vars => NobodyWrote'
  BY NextNobodyWrote
<1>3. HonestInv => Untouched
  BY DEF HonestInv
<1>4. NobodyWrote =>
        (StoreGenerated /\ doc' # doc => doc.version = 1 /\ doc.content = Blank)
  <2> SUFFICES ASSUME NobodyWrote, StoreGenerated, doc' # doc
               PROVE  doc.version = 1 /\ doc.content = Blank
    OBVIOUS
  <2>1. gen = "storing" /\ row = "live"
    BY DEF StoreGenerated, StoreDoc
  <2> QED
    BY <2>1 DEF NobodyWrote
<1> QED
  BY <1>1, <1>2, <1>3, <1>4, TypeCorrect, RecordsAreHonest, PTL
     DEF Spec, GenerationKeepsEdits

-----------------------------------------------------------------------------
(***************************************************************************)
(* Background work has somebody who does it.                               *)
(***************************************************************************)
LEMMA NextOwned ==
  ASSUME TypeOK, WorkIsOwned, [Next]_vars
  PROVE  WorkIsOwned'
<1> DEFINE Owned == row = "live" /\ doc.status = "generating" =>
                      gen \in {"working", "storing", "failing"} \/ Generating \in orphaned
           Exporting(x) == job[x].status \in {"pending", "processing"} =>
                             job[x].at # "idle" \/ x \in orphaned
<1>0. Owned /\ \A x \in Exports : Exporting(x)
  BY DEF WorkIsOwned
<1>t. doc \in Doc /\ job \in [Exports -> Job]
  BY DEF TypeOK
<1>a. ASSUME Owned', \A x \in Exports : Exporting(x)' PROVE WorkIsOwned'
  BY <1>a DEF WorkIsOwned
<1>b. ASSUME orphaned \subseteq orphaned', job' = job PROVE \A x \in Exports : Exporting(x)'
  BY <1>0, <1>b
<1>c. ASSUME orphaned \subseteq orphaned', UNCHANGED <<row, doc, gen>> PROVE Owned'
  BY <1>0, <1>c
<1>1. CASE GenerateDocument \/ DeadlinePasses \/ GenerateContent \/ CreateInitialVersion
  <2>1. job' = job /\ orphaned' = orphaned
    BY <1>1 DEF GenerateDocument, DeadlinePasses, GenerateContent, CreateInitialVersion
  <2>2. Owned'
    BY <1>0, <1>1 DEF GenerateDocument, DeadlinePasses, GenerateContent, CreateInitialVersion
  <2> QED
    BY <1>a, <1>b, <2>1, <2>2
<1>2. CASE StoreGenerated
  <2>1. job' = job /\ orphaned' = orphaned /\ row' = row
    BY <1>2 DEF StoreGenerated
  <2>2. CASE gen' = "failing"
    BY <1>a, <1>b, <2>1, <2>2
  <2>3. CASE row = "live" /\ doc' = [doc EXCEPT !.status = "editing", !.version = 1,
                                                !.content = Generated]
    <3>1. doc'.status = "editing"
      BY <1>t, <2>3 DEF Doc
    <3> QED
      BY <1>a, <1>b, <2>1, <3>1
  <2>4. CASE row # "live"
    BY <1>a, <1>b, <2>1, <2>4
  <2> QED
    BY <1>2, <2>2, <2>3, <2>4 DEF StoreGenerated, StoreDoc
<1>3. CASE FailGeneration
  <2>1. job' = job /\ orphaned \subseteq orphaned'
    BY <1>3 DEF FailGeneration
  <2>2. CASE doc' = [doc EXCEPT !.status = "failed"]
    <3>1. doc'.status = "failed"
      BY <1>t, <2>2 DEF Doc
    <3> QED
      BY <1>a, <1>b, <2>1, <3>1
  <2>3. CASE orphaned' = orphaned \cup {Generating}
    BY <1>a, <1>b, <2>1, <2>3
  <2> QED
    BY <1>3, <2>2, <2>3 DEF FailGeneration
<1>4. CASE DeleteDocument
  <2>1. row' = "deleted" /\ orphaned' = orphaned
    BY <1>4 DEF DeleteDocument
  <2>2. \A x \in Exports : job'[x].status = "none"
    BY <1>4, <1>t DEF DeleteDocument, Job
  <2> QED
    BY <1>a, <2>1, <2>2
<1>5. ASSUME NEW e \in Editors,
             BeginEdit(e) \/ BeginRollback(e) \/ Handles(e) \/ HandlerStops(e)
      PROVE  WorkIsOwned'
  <2>1. UNCHANGED <<row, gen, job, orphaned>>
    BY <1>5 DEF BeginEdit, BeginRollback, Handles, FindVersion, Snapshot, Update,
                RecordRollback, HandlerStops, deskOthers
  <2>2. CASE Update(e)
    <3>1. doc' = doc \/ doc'.status = "editing"
      BY <2>2 DEF Update, StoreDoc
    <3> QED
      BY <1>0, <1>a, <1>b, <2>1, <3>1
  <2>3. CASE ~Update(e)
    <3>1. doc' = doc
      BY <1>5, <2>3 DEF BeginEdit, BeginRollback, Handles, FindVersion, Snapshot,
                        RecordRollback, HandlerStops
    <3> QED
      BY <1>a, <1>b, <1>c, <2>1, <3>1
  <2> QED
    BY <2>2, <2>3
<1>6. ASSUME NEW x \in Exports, CreateExportJob(x) \/ RunExport(x)
      PROVE  WorkIsOwned'
  <2>1. UNCHANGED jobOthers
    BY <1>6, ExportTypes
  <2>2. ASSUME NEW s, NEW at, NEW file, SetJob(x, s, at, file),
               at = "idle" => s \notin {"pending", "processing"}
        PROVE  orphaned \subseteq orphaned' /\ \A y \in Exports : Exporting(y)'
    <3>1. orphaned \subseteq orphaned' /\ \A y \in Exports : y # x => job'[y] = job[y]
      BY <1>t, <2>2 DEF SetJob
    <3>2. \/ job'[x].status \in {"none", s} /\ job'[x].at = at
          \/ job'[x].at = at /\ (at = "idle" => x \in orphaned')
      BY <1>t, <2>2 DEF SetJob, Job
    <3>3. Exporting(x)'
      BY <2>2, <3>2
    <3> QED
      BY <1>0, <3>1, <3>3
  <2>3. ASSUME orphaned' = orphaned, \A y \in Exports : y # x => job'[y] = job[y],
               job'[x].at # "idle"
        PROVE  orphaned \subseteq orphaned' /\ \A y \in Exports : Exporting(y)'
    BY <1>0, <2>3
  <2>4. CASE CreateExportJob(x) \/ WriteExport(x) \/ CheckExport(x)
    <3>1. orphaned' = orphaned /\ (\A y \in Exports : y # x => job'[y] = job[y])
            /\ job'[x].at # "idle"
      BY <1>t, <2>4 DEF CreateExportJob, WriteExport, CheckExport, Job
    <3> QED
      BY <1>a, <1>c, <2>1, <2>3, <3>1 DEF jobOthers
  <2>5. CASE StartExport(x) \/ CompleteExport(x) \/ FailExport(x)
    <3>1. orphaned \subseteq orphaned' /\ \A y \in Exports : Exporting(y)'
      BY <2>2, <2>5 DEF StartExport, CompleteExport, FailExport
    <3> QED
      BY <1>a, <1>c, <2>1, <3>1 DEF jobOthers
  <2> QED
    BY <1>6, <2>4, <2>5 DEF RunExport
<1>7. CASE ServiceRestarts
  <2>1. /\ gen # "idle" => Generating \in orphaned'
        /\ orphaned \subseteq orphaned' /\ row' = row /\ doc' = doc
    BY <1>7 DEF ServiceRestarts
  <2>2. \A x \in Exports : job[x].at = "idle" \/ x \in orphaned'
    BY <1>7 DEF ServiceRestarts
  <2>3. \A x \in Exports : job'[x].status = job[x].status
    BY <1>7, <1>t DEF ServiceRestarts, Job
  <2>4. Owned'
    BY <1>0, <2>1
  <2>5. \A x \in Exports : Exporting(x)'
    BY <1>0, <2>1, <2>2, <2>3
  <2> QED
    BY <1>a, <2>4, <2>5
<1>8. CASE UNCHANGED vars
  BY <1>a, <1>b, <1>c, <1>8 DEF vars
<1> QED
  BY <1>1, <1>2, <1>3, <1>4, <1>5, <1>6, <1>7, <1>8 DEF Next, Generation

(***************************************************************************)
(* What reads as being worked on is worked on, unless the last write of    *)
(* its goroutine was lost (runGeneration, failGeneration, runExport).      *)
(***************************************************************************)
THEOREM WorkIsSomebodys == Spec => []WorkIsOwned
<1>1. Init => WorkIsOwned
  BY DEF Init, NoJob, WorkIsOwned
<1>2. TypeOK /\ WorkIsOwned /\ [Next]_vars => WorkIsOwned'
  BY NextOwned
<1> QED
  BY <1>1, <1>2, TypeCorrect, PTL DEF Spec

-----------------------------------------------------------------------------
(***************************************************************************)
(* The version history: the numbers that are not torn.                     *)
(***************************************************************************)
Held == \A e \in Editors : row = "live" => Holds(e)

\* Numbers the row has passed or stands at are torn down to a torn one.
LEMMA NumberFacts ==
  ASSUME TypeOK
  PROVE  /\ doc.version \in Numbers /\ doc.content \in Contents
         /\ torn \subseteq Numbers
         /\ \A n \in Numbers : n \in Nat /\ n >= 1
         /\ \A e \in Editors : /\ desk[e] \in Desk /\ desk[e].version \in Numbers
                               /\ desk[e].content \in Contents /\ desk[e].new \in Contents
BY DEF TypeOK, Doc, Desk, Numbers

\* A record that is added under the current version is right, or the number
\* is torn; the records there are stay.
LEMMA RecordKeeps ==
  ASSUME TypeOK, Contiguous, NothingLost, row = "live",
         NEW v \in Numbers, NEW c \in Contents, CreateVersion(v, c),
         UNCHANGED <<row, doc, shown>>,
         torn \subseteq torn', TornFromTheRow',
         v \in torn' \/ (v = doc.version /\ c = doc.content) \/ versions[v] # NoContent
  PROVE  /\ Contiguous' /\ NothingLost'
         /\ \A w \in Numbers : versions[w] # NoContent => versions'[w] = versions[w]
         /\ \A w \in Numbers \ torn' : w # doc.version => versions'[w] = versions[w]
<1>0. doc.version \in Numbers /\ doc.content \in Contents /\ Numbers \subseteq Nat
  BY ContentFacts, NumberFacts
<1>1. \A w \in Numbers :
        \/ versions'[w] = versions[w]
        \/ w = v /\ versions[w] = NoContent /\ versions'[w] = c
  BY CreateVersionFacts
<1>2. \A w \in Numbers \ torn' :
        \/ versions'[w] = versions[w]
        \/ w = doc.version /\ versions[w] = NoContent /\ versions'[w] = doc.content
  BY <1>1
<1>3. \A w \in Numbers : versions[w] # NoContent => versions'[w] = versions[w]
  BY <1>1
<1>4. \A w \in Numbers \ torn : /\ w < doc.version => versions[w] # NoContent
                                /\ w > doc.version => versions[w] = NoContent
                                /\ w = doc.version => versions[w] \in {NoContent, doc.content}
  BY DEF Contiguous
<1>5. Contiguous'
  <2>1. \A w \in Numbers \ torn' : /\ w < doc.version => versions'[w] # NoContent
                                   /\ w > doc.version => versions'[w] = NoContent
                                   /\ w = doc.version => versions'[w] \in {NoContent, doc.content}
    BY <1>0, <1>2, <1>4
  <2> QED
    BY <2>1 DEF Contiguous
<1>6. NothingLost'
  <2>1. \A p \in shown : p[1] \in Numbers /\ p[2] \in Contents
    BY DEF TypeOK
  <2>2. \A p \in shown \ {<<1, Blank>>} :
          p[1] \in torn \/ versions[p[1]] = p[2] \/ p = <<doc.version, doc.content>>
    BY DEF NothingLost
  <2>3. \A p \in shown \ {<<1, Blank>>} :
          p[1] \in torn' \/ versions'[p[1]] = p[2] \/ p = <<doc.version, doc.content>>
    BY <1>3, <2>1, <2>2, ContentFacts
  <2> QED
    BY <2>3 DEF NothingLost
<1> QED
  BY <1>2, <1>3, <1>5, <1>6

\* The parts survive a step that leaves the row and its records.
LEMMA HistoryFrame ==
  ASSUME Contiguous, NothingLost, UNCHANGED <<row, doc, versions, shown, torn>>
  PROVE  Contiguous' /\ NothingLost'
BY DEF Contiguous, NothingLost, TornFromTheRow

\* What a handler that does not move holds stays true while records and torn
\* numbers are only added.
LEMMA HoldsFrame ==
  ASSUME TypeOK, NEW e \in Editors, Holds(e), desk'[e] = desk[e], UNCHANGED doc,
         torn \subseteq torn',
         \A w \in Numbers : versions[w] # NoContent => versions'[w] = versions[w]
  PROVE  Holds(e)'
<1>1. /\ desk[e].new \in Contents /\ desk[e].version \in Numbers
  BY NumberFacts
<1>2. ASSUME NEW v \in Numbers, versions[v] = desk[e].new PROVE versions'[v] = desk[e].new
  <2>1. versions[v] # NoContent
    BY <1>1, <1>2, ContentFacts
  <2> QED
    BY <1>2, <2>1
<1>3. versions[desk[e].version] # NoContent => versions'[desk[e].version] # NoContent
  BY <1>1
<1> QED
  BY <1>2, <1>3 DEF Holds

LEMMA HeldFrame ==
  ASSUME TypeOK, Held, UNCHANGED <<row, doc, desk>>, torn \subseteq torn',
         \A w \in Numbers : versions[w] # NoContent => versions'[w] = versions[w]
  PROVE  Held'
<1> SUFFICES ASSUME NEW e \in Editors, row = "live" PROVE Holds(e)'
  BY DEF Held
<1> QED
  BY HoldsFrame DEF Held

LEMMA GenerationKeepsHistory ==
  ASSUME TypeOK, HistoryInv, DeadlinePasses \/ Generation
  PROVE  HistoryInv'
<1>0. Contiguous /\ GenerationAlone /\ Held /\ NothingLost
  BY DEF HistoryInv, Held
<1>a. row' = row /\ desk' = desk /\ torn' = torn
  BY DEF DeadlinePasses, Generation, GenerateContent, StoreGenerated,
         CreateInitialVersion, FailGeneration
<1>b. ASSUME Contiguous', NothingLost', GenerationAlone', Held' PROVE HistoryInv'
  BY <1>b DEF HistoryInv, Held
<1>n. \A n \in Numbers : n \in Nat /\ n >= 1
  BY NumberFacts
<1>1. CASE DeadlinePasses \/ GenerateContent
  <2>1. UNCHANGED <<doc, versions, shown>>
    BY <1>1 DEF DeadlinePasses, GenerateContent
  <2>2. gen' = gen \/ (gen = "working" /\ gen' \in {"storing", "failing"})
    BY <1>1 DEF DeadlinePasses, GenerateContent
  <2>3. GenerationAlone'
    BY <1>0, <1>a, <2>1, <2>2 DEF GenerationAlone
  <2> QED
    BY <1>0, <1>a, <1>b, <2>1, <2>3, HistoryFrame, HeldFrame
<1>2. CASE StoreGenerated
  <2> DEFINE d == [doc EXCEPT !.status = "editing", !.version = 1, !.content = Generated]
  <2>1. gen = "storing" /\ gen' \in {"snapshot", "failing"} /\ versions' = versions
    BY <1>2 DEF StoreGenerated
  <2>2. (doc' = doc /\ shown' = shown /\ gen' = "failing") \/ StoreDoc(d)
    BY <1>2 DEF StoreGenerated
  <2>3. d.version = 1 /\ d.content = Generated
    BY DEF TypeOK, Doc
  <2> HIDE DEF d
  <2>4. CASE row # "live"
    <3>1. Contiguous'
      BY <1>0, <1>a, <2>1, <2>4 DEF Contiguous
    <3> QED
      BY <1>a, <1>b, <2>4, <3>1 DEF GenerationAlone, Held, NothingLost
  <2>5. CASE doc' = doc /\ shown' = shown /\ gen' = "failing"
    <3>1. GenerationAlone'
      BY <1>0, <1>a, <2>1, <2>5 DEF GenerationAlone
    <3> QED
      BY <1>0, <1>a, <1>b, <2>1, <2>5, <3>1, HistoryFrame, HeldFrame
  <2>6. CASE row = "live" /\ StoreDoc(d)
    <3>1. doc' = d /\ shown' = shown \cup {<<1, Generated>>}
      BY <2>3, <2>6, StoreDocShows
    <3>2. /\ doc.version = 1 /\ doc.content = Blank /\ versions[1] = NoContent /\ torn = {}
          /\ \A e \in Editors : desk[e].pc \in {"idle", "find"}
          /\ \A e \in Editors : desk[e].version = 1
          /\ \A v \in Numbers : v > 1 => versions[v] = NoContent
      BY <1>0, <2>1, <2>6 DEF GenerationAlone
    <3>3. doc'.version = 1 /\ doc'.content = Generated
      BY <2>3, <3>1
    <3>4. Contiguous'
      <4>1. \A v \in Numbers : ~(v < 1)
        BY <1>n
      <4> QED
        BY <1>a, <2>1, <2>6, <3>2, <3>3, <4>1 DEF Contiguous, TornFromTheRow
    <3>5. GenerationAlone'
      BY <1>a, <2>1, <3>2, <3>3 DEF GenerationAlone
    <3>6. NothingLost'
      <4>1. \A p \in shown \ {<<1, Blank>>} : versions[p[1]] = p[2]
        BY <1>0, <2>6, <3>2 DEF NothingLost
      <4> QED
        BY <2>1, <3>1, <3>3, <4>1 DEF NothingLost
    <3>7. Held'
      <4> SUFFICES ASSUME NEW e \in Editors PROVE Holds(e)'
        BY DEF Held
      <4>1. desk[e].pc = "find" => desk[e].op = "rollback"
        BY <1>0, <2>6 DEF Held, Holds
      <4>2. desk'[e].pc \in {"idle", "find"} /\ desk'[e].version = 1 /\ desk'[e].op = desk[e].op
              /\ desk'[e].pc = desk[e].pc
        BY <1>a, <3>2
      <4> QED
        BY <3>3, <4>1, <4>2 DEF Holds
    <3> QED
      BY <1>b, <3>4, <3>5, <3>6, <3>7
  <2> QED
    BY <2>2, <2>4, <2>5, <2>6
<1>3. CASE CreateInitialVersion
  <2>1. UNCHANGED <<doc, shown>> /\ gen = "snapshot" /\ gen' = "idle"
    BY <1>3 DEF CreateInitialVersion
  <2>2. CASE row # "live"
    <3>1. versions' = versions
      BY <1>3, <2>2 DEF CreateInitialVersion, CreateVersion
    <3>2. Contiguous'
      BY <1>0, <1>a, <2>2, <3>1 DEF Contiguous
    <3> QED
      BY <1>a, <1>b, <2>2, <3>2 DEF GenerationAlone, Held, NothingLost
  <2>3. CASE row = "live" /\ versions' = versions
    <3>1. GenerationAlone'
      BY <1>0, <1>a, <2>1, <2>3 DEF GenerationAlone
    <3> QED
      BY <1>0, <1>a, <1>b, <2>1, <2>3, <3>1, HistoryFrame, HeldFrame
  <2>4. CASE row = "live" /\ CreateVersion(1, Generated)
    <3>1. 1 = doc.version \/ 1 < doc.version
      BY <1>n, NumberFacts
    <3>2. 1 \in torn \/ (1 = doc.version /\ Generated = doc.content) \/ versions[1] # NoContent
      BY <1>0, <2>1, <2>4, <3>1, ContentFacts DEF Contiguous, GenerationAlone
    <3>3. TornFromTheRow'
      BY <1>0, <1>a, <2>1, <2>4 DEF Contiguous, TornFromTheRow
    <3>4. /\ Contiguous' /\ NothingLost'
          /\ \A w \in Numbers : versions[w] # NoContent => versions'[w] = versions[w]
      BY <1>0, <1>a, <2>1, <2>4, <3>2, <3>3, RecordKeeps, ContentFacts
    <3>5. \A w \in Numbers : w > 1 => versions'[w] = versions[w]
      BY <1>n, <2>4, CreateVersionFacts, ContentFacts
    <3>6. GenerationAlone'
      BY <1>0, <1>a, <2>1, <2>4, <3>5 DEF GenerationAlone
    <3> QED
      BY <1>0, <1>a, <1>b, <2>1, <3>4, <3>6, HeldFrame
  <2> QED
    BY <1>3, <2>2, <2>3, <2>4 DEF CreateInitialVersion
<1>4. CASE FailGeneration
  <2>1. UNCHANGED <<versions, shown>> /\ gen = "failing" /\ gen' = "idle"
    BY <1>4 DEF FailGeneration
  <2>2. doc'.version = doc.version /\ doc'.content = doc.content
    BY <1>4 DEF FailGeneration, TypeOK, Doc
  <2>3. Contiguous' /\ NothingLost'
    BY <1>0, <1>a, <2>1, <2>2 DEF Contiguous, NothingLost, TornFromTheRow
  <2>4. GenerationAlone'
    BY <1>0, <1>a, <2>1, <2>2 DEF GenerationAlone
  <2>5. Held'
    <3> SUFFICES ASSUME NEW e \in Editors, row = "live" PROVE Holds(e)'
      BY <1>a DEF Held
    <3>1. Holds(e)
      BY <1>0 DEF Held
    <3> QED
      BY <1>a, <2>1, <2>2, <3>1 DEF Holds
  <2> QED
    BY <1>b, <2>3, <2>4, <2>5
<1> QED
  BY <1>1, <1>2, <1>3, <1>4 DEF Generation

\* Another handler's position, its row untouched.
LEMMA OthersHeld ==
  ASSUME TypeOK, Held, NEW e \in Editors, NEW d, desk' = [desk EXCEPT ![e] = d],
         UNCHANGED <<row, doc>>, torn \subseteq torn',
         \A w \in Numbers : versions[w] # NoContent => versions'[w] = versions[w],
         row = "live" => Holds(e)'
  PROVE  Held'
<1> SUFFICES ASSUME NEW f \in Editors, row = "live" PROVE Holds(f)'
  BY DEF Held
<1>1. CASE f = e
  BY <1>1
<1>2. CASE f # e
  <2>1. desk'[f] = desk[f]
    BY <1>2 DEF TypeOK
  <2> QED
    BY <2>1, HoldsFrame DEF Held
<1> QED
  BY <1>1, <1>2

\* Handlers that stand at the first version, before and after a step of one.
LEMMA AloneFrame ==
  ASSUME TypeOK, GenerationAlone, NEW e \in Editors, NEW d, desk' = [desk EXCEPT ![e] = d],
         UNCHANGED <<row, doc, gen>>,
         doc.version = 1 => d.version = 1 /\ d.pc # "record",
         \/ d.pc \in {"idle", "find"} /\ UNCHANGED <<versions, torn>>
         \/ gen \notin {"working", "storing"} \/ row # "live",
         row = "live" /\ doc.version = 1 =>
           torn' \subseteq {1} /\ \A w \in Numbers : w > 1 => versions'[w] = NoContent
  PROVE  GenerationAlone'
<1>1. desk'[e] = d /\ \A f \in Editors : f # e => desk'[f] = desk[f]
  BY DEF TypeOK
<1> QED
  BY <1>1 DEF GenerationAlone

LEMMA BeginKeepsHistory ==
  ASSUME TypeOK, HistoryInv, NEW e \in Editors, BeginEdit(e) \/ BeginRollback(e)
  PROVE  HistoryInv'
<1>0. Contiguous /\ GenerationAlone /\ Held /\ NothingLost
  BY DEF HistoryInv, Held
<1>1. UNCHANGED <<row, doc, gen, versions, shown, torn>> /\ row = "live"
  BY DEF BeginEdit, BeginRollback, deskOthers
<1>2. PICK pc \in {"find", "snapshot"}, op \in {"edit", "rollback"}, c \in Contents :
        /\ desk' = [desk EXCEPT ![e] = [pc |-> pc, op |-> op, version |-> doc.version,
                                        content |-> doc.content, new |-> c]]
        /\ pc = "find" => op = "rollback"
        /\ pc = "snapshot" => op = "edit" /\ c \in Edits /\ doc.status \in {"editing", "failed"}
  BY ContentFacts DEF BeginEdit, BeginRollback
<1> DEFINE d == [pc |-> pc, op |-> op, version |-> doc.version,
                 content |-> doc.content, new |-> c]
<1>3. /\ d.pc = pc /\ d.op = op /\ d.version = doc.version /\ d.content = doc.content
      /\ d.new = c
  OBVIOUS
<1>4. desk' = [desk EXCEPT ![e] = d]
  BY <1>2
<1> HIDE DEF d
<1>5. desk'[e] = d
  BY <1>4 DEF TypeOK
<1>6. Holds(e)'
  <2>1. doc.version \in Nat
    BY NumberFacts
  <2> QED
    BY <1>1, <1>2, <1>3, <1>5, <2>1 DEF Holds
<1>7. Held'
  BY <1>0, <1>1, <1>4, <1>6, OthersHeld
<1>8. pc = "snapshot" => gen \notin {"working", "storing"}
  BY <1>0, <1>1, <1>2 DEF GenerationAlone
<1>9. GenerationAlone'
  <2>1. row = "live" /\ doc.version = 1 =>
          torn' \subseteq {1} /\ \A w \in Numbers : w > 1 => versions'[w] = NoContent
    BY <1>0, <1>1 DEF GenerationAlone
  <2> QED
    BY <1>0, <1>1, <1>2, <1>3, <1>4, <1>8, <2>1, AloneFrame
<1> QED
  BY <1>0, <1>1, <1>7, <1>9, HistoryFrame DEF HistoryInv, Held

LEMMA FindKeepsHistory ==
  ASSUME TypeOK, HistoryInv, NEW e \in Editors, FindVersion(e) \/ HandlerStops(e)
  PROVE  HistoryInv'
<1>0. Contiguous /\ GenerationAlone /\ Held /\ NothingLost /\ desk[e] \in Desk
  BY DEF HistoryInv, Held, TypeOK
<1>1. UNCHANGED <<row, doc, gen, versions, shown, torn>>
  BY DEF FindVersion, HandlerStops, deskOthers
<1>a. ASSUME NEW d, desk' = [desk EXCEPT ![e] = d], row = "live" => Holds(e)',
             row = "live" /\ doc.version = 1 => d.version = 1 /\ d.pc # "record",
             d.pc = "idle" \/ row # "live" \/ gen \notin {"working", "storing"}
      PROVE  HistoryInv'
  <2>1. Held'
    BY <1>0, <1>1, <1>a, OthersHeld
  <2>2. row = "live" /\ doc.version = 1 =>
          torn' \subseteq {1} /\ \A w \in Numbers : w > 1 => versions'[w] = NoContent
    BY <1>0, <1>1 DEF GenerationAlone
  <2>3. GenerationAlone'
    <3>1. CASE row # "live"
      BY <1>1, <3>1 DEF GenerationAlone
    <3>2. CASE row = "live"
      BY <1>0, <1>1, <1>a, <2>2, <3>2, AloneFrame
    <3> QED
      BY <3>1, <3>2
  <2> QED
    BY <1>0, <1>1, <2>1, <2>3, HistoryFrame DEF HistoryInv, Held
<1>2. CASE GoDesk(e, "idle")
  <2>1. desk' = [desk EXCEPT ![e] = IdleDesk]
    BY <1>2 DEF GoDesk
  <2>2. IdleDesk.pc = "idle" /\ IdleDesk.version = 1
    BY DEF IdleDesk
  <2>3. desk'[e] = IdleDesk
    BY <2>1 DEF TypeOK
  <2>4. Holds(e)'
    BY <2>2, <2>3 DEF Holds
  <2> QED
    BY <1>a, <2>1, <2>2, <2>4
<1>3. ASSUME NEW v \in Listed, FindVersion(e),
             desk' = [desk EXCEPT ![e].pc = "snapshot", ![e].new = versions[v]]
      PROVE  HistoryInv'
  <2> DEFINE d == [desk[e] EXCEPT !.pc = "snapshot", !.new = versions[v]]
  <2>1. /\ d.pc = "snapshot" /\ d.op = desk[e].op /\ d.version = desk[e].version
        /\ d.content = desk[e].content /\ d.new = versions[v]
    BY <1>0 DEF Desk
  <2>2. desk' = [desk EXCEPT ![e] = d]
    BY <1>3
  <2> HIDE DEF d
  <2>3. desk'[e] = d /\ desk[e].pc = "find"
    BY <1>3, <2>2 DEF TypeOK, FindVersion
  <2>4. v \in Numbers /\ versions[v] # NoContent
    BY <1>3 DEF Listed, Recorded
  <2>n. \A n \in Numbers : n \in Nat /\ n >= 1
    BY NumberFacts
  <2>5. ASSUME row = "live" PROVE Holds(e)'
    <3>1. Holds(e)
      BY <1>0, <2>5 DEF Held
    <3>2. doc.version = 1 => versions[1] # NoContent
      <4>1. doc.version = 1 => ~(v > 1)
        BY <1>0, <2>4, <2>5 DEF GenerationAlone
      <4> QED
        BY <2>4, <2>n, <4>1
    <3> QED
      BY <1>1, <2>1, <2>3, <2>4, <3>1, <3>2 DEF Holds
  <2>6. row = "live" => gen \notin {"working", "storing"}
    <3>1. row = "live" /\ gen \in {"working", "storing"} =>
            versions[1] = NoContent /\ \A w \in Numbers : w > 1 => versions[w] = NoContent
      BY <1>0 DEF GenerationAlone
    <3> QED
      BY <2>4, <2>n, <3>1
  <2>7. row = "live" /\ doc.version = 1 => d.version = 1
    BY <1>0, <2>1 DEF GenerationAlone
  <2> QED
    BY <1>a, <2>1, <2>2, <2>5, <2>6, <2>7
<1> QED
  BY <1>2, <1>3 DEF FindVersion, HandlerStops

\* A snapshot, and the record of a rollback's result.
LEMMA RecordingKeepsHistory ==
  ASSUME TypeOK, DesksBounded, HistoryInv, NEW e \in Editors,
         Snapshot(e) \/ RecordRollback(e)
  PROVE  HistoryInv'
<1>0. Contiguous /\ GenerationAlone /\ Held /\ NothingLost /\ desk[e] \in Desk
  BY DEF HistoryInv, Held, TypeOK
<1>1. UNCHANGED <<row, doc, gen, shown>>
  BY DEF Snapshot, RecordRollback, deskOthers
<1>b. ASSUME Contiguous', NothingLost', GenerationAlone', Held' PROVE HistoryInv'
  BY <1>b DEF HistoryInv, Held
<1>n. /\ \A n \in Numbers : n \in Nat /\ n >= 1
      /\ doc.version \in Numbers /\ desk[e].version \in Numbers
      /\ desk[e].content \in Contents /\ desk[e].new \in Contents /\ torn \subseteq Numbers
  BY NumberFacts
<1>g. DesksTyped
  BY DEF DesksTyped, TypeOK
<1>2. CASE row # "live"
  <2>1. versions' = versions
    BY <1>2, <1>n DEF Snapshot, RecordRollback, RecordBefore, CreateVersion
  <2> QED
    BY <1>0, <1>1, <1>2, <1>b, <2>1 DEF Contiguous, NothingLost, GenerationAlone, Held
<1>3. CASE row = "live" /\ Snapshot(e)
  <2> DEFINE v == desk[e].version
  <2>1. /\ CreateVersion(v, desk[e].content)
        /\ torn' \in {torn, torn \cup {v}}
        /\ torn' = torn => versions'[v] # NoContent \/ v \in torn
    BY <1>3, <1>n, RecordBeforeFacts DEF Snapshot
  <2>2. Holds(e) /\ desk[e].pc = "snapshot" /\ GoDesk(e, "update")
    BY <1>0, <1>3 DEF Held, Snapshot
  <2>3. doc.version < v => \A n \in Numbers : doc.version <= n /\ n <= v => n \in torn
    BY <2>2 DEF Holds
  <2>4. TornFromTheRow'
    <3>1. TornFromTheRow
      BY <1>0, <1>3 DEF Contiguous
    <3> SUFFICES ASSUME NEW k \in torn', NEW n \in Numbers, doc.version <= n, n <= k
                 PROVE  n \in torn'
      BY <1>1 DEF TornFromTheRow
    <3>2. CASE k \in torn
      BY <2>1, <3>1, <3>2 DEF TornFromTheRow
    <3>3. CASE k = v
      <4>1. doc.version < v \/ n = v
        BY <1>n, <3>3
      <4> QED
        BY <2>1, <2>3, <3>3, <4>1
    <3> QED
      BY <2>1, <3>2, <3>3
  <2>5. v \in torn' \/ (v = doc.version /\ desk[e].content = doc.content) \/ versions[v] # NoContent
    <3>1. CASE doc.version < v
      BY <1>n, <2>1, <2>3, <3>1
    <3>2. CASE v < doc.version
      BY <1>0, <1>3, <1>n, <2>1, <3>2 DEF Contiguous
    <3>3. CASE v = doc.version
      BY <2>1, <2>2, <3>3 DEF Holds
    <3> QED
      BY <1>n, <3>1, <3>2, <3>3
  <2>6. /\ Contiguous' /\ NothingLost'
        /\ \A w \in Numbers : versions[w] # NoContent => versions'[w] = versions[w]
    <3>1. torn \subseteq torn'
      BY <2>1
    <3> QED
      BY <1>0, <1>1, <1>3, <1>n, <2>1, <2>4, <2>5, <3>1, RecordKeeps
  <2>7. PICK d : DeskGoes(e, "update", d)
    BY <1>g, <2>2, GoDeskIs
  <2>8. /\ desk' = [desk EXCEPT ![e] = d] /\ d.pc = "update" /\ d.op = desk[e].op
        /\ d.version = v /\ d.content = desk[e].content /\ d.new = desk[e].new
    BY <2>7 DEF DeskGoes
  <2>9. desk'[e] = d
    BY <2>8 DEF TypeOK
  <2>10. Holds(e)'
    <3>1. v \notin torn' => versions'[v] # NoContent
      BY <2>1
    <3>2. ASSUME NEW w \in Numbers, versions[w] = desk[e].new PROVE versions'[w] = desk[e].new
      BY <1>n, <2>6, <3>2, ContentFacts
    <3>3. doc.version < v => \A n \in Numbers : doc.version <= n /\ n <= v => n \in torn'
      BY <2>1, <2>3
    <3>4. IF desk[e].op = "edit" THEN desk[e].new \in Edits
                                 ELSE \E w \in Numbers : versions'[w] = desk[e].new
      BY <2>2, <3>2 DEF Holds
    <3> QED
      BY <1>1, <2>8, <2>9, <3>1, <3>3, <3>4 DEF Holds
  <2>11. torn \subseteq torn'
    BY <2>1
  <2>12. Held'
    BY <1>0, <1>1, <2>6, <2>8, <2>10, <2>11, OthersHeld
  <2>13. GenerationAlone'
    <3>1. gen \notin {"working", "storing"}
      BY <1>0, <1>3, <2>2 DEF GenerationAlone
    <3>2. doc.version = 1 => v = 1 /\ torn \subseteq {1} /\ \A w \in Numbers : w > 1 => versions[w] = NoContent
      BY <1>0, <1>3 DEF GenerationAlone
    <3>3. \A w \in Numbers : w # v => versions'[w] = versions[w]
      BY <1>n, <2>1, CreateVersionFacts
    <3>4. doc.version = 1 =>
            torn' \subseteq {1} /\ \A w \in Numbers : w > 1 => versions'[w] = NoContent
      BY <1>n, <2>1, <3>2, <3>3
    <3> QED
      BY <1>0, <1>1, <2>8, <3>1, <3>2, <3>4, AloneFrame
  <2> QED
    BY <1>b, <2>6, <2>12, <2>13
<1>4. CASE row = "live" /\ RecordRollback(e)
  <2>1. /\ CreateVersion(desk[e].version + 1, desk[e].new) /\ desk[e].pc = "record"
        /\ torn' = torn /\ GoDesk(e, "idle") /\ Holds(e)
    BY <1>0, <1>4 DEF RecordRollback, Held
  <2> DEFINE v == desk[e].version + 1
  <2>2. v \in Numbers
    BY <1>n, <2>1, DocAssumption DEF DesksBounded, Numbers
  <2>3. v \in torn \/ (v = doc.version /\ desk[e].new = doc.content) \/ versions[v] # NoContent
    <3>1. v \in torn \/ v = doc.version \/ v < doc.version
      BY <1>n, <2>1 DEF Holds
    <3>2. v = doc.version => v \in torn \/ desk[e].new = doc.content
      BY <2>1 DEF Holds
    <3>3. v < doc.version => v \in torn \/ versions[v] # NoContent
      BY <1>0, <1>4, <2>2 DEF Contiguous
    <3> QED
      BY <3>1, <3>2, <3>3
  <2>4. TornFromTheRow'
    BY <1>0, <1>1, <1>4, <2>1 DEF Contiguous, TornFromTheRow
  <2>5. /\ Contiguous' /\ NothingLost'
        /\ \A w \in Numbers : versions[w] # NoContent => versions'[w] = versions[w]
    <3> HIDE DEF v
    <3>1. CreateVersion(v, desk[e].new)
      BY <2>1 DEF v
    <3> QED
      BY <1>0, <1>1, <1>4, <1>n, <2>1, <2>2, <2>3, <2>4, <3>1, RecordKeeps
  <2>6. desk' = [desk EXCEPT ![e] = IdleDesk] /\ IdleDesk.pc = "idle" /\ IdleDesk.version = 1
    BY <2>1 DEF GoDesk, IdleDesk
  <2>7. desk'[e] = IdleDesk
    BY <2>6 DEF TypeOK
  <2>8. Holds(e)'
    BY <2>6, <2>7 DEF Holds
  <2>9. Held'
    BY <1>0, <1>1, <2>1, <2>5, <2>6, <2>8, OthersHeld
  <2>10. GenerationAlone'
    <3>1. gen \notin {"working", "storing"} /\ doc.version # 1
      BY <1>0, <1>4, <2>1 DEF GenerationAlone
    <3> QED
      BY <1>0, <1>1, <2>6, <3>1, AloneFrame
  <2> QED
    BY <1>b, <2>5, <2>9, <2>10
<1> QED
  BY <1>2, <1>3, <1>4

\* The write: what it passes over is torn.
LEMMA UpdateKeepsHistory ==
  ASSUME TypeOK, DesksBounded, HistoryInv, NEW e \in Editors, Update(e)
  PROVE  HistoryInv'
<1>0. Contiguous /\ GenerationAlone /\ Held /\ NothingLost /\ desk[e] \in Desk
  BY DEF HistoryInv, Held, TypeOK
<1>1. /\ UNCHANGED <<row, gen, versions>> /\ desk[e].pc = "update"
      /\ GoDesk(e, "record") \/ GoDesk(e, "idle")
      /\ torn' = IF row = "live" THEN torn \cup Passed(desk[e].version + 1) ELSE torn
  BY DEF Update, deskOthers
<1>b. ASSUME Contiguous', NothingLost', GenerationAlone', Held' PROVE HistoryInv'
  BY <1>b DEF HistoryInv, Held
<1>n. /\ \A k \in Numbers : k \in Nat /\ k >= 1
      /\ doc.version \in Numbers /\ desk[e].version \in Numbers /\ torn \subseteq Numbers
      /\ desk[e].new \in Contents
  BY NumberFacts
<1>g. DesksTyped
  BY DEF DesksTyped, TypeOK
<1>2. CASE row # "live"
  BY <1>0, <1>1, <1>2, <1>b DEF Contiguous, NothingLost, GenerationAlone, Held
<1>3. CASE row = "live"
  <2> DEFINE held == desk[e].version
             n == desk[e].version + 1
             stored == [status |-> "editing", version |-> n, content |-> desk[e].new]
  <2>1. doc' = stored /\ shown' = shown \cup {<<n, desk[e].new>>}
    BY <1>3, StoreDocShows DEF Update
  <2>2. doc'.version = n /\ doc'.content = desk[e].new
    BY <2>1
  <2>3. n \in Numbers /\ held < n
    BY <1>n, <1>1, DocAssumption DEF DesksBounded, Numbers
  <2>4. \A k \in Numbers : k \in torn' <=> k \in torn \/ (n <= k /\ k <= doc.version)
    BY <1>1, <1>3 DEF Passed
  <2>h. Holds(e)
    BY <1>0, <1>3 DEF Held
  <2>c. /\ TornFromTheRow
        /\ \A v \in Numbers \ torn :
             /\ v < doc.version => versions[v] # NoContent
             /\ v > doc.version => versions[v] = NoContent
             /\ v = doc.version => versions[v] \in {NoContent, doc.content}
    BY <1>0, <1>3 DEF Contiguous
  <2>t. torn \subseteq torn' /\ torn' \subseteq Numbers
    BY <1>1, <1>3, <1>n DEF Passed
  <2>m. doc.version < held => \A k \in Numbers : doc.version <= k /\ k <= held => k \in torn
    BY <1>1, <2>h DEF Holds
  <2>u. held \in torn \/ versions[held] # NoContent
    BY <1>1, <2>h DEF Holds
  <2> HIDE DEF stored, held
  <2>v. n = held + 1 /\ held \in Numbers
    BY <1>n DEF held
  <2> HIDE DEF n
  <2>5. Contiguous'
    <3>1. TornFromTheRow'
      <4> SUFFICES ASSUME NEW k \in torn', NEW m \in Numbers, n <= m, m <= k
                   PROVE  m \in torn'
        BY <2>2 DEF TornFromTheRow
      <4>1. CASE m <= doc.version
        BY <2>4, <4>1
      <4>2. CASE doc.version < m
        <5>1. k \in Numbers /\ doc.version < k
          BY <1>n, <2>t, <4>2
        <5>2. k \in torn
          BY <1>n, <2>4, <5>1
        <5> QED
          BY <1>n, <2>c, <2>t, <4>2, <5>2 DEF TornFromTheRow
      <4> QED
        BY <1>n, <4>1, <4>2
    <3>2. ASSUME NEW w \in Numbers \ torn'
          PROVE  /\ w < n => versions[w] # NoContent
                 /\ w > n => versions[w] = NoContent
                 /\ w = n => versions[w] \in {NoContent, desk[e].new}
      <4>1. w \in Numbers \ torn /\ ~(n <= w /\ w <= doc.version)
        BY <2>4, <2>t, <3>2
      <4>2. CASE w < doc.version
        BY <1>n, <2>3, <2>c, <4>1, <4>2
      <4>3. CASE w > doc.version
        <5>1. versions[w] = NoContent
          BY <2>c, <4>1, <4>3
        <5>2. ~(w < n)
          <6>1. w <= held => doc.version < held /\ doc.version <= w
            BY <1>n, <2>v, <4>3
          <6>2. ~(w <= held)
            BY <2>m, <4>1, <6>1
          <6> QED
            BY <1>n, <2>v, <6>2
        <5> QED
          BY <5>1, <5>2
      <4>4. CASE w = doc.version
        <5>1. w < n
          BY <1>n, <2>3, <4>1, <4>4
        <5>2. ~(doc.version < held)
          BY <1>n, <2>m, <2>v, <4>1, <4>4
        <5>3. w = held
          BY <1>n, <2>v, <4>4, <5>1, <5>2
        <5> QED
          BY <1>n, <2>3, <2>u, <4>1, <5>1, <5>3
      <4> QED
        BY <1>n, <4>2, <4>3, <4>4
    <3> QED
      BY <1>1, <1>3, <2>2, <3>1, <3>2 DEF Contiguous
  <2>6. NothingLost'
    <3> SUFFICES ASSUME NEW p \in shown', p # <<1, Blank>>
                 PROVE  p[1] \in torn' \/ versions[p[1]] = p[2] \/ p = <<n, desk[e].new>>
      BY <1>1, <2>2 DEF NothingLost
    <3>1. CASE p \in shown
      <4>1. p[1] \in torn \/ versions[p[1]] = p[2] \/ p = <<doc.version, doc.content>>
        BY <1>0, <1>3, <3>1 DEF NothingLost
      <4>2. ASSUME p = <<doc.version, doc.content>>, doc.version \notin torn'
            PROVE  versions[p[1]] = p[2]
        <5>1. doc.version \notin torn /\ ~(n <= doc.version)
          BY <1>n, <2>4, <2>t, <4>2
        <5>2. ~(doc.version < held)
          BY <1>n, <2>m, <2>v, <5>1
        <5>3. doc.version = held
          BY <1>n, <2>v, <5>1, <5>2
        <5>4. versions[doc.version] # NoContent
          BY <2>u, <5>1, <5>3
        <5>5. versions[doc.version] = doc.content
          BY <1>n, <2>c, <5>1, <5>4
        <5> QED
          BY <4>2, <5>5
      <4> QED
        BY <2>t, <4>1, <4>2
    <3>2. CASE p = <<n, desk[e].new>>
      BY <3>2
    <3> QED
      BY <2>1, <3>1, <3>2
  <2>7. PICK pc \in {"record", "idle"} : GoDesk(e, pc)
    BY <1>1
  <2>8. PICK d : DeskGoes(e, pc, d)
    BY <1>g, <2>7, GoDeskIs
  <2>9. /\ desk' = [desk EXCEPT ![e] = d] /\ d.pc = pc
        /\ pc = "record" => d.version = held /\ d.new = desk[e].new
    BY <2>8 DEF DeskGoes, held
  <2>10. desk'[e] = d /\ \A f \in Editors : f # e => desk'[f] = desk[f]
    BY <2>9 DEF TypeOK
  <2>11. Holds(e)'
    <3>1. ~(n < held) /\ held + 1 = n
      BY <1>n, <2>v, <2>3
    <3> QED
      BY <1>n, <2>2, <2>3, <2>9, <2>10, <3>1 DEF Holds
  <2>12. ASSUME NEW f \in Editors, f # e PROVE Holds(f)'
    <3> DEFINE g == desk[f]
    <3>1. Holds(f) /\ g \in Desk /\ g.version \in Numbers /\ desk'[f] = g
      BY <1>0, <1>3, <2>10, <2>12 DEF Held, TypeOK, Desk
    <3>2. g.pc # "idle" /\ n < g.version =>
            \A m \in Numbers : n <= m /\ m <= g.version => m \in torn'
      <4> SUFFICES ASSUME g.pc # "idle", n < g.version, NEW m \in Numbers, n <= m, m <= g.version
                   PROVE  m \in torn'
        OBVIOUS
      <4>1. CASE m <= doc.version
        BY <2>4, <4>1
      <4>2. CASE doc.version < m
        <5>1. doc.version < g.version /\ doc.version <= m
          BY <1>n, <3>1, <4>2
        <5> QED
          BY <2>t, <3>1, <5>1 DEF Holds
      <4> QED
        BY <1>n, <4>1, <4>2
    <3>3. g.pc # "idle" /\ g.version = n => g.version \in torn'
      <4>1. n <= doc.version => n \in torn'
        BY <1>n, <2>3, <2>4
      <4>2. g.pc # "idle" /\ g.version = n /\ doc.version < n => n \in torn
        BY <1>n, <2>3, <3>1 DEF Holds
      <4> QED
        BY <1>n, <2>3, <2>t, <4>1, <4>2
    <3>4. g.pc = "record" /\ g.version + 1 \notin torn' => g.version + 1 < n
      <4> SUFFICES ASSUME g.pc = "record", g.version + 1 \notin torn', ~(g.version + 1 < n)
                   PROVE  FALSE
        OBVIOUS
      <4>1. g.version + 1 \in Numbers
        BY <1>n, <3>1, DocAssumption DEF DesksBounded, Numbers
      <4>2. g.version + 1 <= doc.version
        BY <2>t, <3>1 DEF Holds
      <4> QED
        BY <1>n, <2>3, <2>4, <4>1, <4>2
    <3>5. /\ g.pc = "find" => g.op = "rollback"
          /\ g.pc = "update" /\ g.version \notin torn' => versions[g.version] # NoContent
          /\ g.pc \in {"snapshot", "update"} =>
               IF g.op = "edit" THEN g.new \in Edits ELSE \E v \in Numbers : versions[v] = g.new
      BY <2>t, <3>1 DEF Holds
    <3>6. g.pc = "record" /\ g.version + 1 \notin torn' => g.version + 1 <= n /\ g.version + 1 # n
      BY <1>n, <2>3, <3>1, <3>4
    <3> HIDE DEF g
    <3>7. versions' = versions /\ doc'.version = n
      BY <1>1, <2>2
    <3> QED
      BY <3>1, <3>2, <3>3, <3>5, <3>6, <3>7 DEF Holds
  <2>13. Held'
    BY <2>11, <2>12 DEF Held
  <2>14. GenerationAlone'
    <3>1. gen \notin {"working", "storing"}
      BY <1>0, <1>1, <1>3 DEF GenerationAlone
    <3>2. doc'.version # 1
      BY <1>n, <2>2, <2>3, <2>v
    <3> QED
      BY <1>1, <3>1, <3>2 DEF GenerationAlone
  <2> QED
    BY <1>b, <2>5, <2>6, <2>13, <2>14
<1> QED
  BY <1>2, <1>3

LEMMA InitHistory == ASSUME Init PROVE HistoryInv
<1>1. row = "none" /\ \A v \in Numbers : versions[v] = NoContent
  BY DEF Init
<1> QED
  BY <1>1 DEF HistoryInv, Contiguous, GenerationAlone, NothingLost

LEMMA NextHistory ==
  ASSUME TypeOK, DesksBounded, Untouched, HistoryInv, [Next]_vars
  PROVE  HistoryInv'
<1>0. Contiguous /\ GenerationAlone /\ Held /\ NothingLost
  BY DEF HistoryInv, Held
<1>b. ASSUME Contiguous', NothingLost', GenerationAlone', Held' PROVE HistoryInv'
  BY <1>b DEF HistoryInv, Held
<1>c. \A n \in Numbers : n >= 1 /\ n \in Nat
  BY DEF Numbers
<1>1. CASE GenerateDocument
  <2>1. /\ row = "none" /\ row' = "live" /\ gen' = "working"
        /\ shown' = {<<doc.version, doc.content>>} /\ UNCHANGED <<doc, versions, desk, torn>>
    BY <1>1 DEF GenerateDocument
  <2>2. /\ \A v \in Numbers : versions[v] = NoContent
        /\ \A e \in Editors : desk[e].pc = "idle" /\ desk[e].version = 1
        /\ doc = [status |-> "generating", version |-> 1, content |-> Blank]
        /\ torn = {}
    BY <2>1 DEF Untouched, IdleDesk
  <2>3. doc.version = 1 /\ doc.content = Blank
    BY <2>2
  <2>4. 1 \in Numbers
    BY ContentFacts
  <2>5. Contiguous'
    <3>1. \A v \in Numbers : ~(v < 1)
      BY <1>c
    <3> QED
      BY <2>1, <2>2, <2>3, <2>4, <3>1 DEF Contiguous, TornFromTheRow
  <2>6. GenerationAlone'
    BY <2>1, <2>2, <2>3, <2>4 DEF GenerationAlone
  <2>7. Held'
    BY <2>1, <2>2 DEF Held, Holds
  <2>8. NothingLost'
    BY <2>1, <2>3 DEF NothingLost
  <2> QED
    BY <1>b, <2>5, <2>6, <2>7, <2>8
<1>2. CASE DeadlinePasses \/ Generation
  BY <1>2, GenerationKeepsHistory
<1>3. CASE DeleteDocument
  <2>1. row' = "deleted" /\ \A v \in Numbers : versions'[v] = NoContent
    BY <1>3 DEF DeleteDocument
  <2> QED
    BY <1>b, <2>1 DEF Contiguous, NothingLost, GenerationAlone, Held
<1>4. ASSUME NEW e \in Editors,
             BeginEdit(e) \/ BeginRollback(e) \/ Handles(e) \/ HandlerStops(e)
      PROVE  HistoryInv'
  BY <1>4, BeginKeepsHistory, FindKeepsHistory, RecordingKeepsHistory, UpdateKeepsHistory
     DEF Handles
<1>5. ASSUME UNCHANGED jobOthers PROVE HistoryInv'
  <2>1. UNCHANGED <<row, doc, versions, gen, desk, shown, torn>>
    BY <1>5 DEF jobOthers
  <2>2. GenerationAlone'
    BY <1>0, <2>1 DEF GenerationAlone
  <2> QED
    BY <1>0, <1>b, <2>1, <2>2, HistoryFrame, HeldFrame
<1>6. CASE ServiceRestarts
  <2>1. gen' = "idle" /\ UNCHANGED <<row, doc, versions, shown, torn>>
    BY <1>6 DEF ServiceRestarts
  <2>2. \A e \in Editors : desk'[e].pc = "idle" /\ desk'[e].version = 1
    BY <1>6 DEF ServiceRestarts, IdleDesk
  <2>3. GenerationAlone' /\ Held'
    BY <1>0, <2>1, <2>2 DEF GenerationAlone, Held, Holds
  <2> QED
    BY <1>0, <1>b, <2>1, <2>3, HistoryFrame
<1>7. ASSUME NEW x \in Exports, CreateExportJob(x) \/ RunExport(x) PROVE HistoryInv'
  BY <1>5, <1>7, ExportTypes
<1>8. CASE UNCHANGED vars
  BY <1>5, <1>8 DEF vars, jobOthers
<1> QED
  BY <1>1, <1>2, <1>3, <1>4, <1>6, <1>7, <1>8 DEF Next

LEMMA DocumentInvariant == Spec => [](TypeOK /\ DesksBounded /\ HonestInv /\ HistoryInv)
<1>1. Init => TypeOK /\ DesksBounded /\ HonestInv /\ HistoryInv
  BY InitTyped, InitHonest, InitHistory
<1>2. TypeOK /\ DesksBounded /\ HonestInv /\ HistoryInv /\ [Next]_vars
        => TypeOK' /\ DesksBounded' /\ HonestInv' /\ HistoryInv'
  BY NextTyped, NextHonest, NextHistory DEF HonestInv
<1> QED
  BY <1>1, <1>2, PTL DEF Spec

(***************************************************************************)
(* Nothing is lost and every passed number is on record, but for the       *)
(* numbers that a stale write or a failed insert tore, however many        *)
(* handlers run and whatever fails (UpdateDocument, RollbackToVersion).    *)
(***************************************************************************)
THEOREM HistoryIsKept == Spec => []HistoryInv
BY DocumentInvariant, PTL

(***************************************************************************)
(* The version history that the row, its records and torn stand for.       *)
(***************************************************************************)
LEMMA SameFunction ==
  ASSUME NEW f, NEW g, f = [v \in DOMAIN f |-> f[v]], g = [v \in DOMAIN g |-> g[v]],
         DOMAIN f = DOMAIN g, \A v \in DOMAIN f : f[v] = g[v]
  PROVE  f = g
OBVIOUS

LEMMA HistoryNow ==
  ASSUME row = "live"
  PROVE  /\ DOMAIN History = (1..doc.version) \ torn /\ Lost = torn
         /\ History = [v \in DOMAIN History |-> History[v]]
         /\ \A v \in DOMAIN History :
              History[v] = IF v = doc.version THEN doc.content ELSE versions[v]
BY DEF History, Lost

LEMMA HistoryNext ==
  ASSUME row' = "live"
  PROVE  /\ DOMAIN History' = (1..doc'.version) \ torn' /\ Lost' = torn'
         /\ History' = [v \in DOMAIN History' |-> History'[v]]
         /\ \A v \in DOMAIN History' :
              History'[v] = IF v = doc'.version THEN doc'.content ELSE versions'[v]
BY DEF History, Lost

LEMMA HistoryGone ==
  /\ row # "live" => History = << >> /\ Lost = {}
  /\ row' # "live" => History' = << >> /\ Lost' = {}
BY DEF History, Lost

Steps == VH!Next \/ UNCHANGED VH!vars

\* A step that does nothing but tear numbers is a loss, or nothing.
LEMMA HistoryShrinks ==
  ASSUME row = "live", row' = "live", torn \subseteq torn',
         torn' \subseteq torn \cup (1..doc.version),
         DOMAIN History' = DOMAIN History \ torn',
         \A v \in DOMAIN History' : History'[v] = History[v]
  PROVE  Steps
<1> DEFINE S == DOMAIN History \ DOMAIN History'
<1>1. /\ DOMAIN History = (1..doc.version) \ torn /\ Lost = torn
      /\ History = [v \in DOMAIN History |-> History[v]]
  BY HistoryNow
<1>2. Lost' = torn' /\ History' = [v \in DOMAIN History' |-> History'[v]]
  BY HistoryNext
<1>3. S = torn' \ torn
  BY <1>1
<1>4. CASE S = {}
  <2>1. torn' = torn /\ DOMAIN History' = DOMAIN History
    BY <1>3, <1>4
  <2>2. History' = History
    BY <1>1, <1>2, <2>1, SameFunction
  <2> QED
    BY <1>1, <1>2, <2>1, <2>2 DEF Steps, VH!vars
<1>5. CASE S # {}
  <2>1. DOMAIN History \ S = DOMAIN History'
    BY <1>3
  <2>2. Lost' = Lost \cup S
    BY <1>1, <1>2, <1>3
  <2> DEFINE rest == [v \in DOMAIN History \ S |-> History[v]]
  <2>3. DOMAIN rest = DOMAIN History' /\ \A v \in DOMAIN History' : rest[v] = History'[v]
    BY <2>1
  <2>4. rest = [v \in DOMAIN rest |-> rest[v]]
    OBVIOUS
  <2>5. History' = rest
    <3> HIDE DEF rest
    <3> QED
      BY <1>2, <2>3, <2>4, SameFunction
  <2>6. VH!Lose(S)
    BY <1>5, <2>2, <2>5 DEF VH!Lose
  <2> QED
    BY <2>6 DEF Steps, VH!Next
<1> QED
  BY <1>4, <1>5

\* The row stays, and only numbers without a record are recorded.
LEMMA SameRow ==
  ASSUME TypeOK, Contiguous, row' = row,
         doc'.version = doc.version, doc'.content = doc.content,
         torn \subseteq torn', row # "live" => torn' = torn,
         torn' \subseteq torn \cup (1..doc.version),
         \A w \in Numbers : versions'[w] = versions[w] \/ versions[w] = NoContent
  PROVE  Steps
<1>1. CASE row # "live"
  BY <1>1, HistoryGone DEF Steps, VH!vars
<1>2. CASE row = "live"
  <2>1. /\ DOMAIN History = (1..doc.version) \ torn
        /\ \A v \in DOMAIN History :
             History[v] = IF v = doc.version THEN doc.content ELSE versions[v]
    BY <1>2, HistoryNow
  <2>2. /\ DOMAIN History' = (1..doc.version) \ torn'
        /\ \A v \in DOMAIN History' :
             History'[v] = IF v = doc.version THEN doc.content ELSE versions'[v]
    BY <1>2, HistoryNext
  <2>3. DOMAIN History' = DOMAIN History \ torn'
    BY <2>1, <2>2
  <2>4. ASSUME NEW v \in DOMAIN History' PROVE History'[v] = History[v]
    <3>1. v \in DOMAIN History /\ v \in 1..doc.version /\ v \notin torn
      BY <2>1, <2>2, <2>4
    <3>2. doc.version \in Numbers /\ \A k \in Numbers : k \in Nat
      BY NumberFacts
    <3>3. v \in Numbers
      BY <3>1, <3>2, DocAssumption DEF Numbers
    <3>4. v # doc.version => versions[v] # NoContent
      BY <1>2, <3>1, <3>2, <3>3 DEF Contiguous
    <3> QED
      BY <2>1, <2>2, <2>4, <3>1, <3>3, <3>4
  <2> QED
    BY <1>2, <2>3, <2>4, HistoryShrinks
<1> QED
  BY <1>1, <1>2

\* A write ahead of the row adds the first number that was never used.
LEMMA UpdateAdds ==
  ASSUME TypeOK, DesksBounded, HistoryInv, NEW e \in Editors, Update(e), row = "live",
         desk[e].version + 1 \notin torn'
  PROVE  /\ VH!Add(desk[e].version + 1, desk[e].new)
         /\ desk[e].version + 1 \in DOMAIN History' \ DOMAIN History
<1> DEFINE held == desk[e].version
           n == desk[e].version + 1
           c == desk[e].new
           stored == [status |-> "editing", version |-> n, content |-> c]
<1>0. Contiguous /\ Holds(e)
  BY DEF HistoryInv
<1>1. row' = row /\ versions' = versions /\ torn' = torn \cup Passed(n) /\ desk[e].pc = "update"
  BY DEF Update, deskOthers
<1>2. doc' = stored
  BY StoreDocShows DEF Update
<1>3. doc'.version = n /\ doc'.content = c
  BY <1>2
<1>n. /\ \A k \in Numbers : k \in Nat /\ k >= 1
      /\ doc.version \in Numbers /\ held \in Numbers /\ torn \subseteq Numbers
  BY NumberFacts
<1>4. n \in Numbers /\ n = held + 1
  BY <1>n, <1>1, DocAssumption DEF DesksBounded, Numbers
<1>5. doc.version < n /\ n \notin torn
  <2>1. n \in torn' <=> n \in torn \/ (n <= doc.version)
    <3> HIDE DEF n
    <3> QED
      BY <1>1, <1>4 DEF Passed
  <2> QED
    BY <1>n, <1>1, <1>4, <2>1
<1>6. torn' = torn
  <2>1. \A k \in Numbers : ~(n <= k /\ k <= doc.version)
    BY <1>n, <1>4, <1>5
  <2> QED
    BY <1>1, <2>1 DEF Passed
<1>7. doc.version < held => \A k \in Numbers : doc.version <= k /\ k <= held => k \in torn
  BY <1>0, <1>1 DEF Holds
<1>8. held \notin torn => versions[held] # NoContent
  BY <1>0, <1>1 DEF Holds
<1>9. /\ TornFromTheRow
      /\ doc.version \notin torn => versions[doc.version] \in {NoContent, doc.content}
  BY <1>0, <1>n DEF Contiguous
<1>10. /\ DOMAIN History = (1..doc.version) \ torn /\ Lost = torn
       /\ History = [v \in DOMAIN History |-> History[v]]
       /\ \A v \in DOMAIN History :
            History[v] = IF v = doc.version THEN doc.content ELSE versions[v]
  BY HistoryNow
<1>11. /\ DOMAIN History' = (1..n) \ torn /\ Lost' = torn
       /\ History' = [v \in DOMAIN History' |-> History'[v]]
       /\ \A v \in DOMAIN History' : History'[v] = IF v = n THEN c ELSE versions[v]
  BY <1>1, <1>3, <1>6, HistoryNext
<1> HIDE DEF stored, c, held
<1>12. n \notin VH!Used
  BY <1>n, <1>5, <1>10 DEF VH!Used
<1>13. n - 1 \in VH!Used
  <2>1. CASE doc.version < held
    BY <1>n, <1>4, <1>7, <1>10, <2>1 DEF VH!Used
  <2>2. CASE ~(doc.version < held)
    <3>1. held \in 1..doc.version
      BY <1>n, <2>2
    <3> QED
      BY <1>n, <1>4, <1>10, <3>1 DEF VH!Used
  <2> QED
    BY <2>1, <2>2
<1>14. ASSUME NEW k \in VH!Used PROVE k < n
  <2>1. CASE k \in 1..doc.version
    BY <1>n, <1>4, <1>5, <2>1
  <2>2. CASE k \in torn
    BY <1>n, <1>4, <1>5, <1>9, <2>2 DEF TornFromTheRow
  <2> QED
    BY <1>10, <1>14, <2>1, <2>2 DEF VH!Used
<1>15. DOMAIN History' = DOMAIN History \cup {n}
  <2>1. ASSUME NEW w \in 1..n, w \notin torn, w # n PROVE w \in 1..doc.version
    <3>1. w \in Numbers /\ w <= held
      <4> HIDE DEF n
      <4>1. n \in Nat /\ n <= MaxVersion /\ MaxVersion \in Nat /\ held \in Nat
        BY <1>n, <1>4, DocAssumption DEF Numbers
      <4>2. w \in Nat /\ 1 <= w /\ w <= n
        BY <2>1, <4>1
      <4>3. w < n
        BY <2>1, <4>1, <4>2
      <4>4. w <= held
        BY <1>4, <4>1, <4>2, <4>3
      <4>5. w \in 1..MaxVersion
        BY <4>1, <4>2
      <4> QED
        BY <4>4, <4>5 DEF Numbers
    <3>2. ~(doc.version < w)
      <4> HIDE DEF n
      <4>0. doc.version \in Nat /\ held \in Nat /\ w \in Nat /\ w <= held
        BY <1>n, <3>1
      <4>1. doc.version < w => doc.version < held /\ doc.version <= w
        <5> DEFINE at == doc.version
        <5>1. at \in Nat
          BY <4>0
        <5> HIDE DEF at, held
        <5> QED
          BY <4>0, <5>1 DEF at
      <4> QED
        BY <1>7, <2>1, <3>1, <4>1
    <3> QED
      BY <1>n, <3>1, <3>2
  <2>2. 1..doc.version \subseteq 1..n /\ n \in 1..n
    BY <1>n, <1>4, <1>5
  <2> QED
    BY <1>5, <1>10, <1>11, <2>1, <2>2
<1>16. ASSUME NEW w \in DOMAIN History PROVE History'[w] = History[w] /\ w # n
  <2>1. w \in 1..doc.version /\ w \notin torn
    BY <1>10, <1>16
  <2>2. w # n
    BY <1>n, <1>4, <1>5, <2>1
  <2>3. w = doc.version => versions[w] = doc.content
    <3>1. w = doc.version => ~(doc.version < held)
      BY <1>n, <1>7, <2>1
    <3>2. w = doc.version => w = held
      BY <1>n, <1>4, <1>5, <3>1
    <3> QED
      BY <1>8, <1>9, <2>1, <3>2
  <2> QED
    BY <1>10, <1>11, <1>15, <1>16, <2>2, <2>3
<1> DEFINE more == [v \in DOMAIN History \cup {n} |-> IF v = n THEN c ELSE History[v]]
<1>17. DOMAIN more = DOMAIN History' /\ more = [v \in DOMAIN more |-> more[v]]
  BY <1>15
<1>18. \A v \in DOMAIN History' : History'[v] = more[v]
  BY <1>11, <1>15, <1>16
<1>19. History' = more
  <2> HIDE DEF more
  <2> QED
    BY <1>11, <1>17, <1>18, SameFunction
<1>20. n \in DOMAIN History' \ DOMAIN History
  BY <1>15, <1>16
<1>21. row' = row /\ Lost' = Lost
  BY <1>1, <1>10, <1>11
<1> QED
  BY <1>12, <1>13, <1>14, <1>19, <1>20, <1>21 DEF VH!Add, c

LEMMA UpdateRefines ==
  ASSUME TypeOK, DesksBounded, HistoryInv, NEW e \in Editors, Update(e)
  PROVE  Steps
<1> DEFINE n == desk[e].version + 1
           c == desk[e].new
<1>0. /\ Contiguous
      /\ row = "live" => Holds(e)
      /\ row' = row /\ versions' = versions /\ desk[e].pc = "update"
  BY DEF HistoryInv, Update, deskOthers
<1>n. /\ \A k \in Numbers : k \in Nat /\ k >= 1
      /\ doc.version \in Numbers /\ desk[e].version \in Numbers /\ torn \subseteq Numbers
      /\ c \in Contents
  BY NumberFacts
<1>1. CASE row # "live"
  BY <1>0, <1>1, HistoryGone DEF Steps, VH!vars
<1>2. CASE row = "live" /\ n \notin torn'
  <2>1. VH!Add(n, c) /\ n \in DOMAIN History' \ DOMAIN History
    BY <1>2, UpdateAdds
  <2>2. CASE desk[e].op = "edit"
    <3>1. c \in Edits
      BY <1>0, <1>2, <2>2 DEF Holds
    <3> QED
      BY <2>1, <3>1 DEF Steps, VH!Next, VH!Edit
  <2>3. CASE desk[e].op # "edit"
    <3>1. PICK v \in Numbers : versions[v] = c
      BY <1>0, <1>2, <2>3 DEF Holds
    <3>2. /\ DOMAIN History = (1..doc.version) \ torn /\ Lost = torn
          /\ \A w \in DOMAIN History :
               History[w] = IF w = doc.version THEN doc.content ELSE versions[w]
      BY <1>2, HistoryNow
    <3>3. CASE v \in torn
      <4>1. Lost # {} /\ c \in Edits \cup {Blank, Generated}
        BY <1>n, <3>2, <3>3 DEF Contents
      <4>2. VH!Restore(n)
        BY <2>1, <4>1 DEF VH!Restore
      <4> QED
        BY <2>1, <4>2 DEF Steps, VH!Next
    <3>4. CASE v \notin torn
      <4>1. versions[v] # NoContent
        BY <1>n, <3>1, ContentFacts
      <4>2. ~(v > doc.version) /\ (v = doc.version => versions[v] = doc.content)
        BY <1>0, <1>2, <3>4, <4>1 DEF Contiguous
      <4>3. v \in DOMAIN History
        BY <1>n, <3>2, <3>4, <4>2
      <4>4. History[v] = c
        BY <3>1, <3>2, <4>2, <4>3
      <4>5. VH!Restore(n)
        BY <2>1, <4>3, <4>4 DEF VH!Restore
      <4> QED
        BY <2>1, <4>5 DEF Steps, VH!Next
    <3> QED
      BY <3>3, <3>4
  <2> QED
    BY <2>2, <2>3
\* The number was passed, or was torn before: at most, numbers are lost.
<1>3. CASE row = "live" /\ n \in torn'
  <2> DEFINE stored == [status |-> "editing", version |-> n, content |-> c]
  <2>1. doc' = stored /\ torn' = torn \cup Passed(n)
    BY <1>3, StoreDocShows DEF Update
  <2>2. doc'.version = n /\ doc'.content = c
    BY <2>1
  <2>3. n \in Numbers
    BY <1>n, <1>0, DocAssumption DEF DesksBounded, Numbers
  <2>4. /\ DOMAIN History = (1..doc.version) \ torn
        /\ \A v \in DOMAIN History :
             History[v] = IF v = doc.version THEN doc.content ELSE versions[v]
    BY <1>3, HistoryNow
  <2>5. /\ DOMAIN History' = (1..n) \ torn'
        /\ \A v \in DOMAIN History' : History'[v] = IF v = n THEN c ELSE versions[v]
    BY <1>0, <1>3, <2>2, HistoryNext
  <2> HIDE DEF n, stored, c
  <2>6. \A k \in torn' : k \in torn \/ (n <= k /\ k <= doc.version)
    BY <2>1 DEF Passed
  <2>7. \A k \in Numbers : n <= k /\ k <= doc.version => k \in torn'
    BY <2>1 DEF Passed
  <2>8. torn \subseteq torn' /\ torn' \subseteq torn \cup (1..doc.version)
    BY <1>n, <2>1, <2>3, <2>6 DEF Passed
  <2>9. ASSUME NEW w \in Numbers, w \notin torn' PROVE w <= n <=> w <= doc.version
    <3>1. CASE n <= doc.version
      BY <1>n, <2>3, <2>7, <2>9, <3>1
    <3>2. CASE doc.version < n
      <4>1. n \in torn
        BY <1>n, <1>3, <2>3, <2>6, <3>2
      <4>2. TornFromTheRow
        BY <1>0, <1>3 DEF Contiguous
      <4>3. doc.version <= w /\ w <= n => w \in torn
        BY <2>9, <4>1, <4>2 DEF TornFromTheRow
      <4> QED
        BY <1>n, <2>3, <2>8, <2>9, <3>2, <4>3
    <3> QED
      BY <1>n, <2>3, <3>1, <3>2
  <2>10. DOMAIN History' = DOMAIN History \ torn'
    <3>1. \A w : w \in 1..n \/ w \in 1..doc.version => w \in Numbers
      BY <1>n, <2>3, DocAssumption DEF Numbers
    <3>2. \A w \in Numbers : (w \in 1..n <=> w <= n) /\ (w \in 1..doc.version <=> w <= doc.version)
      BY <1>n, <2>3
    <3> QED
      BY <2>4, <2>5, <2>8, <2>9, <3>1, <3>2
  <2>11. ASSUME NEW w \in DOMAIN History' PROVE History'[w] = History[w]
    <3>1. w \in DOMAIN History /\ w \in 1..n /\ w \in 1..doc.version /\ w \notin torn'
      BY <2>4, <2>5, <2>10, <2>11
    <3>2. w # n
      BY <1>3, <3>1
    <3>3. w # doc.version
      <4>1. CASE n <= doc.version
        BY <1>n, <2>3, <2>7, <3>1, <4>1
      <4>2. CASE doc.version < n
        <5>1. n \in torn
          BY <1>n, <1>3, <2>3, <2>6, <4>2
        <5>2. doc.version \in torn
          BY <1>0, <1>3, <1>n, <2>3, <4>2, <5>1 DEF Contiguous, TornFromTheRow
        <5> QED
          BY <2>8, <3>1, <5>2
      <4> QED
        BY <1>n, <2>3, <4>1, <4>2
    <3> QED
      BY <2>4, <2>5, <2>11, <3>1, <3>2, <3>3
  <2> QED
    BY <1>0, <1>3, <2>8, <2>10, <2>11, HistoryShrinks
<1> QED
  BY <1>1, <1>2, <1>3

\* The generation fills in the blank first version.
LEMMA GenerationRefines ==
  ASSUME TypeOK, HistoryInv, DeadlinePasses \/ Generation
  PROVE  Steps
<1>0. Contiguous /\ GenerationAlone /\ versions \in [Numbers -> Contents \cup {NoContent}]
  BY DEF HistoryInv, TypeOK
<1>a. row' = row /\ torn' = torn
  BY DEF DeadlinePasses, Generation, GenerateContent, StoreGenerated,
         CreateInitialVersion, FailGeneration
<1>1. CASE DeadlinePasses \/ GenerateContent
  <2>1. UNCHANGED <<doc, versions>>
    BY <1>1 DEF DeadlinePasses, GenerateContent
  <2> QED
    BY <1>0, <1>a, <2>1, SameRow
<1>2. CASE StoreGenerated
  <2> DEFINE d == [doc EXCEPT !.status = "editing", !.version = 1, !.content = Generated]
  <2>1. d.version = 1 /\ d.content = Generated
    BY DEF TypeOK, Doc
  <2>2. StoreDoc(d) \/ UNCHANGED doc
    BY <1>2 DEF StoreGenerated
  <2>3. versions' = versions /\ gen = "storing"
    BY <1>2 DEF StoreGenerated
  <2> HIDE DEF d
  <2>4. CASE row # "live"
    BY <1>a, <2>4, HistoryGone DEF Steps, VH!vars
  <2>5. CASE UNCHANGED doc
    BY <1>0, <1>a, <2>3, <2>5, SameRow
  <2>6. CASE StoreDoc(d) /\ row = "live"
    <3>1. doc' = d
      BY <2>6, StoreDocShows
    <3>2. doc.version = 1 /\ doc.content = Blank /\ torn = {}
      BY <1>0, <2>3, <2>6 DEF GenerationAlone
    <3>3. (1..1) \ {} = {1}
      OBVIOUS
    <3>4. /\ History = [v \in DOMAIN History |-> History[v]] /\ DOMAIN History = {1}
          /\ History[1] = Blank /\ Lost = {}
      BY <2>6, <3>2, <3>3, HistoryNow
    <3>5. /\ History' = [v \in DOMAIN History' |-> History'[v]] /\ DOMAIN History' = {1}
          /\ History'[1] = Generated /\ Lost' = {}
      BY <1>a, <2>1, <2>6, <3>1, <3>2, <3>3, HistoryNext
    <3>6. History = VH!First(Blank) /\ History' = VH!First(Generated)
      BY <3>4, <3>5 DEF VH!First
    <3>7. VH!Fill
      BY <1>a, <2>6, <3>4, <3>5, <3>6 DEF VH!Fill
    <3> QED
      BY <3>7 DEF Steps, VH!Next
  <2> QED
    BY <2>2, <2>4, <2>5, <2>6
<1>3. CASE CreateInitialVersion
  <2>1. UNCHANGED doc /\ (versions' = versions \/ CreateVersion(1, Generated))
    BY <1>3 DEF CreateInitialVersion
  <2>2. \A w \in Numbers : versions'[w] = versions[w] \/ versions[w] = NoContent
    BY <2>1, CreateVersionFacts, ContentFacts
  <2> QED
    BY <1>0, <1>a, <2>1, <2>2, SameRow
<1>4. CASE FailGeneration
  <2>1. UNCHANGED versions
    BY <1>4 DEF FailGeneration
  <2>2. doc'.version = doc.version /\ doc'.content = doc.content
    BY <1>4 DEF FailGeneration, TypeOK, Doc
  <2> QED
    BY <1>0, <1>a, <2>1, <2>2, SameRow
<1> QED
  BY <1>1, <1>2, <1>3, <1>4 DEF Generation

LEMMA HandlerRefines ==
  ASSUME TypeOK, DesksBounded, HistoryInv, NEW e \in Editors,
         BeginEdit(e) \/ BeginRollback(e) \/ Handles(e) \/ HandlerStops(e)
  PROVE  Steps
<1>0. Contiguous /\ (row = "live" => Holds(e))
  BY DEF HistoryInv
<1>n. /\ \A k \in Numbers : k \in Nat /\ k >= 1
      /\ doc.version \in Numbers /\ desk[e].version \in Numbers /\ torn \subseteq Numbers
      /\ desk[e].new \in Contents /\ desk[e].content \in Contents
  BY NumberFacts DEF TypeOK, Desk
<1>1. CASE BeginEdit(e) \/ BeginRollback(e) \/ FindVersion(e) \/ HandlerStops(e)
  <2>1. UNCHANGED <<row, doc, versions, torn>>
    BY <1>1 DEF BeginEdit, BeginRollback, FindVersion, HandlerStops, deskOthers
  <2> QED
    BY <1>0, <2>1, SameRow
<1>2. CASE Snapshot(e)
  <2> DEFINE v == desk[e].version
  <2>1. UNCHANGED <<row, doc>> /\ desk[e].pc = "snapshot" /\ RecordBefore(e, desk[e].content)
    BY <1>2 DEF Snapshot, deskOthers
  <2>2. /\ CreateVersion(v, desk[e].content) /\ torn' \in {torn, torn \cup {v}}
        /\ row # "live" => torn' = torn
    BY <1>n, <2>1, RecordBeforeFacts
  <2>3. \A w \in Numbers : versions'[w] = versions[w] \/ versions[w] = NoContent
    BY <1>n, <2>2, CreateVersionFacts
  <2>4. row = "live" /\ v \notin torn => v \in 1..doc.version
    <3>1. row = "live" /\ v \notin torn => ~(doc.version < v)
      BY <1>0, <1>n, <2>1 DEF Holds
    <3> QED
      BY <1>n, <3>1
  <2>5. torn \subseteq torn' /\ torn' \subseteq torn \cup (1..doc.version)
    BY <2>2, <2>4
  <2> QED
    BY <1>0, <2>1, <2>2, <2>3, <2>5, SameRow
<1>3. CASE Update(e)
  BY <1>3, UpdateRefines
<1>4. CASE RecordRollback(e)
  <2>1. /\ UNCHANGED <<row, doc, torn>> /\ desk[e].pc = "record"
        /\ CreateVersion(desk[e].version + 1, desk[e].new)
    BY <1>4 DEF RecordRollback, deskOthers
  <2>2. desk[e].version + 1 \in Numbers
    BY <1>n, <2>1, DocAssumption DEF DesksBounded, Numbers
  <2>3. \A w \in Numbers : versions'[w] = versions[w] \/ versions[w] = NoContent
    BY <1>n, <2>1, <2>2, CreateVersionFacts
  <2> QED
    BY <1>0, <2>1, <2>3, SameRow
<1> QED
  BY <1>1, <1>2, <1>3, <1>4 DEF Handles

LEMMA NextRefines ==
  ASSUME TypeOK, DesksBounded, Untouched, HistoryInv, [Next]_vars
  PROVE  Steps
<1>0. Contiguous
  BY DEF HistoryInv
<1>1. CASE GenerateDocument
  <2>1. row = "none" /\ row' = "live" /\ doc' = doc /\ torn' = torn
    BY <1>1 DEF GenerateDocument
  <2>2. doc'.version = 1 /\ doc'.content = Blank /\ torn' = {}
    BY <2>1 DEF Untouched
  <2>3. (1..1) \ {} = {1}
    OBVIOUS
  <2>4. /\ History' = [v \in DOMAIN History' |-> History'[v]] /\ DOMAIN History' = {1}
        /\ History'[1] = Blank /\ Lost' = {}
    BY <2>1, <2>2, <2>3, HistoryNext
  <2>5. History' = VH!First(Blank)
    BY <2>4 DEF VH!First
  <2> QED
    BY <2>1, <2>4, <2>5 DEF Steps, VH!Next, VH!Create
<1>2. CASE DeadlinePasses \/ Generation
  BY <1>2, GenerationRefines
<1>3. CASE DeleteDocument
  <2>1. row = "live" /\ row' = "deleted"
    BY <1>3 DEF DeleteDocument
  <2> QED
    BY <2>1, HistoryGone DEF Steps, VH!Next, VH!Delete
<1>4. ASSUME NEW e \in Editors,
             BeginEdit(e) \/ BeginRollback(e) \/ Handles(e) \/ HandlerStops(e)
      PROVE  Steps
  BY <1>4, HandlerRefines
<1>5. ASSUME UNCHANGED <<row, doc, versions, torn>> PROVE Steps
  BY <1>0, <1>5, SameRow
<1>6. ASSUME NEW x \in Exports, CreateExportJob(x) \/ RunExport(x) PROVE Steps
  <2>1. UNCHANGED jobOthers
    BY <1>6, ExportTypes
  <2> QED
    BY <1>5, <2>1 DEF jobOthers
<1>7. CASE ServiceRestarts \/ UNCHANGED vars
  BY <1>5, <1>7 DEF ServiceRestarts, vars
<1> QED
  BY <1>1, <1>2, <1>3, <1>4, <1>6, <1>7 DEF Next

(***************************************************************************)
(* doc-service implements VersionHistory, with any number of handlers,     *)
(* whatever fails, is cancelled, restarted, generated late or deleted      *)
(* (document_logic.go, version_logic.go).                                  *)
(***************************************************************************)
THEOREM RefinesVersionHistory == Spec => ImplementsVersionHistory
<1>1. Init => VH!Init
  BY HistoryGone DEF Init, VH!Init
<1>2. TypeOK /\ DesksBounded /\ HonestInv /\ HistoryInv /\ [Next]_vars => [VH!Next]_(VH!vars)
  BY NextRefines DEF HonestInv, Steps
<1>3. Spec => [](TypeOK /\ DesksBounded /\ HonestInv /\ HistoryInv)
  BY DocumentInvariant
<1> QED
  BY <1>1, <1>2, <1>3, PTL DEF Spec, ImplementsVersionHistory, VH!Spec
=============================================================================
