---------------------------- MODULE RagDocuments ----------------------------
(***************************************************************************)
(* One document of rag-service: its row in documents, its rows in          *)
(* embeddings, the goroutines that process it (processDocumentAsync of     *)
(* internal/logic/documents_logic.go) and the handlers that upload,        *)
(* reprocess and delete it.  Every repository call (repo/repository.go) is *)
(* a transaction and an action.  Nothing keeps two goroutines of one       *)
(* document apart, and nothing resumes one that died with its process.     *)
(***************************************************************************)
EXTENDS Chunker, FiniteSets

CONSTANTS
  Texts,     \* texts a file can hold, sequences of words
  Procs,     \* bound: goroutines at the same time (numbers)
  Desks,     \* bound: ReprocessDocument handlers at the same time
  MaxRuns,   \* bound: goroutines started in all
  MaxFaults  \* bound: failed calls and restarts in all

ASSUME DocumentsAssumption ==
  /\ \A t \in Texts : t \in Seq(ToSet(t))
  /\ Procs \subseteq Nat /\ MaxRuns \in Nat /\ MaxFaults \in Nat

NoText == <<>>  \* a file without text, or no file at all

VARIABLES
  row,     \* documents: existence, status, progress_percentage
  emb,     \* embeddings: the chunks, in the order they were inserted
  proc,    \* processDocumentAsync goroutines
  desk,    \* ReprocessDocument handlers: position and file content
  runs,    \* goroutines started so far
  faults,  \* faults so far
  latest,  \* history: the text last handed to a goroutine
  harm     \* history: what happened that the code has no answer to

vars == <<row, emb, proc, desk, runs, faults, latest, harm>>

Resting == [at |-> "idle", text |-> NoText, start |-> 0, pieces |-> <<>>,
            next |-> 1, inserted |-> 0]

Init ==
  /\ row = [state |-> "absent", status |-> "processing", progress |-> 0]
  /\ emb = <<>>
  /\ proc = [p \in Procs |-> Resting]
  /\ desk = [d \in Desks |-> [at |-> "idle", text |-> NoText]]
  /\ runs = 0 /\ faults = 0
  /\ latest = NoText
  /\ harm = {}

Harms == {"raced", "undeleted", "stranded", "skipped", "unconcluded"}
Chunks == Seq(UNION {ToSet(t) : t \in Texts})
Row == [state : {"absent", "live", "deleted"}, status : {"processing", "completed", "failed"},
        progress : 0..100]
Goroutine == [at : {"idle", "begin", "splitting", "fail", "extracted", "report", "embed",
                    "finish", "conclude"},
              text : Texts \cup {NoText}, start : Nat, pieces : Seq(Chunks),
              next : Nat \ {0}, inserted : Nat]
Handler == [at : {"idle", "delete", "mark"}, text : Texts \cup {NoText}]

\* One type invariant for the row, the embeddings and the goroutines.
TypeOK ==
  /\ row \in Row /\ emb \in Seq(Chunks)
  /\ proc \in [Procs -> Goroutine] /\ desk \in [Desks -> Handler]
  /\ runs \in 0..MaxRuns /\ faults \in 0..MaxFaults
  /\ latest \in Texts \cup {NoText} /\ harm \subseteq Harms

Live == row.state = "live"
Busy == {p \in Procs : proc[p].at # "idle"}
Free == Procs \ Busy
Fault == faults < MaxFaults /\ faults' = faults + 1

\* A deleted document has no row to write to.
UpdateDocumentStatus(status) ==
  row' = IF Live THEN [row EXCEPT !.status = status] ELSE row

\* go l.processDocumentAsync(...)
Spawn(text) ==
  /\ runs < MaxRuns /\ Free # {}
  /\ LET p == CHOOSE q \in Free : \A o \in Free : q <= o
     IN  proc' = [proc EXCEPT ![p] = [Resting EXCEPT !.at = "begin", !.text = text]]
  /\ runs' = runs + 1
  /\ latest' = text

(***************************************************************************)
(* Handlers.                                                               *)
(***************************************************************************)
UploadDocument(text) ==
  /\ row.state = "absent"
  /\ row' = [row EXCEPT !.state = "live"]
  /\ Spawn(text)
  /\ UNCHANGED <<emb, desk, faults, harm>>

DeleteDocument ==
  /\ Live
  /\ row' = [row EXCEPT !.state = "deleted"]
  /\ emb' = <<>>
  /\ UNCHANGED <<proc, desk, runs, faults, latest, harm>>

Others(d) == {e \in Desks \ {d} : desk[e].at # "idle"}

BeginReprocess(d, text) ==
  /\ Live /\ desk[d].at = "idle"
  /\ runs + Cardinality(Others(d)) < MaxRuns
  /\ desk' = [desk EXCEPT ![d] = [at |-> "delete", text |-> text]]
  /\ UNCHANGED <<row, emb, proc, runs, faults, latest, harm>>

\* Mutant: keeps the old embeddings.
KeepEmbeddings(d) ==
  /\ desk[d].at = "delete"
  /\ desk' = [desk EXCEPT ![d].at = "mark"]
  /\ UNCHANGED <<row, emb, proc, runs, faults, latest, harm>>

\* An error is logged only.
DeleteEmbeddingsByDocument(d) ==
  /\ desk[d].at = "delete"
  /\ desk' = [desk EXCEPT ![d].at = "mark"]
  /\ \/ emb' = <<>> /\ faults' = faults
        /\ harm' = IF Busy # {} \/ Others(d) # {} THEN harm \cup {"raced"} ELSE harm
     \/ Fault /\ emb' = emb /\ harm' = harm \cup {"undeleted"}
  /\ UNCHANGED <<row, proc, runs, latest>>

\* Mutant: starts the goroutine without marking the document.
SpawnUnmarked(d) ==
  /\ desk[d].at = "mark"
  /\ Spawn(desk[d].text)
  /\ harm' = IF Busy # {} THEN harm \cup {"raced"} ELSE harm
  /\ desk' = [desk EXCEPT ![d] = [at |-> "idle", text |-> NoText]]
  /\ UNCHANGED <<row, emb, faults>>

\* The status is written and the goroutine started, or the handler returns.
MarkProcessing(d) ==
  /\ desk[d].at = "mark"
  /\ \/ /\ UpdateDocumentStatus("processing")
        /\ Spawn(desk[d].text)
        /\ harm' = IF Busy # {} THEN harm \cup {"raced"} ELSE harm
        /\ faults' = faults
     \/ Fault /\ harm' = harm \cup {"stranded"} /\ UNCHANGED <<row, proc, runs, latest>>
  /\ desk' = [desk EXCEPT ![d] = [at |-> "idle", text |-> NoText]]
  /\ UNCHANGED emb

(***************************************************************************)
(* processDocumentAsync.                                                   *)
(***************************************************************************)
Goes(p, new) ==
  /\ proc' = [proc EXCEPT ![p] = new]
  /\ UNCHANGED <<desk, runs, latest>>

\* GetDocumentByID: a deleted document, or an error, ends the goroutine.
GetDocumentByID(p) ==
  /\ proc[p].at = "begin"
  /\ \/ /\ Goes(p, IF Live THEN [proc[p] EXCEPT !.at = IF proc[p].text = NoText
                                                         THEN "fail" ELSE "splitting"]
                   ELSE Resting)
        /\ UNCHANGED <<faults, harm>>
     \/ Fault /\ harm' = harm \cup {"unconcluded"} /\ Goes(p, Resting)
  /\ UNCHANGED <<row, emb>>

\* Everything that is in memory is lost.
ProcessDies ==
  /\ proc' = [p \in Procs |-> Resting]
  /\ desk' = [d \in Desks |-> [at |-> "idle", text |-> NoText]]
  /\ harm' = harm \cup (IF Busy # {} THEN {"unconcluded"} ELSE {})
                  \cup (IF \E d \in Desks : desk[d].at = "mark"
                          THEN {"stranded"} ELSE {})
  /\ UNCHANGED <<runs, latest>>

\* One iteration of SplitIntoChunks, and the deduplication after the last.
\* A loop that does not advance only grows its list: the state stays.  A window
\* that starts before the text is a slice at a negative index, and nothing
\* recovers the panic of the goroutine.
SplitIntoChunks(p) ==
  /\ proc[p].at = "splitting"
  /\ LET words  == proc[p].text
         pieces == Append(proc[p].pieces, Window(words, proc[p].start))
         next   == NextStart(proc[p].start, Len(words))
         kept   == Deduplicate(pieces)
     IN  IF next < 0 THEN ProcessDies
         ELSE /\ Goes(p, IF next < Len(words)
                           THEN [proc[p] EXCEPT !.start = next, !.pieces =
                                   IF next = proc[p].start THEN proc[p].pieces ELSE pieces]
                         ELSE [proc[p] EXCEPT !.start = next, !.pieces = kept,
                                 !.at = IF kept = <<>> THEN "fail" ELSE "extracted"])
              /\ UNCHANGED harm
  /\ UNCHANGED <<row, emb, faults>>

ProcessingFails(p) ==
  /\ proc[p].at = "fail"
  /\ \/ UpdateDocumentStatus("failed") /\ UNCHANGED <<faults, harm>>
     \/ Fault /\ harm' = harm \cup {"unconcluded"} /\ UNCHANGED row
  /\ Goes(p, Resting)
  /\ UNCHANGED emb

\* A failed report is logged and passed over.
UpdateDocumentProgress(p, percentage, then) ==
  /\ \/ /\ row' = IF Live THEN [row EXCEPT !.progress = percentage] ELSE row
        /\ faults' = faults
     \/ Fault /\ UNCHANGED row
  /\ Goes(p, [proc[p] EXCEPT !.at = then])
  /\ UNCHANGED <<emb, harm>>

ReportExtraction(p) ==
  /\ proc[p].at = "extracted"
  /\ UpdateDocumentProgress(p, 10, "report")

\* Mutant: the share of the chunk after this one.
ShareAhead(n, total) == 10 + ((n + 1) * 90) \div total

\* Mutant: the embedding counts from zero again.
ShareFromZero(n, total) == ((n - 1) * 90) \div total

\* The extraction is the first tenth; the conversion to int rounds down.  The
\* code divides floats, which can be one percent less where the division is
\* exact (7 of 10 chunks); that changes no order of the reports.
Share(n, total) == 10 + (n * 90) \div total

ReportChunk(p) ==
  /\ proc[p].at = "report"
  /\ UpdateDocumentProgress(p, Share(proc[p].next, Len(proc[p].pieces)), "embed")

AfterChunk(p) ==
  [proc[p] EXCEPT !.next = @ + 1,
                  !.at = IF proc[p].next = Len(proc[p].pieces)
                           THEN "finish" ELSE "report"]

\* Mutant: nothing refuses a chunk of a deleted document.
InsertOrphan(p) ==
  /\ proc[p].at = "embed"
  /\ emb' = Append(emb, proc[p].pieces[proc[p].next])
  /\ Goes(p, [AfterChunk(p) EXCEPT !.inserted = @ + 1])
  /\ UNCHANGED <<row, faults, harm>>

\* Embed and InsertEmbedding; the foreign key refuses a deleted document.
InsertEmbedding(p) ==
  /\ proc[p].at = "embed" /\ Live
  /\ emb' = Append(emb, proc[p].pieces[proc[p].next])
  /\ Goes(p, [AfterChunk(p) EXCEPT !.inserted = @ + 1])
  /\ UNCHANGED <<row, faults, harm>>

\* Either call fails: the chunk is passed over.
SkipChunk(p) ==
  /\ proc[p].at = "embed"
  /\ IF Live THEN Fault /\ harm' = harm \cup {"skipped"}
             ELSE UNCHANGED <<faults, harm>>
  /\ Goes(p, AfterChunk(p))
  /\ UNCHANGED <<row, emb>>

FinishProgress(p) ==
  /\ proc[p].at = "finish"
  /\ UpdateDocumentProgress(p, 100, "conclude")

\* Mutant: completed only if no chunk was passed over.
ConcludeIfWhole(p) ==
  /\ proc[p].at = "conclude"
  /\ IF proc[p].inserted = Len(proc[p].pieces)
       THEN UpdateDocumentStatus("completed") ELSE UNCHANGED row
  /\ Goes(p, Resting)
  /\ UNCHANGED <<emb, faults, harm>>

\* The last write of the status; its error is ignored.
Conclude(p) ==
  /\ proc[p].at = "conclude"
  /\ \/ /\ UpdateDocumentStatus(IF proc[p].inserted = 0 THEN "failed" ELSE "completed")
        /\ UNCHANGED <<faults, harm>>
     \/ Fault /\ harm' = harm \cup {"unconcluded"} /\ UNCHANGED row
  /\ Goes(p, Resting)
  /\ UNCHANGED emb

ServiceRestarts ==
  /\ Fault
  /\ Busy # {} \/ \E d \in Desks : desk[d].at # "idle"
  /\ ProcessDies
  /\ UNCHANGED <<row, emb>>

Process(p) ==
  \/ GetDocumentByID(p) \/ SplitIntoChunks(p) \/ ProcessingFails(p)
  \/ ReportExtraction(p) \/ ReportChunk(p)
  \/ InsertEmbedding(p) \/ SkipChunk(p)
  \/ FinishProgress(p) \/ Conclude(p)

Next ==
  \/ \E t \in Texts \cup {NoText} : UploadDocument(t)
  \/ DeleteDocument
  \/ \E d \in Desks :
       \/ \E t \in Texts \cup {NoText} : BeginReprocess(d, t)
       \/ DeleteEmbeddingsByDocument(d) \/ MarkProcessing(d)
  \/ \E p \in Procs : Process(p)
  \/ ServiceRestarts

Spec == Init /\ [][Next]_vars

\* A goroutine runs until it returns; nobody has to upload or reprocess.
FairSpec == Spec /\ \A p \in Procs : WF_vars(Process(p))

(***************************************************************************)
(* What must hold.                                                         *)
(***************************************************************************)
Quiet     == Busy = {} /\ \A d \in Desks : desk[d].at = "idle"
Completed == Live /\ row.status = "completed"

\* Without races and faults a document that has come to rest as completed is
\* indexed with the chunks of the text it was last given, each once, in order.
\* (If the loop does not advance no document is completed.)
ExactIndex ==
  Quiet /\ Completed /\ harm = {} => AreChunksOf(emb, latest)

\* And no word of that text is missing from the index, as long as a chunk that
\* brings a new word is not short enough to be dropped.
IndexCoversText ==
  Quiet /\ Completed /\ harm = {} /\ ChunkOverlap + 1 >= MinWords
    => Covers(emb, latest)

\* The index of a document at rest is its text, cut into chunks: every one of
\* them, once, in order, and no word is missing.
IndexIsTheText == ExactIndex /\ IndexCoversText

\* Whatever fails, a chunk is indexed once and old and new text do not mix,
\* unless two runs overlapped or the old embeddings could not be deleted.
IndexedOnce ==
  harm \cap {"raced", "undeleted"} = {} =>
    /\ IsInjective(emb)
    /\ \A i \in DOMAIN emb : \E k \in Kept(latest) : emb[i] = WindowsOf(latest)[k]

\* SearchSimilar reads the documents that are completed: those have chunks,
\* except in a reprocess between its delete and its status write, if that
\* write never came, or if two runs overlapped.
CompletedIsSearchable ==
  Completed /\ harm \cap {"raced", "stranded"} = {}
    /\ (\A d \in Desks : desk[d].at # "mark")
    => emb # <<>>

\* Deletion wins over the goroutines that are still inserting.
DeletedLeavesNothing == row.state = "deleted" => emb = <<>>

\* A search finds what it should: chunks of the documents that are completed,
\* none of one that was deleted.
SearchFindsTheLiving == CompletedIsSearchable /\ DeletedLeavesNothing

\* Progress only falls for a reprocess.
ProgressRises == [][row'.progress < row.progress => runs > 1]_vars

\* Processing ends in completed or failed, also when calls fail on the way;
\* only a lost final write or the end of the process leaves the document
\* processing (and an overlap of the chunk size, which the run does not have:
\* the loop then never ends).
ProcessingEnds ==
  (Live /\ row.status = "processing")
    ~> (~Live \/ row.status # "processing" \/ "unconcluded" \in harm)

\* Processing goes forward and comes to an end that its progress and status
\* tell.
ProcessingProceeds == ProgressRises /\ ProcessingEnds
=============================================================================
