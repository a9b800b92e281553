------------------------------- MODULE Chunker -------------------------------
(***************************************************************************)
(* Chunker.SplitIntoChunks and deduplicateChunks of                        *)
(* rag-service/processing/chunker.go, over a text that is a sequence of    *)
(* words.  The loop is given as its step, NextStart; RagDocuments runs it. *)
(* Positions count from 0, as in the code; the window [start, end) of a    *)
(* sequence is SubSeq(words, start + 1, end).                              *)
(***************************************************************************)
EXTENDS Integers, SequencesExt

CONSTANTS
  ChunkSize,     \* words in a chunk
  ChunkOverlap,  \* words two neighbouring chunks share
  MinWords       \* a chunk of fewer words is shorter than ten characters: a
                 \* number of words stands for the test of the length

\* Nothing checks the configured numbers; negative ones are left out here.
ASSUME ChunkerAssumption ==
  ChunkSize \in Nat /\ ChunkOverlap \in Nat /\ MinWords \in Nat

\* What the loop needs to get anywhere.  With an overlap of the size it stands
\* still, with a larger one the next start is before the text.
Advances == ChunkOverlap < ChunkSize

WindowEnd(start, n) == IF start + ChunkSize < n THEN start + ChunkSize ELSE n
Window(words, start) == SubSeq(words, start + 1, WindowEnd(start, Len(words)))

\* Mutant: neighbouring chunks do not overlap.
NextStartApart(start, n) == start + ChunkSize

\* start += size - overlap, and the guard behind it.
NextStart(start, n) ==
  LET next == start + ChunkSize - ChunkOverlap
      end  == WindowEnd(start, n)
  IN  IF next >= end /\ end < n THEN end ELSE next

\* Mutant: keeps only the chunks that occur once.
DeduplicateAll(chunks) ==
  SelectSeq(chunks, LAMBDA c : /\ Len(c) >= MinWords
                               /\ Len(SelectSeq(chunks, LAMBDA d : d = c)) = 1)

\* The first of equal chunks is kept; short ones are dropped.
Deduplicate(chunks) ==
  LET kept[k \in 0..Len(chunks)] ==
        IF k = 0 THEN <<>>
        ELSE IF Len(chunks[k]) < MinWords \/ Contains(kept[k - 1], chunks[k])
               THEN kept[k - 1] ELSE Append(kept[k - 1], chunks[k])
  IN  kept[Len(chunks)]

(***************************************************************************)
(* The windows in closed form, to compare the loop with: one starts at     *)
(* every multiple of the stride, if the loop advances.                     *)
(***************************************************************************)
Stride == ChunkSize - ChunkOverlap
WindowsOf(words) ==
  [k \in 1..((Len(words) + Stride - 1) \div Stride)
     |-> Window(words, (k - 1) * Stride)]

\* The windows that are long enough and no repetition of an earlier one.
Kept(words) ==
  {k \in DOMAIN WindowsOf(words) :
     /\ Len(WindowsOf(words)[k]) >= MinWords
     /\ \A j \in 1..(k - 1) : WindowsOf(words)[j] # WindowsOf(words)[k]}

\* The chunks are those windows, every one of them once, in their order.
AreChunksOf(chunks, words) ==
  \E order \in [DOMAIN chunks -> Kept(words)] :
    /\ \A i, j \in DOMAIN chunks : i < j => order[i] < order[j]
    /\ \A k \in Kept(words) : \E i \in DOMAIN chunks : order[i] = k
    /\ \A i \in DOMAIN chunks : chunks[i] = WindowsOf(words)[order[i]]

\* Word i (from 1) is in a window whose text is among the chunks.
Covers(chunks, words) ==
  \A i \in 1..Len(words) :
    \E k \in DOMAIN WindowsOf(words) :
      /\ i \in ((k - 1) * Stride + 1)..WindowEnd((k - 1) * Stride, Len(words))
      /\ Contains(chunks, WindowsOf(words)[k])
=============================================================================
