---------------------------- MODULE VersionHistory ----------------------------
(***************************************************************************)
(* What doc-service promises of a document's version history: the versions *)
(* are numbered from one, a number once passed keeps its content, and a    *)
(* new version gets a number that was never used, by an edit or by a copy  *)
(* of an earlier version, until the document is deleted.  Numbers may be   *)
(* lost; one that is lost stays so.  DocLifecycle is shown to implement it. *)
(***************************************************************************)
EXTENDS Integers

CONSTANTS Edits, Generated, Blank

VARIABLES
  row,      \* "none", "live" or "deleted"
  history,  \* number -> content of the versions there are
  lost      \* the numbers that were used, and are no longer known

vars == <<row, history, lost>>

Init == row = "none" /\ history = << >> /\ lost = {}

First(c) == [v \in {1} |-> c]

Create == row = "none" /\ row' = "live" /\ history' = First(Blank) /\ lost' = {}

\* Generation fills in the first version, once.
Fill ==
  /\ row = "live" /\ history = First(Blank)
  /\ history' = First(Generated)
  /\ UNCHANGED <<row, lost>>

Used == DOMAIN history \cup lost

\* A new version: its number is the first that was never used.
Add(n, c) ==
  /\ row = "live"
  /\ n \notin Used /\ n - 1 \in Used /\ \A k \in Used : k < n
  /\ history' = [v \in DOMAIN history \cup {n} |-> IF v = n THEN c ELSE history[v]]
  /\ UNCHANGED <<row, lost>>

Edit(n) == \E c \in Edits : Add(n, c)

\* A lost number may still be restored, with some content.
Restore(n) ==
  \/ \E v \in DOMAIN history : Add(n, history[v])
  \/ lost # {} /\ \E c \in Edits \cup {Blank, Generated} : Add(n, c)

Lose(S) ==
  /\ S # {} /\ row = "live" /\ S \subseteq DOMAIN history
  /\ history' = [v \in DOMAIN history \ S |-> history[v]]
  /\ lost' = lost \cup S
  /\ UNCHANGED row

Delete == row = "live" /\ row' = "deleted" /\ history' = << >> /\ lost' = {}

Next ==
  \/ Create \/ Fill \/ Delete
  \/ \E n \in DOMAIN history' \ DOMAIN history : Edit(n) \/ Restore(n)
  \/ Lose(DOMAIN history \ DOMAIN history')

Spec == Init /\ [][Next]_vars
=============================================================================
