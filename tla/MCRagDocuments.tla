--------------------------- MODULE MCRagDocuments ---------------------------
(***************************************************************************)
(* A small instance of RagDocuments.  Words are numbers.  The first text   *)
(* has three windows, two of them equal; the second has a short last one.  *)
(***************************************************************************)
EXTENDS RagDocuments

SomeTexts == { <<1, 1, 1, 1, 1, 2>>, <<3, 4, 5>> }
=============================================================================
