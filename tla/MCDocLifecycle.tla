--------------------------- MODULE MCDocLifecycle ---------------------------
(***************************************************************************)
(* Small instances of DocLifecycle.  Editors, and the contents they        *)
(* submit, are interchangeable.                                            *)
(***************************************************************************)
EXTENDS DocLifecycle, TLC

Alike == Permutations(Editors) \cup Permutations(Edits)
=============================================================================
