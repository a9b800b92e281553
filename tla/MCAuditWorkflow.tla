--------------------------- MODULE MCAuditWorkflow ---------------------------
(***************************************************************************)
(* Small instances of AuditWorkflow.  Scores are counted in units of the   *)
(* high threshold: one finding reaches it, and at MaxScore = 1 the clamp.  *)
(***************************************************************************)
EXTENDS AuditWorkflow, TLC

Interchangeable ==
  Permutations(Requests) \cup Permutations(Approvers) \cup Permutations(Slots)
=============================================================================
