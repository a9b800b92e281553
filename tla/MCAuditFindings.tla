--------------------------- MODULE MCAuditFindings ---------------------------
(***************************************************************************)
(* A small instance of AuditFindings: two places, two severities, an       *)
(* unknown issue type that becomes the default one, and a place that is    *)
(* reported with a severity that changes from one analysis to the next.    *)
(***************************************************************************)
EXTENDS AuditFindings, TLC

Issue(l, t, v) == [loc |-> l, type |-> t, sev |-> v]

SomeAnalyses ==
  { {Issue("l1", "security", "low")},
    {Issue("l1", "other", "critical"), Issue("l2", "security", "unknown")} }

SomeWeights == [s \in {"low", "critical"} |-> IF s = "low" THEN 1 ELSE 50]

Interchangeable == Permutations(Audits) \cup Permutations(Slots)
=============================================================================
