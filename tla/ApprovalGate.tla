----------------------------- MODULE ApprovalGate -----------------------------
(***************************************************************************)
(* What the human-in-the-loop gate of an audit promises, without workers,  *)
(* retries, rows or signals: an audit is assessed; it is then clear or     *)
(* held; a held audit moves only on a recorded decision of that kind, and  *)
(* a refused one stays refused.  Decisions are recorded only for an audit  *)
(* that was held.  AuditWorkflow is shown to implement this specification. *)
(***************************************************************************)
CONSTANT Requests

VARIABLES
  stage,   \* how far the audit is with respect to its gate
  decided  \* the decisions recorded so far, <<request, decision>>

vars == <<stage, decided>>

Decisions == {"approved", "rejected"}

Init == stage = "assessing" /\ decided = {}

Clear == stage = "assessing" /\ stage' = "cleared" /\ UNCHANGED decided
Hold  == stage = "assessing" /\ stage' = "held"    /\ UNCHANGED decided

Decide(r, d) ==
  /\ stage \notin {"assessing", "cleared"}
  /\ decided' = decided \cup {<<r, d>>}
  /\ UNCHANGED stage

Moves(d, to) ==
  /\ stage = "held" /\ \E r \in Requests : <<r, d>> \in decided
  /\ stage' = to
  /\ UNCHANGED decided

Grant  == Moves("approved", "granted")
Refuse == Moves("rejected", "refused")

Finish == stage \in {"cleared", "granted"} /\ stage' = "done" /\ UNCHANGED decided

Abort ==
  /\ stage \in {"assessing", "cleared", "granted"}
  /\ stage' = "aborted"
  /\ UNCHANGED decided

Next ==
  \/ Clear \/ Hold \/ Grant \/ Refuse \/ Finish \/ Abort
  \/ \E r \in Requests, d \in Decisions : Decide(r, d)

Spec == Init /\ [][Next]_vars
=============================================================================
