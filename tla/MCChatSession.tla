--------------------------- MODULE MCChatSession ---------------------------
(***************************************************************************)
(* A small instance of ChatSession: a cap of two turns of which up to      *)
(* three rows may be taken, prompts that quote two rows, a limiter that    *)
(* lets one request pass and regains one token, and requests of the owner  *)
(* or of another user.                                                     *)
(***************************************************************************)
EXTENDS ChatSession

CONSTANTS c1, c2, owner, stranger
=============================================================================
