----------------------------- MODULE MCAccounts -----------------------------
(***************************************************************************)
(* A small instance of Accounts: two handlers at a time, three refresh     *)
(* tokens, one reset token.                                                *)
(***************************************************************************)
EXTENDS Accounts
=============================================================================
