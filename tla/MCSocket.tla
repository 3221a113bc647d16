----------------------------- MODULE MCSocket -----------------------------
(***************************************************************************)
(* A small instance of AdminSocket for TLC.                                *)
(***************************************************************************)
EXTENDS AdminSocket

=============================================================================
