---------------------------- MODULE MCCAManager ----------------------------
(* Model-checking instance of CAManager.                                   *)
EXTENDS CAManager

=============================================================================
