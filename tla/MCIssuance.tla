----------------------------- MODULE MCIssuance -----------------------------
(* Model-checking instance of Issuance.                                    *)
EXTENDS Issuance

=============================================================================
