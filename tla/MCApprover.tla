----------------------------- MODULE MCApprover -----------------------------
(* Model-checking instance of Approver: a request that others decide on    *)
(* too and whose evaluation changes, and a name under which one request    *)
(* comes after another, each with a verdict of its own.                    *)
EXTENDS Approver

CONSTANTS r1, r2

MCVerdicts ==
  [r \in {r1, r2} |-> IF r = r1 THEN {"unstable"} ELSE Decisions \cup {"panic"}]

=============================================================================
