-------------------------- MODULE MCInplaceWriter --------------------------
(* Model-checking instance of InplaceWriter.                               *)
EXTENDS InplaceWriter

CONSTANT Long   \* the tags whose contents take two blocks, the others take one

MCSize == [t \in Tags |-> IF t \in Long THEN 2 ELSE 1]

=============================================================================
