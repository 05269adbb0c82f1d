---------------------------- MODULE MCRootCAFile ----------------------------
(* Model-checking instance of RootCAFile.                                  *)
EXTENDS RootCAFile

=============================================================================
