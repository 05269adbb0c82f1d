--------------------------- MODULE MCVolumeLayout ---------------------------
(* Model-checking instance of VolumeLayout.                                *)
EXTENDS VolumeLayout, TLC

(* A driver without keystores, one with a keystore, one with another name  *)
(* for the CA file, and one without root CAs.                              *)
MCCAFile ==
     {"cert", "ca"} :> "ca" @@ {"cert", "ca", "extra"} :> "ca"
  @@ {"cert", "extra"} :> "extra" @@ {"cert", "key"} :> Absent

(* The names of timestamped directories are interchangeable.               *)
Symmetry == Permutations(Dirs)

=============================================================================
