---------------------------- MODULE PairHandover ----------------------------
(***************************************************************************)
(* What the in-place mode promises a consumer in the pod that reloads on   *)
(* every event of the certificate file's inode, without a word about files *)
(* and system calls (internal/csi/driver/storage_inplace.go:36-43): it     *)
(* serves issued pairs, later ones after earlier ones, and catches up with *)
(* what has been stored.  InplaceWriter implements this.                   *)
(***************************************************************************)
EXTENDS Naturals

VARIABLES
  issued,  \* the latest renewal that has started
  stored,  \* the renewal that is stored in the volume, 0 while one is on its
           \* way or has failed
  served   \* the renewal whose pair the consumer serves

pair == <<issued, stored, served>>

Init == issued = 1 /\ stored = 1 /\ served = 1

(* A renewal starts.                                                       *)
Issue == issued' = issued + 1 /\ stored' = 0 /\ UNCHANGED served

(* WriteFiles returns nil.                                                 *)
Store == stored = 0 /\ stored' = issued /\ UNCHANGED <<issued, served>>

(* The consumer loads a pair: one that is being stored included.           *)
Serve(g) ==
  /\ served < g /\ g <= issued
  /\ served' = g
  /\ UNCHANGED <<issued, stored>>

(* It loads what is stored.                                                *)
CatchUp == stored # 0 /\ Serve(stored)

Next == Issue \/ Store \/ \E g \in 1..issued : Serve(g)

(* What never happens, whether or not the consumer reads.                  *)
Safety == Init /\ [][Next]_pair

Spec == Safety /\ WF_pair(CatchUp)

=============================================================================
