------------------------- MODULE VolumeLayout_proofs -------------------------
(***************************************************************************)
(* Proofs about VolumeLayout, for any names of files, configurations,      *)
(* directories, payloads, crashes, errors and torn layouts:                *)
(*                                                                         *)
(*   TypeCorrect       the variables keep their types                      *)
(*   WritesDeliver     a write that reports success has delivered          *)
(*   LayoutsNeverFail  no layout makes a write fail                        *)
(*   InodesKept        a write in place keeps the inodes                   *)
(*   CAWriteIsLocal    the CA write changes the CA file alone              *)
(*                                                                         *)
(* They follow from one inductive invariant, Inv, with a part for each     *)
(* phase of the two stores.                                                *)
(***************************************************************************)
EXTENDS VolumeLayout, TLAPS

(* A file in the current directory is always behind a link: neither store  *)
(* leaves a regular file, or nothing, in front of one.                     *)
CurrentIsLinked ==
  Resolves => \A n \in Names : dirs[data][n] # Absent => root[n] = Link

(* What is being written: a full payload, or the CA file, in place and     *)
(* nothing but it.                                                         *)
Underway ==
  pc # "idle" =>
    /\ gen \in Gens /\ result = "none"
    /\ payload \in Payloads \/ (payload = {CAFile[listed]} /\ pc = "write")

(* A write in place cannot fail because of its links.                      *)
LinksLead == Resolves \/ \A n \in payload : root[n] # Link

(* What has been visited is pruned, and no name of the payload is visited. *)
Pruning ==
  pc = "prune" =>
    /\ LinksLead /\ todo \subseteq Names \ payload
    /\ \A n \in Names \ payload : n \notin todo => root[n] = Absent

(* What has been visited is written.                                       *)
Writing ==
  pc = "write" =>
    /\ LinksLead /\ todo \subseteq payload
    /\ payload \in Payloads => \A n \in Names \ payload : root[n] = Absent
    /\ \A n \in payload \ todo : Read(n) = gen

(* The atomic writer finds no regular file.                                *)
Clearing ==
  /\ pc = "clear" => todo = inplaceArtifacts
  /\ pc \in {"atomic", "links", "remove"} => \A n \in Names : root[n] \notin Gens

(* The new directory has the payload, and what it replaces is not it.      *)
Filled ==
  pc \in {"links", "remove"} =>
    /\ new \in Dirs
    /\ dirs[new] = [n \in Names |-> IF n \in payload THEN gen ELSE Absent]
    /\ old # new
    /\ stale \subseteq Names \ payload

(* What has been visited is a link, and so is what will be removed.        *)
Linking ==
  pc = "links" =>
    /\ todo \subseteq payload
    /\ old = data
    /\ \A n \in (payload \ todo) \cup stale : root[n] = Link

(* `..data` is switched; what is still to be removed is there.             *)
Removing ==
  pc = "remove" =>
    /\ data = new /\ todo \subseteq stale
    /\ \A n \in payload \cup todo : root[n] = Link

(* In the in-place mode only a broken layout is rebuilt, so that there is  *)
(* no inode to lose.                                                       *)
Rebuilding ==
  mode = "in-place" =>
    /\ pc \in {"clear", "atomic", "links"} =>
         /\ ~Resolves
         /\ data = Absent => \E n \in payload : root[n] = Link
    /\ pc \in {"links", "remove"} => stale = {}

(* The inductive invariant.                                                *)
Inv ==
  /\ TypeOK /\ CurrentIsLinked /\ Underway /\ Pruning /\ Writing
  /\ Clearing /\ Filled /\ Linking /\ Removing /\ Rebuilding
  /\ Delivered /\ NoLayoutFails

(* The two action properties, as relations between states.                 *)
KeepsInodes ==
  mode = "in-place" /\ pc # "idle"
    /\ (Resolves \/ (data = Absent /\ \A n \in payload : root[n] # Link))
  => \A n \in payload : Read(n) # Absent => Read(n)' # Absent /\ Where(n)' = Where(n)

KeepsOthers ==
  payload = {CAFile[listed]} /\ pc # "idle" => \A n \in Names \ payload : Read(n)' = Read(n)

(* At the start there is no volume.                                        *)
LEMMA InitInv == Init => Inv
  BY VolumeLayoutAssumption
  DEF Init, Inv, TypeOK, Files, Gens, Modes, Payloads, CurrentIsLinked, Resolves,
      Underway, Pruning, Writing, Clearing, Filled, Linking, Removing, Rebuilding,
      Delivered, NoLayoutFails

(* No step disturbs the invariant, and every step keeps what the two       *)
(* action properties speak of.                                             *)
LEMMA StepInv == Inv /\ [Next]_vars => Inv' /\ KeepsInodes /\ KeepsOthers
<1> SUFFICES ASSUME Inv, [Next]_vars
             PROVE  Inv' /\ KeepsInodes /\ KeepsOthers
  OBVIOUS
<1> USE VolumeLayoutAssumption
    DEF Inv, volume, atomic, config, Gens, Payloads, Modes, Done, Goto, Begin
<1>1. ASSUME WriteFiles
      PROVE  Inv' /\ KeepsInodes /\ KeepsOthers
  <2> USE <1>1 DEF WriteFiles, brokenAtomicLayout, inplaceArtifacts
  <2>1. TypeOK'
    <3>1. /\ gen' \in Gens /\ payload' \subseteq Names /\ todo' \subseteq Names
          /\ pc' \in {"clear", "prune"} /\ result' = "none"
          /\ UNCHANGED <<root, dirs, data, mode, listed, new, stale, old, stops>>
      BY DEF TypeOK
    <3>2. QED
      BY <3>1 DEF TypeOK
  <2>2. Underway'
    BY DEF TypeOK, Files, Underway
  <2>3. Pruning'
    BY DEF TypeOK, Files, Pruning, LinksLead, Resolves, Underway
  <2>4. Clearing'
    BY DEF TypeOK, Files, Clearing, inplaceArtifacts, Underway
  <2>5. Rebuilding'
    BY DEF TypeOK, Files, Rebuilding, Resolves, Clearing, inplaceArtifacts
  <2>6. QED
    BY <2>1, <2>2, <2>3, <2>4, <2>5
    DEF TypeOK, CurrentIsLinked, Resolves, Writing, Read, LinksLead, Filled,
        Linking, Removing, Delivered, NoLayoutFails, KeepsInodes, Where,
        KeepsOthers, Underway
<1>2. ASSUME WriteFile
      PROVE  Inv' /\ KeepsInodes /\ KeepsOthers
  <2> USE <1>2 DEF WriteFile, brokenAtomicLayout
  <2>1. TypeOK'
    BY DEF TypeOK, Files
  <2>2. Underway'
    BY DEF TypeOK, Files, Underway
  <2>3. Writing'
    BY DEF TypeOK, Files, Writing, Pruning, LinksLead, Resolves, Read, Underway
  <2>4. QED
    BY <2>1, <2>2, <2>3
    DEF TypeOK, CurrentIsLinked, Resolves, Pruning, LinksLead, Clearing,
        inplaceArtifacts, Filled, Linking, Removing, Rebuilding, Delivered, Read,
        NoLayoutFails, KeepsInodes, Where, KeepsOthers, Underway
<1>3. ASSUME RefuseFile
      PROVE  Inv' /\ KeepsInodes /\ KeepsOthers
  <2> USE <1>3 DEF RefuseFile
  <2>1. TypeOK'
    BY DEF TypeOK, Files
  <2>2. QED
    BY <2>1
    DEF TypeOK, CurrentIsLinked, Resolves, Underway, Pruning, LinksLead, Writing,
        Read, Clearing, inplaceArtifacts, Filled, Linking, Removing, Rebuilding,
        Delivered, NoLayoutFails, KeepsInodes, Where, KeepsOthers
<1>4. ASSUME NEW n \in Names, PruneBehind(n)
      PROVE  Inv' /\ KeepsInodes /\ KeepsOthers
  <2> USE <1>4 DEF PruneBehind, behindLink
  <2>1. TypeOK'
    <3>1. data \in Dirs /\ dirs[data] \in Files
      BY DEF TypeOK, Resolves
    <3>2. dirs' = [dirs EXCEPT ![data] = [dirs[data] EXCEPT ![n] = Absent]]
      BY <3>1 DEF TypeOK
    <3>3. [dirs[data] EXCEPT ![n] = Absent] \in Files
      BY <3>1 DEF Files
    <3>4. dirs' \in [Dirs -> Files \cup {Absent}]
      BY <3>1, <3>2, <3>3 DEF TypeOK
    <3>5. QED
      BY <3>4 DEF TypeOK
  <2>2. CurrentIsLinked'
    BY DEF TypeOK, Files, CurrentIsLinked, Resolves, Clearing, inplaceArtifacts,
        Filled, Removing, Linking
  <2>3. Pruning'
    BY DEF TypeOK, Files, Pruning, LinksLead, Resolves, Underway
  <2>4. KeepsInodes
    BY DEF TypeOK, Files, KeepsInodes, Read, Where, Resolves, Underway, Pruning,
        Writing, Rebuilding, Filled, Clearing, inplaceArtifacts, Linking,
        Removing, CurrentIsLinked
  <2>5. KeepsOthers
    BY DEF TypeOK, Files, KeepsOthers, Underway, Writing, Read, Resolves
  <2>6. QED
    BY <2>1, <2>2, <2>3, <2>4, <2>5
    DEF TypeOK, Underway, Writing, Read, LinksLead, Clearing, inplaceArtifacts,
        Filled, Linking, Removing, Rebuilding, Delivered, NoLayoutFails, Resolves
<1>5. ASSUME NEW n \in Names, PruneEntry(n)
      PROVE  Inv' /\ KeepsInodes /\ KeepsOthers
  <2> USE <1>5 DEF PruneEntry, behindLink
  <2>1. TypeOK'
    BY DEF TypeOK, Files
  <2>2. CurrentIsLinked'
    BY DEF TypeOK, Files, CurrentIsLinked, Resolves, Clearing, inplaceArtifacts,
        Filled, Removing, Linking
  <2>3. Pruning'
    BY DEF TypeOK, Files, Pruning, LinksLead, Resolves, Underway
  <2>4. KeepsInodes
    BY DEF TypeOK, Files, KeepsInodes, Read, Where, Resolves, Underway, Pruning,
        Writing, Rebuilding, Filled, Clearing, inplaceArtifacts, Linking,
        Removing, CurrentIsLinked
  <2>5. KeepsOthers
    BY DEF TypeOK, Files, KeepsOthers, Underway, Writing, Read, Resolves
  <2>6. QED
    BY <2>1, <2>2, <2>3, <2>4, <2>5
    DEF TypeOK, Underway, Writing, Read, LinksLead, Clearing, inplaceArtifacts,
        Filled, Linking, Removing, Rebuilding, Delivered, NoLayoutFails, Resolves
<1>6. ASSUME NEW n \in Names, WriteInPlace(n)
      PROVE  Inv' /\ KeepsInodes /\ KeepsOthers
  <2> USE <1>6 DEF WriteInPlace
  <2>1. TypeOK'
    <3>1. CASE root[n] = Link /\ Resolves
      <4>1. data \in Dirs /\ dirs[data] \in Files
        BY <3>1 DEF TypeOK, Resolves
      <4>2. dirs' = [dirs EXCEPT ![data] = [dirs[data] EXCEPT ![n] = gen]]
        BY <3>1, <4>1 DEF TypeOK
      <4>3. [dirs[data] EXCEPT ![n] = gen] \in Files
        BY <4>1 DEF Files, Underway
      <4>4. dirs' \in [Dirs -> Files \cup {Absent}]
        BY <4>1, <4>2, <4>3 DEF TypeOK
      <4>5. QED
        BY <3>1, <4>4 DEF TypeOK
    <3>2. CASE root[n] # Link
      <4>1. root' \in [Names -> Gens \cup {Absent, Link}]
        BY <3>2 DEF TypeOK, Underway
      <4>2. QED
        BY <3>2, <4>1 DEF TypeOK
    <3>3. CASE root[n] = Link /\ ~Resolves
      BY <3>3 DEF TypeOK
    <3>4. QED
      BY <3>1, <3>2, <3>3
  <2>2. CurrentIsLinked'
    BY DEF TypeOK, Files, CurrentIsLinked, Resolves, Clearing, inplaceArtifacts,
        Filled, Removing, Linking
  <2>3. Underway'
    BY DEF TypeOK, Files, Underway
  <2>4. Writing'
    BY DEF TypeOK, Files, Writing, Pruning, LinksLead, Resolves, Read, Underway
  <2>5. Delivered'
    BY DEF TypeOK, Files, Delivered, Read, Resolves, Writing, Clearing,
        CurrentIsLinked, Filled, Removing, Underway
  <2>6. NoLayoutFails'
    BY DEF TypeOK, Files, NoLayoutFails, Writing, LinksLead, Resolves, Removing
  <2>7. KeepsInodes
    BY DEF TypeOK, Files, KeepsInodes, Read, Where, Resolves, Underway, Pruning,
        Writing, Rebuilding, Filled, Clearing, inplaceArtifacts, Linking,
        Removing, CurrentIsLinked
  <2>8. KeepsOthers
    BY DEF TypeOK, Files, KeepsOthers, Underway, Writing, Read, Resolves
  <2>9. QED
    BY <2>1, <2>2, <2>3, <2>4, <2>5, <2>6, <2>7, <2>8
    DEF TypeOK, Pruning, LinksLead, Clearing, inplaceArtifacts, Filled, Linking,
        Removing, Rebuilding, Resolves, Underway
<1>7. ASSUME EndPrune
      PROVE  Inv' /\ KeepsInodes /\ KeepsOthers
  <2> USE <1>7 DEF EndPrune
  <2>1. TypeOK'
    BY DEF TypeOK, Files
  <2>2. Writing'
    BY DEF TypeOK, Files, Writing, Pruning, LinksLead, Resolves, Read, Underway
  <2>3. QED
    BY <2>1, <2>2
    DEF TypeOK, CurrentIsLinked, Resolves, Underway, Pruning, LinksLead, Clearing,
        inplaceArtifacts, Filled, Linking, Removing, Rebuilding, Delivered, Read,
        NoLayoutFails, KeepsInodes, Where, KeepsOthers
<1>8. ASSUME EndInPlace
      PROVE  Inv' /\ KeepsInodes /\ KeepsOthers
  <2> USE <1>8 DEF EndInPlace
  <2>1. TypeOK'
    BY DEF TypeOK, Files
  <2>2. Delivered'
    BY DEF TypeOK, Files, Delivered, Read, Resolves, Writing, Clearing,
        CurrentIsLinked, Filled, Removing, Underway
  <2>3. NoLayoutFails'
    BY DEF TypeOK, Files, NoLayoutFails, Writing, LinksLead, Resolves, Removing
  <2>4. QED
    BY <2>1, <2>2, <2>3
    DEF TypeOK, CurrentIsLinked, Resolves, Underway, Pruning, LinksLead, Writing,
        Read, Clearing, inplaceArtifacts, Filled, Linking, Removing, Rebuilding,
        KeepsInodes, Where, KeepsOthers
<1>9. ASSUME WriteFilesAtomic
      PROVE  Inv' /\ KeepsInodes /\ KeepsOthers
  <2> USE <1>9 DEF WriteFilesAtomic, inplaceArtifacts
  <2>1. TypeOK'
    BY DEF TypeOK, Files
  <2>2. Underway'
    BY DEF TypeOK, Files, Underway
  <2>3. Clearing'
    BY DEF TypeOK, Files, Clearing, inplaceArtifacts, Underway
  <2>4. QED
    BY <2>1, <2>2, <2>3
    DEF TypeOK, CurrentIsLinked, Resolves, Pruning, LinksLead, Writing, Read,
        Filled, Linking, Removing, Rebuilding, Delivered, NoLayoutFails,
        KeepsInodes, Where, KeepsOthers, Underway
<1>10. ASSUME NEW n \in Names, Clear(n)
      PROVE  Inv' /\ KeepsInodes /\ KeepsOthers
  <2> USE <1>10 DEF Clear
  <2>1. TypeOK'
    BY DEF TypeOK, Files
  <2>2. CurrentIsLinked'
    BY DEF TypeOK, Files, CurrentIsLinked, Resolves, Clearing, inplaceArtifacts,
        Filled, Removing, Linking
  <2>3. Clearing'
    BY DEF TypeOK, Files, Clearing, inplaceArtifacts, Underway
  <2>4. Rebuilding'
    BY DEF TypeOK, Files, Rebuilding, Resolves, Clearing, inplaceArtifacts
  <2>5. KeepsInodes
    BY DEF TypeOK, Files, KeepsInodes, Read, Where, Resolves, Underway, Pruning,
        Writing, Rebuilding, Filled, Clearing, inplaceArtifacts, Linking,
        Removing, CurrentIsLinked
  <2>6. KeepsOthers
    BY DEF TypeOK, Files, KeepsOthers, Underway, Writing, Read, Resolves
  <2>7. QED
    BY <2>1, <2>2, <2>3, <2>4, <2>5, <2>6
    DEF TypeOK, Underway, Pruning, LinksLead, Writing, Read, Filled, Linking,
        Removing, Delivered, NoLayoutFails, Resolves
<1>11. ASSUME NEW n \in Names, MakeLink(n)
      PROVE  Inv' /\ KeepsInodes /\ KeepsOthers
  <2> USE <1>11 DEF MakeLink
  <2>1. TypeOK'
    BY DEF TypeOK, Files
  <2>2. CurrentIsLinked'
    BY DEF TypeOK, Files, CurrentIsLinked, Resolves, Clearing, inplaceArtifacts,
        Filled, Removing, Linking
  <2>3. Clearing'
    BY DEF TypeOK, Files, Clearing, inplaceArtifacts, Underway
  <2>4. Filled'
    BY DEF TypeOK, Files, Filled, Underway
  <2>5. Linking'
    BY DEF TypeOK, Files, Linking, Clearing, CurrentIsLinked, Resolves, Filled
  <2>6. Rebuilding'
    BY DEF TypeOK, Files, Rebuilding, Resolves, Clearing, inplaceArtifacts
  <2>7. KeepsInodes
    BY DEF TypeOK, Files, KeepsInodes, Read, Where, Resolves, Underway, Pruning,
        Writing, Rebuilding, Filled, Clearing, inplaceArtifacts, Linking,
        Removing, CurrentIsLinked
  <2>8. KeepsOthers
    BY DEF TypeOK, Files, KeepsOthers, Underway, Writing, Read, Resolves
  <2>9. QED
    BY <2>1, <2>2, <2>3, <2>4, <2>5, <2>6, <2>7, <2>8
    DEF TypeOK, Underway, Pruning, LinksLead, Writing, Read, Removing, Delivered,
        NoLayoutFails, Resolves
<1>12. ASSUME NEW n \in Names, RemovePath(n)
      PROVE  Inv' /\ KeepsInodes /\ KeepsOthers
  <2> USE <1>12 DEF RemovePath
  <2>1. TypeOK'
    BY DEF TypeOK, Files
  <2>2. CurrentIsLinked'
    BY DEF TypeOK, Files, CurrentIsLinked, Resolves, Clearing, inplaceArtifacts,
        Filled, Removing, Linking
  <2>3. Clearing'
    BY DEF TypeOK, Files, Clearing, inplaceArtifacts, Underway
  <2>4. Filled'
    BY DEF TypeOK, Files, Filled, Underway
  <2>5. Removing'
    BY DEF TypeOK, Files, Removing, Linking, Filled
  <2>6. Rebuilding'
    BY DEF TypeOK, Files, Rebuilding, Resolves, Clearing, inplaceArtifacts
  <2>7. Delivered'
    BY DEF TypeOK, Files, Delivered, Read, Resolves, Writing, Clearing,
        CurrentIsLinked, Filled, Removing, Underway
  <2>8. NoLayoutFails'
    BY DEF TypeOK, Files, NoLayoutFails, Writing, LinksLead, Resolves, Removing
  <2>9. KeepsInodes
    BY DEF TypeOK, Files, KeepsInodes, Read, Where, Resolves, Underway, Pruning,
        Writing, Rebuilding, Filled, Clearing, inplaceArtifacts, Linking,
        Removing, CurrentIsLinked
  <2>10. KeepsOthers
    BY DEF TypeOK, Files, KeepsOthers, Underway, Writing, Read, Resolves
  <2>11. QED
    BY <2>1, <2>2, <2>3, <2>4, <2>5, <2>6, <2>7, <2>8, <2>9, <2>10
    DEF TypeOK, Underway, Pruning, LinksLead, Writing, Read, Linking, Resolves
<1>13. ASSUME NEW d \in Dirs, MakeDirectory(d)
      PROVE  Inv' /\ KeepsInodes /\ KeepsOthers
  <2> USE <1>13 DEF MakeDirectory, UpToDate, Superseded
  <2>1. TypeOK'
    <3>1. [k \in Names |-> IF k \in payload THEN gen ELSE Absent] \in Files
      BY DEF Files, Underway
    <3>2. d # Absent /\ \A f \in Files : f # Absent
      BY DEF Files
    <3>3. QED
      BY <3>1, <3>2 DEF TypeOK
  <2>2. CurrentIsLinked'
    BY DEF TypeOK, Files, CurrentIsLinked, Resolves, Clearing, inplaceArtifacts,
        Filled, Removing, Linking
  <2>3. Clearing'
    BY DEF TypeOK, Files, Clearing, inplaceArtifacts, Underway
  <2>4. Filled'
    BY DEF TypeOK, Files, Filled, Underway
  <2>5. Linking'
    BY DEF TypeOK, Files, Linking, Clearing, CurrentIsLinked, Resolves, Filled
  <2>6. Rebuilding'
    BY DEF TypeOK, Files, Rebuilding, Resolves, Clearing, inplaceArtifacts
  <2>7. KeepsInodes
    BY DEF TypeOK, Files, KeepsInodes, Read, Where, Resolves, Underway, Pruning,
        Writing, Rebuilding, Filled, Clearing, inplaceArtifacts, Linking,
        Removing, CurrentIsLinked
  <2>8. KeepsOthers
    BY DEF TypeOK, Files, KeepsOthers, Underway, Writing, Read, Resolves
  <2>9. QED
    BY <2>1, <2>2, <2>3, <2>4, <2>5, <2>6, <2>7, <2>8
    DEF TypeOK, Underway, Pruning, LinksLead, Writing, Read, Removing, Delivered,
        NoLayoutFails, Resolves
<1>14. ASSUME EndClear
      PROVE  Inv' /\ KeepsInodes /\ KeepsOthers
  <2> USE <1>14 DEF EndClear
  <2>1. TypeOK'
    BY DEF TypeOK, Files
  <2>2. Clearing'
    BY DEF TypeOK, Files, Clearing, inplaceArtifacts, Underway
  <2>3. Rebuilding'
    BY DEF TypeOK, Files, Rebuilding, Resolves, Clearing, inplaceArtifacts
  <2>4. KeepsInodes
    BY DEF TypeOK, Files, KeepsInodes, Read, Where, Resolves, Underway, Pruning,
        Writing, Rebuilding, Filled, Clearing, inplaceArtifacts, Linking,
        Removing, CurrentIsLinked
  <2>5. QED
    BY <2>1, <2>2, <2>3, <2>4
    DEF TypeOK, CurrentIsLinked, Resolves, Underway, Pruning, LinksLead, Writing,
        Read, Filled, Linking, Removing, Delivered, NoLayoutFails, KeepsOthers
<1>15. ASSUME WriteNotRequired
      PROVE  Inv' /\ KeepsInodes /\ KeepsOthers
  <2> USE <1>15 DEF WriteNotRequired, UpToDate, Superseded
  <2>1. TypeOK'
    BY DEF TypeOK, Files
  <2>2. Delivered'
    BY DEF TypeOK, Files, Delivered, Read, Resolves, Writing, Clearing,
        CurrentIsLinked, Filled, Removing, Underway
  <2>3. NoLayoutFails'
    BY DEF TypeOK, Files, NoLayoutFails, Writing, LinksLead, Resolves, Removing
  <2>4. QED
    BY <2>1, <2>2, <2>3
    DEF TypeOK, CurrentIsLinked, Resolves, Underway, Pruning, LinksLead, Writing,
        Read, Clearing, inplaceArtifacts, Filled, Linking, Removing, Rebuilding,
        KeepsInodes, Where, KeepsOthers
<1>16. ASSUME Rename
      PROVE  Inv' /\ KeepsInodes /\ KeepsOthers
  <2> USE <1>16 DEF Rename
  <2>1. TypeOK'
    BY DEF TypeOK, Files
  <2>2. CurrentIsLinked'
    BY DEF TypeOK, Files, CurrentIsLinked, Resolves, Clearing, inplaceArtifacts,
        Filled, Removing, Linking
  <2>3. Clearing'
    BY DEF TypeOK, Files, Clearing, inplaceArtifacts, Underway
  <2>4. Filled'
    BY DEF TypeOK, Files, Filled, Underway
  <2>5. Removing'
    BY DEF TypeOK, Files, Removing, Linking, Filled
  <2>6. Rebuilding'
    BY DEF TypeOK, Files, Rebuilding, Resolves, Clearing, inplaceArtifacts
  <2>7. KeepsInodes
    BY DEF TypeOK, Files, KeepsInodes, Read, Where, Resolves, Underway, Pruning,
        Writing, Rebuilding, Filled, Clearing, inplaceArtifacts, Linking,
        Removing, CurrentIsLinked
  <2>8. KeepsOthers
    BY DEF TypeOK, Files, KeepsOthers, Underway, Writing, Read, Resolves
  <2>9. QED
    BY <2>1, <2>2, <2>3, <2>4, <2>5, <2>6, <2>7, <2>8
    DEF TypeOK, Underway, Pruning, LinksLead, Writing, Read, Linking, Delivered,
        NoLayoutFails, Resolves
<1>17. ASSUME RemoveOld
      PROVE  Inv' /\ KeepsInodes /\ KeepsOthers
  <2> USE <1>17 DEF RemoveOld
  <2>1. TypeOK'
    BY DEF TypeOK, Files
  <2>2. CurrentIsLinked'
    BY DEF TypeOK, Files, CurrentIsLinked, Resolves, Clearing, inplaceArtifacts,
        Filled, Removing, Linking
  <2>3. Delivered'
    BY DEF TypeOK, Files, Delivered, Read, Resolves, Writing, Clearing,
        CurrentIsLinked, Filled, Removing, Underway
  <2>4. NoLayoutFails'
    BY DEF TypeOK, Files, NoLayoutFails, Writing, LinksLead, Resolves, Removing
  <2>5. KeepsInodes
    BY DEF TypeOK, Files, KeepsInodes, Read, Where, Resolves, Underway, Pruning,
        Writing, Rebuilding, Filled, Clearing, inplaceArtifacts, Linking,
        Removing, CurrentIsLinked
  <2>6. KeepsOthers
    BY DEF TypeOK, Files, KeepsOthers, Underway, Writing, Read, Resolves
  <2>7. QED
    BY <2>1, <2>2, <2>3, <2>4, <2>5, <2>6
    DEF TypeOK, Underway, Pruning, LinksLead, Writing, Read, Clearing,
        inplaceArtifacts, Filled, Linking, Removing, Rebuilding, Resolves
<1>18. ASSUME Stop
      PROVE  Inv' /\ KeepsInodes /\ KeepsOthers
  <2> USE <1>18 DEF Stop
  <2>1. TypeOK'
    BY DEF TypeOK, Files
  <2>2. KeepsInodes
    BY DEF TypeOK, Files, KeepsInodes, Read, Where, Resolves, Underway, Pruning,
        Writing, Rebuilding, Filled, Clearing, inplaceArtifacts, Linking,
        Removing, CurrentIsLinked
  <2>3. KeepsOthers
    BY DEF TypeOK, Files, KeepsOthers, Underway, Writing, Read, Resolves
  <2>4. QED
    BY <2>1, <2>2, <2>3
    DEF TypeOK, CurrentIsLinked, Resolves, Underway, Pruning, LinksLead, Writing,
        Read, Clearing, inplaceArtifacts, Filled, Linking, Removing, Rebuilding,
        Delivered, NoLayoutFails
<1>19. ASSUME Tear
      PROVE  Inv' /\ KeepsInodes /\ KeepsOthers
  <2> USE <1>19 DEF Tear
  <2>1. TypeOK'
    BY DEF TypeOK, Files
  <2>2. CurrentIsLinked'
    BY DEF TypeOK, Files, CurrentIsLinked, Resolves, Clearing, inplaceArtifacts,
        Filled, Removing, Linking
  <2>3. KeepsInodes
    BY DEF TypeOK, Files, KeepsInodes, Read, Where, Resolves, Underway, Pruning,
        Writing, Rebuilding, Filled, Clearing, inplaceArtifacts, Linking,
        Removing, CurrentIsLinked
  <2>4. KeepsOthers
    BY DEF TypeOK, Files, KeepsOthers, Underway, Writing, Read, Resolves
  <2>5. QED
    BY <2>1, <2>2, <2>3, <2>4
    DEF TypeOK, Underway, Pruning, LinksLead, Writing, Read, Clearing,
        inplaceArtifacts, Filled, Linking, Removing, Rebuilding, Delivered,
        NoLayoutFails, Resolves
<1>20. CASE UNCHANGED vars
  BY <1>20
  DEF vars, TypeOK, CurrentIsLinked, Resolves, Underway, Pruning,
      LinksLead, Writing, Read, Clearing, inplaceArtifacts, Filled, Linking,
      Removing, Rebuilding, Delivered, NoLayoutFails, KeepsInodes, Where,
      KeepsOthers
<1>21. QED
  BY <1>1, <1>2, <1>3, <1>4, <1>5, <1>6, <1>7, <1>8, <1>9, <1>10, <1>11, <1>12,
     <1>13, <1>14, <1>15, <1>16, <1>17, <1>18, <1>19, <1>20
  DEF Next, InPlace, Atomic

(* The invariant is inductive.                                             *)
LEMMA InvHolds == Spec => []Inv
  BY InitInv, StepInv, PTL DEF Spec

-----------------------------------------------------------------------------
(* Every variable keeps its type; the directory that is going to be the    *)
(* current one exists when `..data` is pointed to it (TypeOK,              *)
(* storage_inplace.go:322-334).                                            *)
THEOREM TypeCorrect == Spec => []TypeOK
<1>1. Inv => TypeOK
  BY DEF Inv
<1>2. QED
  BY <1>1, InvHolds, PTL

(* Whatever modes, configurations, crashes and torn layouts came before, a *)
(* write that reports success has delivered its payload, and a full one    *)
(* nothing else (Delivered, storage_inplace.go:270-278, 390-394).          *)
THEOREM WritesDeliver == Spec => []Delivered
<1>1. Inv => Delivered
  BY DEF Inv
<1>2. QED
  BY <1>1, InvHolds, PTL

(* No layout that is left behind makes a later write fail (NoLayoutFails,  *)
(* storage_inplace.go:402-406).                                            *)
THEOREM LayoutsNeverFail == Spec => []NoLayoutFails
<1>1. Inv => NoLayoutFails
  BY DEF Inv
<1>2. QED
  BY <1>1, InvHolds, PTL

(* A write in place into a healthy layout keeps the inode behind every     *)
(* path that it does not prune (InodesSurvive, storage_inplace.go:155-161, *)
(* 568-572).                                                               *)
THEOREM InodesKept == Spec => InodesSurvive
<1>1. Inv /\ [Next]_vars => [KeepsInodes]_vars
  BY StepInv
<1>2. InodesSurvive <=> [][KeepsInodes]_vars
  BY PTL DEF InodesSurvive, KeepsInodes
<1>3. QED
  BY <1>1, <1>2, InvHolds, PTL DEF Spec

(* Updating the CA file changes what no other path leads to                *)
(* (CAWriteTouchesNothingElse, storage_inplace.go:217-227, 249-253).       *)
THEOREM CAWriteIsLocal == Spec => CAWriteTouchesNothingElse
<1>1. Inv /\ [Next]_vars => [KeepsOthers]_vars
  BY StepInv
<1>2. CAWriteTouchesNothingElse <=> [][KeepsOthers]_vars
  BY PTL DEF CAWriteTouchesNothingElse, KeepsOthers
<1>3. QED
  BY <1>1, <1>2, InvHolds, PTL DEF Spec

=============================================================================
