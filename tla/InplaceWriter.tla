--------------------------- MODULE InplaceWriter ---------------------------
(***************************************************************************)
(* The in-place writer (internal/csi/driver/storage_inplace.go) on one     *)
(* volume, system call by system call, with everything that runs at the    *)
(* same time: writeKeypair storing a renewal through WriteFiles, the CA    *)
(* manager updating the CA file through WriteFile, write errors, a crash   *)
(* of the driver, and a consumer in the pod that watches the inode of the  *)
(* certificate file and reloads the pair on every event.                   *)
(*                                                                         *)
(* The layout is flat: no file of the volume is a symlink.  VolumeLayout   *)
(* models the layouts.                                                     *)
(***************************************************************************)
EXTENDS Integers, Sequences, FiniteSets

CONSTANTS
  Bundles,   \* contents of the trust bundle
  Size,      \* Size[t]: how many blocks contents with the tag t take
  MaxSize,   \* the most blocks that contents take
  Hole,      \* the zero bytes of a hole in a file
  Absent,    \* no such file
  Faults,    \* TRUE: writes can fail and the driver can crash
  MaxGen     \* bound: renewals in one behaviour, the first issuance included

(* The names a payload can have, and "old": a file that an earlier         *)
(* configuration wrote and no payload lists any more.                      *)
Cert == "cert"
Names == {"ca", "key", "keystore", "cert", "old"}

(* A tag is a renewal's generation or a bundle; the bytes of a file with   *)
(* that tag are a row of blocks carrying it.                               *)
Gens == 0..MaxGen
Tags == Gens \cup Bundles
Bytes(tag) == [k \in 1..Size[tag] |-> tag]

ASSUME InplaceWriterAssumption ==
  /\ Faults \in BOOLEAN
  /\ MaxGen \in Nat \ {0}
  /\ MaxSize \in Nat /\ Size \in [Tags -> 1..MaxSize]
  /\ Hole \notin Bundles \cup Int /\ Absent \notin Seq(Bundles \cup Int \cup {Hole})

Writers == {"renewal", "camanager"}

VARIABLES
  disk,      \* disk[n]: the blocks of file n
  bundle,    \* rootCAs.CertificatesPEM()
  gen,       \* the latest renewal started
  stored,    \* the renewal that WriteFiles reported as written, 0 if none
  pc,        \* pc[w]: where writer w is
  todo,      \* todo[w]: the names it has still to write, in order
  load,      \* load[w][n]: the tag it writes to n
  pos,       \* pos[w]: the next block of its WriteAt
  event,     \* an unread IN_MODIFY on the certificate's inode
  reader,    \* where the consumer is
  seen,      \* the certificate it has just read
  loaded     \* the generation of the pair it serves

writer == <<pc, todo, load, pos>>
consumer == <<reader, seen, loaded>>
vars == <<disk, bundle, gen, stored, writer, event, consumer>>

Blocks == Tags \cup {Hole}
Files == {blocks \in Seq(Blocks) : Len(blocks) <= MaxSize}

TypeOK ==
  /\ disk \in [Names -> Files \cup {Absent}]
  /\ bundle \in Bundles /\ gen \in Gens /\ stored \in Gens /\ loaded \in Gens
  /\ pc \in [Writers -> {"idle", "prune", "next", "write", "truncate"}]
  /\ todo \in [Writers -> Seq(Names)] /\ DOMAIN load = Writers
  /\ pos \in [Writers -> 1..MaxSize]
  /\ \A w \in Writers :
       /\ \A i \in 1..Len(todo[w]) : todo[w][i] \in DOMAIN load[w]
       /\ pc[w] \in {"write", "truncate"} => todo[w] # <<>>
  /\ event \in BOOLEAN
  /\ reader \in {"wait", "cert", "key"}

(* A volume whose first issuance has been written and mounted, by a driver *)
(* that may have been configured with another file name.                   *)
Init ==
  /\ bundle \in Bundles
  /\ gen = 1 /\ stored = 1 /\ loaded = 1
  /\ \E old \in {Absent, Bytes(1)} :
       disk = [n \in Names |-> CASE n = "ca" -> Bytes(bundle)
                                 [] n = "old" -> old
                                 [] OTHER -> Bytes(1)]
  /\ pc = [w \in Writers |-> "idle"]
  /\ todo = [w \in Writers |-> <<>>]
  /\ load = [w \in Writers |-> <<>>]
  /\ pos = [w \in Writers |-> 1]
  /\ event = FALSE /\ reader = "wait" /\ seen = <<>>

-----------------------------------------------------------------------------
(* Pure parts of the writer.                                               *)

(* The names in files, in the order of the given ones.                     *)
InOrder(files, n1, n2, n3, n4) ==
  LET Add(names, n) == IF n \in files THEN Append(names, n) ELSE names
  IN  Add(Add(Add(Add(<<>>, n1), n2), n3), n4)

(* Mutant: the certificate is written in its place in the sorted order.    *)
OrderCertFirst(files) == InOrder(files, "ca", Cert, "key", "keystore")

(* All names in alphabetical order, followed by the certificate's.         *)
orderedWriteNames(files) == InOrder(files, "ca", "key", "keystore", Cert)

(* The payload of writeKeypair: the new pair, the keystore made from it    *)
(* and the bundle of the moment.                                           *)
Payload(g, b) ==
  [n \in {"ca", "key", "keystore", "cert"} |-> IF n = "ca" THEN b ELSE g]

(* Block i of a file overwritten with t; a hole opens below it when        *)
(* somebody else has made the file shorter.                                *)
Overwrite(blocks, i, t) ==
  [k \in 1..(IF i > Len(blocks) THEN i ELSE Len(blocks)) |->
     IF k = i THEN t ELSE IF k <= Len(blocks) THEN blocks[k] ELSE Hole]

Resize(blocks, len) ==
  [k \in 1..len |-> IF k <= Len(blocks) THEN blocks[k] ELSE Hole]

-----------------------------------------------------------------------------
(* Steps of a writer.                                                      *)

Goto(w, label) == pc' = [pc EXCEPT ![w] = label]

Begin(w, label, payload) ==
  /\ pc[w] = "idle"
  /\ load' = [load EXCEPT ![w] = payload]
  /\ todo' = [todo EXCEPT ![w] = orderedWriteNames(DOMAIN payload)]
  /\ Goto(w, label)
  /\ UNCHANGED <<disk, bundle, pos, event, consumer>>

(* writeKeypair: a new key and certificate, the bundle sampled now.        *)
BeginRenewal ==
  /\ gen < MaxGen
  /\ gen' = gen + 1 /\ stored' = 0
  /\ Begin("renewal", "prune", Payload(gen + 1, bundle))

(* Mutant: the update writes a snapshot of the pair next to the bundle, as *)
(* it has to with the atomic writer.                                       *)
BeginUpdateSnapshot ==
  /\ \E g \in Gens : /\ disk["cert"] = Bytes(g)
                     /\ Begin("camanager", "next", Payload(g, bundle))
  /\ UNCHANGED <<gen, stored>>

(* updateRootCAFiles for this volume: the bundle is sampled, and only the  *)
(* CA file is written.  That it compares the file with the bundle before   *)
(* it calls the writer is Skip, for the writer compares them again: other  *)
(* writes may come in between.                                             *)
BeginUpdate ==
  /\ Begin("camanager", "next", [n \in {"ca"} |-> bundle])
  /\ UNCHANGED <<gen, stored>>

(* Mutant: the files that the payload does not list are left in place.     *)
PruneNothing ==
  /\ pc["renewal"] = "prune"
  /\ Goto("renewal", "next")
  /\ UNCHANGED <<disk, bundle, gen, stored, todo, load, pos, event, consumer>>

(* removeUnlistedFiles, before the first write.                            *)
Prune ==
  /\ pc["renewal"] = "prune"
  /\ disk' = [n \in Names |-> IF n \in DOMAIN load["renewal"] THEN disk[n] ELSE Absent]
  /\ Goto("renewal", "next")
  /\ UNCHANGED <<bundle, gen, stored, todo, load, pos, event, consumer>>

Data(w) == Bytes(load[w][Head(todo[w])])

(* updateRootCAFiles or writeFileInPlace finds the contents identical.     *)
Skip(w) ==
  /\ pc[w] = "next" /\ todo[w] # <<>>
  /\ disk[Head(todo[w])] = Data(w)
  /\ todo' = [todo EXCEPT ![w] = Tail(@)]
  /\ UNCHANGED <<disk, bundle, gen, stored, pc, load, pos, event, consumer>>

(* Mutant: the file is truncated when it is opened.                        *)
OpenTruncates(w) ==
  /\ pc[w] = "next" /\ todo[w] # <<>>
  /\ disk[Head(todo[w])] # Data(w)
  /\ disk' = [disk EXCEPT ![Head(todo[w])] = <<>>]
  /\ pos' = [pos EXCEPT ![w] = 1]
  /\ Goto(w, "write")
  /\ UNCHANGED <<bundle, gen, stored, todo, load, event, consumer>>

(* OpenFile with O_CREATE and without O_TRUNC.                             *)
Open(w) ==
  /\ pc[w] = "next" /\ todo[w] # <<>>
  /\ disk[Head(todo[w])] # Data(w)
  /\ disk' = [disk EXCEPT ![Head(todo[w])] = IF @ = Absent THEN <<>> ELSE @]
  /\ pos' = [pos EXCEPT ![w] = 1]
  /\ Goto(w, "write")
  /\ UNCHANGED <<bundle, gen, stored, todo, load, event, consumer>>

(* The kernel holds the inode's lock during a write or a truncation: two   *)
(* writers exclude each other, readers take no lock.                       *)
InodeLocked(w) ==
  \E o \in Writers \ {w} :
    pc[o] = "write" /\ pos[o] > 1 /\ Head(todo[o]) = Head(todo[w])

(* Mutant: the write goes on for one block after the last.                 *)
WriteAtPastEnd(w) ==
  /\ pc[w] = "write" /\ ~InodeLocked(w)
  /\ disk' = [disk EXCEPT ![Head(todo[w])] = Overwrite(@, pos[w], load[w][Head(todo[w])])]
  /\ event' = (event \/ Head(todo[w]) = Cert)
  /\ IF pos[w] > Len(Data(w))
       THEN Goto(w, "truncate") /\ UNCHANGED pos
       ELSE pos' = [pos EXCEPT ![w] = @ + 1] /\ UNCHANGED pc
  /\ UNCHANGED <<bundle, gen, stored, todo, load, consumer>>

(* One block of WriteAt: a reader can come in between two blocks.  The     *)
(* watcher is told when the system call is over.                           *)
WriteAt(w) ==
  /\ pc[w] = "write" /\ ~InodeLocked(w)
  /\ LET n == Head(todo[w])
         last == pos[w] = Len(Data(w))
     IN /\ disk' = [disk EXCEPT ![n] = Overwrite(@, pos[w], load[w][n])]
        /\ event' = (event \/ (last /\ n = Cert))
        /\ IF last
             THEN Goto(w, "truncate") /\ UNCHANGED pos
             ELSE pos' = [pos EXCEPT ![w] = @ + 1] /\ UNCHANGED pc
  /\ UNCHANGED <<bundle, gen, stored, todo, load, consumer>>

(* Mutant: no event once the file has its final length.                    *)
TruncateUnnoticed(w) ==
  /\ pc[w] = "truncate" /\ ~InodeLocked(w)
  /\ disk' = [disk EXCEPT ![Head(todo[w])] = Resize(@, Len(Data(w)))]
  /\ todo' = [todo EXCEPT ![w] = Tail(@)]
  /\ Goto(w, "next")
  /\ UNCHANGED <<bundle, gen, stored, load, pos, event, consumer>>

(* Truncate to the written length; the second and last event.              *)
Truncate(w) ==
  /\ pc[w] = "truncate" /\ ~InodeLocked(w)
  /\ LET n == Head(todo[w])
     IN /\ disk' = [disk EXCEPT ![n] = Resize(@, Len(Data(w)))]
        /\ event' = (event \/ n = Cert)
  /\ todo' = [todo EXCEPT ![w] = Tail(@)]
  /\ Goto(w, "next")
  /\ UNCHANGED <<bundle, gen, stored, load, pos, consumer>>

(* The call returns nil.                                                   *)
Return(w) ==
  /\ pc[w] = "next" /\ todo[w] = <<>>
  /\ stored' = IF w = "renewal" THEN gen ELSE stored
  /\ Goto(w, "idle")
  /\ UNCHANGED <<disk, bundle, gen, todo, load, pos, event, consumer>>

(* A system call fails and the call returns the error, leaving the disk as *)
(* it is.  The manager starts a renewal over, with another key.            *)
Fail(w) ==
  /\ Faults /\ pc[w] # "idle"
  /\ todo' = [todo EXCEPT ![w] = <<>>]
  /\ Goto(w, "idle")
  /\ UNCHANGED <<disk, bundle, gen, stored, load, pos, event, consumer>>

(* The driver dies with both calls; the pod and its watch live on.         *)
Crash ==
  /\ Faults /\ \E w \in Writers : pc[w] # "idle"
  /\ pc' = [w \in Writers |-> "idle"]
  /\ todo' = [w \in Writers |-> <<>>]
  /\ UNCHANGED <<disk, bundle, gen, stored, load, pos, event, consumer>>

ChangeBundle(b) ==
  /\ b # bundle /\ bundle' = b
  /\ UNCHANGED <<disk, gen, stored, writer, event, consumer>>

-----------------------------------------------------------------------------
(* The consumer: on an event it reads the certificate, then the key, and   *)
(* serves the pair if they parse and match.                                *)

Notice ==
  /\ reader = "wait" /\ event
  /\ event' = FALSE /\ reader' = "cert"
  /\ UNCHANGED <<disk, bundle, gen, stored, writer, seen, loaded>>

ReadCert ==
  /\ reader = "cert"
  /\ seen' = disk[Cert] /\ reader' = "key"
  /\ UNCHANGED <<disk, bundle, gen, stored, writer, event, loaded>>

ReadKey ==
  /\ reader = "key"
  /\ loaded' = IF \E g \in Gens : seen = Bytes(g) /\ disk["key"] = Bytes(g)
                 THEN CHOOSE g \in Gens : seen = Bytes(g)
                 ELSE loaded
  /\ seen' = <<>> /\ reader' = "wait"
  /\ UNCHANGED <<disk, bundle, gen, stored, writer, event>>

-----------------------------------------------------------------------------
Write(w) ==
  Skip(w) \/ Open(w) \/ WriteAt(w) \/ Truncate(w) \/ Return(w)

Consume == Notice \/ ReadCert \/ ReadKey

Next ==
  \/ BeginRenewal \/ BeginUpdate \/ Prune
  \/ \E w \in Writers : Write(w) \/ Fail(w)
  \/ Crash
  \/ \E b \in Bundles : ChangeBundle(b)
  \/ Consume

Spec == Init /\ [][Next]_vars

(* The consumer reads when there is something to read.                     *)
FairSpec == Spec /\ WF_vars(Consume)

-----------------------------------------------------------------------------
PairIs(g) == disk[Cert] = Bytes(g) /\ disk["key"] = Bytes(g)

(* What WriteFiles promises when it returns nil: until the next renewal    *)
(* starts, the files of the pair are those of the payload and a file that  *)
(* the payload does not list is gone, whatever the CA manager does in the  *)
(* meantime (storage_inplace.go:153-161, 217-227).                         *)
StoredPairIsOnDisk ==
  stored > 1 =>
    /\ PairIs(stored) /\ disk["keystore"] = Bytes(stored)
    /\ disk["old"] = Absent

(* The last event of a certificate write fires when the key and the        *)
(* keystore on disk already match it (storage_inplace.go:531-535).         *)
CertificateCompletesTheSet ==
  [][\A g \in Gens :
       disk[Cert] # Bytes(g) /\ disk'[Cert] = Bytes(g)
         => disk'["key"] = Bytes(g) /\ disk'["keystore"] = Bytes(g)]_vars

(* A file that a reader has seen with contents is never empty or absent    *)
(* while it is rewritten (storage_inplace.go:662).                         *)
NeverEmptied ==
  [][\A n \in Names \ {"old"} :
       disk[n] \notin {Absent, <<>>} => disk'[n] \notin {Absent, <<>>}]_vars

(* A consumer that reloads on every event of the certificate's inode       *)
(* converges (storage_inplace.go:713-717): with the system calls of both   *)
(* writers, their errors and crashes hidden, the volume hands pairs over   *)
(* as PairHandover says.  It serves whole pairs only, never an older one   *)
(* than before, and each stored renewal unless a later one has started.    *)
Handover == INSTANCE PairHandover WITH issued <- gen, served <- loaded
HandsOverPairs == Handover!Spec

(* A reader of the CA file at rest finds a bundle: the worst a concurrent  *)
(* renewal can do to the CA manager's write is to write identical bytes    *)
(* (storage_inplace.go:226).                                               *)
CAFileIsABundle ==
  (\A w \in Writers : pc[w] = "idle") => \E b \in Bundles : disk["ca"] = Bytes(b)

=============================================================================
