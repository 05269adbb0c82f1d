------------------------ MODULE InplaceWriter_proofs ------------------------
(***************************************************************************)
(* Proofs about InplaceWriter, for any bundles, any renewals, files of any *)
(* length, with or without faults:                                         *)
(*                                                                         *)
(*   TypeCorrect      the variables keep their types                       *)
(*   StoredStays      a stored renewal is on disk until the next starts    *)
(*   CertificateLast  the certificate completes the set of a renewal       *)
(*   NothingEmptied   no file with contents is ever emptied                *)
(*   PairsHandedOver  the volume implements PairHandover, fairness apart   *)
(*                                                                         *)
(* First what the pure parts of the writer do, then the invariant, at last *)
(* the consumer.                                                           *)
(***************************************************************************)
EXTENDS InplaceWriter, SequenceTheorems, TLAPS

Pair == {"key", "keystore", "cert"}
Renewed == {"ca", "key", "keystore", "cert"}

-----------------------------------------------------------------------------
(* The rows of names the two writers go through.                           *)

Left(names) == {names[i] : i \in 1..Len(names)}

Suffixes ==
  {<<"ca", "key", "keystore", "cert">>, <<"key", "keystore", "cert">>,
   <<"keystore", "cert">>, <<"cert">>, <<>>}

(* Appending adds one element at the end.                                  *)
LEMMA AppendAt ==
  ASSUME NEW s \in Seq(Names), NEW n \in Names, NEW k \in Nat, Len(s) = k
  PROVE  /\ Append(s, n) \in Seq(Names) /\ Len(Append(s, n)) = k + 1
         /\ Append(s, n)[k + 1] = n
         /\ \A i \in 1..k : Append(s, n)[i] = s[i]
  BY AppendProperties

(* A renewal goes through the CA file, the key, the keystore and then the  *)
(* certificate.                                                            *)
LEMMA RenewalOrder ==
  orderedWriteNames(Renewed) = <<"ca", "key", "keystore", "cert">>
<1> DEFINE s0 == <<>>
           s1 == Append(s0, "ca")
           s2 == Append(s1, "key")
           s3 == Append(s2, "keystore")
           s4 == Append(s3, "cert")
           t  == <<"ca", "key", "keystore", "cert">>
<1>1. orderedWriteNames(Renewed) = s4
  BY DEF orderedWriteNames, InOrder, Renewed, Cert
<1>2. s0 \in Seq(Names) /\ Len(s0) = 0
  OBVIOUS
<1> HIDE DEF s0
<1>3. s1 \in Seq(Names) /\ Len(s1) = 1 /\ s1[1] = "ca"
  BY <1>2, AppendAt, 0 + 1 = 1 DEF Names
<1> HIDE DEF s1
<1>4. s2 \in Seq(Names) /\ Len(s2) = 2 /\ s2[1] = "ca" /\ s2[2] = "key"
  <2>1. 1 + 1 = 2 /\ 1 \in Nat /\ 1 \in 1..1 /\ "key" \in Names
    BY DEF Names
  <2>2. QED
    BY <1>3, <2>1, AppendAt
<1> HIDE DEF s2
<1>5. /\ s3 \in Seq(Names) /\ Len(s3) = 3
      /\ s3[1] = "ca" /\ s3[2] = "key" /\ s3[3] = "keystore"
  <2>1. 2 + 1 = 3 /\ 2 \in Nat /\ 1 \in 1..2 /\ 2 \in 1..2 /\ "keystore" \in Names
    BY DEF Names
  <2>2. /\ s3 \in Seq(Names) /\ Len(s3) = 2 + 1 /\ s3[2 + 1] = "keystore"
        /\ \A i \in 1..2 : s3[i] = s2[i]
    <3> HIDE DEF s3
    <3>1. s2 \in Seq(Names) /\ Len(s2) = 2 /\ 2 \in Nat /\ "keystore" \in Names
      BY <1>4, <2>1
    <3>2. s3 = Append(s2, "keystore")
      BY DEF s3
    <3>3. QED
      BY <3>1, <3>2, AppendAt
  <2>3. QED
    BY <1>4, <2>1, <2>2
<1> HIDE DEF s3
<1>6. /\ s4 \in Seq(Names) /\ Len(s4) = 4
      /\ s4[1] = "ca" /\ s4[2] = "key" /\ s4[3] = "keystore" /\ s4[4] = "cert"
  <2>1. /\ 3 + 1 = 4 /\ 3 \in Nat /\ 1 \in 1..3 /\ 2 \in 1..3 /\ 3 \in 1..3
        /\ "cert" \in Names
    BY DEF Names
  <2>2. /\ s4 \in Seq(Names) /\ Len(s4) = 3 + 1 /\ s4[3 + 1] = "cert"
        /\ \A i \in 1..3 : s4[i] = s3[i]
    <3>1. s3 \in Seq(Names) /\ Len(s3) = 3 /\ 3 \in Nat /\ "cert" \in Names
      BY <1>5, <2>1
    <3>2. QED
      BY <3>1, AppendAt
  <2>3. QED
    BY <1>5, <2>1, <2>2
<1> HIDE DEF s4
<1>7. /\ t \in Seq(Names) /\ Len(t) = 4
      /\ t[1] = "ca" /\ t[2] = "key" /\ t[3] = "keystore" /\ t[4] = "cert"
  BY DEF Names
<1> HIDE DEF t
<1>8. \A i \in 1..4 : s4[i] = t[i]
  <2>1. \A i \in 1..4 : i = 1 \/ i = 2 \/ i = 3 \/ i = 4
    OBVIOUS
  <2>2. QED
    BY <1>6, <1>7, <2>1
<1>9. s4 = t
  BY <1>6, <1>7, <1>8
<1>10. QED
  BY <1>1, <1>9 DEF t

(* An update goes through the CA file alone.                               *)
LEMMA UpdateOrder == orderedWriteNames({"ca"}) = <<"ca">>
  BY DEF orderedWriteNames, InOrder, Cert

(* Going through a row of a renewal's names.                               *)
LEMMA SuffixFacts ==
  ASSUME NEW s \in Suffixes
  PROVE  /\ s \in Seq(Names) /\ Left(s) \subseteq Renewed
         /\ \A i \in 1..Len(s) : s[i] \in Renewed
         /\ s = <<>> => Left(s) = {}
         /\ s # <<>> =>
              /\ Head(s) \in Renewed /\ Head(s) \in Left(s)
              /\ Tail(s) \in Suffixes /\ Left(s) = Left(Tail(s)) \cup {Head(s)}
              /\ Head(s) \notin Left(Tail(s))
              /\ Head(s) = "cert" => Left(s) = {"cert"}
<1>1. CASE s = <<>>
  BY <1>1 DEF Left, Renewed, Names
<1>2. CASE s = <<"cert">>
  <2>1. Tail(s) = <<>> /\ Head(s) = "cert" /\ s # <<>>
    BY <1>2
  <2>2. Left(s) = {"cert"} /\ Left(<<>>) = {}
    BY <1>2 DEF Left
  <2>3. QED
    BY <1>2, <2>1, <2>2 DEF Suffixes, Renewed, Names
<1>3. CASE s = <<"keystore", "cert">>
  <2>1. Tail(s) = <<"cert">> /\ Head(s) = "keystore" /\ s # <<>>
    BY <1>3
  <2>2. Left(s) = {"keystore", "cert"} /\ Left(<<"cert">>) = {"cert"}
    BY <1>3 DEF Left
  <2>3. QED
    BY <1>3, <2>1, <2>2 DEF Suffixes, Renewed, Names
<1>4. CASE s = <<"key", "keystore", "cert">>
  <2>1. Tail(s) = <<"keystore", "cert">> /\ Head(s) = "key" /\ s # <<>>
    BY <1>4
  <2>2. Left(s) = {"key", "keystore", "cert"}
    BY <1>4 DEF Left
  <2>3. Left(<<"keystore", "cert">>) = {"keystore", "cert"}
    BY DEF Left
  <2>4. QED
    BY <1>4, <2>1, <2>2, <2>3 DEF Suffixes, Renewed, Names
<1>5. CASE s = <<"ca", "key", "keystore", "cert">>
  <2>1. Tail(s) = <<"key", "keystore", "cert">> /\ Head(s) = "ca" /\ s # <<>>
    BY <1>5
  <2>2. Left(s) = {"ca", "key", "keystore", "cert"}
    BY <1>5 DEF Left
  <2>3. Left(<<"key", "keystore", "cert">>) = {"key", "keystore", "cert"}
    BY DEF Left
  <2>4. QED
    BY <1>5, <2>1, <2>2, <2>3 DEF Suffixes, Renewed, Names
<1>6. QED
  BY <1>1, <1>2, <1>3, <1>4, <1>5 DEF Suffixes

-----------------------------------------------------------------------------
(* Files.                                                                  *)

(* A file is not the mark of absence.                                      *)
LEMMA FilesExist == \A f \in Files : f # Absent
<1>1. \A f \in Seq(Blocks) : f \in Seq(Bundles \cup Int \cup {Hole})
  BY InplaceWriterAssumption DEF Blocks, Tags, Gens
<1>2. QED
  BY <1>1, InplaceWriterAssumption DEF Files

(* A file has at most as many blocks as the longest contents.              *)
LEMMA FilesAreShort ==
  ASSUME NEW f \in Files
  PROVE  f \in Seq(Blocks) /\ Len(f) \in 0..MaxSize /\ \A k \in 1..Len(f) : f[k] \in Blocks
<1>1. f \in Seq(Blocks) /\ Len(f) <= MaxSize
  BY DEF Files
<1>2. Len(f) \in Nat /\ \A k \in 1..Len(f) : f[k] \in Blocks
  BY <1>1, ElementOfSeq
<1>3. \A n \in Nat : n <= MaxSize => n \in 0..MaxSize
  OBVIOUS
<1>4. QED
  BY <1>1, <1>2, <1>3

(* Every block of a file that is written carries its tag, and that and the *)
(* length make it the file.                                                *)
LEMMA BytesFacts ==
  ASSUME NEW t \in Tags
  PROVE  /\ Bytes(t) \in Files /\ Len(Bytes(t)) \in 1..MaxSize /\ Bytes(t) # <<>>
         /\ Bytes(t)[1] = t
         /\ \A k \in 1..Len(Bytes(t)) : Bytes(t)[k] = t
         /\ \A f \in Files :
              Len(f) = Len(Bytes(t)) /\ (\A k \in 1..Len(f) : f[k] = t) => f = Bytes(t)
<1> DEFINE m == Size[t]
           b == [k \in 1..m |-> t]
<1>1. m \in 1..MaxSize /\ m \in Nat /\ m >= 1
  BY InplaceWriterAssumption
<1> HIDE DEF m
<1>2. b \in Seq(Blocks) /\ Len(b) = m /\ \A k \in 1..m : b[k] = t
  BY <1>1 DEF Blocks
<1>3. Bytes(t) = b
  BY DEF Bytes, m
<1> HIDE DEF b
<1>4. \A f \in Seq(Blocks) : Len(f) = m /\ (\A k \in 1..m : f[k] = t) => f = b
  BY <1>2
<1>5. m <= MaxSize /\ 1 \in 1..m
  BY <1>1, InplaceWriterAssumption
<1>6. b # <<>> /\ b[1] = t
  BY <1>1, <1>2, <1>5
<1>7. QED
  BY <1>1, <1>2, <1>3, <1>4, <1>5, <1>6 DEF Files

(* One block is written, the others are kept, and the file has contents.   *)
LEMMA OverwriteFacts ==
  ASSUME NEW f \in Files, NEW i \in 1..MaxSize, NEW t \in Tags
  PROVE  LET g == Overwrite(f, i, t)
         IN  /\ g \in Files /\ g # <<>> /\ Len(g) >= i /\ Len(g) >= Len(f)
             /\ g[i] = t
             /\ \A k \in 1..Len(f) : k # i => g[k] = f[k]
<1> DEFINE m == IF i > Len(f) THEN i ELSE Len(f)
           g == [k \in 1..m |-> IF k = i THEN t ELSE IF k <= Len(f) THEN f[k] ELSE Hole]
<1>1. Len(f) \in 0..MaxSize /\ \A k \in 1..Len(f) : f[k] \in Blocks
  BY FilesAreShort
<1>2. m \in 1..MaxSize /\ m >= i /\ m >= Len(f)
  BY <1>1
<1> HIDE DEF m
<1>3. \A k \in 1..m : g[k] \in Blocks
  BY <1>1, <1>2 DEF Blocks
<1>4. g \in Seq(Blocks) /\ Len(g) = m
  BY <1>2, <1>3
<1>5. g[i] = t /\ \A k \in 1..Len(f) : k # i => g[k] = f[k]
  BY <1>1, <1>2
<1>6. Overwrite(f, i, t) = g
  BY DEF Overwrite, m
<1> HIDE DEF g
<1>7. QED
  BY <1>1, <1>2, <1>4, <1>5, <1>6 DEF Files

(* A file gets the length, and keeps the blocks below it.                  *)
LEMMA ResizeFacts ==
  ASSUME NEW f \in Files, NEW m \in 1..MaxSize
  PROVE  LET g == Resize(f, m)
         IN  /\ g \in Files /\ g # <<>> /\ Len(g) = m
             /\ \A k \in 1..m : k <= Len(f) => g[k] = f[k]
<1> DEFINE g == [k \in 1..m |-> IF k <= Len(f) THEN f[k] ELSE Hole]
<1>1. Len(f) \in 0..MaxSize /\ \A k \in 1..Len(f) : f[k] \in Blocks
  BY FilesAreShort
<1>2. \A k \in 1..m : g[k] \in Blocks
  BY <1>1 DEF Blocks
<1>3. g \in Seq(Blocks) /\ Len(g) = m
  BY <1>2
<1>4. \A k \in 1..m : k <= Len(f) => g[k] = f[k]
  OBVIOUS
<1>5. Resize(f, m) = g
  BY DEF Resize
<1> HIDE DEF g
<1>6. QED
  BY <1>3, <1>4, <1>5 DEF Files

-----------------------------------------------------------------------------
(* The invariant.                                                          *)

(* No file of a payload is ever missing.                                   *)
FilesThere == \A n \in Renewed : disk[n] # Absent

(* What the two writers work on: a renewal writes its own generation and   *)
(* some bundle, an update some bundle.                                     *)
Work ==
  /\ \A w \in Writers :
       /\ pc[w] = "idle" => todo[w] = <<>>
       /\ pc[w] \in {"write", "truncate"} => todo[w] # <<>>
  /\ pc["renewal"] # "idle" =>
       /\ DOMAIN load["renewal"] = Renewed
       /\ load["renewal"]["ca"] \in Bundles
       /\ \A n \in Pair : load["renewal"][n] = gen
       /\ todo["renewal"] \in Suffixes
       /\ pc["renewal"] = "prune" =>
            todo["renewal"] = <<"ca", "key", "keystore", "cert">>
  /\ pc["camanager"] # "idle" =>
       /\ pc["camanager"] # "prune"
       /\ DOMAIN load["camanager"] = {"ca"} /\ load["camanager"]["ca"] \in Bundles
       /\ todo["camanager"] \in {<<"ca">>, <<>>}

(* The tag that a writer is writing.                                       *)
Tag(w) == load[w][Head(todo[w])]

(* A write does not go past the end of the data.                           *)
InData == \A w \in Writers : pc[w] = "write" => pos[w] <= Len(Data(w))

(* The renewal has pruned, and what it is through with is written.         *)
Through ==
  pc["renewal"] \in {"next", "write", "truncate"} =>
    /\ disk["old"] = Absent
    /\ \A n \in Pair \ Left(todo["renewal"]) : disk[n] = Bytes(gen)

(* What the renewal has written of the file at hand, which is nobody       *)
(* else's unless it is the CA file.                                        *)
AtHand ==
  /\ pc["renewal"] = "write" /\ Head(todo["renewal"]) \in Pair =>
       LET f == disk[Head(todo["renewal"])]
       IN  /\ Len(f) >= pos["renewal"] - 1
           /\ \A k \in 1..(pos["renewal"] - 1) : f[k] = gen
  /\ pc["renewal"] = "truncate" /\ Head(todo["renewal"]) \in Pair =>
       LET f == disk[Head(todo["renewal"])]
       IN  /\ Len(f) >= Len(Bytes(gen))
           /\ \A k \in 1..Len(Bytes(gen)) : f[k] = gen

(* A stored renewal is the latest one, and none is under way.              *)
Stored ==
  stored > 1 => pc["renewal"] = "idle" /\ StoredPairIsOnDisk

(* The variables without the files.                                        *)
Types ==
  /\ disk \in [Names -> Files \cup {Absent}]
  /\ bundle \in Bundles /\ gen \in Gens /\ stored \in Gens /\ loaded \in Gens
  /\ pc \in [Writers -> {"idle", "prune", "next", "write", "truncate"}]
  /\ todo \in [Writers -> Seq(Names)] /\ DOMAIN load = Writers
  /\ pos \in [Writers -> 1..MaxSize]
  /\ event \in BOOLEAN
  /\ reader \in {"wait", "cert", "key"}

Inv ==
  /\ Types /\ FilesThere /\ Work /\ InData /\ Through /\ AtHand /\ Stored

(* The two action properties, as relations between states.                 *)
CertificateCompletes ==
  \A g \in Gens :
    disk[Cert] # Bytes(g) /\ disk'[Cert] = Bytes(g)
      => disk'["key"] = Bytes(g) /\ disk'["keystore"] = Bytes(g)

KeepsContents ==
  \A n \in Names \ {"old"} :
    disk[n] \notin {Absent, <<>>} => disk'[n] \notin {Absent, <<>>}

Good == Inv' /\ CertificateCompletes /\ KeepsContents

(* A volume that has been issued and mounted.                              *)
LEMMA InitInv == Init => Inv
<1> SUFFICES ASSUME Init
             PROVE  Inv
  OBVIOUS
<1> USE InplaceWriterAssumption
<1>1. 1 \in Tags /\ bundle \in Tags /\ 1 \in Gens
  BY DEF Init, Tags, Gens
<1>2. /\ Bytes(1) \in Files /\ Bytes(1) # Absent
      /\ Bytes(bundle) \in Files /\ Bytes(bundle) # Absent
  BY <1>1, BytesFacts, FilesExist
<1>3. /\ disk \in [Names -> Files \cup {Absent}]
      /\ \A n \in Renewed : disk[n] # Absent
  BY <1>2 DEF Init, Names, Renewed
<1>4. \A w \in Writers : pc[w] = "idle" /\ todo[w] = <<>> /\ pos[w] = 1
  BY DEF Init
<1>5. Types
  <2>1. <<>> \in Seq(Names)
    OBVIOUS
  <2>2. todo \in [Writers -> Seq(Names)]
    BY <2>1 DEF Init
  <2>3. gen \in Gens /\ stored \in Gens /\ loaded \in Gens
    BY <1>1 DEF Init
  <2>4. DOMAIN load = Writers /\ pos \in [Writers -> 1..MaxSize]
    <3>1. Size[1] \in 1..MaxSize
      BY <1>1
    <3>2. 1 \in 1..MaxSize
      BY <3>1
    <3>3. QED
      BY <3>2 DEF Init
  <2>5. pc \in [Writers -> {"idle", "prune", "next", "write", "truncate"}]
    BY DEF Init
  <2>6. bundle \in Bundles /\ event \in BOOLEAN /\ reader \in {"wait", "cert", "key"}
    BY DEF Init
  <2>7. QED
    BY <1>3, <2>2, <2>3, <2>4, <2>5, <2>6 DEF Types
<1>6. ~(stored > 1)
  BY DEF Init
<1>7. QED
  BY <1>3, <1>4, <1>5, <1>6
  DEF Inv, FilesThere, Work, InData, Through, AtHand, Stored, Writers

(* What a writer that goes through its files has at hand.                  *)
LEMMA AtWork ==
  ASSUME Inv, NEW w \in Writers, pc[w] \in {"next", "write", "truncate"},
         todo[w] # <<>>
  PROVE  LET n == Head(todo[w])
         IN  /\ n \in Renewed /\ n \in Names /\ n \in DOMAIN load[w]
             /\ load[w][n] \in Tags /\ Data(w) = Bytes(load[w][n])
             /\ Len(Data(w)) \in 1..MaxSize
             /\ disk[n] \in Files /\ disk[n] # Absent
             /\ n \in Pair => w = "renewal" /\ load[w][n] = gen
             /\ w = "camanager" => n = "ca" /\ todo[w] = <<"ca">> /\ Tail(todo[w]) = <<>>
             /\ w = "renewal" => todo[w] \in Suffixes
<1> DEFINE n == Head(todo[w])
<1>1. CASE w = "renewal"
  <2>1. /\ todo[w] \in Suffixes /\ DOMAIN load[w] = Renewed
        /\ load[w]["ca"] \in Bundles /\ \A k \in Pair : load[w][k] = gen
    BY <1>1 DEF Inv, Work
  <2>2. n \in Renewed
    BY <2>1, SuffixFacts
  <2>3. load[w][n] \in Tags
    BY <2>1, <2>2 DEF Renewed, Pair, Tags, Inv, Types
  <2>4. QED
    BY <1>1, <2>1, <2>2, <2>3, BytesFacts
    DEF Inv, Types, FilesThere, Renewed, Names, Data
<1>2. CASE w = "camanager"
  <2>1. /\ todo[w] = <<"ca">> /\ DOMAIN load[w] = {"ca"}
        /\ load[w]["ca"] \in Bundles
    BY <1>2 DEF Inv, Work
  <2>2. n = "ca" /\ Tail(todo[w]) = <<>>
    BY <2>1
  <2>3. load[w][n] \in Tags
    BY <2>1, <2>2 DEF Tags
  <2>4. QED
    BY <1>2, <2>1, <2>2, <2>3, BytesFacts
    DEF Inv, Types, FilesThere, Renewed, Names, Data, Pair
<1>3. QED
  BY <1>1, <1>2 DEF Writers

(* Steps that leave the files alone and stop no writer but one.            *)
LEMMA BeginRenewalGood == Inv /\ BeginRenewal => Good
<1> SUFFICES ASSUME Inv, BeginRenewal
             PROVE  Good
  OBVIOUS
<1> USE InplaceWriterAssumption DEF Inv
<1>1. /\ pc["renewal"] = "idle" /\ gen < MaxGen /\ gen' = gen + 1 /\ stored' = 0
      /\ load' = [load EXCEPT !["renewal"] = Payload(gen + 1, bundle)]
      /\ todo' = [todo EXCEPT !["renewal"] = orderedWriteNames(DOMAIN Payload(gen + 1, bundle))]
      /\ pc' = [pc EXCEPT !["renewal"] = "prune"]
      /\ UNCHANGED <<disk, bundle, pos, event, reader, seen, loaded>>
  BY DEF BeginRenewal, Begin, Goto, consumer
<1>2. /\ DOMAIN Payload(gen + 1, bundle) = Renewed
      /\ Payload(gen + 1, bundle)["ca"] = bundle
      /\ \A n \in Pair : Payload(gen + 1, bundle)[n] = gen + 1
  BY DEF Payload, Renewed, Pair
<1>3. todo'["renewal"] = <<"ca", "key", "keystore", "cert">>
  BY <1>1, <1>2, RenewalOrder DEF Types, Writers
<1>4. todo'["renewal"] \in Suffixes /\ todo'["renewal"] \in Seq(Names)
  BY <1>3, SuffixFacts DEF Suffixes
<1>5. /\ pc'["renewal"] = "prune" /\ load'["renewal"] = Payload(gen + 1, bundle)
      /\ pc'["camanager"] = pc["camanager"] /\ todo'["camanager"] = todo["camanager"]
      /\ load'["camanager"] = load["camanager"]
  BY <1>1 DEF Types, Writers
<1>6. Types'
  <2>1. gen' \in Gens /\ stored' \in Gens
    BY <1>1 DEF Types, Gens
  <2>2. todo' \in [Writers -> Seq(Names)]
    BY <1>1, <1>4 DEF Types, Writers
  <2>3. pc' \in [Writers -> {"idle", "prune", "next", "write", "truncate"}]
    BY <1>1 DEF Types
  <2>4. QED
    BY <1>1, <2>1, <2>2, <2>3 DEF Types
<1>7. Work'
  BY <1>1, <1>2, <1>3, <1>4, <1>5 DEF Work, Writers, Types
<1>8. InData'
  BY <1>1, <1>5 DEF InData, Data, Writers
<1>9. FilesThere' /\ Through' /\ AtHand' /\ Stored'
  BY <1>1, <1>5 DEF FilesThere, Through, AtHand, Stored
<1>10. QED
  BY <1>1, <1>6, <1>7, <1>8, <1>9 DEF Good, CertificateCompletes, KeepsContents

(* An update begins.                                                       *)
LEMMA BeginUpdateGood == Inv /\ BeginUpdate => Good
<1> SUFFICES ASSUME Inv, BeginUpdate
             PROVE  Good
  OBVIOUS
<1> USE DEF Inv
<1> DEFINE payload == [n \in {"ca"} |-> bundle]
<1>1. /\ pc["camanager"] = "idle"
      /\ load' = [load EXCEPT !["camanager"] = payload]
      /\ todo' = [todo EXCEPT !["camanager"] = orderedWriteNames(DOMAIN payload)]
      /\ pc' = [pc EXCEPT !["camanager"] = "next"]
      /\ UNCHANGED <<disk, bundle, gen, stored, pos, event, reader, seen, loaded>>
  BY DEF BeginUpdate, Begin, Goto, consumer
<1>2. DOMAIN payload = {"ca"} /\ payload["ca"] = bundle
  OBVIOUS
<1> HIDE DEF payload
<1>3. todo'["camanager"] = <<"ca">> /\ <<"ca">> \in Seq(Names)
  BY <1>1, <1>2, UpdateOrder DEF Types, Writers, Names
<1>4. /\ pc'["camanager"] = "next" /\ load'["camanager"] = payload
      /\ pc'["renewal"] = pc["renewal"] /\ todo'["renewal"] = todo["renewal"]
      /\ load'["renewal"] = load["renewal"]
  BY <1>1 DEF Types, Writers
<1>5. Types'
  <2>1. todo' \in [Writers -> Seq(Names)]
    BY <1>1, <1>3 DEF Types, Writers
  <2>2. pc' \in [Writers -> {"idle", "prune", "next", "write", "truncate"}]
    BY <1>1 DEF Types
  <2>3. QED
    BY <1>1, <2>1, <2>2 DEF Types
<1>6. Work'
  BY <1>1, <1>2, <1>3, <1>4 DEF Work, Writers, Types
<1>7. InData'
  BY <1>1, <1>4 DEF InData, Data, Writers
<1>8. FilesThere' /\ Through' /\ AtHand' /\ Stored'
  BY <1>1, <1>4 DEF FilesThere, Through, AtHand, Stored, StoredPairIsOnDisk, PairIs
<1>9. QED
  BY <1>1, <1>5, <1>6, <1>7, <1>8 DEF Good, CertificateCompletes, KeepsContents
(* Pruning removes the one file that no payload lists.                     *)
LEMMA PruneGood == Inv /\ Prune => Good
<1> SUFFICES ASSUME Inv, Prune
             PROVE  Good
  OBVIOUS
<1> USE InplaceWriterAssumption DEF Inv
<1>1. /\ pc["renewal"] = "prune" /\ pc' = [pc EXCEPT !["renewal"] = "next"]
      /\ UNCHANGED <<bundle, gen, stored, todo, load, pos, event, reader, seen, loaded>>
  BY DEF Prune, Goto, consumer
<1>2. /\ DOMAIN load["renewal"] = Renewed /\ todo["renewal"] \in Suffixes
      /\ todo["renewal"] = <<"ca", "key", "keystore", "cert">>
  BY <1>1 DEF Work
<1>3. disk' = [n \in Names |-> IF n \in Renewed THEN disk[n] ELSE Absent]
  BY <1>2 DEF Prune
<1>4. /\ disk' \in [Names -> Files \cup {Absent}] /\ disk'["old"] = Absent
      /\ \A n \in Renewed : disk'[n] = disk[n]
  BY <1>3 DEF Names, Renewed, Types
<1>5. pc'["renewal"] = "next" /\ pc'["camanager"] = pc["camanager"]
  BY <1>1 DEF Types, Writers
<1>6. Pair \subseteq Left(todo["renewal"])
  BY <1>2 DEF Left, Pair
<1>7. Types'
  <2>1. pc' \in [Writers -> {"idle", "prune", "next", "write", "truncate"}]
    BY <1>1 DEF Types
  <2>2. QED
    BY <1>1, <1>4, <2>1 DEF Types
<1>8. FilesThere' /\ InData' /\ Through' /\ AtHand' /\ Stored'
  BY <1>1, <1>4, <1>5, <1>6
  DEF FilesThere, InData, Data, Writers, Through, AtHand, Stored
<1>9. Work'
  BY <1>1, <1>5 DEF Work, Writers
<1>10. CertificateCompletes /\ KeepsContents
  BY <1>4 DEF CertificateCompletes, KeepsContents, Cert, Renewed, Names
<1>11. QED
  BY <1>7, <1>8, <1>9, <1>10 DEF Good

(* A file that is written already is passed over.                          *)
LEMMA SkipGood == ASSUME NEW w \in Writers, Inv, Skip(w) PROVE Good
<1> USE InplaceWriterAssumption DEF Inv
<1> DEFINE n == Head(todo[w])
<1>1. /\ pc[w] = "next" /\ todo[w] # <<>> /\ disk[n] = Data(w)
      /\ todo' = [todo EXCEPT ![w] = Tail(@)]
      /\ UNCHANGED <<disk, bundle, gen, stored, pc, load, pos, event, reader, seen, loaded>>
  BY DEF Skip, consumer
<1>2. /\ Data(w) = Bytes(load[w][n]) /\ n \in Renewed
      /\ n \in Pair => w = "renewal" /\ load[w][n] = gen
      /\ w = "camanager" => Tail(todo[w]) = <<>>
      /\ w = "renewal" => todo[w] \in Suffixes
  BY <1>1, AtWork
<1>3. /\ Tail(todo[w]) \in Seq(Names)
      /\ w = "renewal" => /\ Tail(todo[w]) \in Suffixes
                          /\ Left(todo[w]) = Left(Tail(todo[w])) \cup {n}
  BY <1>1, <1>2, SuffixFacts DEF Types, Writers
<1>4. /\ todo'[w] = Tail(todo[w])
      /\ \A o \in Writers \ {w} : todo'[o] = todo[o]
  BY <1>1 DEF Types
<1> HIDE DEF n
<1>5. Types'
  <2>1. todo' \in [Writers -> Seq(Names)]
    BY <1>1, <1>3 DEF Types
  <2>2. QED
    BY <1>1, <2>1 DEF Types
<1>6. Work'
  BY <1>1, <1>2, <1>3, <1>4 DEF Work, Writers
<1>7. Through'
  BY <1>1, <1>2, <1>3, <1>4 DEF Through, Writers
<1>8. FilesThere' /\ InData' /\ AtHand' /\ Stored'
  BY <1>1, <1>4
  DEF FilesThere, InData, Data, AtHand, Stored, StoredPairIsOnDisk, PairIs, Writers
<1>9. QED
  BY <1>1, <1>5, <1>6, <1>7, <1>8 DEF Good, CertificateCompletes, KeepsContents

(* A file is opened, and written from its start.                           *)
LEMMA OpenGood == ASSUME NEW w \in Writers, Inv, Open(w) PROVE Good
<1> USE InplaceWriterAssumption DEF Inv
<1> DEFINE n == Head(todo[w])
<1>1. /\ pc[w] = "next" /\ todo[w] # <<>>
      /\ disk' = [disk EXCEPT ![n] = IF @ = Absent THEN <<>> ELSE @]
      /\ pos' = [pos EXCEPT ![w] = 1] /\ pc' = [pc EXCEPT ![w] = "write"]
      /\ UNCHANGED <<bundle, gen, stored, todo, load, event, reader, seen, loaded>>
  BY DEF Open, Goto, consumer
<1>2. /\ n \in Names /\ disk[n] \in Files /\ disk[n] # Absent
      /\ Len(Data(w)) \in 1..MaxSize
  BY <1>1, AtWork
<1>3. disk' = disk
  BY <1>1, <1>2 DEF Types
<1>4. /\ pos'[w] = 1 /\ pc'[w] = "write"
      /\ \A o \in Writers \ {w} : pos'[o] = pos[o] /\ pc'[o] = pc[o]
  BY <1>1 DEF Types
<1>5. Len(disk[n]) \in 0..MaxSize
  BY <1>2, FilesAreShort
<1>6. Types'
  <2>1. /\ pos' \in [Writers -> 1..MaxSize]
        /\ pc' \in [Writers -> {"idle", "prune", "next", "write", "truncate"}]
    BY <1>1 DEF Types
  <2>2. QED
    BY <1>1, <1>3, <2>1 DEF Types
<1>7. Work' /\ Through' /\ Stored'
  BY <1>1, <1>3, <1>4
  DEF Work, Through, Stored, StoredPairIsOnDisk, PairIs, Writers
<1>8. InData'
  <2> SUFFICES ASSUME NEW o \in Writers, pc'[o] = "write"
               PROVE  pos'[o] <= Len(Data(o))
    BY <1>1 DEF InData, Data
  <2>1. CASE o = w
    <3>1. \A l \in 1..MaxSize : 1 <= l
      OBVIOUS
    <3>2. QED
      BY <1>2, <1>4, <2>1, <3>1
  <2>2. CASE o # w
    BY <1>4, <2>2 DEF InData
  <2>3. QED
    BY <2>1, <2>2
<1>9. AtHand'
  BY <1>1, <1>3, <1>4, <1>5 DEF AtHand, Writers
<1>10. QED
  BY <1>3, <1>6, <1>7, <1>8, <1>9, <1>1
  DEF Good, CertificateCompletes, KeepsContents, FilesThere

(* A block is written.                                                     *)
LEMMA WriteAtGood == ASSUME NEW w \in Writers, Inv, WriteAt(w) PROVE Good
<1> USE InplaceWriterAssumption DEF Inv
<1> DEFINE n == Head(todo[w])
           tag == load[w][n]
           g == Overwrite(disk[n], pos[w], tag)
           last == pos[w] = Len(Data(w))
<1>1. /\ pc[w] = "write" /\ todo[w] # <<>>
      /\ disk' = [disk EXCEPT ![n] = g]
      /\ event' \in BOOLEAN
      /\ UNCHANGED <<bundle, gen, stored, todo, load, reader, seen, loaded>>
  BY DEF WriteAt, consumer, Work, Types
<1>2. /\ last => pc' = [pc EXCEPT ![w] = "truncate"] /\ pos' = pos
      /\ ~last => pos' = [pos EXCEPT ![w] = @ + 1] /\ pc' = pc
  BY DEF WriteAt, Goto
<1>3. /\ n \in Renewed /\ n \in Names /\ tag \in Tags /\ Data(w) = Bytes(tag)
      /\ Len(Data(w)) \in 1..MaxSize /\ disk[n] \in Files
      /\ n \in Pair => w = "renewal" /\ tag = gen
      /\ w = "renewal" => todo[w] \in Suffixes
  BY <1>1, AtWork
<1>4. pos[w] \in 1..MaxSize /\ pos[w] <= Len(Data(w)) /\ Len(disk[n]) \in 0..MaxSize
  BY <1>1, <1>3, FilesAreShort DEF Types, InData
<1>5. /\ g \in Files /\ g # <<>> /\ g # Absent /\ Len(g) \in 0..MaxSize
      /\ Len(g) >= pos[w] /\ Len(g) >= Len(disk[n]) /\ g[pos[w]] = tag
      /\ \A k \in 1..Len(disk[n]) : k # pos[w] => g[k] = disk[n][k]
  <2> HIDE DEF n, tag
  <2> DEFINE f == disk[n]
             i == pos[w]
  <2>1. f \in Files /\ i \in 1..MaxSize /\ tag \in Tags
    BY <1>3, <1>4
  <2> HIDE DEF f, i
  <2>2. LET h == Overwrite(f, i, tag)
        IN  /\ h \in Files /\ h # <<>> /\ Len(h) >= i /\ Len(h) >= Len(f)
            /\ h[i] = tag
            /\ \A k \in 1..Len(f) : k # i => h[k] = f[k]
    BY <2>1, OverwriteFacts
  <2>3. /\ g \in Files /\ g # <<>>
        /\ Len(g) >= pos[w] /\ Len(g) >= Len(disk[n]) /\ g[pos[w]] = tag
        /\ \A k \in 1..Len(disk[n]) : k # pos[w] => g[k] = disk[n][k]
    BY <2>2 DEF f, i
  <2>4. g # Absent /\ Len(g) \in 0..MaxSize
    BY <2>3, FilesExist, FilesAreShort
  <2>5. QED
    BY <2>3, <2>4
<1> HIDE DEF g
<1>6. /\ disk'[n] = g
      /\ \A k \in Names \ {n} : disk'[k] = disk[k]
  BY <1>1, <1>3 DEF Types
<1>7. /\ \A o \in Writers \ {w} : pos'[o] = pos[o] /\ pc'[o] = pc[o]
      /\ last => pc'[w] = "truncate" /\ pos'[w] = pos[w]
      /\ ~last => pc'[w] = "write" /\ pos'[w] = pos[w] + 1 /\ pos[w] + 1 <= Len(Data(w))
  BY <1>1, <1>2, <1>3, <1>4 DEF Types
<1> HIDE DEF n, tag, last
<1>8. n \in Pair => \A k \in 1..pos[w] : g[k] = gen
  <2>1. CASE n \in Pair
    <3>1. w = "renewal" /\ tag = gen
      BY <2>1, <1>3
    <3>2. /\ Len(disk[n]) >= pos[w] - 1
          /\ \A k \in 1..(pos[w] - 1) : disk[n][k] = gen
      BY <2>1, <3>1, <1>1 DEF AtHand, n
    <3>3. ASSUME NEW k \in 1..pos[w], k # pos[w]
          PROVE  g[k] = gen
      <4>1. k \in 1..(pos[w] - 1) /\ k \in 1..Len(disk[n])
        BY <1>4, <3>2, <3>3
      <4>2. QED
        BY <1>5, <3>2, <3>3, <4>1
    <3>4. QED
      BY <1>5, <3>1, <3>3
  <2>2. QED
    BY <2>1
<1>9. Types'
  <2>1. disk' \in [Names -> Files \cup {Absent}]
    BY <1>1, <1>3, <1>5 DEF Types
  <2>2. /\ pos' \in [Writers -> 1..MaxSize]
        /\ pc' \in [Writers -> {"idle", "prune", "next", "write", "truncate"}]
    <3>1. CASE last
      BY <3>1, <1>2 DEF Types
    <3>2. CASE ~last
      <4>1. pos[w] + 1 \in 1..MaxSize
        <5>1. \A i \in 1..MaxSize, l \in 1..MaxSize : i + 1 <= l => i + 1 \in 1..MaxSize
          OBVIOUS
        <5>2. QED
          BY <3>2, <1>3, <1>4, <1>7, <5>1
      <4>2. QED
        BY <3>2, <4>1, <1>2 DEF Types
    <3>3. QED
      BY <3>1, <3>2
  <2>3. QED
    BY <1>1, <2>1, <2>2 DEF Types
<1>10. FilesThere' /\ KeepsContents
  BY <1>5, <1>6 DEF FilesThere, KeepsContents, Renewed, Names
<1>11. Work'
  BY <1>1, <1>7 DEF Work, Writers
<1>12. InData'
  BY <1>1, <1>7 DEF InData, Data
<1>13. w = "renewal" => n \in Left(todo["renewal"])
  BY <1>1, <1>3, SuffixFacts DEF n
<1>14. Through'
  BY <1>1, <1>3, <1>6, <1>7, <1>13 DEF Through, Writers, Pair, Renewed, Names
<1>15. Stored'
  BY <1>1, <1>3, <1>6, <1>7
  DEF Stored, StoredPairIsOnDisk, PairIs, Writers, Pair, Renewed, Names, Cert
<1>16. AtHand'
  <2>1. CASE n \in Pair
    <3>1. w = "renewal" /\ tag = gen /\ Data(w) = Bytes(gen)
      BY <2>1, <1>3
    <3>2. Head(todo'["renewal"]) = n /\ disk'[n] = g
      BY <1>1, <1>6, <3>1 DEF n
    <3>3. CASE last
      BY <1>5, <1>7, <1>8, <2>1, <3>1, <3>2, <3>3, <1>1 DEF AtHand, last
    <3>4. CASE ~last
      <4>1. pos'["renewal"] - 1 = pos[w]
        BY <1>4, <1>7, <3>1, <3>4
      <4>2. QED
        BY <1>5, <1>7, <1>8, <2>1, <3>1, <3>2, <3>4, <4>1, <1>1 DEF AtHand
    <3>5. QED
      BY <3>3, <3>4
  <2>2. CASE n \notin Pair /\ w = "renewal"
    BY <2>2, <1>1 DEF AtHand, n
  <2>3. CASE n \notin Pair /\ w = "camanager"
    BY <2>3, <1>1, <1>6, <1>7 DEF AtHand, Writers, Pair, Names
  <2>4. QED
    BY <2>1, <2>2, <2>3 DEF Writers
<1>17. CertificateCompletes
  <2> SUFFICES ASSUME NEW h \in Gens, disk[Cert] # Bytes(h), disk'[Cert] = Bytes(h)
               PROVE  disk'["key"] = Bytes(h) /\ disk'["keystore"] = Bytes(h)
    BY DEF CertificateCompletes
  <2>1. n = "cert" /\ w = "renewal"
    BY <1>3, <1>6 DEF Cert, Names, Pair
  <2>2. g[1] = gen
    BY <1>4, <1>8, <2>1 DEF Pair
  <2>3. h = gen
    BY <1>6, <2>1, <2>2, BytesFacts DEF Cert, Tags
  <2>4. Left(todo["renewal"]) = {"cert"}
    BY <1>1, <1>3, <2>1, SuffixFacts DEF n
  <2>5. disk["key"] = Bytes(gen) /\ disk["keystore"] = Bytes(gen)
    BY <1>1, <2>1, <2>4 DEF Through, Pair
  <2>6. QED
    BY <1>6, <2>1, <2>3, <2>5 DEF Names
<1>18. QED
  BY <1>9, <1>10, <1>11, <1>12, <1>14, <1>15, <1>16, <1>17 DEF Good
(* A file gets its length, and the writer goes on.                         *)
LEMMA TruncateGood == ASSUME NEW w \in Writers, Inv, Truncate(w) PROVE Good
<1> USE InplaceWriterAssumption DEF Inv
<1> DEFINE n == Head(todo[w])
           tag == load[w][n]
           len == Len(Data(w))
           g == Resize(disk[n], len)
<1>1. /\ pc[w] = "truncate" /\ todo[w] # <<>>
      /\ disk' = [disk EXCEPT ![n] = g]
      /\ event' \in BOOLEAN
      /\ todo' = [todo EXCEPT ![w] = Tail(@)]
      /\ pc' = [pc EXCEPT ![w] = "next"]
      /\ UNCHANGED <<bundle, gen, stored, load, pos, reader, seen, loaded>>
  <2>1. /\ pc[w] = "truncate"
        /\ disk' = [disk EXCEPT ![n] = g]
        /\ event' = (event \/ n = Cert)
        /\ todo' = [todo EXCEPT ![w] = Tail(@)]
        /\ pc' = [pc EXCEPT ![w] = "next"]
        /\ UNCHANGED <<bundle, gen, stored, load, pos, reader, seen, loaded>>
    BY DEF Truncate, Goto, consumer
  <2>2. todo[w] # <<>>
    BY <2>1 DEF Work
  <2>3. event' \in BOOLEAN
    BY <2>1 DEF Types
  <2>4. QED
    BY <2>1, <2>2, <2>3
<1>2. /\ n \in Renewed /\ n \in Names /\ tag \in Tags /\ Data(w) = Bytes(tag)
      /\ len \in 1..MaxSize /\ disk[n] \in Files
      /\ n \in Pair => w = "renewal" /\ tag = gen
      /\ w = "camanager" => Tail(todo[w]) = <<>>
      /\ w = "renewal" => todo[w] \in Suffixes
  BY <1>1, AtWork
<1>3. /\ Tail(todo[w]) \in Seq(Names)
      /\ w = "renewal" => /\ Tail(todo[w]) \in Suffixes
                          /\ Left(todo[w]) = Left(Tail(todo[w])) \cup {n}
                          /\ n = "cert" => Left(todo[w]) = {"cert"}
  BY <1>1, <1>2, SuffixFacts DEF Types
<1>4. /\ g \in Files /\ g # <<>> /\ g # Absent /\ Len(g) = len
      /\ \A k \in 1..len : k <= Len(disk[n]) => g[k] = disk[n][k]
  <2> HIDE DEF n, len
  <2> DEFINE f == disk[n]
  <2>1. f \in Files /\ len \in 1..MaxSize
    BY <1>2
  <2> HIDE DEF f
  <2>2. LET h == Resize(f, len)
        IN  /\ h \in Files /\ h # <<>> /\ Len(h) = len
            /\ \A k \in 1..len : k <= Len(f) => h[k] = f[k]
    BY <2>1, ResizeFacts
  <2>3. g \in Files /\ g # <<>> /\ Len(g) = len
        /\ \A k \in 1..len : k <= Len(disk[n]) => g[k] = disk[n][k]
    BY <2>2 DEF f
  <2>4. QED
    BY <2>3, FilesExist
<1> HIDE DEF g
<1>5. /\ disk'[n] = g
      /\ \A k \in Names \ {n} : disk'[k] = disk[k]
  BY <1>1, <1>2 DEF Types
<1>6. /\ pc'[w] = "next" /\ todo'[w] = Tail(todo[w])
      /\ \A o \in Writers \ {w} : pc'[o] = pc[o] /\ todo'[o] = todo[o]
  BY <1>1 DEF Types
<1> HIDE DEF n, tag
<1>7. n \in Pair => g = Bytes(gen) /\ gen \in Tags
  <2>1. CASE n \in Pair
    <3>1. w = "renewal" /\ tag = gen /\ len = Len(Bytes(gen)) /\ gen \in Tags
      BY <2>1, <1>2
    <3>2. /\ Len(disk[n]) >= len
          /\ \A k \in 1..len : disk[n][k] = gen
      BY <2>1, <3>1, <1>1 DEF AtHand, n
    <3> HIDE DEF len
    <3>3. Len(disk[n]) \in 0..MaxSize
      BY <1>2, FilesAreShort
    <3>4. \A k \in 1..len : k <= Len(disk[n])
      BY <1>2, <3>2, <3>3
    <3>5. \A k \in 1..Len(g) : g[k] = gen
      BY <1>4, <3>2, <3>4
    <3>6. QED
      BY <1>4, <3>1, <3>5, BytesFacts
  <2>2. QED
    BY <2>1
<1>8. Types'
  <2>1. disk' \in [Names -> Files \cup {Absent}]
    BY <1>1, <1>2, <1>4 DEF Types
  <2>2. /\ todo' \in [Writers -> Seq(Names)]
        /\ pc' \in [Writers -> {"idle", "prune", "next", "write", "truncate"}]
    BY <1>1, <1>3 DEF Types
  <2>3. QED
    BY <1>1, <2>1, <2>2 DEF Types
<1>9. FilesThere' /\ KeepsContents
  BY <1>4, <1>5 DEF FilesThere, KeepsContents, Renewed, Names
<1>10. Work'
  BY <1>1, <1>2, <1>3, <1>6 DEF Work, Writers
<1>11. InData'
  BY <1>1, <1>6 DEF InData, Data
<1>12. Through'
  <2>1. CASE w = "renewal"
    <3>1. disk'["old"] = Absent
      BY <1>1, <1>2, <1>5, <2>1 DEF Through, Renewed, Names
    <3>2. ASSUME NEW k \in Pair \ Left(Tail(todo["renewal"]))
          PROVE  disk'[k] = Bytes(gen)
      BY <1>1, <1>3, <1>5, <1>7, <2>1, <3>2 DEF Through, Pair, Names
    <3>3. QED
      BY <1>1, <1>6, <2>1, <3>1, <3>2 DEF Through
  <2>2. CASE w = "camanager"
    BY <1>1, <1>2, <1>5, <1>6, <2>2 DEF Through, Writers, Pair, Renewed, Names
  <2>3. QED
    BY <2>1, <2>2 DEF Writers
<1>13. AtHand'
  <2>1. CASE w = "renewal"
    BY <1>6, <2>1 DEF AtHand
  <2>2. CASE w = "camanager"
    BY <1>1, <1>2, <1>5, <1>6, <2>2 DEF AtHand, Writers, Pair, Names
  <2>3. QED
    BY <2>1, <2>2 DEF Writers
<1>14. Stored'
  BY <1>1, <1>2, <1>5, <1>6
  DEF Stored, StoredPairIsOnDisk, PairIs, Writers, Pair, Renewed, Names, Cert
<1>15. CertificateCompletes
  <2> SUFFICES ASSUME NEW h \in Gens, disk[Cert] # Bytes(h), disk'[Cert] = Bytes(h)
               PROVE  disk'["key"] = Bytes(h) /\ disk'["keystore"] = Bytes(h)
    BY DEF CertificateCompletes
  <2>1. n = "cert" /\ w = "renewal"
    BY <1>2, <1>5 DEF Cert, Names, Pair
  <2>2. g = Bytes(gen) /\ gen \in Tags
    BY <1>7, <2>1 DEF Pair
  <2>3. h = gen
    BY <1>5, <2>1, <2>2, BytesFacts DEF Cert, Tags
  <2>4. disk["key"] = Bytes(gen) /\ disk["keystore"] = Bytes(gen)
    BY <1>1, <1>3, <2>1 DEF Through, Pair
  <2>5. QED
    BY <1>5, <2>1, <2>3, <2>4 DEF Names
<1>16. QED
  BY <1>8, <1>9, <1>10, <1>11, <1>12, <1>13, <1>14, <1>15 DEF Good

(* A call returns: a renewal that has gone through its row is stored.      *)
LEMMA ReturnGood == ASSUME NEW w \in Writers, Inv, Return(w) PROVE Good
<1> USE InplaceWriterAssumption DEF Inv
<1>1. /\ pc[w] = "next" /\ todo[w] = <<>>
      /\ stored' = IF w = "renewal" THEN gen ELSE stored
      /\ pc' = [pc EXCEPT ![w] = "idle"]
      /\ UNCHANGED <<disk, bundle, gen, todo, load, pos, event, reader, seen, loaded>>
  BY DEF Return, Goto, consumer
<1>2. pc'[w] = "idle" /\ \A o \in Writers \ {w} : pc'[o] = pc[o]
  BY <1>1 DEF Types
<1>3. Types'
  <2>1. pc' \in [Writers -> {"idle", "prune", "next", "write", "truncate"}]
    BY <1>1 DEF Types
  <2>2. stored' \in Gens
    BY <1>1 DEF Types
  <2>3. QED
    BY <1>1, <2>1, <2>2 DEF Types
<1>4. Work' /\ InData' /\ FilesThere' /\ Through' /\ AtHand'
  BY <1>1, <1>2 DEF Work, InData, Data, FilesThere, Through, AtHand, Writers
<1>5. Stored'
  <2>1. CASE w = "renewal"
    <3>1. Left(todo["renewal"]) = {}
      BY <1>1, <2>1 DEF Left
    <3>2. disk["old"] = Absent /\ \A n \in Pair : disk[n] = Bytes(gen)
      BY <1>1, <2>1, <3>1 DEF Through
    <3>3. QED
      BY <1>1, <1>2, <2>1, <3>2 DEF Stored, StoredPairIsOnDisk, PairIs, Pair, Cert
  <2>2. CASE w = "camanager"
    BY <1>1, <1>2, <2>2 DEF Stored, StoredPairIsOnDisk, PairIs, Writers
  <2>3. QED
    BY <2>1, <2>2 DEF Writers
<1>6. QED
  BY <1>1, <1>3, <1>4, <1>5 DEF Good, CertificateCompletes, KeepsContents

(* A call fails, or all do.                                                *)
LEMMA StopGood ==
  ASSUME Inv, Crash \/ \E w \in Writers : Fail(w) PROVE Good
<1> USE InplaceWriterAssumption DEF Inv
<1>1. UNCHANGED <<disk, bundle, gen, stored, load, pos, event, reader, seen, loaded>>
  BY DEF Crash, Fail, consumer
<1>2. /\ pc' \in [Writers -> {"idle", "prune", "next", "write", "truncate"}]
      /\ todo' \in [Writers -> Seq(Names)]
      /\ \A o \in Writers : \/ pc'[o] = "idle" /\ todo'[o] = <<>>
                            \/ pc'[o] = pc[o] /\ todo'[o] = todo[o]
  <2>1. <<>> \in Seq(Names)
    OBVIOUS
  <2>2. CASE Crash
    BY <2>1, <2>2 DEF Crash, Types
  <2>3. ASSUME NEW w \in Writers, Fail(w)
        PROVE  /\ pc' \in [Writers -> {"idle", "prune", "next", "write", "truncate"}]
               /\ todo' \in [Writers -> Seq(Names)]
               /\ \A o \in Writers : \/ pc'[o] = "idle" /\ todo'[o] = <<>>
                                     \/ pc'[o] = pc[o] /\ todo'[o] = todo[o]
    BY <2>1, <2>3 DEF Fail, Goto, Types
  <2>4. QED
    BY <2>2, <2>3
<1>3. QED
  BY <1>1, <1>2
  DEF Good, Types, Work, InData, Data, FilesThere, Through, AtHand, Stored,
      StoredPairIsOnDisk, PairIs, Writers, CertificateCompletes, KeepsContents

(* What happens outside the writers.                                       *)
LEMMA OutsideGood ==
  ASSUME Inv, Consume \/ (\E b \in Bundles : ChangeBundle(b)) \/ UNCHANGED vars
  PROVE  Good
<1> USE InplaceWriterAssumption DEF Inv
<1>1. UNCHANGED <<disk, gen, stored, pc, todo, load, pos>>
  BY DEF Consume, Notice, ReadCert, ReadKey, ChangeBundle, vars, writer
<1>2. bundle' \in Bundles /\ event' \in BOOLEAN /\ reader' \in {"wait", "cert", "key"}
  BY DEF Consume, Notice, ReadCert, ReadKey, ChangeBundle, vars, consumer, Types
<1>3. loaded' \in Gens
  BY DEF Consume, Notice, ReadCert, ReadKey, ChangeBundle, vars, consumer, Types
<1>4. QED
  BY <1>1, <1>2, <1>3
  DEF Good, Types, Work, InData, Data, FilesThere, Through, AtHand, Stored,
      StoredPairIsOnDisk, PairIs, CertificateCompletes, KeepsContents

-----------------------------------------------------------------------------
(* The invariant is inductive, and every step is good.                     *)
LEMMA StepGood == Inv /\ [Next]_vars => Good
  BY BeginRenewalGood, BeginUpdateGood, PruneGood, SkipGood, OpenGood, WriteAtGood,
     TruncateGood, ReturnGood, StopGood, OutsideGood
  DEF Next, Write

LEMMA InvHolds == Spec => []Inv
<1>1. Inv /\ [Next]_vars => Inv'
  BY StepGood DEF Good
<1>2. QED
  BY InitInv, <1>1, PTL DEF Spec

(* Every variable keeps its type; in particular no file ever gets longer   *)
(* than its longest contents, though two writers write to the CA file at a *)
(* time (TypeOK, storage_inplace.go:702-721).                              *)
THEOREM TypeCorrect == Spec => []TypeOK
<1>1. Inv => TypeOK
  <2> SUFFICES ASSUME Inv
               PROVE  TypeOK
    OBVIOUS
  <2>1. ASSUME NEW w \in Writers
        PROVE  /\ \A i \in 1..Len(todo[w]) : todo[w][i] \in DOMAIN load[w]
               /\ pc[w] \in {"write", "truncate"} => todo[w] # <<>>
    <3>1. CASE pc[w] = "idle"
      BY <3>1 DEF Inv, Work
    <3>2. CASE pc[w] # "idle" /\ w = "renewal"
      BY <3>2, SuffixFacts DEF Inv, Work
    <3>3. CASE pc[w] # "idle" /\ w = "camanager"
      BY <3>3 DEF Inv, Work
    <3>4. QED
      BY <3>1, <3>2, <3>3 DEF Writers
  <2>2. QED
    BY <2>1 DEF Inv, Types, TypeOK
<1>2. QED
  BY <1>1, InvHolds, PTL

(* Once WriteFiles has reported a renewal as written, its files are on     *)
(* disk, and what it does not list is gone, until the next renewal starts, *)
(* whatever the CA manager writes and whatever fails (StoredPairIsOnDisk,  *)
(* storage_inplace.go:153-161, 217-227).                                   *)
THEOREM StoredStays == Spec => []StoredPairIsOnDisk
<1>1. Inv => StoredPairIsOnDisk
  BY DEF Inv, Stored, StoredPairIsOnDisk
<1>2. QED
  BY <1>1, InvHolds, PTL

(* When the certificate becomes that of a renewal, the key and the         *)
(* keystore beside it are of the same renewal (CertificateCompletesTheSet, *)
(* storage_inplace.go:531-535).                                            *)
THEOREM CertificateLast == Spec => CertificateCompletesTheSet
<1>1. Inv /\ [Next]_vars => [CertificateCompletes]_vars
  BY StepGood DEF Good
<1>2. CertificateCompletesTheSet <=> [][CertificateCompletes]_vars
  BY PTL DEF CertificateCompletesTheSet, CertificateCompletes
<1>3. QED
  BY <1>1, <1>2, InvHolds, PTL DEF Spec

(* No file with contents is ever absent or empty, at any point between two *)
(* blocks of any writer (NeverEmptied, storage_inplace.go:662).            *)
THEOREM NothingEmptied == Spec => NeverEmptied
<1>1. Inv /\ [Next]_vars => [KeepsContents]_vars
  BY StepGood DEF Good
<1>2. NeverEmptied <=> [][KeepsContents]_vars
  BY PTL DEF NeverEmptied, KeepsContents
<1>3. QED
  BY <1>1, <1>2, InvHolds, PTL DEF Spec

-----------------------------------------------------------------------------
(* The consumer.                                                           *)

(* What the certificate file holds is of renewals no older than the served *)
(* one, whole or half written; and once the consumer has read a whole      *)
(* certificate, of none older than that.                                   *)
Rising ==
  /\ loaded \in 1..gen
  /\ \A k \in 1..Len(disk[Cert]) : disk[Cert][k] \in loaded..gen
  /\ reader = "key" =>
       \A g \in Gens : seen = Bytes(g) =>
         /\ g \in loaded..gen
         /\ \A k \in 1..Len(disk[Cert]) : disk[Cert][k] \in g..gen
  /\ pc["renewal"] # "idle" => stored = 0

(* A step of a writer leaves a block of the certificate as it is, or it is *)
(* the renewal's and carries its generation.                               *)
LEMMA CertBlocks ==
  ASSUME Inv, NEW w \in Writers, WriteAt(w) \/ Truncate(w)
  PROVE  \A k \in 1..Len(disk'[Cert]) :
           \/ k \in 1..Len(disk[Cert]) /\ disk'[Cert][k] = disk[Cert][k]
           \/ disk'[Cert][k] = gen
<1> DEFINE n == Head(todo[w])
           f == disk[n]
           t == load[w][n]
<1>1. pc[w] \in {"write", "truncate"} /\ todo[w] # <<>>
  BY DEF WriteAt, Truncate, Inv, Work
<1>2. /\ n \in Names /\ f \in Files /\ t \in Tags /\ Data(w) = Bytes(t)
      /\ Len(Data(w)) \in 1..MaxSize
      /\ n \in Pair => w = "renewal" /\ t = gen
  BY <1>1, AtWork
<1>3. Len(f) \in 0..MaxSize
  BY <1>2, FilesAreShort
<1>4. disk \in [Names -> Files \cup {Absent}]
  BY DEF Inv, Types
<1>5. CASE n # Cert
  <2>1. disk'[Cert] = disk[Cert]
    BY <1>2, <1>4, <1>5 DEF WriteAt, Truncate, Names, Cert
  <2>2. QED
    BY <2>1
<1>6. CASE n = Cert /\ WriteAt(w)
  <2> DEFINE i == pos[w]
             g == Overwrite(f, i, t)
  <2>1. disk'[Cert] = g
    BY <1>2, <1>4, <1>6 DEF WriteAt, Names, Cert
  <2>2. w = "renewal" /\ t = gen /\ pc[w] = "write"
    BY <1>2, <1>6 DEF Pair, Cert, WriteAt
  <2>3. i \in 1..MaxSize /\ i - 1 <= Len(f)
    BY <1>6, <2>2 DEF Inv, Types, AtHand, Pair, Cert
  <2> DEFINE m == IF i > Len(f) THEN i ELSE Len(f)
  <2>4. m \in Nat /\ \A k \in 1..m : k = i \/ k \in 1..Len(f)
    BY <1>3, <2>3
  <2>5. g = [k \in 1..m |-> IF k = i THEN t ELSE IF k <= Len(f) THEN f[k] ELSE Hole]
    BY DEF Overwrite
  <2>6. Len(g) = m /\ \A k \in 1..m : g[k] = IF k = i THEN t ELSE IF k <= Len(f) THEN f[k] ELSE Hole
    <3>1. g \in Files
      BY <1>2, <2>3, OverwriteFacts
    <3>2. QED
      BY <2>4, <2>5, <3>1, FilesAreShort
  <2> HIDE DEF g, m
  <2>7. \A k \in 1..Len(g) : (k \in 1..Len(f) /\ g[k] = f[k]) \/ g[k] = gen
    BY <1>3, <2>2, <2>4, <2>6
  <2>8. QED
    BY <1>6, <2>1, <2>7
<1>7. CASE n = Cert /\ Truncate(w)
  <2> DEFINE m == Len(Data(w))
             g == Resize(f, m)
  <2>1. disk'[Cert] = g
    BY <1>2, <1>4, <1>7 DEF Truncate, Names, Cert
  <2>2. w = "renewal" /\ t = gen /\ pc[w] = "truncate"
    BY <1>2, <1>7 DEF Pair, Cert, Truncate
  <2>3. m <= Len(f)
    BY <1>2, <1>3, <1>7, <2>2 DEF Inv, AtHand, Pair, Cert
  <2>4. m \in 1..MaxSize /\ Len(g) = m /\ \A k \in 1..m : k <= Len(f) => g[k] = f[k]
    BY <1>2, ResizeFacts
  <2> HIDE DEF g, m
  <2>5. \A k \in 1..Len(g) : k \in 1..Len(f) /\ g[k] = f[k]
    BY <1>3, <2>3, <2>4
  <2>6. QED
    BY <1>7, <2>1, <2>5
<1>8. QED
  BY <1>5, <1>6, <1>7

(* Any step, in the terms of the handover.                                 *)
HandoverStep ==
  \/ Handover!Next
  \/ UNCHANGED <<gen, stored, loaded>>

LEMMA WriterRises ==
  ASSUME Inv, Rising, NEW w \in Writers, Write(w) \/ Fail(w)
  PROVE  Rising' /\ HandoverStep
<1> USE InplaceWriterAssumption
<1>1. /\ UNCHANGED <<gen, reader, seen, loaded>> /\ gen \in Gens /\ loaded \in Gens
      /\ pc \in [Writers -> {"idle", "prune", "next", "write", "truncate"}]
      /\ disk \in [Names -> Files \cup {Absent}]
  BY DEF Write, Skip, Open, WriteAt, Truncate, Return, Fail, consumer, Inv, Types
<1>2. \A k \in 1..Len(disk'[Cert]) :
        \/ k \in 1..Len(disk[Cert]) /\ disk'[Cert][k] = disk[Cert][k]
        \/ disk'[Cert][k] = gen
  <2>1. CASE WriteAt(w) \/ Truncate(w)
    BY <2>1, CertBlocks
  <2>2. CASE Skip(w) \/ Return(w) \/ Fail(w)
    BY <2>2 DEF Skip, Return, Fail
  <2>3. CASE Open(w)
    <3>1. Head(todo[w]) \in Names /\ disk[Head(todo[w])] # Absent
      BY <2>3, AtWork DEF Open
    <3>2. disk' = disk
      BY <1>1, <2>3, <3>1 DEF Open
    <3>3. QED
      BY <3>2
  <2>4. QED
    BY <2>1, <2>2, <2>3 DEF Write
<1>3. loaded' \in 1..gen' /\ \A k \in 1..Len(disk'[Cert]) : disk'[Cert][k] \in loaded..gen
  <2>1. loaded \in 1..gen /\ gen \in loaded..gen
    BY <1>1 DEF Rising, Gens
  <2>2. \A k \in 1..Len(disk[Cert]) : disk[Cert][k] \in loaded..gen
    BY DEF Rising
  <2>3. QED
    BY <1>1, <1>2, <2>1, <2>2
<1>4. reader' = "key" =>
        \A g \in Gens : seen' = Bytes(g) =>
          /\ g \in loaded'..gen'
          /\ \A k \in 1..Len(disk'[Cert]) : disk'[Cert][k] \in g..gen'
  <2> SUFFICES ASSUME reader = "key", NEW g \in Gens, seen = Bytes(g)
               PROVE  /\ g \in loaded..gen
                      /\ \A k \in 1..Len(disk'[Cert]) : disk'[Cert][k] \in g..gen
    BY <1>1
  <2>1. g \in loaded..gen /\ \A k \in 1..Len(disk[Cert]) : disk[Cert][k] \in g..gen
    BY DEF Rising
  <2>2. gen \in g..gen
    BY <1>1, <2>1 DEF Gens
  <2>3. QED
    BY <1>2, <2>1, <2>2
<1>5. /\ pc'["renewal"] # "idle" => pc["renewal"] # "idle"
      /\ \/ stored' = stored
         \/ pc["renewal"] # "idle" /\ w = "renewal" /\ Return(w)
  <2>1. CASE Skip(w) \/ Open(w) \/ WriteAt(w) \/ Truncate(w)
    <3>1. pc[w] # "idle" /\ stored' = stored
      BY <2>1 DEF Skip, Open, WriteAt, Truncate
    <3>2. \A o \in Writers \ {w} : pc'[o] = pc[o]
      BY <1>1, <2>1 DEF Skip, Open, WriteAt, Truncate, Goto
    <3>3. QED
      BY <3>1, <3>2 DEF Writers
  <2>2. CASE Return(w) \/ Fail(w)
    <3>1. /\ pc[w] # "idle" /\ pc' = [pc EXCEPT ![w] = "idle"]
          /\ stored' = stored \/ (w = "renewal" /\ Return(w))
      BY <2>2 DEF Return, Fail, Goto
    <3>2. QED
      BY <1>1, <3>1 DEF Writers
  <2>3. QED
    BY <2>1, <2>2 DEF Write
<1>6. CASE stored' = stored
  BY <1>1, <1>3, <1>4, <1>5, <1>6 DEF Rising, HandoverStep
<1>7. CASE pc["renewal"] # "idle" /\ w = "renewal" /\ Return(w)
  <2>1. stored = 0 /\ stored' = gen /\ pc'["renewal"] = "idle"
    BY <1>1, <1>7 DEF Rising, Return, Goto
  <2>2. QED
    BY <1>1, <1>3, <1>4, <2>1
    DEF Rising, HandoverStep, Handover!Next, Handover!Store
<1>8. QED
  BY <1>5, <1>6, <1>7

LEMMA StepRises == Inv /\ Rising /\ [Next]_vars => Rising' /\ HandoverStep
<1> SUFFICES ASSUME Inv, Rising, [Next]_vars
             PROVE  Rising' /\ HandoverStep
  OBVIOUS
<1> USE InplaceWriterAssumption
<1>1. /\ gen \in Gens /\ loaded \in Gens /\ Gens \subseteq Int /\ gen \in Int
      /\ disk \in [Names -> Files \cup {Absent}]
      /\ pc \in [Writers -> {"idle", "prune", "next", "write", "truncate"}]
  BY DEF Inv, Types, Gens
<1>2. CASE BeginRenewal
  <2>1. /\ gen' = gen + 1 /\ stored' = 0 /\ loaded' = loaded /\ seen' = seen
        /\ reader' = reader /\ disk' = disk
    BY <1>2 DEF BeginRenewal, Begin, consumer
  <2>2. \A a \in Int : a..gen \subseteq a..(gen + 1)
    BY <1>1
  <2>3. Rising'
    BY <1>1, <2>1, <2>2 DEF Rising
  <2>4. QED
    BY <2>1, <2>3 DEF HandoverStep, Handover!Next, Handover!Issue
<1>3. CASE BeginUpdate \/ Prune
  <2>1. /\ UNCHANGED <<gen, stored, loaded, seen, reader>>
        /\ pc'["renewal"] # "idle" => pc["renewal"] # "idle"
        /\ disk'[Cert] = disk[Cert]
    <3>1. CASE BeginUpdate
      BY <1>1, <3>1 DEF BeginUpdate, Begin, Goto, consumer, Writers
    <3>2. CASE Prune
      <4>1. DOMAIN load["renewal"] = Renewed
        BY <3>2 DEF Prune, Inv, Work
      <4>2. QED
        BY <1>1, <3>2, <4>1 DEF Prune, Goto, consumer, Writers, Renewed, Names, Cert
    <3>3. QED
      BY <1>3, <3>1, <3>2
  <2>2. QED
    BY <2>1 DEF Rising, HandoverStep
<1>4. ASSUME NEW w \in Writers, Write(w) \/ Fail(w)
      PROVE  Rising' /\ HandoverStep
  BY <1>4, WriterRises
<1>5. CASE Crash \/ (\E b \in Bundles : ChangeBundle(b)) \/ UNCHANGED vars
  <2>1. /\ UNCHANGED <<gen, stored, loaded, seen, reader, disk>>
        /\ pc'["renewal"] # "idle" => pc["renewal"] # "idle"
    BY <1>5 DEF Crash, ChangeBundle, vars, writer, consumer, Writers
  <2>2. QED
    BY <2>1 DEF Rising, HandoverStep
<1>6. CASE Notice
  BY <1>6 DEF Notice, writer, Rising, HandoverStep
<1>7. CASE ReadCert
  <2>1. UNCHANGED <<gen, stored, loaded, disk, pc>> /\ seen' = disk[Cert]
    BY <1>7 DEF ReadCert, writer
  <2>2. ASSUME NEW g \in Gens, disk[Cert] = Bytes(g)
        PROVE  /\ g \in loaded..gen
               /\ \A k \in 1..Len(disk[Cert]) : disk[Cert][k] \in g..gen
    <3>1. /\ Len(Bytes(g)) \in 1..MaxSize /\ g \in Int
          /\ \A k \in 1..Len(Bytes(g)) : Bytes(g)[k] = g
      BY <1>1, BytesFacts DEF Tags
    <3>2. 1 \in 1..Len(Bytes(g))
      <4>1. \A l \in 1..MaxSize : 1 \in 1..l
        OBVIOUS
      <4>2. QED
        BY <3>1, <4>1
    <3>3. g \in loaded..gen
      BY <2>2, <3>1, <3>2 DEF Rising
    <3>4. g \in g..gen
      BY <1>1, <3>1, <3>3
    <3>5. QED
      BY <2>2, <3>1, <3>3, <3>4
  <2>3. QED
    BY <2>1, <2>2 DEF Rising, HandoverStep
<1>8. CASE ReadKey
  <2>1. /\ UNCHANGED <<gen, stored, disk, pc>> /\ reader = "key" /\ reader' = "wait"
        /\ \/ loaded' = loaded
           \/ \E g \in Gens : seen = Bytes(g) /\ loaded' = g
    BY <1>8 DEF ReadKey, writer
  <2>2. CASE loaded' = loaded
    BY <2>1, <2>2 DEF Rising, HandoverStep
  <2>3. ASSUME NEW g \in Gens, seen = Bytes(g), loaded' = g, loaded # g
        PROVE  Rising' /\ HandoverStep
    <3>1. /\ g \in loaded..gen /\ loaded \in 1..gen
          /\ \A k \in 1..Len(disk[Cert]) : disk[Cert][k] \in g..gen
      BY <2>1, <2>3 DEF Rising
    <3>2. loaded < g /\ g <= gen /\ g \in 1..gen
      BY <1>1, <2>3, <3>1
    <3>3. QED
      BY <2>1, <2>3, <3>1, <3>2
      DEF Rising, HandoverStep, Handover!Next, Handover!Serve
  <2>4. QED
    BY <2>1, <2>2, <2>3
<1>9. QED
  BY <1>2, <1>3, <1>4, <1>5, <1>6, <1>7, <1>8 DEF Next, Consume

(* The consumer is handed issued pairs only, and later ones after earlier  *)
(* ones, whatever fails: the volume implements PairHandover but for its    *)
(* fairness (the safety of HandsOverPairs, storage_inplace.go:36-43,       *)
(* 713-717).                                                               *)
THEOREM PairsHandedOver == Spec => Handover!Safety
<1>1. Init => Handover!Init /\ Rising
  <2> SUFFICES ASSUME Init
               PROVE  Handover!Init /\ Rising
    OBVIOUS
  <2>1. /\ gen = 1 /\ stored = 1 /\ loaded = 1 /\ reader = "wait"
        /\ pc["renewal"] = "idle" /\ disk[Cert] = Bytes(1)
    BY DEF Init, Writers, Names, Cert
  <2>2. 1 \in Tags
    BY InplaceWriterAssumption DEF Tags, Gens
  <2>3. \A k \in 1..Len(disk[Cert]) : disk[Cert][k] = 1
    BY <2>1, <2>2, BytesFacts
  <2>4. QED
    BY <2>1, <2>3 DEF Rising, Handover!Init
<1>2. HandoverStep => [Handover!Next]_Handover!pair
  BY DEF HandoverStep, Handover!pair
<1>3. QED
  BY <1>1, <1>2, StepRises, InvHolds, PTL DEF Spec, Handover!Safety

=============================================================================
