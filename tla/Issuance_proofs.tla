--------------------------- MODULE Issuance_proofs ---------------------------
(***************************************************************************)
(* Safety of a volume's life, for either write mode, any attributes, any   *)
(* interval, duration and slack, and any number of failures and changes.   *)
(***************************************************************************)
EXTENDS Issuance, TLAPS

USE DEF Root

-----------------------------------------------------------------------------
(* The operators the steps are made of.                                    *)

(* The assumptions about the constants, one by one.                        *)
LEMMA ConstantFacts ==
  /\ Gens \subseteq Nat \ {0} /\ Bundles \subseteq Nat \ {0} /\ Bundles # {}
  /\ MinInterval \in Nat /\ DefaultInterval \in Nat /\ Duration \in Nat /\ MaxGid \in Nat
  /\ 0 < MinInterval /\ 0 < Duration
  /\ Slack \in Nat /\ MaxFaults \in Nat /\ MaxChanges \in Nat
  /\ MinInterval <= DefaultInterval /\ Slack <= MinInterval
  /\ Intervals \subseteq Nat \cup {Unset, NotANumber}
<1>1. {MinInterval, DefaultInterval, Duration, MaxGid} \subseteq Nat \ {0}
  BY IssuanceAssumption
<1>2. {Slack, MaxFaults, MaxChanges} \subseteq Nat
  BY IssuanceAssumption
<1>3. /\ Gens \subseteq Nat \ {0} /\ Bundles \subseteq Nat \ {0} /\ Bundles # {}
      /\ MinInterval <= DefaultInterval /\ Slack <= MinInterval
  BY Zenon, IssuanceAssumption
<1>4. Intervals \subseteq Nat \cup {Unset, NotANumber}
  BY Zenon, IssuanceAssumption
<1>5. QED
  BY <1>1, <1>2, <1>3, <1>4

(* Order lists the files of a payload, all of them, the certificate last.  *)
LEMMA OrderFacts ==
  /\ Len(Order) \in Nat /\ 1 <= Len(Order)
  /\ \A k \in 1..Len(Order) : Order[k] \in Stored
  /\ \A n \in Stored : \E k \in 1..Len(Order) : Order[k] = n
<1>1. CASE Keystore
  <2>1. Order = <<"ca", "key", "keystore", "cert">> /\ Stored = Names
    BY <1>1 DEF Order, Stored
  <2>2. /\ Len(Order) = 4 /\ Order[1] = "ca" /\ Order[2] = "key"
        /\ Order[3] = "keystore" /\ Order[4] = "cert"
    BY <2>1
  <2>3. \A k \in 1..4 : k = 1 \/ k = 2 \/ k = 3 \/ k = 4
    OBVIOUS
  <2>4. QED
    BY <2>1, <2>2, <2>3 DEF Names
<1>2. CASE ~Keystore
  <2>1. Order = <<"ca", "key", "cert">> /\ Stored = {"ca", "key", "cert"}
    BY <1>2 DEF Order, Stored, Names
  <2>2. /\ Len(Order) = 3 /\ Order[1] = "ca" /\ Order[2] = "key" /\ Order[3] = "cert"
    BY <2>1
  <2>3. \A k \in 1..3 : k = 1 \/ k = 2 \/ k = 3
    OBVIOUS
  <2>4. QED
    BY <2>1, <2>2, <2>3
<1>3. QED
  BY <1>1, <1>2

(* A group that is not refused is a gid, or none.                          *)
LEMMA GroupFacts ==
  ASSUME NEW g, GroupValid(g)
  PROVE  fsGroupForMetadata(g) \in {Root} \cup Gids
BY DEF GroupValid, fsGroupForMetadata

(* Giving a file a group leaves it one.                                    *)
LEMMA EnsureFacts ==
  ASSUME NEW old \in {Root} \cup Gids, NEW gid \in {Root} \cup Gids
  PROVE  ensureGroup(old, gid) \in {Root} \cup Gids
BY DEF ensureGroup

(* Every interval that is used is at least the minimum.                    *)
LEMMA IntervalFacts ==
  ASSUME interval \in Intervals
  PROVE  refreshInterval \in Nat /\ MinInterval <= refreshInterval
BY ConstantFacts DEF refreshInterval

(* The types of the parts of the state.                                    *)
FileOK(f, n) == f \in [content : Nat, group : {Root} \cup Gids] /\ f.content \in Contents(n)
DiskOK(d) == d \in [Names -> [content : Nat, group : {Root} \cup Gids]]
               /\ \A n \in Names : d[n].content \in Contents(n)
MetaOK(m) == m \in [fsGroup : Groups, due : Nat, gen : Gens \cup {0}]
RenewalOK(r) ==
  r \in [pc : {"idle", "request", "signed", "store", "write", "record"}, fsGroup : Groups,
         due : Nat, gen : Gens \cup {0}, ca : Bundles \cup {0}, at : 1..Len(Order)]
UpdaterOK(u) ==
  u \in [pc : {"idle", "compare", "key", "write"}, fsGroup : Groups,
         ca : Bundles \cup {0}, cert : Gens \cup {0}, key : Gens \cup {0}]
TimeOK(l, t) == l \in [Gens -> 0..Duration] /\ t \in 0..Slack
BoundsOK(f, c) == f \in 0..MaxFaults /\ c \in [pod : 0..MaxChanges, bundle : 0..MaxChanges]

Typed ==
  /\ writeMode \in WriteModes /\ interval \in Intervals /\ mountGroup \in MountGroups
  /\ pod \in FsGroups /\ bundle \in Bundles
  /\ MetaOK(meta) /\ RenewalOK(renewal) /\ UpdaterOK(updater)
  /\ DiskOK(disk) /\ dirGroup \in {Root} \cup Gids /\ undone \in BOOLEAN
  /\ TimeOK(life, late) /\ refused \in BOOLEAN /\ BoundsOK(faults, changes)

(* The in-place writer has looked at the group before the first file.      *)
GroupChecked == renewal.pc = "write" => GroupValid(renewal.fsGroup)

(* The parts make up the type invariant.                                   *)
LEMMA TypedIsTypeOK == Typed <=> TypeOK
BY DEF Typed, TypeOK, MetaOK, RenewalOK, UpdaterOK, DiskOK, TimeOK, BoundsOK

(* Nobody at work.                                                         *)
LEMMA NobodyFacts == RenewalOK(NoRenewal) /\ UpdaterOK(NoUpdate)
BY OrderFacts DEF RenewalOK, UpdaterOK, NoRenewal, NoUpdate, Groups

(* Bundles and pairs are numbers.                                          *)
LEMMA ContentsFacts ==
  ASSUME NEW n, NEW c \in Contents(n)
  PROVE  c \in Nat
BY ConstantFacts DEF Contents

(* What the in-place writer leaves of a file is a file.                    *)
LEMMA FileFacts ==
  ASSUME NEW n \in Names, NEW f, FileOK(f, n), NEW c \in Contents(n),
         NEW gid \in {Root} \cup Gids
  PROVE  FileOK(writeFileInPlace(f, c, gid), n)
<1>1. c \in Nat
  BY ContentsFacts
<1>2. (IF f.content = 0 THEN Root ELSE f.group) \in {Root} \cup Gids
  BY DEF FileOK
<1>3. ensureGroup(IF f.content = 0 THEN Root ELSE f.group, gid) \in {Root} \cup Gids
  BY <1>2, EnsureFacts
<1>4. QED
  BY <1>1, <1>3 DEF FileOK, writeFileInPlace

(* A directory in which one file has been written is a directory.          *)
LEMMA OneFileFacts ==
  ASSUME NEW d, DiskOK(d), NEW n \in Names, NEW f, FileOK(f, n)
  PROVE  DiskOK([d EXCEPT ![n] = f])
BY DEF DiskOK, FileOK

(* What the atomic writer makes of a payload is a directory.               *)
LEMMA AtomicFacts ==
  ASSUME DiskOK(disk), NEW payload, DOMAIN payload \subseteq Names, NEW gid \in {Root} \cup Gids,
         \A n \in DOMAIN payload : payload[n] \in Contents(n)
  PROVE  DiskOK(AtomicWrite(payload, gid))
<1>1. \A n \in DOMAIN payload : payload[n] \in Nat
  BY ContentsFacts
<1>2. QED
  BY <1>1 DEF DiskOK, AtomicWrite, NoFile, Contents

(* An issuance writes into each file what belongs there, the bundle it has *)
(* sampled and the pair it has been given.                                 *)
LEMMA PayloadFacts ==
  ASSUME RenewalOK(renewal)
  PROVE  /\ DOMAIN Payload = Stored /\ Stored \subseteq Names
         /\ \A n \in Stored : Payload[n] \in Contents(n)
BY DEF Payload, Stored, Names, Contents, RenewalOK

-----------------------------------------------------------------------------
(* Every variable keeps its type; in particular no file ever gets a group  *)
(* that is not a gid, and no file holds what belongs in another (TypeOK).  *)
THEOREM TypeCorrect == Spec => []TypeOK
<1>1. Init => Typed /\ GroupChecked
  <2> SUFFICES ASSUME Init
               PROVE  Typed /\ GroupChecked
    OBVIOUS
  <2>1. bundle \in Bundles
    BY ConstantFacts DEF Init
  <2>2. DiskOK(disk)
    BY DEF Init, DiskOK, NoFile, Contents
  <2>3. RenewalOK(renewal) /\ UpdaterOK(updater)
    BY NobodyFacts DEF Init
  <2>4. TimeOK(life, late)
    BY ConstantFacts DEF Init, TimeOK
  <2>5. BoundsOK(faults, changes)
    BY ConstantFacts DEF Init, BoundsOK
  <2>6. MetaOK(meta)
    BY DEF Init, Groups, MetaOK
  <2>7. QED
    BY <2>1, <2>2, <2>3, <2>4, <2>5, <2>6 DEF Init, Typed, GroupChecked, NoRenewal
<1>2. Typed /\ GroupChecked /\ [Next]_vars => Typed'
  <2> SUFFICES ASSUME Typed, GroupChecked, [Next]_vars
               PROVE  Typed'
    OBVIOUS
  <2> USE DEF Typed, outside, config, volume, time, bounds
  <2>1. CASE BeginIssue
    <3>1. RenewalOK(renewal')
      BY <2>1, NobodyFacts DEF BeginIssue, RenewalOK, MetaOK
    <3>2. QED
      BY <2>1, <3>1 DEF BeginIssue
  <2>2. CASE writeKeypair
    <3>1. refreshInterval \in Nat
      BY IntervalFacts
    <3>2. RenewalOK(renewal')
      BY <2>2, <3>1 DEF writeKeypair, RenewalOK
    <3>3. QED
      BY <2>2, <3>2 DEF writeKeypair
  <2>3. CASE StoreRefused
    BY <2>3, NobodyFacts DEF StoreRefused
  <2>4. CASE StoreFiles
    <3>1. Gid \in {Root} \cup Gids
      BY <2>4, GroupFacts DEF StoreFiles, Gid
    <3>2. dirGroup' \in {Root} \cup Gids
      BY <2>4, <3>1, EnsureFacts DEF StoreFiles
    <3>3. RenewalOK(renewal')
      BY <2>4 DEF StoreFiles, RenewalOK
    <3>4. QED
      BY <2>4, <3>2, <3>3 DEF StoreFiles
  <2>5. CASE StoreNext
    <3> DEFINE n == Order[renewal.at]
    <3>1. renewal.at \in 1..Len(Order) /\ n \in Stored /\ n \in Names
      BY OrderFacts, PayloadFacts DEF RenewalOK
    <3>2. Gid \in {Root} \cup Gids
      BY <2>5, GroupFacts DEF StoreNext, GroupChecked, Gid
    <3>3. FileOK(writeFileInPlace(disk[n], Payload[n], Gid), n)
      <4>1. FileOK(disk[n], n)
        BY <3>1 DEF DiskOK, FileOK
      <4>2. Payload[n] \in Contents(n)
        BY <3>1, PayloadFacts
      <4>3. QED
        BY <3>1, <3>2, <4>1, <4>2, FileFacts
    <3>4. DiskOK(disk')
      BY <2>5, <3>1, <3>3, OneFileFacts DEF StoreNext
    <3>5. RenewalOK(renewal')
      <4>1. renewal.at # Len(Order) => renewal.at + 1 \in 1..Len(Order)
        BY <3>1, OrderFacts
      <4>2. QED
        BY <2>5, <4>1 DEF StoreNext, RenewalOK
    <3>6. QED
      BY <2>5, <3>4, <3>5 DEF StoreNext
  <2>6. CASE StoreFilesAtomic
    <3>1. Gid \in {Root} \cup Gids
      BY <2>6, GroupFacts DEF StoreFilesAtomic, Gid
    <3>2. dirGroup' \in {Root} \cup Gids
      BY <2>6, <3>1, EnsureFacts DEF StoreFilesAtomic
    <3>3. DiskOK(disk')
      BY <2>6, <3>1, PayloadFacts, AtomicFacts DEF StoreFilesAtomic
    <3>4. RenewalOK(renewal')
      BY <2>6 DEF StoreFilesAtomic, RenewalOK
    <3>5. QED
      BY <2>6, <3>2, <3>3, <3>4 DEF StoreFilesAtomic
  <2>7. CASE Record
    <3>1. MetaOK(meta') /\ TimeOK(life', late')
      BY <2>7, ConstantFacts DEF Record, MetaOK, RenewalOK, TimeOK
    <3>2. QED
      BY <2>7, <3>1, NobodyFacts DEF Record
  <2>8. CASE IssueFails
    <3>1. BoundsOK(faults', changes')
      BY <2>8, ConstantFacts DEF IssueFails, BoundsOK
    <3>2. QED
      BY <2>8, <3>1, NobodyFacts DEF IssueFails
  <2>9. CASE BeginUpdate
    <3>1. UpdaterOK(updater')
      BY <2>9, NobodyFacts DEF BeginUpdate, UpdaterOK, MetaOK
    <3>2. QED
      BY <2>9, <3>1 DEF BeginUpdate
  <2>10. CASE SkipUpdate
    BY <2>10, NobodyFacts DEF SkipUpdate
  <2>11. CASE UpdateFile
    <3> DEFINE gid == fsGroupForMetadata(updater.fsGroup)
    <3>1. gid \in {Root} \cup Gids
      BY <2>11, GroupFacts DEF UpdateFile
    <3>2. dirGroup' \in {Root} \cup Gids
      BY <2>11, <3>1, EnsureFacts DEF UpdateFile
    <3>3. FileOK(writeFileInPlace(disk["ca"], updater.ca, gid), "ca")
      <4>1. FileOK(disk["ca"], "ca") /\ "ca" \in Names
        BY DEF DiskOK, FileOK, Names
      <4>2. updater.ca \in Contents("ca")
        BY DEF UpdaterOK, Contents
      <4>3. QED
        BY <3>1, <4>1, <4>2, FileFacts
    <3>4. DiskOK(disk')
      <4>1. "ca" \in Names
        BY DEF Names
      <4>2. QED
        BY <2>11, <3>3, <4>1, OneFileFacts DEF UpdateFile
    <3>5. QED
      BY <2>11, <3>2, <3>4, NobodyFacts DEF UpdateFile
  <2>12. CASE ReadCert
    <3>1. disk["cert"].content \in Gens \cup {0}
      BY DEF DiskOK, Names, Contents
    <3>2. UpdaterOK(updater')
      BY <2>12, <3>1 DEF ReadCert, UpdaterOK
    <3>3. QED
      BY <2>12, <3>2 DEF ReadCert
  <2>13. CASE ReadKey
    <3>1. disk["key"].content \in Gens \cup {0}
      BY DEF DiskOK, Names, Contents
    <3>2. UpdaterOK(updater')
      BY <2>13, <3>1 DEF ReadKey, UpdaterOK
    <3>3. QED
      BY <2>13, <3>2 DEF ReadKey
  <2>14. CASE UpdateFiles
    <3> DEFINE gid == fsGroupForMetadata(updater.fsGroup)
               payload == [n \in {"ca", "cert", "key"} |-> updater[n]]
    <3>1. gid \in {Root} \cup Gids
      BY <2>14, GroupFacts DEF UpdateFiles
    <3>2. dirGroup' \in {Root} \cup Gids
      BY <2>14, <3>1, EnsureFacts DEF UpdateFiles
    <3>3. /\ DOMAIN payload \subseteq Names
          /\ \A n \in DOMAIN payload : payload[n] \in Contents(n)
      BY DEF UpdaterOK, Names, Contents
    <3>4. disk' = AtomicWrite(payload, gid)
      BY <2>14 DEF UpdateFiles
    <3>5. DiskOK(disk')
      <4> HIDE DEF payload, gid
      <4>1. QED
        BY <3>1, <3>3, <3>4, AtomicFacts
    <3>6. undone' \in BOOLEAN
      BY <2>14 DEF UpdateFiles
    <3>7. QED
      BY <2>14, <3>2, <3>5, <3>6, NobodyFacts DEF UpdateFiles
  <2>15. CASE UpdateFails
    <3>1. BoundsOK(faults', changes')
      BY <2>15, ConstantFacts DEF UpdateFails, BoundsOK
    <3>2. QED
      BY <2>15, <3>1, NobodyFacts DEF UpdateFails
  <2>16. CASE Crash
    <3>1. BoundsOK(faults', changes')
      BY <2>16, ConstantFacts DEF Crash, BoundsOK
    <3>2. QED
      BY <2>16, <3>1, NobodyFacts DEF Crash
  <2>17. CASE Tick
    <3>1. \A t \in Nat : Less(t) \in Nat /\ Less(t) <= t
      BY DEF Less
    <3>2. \A t \in 0..Duration : Less(t) \in 0..Duration
      BY <3>1, ConstantFacts
    <3>3. TimeOK(life', late')
      <4>1. life' \in [Gens -> 0..Duration]
        BY <2>17, <3>2, ConstantFacts DEF Tick, TimeOK
      <4>2. late' \in 0..Slack
        BY <2>17, ConstantFacts DEF Tick, TimeOK, MetaOK
      <4>3. QED
        BY <4>1, <4>2 DEF TimeOK
    <3>4. MetaOK(meta')
      BY <2>17, <3>1 DEF Tick, MetaOK
    <3>5. RenewalOK(renewal')
      BY <2>17, <3>1 DEF Tick, RenewalOK
    <3>6. refused' \in BOOLEAN
      BY <2>17 DEF Tick
    <3>7. QED
      BY <2>17, <3>3, <3>4, <3>5, <3>6 DEF Tick
  <2>18. ASSUME NEW a \in FsGroups, Republish(a)
         PROVE  Typed'
    <3>1. MetaOK(meta')
      BY <2>18 DEF Republish, MetaOK, Groups
    <3>2. BoundsOK(faults', changes')
      BY <2>18, ConstantFacts DEF Republish, BoundsOK
    <3>3. QED
      BY <2>18, <3>1, <3>2 DEF Republish
  <2>19. ASSUME NEW b \in Bundles, ChangeBundle(b)
         PROVE  Typed'
    <3>1. BoundsOK(faults', changes')
      BY <2>19, ConstantFacts DEF ChangeBundle, BoundsOK
    <3>2. QED
      BY <2>19, <3>1 DEF ChangeBundle
  <2>20. CASE StoreNextFails
    <3> DEFINE n == Order[renewal.at]
    <3>1. n \in Stored /\ n \in Names
      BY OrderFacts, PayloadFacts DEF RenewalOK
    <3>2. FileOK([disk[n] EXCEPT !.content = Payload[n]], n)
      <4>1. FileOK(disk[n], n)
        BY <3>1 DEF DiskOK, FileOK
      <4>2. Payload[n] \in Contents(n) /\ Payload[n] \in Nat
        BY <3>1, PayloadFacts, ContentsFacts
      <4>3. QED
        BY <4>1, <4>2 DEF FileOK
    <3>3. DiskOK(disk')
      BY <2>20, <3>1, <3>2, OneFileFacts DEF StoreNextFails
    <3>4. BoundsOK(faults', changes') /\ UpdaterOK(updater')
      BY <2>20, ConstantFacts, NobodyFacts DEF StoreNextFails, BoundsOK
    <3>5. QED
      BY <2>20, <3>3, <3>4, NobodyFacts DEF StoreNextFails
  <2>21. CASE Sign
    <3>1. PICK g \in Gens \ InUse :
            /\ renewal' = [renewal EXCEPT !.pc = "signed", !.gen = g]
            /\ life' = [h \in Gens |-> IF h = g THEN Duration
                                       ELSE IF h \in InUse THEN life[h] ELSE 0]
      BY <2>21 DEF Sign
    <3>2. RenewalOK(renewal')
      BY <3>1 DEF RenewalOK
    <3>3. TimeOK(life', late')
      BY <2>21, <3>1, ConstantFacts DEF TimeOK, Sign
    <3>4. QED
      BY <2>21, <3>2, <3>3 DEF Sign
  <2>22. CASE UpdateFileFails
    <3>1. fsGroupForMetadata(updater.fsGroup) \in {Root} \cup Gids
      BY <2>22, GroupFacts DEF UpdateFileFails
    <3>2. dirGroup' \in {Root} \cup Gids
      BY <2>22, <3>1, EnsureFacts DEF UpdateFileFails
    <3>3. DiskOK([disk EXCEPT !["ca"].content = updater.ca])
      <4>1. FileOK(disk["ca"], "ca") /\ "ca" \in Names
        BY DEF DiskOK, FileOK, Names
      <4>2. updater.ca \in Contents("ca") /\ updater.ca \in Nat
        BY ContentsFacts DEF UpdaterOK, Contents
      <4>3. FileOK([disk["ca"] EXCEPT !.content = updater.ca], "ca")
        BY <4>1, <4>2 DEF FileOK
      <4>4. QED
        BY <4>1, <4>3, OneFileFacts
    <3>4. DiskOK(disk')
      BY <2>22, <3>3 DEF UpdateFileFails
    <3>5. BoundsOK(faults', changes')
      BY <2>22, ConstantFacts DEF UpdateFileFails, BoundsOK
    <3>6. QED
      BY <2>22, <3>2, <3>4, <3>5, NobodyFacts DEF UpdateFileFails
  <2>23. CASE UNCHANGED vars
    BY <2>23 DEF vars
  <2>24. QED
    BY <2>1, <2>2, <2>3, <2>4, <2>5, <2>6, <2>7, <2>8, <2>9, <2>10, <2>11, <2>12,
       <2>13, <2>14, <2>15, <2>16, <2>17, <2>18, <2>19, <2>20, <2>21, <2>22, <2>23
    DEF Next, Issue, Update
<1>3. Typed /\ GroupChecked /\ [Next]_vars => GroupChecked'
  <2> SUFFICES ASSUME Typed, GroupChecked, [Next]_vars
               PROVE  GroupChecked'
    OBVIOUS
  <2>1. mountGroup' = mountGroup
    BY DEF Next, Issue, Update, vars, outside, config, BeginIssue, Sign, writeKeypair, StoreRefused,
           StoreFiles, StoreNext, StoreNextFails, StoreFilesAtomic, Record, IssueFails, BeginUpdate,
           SkipUpdate, UpdateFile, ReadCert, ReadKey, UpdateFiles, UpdateFails, UpdateFileFails, Crash,
           Republish, ChangeBundle, Tick
  <2>2. ASSUME GroupValid(renewal.fsGroup), renewal'.fsGroup = renewal.fsGroup
        PROVE  GroupValid(renewal.fsGroup)'
    BY <2>1, <2>2 DEF GroupValid, GroupString
  <2>3. SUFFICES ASSUME renewal'.pc = "write"
                 PROVE  GroupValid(renewal.fsGroup)'
    BY DEF GroupChecked
  <2> USE DEF RenewalOK, Typed
  <2>4. CASE StoreFiles
    BY <2>2, <2>4 DEF StoreFiles
  <2>5. CASE StoreNext
    BY <2>2, <2>5 DEF StoreNext, GroupChecked
  <2>6. CASE Tick
    BY <2>2, <2>3, <2>6 DEF Tick, GroupChecked
  <2>7. CASE writeKeypair \/ Sign
    BY <2>3, <2>7 DEF writeKeypair, Sign
  <2>8. CASE StoreFilesAtomic
    BY <2>3, <2>8 DEF StoreFilesAtomic
  <2>9. CASE renewal' = NoRenewal
    BY <2>3, <2>9 DEF NoRenewal
  <2>10. CASE BeginIssue
    BY <2>3, <2>10 DEF BeginIssue, NoRenewal
  <2>11. CASE renewal' = renewal
    BY <2>2, <2>3, <2>11 DEF GroupChecked
  <2>12. QED
    BY <2>4, <2>5, <2>6, <2>7, <2>8, <2>9, <2>10, <2>11
    DEF StoreRefused, StoreNextFails, Record, IssueFails, UpdateFileFails, Crash,
        Next, Issue, Update, vars, BeginUpdate, SkipUpdate, UpdateFile, ReadCert,
        ReadKey, UpdateFiles, UpdateFails, Republish, ChangeBundle
<1>4. Typed => TypeOK
  BY TypedIsTypeOK
<1>5. QED
  BY <1>1, <1>2, <1>3, <1>4, PTL DEF Spec

-----------------------------------------------------------------------------
(* What is recorded is whole.                                              *)

(* The volume's configuration never changes.                               *)
LEMMA ConfigKept ==
  ASSUME [Next]_vars
  PROVE  UNCHANGED config
BY DEF Next, Issue, Update, vars, outside, config, BeginIssue, Sign, writeKeypair, StoreRefused,
       StoreFiles, StoreNext, StoreNextFails, StoreFilesAtomic, Record, IssueFails, BeginUpdate,
       SkipUpdate, UpdateFile, ReadCert, ReadKey, UpdateFiles, UpdateFails, UpdateFileFails, Crash,
       Republish, ChangeBundle, Tick

(* A CA update cannot get in the way: in place it touches the CA file      *)
(* alone, and in atomic-dir mode it says so when it does more.             *)
UpdateIsMarked ==
  /\ updater.pc \in {"key", "write"} => store = "atomic-dir"
  /\ writeMode = "in-place" => ~undone

(* An issuance in place has written the files before the one it is at, and *)
(* every issuance has written them all when it comes to the metadata.      *)
WrittenSoFar ==
  /\ renewal.pc # "idle" => meta.due = 0
  /\ renewal.pc \in {"request", "signed", "store"} => renewal.at = 1
  /\ renewal.pc = "write" =>
       /\ store = "in-place"
       /\ \A k \in 1..(renewal.at - 1) :
            Order[k] # "ca" => disk[Order[k]].content = renewal.gen
  /\ renewal.pc = "record" /\ (writeMode = "in-place" \/ ~undone)
       => Complete(renewal.gen)

IInv == UpdateIsMarked /\ WrittenSoFar /\ NotDueMeansComplete

(* The three parts are an inductive invariant, given the types.            *)
LEMMA WholeInductive == Spec => [](Typed /\ IInv)
<1>1. Init => IInv
  BY DEF Init, IInv, UpdateIsMarked, WrittenSoFar, NotDueMeansComplete, NoRenewal, NoUpdate
<1>2. Typed /\ Typed' /\ IInv /\ [Next]_vars => IInv'
  <2> SUFFICES ASSUME Typed, Typed', IInv, [Next]_vars
               PROVE  IInv'
    OBVIOUS
  <2> USE DEF IInv
  <2>1. UNCHANGED config /\ store' = store
    BY ConfigKept DEF config, store
  <2>2. UpdateIsMarked'
    <3>1. CASE updater' = updater /\ undone' = undone
      BY <2>1, <3>1 DEF UpdateIsMarked, config
    <3>2. CASE updater' = NoUpdate /\ undone' = undone
      BY <2>1, <3>2 DEF UpdateIsMarked, config, NoUpdate
    <3>3. CASE BeginUpdate
      BY <2>1, <3>3 DEF BeginUpdate, UpdateIsMarked, NoUpdate, config, volume
    <3>4. CASE ReadCert
      BY <2>1, <3>4 DEF ReadCert, UpdateIsMarked, Typed, UpdaterOK, caStore, config, volume
    <3>5. CASE ReadKey
      BY <2>1, <3>5 DEF ReadKey, UpdateIsMarked, Typed, UpdaterOK, config, volume
    <3>6. CASE StoreFilesAtomic
      BY <2>1, <3>6 DEF StoreFilesAtomic, UpdateIsMarked, config
    <3>7. CASE UpdateFiles
      <4>1. updater' = NoUpdate /\ store = "atomic-dir"
        BY <3>7 DEF UpdateFiles, UpdateIsMarked
      <4>2. QED
        BY <2>1, <4>1 DEF UpdateIsMarked, NoUpdate, store, config
    <3>8. QED
      BY <3>1, <3>2, <3>3, <3>4, <3>5, <3>6, <3>7
      DEF Next, Issue, Update, vars, volume, BeginIssue, Sign, writeKeypair, StoreRefused,
          StoreFiles, StoreNext, StoreNextFails, Record, IssueFails, SkipUpdate, UpdateFile,
          UpdateFails, UpdateFileFails, Sign,
          Crash, Republish, ChangeBundle, Tick
  <2>3. CASE renewal' = renewal /\ meta'.due = meta.due /\ meta'.gen = meta.gen
                /\ disk' = disk /\ undone' = undone
    BY <2>1, <2>2, <2>3
    DEF WrittenSoFar, NotDueMeansComplete, Complete, Payload, config
  <2>4. CASE renewal' = NoRenewal /\ UNCHANGED <<disk, undone, meta>>
    BY <2>1, <2>2, <2>4
    DEF WrittenSoFar, NotDueMeansComplete, Complete, NoRenewal, config
  <2>5. CASE BeginIssue
    BY <2>1, <2>2, <2>5
    DEF BeginIssue, WrittenSoFar, NotDueMeansComplete, Complete, NoRenewal, config, volume
  <2>6. CASE Sign \/ writeKeypair
    <3>1. /\ renewal'.pc \in {"signed", "store"} /\ renewal'.at = 1 /\ meta.due = 0
          /\ UNCHANGED <<disk, undone, meta>>
      BY <2>6 DEF Sign, writeKeypair, WrittenSoFar, volume, Typed, RenewalOK
    <3>2. QED
      BY <2>2, <3>1 DEF WrittenSoFar, NotDueMeansComplete
  <2>7. CASE StoreFiles
    <3>1. /\ renewal'.pc = "write" /\ renewal'.at = 1 /\ meta.due = 0
          /\ store = "in-place" /\ UNCHANGED <<disk, undone, meta>>
      BY <2>7 DEF StoreFiles, WrittenSoFar, Typed, RenewalOK
    <3>2. 1..(1 - 1) = {}
      OBVIOUS
    <3>3. QED
      BY <2>1, <2>2, <3>1, <3>2 DEF WrittenSoFar, NotDueMeansComplete
  <2>8. CASE StoreNext
    <3> DEFINE n == Order[renewal.at]
    <3>1. /\ renewal.pc = "write" /\ meta.due = 0 /\ store = "in-place"
          /\ UNCHANGED <<undone, meta>> /\ renewal'.gen = renewal.gen
          /\ renewal.at \in 1..Len(Order) /\ renewal.at \in Nat /\ n \in Stored
      BY <2>8, OrderFacts DEF StoreNext, WrittenSoFar, Typed, RenewalOK
    <3>2. /\ n # "ca" => disk'[n].content = renewal.gen
          /\ \A m \in Names \ {n} : disk'[m] = disk[m]
      BY <2>8, <3>1, PayloadFacts
      DEF StoreNext, Typed, DiskOK, writeFileInPlace, Payload
    <3>3. \A k \in 1..renewal.at :
            Order[k] # "ca" => disk'[Order[k]].content = renewal.gen
      <4>1. \A k \in 1..renewal.at : k = renewal.at \/ k \in 1..(renewal.at - 1)
        BY <3>1
      <4>2. \A k \in 1..renewal.at : Order[k] \in Names
        BY <3>1, OrderFacts, PayloadFacts DEF Typed
      <4>3. QED
        BY <3>1, <3>2, <4>1, <4>2 DEF WrittenSoFar
    <3>4. CASE renewal.at = Len(Order)
      <4>1. renewal'.pc = "record"
        BY <2>8, <3>4 DEF StoreNext, Typed, RenewalOK
      <4>2. \A m \in Stored \ {"ca"} : disk'[m].content = renewal.gen
        BY <3>3, <3>4, OrderFacts
      <4>3. Complete(renewal.gen)'
        BY <3>1, <4>2 DEF Complete, Stored, Names
      <4>4. QED
        BY <2>2, <3>1, <4>1, <4>3 DEF WrittenSoFar, NotDueMeansComplete
    <3>5. CASE renewal.at # Len(Order)
      <4>1. renewal'.pc = "write" /\ renewal'.at = renewal.at + 1
        BY <2>8, <3>1, <3>5 DEF StoreNext, Typed, RenewalOK
      <4>2. renewal'.at - 1 = renewal.at
        BY <3>1, <4>1
      <4>3. QED
        BY <2>1, <2>2, <3>1, <3>3, <4>1, <4>2 DEF WrittenSoFar, NotDueMeansComplete
    <3>6. QED
      BY <3>4, <3>5
  <2>9. CASE StoreFilesAtomic
    <3>1. /\ renewal'.pc = "record" /\ renewal'.gen = renewal.gen /\ meta.due = 0
          /\ UNCHANGED meta
      BY <2>9 DEF StoreFilesAtomic, WrittenSoFar, Typed, RenewalOK
    <3>2. \A m \in Stored \ {"ca"} : disk'[m].content = renewal.gen
      <4>1. \A m \in Stored : m \in Names /\ disk'[m].content = Payload[m]
        BY <2>9, PayloadFacts DEF StoreFilesAtomic, AtomicWrite, Typed
      <4>2. QED
        BY <4>1 DEF Payload
    <3>3. Complete(renewal.gen)'
      BY <3>1, <3>2 DEF Complete, Stored, Names
    <3>4. QED
      BY <2>2, <3>1, <3>3 DEF WrittenSoFar, NotDueMeansComplete
  <2>10. CASE Record
    <3>1. /\ meta'.gen = renewal.gen /\ renewal'.pc = "idle"
          /\ UNCHANGED <<disk, undone, writeMode>>
      BY <2>1, <2>10 DEF Record, NoRenewal, volume, config
    <3>2. writeMode = "in-place" \/ ~undone => Complete(renewal.gen)
      BY <2>10 DEF Record, WrittenSoFar
    <3>3. QED
      BY <2>2, <3>1, <3>2 DEF WrittenSoFar, NotDueMeansComplete, Complete
  <2>11. CASE UpdateFile \/ UpdateFileFails
    <3>1. UNCHANGED <<meta, undone, writeMode, store>> /\ renewal' \in {renewal, NoRenewal}
      BY <2>1, <2>11 DEF UpdateFile, UpdateFileFails, config
    <3>2. \A m \in Names \ {"ca"} : disk'[m] = disk[m]
      BY <2>11 DEF UpdateFile, UpdateFileFails, Typed, DiskOK, Names
    <3>3. \A g : Complete(g) => Complete(g)'
      BY <3>2 DEF Complete, Names
    <3>4. NotDueMeansComplete'
      BY <3>1, <3>3 DEF NotDueMeansComplete
    <3>5. CASE renewal' = NoRenewal
      BY <2>2, <3>1, <3>4, <3>5 DEF WrittenSoFar, NoRenewal
    <3>6. CASE renewal' = renewal
      <4>1. \A k \in 1..(renewal.at - 1) :
              renewal.pc = "write" /\ Order[k] # "ca"
                => disk'[Order[k]].content = renewal.gen
        <5>1. \A k \in 1..(renewal.at - 1) : Order[k] \in Names
          BY OrderFacts, PayloadFacts DEF Typed, RenewalOK
        <5>2. QED
          BY <3>2, <5>1 DEF WrittenSoFar
      <4>2. QED
        BY <2>2, <3>1, <3>3, <3>4, <3>6, <4>1 DEF WrittenSoFar
    <3>7. QED
      BY <3>1, <3>5, <3>6
  <2>12. CASE UpdateFiles
    <3>1. UNCHANGED <<meta, renewal, writeMode>> /\ store = "atomic-dir"
      BY <2>1, <2>12 DEF UpdateFiles, config, UpdateIsMarked
    <3>2. writeMode # "in-place" /\ renewal.pc # "write"
      BY <3>1 DEF store, WrittenSoFar
    <3>3. ~undone' => ~undone /\ \A m \in Names \ {"ca"} : disk'[m].content = disk[m].content
      BY <2>12 DEF UpdateFiles
    <3>4. \A g : ~undone' /\ Complete(g) => Complete(g)'
      BY <3>3 DEF Complete, Names
    <3>5. QED
      <4>1. ~undone' /\ renewal.pc = "record" => Complete(renewal.gen)'
        BY <3>1, <3>3, <3>4 DEF WrittenSoFar
      <4>2. ~undone' /\ meta.due > 0 => Complete(meta.gen)'
        BY <3>1, <3>3, <3>4 DEF NotDueMeansComplete
      <4>3. WrittenSoFar'
        BY <3>1, <3>2, <4>1 DEF WrittenSoFar
      <4>4. NotDueMeansComplete'
        BY <3>1, <3>2, <4>2 DEF NotDueMeansComplete
      <4>5. QED
        BY <2>2, <4>3, <4>4
  <2>13. CASE Tick
    <3>1. /\ renewal'.pc = renewal.pc /\ renewal'.gen = renewal.gen /\ renewal'.at = renewal.at
          /\ meta'.gen = meta.gen /\ meta'.due = Less(meta.due)
          /\ UNCHANGED <<disk, undone>>
      BY <2>13 DEF Tick, volume, Typed, RenewalOK, MetaOK
    <3>2. (meta.due = 0 => meta'.due = 0) /\ (meta'.due > 0 => meta.due > 0)
      BY <3>1 DEF Less, Typed, MetaOK
    <3>3. QED
      BY <2>1, <2>2, <3>1, <3>2 DEF WrittenSoFar, NotDueMeansComplete, Complete, config
  <2>14. ASSUME NEW a \in FsGroups, Republish(a)
         PROVE  IInv'
    <3>1. meta'.due = meta.due /\ meta'.gen = meta.gen /\ renewal' = renewal
            /\ disk' = disk /\ undone' = undone
      BY <2>14 DEF Republish, volume, Typed, MetaOK
    <3>2. QED
      BY <2>3, <3>1
  <2>15. CASE StoreNextFails
    <3>1. /\ renewal.pc = "write" /\ meta.due = 0 /\ renewal' = NoRenewal
          /\ UNCHANGED meta
      BY <2>15 DEF StoreNextFails, WrittenSoFar
    <3>2. QED
      BY <2>2, <3>1 DEF WrittenSoFar, NotDueMeansComplete, NoRenewal
  <2>16. QED
    BY <2>3, <2>4, <2>5, <2>6, <2>7, <2>8, <2>9, <2>10, <2>11, <2>12, <2>13, <2>14, <2>15
    DEF Next, Issue, Update, vars, volume, StoreRefused, IssueFails, BeginUpdate, SkipUpdate,
        ReadCert, ReadKey, UpdateFails, Crash, ChangeBundle
<1>3. TypeOK => Typed
  BY TypedIsTypeOK
<1>4. QED
  BY <1>1, <1>2, <1>3, TypeCorrect, PTL DEF Spec

(* Only what is complete counts as done (NotDueMeansComplete).             *)
THEOREM DoneIsComplete == Spec => []NotDueMeansComplete
<1>1. Typed /\ IInv => NotDueMeansComplete
  BY DEF IInv
<1>2. QED
  BY <1>1, WholeInductive, PTL

-----------------------------------------------------------------------------
(* How old the certificates are.                                           *)

(* A certificate recorded was valid for Duration when it was signed, and   *)
(* has aged since by no more than Slack until its interval began, by what  *)
(* has gone of the interval and by the time for which the next has been    *)
(* due, unless that is refused.                                            *)
RecordedAge ==
  /\ meta.due > 0 => late = 0
  /\ meta.gen # 0 =>
       /\ life[meta.gen] = 0 \/ life[meta.gen] + MinInterval <= Duration + meta.due
       /\ ~refused => Duration + meta.due <= life[meta.gen] + refreshInterval + Slack + late

(* One that has been signed has aged while it was due.                     *)
SignedAge ==
  renewal.pc \in {"signed", "store", "write", "record"} =>
    renewal.gen \in Gens /\ Duration <= life[renewal.gen] + late

(* So has one that is being stored, and its interval has begun.            *)
RenewalAge ==
  renewal.pc \in {"store", "write", "record"} =>
    /\ \/ life[renewal.gen] = 0
       \/ life[renewal.gen] + MinInterval <= Duration + renewal.due
    /\ Duration + renewal.due <= life[renewal.gen] + refreshInterval + late
    /\ refreshInterval <= renewal.due + late

(* The certificate in the volume is the one recorded, or newer.            *)
CertificateAge ==
  ~undone /\ ~refused /\ disk["cert"].content # 0 =>
    \/ disk["cert"].content = meta.gen
    \/ meta.due = 0 /\ Duration <= life[disk["cert"].content] + late

Ages == RecordedAge /\ SignedAge /\ RenewalAge /\ CertificateAge

(* So are the ages, given the types and what is whole.                     *)
LEMMA AgesInductive == Spec => [](Typed /\ Ages)
<1>1. Init => Ages
  BY DEF Init, Ages, RecordedAge, SignedAge, RenewalAge, CertificateAge, NoRenewal, NoFile, Names
<1>2. Typed /\ Typed' /\ IInv /\ IInv' /\ Ages /\ [Next]_vars => Ages'
  <2> SUFFICES ASSUME Typed, Typed', IInv, IInv', Ages, [Next]_vars
               PROVE  Ages'
    OBVIOUS
  <2> DEFINE cert == disk["cert"].content
             R == refreshInterval
  <2>1. R' = R /\ R \in Nat /\ MinInterval <= R
    BY ConfigKept, IntervalFacts DEF config, refreshInterval, Typed
  <2>2. /\ Gens \subseteq Nat /\ 0 \notin Gens /\ cert \in Gens \cup {0}
        /\ meta.gen \in Gens \cup {0} /\ renewal.gen \in Gens \cup {0}
        /\ \A g \in Gens : life[g] \in Nat
        /\ meta.due \in Nat /\ renewal.due \in Nat /\ late \in Nat /\ late <= Slack
        /\ MinInterval \in Nat /\ Duration \in Nat /\ Slack \in Nat /\ Slack <= MinInterval
    <3>1. cert \in Gens \cup {0}
      BY DEF Typed, DiskOK, Names, Contents
    <3>2. /\ meta.gen \in Gens \cup {0} /\ renewal.gen \in Gens \cup {0}
          /\ meta.due \in Nat /\ renewal.due \in Nat
      BY DEF Typed, MetaOK, RenewalOK
    <3>3. (\A g \in Gens : life[g] \in Nat) /\ late \in Nat /\ late <= Slack
      BY ConstantFacts DEF Typed, TimeOK
    <3>4. QED
      BY <3>1, <3>2, <3>3, ConstantFacts
  <2>3. CASE /\ UNCHANGED <<life, late, refused, undone>>
             /\ disk'["cert"].content = cert
             /\ meta'.due = meta.due /\ meta'.gen = meta.gen
             /\ \/ renewal' = renewal
                \/ renewal'.pc \in {"idle", "request"}
                \/ /\ renewal.pc \in {"store", "write"}
                   /\ renewal'.gen = renewal.gen /\ renewal'.due = renewal.due
    BY <2>1, <2>2, <2>3 DEF Ages, RecordedAge, SignedAge, RenewalAge, CertificateAge
  <2>4. CASE Sign
    <3>1. PICK g \in Gens \ InUse :
            /\ renewal' = [renewal EXCEPT !.pc = "signed", !.gen = g]
            /\ life' = [h \in Gens |-> IF h = g THEN Duration
                                       ELSE IF h \in InUse THEN life[h] ELSE 0]
      BY <2>4 DEF Sign
    <3>2. /\ meta.gen \in Gens => life'[meta.gen] = life[meta.gen]
          /\ cert \in Gens => life'[cert] = life[cert]
          /\ life'[g] = Duration
      BY <3>1 DEF InUse
    <3>3. UNCHANGED <<meta, late, refused, disk, undone>>
      BY <2>4 DEF Sign, volume
    <3>4. renewal'.pc = "signed" /\ renewal'.gen = g
      BY <3>1 DEF Typed, RenewalOK
    <3>5. RecordedAge' /\ CertificateAge'
      BY <2>1, <2>2, <3>2, <3>3 DEF Ages, RecordedAge, CertificateAge
    <3>6. SignedAge' /\ RenewalAge'
      BY <2>2, <3>2, <3>3, <3>4 DEF SignedAge, RenewalAge
    <3>7. QED
      BY <3>5, <3>6 DEF Ages
  <2>5. CASE StoreNext
    <3>1. /\ renewal.pc = "write" /\ meta.due = 0 /\ UNCHANGED <<meta, undone, life, late, refused>>
          /\ renewal'.gen = renewal.gen /\ renewal'.due = renewal.due
      BY <2>5 DEF StoreNext, IInv, WrittenSoFar, Typed, RenewalOK, time
    <3>2. disk'["cert"].content \in {cert, renewal.gen}
      <4> DEFINE n == Order[renewal.at]
      <4>1. n \in Names /\ disk' = [disk EXCEPT ![n] = writeFileInPlace(@, Payload[n], Gid)]
        BY <2>5, OrderFacts, PayloadFacts DEF StoreNext, Typed, RenewalOK
      <4>2. CASE n = "cert"
        <5>1. Payload["cert"] = renewal.gen
          BY DEF Payload, Stored, Names
        <5>2. QED
          BY <4>1, <4>2, <5>1 DEF writeFileInPlace, Typed, DiskOK
      <4>3. CASE n # "cert"
        BY <4>1, <4>3 DEF Typed, DiskOK, Names
      <4>4. QED
        BY <4>2, <4>3
    <3>3. QED
      BY <2>1, <2>2, <3>1, <3>2 DEF Ages, RecordedAge, SignedAge, RenewalAge, CertificateAge
  <2>6. CASE StoreFilesAtomic
    <3>1. /\ renewal.pc = "store" /\ meta.due = 0 /\ UNCHANGED <<meta, life, late, refused>>
          /\ renewal'.gen = renewal.gen /\ renewal'.due = renewal.due
      BY <2>6 DEF StoreFilesAtomic, IInv, WrittenSoFar, Typed, RenewalOK, time
    <3>2. disk'["cert"].content = renewal.gen
      BY <2>6 DEF StoreFilesAtomic, AtomicWrite, Payload, Stored, Names
    <3>3. QED
      BY <2>1, <2>2, <3>1, <3>2 DEF Ages, RecordedAge, SignedAge, RenewalAge, CertificateAge
  <2>7. CASE Record
    <3>1. /\ renewal.pc = "record" /\ renewal'.pc = "idle" /\ late' = 0
          /\ meta'.gen = renewal.gen /\ meta'.due = renewal.due
          /\ UNCHANGED <<disk, undone, life>>
      BY <2>7 DEF Record, NoRenewal, volume
    <3>2. ~undone => cert = renewal.gen
      BY <3>1 DEF IInv, WrittenSoFar, Complete
    <3>3. RecordedAge'
      <4>1. /\ renewal.gen \in Gens /\ life[renewal.gen] \in Nat
            /\ \/ life[renewal.gen] = 0
               \/ life[renewal.gen] + MinInterval <= Duration + renewal.due
            /\ Duration + renewal.due <= life[renewal.gen] + R + late
        BY <2>2, <3>1 DEF Ages, SignedAge, RenewalAge
      <4>2. life[renewal.gen] + R + late <= life[renewal.gen] + R + Slack + 0
        BY <2>1, <2>2, <4>1
      <4>3. QED
        BY <2>1, <2>2, <3>1, <4>1, <4>2 DEF RecordedAge
    <3>4. QED
      BY <3>1, <3>2, <3>3 DEF Ages, SignedAge, RenewalAge, CertificateAge
  <2>8. CASE UpdateFile \/ UpdateFileFails
    <3>1. UNCHANGED <<meta, undone, life, late, refused>>
          /\ (renewal' = renewal \/ renewal'.pc = "idle")
      BY <2>8 DEF UpdateFile, UpdateFileFails, time, NoRenewal
    <3>2. disk'["cert"].content = cert
      BY <2>8 DEF UpdateFile, UpdateFileFails, Typed, DiskOK, Names
    <3>3. QED
      BY <2>3, <3>1, <3>2
  <2>9. CASE UpdateFiles
    <3>1. UNCHANGED <<meta, renewal, life, late, refused>>
      BY <2>9 DEF UpdateFiles, time
    <3>2. ~undone' => ~undone /\ disk'["cert"].content = cert
      BY <2>9 DEF UpdateFiles, Names
    <3>3. QED
      BY <2>1, <2>2, <3>1, <3>2 DEF Ages, RecordedAge, SignedAge, RenewalAge, CertificateAge
  <2>10. CASE Tick
    <3>1. /\ UNCHANGED <<disk, undone>> /\ meta'.gen = meta.gen /\ meta'.due = Less(meta.due)
          /\ renewal'.pc = renewal.pc /\ renewal'.gen = renewal.gen
          /\ renewal'.due = Less(renewal.due)
          /\ meta.due > 0 \/ late < Slack \/ Refusing
          /\ late' = IF meta.due > 0 \/ Refusing THEN 0 ELSE late + 1
          /\ refused' = (refused \/ Refusing)
      BY <2>10 DEF Tick, volume, Typed, MetaOK, RenewalOK
    <3>2. \A g \in Gens \cap {cert, renewal.gen, meta.gen} : life'[g] = Less(life[g])
      BY <2>10 DEF Tick
    <3>3. \A n \in Nat : Less(n) \in Nat /\ (n = 0 => Less(n) = 0) /\ (n > 0 => Less(n) = n - 1)
      BY DEF Less
    <3>4. RecordedAge'
      <4>1. (meta.due > 0 => late = 0) /\ (meta'.due > 0 => late' = 0)
        BY <2>2, <3>1, <3>3 DEF Ages, RecordedAge
      <4>2. ASSUME meta.gen # 0
            PROVE  /\ \/ life'[meta.gen] = 0
                      \/ life'[meta.gen] + MinInterval <= Duration + meta'.due
                   /\ ~refused' =>
                        Duration + meta'.due <= life'[meta.gen] + R + Slack + late'
        <5>1. meta.gen \in Gens /\ life'[meta.gen] = Less(life[meta.gen]) /\ life[meta.gen] \in Nat
          BY <2>2, <3>2, <4>2
        <5>2. /\ life[meta.gen] = 0 \/ life[meta.gen] + MinInterval <= Duration + meta.due
              /\ ~refused => Duration + meta.due <= life[meta.gen] + R + Slack + late
          BY <4>2 DEF Ages, RecordedAge
        <5>3. \/ life'[meta.gen] = 0
              \/ life'[meta.gen] + MinInterval <= Duration + meta'.due
          BY <2>2, <3>1, <3>3, <5>1, <5>2
        <5>4. ASSUME ~refused'
              PROVE  Duration + meta'.due <= life'[meta.gen] + R + Slack + late'
          <6>1. ~refused /\ ~Refusing
            BY <3>1, <5>4
          <6>2. CASE meta.due = 0
            BY <2>1, <2>2, <3>1, <3>3, <5>1, <5>2, <6>1, <6>2
          <6>3. CASE meta.due > 0
            BY <2>1, <2>2, <3>1, <3>3, <4>1, <5>1, <5>2, <6>1, <6>3
          <6>4. QED
            BY <2>2, <6>2, <6>3
        <5>5. QED
          BY <5>3, <5>4
      <4>3. QED
        BY <2>1, <3>1, <4>1, <4>2 DEF RecordedAge
    <3>5. ASSUME renewal.pc # "idle"
          PROVE  meta.due = 0 /\ late' = late + 1 /\ late < Slack
      <4>1. meta.due = 0 /\ ~Refusing
        BY <3>5 DEF IInv, WrittenSoFar, Refusing
      <4>2. QED
        BY <2>2, <3>1, <4>1
    <3>6. SignedAge'
      <4>1. SUFFICES ASSUME renewal.pc \in {"signed", "store", "write", "record"}
                     PROVE  SignedAge'
        BY <3>1 DEF SignedAge
      <4>2. /\ renewal.gen \in Gens /\ life'[renewal.gen] = Less(life[renewal.gen])
            /\ life[renewal.gen] \in Nat /\ Duration <= life[renewal.gen] + late
        BY <2>2, <3>2, <4>1 DEF Ages, SignedAge
      <4>3. QED
        BY <2>2, <3>1, <3>3, <3>5, <4>1, <4>2 DEF SignedAge
    <3>7. RenewalAge'
      <4>1. SUFFICES ASSUME renewal.pc \in {"store", "write", "record"}
                     PROVE  RenewalAge'
        BY <3>1 DEF RenewalAge
      <4>2. meta.due = 0 /\ late' = late + 1 /\ late < Slack
        BY <3>5, <4>1
      <4>3. /\ renewal.gen \in Gens /\ life'[renewal.gen] = Less(life[renewal.gen])
            /\ life[renewal.gen] \in Nat
        BY <2>2, <3>2, <4>1 DEF Ages, SignedAge
      <4>4. /\ \/ life[renewal.gen] = 0
               \/ life[renewal.gen] + MinInterval <= Duration + renewal.due
            /\ Duration + renewal.due <= life[renewal.gen] + R + late
            /\ R <= renewal.due + late
        BY <4>1 DEF Ages, RenewalAge
      <4>5. renewal.due > 0
        BY <2>1, <2>2, <4>2, <4>4
      <4>6. /\ \/ life'[renewal.gen] = 0
               \/ life'[renewal.gen] + MinInterval <= Duration + renewal'.due
            /\ Duration + renewal'.due <= life'[renewal.gen] + R + late'
            /\ R <= renewal'.due + late'
        BY <2>1, <2>2, <3>1, <3>3, <4>2, <4>3, <4>4, <4>5
      <4>7. QED
        BY <2>1, <3>1, <4>6 DEF RenewalAge
    <3>8. CertificateAge'
      <4>1. SUFFICES ASSUME ~undone, ~refused', cert # 0, cert # meta.gen
                     PROVE  meta'.due = 0 /\ Duration <= life'[cert] + late'
        BY <3>1 DEF CertificateAge
      <4>2. ~refused /\ ~Refusing
        BY <3>1, <4>1
      <4>3. /\ meta.due = 0 /\ Duration <= life[cert] + late
            /\ cert \in Gens /\ life'[cert] = Less(life[cert]) /\ life[cert] \in Nat
        BY <2>2, <3>2, <4>1, <4>2 DEF Ages, CertificateAge
      <4>4. QED
        BY <2>2, <3>1, <3>3, <4>2, <4>3
    <3>9. QED
      BY <3>4, <3>6, <3>7, <3>8 DEF Ages
  <2>11. CASE StoreNextFails
    <3>1. /\ renewal.pc = "write" /\ meta.due = 0 /\ renewal' = NoRenewal
          /\ UNCHANGED <<meta, undone, life, late, refused>>
      BY <2>11 DEF StoreNextFails, IInv, WrittenSoFar, time
    <3>2. disk'["cert"].content \in {cert, renewal.gen}
      <4> DEFINE n == Order[renewal.at]
      <4>1. n \in Names /\ disk' = [disk EXCEPT ![n].content = Payload[n]]
        BY <2>11, OrderFacts, PayloadFacts DEF StoreNextFails, Typed, RenewalOK
      <4>2. CASE n = "cert"
        <5>1. Payload["cert"] = renewal.gen
          BY DEF Payload, Stored, Names
        <5>2. QED
          BY <4>1, <4>2, <5>1 DEF Typed, DiskOK
      <4>3. CASE n # "cert"
        BY <4>1, <4>3 DEF Typed, DiskOK, Names
      <4>4. QED
        BY <4>2, <4>3
    <3>3. QED
      BY <2>1, <2>2, <3>1, <3>2
      DEF Ages, RecordedAge, SignedAge, RenewalAge, CertificateAge, NoRenewal
  <2>12. CASE writeKeypair
    <3>1. /\ renewal.pc = "signed" /\ renewal'.pc = "store" /\ renewal'.gen = renewal.gen
          /\ renewal'.due = R /\ UNCHANGED <<meta, life, late, refused, disk, undone>>
      BY <2>12 DEF writeKeypair, volume, time, Typed, RenewalOK
    <3>2. RecordedAge' /\ CertificateAge' /\ SignedAge'
      BY <2>1, <2>2, <3>1 DEF Ages, RecordedAge, CertificateAge, SignedAge
    <3>3. renewal.gen \in Gens /\ Duration <= life[renewal.gen] + late
          /\ life[renewal.gen] \in Nat /\ life[renewal.gen] <= Duration
      <4>1. renewal.gen \in Gens /\ Duration <= life[renewal.gen] + late
        BY <3>1 DEF Ages, SignedAge
      <4>2. life[renewal.gen] \in 0..Duration
        BY <4>1 DEF Typed, TimeOK
      <4>3. QED
        BY <2>2, <4>1, <4>2
    <3>4. RenewalAge'
      BY <2>1, <2>2, <3>1, <3>3 DEF RenewalAge
    <3>5. QED
      BY <3>2, <3>4 DEF Ages
  <2>13. QED
    <3>1. CASE \/ BeginIssue \/ StoreRefused \/ StoreFiles \/ IssueFails \/ BeginUpdate
               \/ SkipUpdate \/ ReadCert \/ ReadKey \/ UpdateFails \/ Crash
               \/ UNCHANGED vars
      <4>1. UNCHANGED <<life, late, refused, disk, undone, meta>>
        BY <3>1 DEF BeginIssue, StoreRefused, StoreFiles, IssueFails, BeginUpdate, SkipUpdate,
           ReadCert, ReadKey, UpdateFails, Crash, vars, time, volume
      <4>2. \/ renewal' = renewal
            \/ renewal'.pc \in {"idle", "request"}
            \/ /\ renewal.pc \in {"store", "write"}
               /\ renewal'.gen = renewal.gen /\ renewal'.due = renewal.due
        <5>1. CASE BeginIssue
          BY <5>1 DEF BeginIssue, NoRenewal
        <5>2. CASE StoreFiles
          BY <5>2 DEF StoreFiles, Typed, RenewalOK
        <5>3. CASE renewal' = NoRenewal
          BY <5>3 DEF NoRenewal
        <5>4. QED
          BY <3>1, <5>1, <5>2, <5>3 DEF StoreRefused, IssueFails, BeginUpdate, SkipUpdate,
             ReadCert, ReadKey, UpdateFails, Crash, vars
      <4>3. QED
        BY <2>3, <4>1, <4>2
    <3>2. ASSUME NEW a \in FsGroups, Republish(a)
          PROVE  Ages'
      BY <2>3, <3>2 DEF Republish, time, volume, Typed, MetaOK
    <3>3. ASSUME NEW b \in Bundles, ChangeBundle(b)
          PROVE  Ages'
      BY <2>3, <3>3 DEF ChangeBundle, time, volume
    <3>4. QED
      BY <2>4, <2>5, <2>6, <2>7, <2>8, <2>9, <2>10, <2>11, <2>12, <3>1, <3>2, <3>3
      DEF Next, Issue, Update
<1>3. QED
  BY <1>1, <1>2, WholeInductive, PTL DEF Spec

(* Certificates are asked for at MinInterval or more from each other, or   *)
(* when the last one has expired (RenewalsSpaced).                         *)
THEOREM Spaced == Spec => RenewalsSpaced
<1>1. Typed /\ Ages /\ [Next]_vars =>
        (renewal.pc = "idle" /\ renewal'.pc = "request" /\ meta.gen # 0
           => life[meta.gen] = 0 \/ life[meta.gen] + MinInterval <= Duration)
  <2> SUFFICES ASSUME Typed, Ages, [Next]_vars, renewal.pc = "idle",
                      renewal'.pc = "request", meta.gen # 0
               PROVE  life[meta.gen] = 0 \/ life[meta.gen] + MinInterval <= Duration
    OBVIOUS
  <2>1. meta.due = 0
    <3>1. BeginIssue
      <4>1. /\ renewal' # renewal /\ renewal' # NoRenewal
        BY DEF NoRenewal
      <4>2. ~Sign /\ ~writeKeypair /\ ~StoreFiles /\ ~StoreNext /\ ~StoreFilesAtomic /\ ~Tick
        BY DEF Sign, writeKeypair, StoreFiles, StoreNext, StoreFilesAtomic, Tick, Typed,
               RenewalOK
      <4>3. QED
        BY <4>1, <4>2
        DEF Next, Issue, Update, vars, StoreRefused, StoreNextFails, Record, IssueFails,
            BeginUpdate, SkipUpdate, UpdateFile, ReadCert, ReadKey, UpdateFiles,
            UpdateFails, UpdateFileFails, Crash, Republish, ChangeBundle
    <3>2. QED
      BY <3>1 DEF BeginIssue
  <2>2. QED
    BY <2>1, ConstantFacts DEF Ages, RecordedAge, Typed, MetaOK, TimeOK
<1>2. QED
  BY <1>1, AgesInductive, PTL DEF Spec, RenewalsSpaced

(* If the interval and twice the slack fit into the duration, the          *)
(* certificate in the volume does not expire unless the driver refuses the *)
(* next one for the volume's group (NoLapse).                              *)
THEOREM Unlapsed == Spec => []NoLapse
<1>1. Typed /\ Ages => NoLapse
  <2> SUFFICES ASSUME Typed, Ages, refreshInterval + 2 * Slack < Duration, ~undone,
                      ~refused, disk["cert"].content # 0
               PROVE  life[disk["cert"].content] > 0
    BY DEF NoLapse
  <2> DEFINE c == disk["cert"].content
  <2>1. /\ c \in Gens /\ life[c] \in Nat /\ late \in Nat /\ late <= Slack
        /\ Slack \in Nat /\ Duration \in Nat /\ refreshInterval \in Nat /\ meta.due \in Nat
    BY ConstantFacts, IntervalFacts DEF Typed, DiskOK, TimeOK, MetaOK, Names, Contents
  <2>2. CASE c = meta.gen
    BY <2>1, <2>2 DEF Ages, RecordedAge
  <2>3. CASE c # meta.gen
    BY <2>1, <2>3 DEF Ages, CertificateAge
  <2>4. QED
    BY <2>2, <2>3
<1>2. QED
  BY <1>1, AgesInductive, PTL

=============================================================================
