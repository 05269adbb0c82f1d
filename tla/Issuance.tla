------------------------------ MODULE Issuance ------------------------------
(***************************************************************************)
(* The life of one volume that has been published: writeKeypair            *)
(* (internal/csi/driver/driver.go) storing certificates and recording      *)
(* when the next is due, the CA manager updating the CA file of the same   *)
(* volume (camanager.go), kubelet publishing it again with other           *)
(* attributes, time, failures and crashes, in both write modes.            *)
(*                                                                         *)
(* A file is written in one step; InplaceWriter has the system calls of a  *)
(* write, VolumeLayout the links and directories behind the names.  The    *)
(* group of a file is part of its state.                                   *)
(***************************************************************************)
EXTENDS Naturals, Sequences

CONSTANTS
  WriteModes,      \* the values of Options.WriteMode the driver may have
  Keystore,        \* TRUE: a keystore is written next to the pair
  FsGroups,        \* values of the volume attribute fs-group
  MountGroups,     \* values of the volume's VolumeMountGroup
  Intervals,       \* values of the volume attribute refresh-interval
  Unset,           \* an attribute that is not there
  NotANumber,      \* an attribute that does not parse
  MaxGid,          \* the largest gid, 4294967295
  MinInterval,     \* 60 minutes
  DefaultInterval, \* defaultRefreshInterval
  Duration,        \* how long a certificate is valid
  Slack,           \* the longest time in which a due issuance succeeds that
                   \* the driver does not refuse
  Gens,            \* issued key pairs that can be told apart, numbers from 1
  Bundles,         \* contents of the trust bundle, numbers from 1
  MaxFaults,       \* bound: failures and crashes in one behaviour
  MaxChanges       \* bound: changes of the bundle, and changes of fs-group

ASSUME IssuanceAssumption ==
  /\ WriteModes \subseteq {"", "atomic-dir", "in-place"} /\ Keystore \in BOOLEAN
  /\ {MaxGid, MinInterval, DefaultInterval, Duration} \subseteq Nat \ {0}
  /\ MinInterval <= DefaultInterval
  /\ Gens \subseteq Nat \ {0} /\ Bundles \subseteq Nat \ {0} /\ Bundles # {}
  /\ {Slack, MaxFaults, MaxChanges} \subseteq Nat /\ Slack <= MinInterval
  /\ FsGroups \cup MountGroups \cup Intervals \subseteq Nat \cup {Unset, NotANumber}

VARIABLES
  writeMode,  \* Options.WriteMode
  interval,   \* the attribute refresh-interval
  mountGroup, \* VolumeMountGroup of the volume
  pod,        \* the attribute fs-group as kubelet has it
  meta,       \* the volume's metadata: fsGroup as registered, due, the time
              \* left to NextIssuanceTime (0: none, or past), and gen, the
              \* issuance this records (a history component)
  disk,       \* disk[n]: contents and group of file n, contents 0 if absent
  dirGroup,   \* the group of the data directory
  bundle,     \* rootCAs.CertificatesPEM()
  renewal,    \* the volume's issuance: pc, what it has read so far, and the
              \* file of Order it is at
  updater,    \* the CA manager's pass at this volume, likewise
  life,       \* life[g]: the time for which certificate g is still valid
  late,       \* how long an issuance has been due and not refused
  refused,    \* history: time has passed while the driver refused the
              \* issuance that is due
  faults,     \* failures and crashes so far
  changes,    \* changes of fs-group and of the bundle so far
  undone      \* history: a CA update has changed more than the CA file

config == <<writeMode, interval, mountGroup>>
outside == <<config, pod, bundle>>
volume == <<disk, dirGroup, undone>>
time == <<life, late, refused>>
bounds == <<faults, changes>>
vars == <<outside, meta, volume, renewal, updater, time, bounds>>

Root == 0    \* the group of a file that nobody has given another one

Names == {"ca", "key", "keystore", "cert"}

(* The files that issuance writes, in the order in which the in-place      *)
(* writer takes them: by name, the certificate last.                       *)
Order == IF Keystore THEN <<"ca", "key", "keystore", "cert">>
                     ELSE <<"ca", "key", "cert">>
Stored == IF Keystore THEN Names ELSE Names \ {"keystore"}

NoFile == [content |-> 0, group |-> Root]
NoRenewal == [pc |-> "idle", fsGroup |-> Unset, due |-> 0, gen |-> 0, ca |-> 0,
              at |-> 1]
NoUpdate == [pc |-> "idle", fsGroup |-> Unset, ca |-> 0, cert |-> 0, key |-> 0]

Gids == 1..MaxGid
Groups == FsGroups \cup {Unset}
Contents(n) == {0} \cup (IF n = "ca" THEN Bundles ELSE Gens)

TypeOK ==
  /\ writeMode \in WriteModes /\ interval \in Intervals /\ mountGroup \in MountGroups
  /\ pod \in FsGroups
  /\ meta \in [fsGroup : Groups, due : Nat, gen : Gens \cup {0}]
  /\ disk \in [Names -> [content : Nat, group : {Root} \cup Gids]]
  /\ \A n \in Names : disk[n].content \in Contents(n)
  /\ dirGroup \in {Root} \cup Gids
  /\ bundle \in Bundles
  /\ renewal \in [pc : {"idle", "request", "signed", "store", "write", "record"}, fsGroup : Groups,
                  due : Nat, gen : Gens \cup {0}, ca : Bundles \cup {0}, at : 1..Len(Order)]
  /\ updater \in [pc : {"idle", "compare", "key", "write"}, fsGroup : Groups,
                  ca : Bundles \cup {0}, cert : Gens \cup {0}, key : Gens \cup {0}]
  /\ life \in [Gens -> 0..Duration] /\ late \in 0..Slack /\ refused \in BOOLEAN
  /\ faults \in 0..MaxFaults /\ undone \in BOOLEAN
  /\ changes \in [pod : 0..MaxChanges, bundle : 0..MaxChanges]

(* RegisterMetadata has just made the volume.                              *)
Init ==
  /\ writeMode \in WriteModes /\ interval \in Intervals /\ mountGroup \in MountGroups
  /\ pod \in FsGroups
  /\ meta = [fsGroup |-> pod, due |-> 0, gen |-> 0]
  /\ disk = [n \in Names |-> NoFile] /\ dirGroup = Root
  /\ bundle = CHOOSE b \in Bundles : TRUE
  /\ renewal = NoRenewal /\ updater = NoUpdate
  /\ life = [g \in Gens |-> 0] /\ late = 0 /\ refused = FALSE
  /\ faults = 0 /\ changes = [pod |-> 0, bundle |-> 0] /\ undone = FALSE

-----------------------------------------------------------------------------
(* Construction and attributes.                                            *)

(* New wraps the file system store once, for the driver ...                *)
store == IF writeMode = "in-place" THEN "in-place" ELSE "atomic-dir"

(* Mutant: ... and leaves the CA manager with the atomic writer.           *)
CAStoreAtomic == "atomic-dir"

(* ... and for the CA manager.                                             *)
caStore == store

(* Mutant: an interval below the minimum is taken as it is.                *)
RefreshIntervalNoMinimum ==
  IF interval \in {Unset, NotANumber} THEN DefaultInterval ELSE interval

(* parseRefreshInterval: the default for what is missing, does not parse   *)
(* or is too short; there is no upper bound.                               *)
refreshInterval ==
  IF interval \in {Unset, NotANumber} THEN DefaultInterval
  ELSE IF interval < MinInterval THEN DefaultInterval ELSE interval

(* The volume attribute goes before the mount group.                       *)
GroupString(fsGroup) == IF fsGroup # Unset THEN fsGroup ELSE mountGroup

(* Mutant: any number is taken for a gid.                                  *)
GroupValidUnbounded(fsGroup) == GroupString(fsGroup) # NotANumber

(* fsGroupForMetadata has no error ...                                     *)
GroupValid(fsGroup) == GroupString(fsGroup) \in {Unset} \cup Gids

(* ... and its result, Root standing for nil: leave the group alone.       *)
fsGroupForMetadata(fsGroup) ==
  IF GroupString(fsGroup) = Unset THEN Root ELSE GroupString(fsGroup)

(* ensureFileGroup, ensureDataDirGroup.                                    *)
ensureGroup(old, gid) == IF gid = Root THEN old ELSE gid

(* Mutant: a file that exists keeps the group it has.                      *)
WriteFileKeepsGroup(f, content, gid) ==
  [content |-> content, group |-> IF f.content = 0 THEN gid ELSE f.group]

(* writeFileInPlace: contents that are already there are not written, but  *)
(* the group is made right in every case.                                  *)
writeFileInPlace(f, content, gid) ==
  [content |-> content, group |-> ensureGroup(IF f.content = 0 THEN Root ELSE f.group, gid)]

(* The atomic writer leaves a directory alone that holds the payload and   *)
(* nothing else; otherwise it makes every file of the payload anew and     *)
(* removes all others.                                                     *)
AtomicWrite(payload, gid) ==
  IF \A n \in Names : disk[n].content = IF n \in DOMAIN payload THEN payload[n] ELSE 0
    THEN disk
    ELSE [n \in Names |-> IF n \in DOMAIN payload
                            THEN [content |-> payload[n], group |-> gid]
                            ELSE NoFile]

-----------------------------------------------------------------------------
(* Issuance.  csi-lib reads the metadata, asks for a certificate, waits    *)
(* for it and hands both to writeKeypair.                                  *)

(* Mutant: only a volume without a certificate gets one.                   *)
BeginIssueOnce ==
  /\ renewal.pc = "idle" /\ meta.due = 0 /\ meta.gen = 0
  /\ renewal' = [NoRenewal EXCEPT !.pc = "request", !.fsGroup = meta.fsGroup]
  /\ UNCHANGED <<outside, meta, volume, updater, time, bounds>>

BeginIssue ==
  /\ renewal.pc = "idle" /\ meta.due = 0
  /\ renewal' = [NoRenewal EXCEPT !.pc = "request", !.fsGroup = meta.fsGroup]
  /\ UNCHANGED <<outside, meta, volume, updater, time, bounds>>

InUse == {disk["cert"].content, disk["key"].content, disk["keystore"].content,
          meta.gen, updater.cert, updater.key}

(* The request is approved and signed: the certificate is valid from here, *)
(* however long csi-lib waits to see it.                                   *)
Sign ==
  /\ renewal.pc = "request" /\ Gens \ InUse # {}
  /\ LET g == CHOOSE g \in Gens \ InUse : TRUE
     IN /\ renewal' = [renewal EXCEPT !.pc = "signed", !.gen = g]
        /\ life' = [h \in Gens |-> IF h = g THEN Duration
                                   ELSE IF h \in InUse THEN life[h] ELSE 0]
  /\ UNCHANGED <<outside, meta, volume, updater, late, refused, bounds>>

(* writeKeypair up to WriteFiles: the next issuance counts from here, the  *)
(* bundle is sampled, the keystore is made of the new pair.                *)
writeKeypair ==
  /\ renewal.pc = "signed"
  /\ renewal' = [renewal EXCEPT !.pc = "store", !.due = refreshInterval, !.ca = bundle]
  /\ UNCHANGED <<outside, meta, volume, updater, time, bounds>>

Payload == [n \in Stored |-> IF n = "ca" THEN renewal.ca ELSE renewal.gen]

(* WriteFiles fails before it has changed anything.                        *)
StoreRefused ==
  /\ renewal.pc = "store" /\ ~GroupValid(renewal.fsGroup)
  /\ renewal' = NoRenewal
  /\ UNCHANGED <<outside, meta, volume, updater, time, bounds>>

Gid == fsGroupForMetadata(renewal.fsGroup)

(* Mutant: the metadata is written first.                                  *)
StoreFilesRecordFirst ==
  /\ renewal.pc = "store" /\ store = "in-place" /\ GroupValid(renewal.fsGroup)
  /\ dirGroup' = ensureGroup(dirGroup, Gid)
  /\ renewal' = [renewal EXCEPT !.pc = "write"]
  /\ meta' = [fsGroup |-> renewal.fsGroup, due |-> renewal.due, gen |-> renewal.gen]
  /\ late' = 0 /\ refused' = FALSE
  /\ UNCHANGED <<outside, disk, undone, updater, life, bounds>>

(* WriteFiles in place: the directory, then one file after the other.      *)
StoreFiles ==
  /\ renewal.pc = "store" /\ store = "in-place" /\ GroupValid(renewal.fsGroup)
  /\ dirGroup' = ensureGroup(dirGroup, Gid)
  /\ renewal' = [renewal EXCEPT !.pc = "write"]
  /\ UNCHANGED <<outside, meta, disk, undone, updater, time, bounds>>

StoreNext ==
  /\ renewal.pc = "write"
  /\ LET n == Order[renewal.at]
     IN disk' = [disk EXCEPT ![n] = writeFileInPlace(@, Payload[n], Gid)]
  /\ renewal' = IF renewal.at = Len(Order) THEN [renewal EXCEPT !.pc = "record"]
                                          ELSE [renewal EXCEPT !.at = @ + 1]
  /\ UNCHANGED <<outside, meta, dirGroup, undone, updater, time, bounds>>

(* An error or a crash after the contents and before the group: the latter *)
(* ends the CA manager's pass as well.                                     *)
StoreNextFails ==
  /\ renewal.pc = "write" /\ faults < MaxFaults /\ faults' = faults + 1
  /\ LET n == Order[renewal.at]
     IN disk' = [disk EXCEPT ![n].content = Payload[n]]
  /\ renewal' = NoRenewal /\ updater' \in {updater, NoUpdate}
  /\ UNCHANGED <<outside, meta, dirGroup, undone, time, changes>>

(* WriteFiles through the atomic writer.                                   *)
StoreFilesAtomic ==
  /\ renewal.pc = "store" /\ store = "atomic-dir" /\ GroupValid(renewal.fsGroup)
  /\ dirGroup' = ensureGroup(dirGroup, Gid)
  /\ disk' = AtomicWrite(Payload, Gid)
  /\ undone' = FALSE
  /\ renewal' = [renewal EXCEPT !.pc = "record"]
  /\ UNCHANGED <<outside, meta, updater, time, bounds>>

(* WriteMetadata of the metadata that was read when the issuance began.    *)
Record ==
  /\ renewal.pc = "record"
  /\ meta' = [fsGroup |-> renewal.fsGroup, due |-> renewal.due, gen |-> renewal.gen]
  /\ renewal' = NoRenewal /\ late' = 0 /\ refused' = FALSE
  /\ UNCHANGED <<outside, volume, updater, life, bounds>>

(* The request is denied or times out, the chain makes no keystore, a file *)
(* or the metadata cannot be written: csi-lib starts over.                 *)
IssueFails ==
  /\ renewal.pc # "idle" /\ faults < MaxFaults
  /\ renewal' = NoRenewal /\ faults' = faults + 1
  /\ UNCHANGED <<outside, meta, volume, updater, time, changes>>

-----------------------------------------------------------------------------
(* The CA manager at this volume.  A pass comes at any time: failures at   *)
(* other volumes and changes of the bundle bring one.                      *)

BeginUpdate ==
  /\ updater.pc = "idle"
  /\ updater' = [NoUpdate EXCEPT !.pc = "compare", !.fsGroup = meta.fsGroup, !.ca = bundle]
  /\ UNCHANGED <<outside, meta, volume, renewal, time, bounds>>

SkipUpdate ==
  /\ updater.pc = "compare" /\ disk["ca"].content = updater.ca
  /\ updater' = NoUpdate
  /\ UNCHANGED <<outside, meta, volume, renewal, time, bounds>>

(* WriteFile of the CA file alone.                                         *)
UpdateFile ==
  /\ updater.pc = "compare" /\ disk["ca"].content # updater.ca
  /\ caStore = "in-place" /\ GroupValid(updater.fsGroup)
  /\ LET gid == fsGroupForMetadata(updater.fsGroup)
     IN /\ dirGroup' = ensureGroup(dirGroup, gid)
        /\ disk' = [disk EXCEPT !["ca"] = writeFileInPlace(@, updater.ca, gid)]
  /\ updater' = NoUpdate
  /\ UNCHANGED <<outside, meta, undone, renewal, time, bounds>>

(* An error or a crash after the directory's group, or after the contents  *)
(* and before the file's group: the crash ends the issuance as well.       *)
UpdateFileFails ==
  /\ updater.pc = "compare" /\ disk["ca"].content # updater.ca
  /\ caStore = "in-place" /\ GroupValid(updater.fsGroup)
  /\ faults < MaxFaults /\ faults' = faults + 1
  /\ dirGroup' = ensureGroup(dirGroup, fsGroupForMetadata(updater.fsGroup))
  /\ disk' \in {disk, [disk EXCEPT !["ca"].content = updater.ca]}
  /\ updater' = NoUpdate /\ renewal' \in {renewal, NoRenewal}
  /\ UNCHANGED <<outside, meta, undone, time, changes>>

(* Without a single-file writer the pair is read back, in two reads ...    *)
ReadCert ==
  /\ updater.pc = "compare" /\ disk["ca"].content # updater.ca
  /\ caStore = "atomic-dir" /\ disk["cert"].content # 0
  /\ updater' = [updater EXCEPT !.pc = "key", !.cert = disk["cert"].content]
  /\ UNCHANGED <<outside, meta, volume, renewal, time, bounds>>

ReadKey ==
  /\ updater.pc = "key" /\ disk["key"].content # 0
  /\ updater' = [updater EXCEPT !.pc = "write", !.key = disk["key"].content]
  /\ UNCHANGED <<outside, meta, volume, renewal, time, bounds>>

(* ... and written with the bundle: these names, and no others.            *)
UpdateFiles ==
  /\ updater.pc = "write" /\ GroupValid(updater.fsGroup)
  /\ LET gid == fsGroupForMetadata(updater.fsGroup)
         payload == [n \in {"ca", "cert", "key"} |-> updater[n]]
     IN /\ dirGroup' = ensureGroup(dirGroup, gid)
        /\ disk' = AtomicWrite(payload, gid)
        /\ undone' = (undone \/ \E n \in Names \ {"ca"} :
                                  disk'[n].content # disk[n].content)
  /\ updater' = NoUpdate
  /\ UNCHANGED <<outside, meta, renewal, time, bounds>>

(* A read finds no file, or the group is refused.                          *)
UpdateRefused ==
  \/ /\ updater.pc = "compare" /\ disk["ca"].content # updater.ca
     /\ IF caStore = "in-place" THEN ~GroupValid(updater.fsGroup)
                                ELSE disk["cert"].content = 0
  \/ updater.pc = "key" /\ disk["key"].content = 0
  \/ updater.pc = "write" /\ ~GroupValid(updater.fsGroup)

(* The pass ends with an error, that one or any other, to be tried again.  *)
UpdateFails ==
  /\ updater.pc # "idle"
  /\ \/ UpdateRefused /\ UNCHANGED faults
     \/ faults < MaxFaults /\ faults' = faults + 1
  /\ updater' = NoUpdate
  /\ UNCHANGED <<outside, meta, volume, renewal, time, changes>>

-----------------------------------------------------------------------------
(* The environment.                                                        *)

(* The driver dies between any two steps and starts again.                 *)
Crash ==
  /\ faults < MaxFaults /\ faults' = faults + 1
  /\ renewal.pc # "idle" \/ updater.pc # "idle"
  /\ renewal' = NoRenewal /\ updater' = NoUpdate
  /\ UNCHANGED <<outside, meta, volume, time, changes>>

(* NodePublishVolume for a volume that is there: RegisterMetadata replaces *)
(* the attributes that it finds changed and leaves the rest of the         *)
(* metadata.                                                               *)
Republish(a) ==
  /\ a # meta.fsGroup
  /\ pod' = a /\ meta' = [meta EXCEPT !.fsGroup = a]
  /\ a = pod \/ changes.pod < MaxChanges
  /\ changes' = IF a = pod THEN changes ELSE [changes EXCEPT !.pod = @ + 1]
  /\ UNCHANGED <<config, bundle, volume, renewal, updater, time, faults>>

ChangeBundle(b) ==
  /\ b # bundle /\ bundle' = b
  /\ changes.bundle < MaxChanges /\ changes' = [changes EXCEPT !.bundle = @ + 1]
  /\ UNCHANGED <<config, pod, meta, volume, renewal, updater, time, faults>>

Less(t) == IF t = 0 THEN 0 ELSE t - 1

(* The driver refuses the issuance that is due, and every other try at it. *)
Refusing == meta.due = 0 /\ renewal.pc = "idle" /\ ~GroupValid(pod)

(* Time passes.  Kubelet publishes every volume again several times in a   *)
(* unit of time (requiresRepublish).  An issuance that is due succeeds     *)
(* within Slack, unless the driver refuses it: then it stays due for as    *)
(* long as kubelet asks for that group.  Of the certificates that are      *)
(* nowhere any more, life says nothing.                                    *)
Tick ==
  /\ meta.fsGroup = pod
  /\ meta.due > 0 \/ late < Slack \/ Refusing
  /\ meta' = [meta EXCEPT !.due = Less(@)]
  /\ renewal' = [renewal EXCEPT !.due = Less(@)]
  /\ life' = [g \in Gens |-> IF g \in {disk["cert"].content, renewal.gen, meta.gen}
                              THEN Less(life[g]) ELSE 0]
  /\ late' = IF meta.due > 0 \/ Refusing THEN 0 ELSE late + 1
  /\ refused' = (refused \/ Refusing)
  /\ UNCHANGED <<outside, volume, updater, bounds>>

-----------------------------------------------------------------------------
Issue == BeginIssue \/ Sign \/ writeKeypair \/ StoreRefused \/ StoreFiles \/ StoreNext
           \/ StoreFilesAtomic \/ Record
Update == BeginUpdate \/ SkipUpdate \/ UpdateFile \/ ReadCert \/ ReadKey \/ UpdateFiles

Next ==
  \/ Issue \/ IssueFails \/ StoreNextFails
  \/ Update \/ UpdateFails \/ UpdateFileFails
  \/ Crash \/ Tick
  \/ \E a \in FsGroups : Republish(a)
  \/ \E b \in Bundles : ChangeBundle(b)

Spec == Init /\ [][Next]_vars

(* csi-lib goes on issuing, kubelet goes on publishing what the pod says,  *)
(* and time passes.                                                        *)
FairSpec ==
  /\ Spec
  /\ WF_vars(Issue) /\ WF_vars(Tick)
  /\ WF_vars(Republish(pod))

-----------------------------------------------------------------------------
Complete(g) ==
  /\ disk["cert"].content = g /\ disk["key"].content = g
  /\ Keystore => disk["keystore"].content = g

(* While the metadata says that nothing is due, the volume holds the       *)
(* issuance that it records, whole: neither an error or a crash between    *)
(* two files or before WriteMetadata nor a CA update leaves a set that     *)
(* counts as done (driver.go:561-562, 615-623).  A CA update in atomic-dir *)
(* mode is excepted, as documented (camanager.go:171-175); in-place mode   *)
(* needs no exception (camanager.go:195-203).                              *)
NotDueMeansComplete ==
  meta.due > 0 /\ (writeMode = "in-place" \/ ~undone) => Complete(meta.gen)

(* The certificate in the volume does not expire, provided that its        *)
(* duration has room for the interval (driver.go:569), for the time from   *)
(* the signing of one certificate to its record, and for as much until the *)
(* next one is stored.  Excepted are an old certificate that a CA update   *)
(* has put back, and one that lapses while the driver refuses to issue the *)
(* next for the volume's group (storage_inplace.go:178-181).               *)
NoLapse ==
  /\ refreshInterval + 2 * Slack < Duration
  /\ ~undone /\ ~refused /\ disk["cert"].content # 0
  => life[disk["cert"].content] > 0

(* No attribute, crash or re-publish makes a volume whose certificate has  *)
(* been recorded ask for another within MinInterval of it, unless that     *)
(* certificate has expired by then (util.go:127).                          *)
RenewalsSpaced ==
  [][renewal.pc = "idle" /\ renewal'.pc = "request" /\ meta.gen # 0
       => life[meta.gen] = 0 \/ life[meta.gen] + MinInterval <= Duration]_vars

(* A volume whose group can be used has a certificate again and again that *)
(* is not due, whatever fails in between: a crash between WriteFiles and   *)
(* WriteMetadata included (driver.go:616-623).                             *)
RenewedInTheEnd == []<>(meta.due > 0 \/ ~GroupValid(pod))

InGroup(gid) ==
  dirGroup = gid /\ \A n \in Names : disk[n].content # 0 => disk[n].group = gid

(* A group that kubelet goes on asking for reaches the directory and every *)
(* file, those whose contents do not change included, even if issuances    *)
(* and CA updates with older metadata are under way                        *)
(* (storage_inplace.go:654-658): again and again all is as the pod has it. *)
GroupsFollow ==
  []<>(\/ ~GroupValid(pod) \/ fsGroupForMetadata(pod) = Root
       \/ InGroup(fsGroupForMetadata(pod)))

(* options.go:243-244: keystores are provided alongside the PEM files.     *)
KeystoreBesideThePair ==
  Keystore /\ meta.due > 0 => disk["keystore"].content # 0

(* camanager.go:171: a CA update reads the current keypair off the volume  *)
(* and writes that back.  A pair: the certificate and the key belong       *)
(* together when nobody is writing.                                        *)
PairBelongsTogether ==
  renewal.pc = "idle" /\ updater.pc = "idle"
    => disk["cert"].content = disk["key"].content

=============================================================================
