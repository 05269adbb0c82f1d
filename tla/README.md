# Verification of csi-driver-athenz

TLA+ models of the parts of csi-driver-athenz whose correctness depends on
interleavings, failures and crashes, the TLC configurations that check them, and
TLAPS proofs about seven of them. Paths below are relative to the repository.

## The system

csi-driver-athenz gives every pod that mounts one of its volumes an X.509
certificate with the pod's SPIFFE identity. It is two programs: the **driver**, a
CSI node plugin that runs on every node, and the **approver**, a controller that
decides on the CertificateRequests the drivers create.

| component | state | operations | meets |
| --- | --- | --- | --- |
| CA manager (`internal/csi/driver/camanager.go`) | `updateChan` (one token), the loop's position, sleeping retries | `run`, `updateRootCAFiles` | root CA source (events, bundle), store (metadata, CA file), issuance (the same CA file), shutdown |
| root CA source (`internal/csi/rootca/file.go`; `memory.go` for tests) | `certificatesPEM`, the watch, subscribers | `NewFile`, `start`, `reloadCertificatesPEM`, `Subscribe` | kubelet (the mounted ConfigMap), CA manager, `writeKeypair` |
| in-place store (`internal/csi/driver/storage_inplace.go`) | the files of the volume | `WriteFiles`, `WriteFile`, `removeUnlistedFiles`, `brokenAtomicLayout` | issuance, CA manager, the consumer that watches the certificate's inode |
| atomic-dir store (same file) | the `..data` layout | `WriteFiles`, `clearInplaceArtifacts` | csi-lib's atomic writer |
| issuance (`internal/csi/driver/driver.go`) | none of its own: the files and the metadata of the volume | `generateRequest`, `writeKeypair` | csi-lib manager, store, root CA source, API server |
| volume life cycle (csi-lib, external) | metadata on disk, one renewal loop per volume | publish, unpublish, renew | kubelet, issuance |
| approver controller (`internal/approver/controller`) | informer cache, work queue | filter, `Reconcile` | API server, evaluator, other approvers |
| approver evaluator (`internal/approver/evaluator`) | none | `Evaluate` | API server (annotations of the namespace) |
| options and construction (`internal/*/app`, `driver.New`, `Driver.Run`) | the write mode, the shared store, what both programs are configured to | parsing, wiring, waiting for shutdown | the two programs, by being given the same flags |
| logging flags, version, Helm chart | none | | |

What is hard: four kinds of goroutine of the driver touch one volume (issuance, the
CA manager, publish, unpublish) with no lock among them; the CA manager's loop
feeds itself through a channel; events are goroutines parked on an unbuffered
channel; the file watch is bound to an inode that kubelet replaces; the store
promises something to a reader in another process that takes no lock; a crash can
come between any two system calls, and the next driver may run in the other write
mode; the approver decides from a cache that lags. `PROJECT.json` lists the hazards
at their lines, with the properties that would catch them.

## The modules

| module | models | lines of code |
| --- | --- | --- |
| `BundleSource` | what a root CA source promises its subscriber; the memory source is exactly this | `memory.go:39-79` |
| `RootCAFile` | the root CA source over inotify and a mounted ConfigMap | `file.go:53-157` |
| `CAManager` | the run loop, retries and update pass of the CA manager, with the broadcasts it receives, the renewals that write the same file, volumes coming and going, and shutdown | `camanager.go:100-233`, `file.go:119-140`, `driver.go:379-402, 572-618` |
| `PairHandover` | what the in-place mode promises a consumer | `storage_inplace.go:36-43` |
| `InplaceWriter` | the writes inside the files of a volume, two writers and a reader at a time | `storage_inplace.go:162-215, 414-457, 536-551, 625-742` |
| `VolumeLayout` | the data directory across write modes, configurations and crashes | `storage_inplace.go:162-457, 573-698` |
| `Issuance` | the life of a published volume: issuances, the schedule, metadata, groups, keystores, CA updates, time | `driver.go:315-343, 548-626`, `util.go:116-139`, `storage_inplace.go:162-215, 636-827`, `camanager.go:180-230` |
| `Identity` | the identity a driver asks for and what the evaluator accepts, under the flags of both | `driver.go:304-306, 406-544`, `util.go:60-70`, `identity.go`, `evaluator.go:86-118`, `extensions.go:65-175`, both `options.go` |
| `Approver` | filter, queue and Reconcile over an API server and a lagging cache | `controller.go:73-132` |
| `CAManager_proofs`, `RootCAFile_proofs`, `Issuance_proofs`, `InplaceWriter_proofs`, `VolumeLayout_proofs`, `Approver_proofs`, `Identity_proofs` | theorems about the modules of those names | |

How they fit together: `RootCAFile` implements `BundleSource`, and what `CAManager`'s
environment does to the bundle and its events are steps of one (both are checked and
proved); for the latter this says no more than that the manager was given an environment
of that kind. The manager's `ChangeBundle` announces changes only, as the file source does;
that the memory source may announce equal contents as well is in `BundleSource` alone.
`InplaceWriter` implements `PairHandover` (checked, and proved but for fairness). `Issuance` puts the two writers of a
volume, issuance and the CA manager, on one volume over a long time, a file per step;
`InplaceWriter` and `VolumeLayout` open up such a step, the one into system calls on
file contents, the other into entries of the directory.

Each `MC*` module extends the module of the same name for TLC.

**CAManager.** An action is what a goroutine does between two points where another
one can see it: a channel operation, or one access to the bundle or a volume. `pc`
is the loop's position; `updateChan`, `broadcasts`, `retriers` and `parked` count
the token in the channel, goroutines at the watcher channel, sleeping retries, and
retries blocked sending. A receive hands the slot to a parked sender in the same
step, as the Go runtime does. `singleFile`, chosen at the
start, says that the in-place mode is used; without it a pass has to read the keypair
back. `Settle` is no step of the program: it turns the
environment off, so that liveness can be stated of the time after. `server` is the gRPC
server that `Driver.Run` waits for next to the loop; it may end with an error at any
time, which does not end the loop (Run then goes on waiting; the chart's liveness probe
is what restarts the container).
`outdated` is a history variable: volumes that somebody other than the CA manager
left with an old bundle (a renewal that had sampled it, a volume found at start, a
change before `Subscribe`), which the manager does not promise to repair.

**InplaceWriter.** A file is a row of blocks, each with a tag (the generation of a
renewal, or a bundle); how many blocks contents take is a constant (`Size`), one or two
in the runs, so that a write can be seen half done and a shorter write leaves a tail.
`BeginUpdate` is the CA manager sampling the bundle; `Skip` is a file found to hold what is
to be written, by the manager's comparison or by the writer's.
`WriteAt` goes block by block under the inode's lock, `Truncate` follows. `Fail` and `Crash` stop a writer between
any two steps. The consumer takes an event, reads the certificate, then the key, and
serves the pair if it matches; its fairness says only that it reads when there is an
event. `HandsOverPairs` is the refinement: with `gen` for what has been issued,
`stored` for what is stored and `loaded` for what is served, every behaviour is one of
`PairHandover`, its fairness included.

**VolumeLayout.** `root`, `dirs` and `data` are the entries of the directory, the
timestamped directories and `..data`. `WriteFiles`, `WriteFile` and
`WriteFilesAtomic` are the checks that open a write in each store; each later action
changes one entry. The atomic writer is csi-lib's and external: its steps are those
the comments of `clearInplaceArtifacts` and `removeUnlistedFiles` rely on (a link is
made only where there is no entry, a path to remove must exist, an unchanged payload
is not written). `Stop` is a crash or an error, after which the driver may run with
another mode and other file names; `Tear` is somebody removing half of the layout.
What configurations there are is a constant: `CAFile[p]` is the CA file of a driver that
writes the files `p`, if it has root CAs.
Writers of one volume run one at a time in this module. `InodesSurvive` speaks of the names
of the payload that is being written; a name that a new configuration drops is removed.

**RootCAFile.** The path leads to an inode, the watch is bound to one, and deleting
an inode takes its watch along and queues a remove event. `Switch` and `DeleteOld`
are the two halves of kubelet's update of a mounted ConfigMap. `missed` is a history
variable for the two windows in which the source cannot see a change: between
`NewFile`'s read and its watch, and after a failed renewal of the watch.

`IsABundleSource` maps `pem` and `broadcasts` to those of `BundleSource`; it also asks
that nothing is announced when nothing has changed, which the memory source does not
promise.

**Issuance.** `disk` has the contents and the group of each file; contents are numbers
of key pairs and of bundles. `renewal` is the issuance in progress with the copy of the
metadata that csi-lib read for it, `updater` the CA manager's pass at this volume, with
what each has read so far: both act on old copies while `meta` and `bundle` change.
In place, files are written one after the other in the order of the code, and a failure
or crash can come between a file's contents and its group, whichever of the two is writing
(`StoreNextFails`, `UpdateFileFails`). The atomic writer is one step, since
a reader sees it as one, and it leaves a payload alone that is there already.
The key pairs are a finite set; one that is nowhere any more is used again. `undone` is a
history variable: a CA update in atomic-dir mode has put something else than the CA file
back, which the code documents (`camanager.go:171-175`).

Time is counted in `Tick`s of half the minimum interval; `due` and `life` count down. A
certificate is valid from its signing (`Sign`), which comes before csi-lib sees it;
`writeKeypair` counts the next issuance from its own start, before it writes. `late` counts how
long an issuance has been due, from the request to `Record`, and `Slack` bounds it: that is
what `NoLapse` has to assume of the issuer. It is not assumed of an issuance that the driver
itself refuses (`Refusing`: a group that is no gid, `storage_inplace.go:178-181`): that one
stays due while time goes on and the certificate expires, and `refused`, a history variable,
is how `NoLapse` excepts it. A re-publish sets the attributes in the metadata, an issuance
under way writes its older copy over them, and kubelet publishes every volume again every few
minutes (`requiresRepublish`, `csidriver.yaml:16`), so `Tick` waits for it.

**Approver.** `api` and `cache` hold a request's issuer, verdict, conditions and resource
version, `versions` the last version under a name. `Update` needs the version that was read.
Anybody makes requests under any name that is free, deletes them, and makes others of the same
name for another issuer, whatever the cache, the queue or Reconcile remember (csi-lib generates
its names, others choose theirs). `Verdicts` says what evaluating a request can say: a decision;
that it changes with the namespace, which the evaluation reads from the API server, an error
counting as a failed check (`"unstable"`); or that it panics, as it does on a CSR
without URIs (`identity.go:45`): the worker recovers and puts the request back
(`EvaluatePanics`), for ever. `Others` are the requests that other approvers decide on too.
Reconcile looks at neither the conditions nor the issuer again, so a request that is decided
while it waits gets a second decision (`Others` are excepted from `OneDecision`), and one of
another issuer that has taken the name of a queued one is decided: `OnlyOurRequests` is violated,
and `StrangersUndecided` says that this is the only way, with `wereOurs` (history) for the names
that one of our requests has had. What is decided then is still the verdict on that very
request (`OneDecision`). The admission webhook of cert-manager, which refuses a second
decision where it is installed, is not modelled.

**Identity.** `flags` are what both programs are given, as the chart does; what is not given
has each program's default, and those of the issuer's group differ. A name is a sequence of
words, dots and dashes, of any length, so that joining, splitting at the last dot and
dashing do what they do in the code. Annotations may be anything that a URL carries as it is:
that the identity is parsed and rendered again (`driver.go:467`, `identity.go:52`) is taken as
the identity function. Of service account names it is assumed that a dot is followed by a
word (`HasParts`), since they are DNS subdomains. The evaluator relies on that: service accounts `a-.b.api` and `a.-b.api`, were there any, would
both belong to the namespace `a---b`. `request` holds
what a driver asks for (`Volumes`) and what somebody else does (`Others`), each for
the service account of `pod`. The evaluator reads the annotations up to twice:
`Evaluate` is everything up to the first read and what follows from it, state
`identified` is before the second one. Either read can fail, which denies the request,
and annotations change at any time. `excused` and `annotated` are history variables.
A request without URIs makes the evaluator panic (`identity.go:45`), and no action decides
it here; `Approver` has what comes of that. A crash between the two reads
starts the evaluation again and is left to `Approver`; parsing and signatures are left
out, and host names, which the evaluator does not look at, are one kind of name.

## The runs

| run | expects | shows |
| --- | --- | --- |
| `CAManagerPasses` | pass | nothing announced is forgotten, retries do not multiply, samples are fresh; volumes are updated and `Driver.Run` returns unless the loop blocks on its own channel; the manager uses a `BundleSource` |
| `CAManagerUpdated` | violation of `VolumesUpdated` | the loop does block on its own channel |
| `RootCAFileWatch` | pass | the file is followed except for changes in the two windows; the source implements `BundleSource` |
| `InplaceWriterFaults` | pass | the stored pair stays on disk, the certificate completes the set, no file is emptied; the volume implements `PairHandover` |
| `InplaceWriterCAFile` | violation of `CAFileIsABundle` | a renewal and a CA update leave a CA file that is no bundle |
| `VolumeLayoutModes` | pass | success means delivered, no layout makes a later write fail, inodes survive, a CA write touches nothing else |
| `IssuanceLife` | pass | what is not due is whole, certificates do not lapse unless the next one is refused, renewals are spaced and go on, groups follow the pod |
| `IssuanceKeystore` | violation of `KeystoreBesideThePair` | a CA update in atomic-dir mode removes the keystores |
| `IssuancePair` | violation of `PairBelongsTogether` | a CA update in atomic-dir mode can tear a pair apart |
| `ApproverDecisions` | pass | one decision, the right one, a stranger's request only under a name that was ours, nobody's decision lost, one in the end unless the evaluation panics |
| `ApproverIssuer` | violation of `OnlyOurRequests` | a request of another issuer that takes the name of a queued one is reconciled |
| `IdentityAgreement` | pass | what a driver asks for is approved, no identity is shared, tenants stay apart, no denial is for good |

Every property of a passing run has a mutant in its module, a definition changed as
a plausible bug would change it, with which TLC finds the property violated.

### Bounds

- `MaxChanges` 3 in `CAManager`, in both write modes: the self-deadlock needs two changes
  (`StuckTakesTwoChanges`), and a third shows what follows it. The number of failures is
  not bounded: it is bounded by the work there is (`RetriesDoNotMultiply`). One volume:
  with two, liveness takes too long, and the safety properties are proved for any number
  of volumes, a failing one ahead of a skipped one included.
- `Issuance`: five key pairs tell apart the one on disk, the one recorded, the one being
  stored and the two halves a CA update has read. One failure or crash, one change of the
  bundle and one of the group, at any moment; the groups are none (the mount group
  counts), one that is valid and one beyond `MaxGid`. The one interval in the run is 1, below
  the minimum of 2, so the default (2) applies; with slack 1 a duration of 5 is the least
  that the premise of `NoLapse` admits (2 + 2 < 5). That longer intervals, ones that do not
  parse and ones that are missing are spaced as well is shown by the proof (`Spaced`).
  The proofs have none of these bounds.
- `MaxGen` 3 in `InplaceWriter`: an issued pair, a renewal that fails, and one that
  follows; contents one and two blocks long in every order. The
  proofs hold for contents of any lengths.
- `MaxStops` 3 and five directories in `VolumeLayout`: a crash can leave one
  directory behind, so a free one is never missing; three changes of mode or
  configuration cover in-place, rollback and return. Two payloads of different
  contents suffice to tell delivered from stale. Four configurations (`MCVolumeLayout`):
  without keystores, with one, with another name for the CA file, and without root CAs.
  The proofs have none of these bounds.
- `MaxFiles` 3 in `RootCAFile`: a switch during the handling of the switch before.
  `MaxParked` stops the file, not the source, when that many events are unread.
- `MaxVersion` 2 in `Approver`: what others do under each name makes two versions, so a
  request and a foreign write to it, or a request and one of the same name after it, of either
  issuer. `MaxErrors` 1: one error or restart, at any moment.
- Four sets of flags in `Identity`: none; issuer and trust domain; those and a duration,
  given or zero. Two domains, one with a dot and one with a dash, their two namespaces,
  and three service accounts (`MCIdentity`), one without a domain: names that are told apart by the
  dashes only. One change of an annotation, before a request, between it and its
  evaluation, between the two reads, or after a denial. Who asks is any pair of pods.
  The proofs have none of these bounds: names have any length there.

Deadlock is checked in `IssuanceLife`: time waits there, for the next re-publish and, at
`Slack`, for a due issuance that the driver does not refuse, and a state in which neither time
nor what it waits for can go on would be an error of the schedule. Elsewhere it is not: with its environment still, each of these
programs waits for ever, as it should; the block that matters is `Stuck` of `CAManager`.

### Fairness

- `CAManager`: weak fairness of the run loop and of retries (goroutines are
  scheduled, timers fire), strong fairness of `Close` (Go's select picks among ready
  cases at random). In atomic-dir mode also of the
  first issuance of a volume, which csi-lib retries; renewals of volumes that have a
  certificate are hours away and are not relied on. The server ends once it is stopped.
  Nothing is owed by changes, failures, kubelet or the operator.
- `InplaceWriter`: the consumer only. The writers may stop anywhere.
- `RootCAFile`: the event loop, and kubelet removing what it has replaced (it does
  so right after the switch).
- `Issuance`: csi-lib, which goes on issuing (its retries do not give up); kubelet, which
  goes on publishing what the pod says; and time. Nothing is owed by the CA manager,
  failures, crashes or changes.
- `Identity`: csi-lib, which tries again until it has a certificate, and the evaluation
  of a driver's request, strongly: reads of the annotations do not fail for ever.
- `Approver`: the informer, the worker, and the queue serving every request; errors
  are not fair, which is why a request is decided in the end.

## Findings

1. `camanager.go:125`: the loop sends to `updateChan`, which only it receives from.
   When it takes the event of a change while the token of an earlier change, or of a
   retry, is still in the buffer, the send blocks for ever, no later change reaches any
   volume and the driver does not end on shutdown. Two changes suffice and no pass has
   to fail; one change never does it (`StuckTakesTwoChanges`). Nothing ends the block, since only the
   loop receives. `driver.go:152-153` promises the update.
2. `storage_inplace.go:226-227` (and `camanager.go:176-177`) says that a concurrent
   renewal can at worst write identical bytes to the CA file. It writes the bundle
   it sampled earlier, and the two writes can interleave into a file that is no
   bundle; nothing repairs it before the next change or renewal.
3. `camanager.go:220`: in atomic-dir mode a CA update writes certificate, key and CA file
   through a writer for which a payload is the complete desired state, so the keystores
   are gone from every volume after the first change of the bundle, until the next
   renewal. `options.go:243-244` promises them alongside the PEM files.
4. `camanager.go:209-218`: the certificate and the key are read back one after the other,
   and a renewal in between leaves the old certificate with the new key. The comment at
   `camanager.go:171-175` speaks of the old pair.
5. `controller.go:118`: the issuer is compared in the event filter alone. When a queued
   request is deleted and somebody makes one of the same name for another issuer, Reconcile
   decides that one, although `controller.go:111-112` says that it is called for requests that
   match the configured issuer (and are undecided).

Cases the models except or only describe:

- A watch that cannot be renewed because the file is missing at that moment is lost for
  good (`file.go:99-101`), and a change between `NewFile`'s read and its watch is not
  seen before the next one (`file.go:57-67`): `missed` in `RootCAFile`.
- A volume with regular files next to links, whose links somebody else tears down, loses
  the inodes of the regular files in the rebuild (`storage_inplace.go:191-206`;
  `InodesSurvive` speaks of healthy layouts).
- `storage_inplace.go:172-173` says that no write happens for a volume without metadata; the
  CA manager can write one that was unpublished since it looked (`camanager.go:181-196`),
  which makes its data directory again. `CAManager` has these behaviours.
- The premise of `NoLapse` is not met by the defaults: certificates are asked for an hour
  (`options.go:215`, `values.yaml`) and renewed after a day (`driver.go:67`).
- A certificate does lapse while the driver refuses the next one for the group that the pod
  asks for (`storage_inplace.go:178-181`): `refused` in `Issuance`.
- `evaluator.go:69-70` says that with multi-tenancy the namespace's name has to match the
  domain. `validateIdentityDomain` also accepts an annotation that equals the service account's
  domain, in a namespace of any name (`identity.go:87`), and an annotation that matches the
  namespace, for a service account of any domain (`identity.go:89-91`): whoever may annotate
  namespaces decides. `TenantsApart` is what holds without annotations.
- An annotation that needs URL escaping is never approved: the driver's identity is escaped
  (`driver.go:467`), what the evaluator compares it with is not (`identity.go:52-61`).
- Without `--issuer-group` the two programs disagree on the issuer, and with
  `--certificate-request-duration=0` on the duration: no request is approved
  (`OwnRequestsApproved` and `PodsGetCertificates` name both cases).
- Not in a model: the annotations of `--extra-certificate-request-annotations` reach
  `driver.Options` (`driver.go:88-89`) but no request; the comment of `parseRefreshInterval`
  (`util.go:113`) promises no error for an empty interval, and the code returns one.

## What is proved

`CAManager_proofs` holds for all volumes, bundles and
`MaxChanges`, from `CAManagerAssumption` (the types of the constants, and that the
values that mark absence and a torn file are not bundles):

- `TypeCorrect`: `Spec => []TypeOK`, which is inductive.
- `SampleFreshness`: `Spec => []SampleIsFresh`. A change of the bundle starts a
  broadcast unless the manager has not subscribed, and then there is no pass. The
  invariant needs to say that a broadcast ends only at the select, where there is no
  pass; the control points give that.
- `NeverForgotten`: `Spec => []ChangeNeverForgotten`. A volume is not current, or
  was left so by somebody else, or work that will visit it is outstanding; the step
  that finishes a volume either has just written the sample or has found it equal,
  and the sample is current or its successor is announced (`SampleFreshness`); the
  step that ends a pass early starts a retry.
- `RetriesBounded`: `Spec => []RetriesDoNotMultiply`, by counting: every step moves
  one unit of work, and only a change of the bundle adds one.
- `StuckTakesTwoChanges`: `Spec => [](Stuck => changes >= 2)`, from `RetriesBounded`: the
  event in the loop's hand and the token in the buffer are two units of work.
- `SourceRefined`: `Spec => UsesABundleSource`, step by step.

`RootCAFile_proofs` holds for any bundles and bounds of the file's life:

- `TypeCorrect`, with the path leading to an inode in use (`PathLeadsSomewhere`).
- `IdleIsCurrent`: `Spec => []IdleMeansCurrent`. The strengthening (`ReadIsCurrent`) says
  of `NewFile` that what it has read is still there when it adds the watch, or a change has
  been missed. The rest is that a rewrite of the watched file queues an event, a switch
  leaves the watch on another inode, and deleting that inode queues a remove event.
- `WatchKept`: `Spec => []WatchSurvives`: deleting the inode queues the remove event in
  the step in which it takes the watch along.
- `SourceImplemented`: `Spec => IsABundleSource`.

`Issuance_proofs` holds for any attributes, interval, duration and number of failures and
changes, from `IssuanceAssumption` (the types, and that the slack is at most the minimum
interval and this at most the default one):

- `TypeCorrect`: `Spec => []TypeOK`; it needs that an issuance has looked at the group
  before it writes in place (`GroupChecked`).
- `DoneIsComplete`: `Spec => []NotDueMeansComplete`. The strengthening says which files an
  issuance has written so far (`WrittenSoFar`, which needs that each name of the payload
  comes once in the order), and that a CA update either is in place, where it touches the
  CA file alone, or marks what it does (`UpdateIsMarked`).
- `Spaced` and `Unlapsed`: `Spec => RenewalsSpaced`, `Spec => []NoLapse`. Both follow from
  how old certificates can be (`Ages`): what has gone of a certificate's validity is at most a
  slack for the time from its signing to its record, what has gone of the interval since, and
  how long the next has been due. It has a part for the certificate recorded, one for the one
  signed, one for the one being stored and one for the one in the volume, which may be newer
  than the recorded one after a crash. Hence twice the slack in `NoLapse`; where the next one
  has been refused, nothing is said of the age.

`InplaceWriter_proofs` holds for any bundles and renewals, with or without faults, for
contents of any lengths, from `InplaceWriterAssumption` (contents have at least one block and at most
`MaxSize`, and the marks of a hole and of absence are no contents). First what the pure
parts do: an overwrite from the first block to the last, then a resize to the written
length, leaves the bytes written whatever was there
(`OverwriteFacts`, `ResizeFacts`, `BytesFacts`), and a renewal's row ends with the
certificate (`RenewalOrder`, `SuffixFacts`). The inductive invariant (`Inv`) says what the
row at hand is (`Work`), that a renewal has written the files it is through with (`Through`)
and the blocks behind its position (`AtHand`). Both hold through everything the CA manager
does since its row is the CA file alone.

- `TypeCorrect`: `Spec => []TypeOK`.
- `StoredStays`: `Spec => []StoredPairIsOnDisk`: `Through` at the end of the row.
- `CertificateLast`: `Spec => CertificateCompletesTheSet`: `Through` at the certificate.
- `NothingEmptied`: `Spec => NeverEmptied`: no action but `Open` makes an empty file, and it
  only makes one of an absent file; a resize is to one block at least.
- `PairsHandedOver`: `Spec => Handover!Safety`, the refinement of `PairHandover` without its
  fairness. What a consumer may load can only rise (`Rising`): a step leaves a block of the
  certificate file as it is or writes the latest generation (`CertBlocks`), so the blocks of
  a certificate once read whole bound everything read later from below.

`VolumeLayout_proofs` holds for any names, configurations, timestamped directories, payloads
and stops, from `VolumeLayoutAssumption` (the marks of absence and of a link are neither
contents, nor directories, nor names, nor what is in a directory; a configuration writes its
CA file, and more than one file). Its inductive invariant (`Inv`)
has a part for each phase of the two stores:

- `TypeCorrect`: `Spec => []TypeOK`.
- `WritesDeliver`: `Spec => []Delivered`. The heart is `CurrentIsLinked`: a file in the
  current directory is always behind a link. It is why a write that the atomic writer finds
  not to be required is visible, and it holds since the in-place writer writes through links
  and prunes the file before the link, and since the atomic store clears regular files
  first. The rest says what each loop has done to the names it has visited.
- `LayoutsNeverFail`: `Spec => []NoLayoutFails`: `CurrentIsLinked` again, now for the paths
  that the atomic writer removes (`Linking`, `Removing`), and `LinksLead` for those that are
  opened in place.
- `InodesKept`, `CAWriteIsLocal`: `Spec => InodesSurvive`, `Spec => CAWriteTouchesNothingElse`,
  step by step; the first needs that the in-place mode rebuilds broken layouts only
  (`Rebuilding`).

`Approver_proofs` holds for any requests and any number of foreign writes, errors and
restarts, from `ApproverAssumption` (the types, and that the mark of absence is no name). One
inductive invariant (`Inv`) gives all four:

- `TypeCorrect`: `Spec => []TypeOK`.
- `StrangersLeft`: `Spec => []StrangersUndecided`. A name reaches the queue only from a cached
  copy of a request of ours, and copies are faithful: one of ours was made under a name of ours
  (`Faithful`, `QueueWasOurs`). Names are used again freely.
- `LosesNoWrite`: `Spec => NoLostWrite`: a copy whose version is the object's has its
  conditions, so the update that the API server accepts only adds to them.
- `DecidesOnce`: `Spec => []OneDecision`: the decision at hand is the verdict on Reconcile's
  copy (`DecisionSupported`), and it is written only to the request of the copy's version,
  which that copy is a faithful copy of, however often the name has changed hands
  (`ApiFaithful`, `CopiesFaithful`).

`Identity_proofs` holds for any names, annotations, flags and number of requests and
changes, from `IdentityAssumption` (the types, and `HasParts` of service account names).

The names come first. `FlattenSeq` and with it `getDashedDomain` is a recursive function;
that it exists and takes one row after the other (`FlattenExists`, `FlattenLast`), and what
dashing does to a name with one more character (`Dashes`), is proved by the least
counterexample (`Least`, from the library's well-foundedness of `<`), since an induction
theorem cannot be instantiated.

- `DashedDiffer`: names with parts are dashed differently. Dashed names are compared from
  their ends: two last characters can only be confused if they are a dash and a dot, and such
  a pair of names has a shorter one that is confused too (`MixedShrinks`), down to an empty
  name, which is impossible.
- `OneComponent`: a component that is one of two service account names, or ends in a dot and
  one, and the same for the other, makes one the end of the other.

The inductive invariant (`Inv`) says of every request that, once compared, it names its pod
(`NamesItsPod`), and where its domain has been compared or is yet to be (`DomainCompared`);
and of a driver's request that it is the one the driver would make again unless something
excuses it (`VolumeRight`).

- `TypeCorrect`: `Spec => []TypeOK`.
- `OwnApproved`: `Spec => []OwnRequestsApproved`. Both programs derive the same identity and
  the same duration from the same flags (`Programs`), and the request passes every check
  before those of the domain (`OwnIdentified`).
- `NotShared`: `Spec => []IdentityNotShared`: `NamesItsPod` and `OneComponent`.
- `TenantsKeptApart`: `Spec => []TenantsApart`: `DomainCompared` and `DashedDiffer`.

Only model-checked: liveness, and with it the fairness of `PairHandover`, which is out of the
prover's reach. Everything else that a passing run checks is proved.

## Not modelled

csi-lib is outside the repository: its manager, its metadata file (whose rename makes a
write one step) and its atomic writer are external actions, modelled from how this code
relies on them. Left out for having no state of their own: the encoding of keys,
certificates and keystores, host names, the keystore password and the Athenz flags, the
validation of payload names, the parsing and signatures of requests in the approver, the
Kubernetes clients, logging and version flags, and the templates of the chart. PKCS12 and
JKS keystores are one file in `Issuance`. Two atomic writers at a time on one directory
(a CA update and a renewal in atomic-dir mode) are one after the other here: what their
payloads do to each other is in `Issuance`, what their directory entries do is csi-lib's.

## Plan

1. *Done*: `CAManager`, `RootCAFile`, `Issuance`, `InplaceWriter`, `VolumeLayout`,
   `Approver` and `Identity` with their proofs; the abstract `BundleSource` and `PairHandover`
   with the refinements.
2. The composition of `RootCAFile` and `CAManager` as one state machine (a volume's CA file
   follows the file on the node); their common interface `BundleSource` is proved.
