----------------------------- MODULE CAManager -----------------------------
(***************************************************************************)
(* The CA manager of the CSI driver: the goroutine that rewrites the trust *)
(* bundle of every managed volume when the root CA source announces a new  *)
(* one (internal/csi/driver/camanager.go), together with what it shares    *)
(* state with: the root CA source and its broadcast goroutines             *)
(* (internal/csi/rootca/file.go), the CA file that writeKeypair writes     *)
(* during issuance (internal/csi/driver/driver.go), and the volumes that   *)
(* kubelet publishes and unpublishes.                                      *)
(*                                                                         *)
(* One action is one run of a goroutine between two points where another   *)
(* goroutine can observe it: a channel operation, or one access to the     *)
(* bundle or to a volume.                                                  *)
(***************************************************************************)
EXTENDS Naturals, FiniteSets

CONSTANTS
  Volumes,     \* volume IDs
  Bundles,     \* contents a root CA file can have
  None,        \* no CA file, no sample, no volume
  Torn,        \* a CA file that an error left partly written
  MaxChanges   \* bound: changes of the trust bundle in one behaviour

ASSUME CAManagerAssumption ==
  /\ MaxChanges \in Nat
  /\ None \notin Bundles \cup Volumes
  /\ Torn \notin Bundles \cup {None}

VARIABLES
  pem,         \* file.certificatesPEM, the bundle in memory
  broadcasts,  \* goroutines parked at f.subscribers[i] <- struct{}{}
  pc,          \* where the run loop is
  updateChan,  \* tokens buffered in updateChan, capacity 1
  retriers,    \* retry goroutines waiting for updateRetryPeriod
  parked,      \* retry goroutines blocked sending to updateChan
  todo,        \* volumes of the current pass that are not finished
  cur,         \* the volume the pass is at
  caPEM,       \* the bundle the pass sampled for cur
  ctxDone,     \* the driver's context is cancelled
  server,      \* TRUE: the gRPC server is running
  managed,     \* volumes with metadata on disk
  caFile,      \* the CA file of each volume
  renewing,    \* the bundle sampled by a writeKeypair in flight, per volume
  changes,     \* how often the bundle changed
  singleFile,  \* the store is a singleFileWriter: in-place mode
  quiet,       \* nothing fails and nothing new arrives from here on
  outdated     \* history: CA files that were not the current bundle when
               \* somebody other than the CA manager left them

loop == <<pc, updateChan, todo, cur, caPEM>>
chans == <<broadcasts, updateChan, retriers, parked>>
env == <<pem, changes, quiet, ctxDone, server, singleFile>>
disk == <<managed, caFile, renewing, outdated>>
vars == <<loop, chans, env, disk>>

InPass == {"list", "pass", "compare", "write"}
Contents == Bundles \cup {None, Torn}

TypeOK ==
  /\ pem \in Bundles
  /\ broadcasts \in Nat /\ retriers \in Nat /\ parked \in Nat
  /\ pc \in {"start", "select", "forward", "closed"} \cup InPass
  /\ updateChan \in {0, 1}
  /\ todo \subseteq Volumes
  /\ cur \in Volumes \cup {None}
  /\ caPEM \in Bundles \cup {None}
  /\ {ctxDone, server, quiet, singleFile} \subseteq BOOLEAN
  /\ managed \subseteq Volumes
  /\ caFile \in [Volumes -> Contents]
  /\ renewing \in [Volumes -> Bundles \cup {None}]
  /\ changes \in 0..MaxChanges
  /\ outdated \subseteq Volumes

(* The history variable after v's CA file is left holding c by anyone but  *)
(* the CA manager.                                                         *)
Left(v, c) == IF c \in {pem, None} THEN outdated \ {v} ELSE outdated \cup {v}

(* A driver that starts finds whatever volumes the previous one left       *)
(* behind: some not issued yet, some with an old bundle, some torn.        *)
Init ==
  /\ pem \in Bundles
  /\ pc = "start" /\ updateChan = 0 /\ todo = {} /\ cur = None /\ caPEM = None
  /\ broadcasts = 0 /\ retriers = 0 /\ parked = 0
  /\ changes = 0 /\ quiet = FALSE /\ ctxDone = FALSE /\ server = TRUE
  /\ singleFile \in BOOLEAN
  /\ managed \in SUBSET Volumes
  /\ caFile \in {f \in [Volumes -> Contents] : \A v \in Volumes \ managed : f[v] = None}
  /\ renewing = [v \in Volumes |-> None]
  /\ outdated = {v \in managed : caFile[v] \notin {pem, None}}

-----------------------------------------------------------------------------
(* The root CA source.                                                     *)

(* Mutant: the broadcast is dropped when the loop is not at its select.     *)
ChangeBundleDropsEvent(b) ==
  /\ ~quiet /\ changes < MaxChanges /\ b # pem
  /\ pem' = b
  /\ changes' = changes + 1
  /\ outdated' = IF pc = "start" THEN {v \in managed : caFile[v] \notin {b, None}}
                                ELSE outdated
  /\ broadcasts' = IF pc = "select" THEN broadcasts + 1 ELSE broadcasts
  /\ UNCHANGED <<loop, retriers, parked, quiet, ctxDone, server, singleFile, managed,
                 caFile, renewing>>

(* reloadCertificatesPEM with contents that differ from those in memory:   *)
(* one goroutine is started for each subscriber, and none before run has   *)
(* subscribed.                                                             *)
ChangeBundle(b) ==
  /\ ~quiet /\ changes < MaxChanges /\ b # pem
  /\ pem' = b
  /\ changes' = changes + 1
  /\ IF pc = "start"
       THEN /\ outdated' = {v \in managed : caFile[v] \notin {b, None}}
            /\ UNCHANGED broadcasts
       ELSE broadcasts' = broadcasts + 1 /\ UNCHANGED outdated
  /\ UNCHANGED <<loop, retriers, parked, quiet, ctxDone, server, singleFile, managed,
                 caFile, renewing>>

-----------------------------------------------------------------------------
(* The run loop.                                                           *)

Subscribe ==
  /\ pc = "start"
  /\ pc' = "select"
  /\ UNCHANGED <<updateChan, todo, cur, caPEM, chans, env, disk>>

(* case <-ctx.Done().  Go picks among the ready cases at random.           *)
Close ==
  /\ pc = "select" /\ ctxDone
  /\ pc' = "closed"
  /\ UNCHANGED <<updateChan, todo, cur, caPEM, chans, env, disk>>

(* case <-watcher: a broadcast goroutine hands over its event and ends;    *)
(* the loop is now at the send.                                            *)
WatcherEvent ==
  /\ pc = "select" /\ broadcasts > 0
  /\ broadcasts' = broadcasts - 1
  /\ pc' = "forward"
  /\ UNCHANGED <<updateChan, todo, cur, caPEM, retriers, parked, env, disk>>

(* Mutant: updateChan without a buffer; its only receiver is the sender.    *)
ForwardUnbuffered ==
  /\ pc = "forward" /\ pc = "select"
  /\ updateChan' = 1
  /\ pc' = "select"
  /\ UNCHANGED <<todo, cur, caPEM, broadcasts, retriers, parked, env, disk>>

(* updateChan <- struct{}{} in the loop: blocks while the buffer is full.  *)
Forward ==
  /\ pc = "forward" /\ updateChan = 0
  /\ updateChan' = 1
  /\ pc' = "select"
  /\ UNCHANGED <<todo, cur, caPEM, broadcasts, retriers, parked, env, disk>>

(* case <-updateChan: a parked sender's token takes the freed slot in the  *)
(* same step, as in the Go runtime.                                        *)
TakeToken ==
  /\ pc = "select" /\ updateChan = 1
  /\ IF parked > 0
       THEN parked' = parked - 1 /\ UNCHANGED updateChan
       ELSE updateChan' = 0 /\ UNCHANGED parked
  /\ pc' = "list"
  /\ UNCHANGED <<todo, cur, caPEM, broadcasts, retriers, env, disk>>

-----------------------------------------------------------------------------
(* The retry goroutine.                                                    *)

(* Mutant: the channel accepts a token beyond its capacity.                 *)
ResendOverfills ==
  /\ retriers > 0
  /\ retriers' = retriers - 1
  /\ updateChan' = updateChan + 1
  /\ UNCHANGED <<pc, todo, cur, caPEM, broadcasts, parked, env, disk>>

(* time.After fired: send, or park when the buffer is full.                *)
Resend ==
  /\ retriers > 0
  /\ retriers' = retriers - 1
  /\ IF updateChan = 0
       THEN updateChan' = 1 /\ UNCHANGED parked
       ELSE parked' = parked + 1 /\ UNCHANGED updateChan
  /\ UNCHANGED <<pc, todo, cur, caPEM, broadcasts, env, disk>>

RetryCancelled ==
  /\ retriers > 0 /\ ctxDone
  /\ retriers' = retriers - 1
  /\ UNCHANGED <<loop, broadcasts, parked, env, disk>>

-----------------------------------------------------------------------------
(* One pass of updateRootCAFiles.                                          *)

(* Mutants: a failed pass is not retried; it is retried twice.              *)
PassErrorNoRetry ==
  /\ pc' = "select" /\ todo' = {} /\ cur' = None /\ caPEM' = None
  /\ UNCHANGED <<chans, env>>

PassErrorRetriesTwice ==
  /\ retriers' = retriers + 2
  /\ pc' = "select" /\ todo' = {} /\ cur' = None /\ caPEM' = None
  /\ UNCHANGED <<updateChan, broadcasts, parked, env>>

(* An error ends the pass: a retry goroutine is started, back to select.   *)
PassError ==
  /\ retriers' = retriers + 1
  /\ pc' = "select" /\ todo' = {} /\ cur' = None /\ caPEM' = None
  /\ UNCHANGED <<updateChan, broadcasts, parked, env>>

(* The volume the pass is at is finished.                                  *)
NextVolume ==
  /\ pc' = "pass" /\ todo' = todo \ {cur} /\ cur' = None /\ caPEM' = None
  /\ UNCHANGED <<chans, env>>

ListVolumes ==
  /\ pc = "list"
  /\ todo' = managed
  /\ pc' = "pass"
  /\ UNCHANGED <<updateChan, cur, caPEM, chans, env, disk>>

ListFails ==
  /\ pc = "list" /\ ~quiet
  /\ PassError
  /\ UNCHANGED disk

(* ReadMetadata and CertificatesPEM for the next volume of the list.       *)
Sample(v) ==
  /\ pc = "pass" /\ v \in todo \cap managed
  /\ cur' = v /\ caPEM' = pem
  /\ pc' = "compare"
  /\ UNCHANGED <<updateChan, todo, chans, env, disk>>

(* The volume was unpublished since it was listed, or reading failed: the  *)
(* pass ends for the volumes after it too.                                 *)
ReadMetadataFails(v) ==
  /\ pc = "pass" /\ v \in todo
  /\ v \notin managed \/ ~quiet
  /\ PassError
  /\ UNCHANGED disk

SkipCurrent ==
  /\ pc = "compare" /\ caFile[cur] = caPEM
  /\ outdated' = outdated \ {cur}
  /\ NextVolume
  /\ UNCHANGED <<managed, caFile, renewing>>

(* The file differs, is absent or cannot be read.                          *)
NeedsWrite ==
  /\ pc = "compare"
  /\ caFile[cur] # caPEM \/ ~quiet
  /\ pc' = "write"
  /\ UNCHANGED <<updateChan, todo, cur, caPEM, chans, env, disk>>

(* In atomic-dir mode the certificate and the key are read back first:     *)
(* they exist once an issuance has written the volume.                     *)
PairReadable == singleFile \/ caFile[cur] # None

(* The write creates the data directory when it is gone (MkdirAll).        *)
WriteBundle ==
  /\ pc = "write" /\ PairReadable
  /\ caFile' = [caFile EXCEPT ![cur] = caPEM]
  /\ outdated' = outdated \ {cur}
  /\ NextVolume
  /\ UNCHANGED <<managed, renewing>>

(* Writing in place can fail half way; the atomic writer cannot.           *)
WriteFails ==
  /\ pc = "write"
  /\ ~quiet \/ ~PairReadable
  /\ \E c \in {caFile[cur]} \cup (IF singleFile /\ ~quiet THEN {Torn} ELSE {}) :
       caFile' = [caFile EXCEPT ![cur] = c]
  /\ PassError
  /\ UNCHANGED <<managed, renewing, outdated>>

EndPass ==
  /\ pc = "pass" /\ todo = {}
  /\ pc' = "select"
  /\ UNCHANGED <<updateChan, todo, cur, caPEM, chans, env, disk>>

-----------------------------------------------------------------------------
(* Issuance: writeKeypair reads the bundle when it builds its payload and  *)
(* writes the payload later.  It takes no context, so neither unpublishing *)
(* nor shutting down stops one that has started.                           *)

RenewSample(v) ==
  /\ v \in managed /\ renewing[v] = None
  /\ renewing' = [renewing EXCEPT ![v] = pem]
  /\ UNCHANGED <<loop, chans, env, managed, caFile, outdated>>

RenewEnd(v, c) ==
  /\ renewing[v] # None
  /\ caFile' = [caFile EXCEPT ![v] = c]
  /\ renewing' = [renewing EXCEPT ![v] = None]
  /\ outdated' = Left(v, c)
  /\ UNCHANGED <<loop, chans, env, managed>>

RenewWrite(v) == RenewEnd(v, renewing[v])

(* The write fails before or, in place, half way through the CA file.      *)
RenewFails(v) ==
  /\ ~quiet
  /\ \E c \in {caFile[v]} \cup (IF singleFile THEN {Torn} ELSE {}) : RenewEnd(v, c)

-----------------------------------------------------------------------------
(* Kubelet and the operator.                                               *)

(* NodePublishVolume registers the metadata; the files come with the first *)
(* issuance.                                                               *)
Publish(v) ==
  /\ ~quiet /\ v \notin managed
  /\ managed' = managed \cup {v}
  /\ outdated' = Left(v, caFile[v])
  /\ UNCHANGED <<loop, chans, env, caFile, renewing>>

(* NodeUnpublishVolume removes the volume directory.                       *)
Unpublish(v) ==
  /\ ~quiet /\ v \in managed
  /\ managed' = managed \ {v}
  /\ caFile' = [caFile EXCEPT ![v] = None]
  /\ outdated' = outdated \ {v}
  /\ UNCHANGED <<loop, chans, env, renewing>>

Cancel ==
  /\ ~ctxDone
  /\ ctxDone' = TRUE
  /\ UNCHANGED <<loop, chans, pem, changes, quiet, server, singleFile, disk>>

(* Driver.Run: the server is stopped when the context is cancelled, and    *)
(* may end with an error at any time.  Run waits for it and for the loop.  *)
ServerEnds ==
  /\ server /\ (ctxDone \/ ~quiet)
  /\ server' = FALSE
  /\ UNCHANGED <<loop, chans, pem, changes, ctxDone, quiet, singleFile, disk>>

(* From here on the environment is still; not a step of the program.       *)
Settle ==
  /\ ~quiet
  /\ quiet' = TRUE
  /\ UNCHANGED <<loop, chans, pem, changes, ctxDone, server, singleFile, disk>>

-----------------------------------------------------------------------------
Pass ==
  \/ ListVolumes \/ ListFails
  \/ \E v \in Volumes : Sample(v) \/ ReadMetadataFails(v)
  \/ SkipCurrent \/ NeedsWrite \/ WriteBundle \/ WriteFails \/ EndPass

Run == Subscribe \/ WatcherEvent \/ Forward \/ TakeToken \/ Pass

Next ==
  \/ Run \/ Close
  \/ Resend \/ RetryCancelled
  \/ \E b \in Bundles : ChangeBundle(b)
  \/ \E v \in Volumes : RenewSample(v) \/ RenewWrite(v) \/ RenewFails(v)
  \/ \E v \in Volumes : Publish(v) \/ Unpublish(v)
  \/ Cancel \/ ServerEnds \/ Settle

Spec == Init /\ [][Next]_vars

(* The loop and the retry goroutines are scheduled, timers fire, and a     *)
(* select that keeps finding ctx.Done() ready does not pass it over for    *)
(* ever (the choice is uniformly random).  In atomic-dir mode a pass needs *)
(* the keypair of every volume, so the first issuance of a volume is fair  *)
(* too; a renewal is far off and owes nothing, as do bundle changes,       *)
(* failures, kubelet and the operator.  A server that is stopped ends.     *)
Fairness ==
  /\ WF_vars(Run) /\ WF_vars(Resend) /\ SF_vars(Close)
  /\ WF_vars(ctxDone /\ ServerEnds)
  /\ \A v \in Volumes :
       /\ WF_vars(~singleFile /\ caFile[v] = None /\ RenewSample(v))
       /\ WF_vars(~singleFile /\ RenewWrite(v))

FairSpec == Spec /\ Fairness

-----------------------------------------------------------------------------
(* The number of work items in the manager: events not yet received, the   *)
(* event being forwarded, tokens, retries, and the pass being run.         *)
Count(b) == IF b THEN 1 ELSE 0
Work == broadcasts + retriers + parked + updateChan
          + Count(pc = "forward") + Count(pc \in InPass)

(* One change of the bundle causes one chain of passes: a failed pass is   *)
(* replaced by exactly one retry, so retries never multiply however often  *)
(* passes fail.                                                            *)
RetriesDoNotMultiply == Work <= changes

(* Something is on its way that will look at volume v again.               *)
Outstanding(v) ==
  \/ broadcasts > 0 \/ retriers > 0 \/ parked > 0 \/ updateChan > 0
  \/ pc \in {"forward", "list"}
  \/ pc \in InPass /\ v \in todo

(* A managed volume that does not hold the current bundle will be visited  *)
(* again, unless somebody else left an old bundle in it: no interleaving   *)
(* of passes, changes, failures, renewals and kubelet calls makes the CA   *)
(* manager forget a change it was told of (camanager.go:118-149).          *)
ChangeNeverForgotten ==
  ~ctxDone =>
    \A v \in managed \ outdated : caFile[v] \in {pem, None} \/ Outstanding(v)

(* A bundle written by the pass is current, or the event that announces    *)
(* its successor has not been received: the sample at camanager.go:186 is  *)
(* never silently stale.                                                   *)
SampleIsFresh == pc \in {"compare", "write"} => caPEM = pem \/ broadcasts > 0

(* The loop waits for itself: it is the only receiver of updateChan and is *)
(* blocked sending to it (camanager.go:125).                               *)
Stuck == pc = "forward" /\ updateChan = 1

AllUpdated == \A v \in managed \ outdated : caFile[v] \in {pem, None}

(* driver.go:152: if the root CA certificate data changes, all managed     *)
(* volumes' files will be updated.                                         *)
VolumesUpdated == quiet ~> (AllUpdated \/ ctxDone)

(* Cancelling the context ends the run loop (camanager.go:120) and the     *)
(* server, so that Driver.Run returns (driver.go:379-401).                 *)
Returned == pc = "closed" /\ ~server
ShutdownEnds == ctxDone ~> Returned

(* The same two promises in behaviours where the loop never blocks on its  *)
(* own channel: that block is the only way to break them.                  *)
VolumesUpdatedUnlessStuck == []~Stuck => VolumesUpdated
ShutdownEndsUnlessStuck == []~Stuck => ShutdownEnds

(* The manager's side of the root CA source: the bundle and the events     *)
(* change only as those of a BundleSource do (file.go:119-157), events are *)
(* received one at a time, and no renewal, pass or kubelet call takes or   *)
(* leaves one.  RootCAFile implements the same specification.              *)
Source == INSTANCE BundleSource WITH Contents <- Bundles, subscribed <- (pc # "start")
UsesABundleSource == Source!Spec

=============================================================================
