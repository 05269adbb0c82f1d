---------------------------- MODULE RootCAFile ----------------------------
(***************************************************************************)
(* The root CA source that watches a file (internal/csi/rootca/file.go):   *)
(* NewFile reads the file and sets up the watch, one goroutine handles the *)
(* events of the watch, reloads the file and tells its subscriber.         *)
(*                                                                         *)
(* A watch is bound to the inode that the path led to when it was added.   *)
(* The file changes the way a mounted ConfigMap does (the path is switched *)
(* to a new inode, the old one is deleted later), by being rewritten, or,  *)
(* when Vanishing, by being deleted and created again.                     *)
(***************************************************************************)
EXTENDS Naturals, Sequences, SequencesExt

CONSTANTS
  Bundles,    \* contents of the file, half written ones included
  Vanishing,  \* TRUE: the path can be missing for a while
  MaxFiles,   \* bound: inodes the path leads to in one behaviour
  MaxParked   \* bound: parked broadcasts at which the file stops changing

Inodes == 1..MaxFiles
Gone == "gone"        \* contents of an inode that is deleted or not in use

ASSUME RootCAFileAssumption ==
  /\ Vanishing \in BOOLEAN
  /\ MaxFiles \in Nat \ {0} /\ MaxParked \in Nat
  /\ Gone \notin Bundles

VARIABLES
  file,        \* file[i]: the contents of inode i
  used,        \* inodes 1..used have been created
  link,        \* the inode the path leads to, 0 when it is missing
  watch,       \* the inode the watch is bound to, 0 when there is none
  events,      \* watcher.Events
  pc,          \* where the goroutine is; NewFile first
  pem,         \* file.certificatesPEM
  subscribed,  \* the CA manager has subscribed
  broadcasts,  \* goroutines parked at f.subscribers[i] <- struct{}{}
  ctxDone,     \* the driver's context is cancelled
  quiet,       \* the file does not change any more
  missed       \* history: the file changed before NewFile had a watch, or
               \* the watch could not be renewed, and the source has not
               \* reloaded under a working watch since

fs == <<file, used, link>>
source == <<pc, pem, broadcasts>>
vars == <<fs, watch, events, source, subscribed, ctxDone, quiet, missed>>

TypeOK ==
  /\ file \in [Inodes -> Bundles \cup {Gone}]
  /\ used \in Inodes /\ link \in 0..used /\ watch \in 0..used
  /\ events \in Seq({"remove", "write"})
  /\ pc \in {"read", "add", "loop", "readd", "reload", "failed", "closed"}
  /\ pem \in Bundles \cup {Gone}
  /\ pem = Gone => pc \in {"read", "failed"}
  /\ subscribed \in BOOLEAN /\ ctxDone \in BOOLEAN /\ quiet \in BOOLEAN
  /\ missed \in BOOLEAN
  /\ broadcasts \in Nat

Init ==
  /\ \E b \in Bundles : file = [i \in Inodes |-> IF i = 1 THEN b ELSE Gone]
  /\ used = 1 /\ link = 1 /\ watch = 0 /\ events = <<>>
  /\ pc = "read" /\ pem = Gone /\ broadcasts = 0
  /\ subscribed = FALSE /\ ctxDone = FALSE /\ quiet = FALSE
  /\ missed = FALSE

-----------------------------------------------------------------------------
(* The file.  inotify merges an event with an identical last one.          *)

Queue(e) == IF events # <<>> /\ Last(events) = e THEN events ELSE Append(events, e)

(* The file may change; a change between NewFile's read and its watch is   *)
(* one that no event reports.                                              *)
MayChange ==
  /\ ~quiet /\ broadcasts < MaxParked
  /\ missed' = (missed \/ pc = "add")

(* Kubelet switches the path to a new file with contents b.                *)
Switch(b) ==
  /\ MayChange /\ used < MaxFiles
  /\ used' = used + 1 /\ link' = used + 1
  /\ file' = [file EXCEPT ![used + 1] = b]
  /\ UNCHANGED <<watch, events, source, subscribed, ctxDone, quiet>>

(* Deleting an inode takes its watch along and reports it.                 *)
Delete(i) ==
  /\ file' = [file EXCEPT ![i] = Gone]
  /\ IF watch = i
       THEN watch' = 0 /\ events' = Queue("remove")
       ELSE UNCHANGED <<watch, events>>

DeleteOld(i) ==
  /\ i # link /\ file[i] # Gone
  /\ Delete(i)
  /\ UNCHANGED <<used, link, source, subscribed, ctxDone, quiet, missed>>

Rewrite(b) ==
  /\ MayChange /\ link # 0 /\ b # file[link]
  /\ file' = [file EXCEPT ![link] = b]
  /\ events' = IF watch = link THEN Queue("write") ELSE events
  /\ UNCHANGED <<used, link, watch, source, subscribed, ctxDone, quiet>>

(* The path is missing until it is switched to another file.               *)
Vanish ==
  /\ MayChange /\ Vanishing /\ link # 0 /\ used < MaxFiles
  /\ Delete(link) /\ link' = 0
  /\ UNCHANGED <<used, source, subscribed, ctxDone, quiet>>

-----------------------------------------------------------------------------
(* NewFile.  An error makes the driver exit.                               *)

(* Mutant: the error of the first read is ignored.                         *)
ReadInitialIgnoresError ==
  /\ pc = "read" /\ pc' = "add"
  /\ IF link # 0 THEN pem' = file[link] ELSE UNCHANGED pem
  /\ UNCHANGED <<fs, watch, events, broadcasts, subscribed, ctxDone, quiet, missed>>

ReadInitial ==
  /\ pc = "read"
  /\ IF link # 0 THEN pem' = file[link] /\ pc' = "add"
                 ELSE pc' = "failed" /\ UNCHANGED pem
  /\ UNCHANGED <<fs, watch, events, broadcasts, subscribed, ctxDone, quiet, missed>>

AddInitial ==
  /\ pc = "add"
  /\ IF link # 0 THEN watch' = link /\ pc' = "loop"
                 ELSE pc' = "failed" /\ UNCHANGED watch
  /\ UNCHANGED <<fs, events, pem, broadcasts, subscribed, ctxDone, quiet, missed>>

-----------------------------------------------------------------------------
(* start: the event loop.                                                  *)

Close ==
  /\ pc = "loop" /\ ctxDone
  /\ pc' = "closed"
  /\ UNCHANGED <<fs, watch, events, pem, broadcasts, subscribed, ctxDone, quiet, missed>>

(* Mutant: a remove event reloads the file but does not renew the watch.   *)
TakeEventNoRewatch ==
  /\ pc = "loop" /\ events # <<>>
  /\ events' = Tail(events)
  /\ pc' = "reload"
  /\ UNCHANGED <<fs, watch, pem, broadcasts, subscribed, ctxDone, quiet, missed>>

TakeEvent ==
  /\ pc = "loop" /\ events # <<>>
  /\ events' = Tail(events)
  /\ pc' = IF Head(events) = "remove" THEN "readd" ELSE "reload"
  /\ UNCHANGED <<fs, watch, pem, broadcasts, subscribed, ctxDone, quiet, missed>>

(* Mutant: the watch is renewed and the file not reloaded.                 *)
ReaddOnly ==
  /\ pc = "readd"
  /\ watch' = link
  /\ missed' = (missed \/ link = 0)
  /\ pc' = "loop"
  /\ UNCHANGED <<fs, events, pem, broadcasts, subscribed, ctxDone, quiet>>

(* The watch is renewed; an error is logged and leaves none.               *)
Readd ==
  /\ pc = "readd"
  /\ watch' = link
  /\ missed' = (missed \/ link = 0)
  /\ pc' = "reload"
  /\ UNCHANGED <<fs, events, pem, broadcasts, subscribed, ctxDone, quiet>>

(* Mutant: the subscriber is not told while an event is still unread.      *)
ReloadOneEvent ==
  /\ pc = "reload" /\ pc' = "loop"
  /\ pem' = IF link # 0 THEN file[link] ELSE pem
  /\ broadcasts' = IF subscribed /\ pem' # pem THEN 1 ELSE broadcasts
  /\ missed' = (missed /\ (watch = 0 \/ link = 0))
  /\ UNCHANGED <<fs, watch, events, subscribed, ctxDone, quiet>>

(* reloadCertificatesPEM: a read error keeps the old contents.             *)
Reload ==
  /\ pc = "reload" /\ pc' = "loop"
  /\ IF link # 0 /\ file[link] # pem
       THEN /\ pem' = file[link]
            /\ broadcasts' = IF subscribed THEN broadcasts + 1 ELSE broadcasts
       ELSE UNCHANGED <<pem, broadcasts>>
  /\ missed' = (missed /\ (watch = 0 \/ link = 0))
  /\ UNCHANGED <<fs, watch, events, subscribed, ctxDone, quiet>>

-----------------------------------------------------------------------------
(* The subscriber, and the environment.                                    *)

Subscribe ==
  /\ pc \notin {"read", "add", "failed"} /\ ~subscribed
  /\ subscribed' = TRUE
  /\ UNCHANGED <<fs, watch, events, source, ctxDone, quiet, missed>>

Receive ==
  /\ subscribed /\ broadcasts > 0
  /\ broadcasts' = broadcasts - 1
  /\ UNCHANGED <<fs, watch, events, pc, pem, subscribed, ctxDone, quiet, missed>>

Cancel ==
  /\ ~ctxDone /\ ctxDone' = TRUE
  /\ UNCHANGED <<fs, watch, events, source, subscribed, quiet, missed>>

(* From here on the file is still, and not missing.                        *)
Settle ==
  /\ ~quiet /\ link # 0 /\ quiet' = TRUE
  /\ UNCHANGED <<fs, watch, events, source, subscribed, ctxDone, missed>>

-----------------------------------------------------------------------------
Loop == ReadInitial \/ AddInitial \/ TakeEvent \/ Readd \/ Reload

Next ==
  \/ Loop \/ Close
  \/ \E b \in Bundles : Switch(b) \/ Rewrite(b)
  \/ \E i \in 1..used : DeleteOld(i)
  \/ Vanish
  \/ Subscribe \/ Receive \/ Cancel \/ Settle

Spec == Init /\ [][Next]_vars

(* The goroutine is scheduled, and kubelet deletes what it has replaced.   *)
FairSpec ==
  /\ Spec
  /\ WF_vars(Loop)
  /\ \A i \in Inodes : WF_vars(i \in 1..used /\ DeleteOld(i))

-----------------------------------------------------------------------------
Current == link # 0 /\ pem = file[link]

(* A source that watches the file its path leads to, has no event left and *)
(* is not handling one, holds the contents of the file: re-adding the      *)
(* watch before reloading leaves no window (file.go:97-104).  The window   *)
(* that NewFile leaves between its read and its watch is excepted.         *)
IdleMeansCurrent ==
  pc = "loop" /\ events = <<>> /\ watch = link /\ link # 0 => Current \/ missed

(* A source that is running is bound to some inode, or is about to handle  *)
(* the event that says it is not, unless the file was missing when it      *)
(* tried to renew the watch (file.go:97-105).                              *)
WatchSurvives ==
  pc \in {"loop", "reload"} => watch # 0 \/ Contains(events, "remove") \/ missed

(* A file that is switched and rewritten, however often and however fast,  *)
(* is followed, except for a change in one of the two windows.             *)
FollowsTheFileUnlessMissed ==
  quiet ~> (Current \/ ctxDone \/ pc = "failed" \/ missed)

(* Whatever happens to the file and its watch, the subscriber is sent one  *)
(* event for each change of the bundle after Subscribe, and none that is   *)
(* lost, merged with another or sent for no change (file.go:119-157).      *)
Source == INSTANCE BundleSource WITH Contents <- Bundles \cup {Gone}
IsABundleSource == Source!Spec /\ [][broadcasts' > broadcasts => pem' # pem]_vars

=============================================================================
