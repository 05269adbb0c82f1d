----------------------------- MODULE Approver -----------------------------
(***************************************************************************)
(* The approver controller (internal/approver/controller/controller.go):   *)
(* an informer cache that lags behind the API server, the event filter,    *)
(* the work queue, and Reconcile, which evaluates a CertificateRequest and *)
(* writes its decision with the resource version it read.  cert-manager,   *)
(* other approvers and users change the same objects, delete them and make *)
(* others of the same name, and the process can exit and be restarted.     *)
(*                                                                         *)
(* A controller-runtime controller runs one Reconcile at a time.           *)
(***************************************************************************)
EXTENDS Naturals

CONSTANTS
  Requests,    \* names of CertificateRequests
  Missing,     \* no such object; no request at hand
  Others,      \* the requests that other approvers decide on too
  Verdicts,    \* Verdicts[r]: what evaluating a request named r can say
  MaxVersion,  \* bound: versions under a name that others bring about
  MaxErrors    \* bound: API errors and restarts in one behaviour

Decisions == {"Approved", "Denied"}

(* "panic" is the verdict on a CSR without URIs (identity.go:45), and      *)
(* "unstable" on one for which it changes with the annotations of the      *)
(* namespace.                                                              *)
ASSUME ApproverAssumption ==
  /\ Missing \notin Requests
  /\ Others \subseteq Requests
  /\ Verdicts \in [Requests -> SUBSET (Decisions \cup {"panic", "unstable"})]
  /\ MaxVersion \in Nat /\ MaxErrors \in Nat

VARIABLES
  api,      \* api[r]: the object of the name r, or Missing
  versions, \* versions[r]: the last resource version under the name r
  cache,    \* cache[r]: the informer's copy
  event,    \* requests with an event the filter has not seen yet
  queue,    \* the work queue
  cur,      \* the request Reconcile is working on
  snap,     \* the copy it read from the cache
  decision, \* what the evaluation said, Missing before
  errors,   \* API errors and restarts so far
  wereOurs  \* history: names that a request of our issuer has had

reconcile == <<cur, snap, decision>>
objects == <<api, versions, wereOurs>>
vars == <<objects, cache, event, queue, reconcile, errors>>

(* The issuer is ours or not; verdict is what evaluating the request says. *)
Objects ==
  [ours : BOOLEAN, verdict : Decisions \cup {"panic", "unstable"},
   cond : SUBSET Decisions, version : Nat]

TypeOK ==
  /\ api \in [Requests -> Objects \cup {Missing}]
  /\ versions \in [Requests -> Nat] /\ wereOurs \subseteq Requests
  /\ cache \in [Requests -> Objects \cup {Missing}]
  /\ event \subseteq Requests /\ queue \subseteq Requests
  /\ cur \in Requests \cup {Missing}
  /\ snap \in Objects \cup {Missing} /\ (cur # Missing => snap # Missing)
  /\ decision \in Decisions \cup {Missing}
  /\ errors \in 0..MaxErrors

Init ==
  /\ api = [r \in Requests |-> Missing]
  /\ versions = [r \in Requests |-> 0] /\ wereOurs = {}
  /\ cache = [r \in Requests |-> Missing]
  /\ event = {} /\ queue = {}
  /\ cur = Missing /\ snap = Missing /\ decision = Missing
  /\ errors = 0

-----------------------------------------------------------------------------
(* The API server and those who use it.                                    *)

Other == UNCHANGED <<cache, event, queue, reconcile, errors>>

(* Anybody makes a request, for any issuer, under any name that is free:   *)
(* csi-lib generates its names, others choose theirs.  Whoever remembers   *)
(* an earlier request of the name is not asked.                            *)
Create(r, ours, verdict) ==
  /\ api[r] = Missing /\ versions[r] < MaxVersion
  /\ versions' = [versions EXCEPT ![r] = @ + 1]
  /\ api' = [api EXCEPT ![r] =
       [ours |-> ours, verdict |-> verdict, cond |-> {}, version |-> versions[r] + 1]]
  /\ wereOurs' = IF ours THEN wereOurs \cup {r} ELSE wereOurs
  /\ Other

(* Every accepted write has a version of its own; the issuer and the rest  *)
(* of the specification cannot be changed.                                 *)
Write(r, cond) ==
  /\ versions' = [versions EXCEPT ![r] = @ + 1]
  /\ api' = [api EXCEPT ![r] =
       [ours |-> @.ours, verdict |-> @.verdict, cond |-> cond, version |-> versions[r] + 1]]
  /\ UNCHANGED wereOurs

(* Somebody else writes the object: another condition, a label, or, when   *)
(* there are other approvers, a decision.                                  *)
WriteByOther(r, cond) ==
  /\ api[r] # Missing /\ versions[r] < MaxVersion
  /\ \/ cond = api[r].cond
     \/ r \in Others /\ api[r].cond = {} /\ cond \in {{d} : d \in Decisions}
  /\ Write(r, cond)
  /\ Other

Delete(r) ==
  /\ api[r] # Missing
  /\ api' = [api EXCEPT ![r] = Missing]
  /\ UNCHANGED <<versions, wereOurs>>
  /\ Other

-----------------------------------------------------------------------------
(* The informer: the cache is updated first, the handlers run afterwards.  *)

Sync(r) ==
  /\ cache[r] # api[r]
  /\ cache' = [cache EXCEPT ![r] = api[r]]
  /\ event' = event \cup {r}
  /\ UNCHANGED <<objects, queue, reconcile, errors>>

(* Mutant: the filter does not compare the issuer.                         *)
FilterAnyIssuer(r) ==
  /\ r \in event
  /\ event' = event \ {r}
  /\ queue' = IF cache[r] # Missing /\ cache[r].cond = {}
                THEN queue \cup {r} ELSE queue
  /\ UNCHANGED <<objects, cache, reconcile, errors>>

(* The event filter of AddApprover: it looks at the cache of this moment.  *)
Filter(r) ==
  /\ r \in event
  /\ event' = event \ {r}
  /\ queue' = IF cache[r] # Missing /\ cache[r].cond = {} /\ cache[r].ours
                THEN queue \cup {r} ELSE queue
  /\ UNCHANGED <<objects, cache, reconcile, errors>>

-----------------------------------------------------------------------------
(* Reconcile.                                                              *)

(* Mutant: a request that is not in the cache is not ignored.              *)
TakeMissing(r) ==
  /\ cur = Missing /\ r \in queue
  /\ queue' = queue \ {r}
  /\ cur' = r /\ snap' = cache[r]
  /\ UNCHANGED <<objects, cache, event, decision, errors>>

(* A request that is not in the cache is ignored.                          *)
Take(r) ==
  /\ cur = Missing /\ r \in queue
  /\ queue' = queue \ {r}
  /\ IF cache[r] = Missing
       THEN UNCHANGED <<cur, snap>>
       ELSE cur' = r /\ snap' = cache[r]
  /\ UNCHANGED <<objects, cache, event, decision, errors>>

(* Evaluation reads the annotations of the namespace from the API server:  *)
(* where it depends on them, it may say something else each time, as it    *)
(* does when reading them fails.                                           *)
Evaluate ==
  /\ cur # Missing /\ decision = Missing /\ snap.verdict # "panic"
  /\ decision' \in IF snap.verdict = "unstable" THEN Decisions ELSE {snap.verdict}
  /\ UNCHANGED <<objects, cache, event, queue, cur, snap, errors>>

(* Mutant: the decision outlives the request it was made for.              *)
DoneKeepsDecision == cur' = Missing /\ snap' = Missing /\ UNCHANGED decision

Done == cur' = Missing /\ snap' = Missing /\ decision' = Missing

(* The evaluation panics; the worker recovers and puts the request back.   *)
EvaluatePanics ==
  /\ cur # Missing /\ decision = Missing /\ snap.verdict = "panic"
  /\ queue' = queue \cup {cur}
  /\ Done
  /\ UNCHANGED <<objects, cache, event, errors>>

(* Nobody has written or deleted the object since the copy was made.       *)
Unwritten == api[cur] # Missing /\ api[cur].version = snap.version

(* Mutant: the update does not carry the version that was read.            *)
UpdateAnyVersion ==
  /\ cur # Missing /\ decision # Missing /\ api[cur] # Missing
  /\ Write(cur, snap.cond \cup {decision})
  /\ Done
  /\ UNCHANGED <<cache, event, queue, errors>>

(* Status().Update is accepted.  Writing what is there already makes no    *)
(* new version.                                                            *)
Update ==
  /\ cur # Missing /\ decision # Missing
  /\ Unwritten
  /\ IF decision \in snap.cond THEN UNCHANGED objects
                              ELSE Write(cur, snap.cond \cup {decision})
  /\ Done
  /\ UNCHANGED <<cache, event, queue, errors>>

(* A conflict, or the object is gone: the error puts the request back in   *)
(* the queue.                                                              *)
UpdateFails ==
  /\ cur # Missing /\ decision # Missing
  /\ ~Unwritten
  /\ queue' = queue \cup {cur}
  /\ Done
  /\ UNCHANGED <<objects, cache, event, errors>>

(* Mutant: a failed update does not put the request back.                  *)
UpdateErrorForgets ==
  /\ cur # Missing /\ decision # Missing /\ errors < MaxErrors
  /\ errors' = errors + 1
  /\ Done
  /\ UNCHANGED <<objects, cache, event, queue>>

(* Any other API error of the update.                                      *)
UpdateError ==
  /\ cur # Missing /\ decision # Missing /\ errors < MaxErrors
  /\ errors' = errors + 1
  /\ queue' = queue \cup {cur}
  /\ Done
  /\ UNCHANGED <<objects, cache, event>>

(* The process exits (a failed read of the cache in the filter makes it,   *)
(* so does losing the lease) and another one lists everything again.       *)
Restart ==
  /\ errors < MaxErrors
  /\ errors' = errors + 1
  /\ cache' = [r \in Requests |-> Missing]
  /\ event' = {} /\ queue' = {}
  /\ Done
  /\ UNCHANGED objects

-----------------------------------------------------------------------------
Next ==
  \/ \E r \in Requests : \E ours \in BOOLEAN, verdict \in Verdicts[r] :
       Create(r, ours, verdict)
  \/ \E r \in Requests : \E cond \in SUBSET Decisions : WriteByOther(r, cond)
  \/ \E r \in Requests : Delete(r) \/ Sync(r) \/ Filter(r) \/ Take(r)
  \/ Evaluate \/ EvaluatePanics \/ Update \/ UpdateFails \/ UpdateError \/ Restart

Spec == Init /\ [][Next]_vars

(* The informer and the controller's worker make progress; the work queue  *)
(* serves every request in turn.                                           *)
FairSpec ==
  /\ Spec
  /\ \A r \in Requests : WF_vars(Sync(r)) /\ WF_vars(Filter(r)) /\ SF_vars(Take(r))
  /\ WF_vars(Evaluate) /\ WF_vars(EvaluatePanics) /\ WF_vars(Update \/ UpdateFails)

-----------------------------------------------------------------------------
Decided(r) == api[r] # Missing /\ api[r].cond # {}

(* Where nobody else decides, a request of another issuer is decided only  *)
(* under a name that a request of ours has had: late events, a stale cache *)
(* and retries may mistake it for that one, and for no other               *)
(* (controller.go:84-107, 118).                                            *)
StrangersUndecided ==
  \A r \in Requests \ Others : Decided(r) => r \in wereOurs

(* What controller.go:111-112 says: Reconcile is called for requests of    *)
(* the configured issuer.  Violated: a name that is queued may belong to   *)
(* another request by the time it is reconciled, and the issuer is not     *)
(* looked at again.                                                        *)
OnlyOurRequests == cur # Missing => snap.ours

(* No decision is ever taken back: one that somebody else writes between   *)
(* Reconcile's read and its update survives (controller.go:119-131).       *)
NoLostWrite ==
  [][\A r \in Requests :
       api[r] # Missing /\ api'[r] # Missing
         => api[r].cond \subseteq api'[r].cond]_vars

(* Without other approvers and with an evaluation that does not change, no *)
(* number of reconciles, restarts, stale reads and requests of the same    *)
(* name one after the other gives a request both decisions, or one that    *)
(* its own evaluation does not support (controller.go:113-132).            *)
OneDecision ==
  \A r \in Requests \ Others :
    Decided(r) /\ api[r].verdict # "unstable" => api[r].cond = {api[r].verdict}

(* Every request of the issuer is decided unless it is deleted             *)
(* (controller.go:92-99), except one whose evaluation panics: that one is  *)
(* tried again for ever.                                                   *)
EventuallyDecided ==
  \A r \in Requests :
    api[r] # Missing /\ api[r].ours /\ api[r].verdict # "panic"
      ~> (Decided(r) \/ api[r] = Missing)

=============================================================================
