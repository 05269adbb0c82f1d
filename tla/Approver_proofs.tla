--------------------------- MODULE Approver_proofs ---------------------------
(***************************************************************************)
(* Proofs about Approver, for every set of requests, every number of       *)
(* foreign writes, requests of one name, API errors and restarts:          *)
(*                                                                         *)
(*   TypeCorrect       the variables keep their types                      *)
(*   StrangersLeft     a request of another issuer is decided only under a *)
(*                     name that has been one of ours                      *)
(*   LosesNoWrite      no decision is ever taken back                      *)
(*   DecidesOnce       a request nobody else decides on gets the one       *)
(*                     decision its evaluation supports                    *)
(*                                                                         *)
(* All four follow from Inv: resource versions are never used again, so a  *)
(* copy of the version of a request is the request itself, however often   *)
(* the name has changed hands since the copy was made; and a name reaches  *)
(* the queue only from a copy of a request of ours.                        *)
(***************************************************************************)
EXTENDS Approver, TLAPS

(* A copy is not of a version that is yet to come, it is the request if it *)
(* has its version, and its name was ours if it is of a request of ours.   *)
Faithful(r, copy) ==
  copy # Missing =>
    /\ copy.version <= versions[r]
    /\ api[r] # Missing /\ copy.version = api[r].version => copy = api[r]
    /\ copy.ours => r \in wereOurs

(* The request itself has the last version of its name.                    *)
ApiFaithful ==
  \A r \in Requests : api[r] # Missing =>
    api[r].version = versions[r] /\ (api[r].ours => r \in wereOurs)

CopiesFaithful ==
  /\ \A r \in Requests : Faithful(r, cache[r])
  /\ cur # Missing => Faithful(cur, snap)

(* Only names that were ours are queued and worked on.                     *)
QueueWasOurs == queue \subseteq wereOurs /\ (cur # Missing => cur \in wereOurs)

(* The decision on its way is the verdict on the copy at hand.             *)
DecisionSupported ==
  /\ cur = Missing => decision = Missing
  /\ decision # Missing /\ snap.verdict # "unstable" => decision = snap.verdict

(* The inductive invariant.                                                *)
Inv ==
  /\ TypeOK
  /\ ApiFaithful /\ CopiesFaithful /\ QueueWasOurs /\ DecisionSupported
  /\ StrangersUndecided /\ OneDecision

(* The one action property of the module, as a relation between states.    *)
KeepsDecisions ==
  \A r \in Requests :
    api[r] # Missing /\ api'[r] # Missing => api[r].cond \subseteq api'[r].cond

(* What the controller does to its own variables leaves the API server's   *)
(* parts of the invariant alone.                                           *)
LEMMA ApiUntouched ==
  ASSUME Inv, UNCHANGED objects
  PROVE  ApiFaithful' /\ StrangersUndecided' /\ OneDecision' /\ KeepsDecisions
BY DEF Inv, objects, ApiFaithful, StrangersUndecided, OneDecision, Decided, KeepsDecisions

(* A copy stays faithful while the server does nothing.                    *)
LEMMA FaithfulKept ==
  ASSUME UNCHANGED objects, NEW n, NEW copy, Faithful(n, copy)
  PROVE  Faithful(n, copy)'
BY DEF objects, Faithful

(* Copies stay faithful through a write that gives one name a new version. *)
LEMMA WriteFaithful ==
  ASSUME TypeOK, NEW w \in Requests, versions' = [versions EXCEPT ![w] = @ + 1],
         wereOurs \subseteq wereOurs',
         \A k \in Requests \ {w} : api'[k] = api[k],
         api'[w] # Missing => api'[w].version = versions[w] + 1,
         NEW n \in Requests, NEW copy \in Objects \cup {Missing}, Faithful(n, copy)
  PROVE  Faithful(n, copy)'
<1>1. CASE n = w
  <2>1. versions[w] \in Nat /\ versions'[w] = versions[w] + 1
    BY DEF TypeOK
  <2>2. copy # Missing => copy.version \in Nat /\ copy.version <= versions[w]
    BY <1>1 DEF Faithful, Objects
  <2>3. QED
    BY <1>1, <2>1, <2>2 DEF Faithful
<1>2. CASE n # w
  <2>1. versions'[n] = versions[n] /\ api'[n] = api[n]
    BY <1>2 DEF TypeOK
  <2>2. QED
    BY <2>1 DEF Faithful
<1>3. QED
  BY <1>1, <1>2

(* At the start nothing exists.                                            *)
LEMMA InitInv == Init => Inv
  BY ApproverAssumption
  DEF Init, Inv, TypeOK, Objects, ApiFaithful, CopiesFaithful, Faithful, QueueWasOurs,
      DecisionSupported, StrangersUndecided, OneDecision, Decided

(* No step disturbs the invariant, and none takes a decision back.         *)
LEMMA StepInv == Inv /\ [Next]_vars => Inv' /\ KeepsDecisions
<1> SUFFICES ASSUME Inv, [Next]_vars
             PROVE  Inv' /\ KeepsDecisions
  OBVIOUS
<1> USE ApproverAssumption DEF Inv, reconcile
<1>1. ASSUME NEW r \in Requests, NEW ours \in BOOLEAN, NEW verdict \in Verdicts[r],
             Create(r, ours, verdict)
      PROVE  Inv' /\ KeepsDecisions
  <2> DEFINE o == [ours |-> ours, verdict |-> verdict, cond |-> {},
                   version |-> versions[r] + 1]
  <2>1. /\ api' = [api EXCEPT ![r] = o] /\ versions' = [versions EXCEPT ![r] = @ + 1]
        /\ wereOurs \subseteq wereOurs' /\ (ours => r \in wereOurs')
        /\ wereOurs' \subseteq Requests /\ api[r] = Missing
        /\ UNCHANGED <<cache, event, queue, cur, snap, decision, errors>>
    BY <1>1 DEF Create, Other, TypeOK
  <2>2. versions[r] + 1 \in Nat /\ o \in Objects
        /\ o.ours = ours /\ o.cond = {} /\ o.version = versions[r] + 1
    BY <1>1, <2>1 DEF TypeOK, Objects
  <2>3. /\ api'[r] = o /\ versions'[r] = versions[r] + 1
        /\ \A k \in Requests \ {r} : api'[k] = api[k] /\ versions'[k] = versions[k]
    BY <2>1 DEF TypeOK
  <2> HIDE DEF o
  <2>4. TypeOK'
    BY <2>1, <2>2 DEF TypeOK
  <2>5. ApiFaithful'
    BY <2>1, <2>2, <2>3 DEF ApiFaithful
  <2>6. CopiesFaithful'
    BY <2>1, <2>2, <2>3, WriteFaithful DEF CopiesFaithful, TypeOK
  <2>7. QueueWasOurs' /\ DecisionSupported'
    BY <2>1 DEF QueueWasOurs, DecisionSupported
  <2>8. StrangersUndecided' /\ OneDecision'
    BY <2>1, <2>2, <2>3 DEF StrangersUndecided, OneDecision, Decided
  <2>9. KeepsDecisions
    BY <2>1, <2>3 DEF KeepsDecisions
  <2>10. QED
    BY <2>4, <2>5, <2>6, <2>7, <2>8, <2>9
<1>2. ASSUME NEW r \in Requests, Delete(r)
      PROVE  Inv' /\ KeepsDecisions
  <2>1. /\ api' = [api EXCEPT ![r] = Missing]
        /\ UNCHANGED <<versions, wereOurs, cache, event, queue, cur, snap, decision, errors>>
    BY <1>2 DEF Delete, Other
  <2>2. api'[r] = Missing /\ \A k \in Requests \ {r} : api'[k] = api[k]
    BY <2>1 DEF TypeOK
  <2>3. TypeOK'
    BY <2>1 DEF TypeOK
  <2>4. ApiFaithful'
    BY <2>1, <2>2 DEF ApiFaithful
  <2>5. CopiesFaithful'
    BY <2>1, <2>2 DEF CopiesFaithful, Faithful, TypeOK
  <2>6. QueueWasOurs' /\ DecisionSupported'
    BY <2>1 DEF QueueWasOurs, DecisionSupported
  <2>7. StrangersUndecided' /\ OneDecision'
    BY <2>1, <2>2 DEF StrangersUndecided, OneDecision, Decided
  <2>8. KeepsDecisions
    BY <2>2 DEF KeepsDecisions
  <2>9. QED
    BY <2>3, <2>4, <2>5, <2>6, <2>7, <2>8
<1>3. ASSUME NEW r \in Requests, NEW cond \in SUBSET Decisions, WriteByOther(r, cond)
      PROVE  Inv' /\ KeepsDecisions
  <2> DEFINE o == [ours |-> api[r].ours, verdict |-> api[r].verdict, cond |-> cond,
                   version |-> versions[r] + 1]
  <2>1. /\ api' = [api EXCEPT ![r] = o] /\ versions' = [versions EXCEPT ![r] = @ + 1]
        /\ api[r] \in Objects /\ api[r] # Missing
        /\ UNCHANGED <<wereOurs, cache, event, queue, cur, snap, decision, errors>>
    BY <1>3 DEF WriteByOther, Write, Other, TypeOK
  <2>2. cond = api[r].cond \/ (r \in Others /\ api[r].cond = {})
    BY <1>3 DEF WriteByOther
  <2>3. /\ o \in Objects /\ o.ours = api[r].ours /\ o.cond = cond
        /\ o.verdict = api[r].verdict /\ o.version = versions[r] + 1
    BY <2>1 DEF TypeOK, Objects
  <2>4. /\ api'[r] = o /\ versions'[r] = versions[r] + 1
        /\ \A k \in Requests \ {r} : api'[k] = api[k] /\ versions'[k] = versions[k]
    BY <2>1 DEF TypeOK
  <2> HIDE DEF o
  <2>5. TypeOK'
    BY <2>1, <2>3, <2>4 DEF TypeOK
  <2>6. ApiFaithful'
    BY <2>1, <2>3, <2>4 DEF ApiFaithful
  <2>7. CopiesFaithful'
    BY <2>1, <2>3, <2>4, WriteFaithful DEF CopiesFaithful, TypeOK
  <2>8. QueueWasOurs' /\ DecisionSupported'
    BY <2>1 DEF QueueWasOurs, DecisionSupported
  <2>9. StrangersUndecided' /\ OneDecision'
    BY <2>1, <2>2, <2>3, <2>4 DEF StrangersUndecided, OneDecision, Decided
  <2>10. KeepsDecisions
    BY <2>1, <2>2, <2>3, <2>4 DEF KeepsDecisions
  <2>11. QED
    BY <2>5, <2>6, <2>7, <2>8, <2>9, <2>10
<1>4. ASSUME NEW r \in Requests, Sync(r)
      PROVE  Inv' /\ KeepsDecisions
  <2>1. /\ cache' = [cache EXCEPT ![r] = api[r]] /\ event' = event \cup {r}
        /\ UNCHANGED <<queue, cur, snap, decision, errors>> /\ UNCHANGED objects
    BY <1>4 DEF Sync
  <2>2. TypeOK'
    BY <2>1 DEF TypeOK, objects
  <2>3. Faithful(r, api[r])
    BY DEF ApiFaithful, Faithful, TypeOK, Objects
  <2>4. CopiesFaithful'
    BY <2>1, <2>3, FaithfulKept DEF CopiesFaithful, TypeOK
  <2>5. QueueWasOurs' /\ DecisionSupported'
    BY <2>1 DEF QueueWasOurs, DecisionSupported, objects
  <2>6. QED
    BY <2>1, <2>2, <2>4, <2>5, ApiUntouched
<1>5. ASSUME NEW r \in Requests, Filter(r)
      PROVE  Inv' /\ KeepsDecisions
  <2>1. /\ queue' \subseteq queue \cup {r} /\ event' \subseteq event
        /\ r \in queue' => r \in queue \/ (cache[r] # Missing /\ cache[r].ours)
        /\ UNCHANGED <<cache, cur, snap, decision, errors>> /\ UNCHANGED objects
    BY <1>5 DEF Filter
  <2>2. TypeOK'
    BY <2>1 DEF TypeOK, objects
  <2>3. CopiesFaithful'
    BY <2>1, FaithfulKept DEF CopiesFaithful
  <2>4. QueueWasOurs' /\ DecisionSupported'
    BY <2>1 DEF QueueWasOurs, DecisionSupported, CopiesFaithful, Faithful, objects
  <2>5. QED
    BY <2>1, <2>2, <2>3, <2>4, ApiUntouched
<1>6. ASSUME NEW r \in Requests, Take(r)
      PROVE  Inv' /\ KeepsDecisions
  <2>1. /\ cur = Missing /\ r \in queue /\ queue' \subseteq queue
        /\ \/ UNCHANGED <<cur, snap>>
           \/ cur' = r /\ snap' = cache[r] /\ cache[r] # Missing
        /\ UNCHANGED <<cache, event, decision, errors>> /\ UNCHANGED objects
    BY <1>6 DEF Take
  <2>2. TypeOK'
    BY <2>1 DEF TypeOK, objects
  <2>3. CopiesFaithful'
    BY <2>1, FaithfulKept DEF CopiesFaithful
  <2>4. QueueWasOurs' /\ DecisionSupported'
    BY <2>1 DEF QueueWasOurs, DecisionSupported, objects
  <2>5. QED
    BY <2>1, <2>2, <2>3, <2>4, ApiUntouched
<1>7. CASE Evaluate
  <2>1. /\ cur # Missing /\ UNCHANGED <<cache, event, queue, cur, snap, errors>>
        /\ decision' \in IF snap.verdict = "unstable" THEN Decisions ELSE {snap.verdict}
        /\ snap.verdict # "panic" /\ UNCHANGED objects
    BY <1>7 DEF Evaluate
  <2>2. decision' \in Decisions
    BY <2>1 DEF TypeOK, Objects
  <2>3. TypeOK'
    BY <2>1, <2>2 DEF TypeOK, objects
  <2>4. CopiesFaithful'
    BY <2>1, FaithfulKept DEF CopiesFaithful
  <2>5. QueueWasOurs' /\ DecisionSupported'
    BY <2>1 DEF QueueWasOurs, DecisionSupported, objects
  <2>6. QED
    BY <2>1, <2>3, <2>4, <2>5, ApiUntouched
<1>8. CASE Update
  <2> DEFINE c == snap.cond \cup {decision}
             o == [ours |-> api[cur].ours, verdict |-> api[cur].verdict, cond |-> c,
                   version |-> versions[cur] + 1]
  <2>1. /\ cur \in Requests /\ snap \in Objects /\ snap # Missing /\ cur # Missing
        /\ decision \in Decisions /\ decision # Missing
        /\ api[cur] \in Objects /\ api[cur] # Missing
        /\ cur' = Missing /\ snap' = Missing /\ decision' = Missing
        /\ UNCHANGED <<cache, event, queue, errors>>
    BY <1>8 DEF Update, Unwritten, Done, TypeOK
  <2>2. snap = api[cur] /\ cur \in wereOurs
    BY <1>8, <2>1 DEF Update, Unwritten, CopiesFaithful, Faithful, QueueWasOurs
  <2>3. QueueWasOurs' /\ DecisionSupported'
    BY <1>8, <2>1 DEF QueueWasOurs, DecisionSupported, Update, Write, objects
  <2>4. CASE UNCHANGED objects
    <3>1. CopiesFaithful'
      BY <2>1, <2>4, FaithfulKept DEF CopiesFaithful
    <3>2. TypeOK'
      BY <2>1, <2>4 DEF TypeOK, objects
    <3>3. QED
      BY <2>3, <2>4, <3>1, <3>2, ApiUntouched
  <2>5. CASE ~UNCHANGED objects
    <3>1. /\ api' = [api EXCEPT ![cur] = o] /\ versions' = [versions EXCEPT ![cur] = @ + 1]
          /\ wereOurs' = wereOurs
      BY <1>8, <2>5 DEF Update, Write
    <3>2. c \in SUBSET Decisions /\ versions[cur] + 1 \in Nat
      BY <2>1 DEF TypeOK, Objects
    <3>3. /\ o \in Objects /\ o.ours = api[cur].ours /\ o.cond = c
          /\ o.verdict = api[cur].verdict /\ o.version = versions[cur] + 1
      BY <2>1, <3>2 DEF Objects
    <3>4. /\ api'[cur] = o /\ versions'[cur] = versions[cur] + 1
          /\ \A k \in Requests \ {cur} : api'[k] = api[k] /\ versions'[k] = versions[k]
      BY <2>1, <3>1 DEF TypeOK
    <3>5. \/ cur \in Others \/ api[cur].verdict = "unstable" \/ c = {api[cur].verdict}
      <4>1. api[cur].verdict # "unstable" => decision = api[cur].verdict
        BY <2>1, <2>2 DEF DecisionSupported
      <4>2. cur \notin Others /\ api[cur].verdict # "unstable"
              => api[cur].cond \subseteq {api[cur].verdict}
        BY <2>1 DEF OneDecision, Decided
      <4>3. QED
        BY <2>2, <4>1, <4>2
    <3> HIDE DEF o
    <3>6. TypeOK'
      BY <2>1, <3>1, <3>2, <3>3, <3>4 DEF TypeOK
    <3>7. ApiFaithful'
      BY <2>1, <3>1, <3>3, <3>4 DEF ApiFaithful
    <3>8. CopiesFaithful'
      BY <2>1, <3>1, <3>3, <3>4, WriteFaithful DEF CopiesFaithful, TypeOK
    <3>9. StrangersUndecided'
      BY <2>2, <3>1, <3>4 DEF StrangersUndecided, Decided
    <3>10. OneDecision'
      BY <2>1, <3>3, <3>4, <3>5 DEF OneDecision, Decided
    <3>11. KeepsDecisions
      BY <2>2, <3>3, <3>4 DEF KeepsDecisions
    <3>12. QED
      BY <2>3, <3>6, <3>7, <3>8, <3>9, <3>10, <3>11
  <2>6. QED
    BY <2>4, <2>5
<1>9. ASSUME EvaluatePanics \/ UpdateFails \/ UpdateError
      PROVE  Inv' /\ KeepsDecisions
  <2>1. /\ cur # Missing /\ queue' = queue \cup {cur}
        /\ cur' = Missing /\ snap' = Missing /\ decision' = Missing
        /\ errors' \in 0..MaxErrors
        /\ UNCHANGED <<cache, event>> /\ UNCHANGED objects
    BY <1>9 DEF EvaluatePanics, UpdateFails, UpdateError, Done, TypeOK
  <2>2. TypeOK'
    BY <2>1 DEF TypeOK, objects
  <2>3. CopiesFaithful'
    BY <2>1, FaithfulKept DEF CopiesFaithful
  <2>4. QueueWasOurs' /\ DecisionSupported'
    BY <2>1 DEF QueueWasOurs, DecisionSupported, objects
  <2>5. QED
    BY <2>1, <2>2, <2>3, <2>4, ApiUntouched
<1>10. CASE Restart
  <2>1. /\ cache' = [k \in Requests |-> Missing] /\ event' = {} /\ queue' = {}
        /\ cur' = Missing /\ snap' = Missing /\ decision' = Missing
        /\ errors' \in 0..MaxErrors /\ UNCHANGED objects
    BY <1>10 DEF Restart, Done, TypeOK
  <2>2. TypeOK'
    BY <2>1 DEF TypeOK, objects
  <2>3. CopiesFaithful'
    BY <2>1 DEF CopiesFaithful, Faithful
  <2>4. QueueWasOurs' /\ DecisionSupported'
    BY <2>1 DEF QueueWasOurs, DecisionSupported
  <2>5. QED
    BY <2>1, <2>2, <2>3, <2>4, ApiUntouched
<1>11. CASE UNCHANGED vars
  <2>1. UNCHANGED <<cache, event, queue, cur, snap, decision, errors>> /\ UNCHANGED objects
    BY <1>11 DEF vars
  <2>2. TypeOK'
    BY <2>1 DEF TypeOK, objects
  <2>3. CopiesFaithful'
    BY <2>1, FaithfulKept DEF CopiesFaithful
  <2>4. QueueWasOurs' /\ DecisionSupported'
    BY <2>1 DEF QueueWasOurs, DecisionSupported, objects
  <2>5. QED
    BY <2>1, <2>2, <2>3, <2>4, ApiUntouched
<1>12. QED
  BY <1>1, <1>2, <1>3, <1>4, <1>5, <1>6, <1>7, <1>8, <1>9, <1>10, <1>11 DEF Next

(* The invariant is inductive.                                             *)
LEMMA InvHolds == Spec => []Inv
  BY InitInv, StepInv, PTL DEF Spec

-----------------------------------------------------------------------------
(* Every variable keeps its type, and Reconcile never works without a copy *)
(* of its request (TypeOK, controller.go:113-116).                         *)
THEOREM TypeCorrect == Spec => []TypeOK
<1>1. Inv => TypeOK
  BY DEF Inv
<1>2. QED
  BY <1>1, InvHolds, PTL

(* Late events, stale copies and retries make the approver decide on a     *)
(* request of another issuer only under a name that a request of ours has  *)
(* had (StrangersUndecided, controller.go:106, 118-131).                   *)
THEOREM StrangersLeft == Spec => []StrangersUndecided
<1>1. Inv => StrangersUndecided
  BY DEF Inv
<1>2. QED
  BY <1>1, InvHolds, PTL

(* An update of a stale copy never removes a decision that was made after  *)
(* it was read (NoLostWrite, controller.go:119-131).                       *)
THEOREM LosesNoWrite == Spec => NoLostWrite
<1>1. Inv /\ [Next]_vars => [KeepsDecisions]_vars
  BY StepInv
<1>2. NoLostWrite <=> [][KeepsDecisions]_vars
  BY PTL DEF NoLostWrite, KeepsDecisions
<1>3. QED
  BY <1>1, <1>2, InvHolds, PTL DEF Spec

(* Where nobody else decides and evaluation is stable, a request gets one  *)
(* decision and its own evaluation supports it, whatever requests had its  *)
(* name before (OneDecision, controller.go:113-132).                       *)
THEOREM DecidesOnce == Spec => []OneDecision
<1>1. Inv => OneDecision
  BY DEF Inv
<1>2. QED
  BY <1>1, InvHolds, PTL

=============================================================================
