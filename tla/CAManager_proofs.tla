-------------------------- MODULE CAManager_proofs --------------------------
(***************************************************************************)
(* Safety of the CA manager, for any set of volumes, any set of bundles,   *)
(* either write mode and any number of bundle changes.                     *)
(***************************************************************************)
EXTENDS CAManager, TLAPS

USE CAManagerAssumption

(* Every variable keeps its type (TypeOK) in every behaviour.              *)
THEOREM TypeCorrect == Spec => []TypeOK
<1>1. Init => TypeOK
  <2> SUFFICES ASSUME Init
               PROVE  TypeOK
    OBVIOUS
  <2>1. /\ managed \subseteq Volumes
        /\ caFile \in [Volumes -> Contents]
    BY Zenon DEF Init
  <2>2. renewing \in [Volumes -> Bundles \cup {None}]
    BY DEF Init
  <2>3. outdated \subseteq Volumes
    BY <2>1 DEF Init
  <2>4. /\ pem \in Bundles /\ pc = "start" /\ updateChan = 0 /\ todo = {}
        /\ cur = None /\ caPEM = None /\ broadcasts = 0 /\ retriers = 0
        /\ parked = 0 /\ changes = 0 /\ quiet = FALSE /\ ctxDone = FALSE
        /\ server = TRUE
        /\ singleFile \in BOOLEAN
    BY DEF Init
  <2>5. changes \in 0..MaxChanges
    BY <2>4
  <2>6. QED
    BY <2>1, <2>2, <2>3, <2>4, <2>5 DEF TypeOK
<1>2. TypeOK /\ [Next]_vars => TypeOK'
  <2> SUFFICES ASSUME TypeOK, [Next]_vars
               PROVE  TypeOK'
    OBVIOUS
  <2> USE DEF TypeOK, Contents, InPass, vars, loop, chans, env, disk
  <2>1. CASE Subscribe
    BY <2>1 DEF Subscribe
  <2>2. CASE Close
    BY <2>2 DEF Close
  <2>3. CASE WatcherEvent
    BY <2>3 DEF WatcherEvent
  <2>4. CASE Forward
    BY <2>4 DEF Forward
  <2>5. CASE TakeToken
    BY <2>5 DEF TakeToken
  <2>6. CASE Resend
    BY <2>6 DEF Resend
  <2>7. CASE RetryCancelled
    BY <2>7 DEF RetryCancelled
  <2>8. CASE ListVolumes
    BY <2>8 DEF ListVolumes
  <2>9. CASE ListFails
    BY <2>9 DEF ListFails, PassError
  <2>10. ASSUME NEW v \in Volumes, Sample(v)
         PROVE  TypeOK'
    BY <2>10 DEF Sample
  <2>11. ASSUME NEW v \in Volumes, ReadMetadataFails(v)
         PROVE  TypeOK'
    BY <2>11 DEF ReadMetadataFails, PassError
  <2>12. CASE SkipCurrent
    BY <2>12 DEF SkipCurrent, NextVolume
  <2>13. CASE NeedsWrite
    BY <2>13 DEF NeedsWrite
  <2>14. CASE WriteBundle
    BY <2>14 DEF WriteBundle, NextVolume
  <2>15. CASE WriteFails
    <3>1. PICK c \in {caFile[cur]} \cup {Torn} : caFile' = [caFile EXCEPT ![cur] = c]
      BY <2>15 DEF WriteFails
    <3>2. caFile' \in [Volumes -> Contents]
      BY <3>1
    <3>3. QED
      BY <2>15, <3>2 DEF WriteFails, PassError
  <2>16. CASE EndPass
    BY <2>16 DEF EndPass
  <2>17. ASSUME NEW b \in Bundles, ChangeBundle(b)
         PROVE  TypeOK'
    BY <2>17 DEF ChangeBundle
  <2>18. ASSUME NEW v \in Volumes, RenewSample(v)
         PROVE  TypeOK'
    BY <2>18 DEF RenewSample
  <2>19. ASSUME NEW v \in Volumes, NEW c \in Contents, RenewEnd(v, c)
         PROVE  TypeOK'
    BY <2>19 DEF RenewEnd, Left
  <2>20. ASSUME NEW v \in Volumes, RenewWrite(v)
         PROVE  TypeOK'
    BY <2>19, <2>20 DEF RenewWrite
  <2>21. ASSUME NEW v \in Volumes, RenewFails(v)
         PROVE  TypeOK'
    BY <2>19, <2>21 DEF RenewFails
  <2>22. ASSUME NEW v \in Volumes, Publish(v)
         PROVE  TypeOK'
    BY <2>22 DEF Publish, Left
  <2>23. ASSUME NEW v \in Volumes, Unpublish(v)
         PROVE  TypeOK'
    BY <2>23 DEF Unpublish
  <2>24. CASE Cancel
    BY <2>24 DEF Cancel
  <2>25. CASE ServerEnds
    BY <2>25 DEF ServerEnds
  <2>26. CASE Settle
    BY <2>26 DEF Settle
  <2>27. CASE UNCHANGED vars
    BY <2>27
  <2>28. QED
    BY <2>1, <2>2, <2>3, <2>4, <2>5, <2>6, <2>7, <2>8, <2>9, <2>10, <2>11,
       <2>12, <2>13, <2>14, <2>15, <2>16, <2>17, <2>18, <2>20, <2>21, <2>22,
       <2>23, <2>24, <2>25, <2>26, <2>27
    DEF Next, Run, Pass
<1>3. QED
  BY <1>1, <1>2, PTL DEF Spec

(* The bundle a pass is about to write is the current one, or the event    *)
(* announcing its successor is still to be received (camanager.go:186).    *)
THEOREM SampleFreshness == Spec => []SampleIsFresh
<1>1. Init => SampleIsFresh
  BY DEF Init, SampleIsFresh
<1>2. TypeOK /\ SampleIsFresh /\ [Next]_vars => SampleIsFresh'
  <2> SUFFICES ASSUME TypeOK, SampleIsFresh, [Next]_vars
               PROVE  SampleIsFresh'
    OBVIOUS
  <2> USE DEF SampleIsFresh, vars, loop, chans, env, disk
  <2>0. broadcasts \in Nat
    BY DEF TypeOK
  <2>1. CASE Subscribe
    BY <2>1 DEF Subscribe
  <2>2. CASE Close
    BY <2>2 DEF Close
  <2>3. CASE WatcherEvent
    BY <2>3 DEF WatcherEvent
  <2>4. CASE Forward
    BY <2>4 DEF Forward
  <2>5. CASE TakeToken
    BY <2>5 DEF TakeToken
  <2>6. CASE Resend
    BY <2>6 DEF Resend
  <2>7. CASE RetryCancelled
    BY <2>7 DEF RetryCancelled
  <2>8. CASE ListVolumes
    BY <2>8 DEF ListVolumes
  <2>9. CASE ListFails
    BY <2>9 DEF ListFails, PassError
  <2>10. ASSUME NEW v \in Volumes, Sample(v)
         PROVE  SampleIsFresh'
    BY <2>10 DEF Sample
  <2>11. ASSUME NEW v \in Volumes, ReadMetadataFails(v)
         PROVE  SampleIsFresh'
    BY <2>11 DEF ReadMetadataFails, PassError
  <2>12. CASE SkipCurrent
    BY <2>12 DEF SkipCurrent, NextVolume
  <2>13. CASE NeedsWrite
    BY <2>13 DEF NeedsWrite
  <2>14. CASE WriteBundle
    BY <2>14 DEF WriteBundle, NextVolume
  <2>15. CASE WriteFails
    BY <2>15 DEF WriteFails, PassError
  <2>16. CASE EndPass
    BY <2>16 DEF EndPass
  <2>17. ASSUME NEW b \in Bundles, ChangeBundle(b)
         PROVE  SampleIsFresh'
    BY <2>0, <2>17 DEF ChangeBundle
  <2>18. ASSUME NEW v \in Volumes, RenewSample(v)
         PROVE  SampleIsFresh'
    BY <2>18 DEF RenewSample
  <2>19. ASSUME NEW v \in Volumes, NEW c \in Contents, RenewEnd(v, c)
         PROVE  SampleIsFresh'
    BY <2>19 DEF RenewEnd, Left
  <2>20. ASSUME NEW v \in Volumes, RenewWrite(v)
         PROVE  SampleIsFresh'
    BY <2>19, <2>20 DEF RenewWrite, TypeOK, Contents
  <2>21. ASSUME NEW v \in Volumes, RenewFails(v)
         PROVE  SampleIsFresh'
    BY <2>19, <2>21 DEF RenewFails, TypeOK, Contents
  <2>22. ASSUME NEW v \in Volumes, Publish(v)
         PROVE  SampleIsFresh'
    BY <2>22 DEF Publish, Left
  <2>23. ASSUME NEW v \in Volumes, Unpublish(v)
         PROVE  SampleIsFresh'
    BY <2>23 DEF Unpublish
  <2>24. CASE Cancel
    BY <2>24 DEF Cancel
  <2>25. CASE ServerEnds
    BY <2>25 DEF ServerEnds
  <2>26. CASE Settle
    BY <2>26 DEF Settle
  <2>27. CASE UNCHANGED vars
    BY <2>27
  <2>28. QED
    BY <2>1, <2>2, <2>3, <2>4, <2>5, <2>6, <2>7, <2>8, <2>9, <2>10, <2>11,
       <2>12, <2>13, <2>14, <2>15, <2>16, <2>17, <2>18, <2>20, <2>21,
       <2>22, <2>23, <2>24, <2>25, <2>26, <2>27
    DEF Next, Run, Pass
<1>3. QED
  BY <1>1, <1>2, TypeCorrect, PTL DEF Spec

(* The CA manager never forgets a change it was told of: a managed volume  *)
(* with an old bundle, which nobody else put there, will be visited again. *)
THEOREM NeverForgotten == Spec => []ChangeNeverForgotten
<1>1. Init => ChangeNeverForgotten
  BY DEF Init, ChangeNeverForgotten
<1>2. TypeOK /\ SampleIsFresh /\ ChangeNeverForgotten /\ [Next]_vars
        => ChangeNeverForgotten'
  <2> SUFFICES ASSUME TypeOK, SampleIsFresh, ChangeNeverForgotten, [Next]_vars
               PROVE  ChangeNeverForgotten'
    OBVIOUS
  <2> USE DEF ChangeNeverForgotten, Outstanding, InPass, vars, loop, chans, env, disk
  <2>0. /\ broadcasts \in Nat /\ retriers \in Nat /\ parked \in Nat
        /\ updateChan \in {0, 1}
        /\ caFile \in [Volumes -> Contents]
        /\ managed \subseteq Volumes
    BY DEF TypeOK
  <2>1. CASE Subscribe
    BY <2>0, <2>1 DEF Subscribe
  <2>2. CASE Close
    BY <2>0, <2>2 DEF Close
  <2>3. CASE WatcherEvent
    BY <2>0, <2>3 DEF WatcherEvent
  <2>4. CASE Forward
    BY <2>0, <2>4 DEF Forward
  <2>5. CASE TakeToken
    BY <2>0, <2>5 DEF TakeToken
  <2>6. CASE Resend
    BY <2>0, <2>6 DEF Resend
  <2>7. CASE RetryCancelled
    BY <2>0, <2>7 DEF RetryCancelled
  <2>8. CASE ListVolumes
    BY <2>0, <2>8 DEF ListVolumes
  <2>9. CASE ListFails
    BY <2>0, <2>9 DEF ListFails, PassError
  <2>10. ASSUME NEW v \in Volumes, Sample(v)
         PROVE  ChangeNeverForgotten'
    BY <2>0, <2>10 DEF Sample
  <2>11. ASSUME NEW v \in Volumes, ReadMetadataFails(v)
         PROVE  ChangeNeverForgotten'
    BY <2>0, <2>11 DEF ReadMetadataFails, PassError
  <2>12. CASE SkipCurrent
    <3>1. caFile[cur] = pem \/ broadcasts > 0
      BY <2>12 DEF SkipCurrent, SampleIsFresh
    <3>2. QED
      BY <2>0, <2>12, <3>1 DEF SkipCurrent, NextVolume
  <2>13. CASE NeedsWrite
    BY <2>0, <2>13 DEF NeedsWrite
  <2>14. CASE WriteBundle
    <3>1. caPEM = pem \/ broadcasts > 0
      BY <2>14 DEF WriteBundle, SampleIsFresh
    <3>2. \A v \in Volumes : caFile'[v] = IF v = cur THEN caPEM ELSE caFile[v]
      BY <2>0, <2>14 DEF WriteBundle
    <3>3. QED
      BY <2>0, <2>14, <3>1, <3>2 DEF WriteBundle, NextVolume
  <2>15. CASE WriteFails
    BY <2>0, <2>15 DEF WriteFails, PassError
  <2>16. CASE EndPass
    BY <2>0, <2>16 DEF EndPass
  <2>17. ASSUME NEW b \in Bundles, ChangeBundle(b)
         PROVE  ChangeNeverForgotten'
    BY <2>0, <2>17 DEF ChangeBundle
  <2>18. ASSUME NEW v \in Volumes, RenewSample(v)
         PROVE  ChangeNeverForgotten'
    BY <2>0, <2>18 DEF RenewSample
  <2>19. ASSUME NEW v \in Volumes, NEW c \in Contents, RenewEnd(v, c)
         PROVE  ChangeNeverForgotten'
    BY <2>0, <2>19 DEF RenewEnd, Left
  <2>20. ASSUME NEW v \in Volumes, RenewWrite(v)
         PROVE  ChangeNeverForgotten'
    BY <2>0, <2>19, <2>20 DEF RenewWrite, TypeOK, Contents
  <2>21. ASSUME NEW v \in Volumes, RenewFails(v)
         PROVE  ChangeNeverForgotten'
    BY <2>0, <2>19, <2>21 DEF RenewFails, TypeOK, Contents
  <2>22. ASSUME NEW v \in Volumes, Publish(v)
         PROVE  ChangeNeverForgotten'
    BY <2>0, <2>22 DEF Publish, Left
  <2>23. ASSUME NEW v \in Volumes, Unpublish(v)
         PROVE  ChangeNeverForgotten'
    BY <2>0, <2>23 DEF Unpublish
  <2>24. CASE Cancel
    BY <2>0, <2>24 DEF Cancel
  <2>25. CASE ServerEnds
    BY <2>0, <2>25 DEF ServerEnds
  <2>26. CASE Settle
    BY <2>0, <2>26 DEF Settle
  <2>27. CASE UNCHANGED vars
    BY <2>27
  <2>28. QED
    BY <2>1, <2>2, <2>3, <2>4, <2>5, <2>6, <2>7, <2>8, <2>9, <2>10, <2>11,
       <2>12, <2>13, <2>14, <2>15, <2>16, <2>17, <2>18, <2>20, <2>21,
       <2>22, <2>23, <2>24, <2>25, <2>26, <2>27
    DEF Next, Run, Pass
<1>3. QED
  BY <1>1, <1>2, TypeCorrect, SampleFreshness, PTL DEF Spec

(* Retries never multiply: there is at most one chain of passes for every  *)
(* change of the bundle (camanager.go:130-146).                            *)
THEOREM RetriesBounded == Spec => []RetriesDoNotMultiply
<1>1. Init => RetriesDoNotMultiply
  BY DEF Init, RetriesDoNotMultiply, Work, Count, InPass
<1>2. TypeOK /\ RetriesDoNotMultiply /\ [Next]_vars => RetriesDoNotMultiply'
  <2> SUFFICES ASSUME TypeOK, RetriesDoNotMultiply, [Next]_vars
               PROVE  RetriesDoNotMultiply'
    OBVIOUS
  <2> USE DEF RetriesDoNotMultiply, Work, Count, InPass, vars, loop, chans, env, disk
  <2>0. /\ broadcasts \in Nat /\ retriers \in Nat /\ parked \in Nat
        /\ updateChan \in {0, 1} /\ changes \in Nat
    BY DEF TypeOK
  <2>1. CASE Subscribe
    BY <2>0, <2>1 DEF Subscribe
  <2>2. CASE Close
    BY <2>0, <2>2 DEF Close
  <2>3. CASE WatcherEvent
    BY <2>0, <2>3 DEF WatcherEvent
  <2>4. CASE Forward
    BY <2>0, <2>4 DEF Forward
  <2>5. CASE TakeToken
    BY <2>0, <2>5 DEF TakeToken
  <2>6. CASE Resend
    BY <2>0, <2>6 DEF Resend
  <2>7. CASE RetryCancelled
    BY <2>0, <2>7 DEF RetryCancelled
  <2>8. CASE ListVolumes
    BY <2>0, <2>8 DEF ListVolumes
  <2>9. CASE ListFails
    BY <2>0, <2>9 DEF ListFails, PassError
  <2>10. ASSUME NEW v \in Volumes, Sample(v)
         PROVE  RetriesDoNotMultiply'
    BY <2>0, <2>10 DEF Sample
  <2>11. ASSUME NEW v \in Volumes, ReadMetadataFails(v)
         PROVE  RetriesDoNotMultiply'
    BY <2>0, <2>11 DEF ReadMetadataFails, PassError
  <2>12. CASE SkipCurrent
    BY <2>0, <2>12 DEF SkipCurrent, NextVolume
  <2>13. CASE NeedsWrite
    BY <2>0, <2>13 DEF NeedsWrite
  <2>14. CASE WriteBundle
    BY <2>0, <2>14 DEF WriteBundle, NextVolume
  <2>15. CASE WriteFails
    BY <2>0, <2>15 DEF WriteFails, PassError
  <2>16. CASE EndPass
    BY <2>0, <2>16 DEF EndPass
  <2>17. ASSUME NEW b \in Bundles, ChangeBundle(b)
         PROVE  RetriesDoNotMultiply'
    BY <2>0, <2>17 DEF ChangeBundle
  <2>18. ASSUME NEW v \in Volumes, RenewSample(v)
         PROVE  RetriesDoNotMultiply'
    BY <2>0, <2>18 DEF RenewSample
  <2>19. ASSUME NEW v \in Volumes, NEW c \in Contents, RenewEnd(v, c)
         PROVE  RetriesDoNotMultiply'
    BY <2>0, <2>19 DEF RenewEnd, Left
  <2>20. ASSUME NEW v \in Volumes, RenewWrite(v)
         PROVE  RetriesDoNotMultiply'
    BY <2>0, <2>19, <2>20 DEF RenewWrite, TypeOK, Contents
  <2>21. ASSUME NEW v \in Volumes, RenewFails(v)
         PROVE  RetriesDoNotMultiply'
    BY <2>0, <2>19, <2>21 DEF RenewFails, TypeOK, Contents
  <2>22. ASSUME NEW v \in Volumes, Publish(v)
         PROVE  RetriesDoNotMultiply'
    BY <2>0, <2>22 DEF Publish, Left
  <2>23. ASSUME NEW v \in Volumes, Unpublish(v)
         PROVE  RetriesDoNotMultiply'
    BY <2>0, <2>23 DEF Unpublish
  <2>24. CASE Cancel
    BY <2>0, <2>24 DEF Cancel
  <2>25. CASE ServerEnds
    BY <2>0, <2>25 DEF ServerEnds
  <2>26. CASE Settle
    BY <2>0, <2>26 DEF Settle
  <2>27. CASE UNCHANGED vars
    BY <2>27
  <2>28. QED
    BY <2>1, <2>2, <2>3, <2>4, <2>5, <2>6, <2>7, <2>8, <2>9, <2>10, <2>11,
       <2>12, <2>13, <2>14, <2>15, <2>16, <2>17, <2>18, <2>20, <2>21,
       <2>22, <2>23, <2>24, <2>25, <2>26, <2>27
    DEF Next, Run, Pass
<1>3. QED
  BY <1>1, <1>2, TypeCorrect, PTL DEF Spec

(* The loop waits for itself only after two changes: the token of the      *)
(* first is still in the buffer when select takes the event of the second  *)
(* (camanager.go:124-127).  No failure has to happen.                      *)
THEOREM StuckTakesTwoChanges == Spec => [](Stuck => changes >= 2)
<1>1. TypeOK /\ RetriesDoNotMultiply => (Stuck => changes >= 2)
  BY DEF TypeOK, RetriesDoNotMultiply, Stuck, Work, Count, InPass
<1>2. QED
  BY <1>1, TypeCorrect, RetriesBounded, PTL

(* What the manager sees of the root CA source, and does to it, are the    *)
(* steps of a BundleSource: no step of a pass, a retry, a renewal or       *)
(* kubelet takes an event, makes one, or changes the bundle                *)
(* (file.go:119-157, camanager.go:110, 124).                               *)
THEOREM SourceRefined == Spec => UsesABundleSource
<1>1. Init => Source!Init
  BY DEF Init, Source!Init
<1>2. TypeOK /\ [Next]_vars => [Source!Next]_Source!sourceVars
  <2> SUFFICES ASSUME TypeOK, [Next]_vars
               PROVE  Source!Next \/ UNCHANGED Source!sourceVars
    OBVIOUS
  <2> USE DEF TypeOK, InPass, vars, loop, chans, env, disk, Source!Next,
          Source!sourceVars
  <2>1. CASE Subscribe
    BY <2>1 DEF Subscribe, Source!Subscribe
  <2>2. CASE WatcherEvent
    BY <2>2 DEF WatcherEvent, Source!Receive
  <2>3. ASSUME NEW b \in Bundles, ChangeBundle(b)
        PROVE  Source!Next
    BY <2>3 DEF ChangeBundle, Source!Announce
  <2>4. CASE Close \/ Forward \/ TakeToken \/ Resend \/ RetryCancelled
    BY <2>4 DEF Close, Forward, TakeToken, Resend, RetryCancelled
  <2>5. CASE ListVolumes \/ ListFails \/ SkipCurrent \/ NeedsWrite \/ WriteBundle
               \/ WriteFails \/ EndPass
    BY <2>5 DEF ListVolumes, ListFails, SkipCurrent, NeedsWrite, WriteBundle,
                WriteFails, EndPass, PassError, NextVolume
  <2>6. ASSUME NEW v \in Volumes, Sample(v) \/ ReadMetadataFails(v)
        PROVE  UNCHANGED Source!sourceVars
    BY <2>6 DEF Sample, ReadMetadataFails, PassError
  <2>7. ASSUME NEW v \in Volumes, RenewSample(v) \/ RenewWrite(v) \/ RenewFails(v)
        PROVE  UNCHANGED Source!sourceVars
    BY <2>7 DEF RenewSample, RenewWrite, RenewFails, RenewEnd
  <2>8. ASSUME NEW v \in Volumes, Publish(v) \/ Unpublish(v)
        PROVE  UNCHANGED Source!sourceVars
    BY <2>8 DEF Publish, Unpublish
  <2>9. CASE Cancel \/ ServerEnds \/ Settle \/ UNCHANGED vars
    BY <2>9 DEF Cancel, ServerEnds, Settle
  <2>10. QED
    BY <2>1, <2>2, <2>3, <2>4, <2>5, <2>6, <2>7, <2>8, <2>9 DEF Next, Run, Pass
<1>3. QED
  BY <1>1, <1>2, TypeCorrect, PTL DEF Spec, UsesABundleSource, Source!Spec

=============================================================================
