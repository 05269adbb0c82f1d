------------------------- MODULE RootCAFile_proofs -------------------------
(***************************************************************************)
(* Safety of the root CA source, for any contents and any number of files, *)
(* and that it is a BundleSource.                                          *)
(***************************************************************************)
EXTENDS RootCAFile, TLAPS

USE RootCAFileAssumption

(* Queueing an event keeps the row of events one, whatever was in it stays *)
(* in it, and the event itself is in it.                                   *)
LEMMA QueueKeeps ==
  ASSUME events \in Seq({"remove", "write"}), NEW e \in {"remove", "write"}
  PROVE  /\ Queue(e) \in Seq({"remove", "write"}) /\ Queue(e) # <<>>
         /\ Contains(Queue(e), e)
         /\ Contains(events, "remove") => Contains(Queue(e), "remove")
<1>1. CASE events # <<>> /\ Last(events) = e
  <2>1. Queue(e) = events
    BY <1>1 DEF Queue
  <2>2. Len(events) \in 1..Len(events)
    BY <1>1
  <2>3. Contains(events, e)
    BY <1>1, <2>2 DEF Contains, Last
  <2>4. QED
    BY <1>1, <2>1, <2>3
<1>2. CASE ~(events # <<>> /\ Last(events) = e)
  <2>1. Queue(e) = Append(events, e)
    BY <1>2 DEF Queue
  <2>2. /\ Append(events, e) \in Seq({"remove", "write"})
        /\ Len(Append(events, e)) = Len(events) + 1
        /\ Append(events, e)[Len(events) + 1] = e
        /\ \A i \in 1..Len(events) : Append(events, e)[i] = events[i]
    OBVIOUS
  <2>3. Contains(Append(events, e), e)
    BY <2>2 DEF Contains
  <2>4. Contains(events, "remove") => Contains(Append(events, e), "remove")
    BY <2>2 DEF Contains
  <2>5. QED
    BY <2>1, <2>2, <2>3, <2>4
<1>3. QED
  BY <1>1, <1>2

(* The file that the path leads to has contents.                           *)
PathLeadsSomewhere == link # 0 => file[link] # Gone

(* Every variable keeps its type, and the source serves contents of a file *)
(* as soon as NewFile has returned (TypeOK, file.go:53-60).  That the path *)
(* never leads to a deleted inode is needed for the second part.           *)
LEMMA TypeInductive == Spec => [](TypeOK /\ PathLeadsSomewhere)
<1> DEFINE Inv == TypeOK /\ PathLeadsSomewhere
<1>1. Init => Inv
  <2> SUFFICES ASSUME Init
               PROVE  Inv
    OBVIOUS
  <2>1. PICK b \in Bundles : file = [i \in Inodes |-> IF i = 1 THEN b ELSE Gone]
    BY DEF Init
  <2>2. 1 \in Inodes
    BY DEF Inodes
  <2>3. file \in [Inodes -> Bundles \cup {Gone}] /\ file[1] # Gone
    BY <2>1, <2>2
  <2>4. events \in Seq({"remove", "write"})
    BY DEF Init
  <2>5. /\ used = 1 /\ link = 1 /\ watch = 0 /\ pc = "read" /\ pem = Gone
        /\ broadcasts = 0 /\ subscribed = FALSE /\ ctxDone = FALSE
        /\ quiet = FALSE /\ missed = FALSE
    BY DEF Init
  <2>6. PathLeadsSomewhere
    BY <2>3, <2>5 DEF PathLeadsSomewhere
  <2>7. link \in 0..used /\ watch \in 0..used /\ broadcasts \in Nat
    BY <2>5
  <2>8. QED
    BY <2>2, <2>3, <2>4, <2>5, <2>6, <2>7 DEF TypeOK
<1>2. Inv /\ [Next]_vars => Inv'
  <2> SUFFICES ASSUME Inv, [Next]_vars
               PROVE  Inv'
    OBVIOUS
  <2> USE DEF TypeOK, PathLeadsSomewhere, Inodes, vars, fs, source
  <2>1. CASE ReadInitial
    BY <2>1 DEF ReadInitial
  <2>2. CASE AddInitial
    BY <2>2 DEF AddInitial
  <2>3. CASE TakeEvent
    BY <2>3 DEF TakeEvent
  <2>4. CASE Readd
    BY <2>4 DEF Readd
  <2>5. CASE Reload
    BY <2>5 DEF Reload
  <2>6. CASE Close
    BY <2>6 DEF Close
  <2>7. ASSUME NEW b \in Bundles, Switch(b)
        PROVE  Inv'
    BY <2>7 DEF Switch, MayChange
  <2>8. ASSUME NEW b \in Bundles, Rewrite(b)
        PROVE  Inv'
    <3>1. events' \in Seq({"remove", "write"})
      BY <2>8, QueueKeeps DEF Rewrite
    <3>2. QED
      BY <2>8, <3>1 DEF Rewrite, MayChange
  <2>9. ASSUME NEW i \in 1..used, Delete(i)
        PROVE  /\ events' \in Seq({"remove", "write"})
               /\ watch' \in 0..used
               /\ file' \in [Inodes -> Bundles \cup {Gone}]
               /\ \A k \in Inodes \ {i} : file'[k] = file[k]
    BY <2>9, QueueKeeps DEF Delete
  <2>10. ASSUME NEW i \in 1..used, DeleteOld(i)
         PROVE  Inv'
    BY <2>9, <2>10 DEF DeleteOld
  <2>11. CASE Vanish
    BY <2>9, <2>11 DEF Vanish, MayChange
  <2>12. CASE Subscribe
    BY <2>12 DEF Subscribe
  <2>13. CASE Receive
    BY <2>13 DEF Receive
  <2>14. CASE Cancel \/ Settle \/ UNCHANGED vars
    BY <2>14 DEF Cancel, Settle
  <2>15. QED
    BY <2>1, <2>2, <2>3, <2>4, <2>5, <2>6, <2>7, <2>8, <2>10, <2>11, <2>12,
       <2>13, <2>14
    DEF Next, Loop
<1>3. QED
  BY <1>1, <1>2, PTL DEF Spec

(* The type invariant (TypeOK), for any number of inodes and events.       *)
THEOREM TypeCorrect == Spec => []TypeOK
BY TypeInductive, PTL

(* What NewFile has read is still there when it adds the watch, or missed. *)
ReadIsCurrent == pc = "add" => (link # 0 /\ pem = file[link]) \/ missed

(* Re-adding the watch before reloading leaves no window between an event  *)
(* and the next (IdleMeansCurrent, file.go:97-104).                        *)
THEOREM IdleIsCurrent == Spec => []IdleMeansCurrent
<1> DEFINE Inv == IdleMeansCurrent /\ ReadIsCurrent
<1>1. Init => Inv
  BY DEF Init, IdleMeansCurrent, ReadIsCurrent
<1>2. TypeOK /\ TypeOK' /\ Inv /\ [Next]_vars => Inv'
  <2> SUFFICES ASSUME TypeOK, TypeOK', Inv, [Next]_vars
               PROVE  Inv'
    OBVIOUS
  <2> USE DEF IdleMeansCurrent, ReadIsCurrent, Current, Inodes, vars, fs, source
  <2>1. CASE ReadInitial
    BY <2>1 DEF ReadInitial
  <2>2. CASE AddInitial
    BY <2>2 DEF AddInitial
  <2>3. CASE TakeEvent
    BY <2>3 DEF TakeEvent
  <2>4. CASE Readd
    BY <2>4 DEF Readd
  <2>5. CASE Reload
    BY <2>5 DEF Reload
  <2>6. CASE Close
    BY <2>6 DEF Close
  <2>7. ASSUME NEW b \in Bundles, Switch(b)
        PROVE  Inv'
    <3>1. watch' # link'
      BY <2>7 DEF Switch, TypeOK
    <3>2. QED
      BY <2>7, <3>1 DEF Switch, MayChange
  <2>8. ASSUME NEW b \in Bundles, Rewrite(b)
        PROVE  Inv'
    <3>1. watch = link => events' # <<>>
      BY <2>8, QueueKeeps DEF Rewrite, TypeOK
    <3>2. QED
      BY <2>8, <3>1 DEF Rewrite, MayChange
  <2>9. ASSUME NEW i \in 1..used, DeleteOld(i)
        PROVE  Inv'
    <3>1. link # 0 => file'[link] = file[link]
      BY <2>9 DEF DeleteOld, Delete, TypeOK
    <3>2. /\ watch' \in {watch, 0} /\ (watch' = watch => events' = events)
          /\ UNCHANGED <<link, pc, pem, missed>>
      BY <2>9 DEF DeleteOld, Delete, TypeOK
    <3>3. QED
      BY <3>1, <3>2
  <2>10. CASE Vanish
    BY <2>10 DEF Vanish, MayChange
  <2>11. CASE Subscribe
    BY <2>11 DEF Subscribe
  <2>12. CASE Receive
    BY <2>12 DEF Receive
  <2>13. CASE Cancel \/ Settle \/ UNCHANGED vars
    BY <2>13 DEF Cancel, Settle
  <2>14. QED
    BY <2>1, <2>2, <2>3, <2>4, <2>5, <2>6, <2>7, <2>8, <2>9, <2>10, <2>11,
       <2>12, <2>13
    DEF Next, Loop
<1>3. QED
  BY <1>1, <1>2, TypeCorrect, PTL DEF Spec

(* A running source has a watch or is about to handle the event that says  *)
(* it has none, unless the file was missing when it renewed the watch      *)
(* (file.go:97-105).                                                       *)
THEOREM WatchKept == Spec => []WatchSurvives
<1>1. Init => WatchSurvives
  BY DEF Init, WatchSurvives
<1>2. TypeOK /\ WatchSurvives /\ [Next]_vars => WatchSurvives'
  <2> SUFFICES ASSUME TypeOK, WatchSurvives, [Next]_vars
               PROVE  WatchSurvives'
    OBVIOUS
  <2> USE DEF WatchSurvives, vars, fs, source
  <2>1. CASE ReadInitial
    BY <2>1 DEF ReadInitial
  <2>2. CASE AddInitial
    BY <2>2 DEF AddInitial
  <2>3. CASE TakeEvent
    <3>1. CASE Head(events) = "remove"
      BY <2>3, <3>1 DEF TakeEvent
    <3>2. CASE Head(events) # "remove"
      <4>1. Contains(events, "remove") => Contains(Tail(events), "remove")
        <5>1. SUFFICES ASSUME NEW i \in 1..Len(events), events[i] = "remove"
                       PROVE  \E k \in 1..Len(Tail(events)) : Tail(events)[k] = "remove"
          BY DEF Contains
        <5>2. events # <<>> /\ events \in Seq({"remove", "write"})
          BY <2>3 DEF TakeEvent, TypeOK
        <5>3. i # 1
          BY <3>2, <5>1, <5>2
        <5>4. i - 1 \in 1..Len(Tail(events)) /\ Tail(events)[i - 1] = events[i]
          BY <5>2, <5>3
        <5>5. QED
          BY <5>1, <5>4
      <4>2. QED
        BY <2>3, <3>2, <4>1 DEF TakeEvent
    <3>3. QED
      BY <3>1, <3>2
  <2>4. CASE Readd
    BY <2>4 DEF Readd
  <2>5. CASE Reload
    BY <2>5 DEF Reload
  <2>6. CASE Close
    BY <2>6 DEF Close
  <2>7. ASSUME NEW b \in Bundles, Switch(b)
        PROVE  WatchSurvives'
    BY <2>7 DEF Switch, MayChange
  <2>8. ASSUME NEW b \in Bundles, Rewrite(b)
        PROVE  WatchSurvives'
    <3>1. Contains(events, "remove") => Contains(events', "remove")
      BY <2>8, QueueKeeps DEF Rewrite, TypeOK
    <3>2. QED
      BY <2>8, <3>1 DEF Rewrite, MayChange
  <2>9. ASSUME NEW i \in 1..used, Delete(i)
        PROVE  /\ watch' # 0 \/ watch = 0 \/ Contains(events', "remove")
               /\ Contains(events, "remove") => Contains(events', "remove")
    BY <2>9, QueueKeeps DEF Delete, TypeOK
  <2>10. ASSUME NEW i \in 1..used, DeleteOld(i)
         PROVE  WatchSurvives'
    BY <2>9, <2>10 DEF DeleteOld
  <2>11. CASE Vanish
    BY <2>9, <2>11 DEF Vanish, MayChange, TypeOK
  <2>12. CASE Subscribe
    BY <2>12 DEF Subscribe
  <2>13. CASE Receive
    BY <2>13 DEF Receive
  <2>14. CASE Cancel \/ Settle \/ UNCHANGED vars
    BY <2>14 DEF Cancel, Settle
  <2>15. QED
    BY <2>1, <2>2, <2>3, <2>4, <2>5, <2>6, <2>7, <2>8, <2>10, <2>11, <2>12,
       <2>13, <2>14
    DEF Next, Loop
<1>3. QED
  BY <1>1, <1>2, TypeCorrect, PTL DEF Spec

(* Nobody can subscribe before NewFile has returned the source.            *)
SubscribedLate == subscribed => pc \notin {"read", "add", "failed"}

(* The file source is a BundleSource, and never sends an event for no      *)
(* change (file.go:119-157).                                               *)
THEOREM SourceImplemented == Spec => IsABundleSource
<1>1. Init => Source!Init /\ SubscribedLate
  BY DEF Init, Source!Init, SubscribedLate
<1>2. SubscribedLate /\ [Next]_vars => SubscribedLate'
  BY DEF SubscribedLate, Next, Loop, ReadInitial, AddInitial, TakeEvent, Readd,
         Reload, Close, Switch, Rewrite, DeleteOld, Vanish, Subscribe, Receive,
         Cancel, Settle, vars, fs, source
<1>3. TypeOK /\ SubscribedLate /\ [Next]_vars
        => [Source!Next]_Source!sourceVars /\ [broadcasts' > broadcasts => pem' # pem]_vars
  <2> SUFFICES ASSUME TypeOK, SubscribedLate, [Next]_vars
               PROVE  /\ Source!Next \/ UNCHANGED Source!sourceVars
                      /\ broadcasts' > broadcasts => pem' # pem
    OBVIOUS
  <2> USE DEF TypeOK, vars, fs, source, Source!Next, Source!sourceVars
  <2>1. CASE ReadInitial
    <3>1. CASE link = 0
      BY <2>1, <3>1 DEF ReadInitial
    <3>2. CASE link # 0
      <4>1. pem' \in Bundles \cup {Gone}
        BY <2>1, <3>2 DEF ReadInitial, Inodes
      <4>2. QED
        BY <2>1, <3>2, <4>1 DEF ReadInitial, SubscribedLate, Source!Announce
    <3>3. QED
      BY <3>1, <3>2
  <2>2. CASE Reload
    <3>1. CASE link = 0 \/ file[link] = pem
      BY <2>2, <3>1 DEF Reload
    <3>2. CASE link # 0 /\ file[link] # pem
      <4>1. pem' \in Bundles \cup {Gone}
        BY <2>2, <3>2 DEF Reload, Inodes
      <4>2. QED
        BY <2>2, <3>2, <4>1 DEF Reload, Source!Announce
    <3>3. QED
      BY <3>1, <3>2
  <2>3. CASE Subscribe
    <3>1. Source!Subscribe
      BY <2>3, Zenon DEF Subscribe, Source!Subscribe
    <3>2. ~(broadcasts' > broadcasts)
      BY <2>3 DEF Subscribe
    <3>3. QED
      BY <3>1, <3>2
  <2>4. CASE Receive
    BY <2>4 DEF Receive, Source!Receive
  <2>5. CASE AddInitial \/ TakeEvent \/ Readd \/ Close \/ Vanish
    BY <2>5 DEF AddInitial, TakeEvent, Readd, Close, Vanish
  <2>6. ASSUME NEW b \in Bundles, Switch(b) \/ Rewrite(b)
        PROVE  UNCHANGED Source!sourceVars
    BY <2>6 DEF Switch, Rewrite
  <2>7. ASSUME NEW i \in 1..used, DeleteOld(i)
        PROVE  UNCHANGED Source!sourceVars
    BY <2>7 DEF DeleteOld
  <2>8. CASE Cancel \/ Settle \/ UNCHANGED vars
    BY <2>8 DEF Cancel, Settle
  <2>9. QED
    BY <2>1, <2>2, <2>3, <2>4, <2>5, <2>6, <2>7, <2>8 DEF Next, Loop
<1>4. QED
  BY <1>1, <1>2, <1>3, TypeCorrect, PTL
  DEF Spec, IsABundleSource, Source!Spec

=============================================================================
