-------------------------- MODULE CratesDumpProofs --------------------------
(***************************************************************************)
(* CratesDump for any number of writers, readers, snapshots, shards and    *)
(* mishaps: its safety properties and the inductive invariant behind them. *)
(***************************************************************************)
EXTENDS CratesDump, TLAPS

(* Whoever is at work took the lock, and nobody removes it meanwhile.       *)
LockInv == \A w \in Writers : pc[w] # "idle" => lock

(* What a refresh has built, compared, and installed or verified.           *)
BuiltInv ==
  \A w \in Writers :
    /\ pc[w] \in {"comparing", "installing", "verifying", "publishing"} => got[w] \in Snapshots
    /\ pc[w] \in {"installing", "verifying", "publishing"} => current <= got[w]
    /\ pc[w] \in {"verifying", "publishing"} => got[w] \in dirs
    /\ pc[w] = "publishing" => files[got[w]] = Whole

(* A clear has listed all there is, and removes nothing that is published.  *)
ClearInv ==
  \A w \in Writers :
    /\ pc[w] = "removing" => current = 0
    /\ pc[w] \in {"unpublishing", "removing"} =>
         /\ dirs \subseteq toRmdir[w]
         /\ \A g \in Snapshots, s \in Shards : files[g][s] # "gone" => <<g, s>> \in toRemove[w]

(* No clear runs beside a quiet reader.                                     *)
QuietInv ==
  \A x \in quiet : reading[x] # 0 => \A w \in Writers : pc[w] \notin Clearing

IInv ==
  /\ TypeOK /\ LockInv /\ OneWriter /\ BuiltInv /\ ClearInv
  /\ PublishedIsWhole /\ QuietInv /\ ReadersFinish

LEMMA InitIInv == Init => IInv
<1> SUFFICES ASSUME Init PROVE IInv
  OBVIOUS
<1>1. TypeOK
  <2>1. Empty \in [Shards -> {"good", "bad", "gone"}]
    BY DEF Empty
  <2>2. files \in [Snapshots -> [Shards -> {"good", "bad", "gone"}]]
    BY <2>1 DEF Init
  <2>3. mishaps \in 0..MaxMishaps
    BY CratesDumpAssumption DEF Init
  <2>4. pc \in [Writers -> Places]
    BY DEF Init, Places
  <2>5. toRemove \in [Writers -> SUBSET (Snapshots \X Shards)]
    <3>1. {} \in SUBSET (Snapshots \X Shards)
      OBVIOUS
    <3> QED
      BY <3>1 DEF Init
  <2> QED
    BY <2>2, <2>3, <2>4, <2>5 DEF Init, TypeOK
<1>2. LockInv /\ OneWriter /\ BuiltInv /\ ClearInv
  BY DEF Init, LockInv, OneWriter, BuiltInv, ClearInv
<1>3. PublishedIsWhole /\ QuietInv /\ ReadersFinish
  BY DEF Init, PublishedIsWhole, QuietInv, ReadersFinish
<1> QED
  BY <1>1, <1>2, <1>3 DEF IInv

(* While a writer is at work every other one is idle.                       *)
LEMMA Alone ==
  ASSUME IInv, NEW w \in Writers, pc[w] # "idle", NEW v \in Writers, v # w
  PROVE  pc[v] = "idle"
  BY DEF IInv, OneWriter

LEMMA SnapshotsAreNumbers ==
  ASSUME IInv, NEW w \in Writers
  PROVE  current \in Nat /\ got[w] \in Nat
<1>1. current \in Snapshots \union {0} /\ got[w] \in Snapshots \union {0}
  BY DEF IInv, TypeOK
<1>2. Snapshots \union {0} \subseteq Nat
  BY CratesDumpAssumption
<1> QED
  BY <1>1, <1>2

(* The steps of a refresh, and the return of the lock.                      *)
LEMMA RefreshStep ==
  ASSUME IInv, NEW w \in Writers,
         \/ Stage(w) \/ (\E v \in Snapshots : Build(w, v)) \/ Compare(w) \/ Install(w)
         \/ Verify(w) \/ Publish(w) \/ Fail(w) \/ Clean(w) \/ Unlock(w)
  PROVE  IInv'
<1> USE CratesDumpAssumption
    DEF IInv, TypeOK, LockInv, OneWriter, BuiltInv, ClearInv, PublishedIsWhole, QuietInv,
        ReadersFinish, Places, Refreshing, Clearing, GoTo, disk, local, readers, accidents, vars
<1>1. ASSUME Stage(w) PROVE IInv'
  <2>0. \A v \in Writers : v # w => pc[v] = "idle"
    BY <1>1, Alone DEF Stage
  <2> QED
    BY <1>1, <2>0 DEF Stage
<1>2. ASSUME NEW snap \in Snapshots, Build(w, snap) PROVE IInv'
  <2>0. \A v \in Writers : v # w => pc[v] = "idle"
    BY <1>2, Alone DEF Build
  <2>1. TypeOK'
    BY <1>2, <2>0 DEF Build
  <2>2. BuiltInv'
    BY <1>2, <2>0 DEF Build
  <2>3. (LockInv /\ OneWriter /\ ClearInv /\ PublishedIsWhole /\
        QuietInv /\ ReadersFinish)'
    BY <1>2, <2>0 DEF Build
  <2> QED
    BY <2>1, <2>2, <2>3
<1>3. ASSUME Compare(w) PROVE IInv'
  <2>0. \A v \in Writers : v # w => pc[v] = "idle"
    BY <1>3, Alone DEF Compare
  <2>1. BuiltInv'
    <3>1. current \in Nat /\ got[w] \in Nat
      <4> HIDE DEF IInv
      <4> QED
        BY SnapshotsAreNumbers
    <3>2. CASE current > got[w]
      BY <1>3, <2>0, <3>1, <3>2 DEF Compare
    <3>3. CASE current <= got[w]
      BY <1>3, <2>0, <3>1, <3>3 DEF Compare
    <3> QED
      BY <3>1, <3>2, <3>3
  <2>2. (TypeOK /\ LockInv /\ OneWriter /\ ClearInv /\ PublishedIsWhole /\
        QuietInv /\ ReadersFinish)'
    BY <1>3, <2>0 DEF Compare
  <2> QED
    BY <2>1, <2>2
<1>4. ASSUME Install(w) PROVE IInv'
  <2>0. \A v \in Writers : v # w => pc[v] = "idle"
    BY <1>4, Alone DEF Install, Whole
  <2>1. TypeOK'
    <3>1. CASE got[w] \in dirs
      BY <1>4, <2>0, <3>1 DEF Install
    <3>2. CASE got[w] \notin dirs
      <4>1. got[w] \in Snapshots
        BY <1>4, <2>0 DEF Install
      <4>2. Whole \in [Shards -> {"good", "bad", "gone"}]
        BY DEF Whole
      <4>3. files' = [files EXCEPT ![got[w]] = Whole] /\ dirs' = dirs \union {got[w]}
        BY <1>4, <2>0, <3>2 DEF Install
      <4>4. files' \in [Snapshots -> [Shards -> {"good", "bad", "gone"}]]
        BY <4>1, <4>2, <4>3
      <4>5. dirs' \subseteq Snapshots
        BY <4>1, <4>3
      <4>6. pc' \in [Writers -> Places]
        BY <1>4, <3>2 DEF Install
      <4>7. UNCHANGED <<lock, leftover, current, got, toRemove, toRmdir, reading, opened, quiet,
                        mishaps, stale>>
        BY <1>4 DEF Install
      <4> QED
        BY <4>4, <4>5, <4>6, <4>7
    <3> QED
      BY <3>1, <3>2
  <2>2. BuiltInv'
    BY <1>4, <2>0 DEF Install, Whole
  <2>3. PublishedIsWhole'
    BY <1>4, <2>0 DEF Install, Whole
  <2>4. ReadersFinish'
    <3>1. CASE got[w] \in dirs
      BY <1>4, <2>0, <3>1 DEF Install
    <3>2. CASE got[w] \notin dirs
      <4>1. \A x \in quiet : reading[x] # 0 => files'[reading[x]] = files[reading[x]]
        BY <1>4, <2>0, <3>2 DEF Install
      <4> QED
        BY <1>4, <2>0, <3>2, <4>1 DEF Install
    <3> QED
      BY <3>1, <3>2
  <2>5. (LockInv /\ OneWriter /\ ClearInv /\ QuietInv)'
    BY <1>4, <2>0 DEF Install, Whole
  <2> QED
    BY <2>1, <2>2, <2>3, <2>4, <2>5
<1>5. ASSUME Verify(w) PROVE IInv'
  <2>0. \A v \in Writers : v # w => pc[v] = "idle"
    BY <1>5, Alone DEF Verify
  <2>1. BuiltInv'
    BY <1>5, <2>0 DEF Verify
  <2>2. (TypeOK /\ LockInv /\ OneWriter /\ ClearInv /\ PublishedIsWhole /\
        QuietInv /\ ReadersFinish)'
    BY <1>5, <2>0 DEF Verify
  <2> QED
    BY <2>1, <2>2
<1>6. ASSUME Publish(w) PROVE IInv'
  <2>0. \A v \in Writers : v # w => pc[v] = "idle"
    BY <1>6, Alone DEF Publish, Whole
  <2>1. BuiltInv'
    BY <1>6, <2>0 DEF Publish, Whole
  <2>2. PublishedIsWhole'
    BY <1>6, <2>0 DEF Publish, Whole
  <2>3. (TypeOK /\ LockInv /\ OneWriter /\ ClearInv /\ QuietInv /\
        ReadersFinish)'
    BY <1>6, <2>0 DEF Publish, Whole
  <2> QED
    BY <2>1, <2>2, <2>3
<1>7. ASSUME Fail(w) PROVE IInv'
  <2>0. \A v \in Writers : v # w => pc[v] = "idle"
    BY <1>7, Alone DEF Fail
  <2> QED
    BY <1>7, <2>0 DEF Fail
<1>8. ASSUME Clean(w) PROVE IInv'
  <2>0. \A v \in Writers : v # w => pc[v] = "idle"
    BY <1>8, Alone DEF Clean
  <2> QED
    BY <1>8, <2>0 DEF Clean
<1>9. ASSUME Unlock(w) PROVE IInv'
  <2>0. \A v \in Writers : v # w => pc[v] = "idle"
    BY <1>9, Alone DEF Unlock
  <2>1. TypeOK'
    BY <1>9, <2>0 DEF Unlock
  <2>2. LockInv'
    BY <1>9, <2>0 DEF Unlock
  <2>3. (OneWriter /\ BuiltInv /\ ClearInv /\ PublishedIsWhole /\
        QuietInv /\ ReadersFinish)'
    BY <1>9, <2>0 DEF Unlock
  <2> QED
    BY <2>1, <2>2, <2>3
<1> QED
  BY <1>1, <1>2, <1>3, <1>4, <1>5, <1>6, <1>7, <1>8, <1>9

(* The steps of a clear.                                                    *)
LEMMA ClearStep ==
  ASSUME IInv, NEW w \in Writers,
         \/ List(w) \/ Unpublish(w) \/ Cleared(w) \/ ClearFails(w)
         \/ (\E g \in Snapshots, s \in Shards : RemoveFile(w, g, s))
         \/ (\E g \in Snapshots : RemoveDir(w, g))
  PROVE  IInv'
<1> USE CratesDumpAssumption
    DEF IInv, TypeOK, LockInv, OneWriter, BuiltInv, ClearInv, PublishedIsWhole, QuietInv,
        ReadersFinish, Places, Refreshing, Clearing, GoTo, disk, local, readers, accidents, vars
<1>1. ASSUME List(w) PROVE IInv'
  <2>0. \A v \in Writers : v # w => pc[v] = "idle"
    BY <1>1, Alone DEF List
  <2>1. TypeOK'
    <3>1. CASE leftover
      BY <1>1, <2>0, <3>1 DEF List
    <3>2. CASE ~leftover
      <4> DEFINE found == {f \in Snapshots \X Shards : files[f[1]][f[2]] # "gone"}
      <4>1. /\ toRemove' = [toRemove EXCEPT ![w] = found]
            /\ toRmdir' = [toRmdir EXCEPT ![w] = dirs]
            /\ pc' = [pc EXCEPT ![w] = "unpublishing"]
        BY <1>1, <2>0, <3>2 DEF List
      <4>2. found \in SUBSET (Snapshots \X Shards)
        OBVIOUS
      <4> HIDE DEF found
      <4> QED
        BY <1>1, <2>0, <3>2, <4>1, <4>2 DEF List
    <3> QED
      BY <3>1, <3>2
  <2>2. ClearInv'
    BY <1>1, <2>0 DEF List
  <2>3. (LockInv /\ OneWriter /\ BuiltInv /\ PublishedIsWhole /\
        QuietInv /\ ReadersFinish)'
    BY <1>1, <2>0 DEF List
  <2> QED
    BY <2>1, <2>2, <2>3
<1>2. ASSUME Unpublish(w) PROVE IInv'
  <2>0. \A v \in Writers : v # w => pc[v] = "idle"
    BY <1>2, Alone DEF Unpublish
  <2>1. ClearInv'
    BY <1>2, <2>0 DEF Unpublish
  <2>2. PublishedIsWhole'
    BY <1>2, <2>0 DEF Unpublish
  <2>3. (TypeOK /\ LockInv /\ OneWriter /\ BuiltInv /\ QuietInv /\
        ReadersFinish)'
    BY <1>2, <2>0 DEF Unpublish
  <2> QED
    BY <2>1, <2>2, <2>3
<1>3. ASSUME NEW g \in Snapshots, NEW s \in Shards, RemoveFile(w, g, s) PROVE IInv'
  <2>0. \A v \in Writers : v # w => pc[v] = "idle"
    BY <1>3, Alone DEF RemoveFile
  <2>1. TypeOK'
    BY <1>3, <2>0 DEF RemoveFile
  <2>2. ClearInv'
    BY <1>3, <2>0 DEF RemoveFile
  <2>3. PublishedIsWhole'
    BY <1>3, <2>0 DEF RemoveFile
  <2>4. ReadersFinish'
    BY <1>3, <2>0 DEF RemoveFile
  <2>5. (LockInv /\ OneWriter /\ BuiltInv /\ QuietInv)'
    BY <1>3, <2>0 DEF RemoveFile
  <2> QED
    BY <2>1, <2>2, <2>3, <2>4, <2>5
<1>4. ASSUME NEW g \in Snapshots, RemoveDir(w, g) PROVE IInv'
  <2>0. \A v \in Writers : v # w => pc[v] = "idle"
    BY <1>4, Alone DEF RemoveDir
  <2>1. TypeOK'
    BY <1>4, <2>0 DEF RemoveDir
  <2>2. ClearInv'
    BY <1>4, <2>0 DEF RemoveDir
  <2>3. PublishedIsWhole'
    BY <1>4, <2>0 DEF RemoveDir
  <2>4. ReadersFinish'
    BY <1>4, <2>0 DEF RemoveDir
  <2>5. (LockInv /\ OneWriter /\ BuiltInv /\ QuietInv)'
    BY <1>4, <2>0 DEF RemoveDir
  <2> QED
    BY <2>1, <2>2, <2>3, <2>4, <2>5
<1>5. ASSUME Cleared(w) PROVE IInv'
  <2>0. \A v \in Writers : v # w => pc[v] = "idle"
    BY <1>5, Alone DEF Cleared
  <2> QED
    BY <1>5, <2>0 DEF Cleared
<1>6. ASSUME ClearFails(w) PROVE IInv'
  <2>0. \A v \in Writers : v # w => pc[v] = "idle"
    BY <1>6, Alone DEF ClearFails
  <2> QED
    BY <1>6, <2>0 DEF ClearFails
<1> QED
  BY <1>1, <1>2, <1>3, <1>4, <1>5, <1>6

LEMMA WriterStep ==
  ASSUME IInv, NEW w \in Writers, Step(w)
  PROVE  IInv'
<1>1. CASE \/ Stage(w) \/ (\E v \in Snapshots : Build(w, v)) \/ Compare(w) \/ Install(w)
           \/ Verify(w) \/ Publish(w) \/ Fail(w) \/ Clean(w) \/ Unlock(w)
  BY <1>1, RefreshStep
<1>2. CASE \/ List(w) \/ Unpublish(w) \/ Cleared(w) \/ ClearFails(w)
           \/ (\E g \in Snapshots, s \in Shards : RemoveFile(w, g, s))
           \/ (\E g \in Snapshots : RemoveDir(w, g))
  BY <1>2, ClearStep
<1> QED
  BY <1>1, <1>2 DEF Step

LEMMA StepIInv == IInv /\ [Next]_vars => IInv'
<1> SUFFICES ASSUME IInv, [Next]_vars PROVE IInv'
  OBVIOUS
<1> USE CratesDumpAssumption
    DEF IInv, TypeOK, LockInv, OneWriter, BuiltInv, ClearInv, PublishedIsWhole, QuietInv,
        ReadersFinish, Places, Refreshing, Clearing, GoTo, disk, local, readers, accidents, vars
<1>1. ASSUME NEW w \in Writers, Lock(w) PROVE IInv'
  <2>1. OneWriter'
    BY <1>1 DEF Lock
  <2>2. QuietInv'
    BY <1>1 DEF Lock
  <2>3. (TypeOK /\ LockInv /\ BuiltInv /\ ClearInv /\ PublishedIsWhole /\
        ReadersFinish)'
    BY <1>1 DEF Lock
  <2> QED
    BY <2>1, <2>2, <2>3
<1>2. ASSUME NEW w \in Writers, Kill(w) PROVE IInv'
  <2>0. \A v \in Writers : v # w => pc[v] = "idle"
    BY <1>2, Alone DEF Kill
  <2>1. TypeOK'
    BY <1>2, <2>0 DEF Kill
  <2>2. (LockInv /\ OneWriter /\ BuiltInv /\ ClearInv /\
        PublishedIsWhole /\ QuietInv /\ ReadersFinish)'
    BY <1>2, <2>0 DEF Kill
  <2> QED
    BY <2>1, <2>2
<1>3. ASSUME NEW g \in Snapshots, NEW s \in Shards, Damage(g, s) PROVE IInv'
  <2>1. TypeOK'
    BY <1>3 DEF Damage
  <2>2. PublishedIsWhole'
    BY <1>3 DEF Damage
  <2>3. ReadersFinish'
    BY <1>3 DEF Damage
  <2>4. (LockInv /\ OneWriter /\ BuiltInv /\ ClearInv /\ QuietInv)'
    BY <1>3 DEF Damage
  <2> QED
    BY <2>1, <2>2, <2>3, <2>4
<1>4. ASSUME RemoveLock PROVE IInv'
  <2>1. LockInv'
    BY <1>4 DEF RemoveLock
  <2>2. (TypeOK /\ OneWriter /\ BuiltInv /\ ClearInv /\
        PublishedIsWhole /\ QuietInv /\ ReadersFinish)'
    BY <1>4 DEF RemoveLock
  <2> QED
    BY <2>1, <2>2
<1>5. ASSUME RemoveBuild PROVE IInv'
  BY <1>5 DEF RemoveBuild
<1>6. ASSUME NEW x \in Readers, ReadCurrent(x) PROVE IInv'
  <2>1. TypeOK'
    BY <1>6 DEF ReadCurrent
  <2>2. QuietInv'
    BY <1>6 DEF ReadCurrent
  <2>3. ReadersFinish'
    BY <1>6 DEF ReadCurrent
  <2>4. (LockInv /\ OneWriter /\ BuiltInv /\ ClearInv /\ PublishedIsWhole)'
    BY <1>6 DEF ReadCurrent
  <2> QED
    BY <2>1, <2>2, <2>3, <2>4
<1>7. ASSUME NEW x \in Readers, OpenDir(x) PROVE IInv'
  <2>1. QuietInv'
    BY <1>7 DEF OpenDir
  <2>2. ReadersFinish'
    BY <1>7 DEF OpenDir
  <2>3. (TypeOK /\ LockInv /\ OneWriter /\ BuiltInv /\ ClearInv /\
        PublishedIsWhole)'
    BY <1>7 DEF OpenDir
  <2> QED
    BY <2>1, <2>2, <2>3
<1>8. ASSUME NEW x \in Readers, CloseIndex(x) PROVE IInv'
  <2>1. QuietInv'
    BY <1>8 DEF CloseIndex
  <2>2. ReadersFinish'
    BY <1>8 DEF CloseIndex
  <2>3. (TypeOK /\ LockInv /\ OneWriter /\ BuiltInv /\ ClearInv /\
        PublishedIsWhole)'
    BY <1>8 DEF CloseIndex
  <2> QED
    BY <2>1, <2>2, <2>3
<1>9. ASSUME NEW w \in Writers, Step(w) PROVE IInv'
  <2> HIDE DEF IInv
  <2> QED
    BY <1>9, WriterStep
<1>10. CASE UNCHANGED vars
  BY <1>10
<1> QED
  BY <1>1, <1>2, <1>3, <1>4, <1>5, <1>6, <1>7, <1>8, <1>9, <1>10 DEF Next, Read

THEOREM IInvHolds == Spec => []IInv
  BY InitIInv, StepIInv, PTL DEF Spec

(* The state variables keep their types.                                    *)
THEOREM DumpTypeOK == Spec => []TypeOK
  BY IInvHolds, PTL DEF IInv

(* The lock file keeps refreshes and clears apart through any number of     *)
(* kills and recoveries.                                                    *)
THEOREM DumpOneWriter == Spec => []OneWriter
  BY IInvHolds, PTL DEF IInv

(* Wherever a refresh or a clear is killed, what current.json names is      *)
(* installed and has all its shard files.                                   *)
THEOREM DumpPublishedIsWhole == Spec => []PublishedIsWhole
  BY IInvHolds, PTL DEF IInv

(* A scan beside which no clear ran finds all the shards it opened.         *)
THEOREM DumpReadersFinish == Spec => []ReadersFinish
  BY IInvHolds, PTL DEF IInv

(* A refresh publishes nothing older than what was published, and nothing   *)
(* corrupt.                                                                 *)
THEOREM DumpPublishesForward == Spec => PublishesForward
<1>1. ASSUME IInv, NEW w \in Writers, Publish(w)
      PROVE  current' >= current /\ files'[current'] = Whole
  BY <1>1, SnapshotsAreNumbers DEF IInv, BuiltInv, Publish
<1>2. IInv => [\A w \in Writers :
                 Publish(w) => current' >= current /\ files'[current'] = Whole]_vars
  BY <1>1
<1> QED
  BY <1>2, IInvHolds, PTL DEF Spec, PublishesForward

(* A clear that runs to its end leaves no generation and no file, whatever  *)
(* earlier kills left half done.                                            *)
THEOREM DumpClearLeavesNothing == Spec => ClearLeavesNothing
<1>1. ASSUME IInv, NEW w \in Writers, Cleared(w) PROVE Nothing'
  <2>1. current' = 0 /\ dirs' = {} /\ files' = files
    BY <1>1 DEF IInv, ClearInv, Cleared, disk
  <2>2. ASSUME NEW g \in Snapshots PROVE files[g] = Empty
    <3>1. files[g] \in [Shards -> {"good", "bad", "gone"}]
      BY <1>1 DEF IInv, TypeOK
    <3>2. \A s \in Shards : files[g][s] = "gone"
      BY <1>1 DEF IInv, ClearInv, Cleared
    <3> QED
      BY <3>1, <3>2 DEF Empty
  <2> QED
    BY <2>1, <2>2 DEF Nothing
<1>2. IInv => [\A w \in Writers : Cleared(w) => Nothing']_vars
  BY <1>1
<1> QED
  BY <1>2, IInvHolds, PTL DEF Spec, ClearLeavesNothing

=============================================================================
