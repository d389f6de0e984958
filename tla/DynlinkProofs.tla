--------------------------- MODULE DynlinkProofs ---------------------------
(***************************************************************************)
(* Proofs about Dynlink: the safety properties hold for every number of    *)
(* threads and libraries, every nesting of constructors and every number   *)
(* of calls.  IInv is preserved conjunct by conjunct, one lemma each.      *)
(***************************************************************************)
EXTENDS Dynlink, TLAPS

LEMMA TypeInit == Init => TypeOK
BY ConstantsAssumption
DEF Init, TypeOK, Status, CancelState, Step, Activation

\* Every action keeps every variable in its type.
LEMMA TypeStep == TypeOK /\ [Next]_vars => TypeOK'
<1> SUFFICES ASSUME TypeOK, [Next]_vars
             PROVE  TypeOK'
  OBVIOUS
<1> USE ConstantsAssumption
    DEF TypeOK, Status, CancelState, Step, Activation, At, InUserCode, Goto,
        threadVars, lockVars, libVars
<1>1. ASSUME NEW t \in Thread, Call(t) PROVE TypeOK'
  BY <1>1 DEF Call
<1>2. ASSUME NEW t \in Thread, DisableCancel(t) PROVE TypeOK'
  BY <1>2 DEF DisableCancel
<1>3. ASSUME NEW t \in Thread, WrLock(t) PROVE TypeOK'
  BY <1>3 DEF WrLock
<1>4. ASSUME NEW t \in Thread, InhibitPtc(t) PROVE TypeOK'
  BY <1>4 DEF InhibitPtc
<1>5. ASSUME NEW t \in Thread, NEW lib \in Lib \cup {NoLib}, LoaderOpen(t, lib)
      PROVE  TypeOK'
  BY <1>5 DEF LoaderOpen
<1>6. ASSUME NEW t \in Thread, ReleasePtc(t) PROVE TypeOK'
  BY <1>6 DEF ReleasePtc
<1>7. ASSUME NEW t \in Thread, Unlock(t) PROVE TypeOK'
  BY <1>7 DEF Unlock
<1>8. ASSUME NEW t \in Thread, RunCtors(t) PROVE TypeOK'
  BY <1>8 DEF RunCtors
<1>9. ASSUME NEW t \in Thread, CtorsReturn(t) PROVE TypeOK'
  BY <1>9 DEF CtorsReturn
<1>10. ASSUME NEW t \in Thread, RestoreCancel(t) PROVE TypeOK'
  BY <1>10 DEF RestoreCancel
<1>11. ASSUME NEW t \in Thread, Return(t) PROVE TypeOK'
  BY <1>11 DEF Return
<1>12. ASSUME NEW t \in Thread, CreateCall(t) PROVE TypeOK'
  BY <1>12 DEF CreateCall
<1>13. ASSUME NEW t \in Thread, AcquirePtc(t) PROVE TypeOK'
  BY <1>13 DEF AcquirePtc
<1>14. ASSUME NEW t \in Thread, NEW u \in Thread, Spawn(t, u) PROVE TypeOK'
  BY <1>14 DEF Spawn
<1>15. ASSUME NEW t \in Thread, SpawnFails(t) PROVE TypeOK'
  BY <1>15 DEF SpawnFails
<1>16. ASSUME NEW t \in Thread, NEW state \in CancelState, SetCancelState(t, state)
       PROVE  TypeOK'
  BY <1>16 DEF SetCancelState
<1>17. ASSUME NEW t \in Thread, CancelRequest(t) PROVE TypeOK'
  BY <1>17 DEF CancelRequest
<1>18. ASSUME NEW t \in Thread, ActOnCancel(t) \/ Exit(t) PROVE TypeOK'
  BY <1>18 DEF ActOnCancel, Exit
<1>19. CASE UNCHANGED vars
  BY <1>19 DEF vars
<1> QED
  BY <1>1, <1>2, <1>3, <1>4, <1>5, <1>6, <1>7, <1>8, <1>9, <1>10, <1>11, <1>12,
     <1>13, <1>14, <1>15, <1>16, <1>17, <1>18, <1>19
  DEF Next, Opening, Environment, Over

\* When an open call returns, its thread is back in the program or in the
\* constructors of the call that is now the youngest.
LEMMA ReturnsToCaller ==
  ASSUME TypeOK, StackShape, NEW t \in Thread, Return(t)
  PROVE  /\ depth'[t] = depth[t] - 1
         /\ depth'[t] > 0 => pc'[t][depth'[t]] = "ctors"
         /\ \A u \in Thread \ {t} : depth'[u] = depth[u] /\ pc'[u] = pc[u]
<1>1. /\ depth[t] \in Activation
      /\ depth' = [depth EXCEPT ![t] = depth[t] - 1]
      /\ pc' = [pc EXCEPT ![t][depth[t]] = "none"]
  BY ConstantsAssumption DEF Return, At, TypeOK, Activation
<1>2. depth'[t] = depth[t] - 1
  BY <1>1 DEF TypeOK
<1>3. ASSUME depth'[t] > 0 PROVE pc'[t][depth'[t]] = "ctors"
  <2>1. depth'[t] \in Activation /\ depth'[t] < depth[t]
    BY <1>1, <1>2, <1>3, ConstantsAssumption DEF Activation
  <2>2. pc[t][depth'[t]] = "ctors"
    BY <2>1 DEF StackShape
  <2> QED
    BY <1>1, <2>1, <2>2 DEF TypeOK
<1>4. \A u \in Thread \ {t} : depth'[u] = depth[u] /\ pc'[u] = pc[u]
  BY <1>1 DEF TypeOK
<1> QED
  BY <1>2, <1>3, <1>4

\* An action moves the youngest activation of one thread only.
LEMMA StackShapeStep == TypeOK /\ StackShape /\ [Next]_vars => StackShape'
<1> SUFFICES ASSUME TypeOK, StackShape, [Next]_vars
             PROVE  StackShape'
  OBVIOUS
<1> USE ConstantsAssumption
    DEF TypeOK, Status, CancelState, Step, Activation, At, InUserCode, Goto,
        threadVars, lockVars, libVars, StackShape
<1>1. ASSUME NEW t \in Thread, Call(t) PROVE StackShape'
  BY <1>1 DEF Call
<1>2. ASSUME NEW t \in Thread, DisableCancel(t) PROVE StackShape'
  BY <1>2 DEF DisableCancel
<1>3. ASSUME NEW t \in Thread, WrLock(t) PROVE StackShape'
  BY <1>3 DEF WrLock
<1>4. ASSUME NEW t \in Thread, InhibitPtc(t) PROVE StackShape'
  BY <1>4 DEF InhibitPtc
<1>5. ASSUME NEW t \in Thread, NEW lib \in Lib \cup {NoLib}, LoaderOpen(t, lib) PROVE StackShape'
  BY <1>5 DEF LoaderOpen
<1>6. ASSUME NEW t \in Thread, ReleasePtc(t) PROVE StackShape'
  BY <1>6 DEF ReleasePtc
<1>7. ASSUME NEW t \in Thread, Unlock(t) PROVE StackShape'
  BY <1>7 DEF Unlock
<1>8. ASSUME NEW t \in Thread, RunCtors(t) PROVE StackShape'
  BY <1>8 DEF RunCtors
<1>9. ASSUME NEW t \in Thread, CtorsReturn(t) PROVE StackShape'
  BY <1>9 DEF CtorsReturn
<1>10. ASSUME NEW t \in Thread, RestoreCancel(t) PROVE StackShape'
  BY <1>10 DEF RestoreCancel
<1>11. ASSUME NEW t \in Thread, Return(t) PROVE StackShape'
  BY <1>11 DEF Return
<1>12. ASSUME NEW t \in Thread, CreateCall(t) PROVE StackShape'
  BY <1>12 DEF CreateCall
<1>13. ASSUME NEW t \in Thread, AcquirePtc(t) PROVE StackShape'
  BY <1>13 DEF AcquirePtc
<1>14. ASSUME NEW t \in Thread, NEW u \in Thread, Spawn(t, u) PROVE StackShape'
  BY <1>14 DEF Spawn
<1>15. ASSUME NEW t \in Thread, SpawnFails(t) PROVE StackShape'
  BY <1>15 DEF SpawnFails
<1>16. ASSUME NEW t \in Thread, NEW state \in CancelState, SetCancelState(t, state) PROVE StackShape'
  BY <1>16 DEF SetCancelState
<1>17. ASSUME NEW t \in Thread, CancelRequest(t) PROVE StackShape'
  BY <1>17 DEF CancelRequest
<1>18. ASSUME NEW t \in Thread, ActOnCancel(t) \/ Exit(t) PROVE StackShape'
  BY <1>18 DEF ActOnCancel, Exit
<1>19. CASE UNCHANGED vars
  BY <1>19 DEF vars
<1> QED
  BY <1>1, <1>2, <1>3, <1>4, <1>5, <1>6, <1>7, <1>8, <1>9, <1>10, <1>11,
     <1>12, <1>13, <1>14, <1>15, <1>16, <1>17, <1>18, <1>19
  DEF Next, Opening, Environment, Over

\* The program counters inside the critical sections follow the two locks.
LEMMA LockOwnersStep == TypeOK /\ StackShape /\ CancelOff /\ LockOwners /\ [Next]_vars => LockOwners'
<1> SUFFICES ASSUME TypeOK, StackShape, CancelOff, LockOwners, [Next]_vars
             PROVE  LockOwners'
  OBVIOUS
<1> USE ConstantsAssumption
    DEF TypeOK, Status, CancelState, Step, Activation, At, InUserCode, Goto,
        threadVars, lockVars, libVars, StackShape, LockOwners, CancelOff, Locked, Uncancelable
<1>1. ASSUME NEW t \in Thread, Call(t) PROVE LockOwners'
  BY <1>1 DEF Call
<1>2. ASSUME NEW t \in Thread, DisableCancel(t) PROVE LockOwners'
  BY <1>2 DEF DisableCancel
<1>3. ASSUME NEW t \in Thread, WrLock(t) PROVE LockOwners'
  BY <1>3 DEF WrLock
<1>4. ASSUME NEW t \in Thread, InhibitPtc(t) PROVE LockOwners'
  BY <1>4 DEF InhibitPtc
<1>5. ASSUME NEW t \in Thread, NEW lib \in Lib \cup {NoLib}, LoaderOpen(t, lib) PROVE LockOwners'
  BY <1>5 DEF LoaderOpen
<1>6. ASSUME NEW t \in Thread, ReleasePtc(t) PROVE LockOwners'
  BY <1>6 DEF ReleasePtc
<1>7. ASSUME NEW t \in Thread, Unlock(t) PROVE LockOwners'
  BY <1>7 DEF Unlock
<1>8. ASSUME NEW t \in Thread, RunCtors(t) PROVE LockOwners'
  BY <1>8 DEF RunCtors
<1>9. ASSUME NEW t \in Thread, CtorsReturn(t) PROVE LockOwners'
  BY <1>9 DEF CtorsReturn
<1>10. ASSUME NEW t \in Thread, RestoreCancel(t) PROVE LockOwners'
  BY <1>10 DEF RestoreCancel
<1>11. ASSUME NEW t \in Thread, Return(t) PROVE LockOwners'
  BY <1>11 DEF Return
<1>12. ASSUME NEW t \in Thread, CreateCall(t) PROVE LockOwners'
  BY <1>12 DEF CreateCall
<1>13. ASSUME NEW t \in Thread, AcquirePtc(t) PROVE LockOwners'
  BY <1>13 DEF AcquirePtc
<1>14. ASSUME NEW t \in Thread, NEW u \in Thread, Spawn(t, u) PROVE LockOwners'
  BY <1>14 DEF Spawn
<1>15. ASSUME NEW t \in Thread, SpawnFails(t) PROVE LockOwners'
  BY <1>15 DEF SpawnFails
<1>16. ASSUME NEW t \in Thread, NEW state \in CancelState, SetCancelState(t, state) PROVE LockOwners'
  BY <1>16 DEF SetCancelState
<1>17. ASSUME NEW t \in Thread, CancelRequest(t) PROVE LockOwners'
  BY <1>17 DEF CancelRequest
<1>18. ASSUME NEW t \in Thread, ActOnCancel(t) \/ Exit(t) PROVE LockOwners'
  BY <1>18 DEF ActOnCancel, Exit
<1>19. CASE UNCHANGED vars
  BY <1>19 DEF vars
<1> QED
  BY <1>1, <1>2, <1>3, <1>4, <1>5, <1>6, <1>7, <1>8, <1>9, <1>10, <1>11,
     <1>12, <1>13, <1>14, <1>15, <1>16, <1>17, <1>18, <1>19
  DEF Next, Opening, Environment, Over

\* Inhibiting pthread_create waits for it, and it waits while inhibited.
LEMMA PtcExclusionStep == TypeOK /\ PtcExclusion /\ [Next]_vars => PtcExclusion'
<1> SUFFICES ASSUME TypeOK, PtcExclusion, [Next]_vars
             PROVE  PtcExclusion'
  OBVIOUS
<1> USE ConstantsAssumption
    DEF TypeOK, Status, CancelState, Step, Activation, At, InUserCode, Goto,
        threadVars, lockVars, libVars, PtcExclusion, NoPtcReader
<1>1. ASSUME NEW t \in Thread, Call(t) PROVE PtcExclusion'
  BY <1>1 DEF Call
<1>2. ASSUME NEW t \in Thread, DisableCancel(t) PROVE PtcExclusion'
  BY <1>2 DEF DisableCancel
<1>3. ASSUME NEW t \in Thread, WrLock(t) PROVE PtcExclusion'
  BY <1>3 DEF WrLock
<1>4. ASSUME NEW t \in Thread, InhibitPtc(t) PROVE PtcExclusion'
  BY <1>4 DEF InhibitPtc
<1>5. ASSUME NEW t \in Thread, NEW lib \in Lib \cup {NoLib}, LoaderOpen(t, lib) PROVE PtcExclusion'
  BY <1>5 DEF LoaderOpen
<1>6. ASSUME NEW t \in Thread, ReleasePtc(t) PROVE PtcExclusion'
  BY <1>6 DEF ReleasePtc
<1>7. ASSUME NEW t \in Thread, Unlock(t) PROVE PtcExclusion'
  BY <1>7 DEF Unlock
<1>8. ASSUME NEW t \in Thread, RunCtors(t) PROVE PtcExclusion'
  BY <1>8 DEF RunCtors
<1>9. ASSUME NEW t \in Thread, CtorsReturn(t) PROVE PtcExclusion'
  BY <1>9 DEF CtorsReturn
<1>10. ASSUME NEW t \in Thread, RestoreCancel(t) PROVE PtcExclusion'
  BY <1>10 DEF RestoreCancel
<1>11. ASSUME NEW t \in Thread, Return(t) PROVE PtcExclusion'
  BY <1>11 DEF Return
<1>12. ASSUME NEW t \in Thread, CreateCall(t) PROVE PtcExclusion'
  BY <1>12 DEF CreateCall
<1>13. ASSUME NEW t \in Thread, AcquirePtc(t) PROVE PtcExclusion'
  BY <1>13 DEF AcquirePtc
<1>14. ASSUME NEW t \in Thread, NEW u \in Thread, Spawn(t, u) PROVE PtcExclusion'
  BY <1>14 DEF Spawn
<1>15. ASSUME NEW t \in Thread, SpawnFails(t) PROVE PtcExclusion'
  BY <1>15 DEF SpawnFails
<1>16. ASSUME NEW t \in Thread, NEW state \in CancelState, SetCancelState(t, state) PROVE PtcExclusion'
  BY <1>16 DEF SetCancelState
<1>17. ASSUME NEW t \in Thread, CancelRequest(t) PROVE PtcExclusion'
  BY <1>17 DEF CancelRequest
<1>18. ASSUME NEW t \in Thread, ActOnCancel(t) \/ Exit(t) PROVE PtcExclusion'
  BY <1>18 DEF ActOnCancel, Exit
<1>19. CASE UNCHANGED vars
  BY <1>19 DEF vars
<1> QED
  BY <1>1, <1>2, <1>3, <1>4, <1>5, <1>6, <1>7, <1>8, <1>9, <1>10, <1>11,
     <1>12, <1>13, <1>14, <1>15, <1>16, <1>17, <1>18, <1>19
  DEF Next, Opening, Environment, Over

\* Cancellation stays off from before the lock is taken until it is released.
LEMMA CancelOffStep == TypeOK /\ StackShape /\ CancelOff /\ [Next]_vars => CancelOff'
<1> SUFFICES ASSUME TypeOK, StackShape, CancelOff, [Next]_vars
             PROVE  CancelOff'
  OBVIOUS
<1> USE ConstantsAssumption
    DEF TypeOK, Status, CancelState, Step, Activation, At, InUserCode, Goto,
        threadVars, lockVars, libVars, StackShape, CancelOff, Locked, Uncancelable
<1>1. ASSUME NEW t \in Thread, Call(t) PROVE CancelOff'
  BY <1>1 DEF Call
<1>2. ASSUME NEW t \in Thread, DisableCancel(t) PROVE CancelOff'
  BY <1>2 DEF DisableCancel
<1>3. ASSUME NEW t \in Thread, WrLock(t) PROVE CancelOff'
  BY <1>3 DEF WrLock
<1>4. ASSUME NEW t \in Thread, InhibitPtc(t) PROVE CancelOff'
  BY <1>4 DEF InhibitPtc
<1>5. ASSUME NEW t \in Thread, NEW lib \in Lib \cup {NoLib}, LoaderOpen(t, lib) PROVE CancelOff'
  BY <1>5 DEF LoaderOpen
<1>6. ASSUME NEW t \in Thread, ReleasePtc(t) PROVE CancelOff'
  BY <1>6 DEF ReleasePtc
<1>7. ASSUME NEW t \in Thread, Unlock(t) PROVE CancelOff'
  BY <1>7 DEF Unlock
<1>8. ASSUME NEW t \in Thread, RunCtors(t) PROVE CancelOff'
  BY <1>8 DEF RunCtors
<1>9. ASSUME NEW t \in Thread, CtorsReturn(t) PROVE CancelOff'
  BY <1>9 DEF CtorsReturn
<1>10. ASSUME NEW t \in Thread, RestoreCancel(t) PROVE CancelOff'
  BY <1>10 DEF RestoreCancel
<1>11. ASSUME NEW t \in Thread, Return(t) PROVE CancelOff'
  <2>1. cancel' = cancel /\ status' = status
    BY <1>11 DEF Return
  <2> SUFFICES ASSUME NEW u \in Thread, NEW step \in {"wrlock", "claim"} \cup Locked,
                      At(u, step)'
               PROVE  cancel'[u] = "disabled"
    BY DEF CancelOff, Uncancelable
  <2>2. CASE u = t
    BY <2>2, <1>11, ReturnsToCaller
  <2>3. CASE u # t
    BY <2>1, <2>3, <1>11, ReturnsToCaller
  <2> QED
    BY <2>2, <2>3
<1>12. ASSUME NEW t \in Thread, CreateCall(t) PROVE CancelOff'
  BY <1>12 DEF CreateCall
<1>13. ASSUME NEW t \in Thread, AcquirePtc(t) PROVE CancelOff'
  BY <1>13 DEF AcquirePtc
<1>14. ASSUME NEW t \in Thread, NEW u \in Thread, Spawn(t, u) PROVE CancelOff'
  BY <1>14 DEF Spawn
<1>15. ASSUME NEW t \in Thread, SpawnFails(t) PROVE CancelOff'
  BY <1>15 DEF SpawnFails
<1>16. ASSUME NEW t \in Thread, NEW state \in CancelState, SetCancelState(t, state) PROVE CancelOff'
  BY <1>16 DEF SetCancelState
<1>17. ASSUME NEW t \in Thread, CancelRequest(t) PROVE CancelOff'
  BY <1>17 DEF CancelRequest
<1>18. ASSUME NEW t \in Thread, ActOnCancel(t) \/ Exit(t) PROVE CancelOff'
  BY <1>18 DEF ActOnCancel, Exit
<1>19. CASE UNCHANGED vars
  BY <1>19 DEF vars
<1> QED
  BY <1>1, <1>2, <1>3, <1>4, <1>5, <1>6, <1>7, <1>8, <1>9, <1>10, <1>11,
     <1>12, <1>13, <1>14, <1>15, <1>16, <1>17, <1>18, <1>19
  DEF Next, Opening, Environment, Over

\* The local cs holds the caller's cancelability state.
LEMMA SavedIsEntryStep == TypeOK /\ StackShape /\ SavedIsEntry /\ [Next]_vars => SavedIsEntry'
<1> SUFFICES ASSUME TypeOK, StackShape, SavedIsEntry, [Next]_vars
             PROVE  SavedIsEntry'
  OBVIOUS
<1> USE ConstantsAssumption
    DEF TypeOK, Status, CancelState, Step, Activation, At, InUserCode, Goto,
        threadVars, lockVars, libVars, StackShape, SavedIsEntry
<1>1. ASSUME NEW t \in Thread, Call(t) PROVE SavedIsEntry'
  BY <1>1 DEF Call
<1>2. ASSUME NEW t \in Thread, DisableCancel(t) PROVE SavedIsEntry'
  BY <1>2 DEF DisableCancel
<1>3. ASSUME NEW t \in Thread, WrLock(t) PROVE SavedIsEntry'
  BY <1>3 DEF WrLock
<1>4. ASSUME NEW t \in Thread, InhibitPtc(t) PROVE SavedIsEntry'
  BY <1>4 DEF InhibitPtc
<1>5. ASSUME NEW t \in Thread, NEW lib \in Lib \cup {NoLib}, LoaderOpen(t, lib) PROVE SavedIsEntry'
  BY <1>5 DEF LoaderOpen
<1>6. ASSUME NEW t \in Thread, ReleasePtc(t) PROVE SavedIsEntry'
  BY <1>6 DEF ReleasePtc
<1>7. ASSUME NEW t \in Thread, Unlock(t) PROVE SavedIsEntry'
  BY <1>7 DEF Unlock
<1>8. ASSUME NEW t \in Thread, RunCtors(t) PROVE SavedIsEntry'
  BY <1>8 DEF RunCtors
<1>9. ASSUME NEW t \in Thread, CtorsReturn(t) PROVE SavedIsEntry'
  BY <1>9 DEF CtorsReturn
<1>10. ASSUME NEW t \in Thread, RestoreCancel(t) PROVE SavedIsEntry'
  <2>0. depth[t] \in Activation /\ pc[t][depth[t]] = "restore"
    BY <1>10 DEF RestoreCancel
  <2>1. depth[t] \in Activation /\ saved[t][depth[t]] = entry[t][depth[t]]
    <3> HIDE DEF At, InUserCode, Goto, Step, Status, CancelState, Activation
    <3> QED
      BY <2>0 DEF Activation
  <2>2. /\ cancel' = [cancel EXCEPT ![t] = entry[t][depth[t]]]
        /\ pc' = [pc EXCEPT ![t][depth[t]] = "return"]
        /\ UNCHANGED <<status, depth, saved, entry>>
    BY <1>10, <2>1 DEF RestoreCancel
  <2> SUFFICES ASSUME NEW u \in Thread
               PROVE  SavedIsEntry!(u)'
    BY DEF SavedIsEntry
  <2>3. CASE u = t
    BY <2>1, <2>2, <2>3
  <2>4. CASE u # t
    BY <2>1, <2>2, <2>4
  <2> QED
    BY <2>3, <2>4
<1>11. ASSUME NEW t \in Thread, Return(t) PROVE SavedIsEntry'
  <2>1. /\ depth[t] \in Activation
        /\ saved' = [saved EXCEPT ![t][depth[t]] = "enabled"]
        /\ entry' = [entry EXCEPT ![t][depth[t]] = "enabled"]
        /\ pc' = [pc EXCEPT ![t][depth[t]] = "none"]
        /\ cancel' = cancel /\ status' = status
    BY <1>11 DEF Return
  <2> SUFFICES ASSUME NEW u \in Thread
               PROVE  SavedIsEntry!(u)'
    BY DEF SavedIsEntry
  <2>2. CASE u = t
    <3>1. ~At(t, "disable")' /\ ~At(t, "return")'
      BY <1>11, ReturnsToCaller
    <3>2. ASSUME NEW d \in Activation, d <= depth'[t]
          PROVE  saved'[t][d] = entry'[t][d]
      <4>1. d < depth[t] /\ pc[t][d] # "disable"
        BY <3>2, <2>1, <1>11, ReturnsToCaller DEF StackShape
      <4>2. saved[t][d] = entry[t][d]
        BY <4>1
      <4> QED
        BY <4>1, <4>2, <2>1
    <3> QED
      BY <2>2, <3>1, <3>2
  <2>3. CASE u # t
    <3>1. depth'[u] = depth[u] /\ pc'[u] = pc[u]
      BY <2>3, <1>11, ReturnsToCaller
    <3>2. /\ saved'[u] = saved[u] /\ entry'[u] = entry[u]
          /\ cancel'[u] = cancel[u] /\ status'[u] = status[u]
      BY <2>1, <2>3
    <3> HIDE DEF TypeOK, StackShape
    <3> QED
      BY <3>1, <3>2
  <2> QED
    BY <2>2, <2>3
<1>12. ASSUME NEW t \in Thread, CreateCall(t) PROVE SavedIsEntry'
  BY <1>12 DEF CreateCall
<1>13. ASSUME NEW t \in Thread, AcquirePtc(t) PROVE SavedIsEntry'
  BY <1>13 DEF AcquirePtc
<1>14. ASSUME NEW t \in Thread, NEW u \in Thread, Spawn(t, u) PROVE SavedIsEntry'
  BY <1>14 DEF Spawn
<1>15. ASSUME NEW t \in Thread, SpawnFails(t) PROVE SavedIsEntry'
  BY <1>15 DEF SpawnFails
<1>16. ASSUME NEW t \in Thread, NEW state \in CancelState, SetCancelState(t, state) PROVE SavedIsEntry'
  BY <1>16 DEF SetCancelState
<1>17. ASSUME NEW t \in Thread, CancelRequest(t) PROVE SavedIsEntry'
  BY <1>17 DEF CancelRequest
<1>18. ASSUME NEW t \in Thread, ActOnCancel(t) \/ Exit(t) PROVE SavedIsEntry'
  BY <1>18 DEF ActOnCancel, Exit
<1>19. CASE UNCHANGED vars
  BY <1>19 DEF vars
<1> QED
  BY <1>1, <1>2, <1>3, <1>4, <1>5, <1>6, <1>7, <1>8, <1>9, <1>10, <1>11,
     <1>12, <1>13, <1>14, <1>15, <1>16, <1>17, <1>18, <1>19
  DEF Next, Opening, Environment, Over

\* A base past do_global_ctors_fn stays clear of outstanding constructors.
LEMMA CtorsTakenUpStep == TypeOK /\ StackShape /\ CtorsTakenUp /\ [Next]_vars => CtorsTakenUp'
<1> SUFFICES ASSUME TypeOK, StackShape, CtorsTakenUp, [Next]_vars
             PROVE  CtorsTakenUp'
  OBVIOUS
<1> USE ConstantsAssumption
    DEF TypeOK, Status, CancelState, Step, Activation, At, InUserCode, Goto,
        threadVars, lockVars, libVars, StackShape, CtorsTakenUp
<1>1. ASSUME NEW t \in Thread, Call(t) PROVE CtorsTakenUp'
  BY <1>1 DEF Call
<1>2. ASSUME NEW t \in Thread, DisableCancel(t) PROVE CtorsTakenUp'
  BY <1>2 DEF DisableCancel
<1>3. ASSUME NEW t \in Thread, WrLock(t) PROVE CtorsTakenUp'
  BY <1>3 DEF WrLock
<1>4. ASSUME NEW t \in Thread, InhibitPtc(t) PROVE CtorsTakenUp'
  BY <1>4 DEF InhibitPtc
<1>5. ASSUME NEW t \in Thread, NEW lib \in Lib \cup {NoLib}, LoaderOpen(t, lib) PROVE CtorsTakenUp'
  BY <1>5 DEF LoaderOpen
<1>6. ASSUME NEW t \in Thread, ReleasePtc(t) PROVE CtorsTakenUp'
  BY <1>6 DEF ReleasePtc
<1>7. ASSUME NEW t \in Thread, Unlock(t) PROVE CtorsTakenUp'
  BY <1>7 DEF Unlock
<1>8. ASSUME NEW t \in Thread, RunCtors(t) PROVE CtorsTakenUp'
  BY <1>8 DEF RunCtors
<1>9. ASSUME NEW t \in Thread, CtorsReturn(t) PROVE CtorsTakenUp'
  BY <1>9 DEF CtorsReturn
<1>10. ASSUME NEW t \in Thread, RestoreCancel(t) PROVE CtorsTakenUp'
  BY <1>10 DEF RestoreCancel
<1>11. ASSUME NEW t \in Thread, Return(t) PROVE CtorsTakenUp'
  BY <1>11 DEF Return
<1>12. ASSUME NEW t \in Thread, CreateCall(t) PROVE CtorsTakenUp'
  BY <1>12 DEF CreateCall
<1>13. ASSUME NEW t \in Thread, AcquirePtc(t) PROVE CtorsTakenUp'
  BY <1>13 DEF AcquirePtc
<1>14. ASSUME NEW t \in Thread, NEW u \in Thread, Spawn(t, u) PROVE CtorsTakenUp'
  BY <1>14 DEF Spawn
<1>15. ASSUME NEW t \in Thread, SpawnFails(t) PROVE CtorsTakenUp'
  BY <1>15 DEF SpawnFails
<1>16. ASSUME NEW t \in Thread, NEW state \in CancelState, SetCancelState(t, state) PROVE CtorsTakenUp'
  BY <1>16 DEF SetCancelState
<1>17. ASSUME NEW t \in Thread, CancelRequest(t) PROVE CtorsTakenUp'
  BY <1>17 DEF CancelRequest
<1>18. ASSUME NEW t \in Thread, ActOnCancel(t) \/ Exit(t) PROVE CtorsTakenUp'
  BY <1>18 DEF ActOnCancel, Exit
<1>19. CASE UNCHANGED vars
  BY <1>19 DEF vars
<1> QED
  BY <1>1, <1>2, <1>3, <1>4, <1>5, <1>6, <1>7, <1>8, <1>9, <1>10, <1>11,
     <1>12, <1>13, <1>14, <1>15, <1>16, <1>17, <1>18, <1>19
  DEF Next, Opening, Environment, Over

-----------------------------------------------------------------------------

LEMMA InvInit == Init => IInv
<1> SUFFICES ASSUME Init PROVE IInv
  OBVIOUS
<1>1. TypeOK
  BY TypeInit
<1>2. StackShape /\ LockOwners /\ PtcExclusion /\ CancelOff
  BY ConstantsAssumption
  DEF Init, StackShape, LockOwners, PtcExclusion, CancelOff, At, Activation
<1>3. SavedIsEntry /\ CtorsTakenUp
  BY ConstantsAssumption DEF Init, SavedIsEntry, CtorsTakenUp, At, Activation
<1> QED
  BY <1>1, <1>2, <1>3 DEF IInv

LEMMA InvStep == IInv /\ [Next]_vars => IInv'
BY TypeStep, StackShapeStep, LockOwnersStep, PtcExclusionStep, CancelOffStep,
   SavedIsEntryStep, CtorsTakenUpStep DEF IInv

\* IInv holds in every reachable state of the loader front end.
THEOREM Invariance == Spec => []IInv
<1> QED
  BY InvInit, InvStep, PTL DEF Spec

\* Every variable keeps its type.
THEOREM TypeCorrect == Spec => []TypeOK
<1>1. IInv => TypeOK
  BY DEF IInv
<1> QED
  BY <1>1, Invariance, PTL

\* One thread at a time is in the loader's open call, with both locks.
THEOREM Exclusion == Spec => []OpenExclusive
<1>1. IInv => OpenExclusive
  <2> SUFFICES ASSUME IInv, NEW t \in Thread, At(t, "open")
               PROVE  /\ ldsoLock = t /\ ptcWriter = t
                      /\ \A u \in Thread \ {t} : ~At(u, "open")
    BY DEF OpenExclusive
  <2>1. \A u \in Thread : At(u, "open") => ldsoLock = u /\ ptcWriter = u
    BY DEF IInv, LockOwners, Locked
  <2> QED
    BY <2>1
<1> QED
  BY <1>1, Invariance, PTL

\* Neither program code, nor pthread_create, nor an exited thread has a lock.
THEOREM NoLockInUserCode == Spec => []UserCodeHoldsNoLock
<1>1. IInv => UserCodeHoldsNoLock
  <2> SUFFICES ASSUME IInv, NEW t \in Thread, t \in {ldsoLock, ptcWriter}
               PROVE  ~InUserCode(t) /\ status[t] = "running"
    BY DEF UserCodeHoldsNoLock
  <2>1. PICK step \in Locked : At(t, step)
    BY DEF IInv, LockOwners, Locked
  <2> QED
    BY <2>1 DEF At, Locked, InUserCode
<1> QED
  BY <1>1, Invariance, PTL

\* Cancelability is restored, whatever constructors and nested calls did.
THEOREM CancelRestoration == Spec => []CancelStateRestored
<1>1. IInv => CancelStateRestored
  BY DEF IInv, SavedIsEntry, CancelStateRestored
<1> QED
  BY <1>1, Invariance, PTL

\* The base a call returns has no outstanding constructors.
THEOREM Initialisation == Spec => []HandleInitialised
<1>1. IInv => HandleInitialised
  <2> SUFFICES ASSUME IInv, NEW t \in Thread, At(t, "return")
               PROVE  base[t][depth[t]] \notin uninit
    BY DEF HandleInitialised
  <2>1. depth[t] \in Activation
    BY ConstantsAssumption DEF IInv, TypeOK, At, Activation
  <2> QED
    BY <2>1 DEF IInv, CtorsTakenUp, At, TypeOK
<1> QED
  BY <1>1, Invariance, PTL

-----------------------------------------------------------------------------
(* The open calls implement LoaderMonitor.                                 *)

Alive == {t \in Thread : status[t] \in {"running", "creating", "spawning"}}
Dead == {t \in Thread : status[t] = "exited"}

\* A step that leaves the sets of live and dead threads and the inhibitor of
\* pthread_create alone is a stuttering step of the monitor.
LEMMA MonitorStutter ==
  ASSUME Alive' = Alive, Dead' = Dead, ptcWriter' = ptcWriter
  PROVE  [Monitor!Next]_(Monitor!vars)
BY DEF Alive, Dead, Monitor!vars

\* Every step of the code is a step of the monitor or a stuttering step.
LEMMA MonitorStep == IInv /\ [Next]_vars => [Monitor!Next]_(Monitor!vars)
<1> SUFFICES ASSUME IInv, [Next]_vars
             PROVE  [Monitor!Next]_(Monitor!vars)
  OBVIOUS
<1> USE DEF threadVars, lockVars, libVars
<1>0. TypeOK
  BY DEF IInv
<1>1. ASSUME NEW t \in Thread, InhibitPtc(t) PROVE Monitor!BeginOpen(t)
  BY <1>1 DEF InhibitPtc, At, Monitor!BeginOpen
<1>2. ASSUME NEW t \in Thread, ReleasePtc(t) PROVE Monitor!EndOpen(t)
  <2>1. ptcWriter = t
    BY <1>2 DEF ReleasePtc, IInv, LockOwners
  <2> QED
    BY <1>2, <2>1 DEF ReleasePtc, At, Monitor!EndOpen
<1>3. ASSUME NEW t \in Thread, NEW u \in Thread, Spawn(t, u)
      PROVE  Monitor!Birth(u)
  <2>1. ptcWriter = NoThread
    BY <1>3 DEF Spawn, IInv, PtcExclusion, NoPtcReader
  <2>2. status' = [status EXCEPT ![t] = "running", ![u] = "running"]
    BY <1>3 DEF Spawn
  <2>3. Alive' = Alive \cup {u} /\ Dead' = Dead
    BY <1>0, <1>3, <2>2 DEF Spawn, Alive, Dead, TypeOK
  <2>4. u \notin Alive \cup Dead
    BY <1>3 DEF Spawn, Alive, Dead
  <2> QED
    BY <1>3, <2>1, <2>3, <2>4 DEF Spawn, Alive, Dead, Monitor!Birth
<1>4. ASSUME NEW t \in Thread, ActOnCancel(t) \/ Exit(t) PROVE Monitor!Death(t)
  <2>1. status[t] = "running" /\ status' = [status EXCEPT ![t] = "exited"]
    BY <1>4 DEF ActOnCancel, Exit, InUserCode
  <2>2. ptcWriter' = ptcWriter
    BY <1>4 DEF ActOnCancel, Exit
  <2>3. ptcWriter # t
    <3>1. CASE ActOnCancel(t)
      BY <3>1 DEF ActOnCancel, IInv, LockOwners, CancelOff, Uncancelable, Locked
    <3>2. CASE Exit(t)
      BY <3>2 DEF Exit, InUserCode, At, IInv, LockOwners
    <3> QED
      BY <1>4, <3>1, <3>2
  <2>4. Alive' = Alive \ {t} /\ Dead' = Dead \cup {t} /\ t \in Alive
    BY <1>0, <2>1 DEF Alive, Dead, TypeOK
  <2> QED
    BY <2>2, <2>3, <2>4 DEF Alive, Dead, Monitor!Death
<1>5. ASSUME NEW t \in Thread,
             CreateCall(t) \/ AcquirePtc(t) \/ SpawnFails(t)
      PROVE  [Monitor!Next]_(Monitor!vars)
  <2>1. ptcWriter' = ptcWriter
    BY <1>5 DEF CreateCall, AcquirePtc, SpawnFails
  <2>2. \A u \in Thread : \/ status'[u] = status[u]
                          \/ /\ status[u] \in {"running", "creating", "spawning"}
                             /\ status'[u] \in {"running", "creating", "spawning"}
    BY <1>0, <1>5 DEF CreateCall, AcquirePtc, SpawnFails, InUserCode, TypeOK
  <2>3. Alive' = Alive /\ Dead' = Dead
    BY <2>2 DEF Alive, Dead
  <2> QED
    BY <2>1, <2>3, MonitorStutter
<1>6. ASSUME UNCHANGED <<status, ptcWriter>>
      PROVE  [Monitor!Next]_(Monitor!vars)
  BY <1>6, MonitorStutter DEF Alive, Dead
<1>7. CASE UNCHANGED vars
  BY <1>6, <1>7 DEF vars
<1>8. ASSUME NEW t \in Thread, Opening(t), ~InhibitPtc(t), ~ReleasePtc(t)
      PROVE  UNCHANGED <<status, ptcWriter>>
  BY <1>8 DEF Opening, Call, DisableCancel, WrLock, LoaderOpen, Unlock, RunCtors,
              CtorsReturn, RestoreCancel, Return
<1>9. ASSUME NEW t \in Thread,
             CancelRequest(t) \/ \E state \in CancelState : SetCancelState(t, state)
      PROVE  UNCHANGED <<status, ptcWriter>>
  BY <1>9 DEF CancelRequest, SetCancelState
<1> QED
  BY <1>1, <1>2, <1>3, <1>4, <1>5, <1>6, <1>7, <1>8, <1>9
  DEF Next, Environment, Over, Monitor!Next

\* The front end implements the monitor: exclusive opens, no births meanwhile,
\* and an opener that survives its open.
THEOREM ImplementsMonitor == Spec => MonitorSpec
<1>1. Init => Monitor!Init
  <2> SUFFICES ASSUME Init PROVE Monitor!Init
    OBVIOUS
  <2>1. PICK main \in Thread :
          status = [t \in Thread |-> IF t = main THEN "running" ELSE "unborn"]
    BY DEF Init
  <2>2. Alive = {main} /\ Dead = {}
    BY <2>1 DEF Alive, Dead
  <2> QED
    BY <2>2 DEF Alive, Dead, Init, Monitor!Init
<1> QED
  BY <1>1, Invariance, MonitorStep, PTL DEF Spec, MonitorSpec, Monitor!Spec

\* No thread is created while the loader runs an open call.
THEOREM NoBirth == Spec => NoBirthDuringOpen
<1>1. IInv /\ [Next]_vars =>
        [\A u \in Thread : status[u] = "unborn" /\ status'[u] # "unborn" =>
           \A t \in Thread : ~At(t, "open")]_vars
  <2> SUFFICES ASSUME IInv, [Next]_vars, NEW u \in Thread, NEW t \in Thread,
                      status[u] = "unborn", status'[u] # "unborn", At(t, "open")
               PROVE  FALSE
    OBVIOUS
  <2>1. ptcWriter = t /\ NoPtcReader
    BY ConstantsAssumption DEF IInv, LockOwners, PtcExclusion
  <2>2. \A s \in Thread : status[s] # "spawning"
    BY <2>1 DEF NoPtcReader
  <2>3. status'[u] = "unborn"
    BY <2>2, ConstantsAssumption
    DEF IInv, TypeOK, Next, Opening, Environment, Over, vars, threadVars, Call,
        DisableCancel, WrLock, InhibitPtc, LoaderOpen, ReleasePtc, Unlock, RunCtors,
        CtorsReturn, RestoreCancel, Return, CreateCall, AcquirePtc, Spawn,
        SpawnFails, SetCancelState, CancelRequest, ActOnCancel, Exit, InUserCode
  <2> QED
    BY <2>3
<1> QED
  BY <1>1, Invariance, PTL DEF Spec, NoBirthDuringOpen

=============================================================================
