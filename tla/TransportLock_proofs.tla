------------------------ MODULE TransportLock_proofs ------------------------
(***************************************************************************)
(* What TransportLock guarantees for every set of runtimes and any number   *)
(* of faults.  The inductive invariant is the conjunction of what the model *)
(* checker checks: the lock file that is linked is the one its owner made,  *)
(* until some process unlinks a lock that is in use.                        *)
(***************************************************************************)
EXTENDS TransportLock, TLAPS

USE LockConstants DEF Claiming, Serving, PCs

IInv == TypeOK /\ LockNamesOwner /\ OwnerReachableUnlessEvicted

\* Every action of a runtime leaves the variables in their types.
LEMMA TypeStep == TypeOK /\ [Next]_vars => TypeOK'
<1> SUFFICES ASSUME TypeOK, [Next]_vars PROVE TypeOK'
  OBVIOUS
<1> USE DEF TypeOK, Goto, Fault, RemoveLock, RemoveSocket, NoLock
<1>1. CASE UNCHANGED vars
  BY <1>1 DEF vars
<1>2. ASSUME NEW r \in Runtimes, Step(r) PROVE TypeOK'
  <2>1. CASE Attempt(r)        BY <2>1 DEF Attempt
  <2>2. CASE Create(r)         BY <2>2 DEF Create, OpenExclusive
  <2>3. CASE Recreate(r)       BY <2>3 DEF Recreate, OpenExclusive
  <2>4. CASE Fill(r)           BY <2>4 DEF Fill, WritePayload
  <2>5. CASE Inspect(r)        BY <2>5 DEF Inspect
  <2>6. CASE IsLockStale(r)    BY <2>6 DEF IsLockStale
  <2>7. CASE StatLock(r)       BY <2>7 DEF StatLock
  <2>8. CASE Unlink(r)
    <3>1. CASE RemoveLock(r)       BY <2>8, <3>1 DEF Unlink
    <3>2. CASE UNCHANGED <<lock, fdLive, evicted>>
      BY <2>8, <3>2 DEF Unlink
    <3>3. QED
      BY <2>8, <3>1, <3>2 DEF Unlink
  <2>9. CASE BindClear(r)      BY <2>9 DEF BindClear
  <2>10. CASE Listen(r)        BY <2>10 DEF Listen
  <2>11. CASE BeatWrite(r)     BY <2>11 DEF BeatWrite, WritePayload
  <2>12. CASE Demote(r)        BY <2>12 DEF Demote
  <2>13. CASE DemoteUnlink(r)  BY <2>13 DEF DemoteUnlink
  <2>14. CASE StopClosed(r)    BY <2>14 DEF StopClosed
  <2>15. CASE StopUnlink(r)    BY <2>15 DEF StopUnlink
  <2>16. CASE StopClean(r)     BY <2>16 DEF StopClean
  <2>17. QED
    BY <1>2, <2>1, <2>2, <2>3, <2>4, <2>5, <2>6, <2>7, <2>8, <2>9, <2>10, <2>11,
       <2>12, <2>13, <2>14, <2>15, <2>16 DEF Step
<1>3. ASSUME NEW r \in Runtimes, Activate(r) PROVE TypeOK'
  BY <1>3 DEF Activate
<1>4. ASSUME NEW r \in Runtimes, BeatOpen(r) PROVE TypeOK'
  BY <1>4 DEF BeatOpen
<1>5. ASSUME NEW r \in Runtimes, BeatFails(r) PROVE TypeOK'
  BY <1>5 DEF BeatFails
<1>6. ASSUME NEW r \in Runtimes, OwnerFails(r) PROVE TypeOK'
  BY <1>6 DEF OwnerFails
<1>7. ASSUME NEW r \in Runtimes, Stop(r) PROVE TypeOK'
  BY <1>7, ZenonT(30) DEF Stop
<1>8. ASSUME NEW r \in Runtimes, Crash(r) \/ Exit(r) PROVE TypeOK'
  <2>1. Die(r) /\ (faults' = faults \/ (faults < MaxFaults /\ faults' = faults + 1))
    BY <1>8 DEF Crash, Exit
  <2>2. QED
    BY <2>1 DEF Die
<1>9. ASSUME Age \/ ReusePid PROVE TypeOK'
  BY <1>9 DEF Age, ReusePid
<1>10. QED
  BY <1>1, <1>2, <1>3, <1>4, <1>5, <1>6, <1>7, <1>8, <1>9 DEF Next

\* Type correctness of the ownership protocol, for any number of runtimes.
THEOREM TypeCorrect == Spec => []TypeOK
<1>1. Init => TypeOK
  BY DEF Init, TypeOK, NoLock
<1>2. QED
  BY <1>1, TypeStep, PTL DEF Spec

-----------------------------------------------------------------------------

\* A runtime that does not claim can unlink a lock in use only by evicting it,
\* and a runtime that does claim unlinks its own.
LEMMA RemoveLockClears ==
  ASSUME TypeOK, LockNamesOwner, NEW r \in Runtimes, RemoveLock(r), pc' \in [Runtimes -> PCs],
         \A s \in Runtimes \ {r} : pc'[s] = pc[s],
         pc'[r] \notin Claiming
  PROVE  LockNamesOwner'
<1>1. SUFFICES ASSUME "lock" \notin evicted', NEW s \in Runtimes, pc'[s] \in Claiming
               PROVE  FALSE
  BY DEF LockNamesOwner
<1>2. s # r /\ pc[s] \in Claiming /\ "lock" \notin evicted
  BY <1>1 DEF RemoveLock
<1>3. lock.by = s
  BY <1>2 DEF LockNamesOwner
<1>4. "lock" \in evicted'
  BY <1>2, <1>3 DEF RemoveLock
<1>5. QED
  BY <1>1, <1>4

\* The lock file stays the one its owner made: every action of every runtime.
LEMMA LockStep == TypeOK /\ LockNamesOwner /\ [Next]_vars => LockNamesOwner'
<1> SUFFICES ASSUME TypeOK, LockNamesOwner, [Next]_vars PROVE LockNamesOwner'
  OBVIOUS
<1>0. TypeOK'
  BY TypeStep
<1> USE DEF TypeOK, LockNamesOwner, Goto, Fault
<1>1. CASE UNCHANGED vars
  BY <1>1 DEF vars
<1>2. ASSUME NEW r \in Runtimes, Step(r) PROVE LockNamesOwner'
  <2>1. CASE Attempt(r)        BY <2>1 DEF Attempt
  <2>2. CASE Create(r)         BY <2>2 DEF Create, OpenExclusive
  <2>3. CASE Recreate(r)       BY <2>3 DEF Recreate, OpenExclusive
  <2>4. CASE Fill(r)           BY <2>4 DEF Fill, WritePayload
  <2>5. CASE Inspect(r)        BY <2>5 DEF Inspect
  <2>6. CASE IsLockStale(r)    BY <2>6 DEF IsLockStale
  <2>7. CASE StatLock(r)       BY <2>7 DEF StatLock
  <2>8. CASE Unlink(r)
    <3>1. CASE RemoveLock(r) /\ Goto(r, "recreate")
      BY <3>1, <1>0, RemoveLockClears
    <3>2. CASE Goto(r, "follower") /\ UNCHANGED <<lock, fdLive, evicted>>
      BY <3>2
    <3>3. QED
      BY <2>8, <3>1, <3>2 DEF Unlink
  <2>9. CASE BindClear(r)      BY <2>9 DEF BindClear, RemoveSocket
  <2>10. CASE Listen(r)        BY <2>10 DEF Listen
  <2>11. CASE BeatWrite(r)     BY <2>11 DEF BeatWrite, WritePayload
  <2>12. CASE Demote(r)        BY <2>12 DEF Demote, RemoveSocket
  <2>13. CASE DemoteUnlink(r)
    BY <2>13, <1>0, RemoveLockClears DEF DemoteUnlink
  <2>14. CASE StopClosed(r)    BY <2>14 DEF StopClosed
  <2>15. CASE StopUnlink(r)
    BY <2>15, <1>0, RemoveLockClears DEF StopUnlink
  <2>16. CASE StopClean(r)     BY <2>16 DEF StopClean, RemoveSocket
  <2>17. QED
    BY <1>2, <2>1, <2>2, <2>3, <2>4, <2>5, <2>6, <2>7, <2>8, <2>9, <2>10, <2>11,
       <2>12, <2>13, <2>14, <2>15, <2>16 DEF Step
<1>3. ASSUME NEW r \in Runtimes, Activate(r) PROVE LockNamesOwner'
  BY <1>3 DEF Activate
<1>4. ASSUME NEW r \in Runtimes, BeatOpen(r) PROVE LockNamesOwner'
  BY <1>4 DEF BeatOpen
<1>5. ASSUME NEW r \in Runtimes, BeatFails(r) PROVE LockNamesOwner'
  BY <1>5 DEF BeatFails
<1>6. ASSUME NEW r \in Runtimes, OwnerFails(r) PROVE LockNamesOwner'
  BY <1>6 DEF OwnerFails
<1>7. ASSUME NEW r \in Runtimes, Stop(r) PROVE LockNamesOwner'
  BY <1>7 DEF Stop, RemoveSocket
<1>8. ASSUME NEW r \in Runtimes, Crash(r) \/ Exit(r) PROVE LockNamesOwner'
  <2>1. Die(r) /\ (faults' = faults \/ (faults < MaxFaults /\ faults' = faults + 1))
    BY <1>8 DEF Crash, Exit
  <2>2. QED
    BY <2>1 DEF Die
<1>9. ASSUME Age \/ ReusePid PROVE LockNamesOwner'
  BY <1>9 DEF Age, ReusePid
<1>10. QED
  BY <1>1, <1>2, <1>3, <1>4, <1>5, <1>6, <1>7, <1>8, <1>9 DEF Next

-----------------------------------------------------------------------------

\* Two runtimes that both claim would both have made the linked lock file.
LEMMA ClaimIsExclusive ==
  ASSUME LockNamesOwner, "lock" \notin evicted,
         NEW r \in Runtimes, NEW s \in Runtimes, pc[r] \in Claiming, pc[s] \in Claiming
  PROVE  r = s
<1>1. lock.by = r /\ lock.by = s
  BY DEF LockNamesOwner
<1>2. QED
  BY <1>1

\* Whoever empties the socket path spares a runtime that serves it, or evicts it.
LEMMA RemoveSocketClears ==
  ASSUME TypeOK, OwnerReachableUnlessEvicted, "lock" \notin evicted',
         NEW r \in Runtimes, RemoveSocket(r), \A s \in Runtimes \ {r} : pc'[s] = pc[s],
         pc'[r] \notin Serving
  PROVE  OwnerReachableUnlessEvicted'
<1>1. SUFFICES ASSUME "sock" \notin evicted', NEW s \in Runtimes, pc'[s] \in Serving
               PROVE  FALSE
  BY DEF OwnerReachableUnlessEvicted, OwnerReachable
<1>2. s # r /\ pc[s] \in Serving
  BY <1>1
<1>3. "sock" \notin evicted /\ "lock" \notin evicted
  BY <1>1 DEF RemoveSocket
<1>4. sock = s
  BY <1>2, <1>3 DEF OwnerReachableUnlessEvicted, OwnerReachable
<1>5. "sock" \in evicted'
  BY <1>2, <1>4 DEF RemoveSocket
<1>6. QED
  BY <1>1, <1>5

\* The socket path keeps leading to the serving owner in every step.
LEMMA SocketStep == IInv /\ [Next]_vars => OwnerReachableUnlessEvicted'
<1> SUFFICES ASSUME IInv, [Next]_vars, "lock" \notin evicted'
             PROVE  OwnerReachableUnlessEvicted'
  BY DEF OwnerReachableUnlessEvicted, OwnerReachable
<1>0. TypeOK /\ LockNamesOwner /\ OwnerReachableUnlessEvicted /\ TypeOK' /\ LockNamesOwner'
  BY TypeStep, LockStep DEF IInv
<1> USE DEF TypeOK, Goto, Fault
<1>1. CASE UNCHANGED vars
  BY <1>0, <1>1 DEF vars, OwnerReachableUnlessEvicted, OwnerReachable
<1>2. ASSUME NEW r \in Runtimes, sock' = sock, evicted \subseteq evicted',
             \A s \in Runtimes \ {r} : pc'[s] = pc[s],
             pc'[r] \in Serving => pc[r] \in Serving
      PROVE  OwnerReachableUnlessEvicted'
  BY <1>0, <1>2 DEF OwnerReachableUnlessEvicted, OwnerReachable
<1>3. ASSUME NEW r \in Runtimes, Step(r) PROVE OwnerReachableUnlessEvicted'
  <2>1. CASE Attempt(r)        BY <2>1, <1>0, <1>2 DEF Attempt
  <2>2. CASE Create(r)         BY <2>2, <1>0, <1>2 DEF Create
  <2>3. CASE Recreate(r)       BY <2>3, <1>0, <1>2 DEF Recreate
  <2>4. CASE Fill(r)           BY <2>4, <1>0, <1>2 DEF Fill
  <2>5. CASE Inspect(r)        BY <2>5, <1>0, <1>2 DEF Inspect
  <2>6. CASE IsLockStale(r)    BY <2>6, <1>0, <1>2 DEF IsLockStale
  <2>7. CASE StatLock(r)       BY <2>7, <1>0, <1>2 DEF StatLock
  <2>8. CASE Unlink(r)         BY <2>8, <1>0, <1>2 DEF Unlink, RemoveLock
  <2>9. CASE BindClear(r)
    BY <2>9, <1>0, RemoveSocketClears DEF BindClear
  <2>10. CASE Listen(r)
    <3>1. CASE sock' = r /\ Goto(r, "firstBeat")
      <4>1. \A s \in Runtimes : pc'[s] \in Serving => s = r
        <5>1. pc'[r] \in Claiming
          BY <1>0, <3>1
        <5>2. QED
          BY <1>0, <5>1 DEF LockNamesOwner
      <4>2. QED
        BY <3>1, <4>1 DEF OwnerReachableUnlessEvicted, OwnerReachable
    <3>2. CASE Goto(r, "demote") /\ UNCHANGED sock
      BY <2>10, <3>2, <1>0, <1>2 DEF Listen
    <3>3. QED
      BY <2>10, <3>1, <3>2 DEF Listen
  <2>11. CASE BeatWrite(r)     BY <2>11, <1>0, <1>2 DEF BeatWrite
  <2>12. CASE Demote(r)
    BY <2>12, <1>0, RemoveSocketClears DEF Demote
  <2>13. CASE DemoteUnlink(r)  BY <2>13, <1>0, <1>2 DEF DemoteUnlink, RemoveLock
  <2>14. CASE StopClosed(r)    BY <2>14, <1>0, <1>2 DEF StopClosed
  <2>15. CASE StopUnlink(r)    BY <2>15, <1>0, <1>2 DEF StopUnlink, RemoveLock
  <2>16. CASE StopClean(r)
    BY <2>16, <1>0, RemoveSocketClears DEF StopClean
  <2>17. QED
    BY <1>3, <2>1, <2>2, <2>3, <2>4, <2>5, <2>6, <2>7, <2>8, <2>9, <2>10, <2>11,
       <2>12, <2>13, <2>14, <2>15, <2>16 DEF Step
<1>4. ASSUME NEW r \in Runtimes, Activate(r) PROVE OwnerReachableUnlessEvicted'
  BY <1>4, <1>0, <1>2 DEF Activate
<1>5. ASSUME NEW r \in Runtimes, BeatOpen(r) PROVE OwnerReachableUnlessEvicted'
  BY <1>5, <1>0, <1>2 DEF BeatOpen
<1>6. ASSUME NEW r \in Runtimes, BeatFails(r) PROVE OwnerReachableUnlessEvicted'
  BY <1>6, <1>0, <1>2 DEF BeatFails
<1>7. ASSUME NEW r \in Runtimes, OwnerFails(r) PROVE OwnerReachableUnlessEvicted'
  BY <1>7, <1>0, <1>2 DEF OwnerFails
<1>8. ASSUME NEW r \in Runtimes, Stop(r) PROVE OwnerReachableUnlessEvicted'
  <2>1. CASE RemoveSocket(r) /\ Goto(r, "stopClose")
    BY <2>1, <1>0, RemoveSocketClears
  <2>2. CASE Goto(r, "stopped") /\ UNCHANGED <<sock, evicted>>
    BY <2>2, <1>0, <1>2
  <2>3. QED
    BY <1>8, <2>1, <2>2 DEF Stop
<1>9. ASSUME NEW r \in Runtimes, Crash(r) \/ Exit(r) PROVE OwnerReachableUnlessEvicted'
  BY <1>9, <1>0 DEF Crash, Exit, Die, OwnerReachableUnlessEvicted, OwnerReachable
<1>10. ASSUME Age \/ ReusePid PROVE OwnerReachableUnlessEvicted'
  BY <1>10, <1>0 DEF Age, ReusePid, OwnerReachableUnlessEvicted, OwnerReachable
<1>11. QED
  BY <1>1, <1>3, <1>4, <1>5, <1>6, <1>7, <1>8, <1>9, <1>10 DEF Next

\* The inductive invariant holds of every behavior.
THEOREM Invariance == Spec => []IInv
<1>1. Init => IInv
  BY DEF Init, IInv, TypeOK, NoLock, LockNamesOwner, OwnerReachableUnlessEvicted, OwnerReachable
<1>2. IInv /\ [Next]_vars => IInv'
  BY TypeStep, LockStep, SocketStep DEF IInv
<1>3. QED
  BY <1>1, <1>2, PTL DEF Spec

\* One owner per host for any number of runtimes, crashes, failed writes and
\* interleavings, as long as no process unlinked a lock that was in use.
THEOREM SingleOwner == Spec => []OneOwnerUnlessEvicted
<1>1. IInv => OneOwnerUnlessEvicted
  BY ClaimIsExclusive DEF IInv, OneOwnerUnlessEvicted, OneOwner, Owns
<1>2. QED
  BY <1>1, Invariance, PTL

\* The lock file names its live owner or is being written by it.
THEOREM LockIsTruthful == Spec => []LockNamesOwner
<1>1. IInv => LockNamesOwner
  BY DEF IInv
<1>2. QED
  BY <1>1, Invariance, PTL

\* The relay socket of the serving owner stays at socketPath, unless its lock
\* or its path was taken from under it.
THEOREM SocketIsReachable == Spec => []OwnerReachableUnlessEvicted
<1>1. IInv => OwnerReachableUnlessEvicted
  BY DEF IInv
<1>2. QED
  BY <1>1, Invariance, PTL
=============================================================================
