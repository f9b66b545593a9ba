---------------------------- MODULE GCSyncProofs ----------------------------
(***************************************************************************)
(* Proofs about GCSync for any finite set of threads, any number of        *)
(* writers, any pipe capacity and either size of Command: the inductive    *)
(* invariant, the exclusion it gives, the exactness of the counters, and   *)
(* the implementation of StopTheWorld.                                     *)
(***************************************************************************)
EXTENDS GCSync, FiniteSetTheorems, TLAPS

-----------------------------------------------------------------------------
(* The counters are cardinalities, so first the sets they count.           *)

LEMMA CountedFinite ==
  /\ IsFiniteSet(Counted)
  /\ Cardinality(Counted) \in Nat
BY FS_Subset, FS_CardinalityType, ThreadAssumption DEF Counted

\* A thread that starts to count adds one to the threads counted.
LEMMA CountedEnters ==
  ASSUME NEW t \in Threads, t \notin Counted, Counted' = Counted \cup {t}
  PROVE  Cardinality(Counted)' = Cardinality(Counted) + 1
BY FS_AddElement, CountedFinite

\* A thread that stops counting takes one away, and there was one to take.
LEMMA CountedLeaves ==
  ASSUME NEW t \in Threads, t \in Counted, Counted' = Counted \ {t}
  PROVE  /\ Cardinality(Counted)' = Cardinality(Counted) - 1
         /\ Cardinality(Counted) > 0
<1>1. Cardinality(Counted)' = Cardinality(Counted) - 1
  BY FS_RemoveElement, CountedFinite
<1>2. Cardinality(Counted) # 0
  BY FS_EmptySet, CountedFinite
<1>3. QED
  BY <1>1, <1>2, CountedFinite

\* The threads the writer has seen park are among the threads counted.
LEMMA SeenParked ==
  /\ IsFiniteSet(Parked \ faults)
  /\ Cardinality(Parked \ faults) \in Nat
  /\ Cardinality(Parked \ faults) <= Cardinality(Counted)
  /\ Cardinality(Parked \ faults) = Cardinality(Counted) => Parked \ faults = Counted
<1>1. Parked \ faults \in SUBSET Counted
  BY DEF Parked, Counted, Guarded
<1>2. QED
  BY <1>1, CountedFinite, FS_Subset, FS_CardinalityType, Zenon

-----------------------------------------------------------------------------
(* How each action changes the set of counted threads.                     *)

LEMMA CountedStep ==
  ASSUME TypeOK, NEW t \in Threads, Reader(t) \/ Writer(t)
  PROVE  \/ /\ Counted' = Counted \cup {t} /\ t \notin Counted
            /\ live_threads' = live_threads + 1 /\ cmds' = cmds
         \/ /\ Counted' = Counted \ {t} /\ t \in Counted
            /\ \/ live_threads' = live_threads - 1 /\ cmds' = cmds
               \/ live_threads' = live_threads /\ cmds' = Write
         \/ /\ Counted' = Counted
            /\ \/ UNCHANGED <<live_threads, cmds>>
               \/ cmds > 0 /\ cmds' = cmds - 1 /\ live_threads' = live_threads - 1
<1> USE DEF TypeOK, Counted, Guarded, Goto, PCs, Locked, Waiting
<1>1. CASE CountShared(t)
  BY <1>1 DEF CountShared
<1>2. CASE UncountShared(t)
  BY <1>2 DEF UncountShared
<1>3. CASE NotifyUnregister(t)
  BY <1>3 DEF NotifyUnregister
<1>4. CASE ReadCommand(t)
  BY <1>4 DEF ReadCommand
<1>5. CASE LockForShared(t)
  BY <1>5 DEF LockForShared
<1>6. CASE Safepoint(t)
  BY <1>6 DEF Safepoint
<1>7. CASE TouchLockPage(t)
  BY <1>7 DEF TouchLockPage
<1>8. CASE DisableGuard(t)
  BY <1>8 DEF DisableGuard
<1>9. CASE LockForExclusive(t) \/ RemoveLockPage(t) \/ CheckBlocked(t) \/ Poll(t)
  BY <1>9 DEF LockForExclusive, RemoveLockPage, CheckBlocked, Poll
<1>10. CASE CommandsDrained(t) \/ ReadFault(t) \/ FaultsDrained(t) \/ Unlock(t)
  BY <1>10 DEF CommandsDrained, ReadFault, FaultsDrained, Unlock
<1>11. CASE DropExclusive(t)
  BY <1>11 DEF DropExclusive
<1>12. QED
  BY <1>1, <1>2, <1>3, <1>4, <1>5, <1>6, <1>7, <1>8, <1>9, <1>10, <1>11
     DEF Reader, Writer

\* live_threads covers what it counts after every step; neither decrement can
\* take it below zero.
LEMMA CountStep ==
  ASSUME TypeOK, CountCovers, CountExact, [Next]_vars
  PROVE  live_threads' \in Nat /\ CountCovers' /\ CountExact'
<1>1. CASE UNCHANGED vars
  BY <1>1, CountedFinite DEF vars, CountCovers, CountExact, Counted, TypeOK
<1>2. ASSUME NEW t \in Threads, Reader(t) \/ Writer(t)
      PROVE  live_threads' \in Nat /\ CountCovers' /\ CountExact'
  <2> USE CountedFinite, SizeAssumption DEF TypeOK, CountCovers, CountExact
  <2>1. CASE /\ Counted' = Counted \cup {t} /\ t \notin Counted
             /\ live_threads' = live_threads + 1 /\ cmds' = cmds
    <3>1. Cardinality(Counted)' = Cardinality(Counted) + 1
      BY <2>1, CountedEnters
    <3>2. QED
      BY <2>1, <3>1
  <2>2. CASE /\ Counted' = Counted \ {t} /\ t \in Counted
             /\ \/ live_threads' = live_threads - 1 /\ cmds' = cmds
                \/ live_threads' = live_threads /\ cmds' = Write
    BY <2>2, CountedLeaves DEF Write
  <2>3. CASE /\ Counted' = Counted
             /\ \/ UNCHANGED <<live_threads, cmds>>
                \/ cmds > 0 /\ cmds' = cmds - 1 /\ live_threads' = live_threads - 1
    BY <2>3
  <2>4. QED
    BY <1>2, <2>1, <2>2, <2>3, CountedStep
<1>3. QED
  BY <1>1, <1>2 DEF Next

-----------------------------------------------------------------------------
(* Types, the mutex, the page and the fault queue.                         *)

LEMMA ControlStep ==
  ASSUME IInv, [Next]_vars
  PROVE  (TypeOK /\ LockOwner /\ PageAbsent /\ FaultsParked)'
<1>0. live_threads' \in Nat
  BY CountStep DEF IInv
<1> USE ThreadAssumption, SizeAssumption
    DEF IInv, TypeOK, LockOwner, PageAbsent, FaultsParked, Parked,
        PCs, Locked, Waiting, Goto
<1>1. CASE UNCHANGED vars
  BY <1>1 DEF vars
<1>2. ASSUME NEW t \in Threads, Reader(t) \/ Writer(t)
      PROVE  (TypeOK /\ LockOwner /\ PageAbsent /\ FaultsParked)'
  <2>1. CASE LockForShared(t)
    BY <1>0, <2>1 DEF LockForShared
  <2>2. CASE CountShared(t)
    BY <1>0, <2>2 DEF CountShared
  <2>3. CASE Safepoint(t)
    BY <1>0, <2>3 DEF Safepoint
  <2>4. CASE TouchLockPage(t)
    BY <1>0, <2>4 DEF TouchLockPage
  <2>5. CASE DisableGuard(t)
    BY <1>0, <2>5 DEF DisableGuard
  <2>6. CASE UncountShared(t)
    BY <1>0, <2>6 DEF UncountShared
  <2>7. CASE NotifyUnregister(t)
    BY <1>0, <2>7 DEF NotifyUnregister, Write
  <2>8. CASE LockForExclusive(t)
    BY <1>0, <2>8 DEF LockForExclusive
  <2>9. CASE RemoveLockPage(t)
    BY <1>0, <2>9 DEF RemoveLockPage
  <2>10. CASE CheckBlocked(t)
    BY <1>0, <2>10 DEF CheckBlocked
  <2>11. CASE Poll(t)
    BY <1>0, <2>11 DEF Poll
  <2>12. CASE ReadCommand(t)
    BY <1>0, <2>12 DEF ReadCommand
  <2>13. CASE CommandsDrained(t)
    BY <1>0, <2>13 DEF CommandsDrained
  <2>14. CASE ReadFault(t)
    BY <1>0, <2>14 DEF ReadFault
  <2>15. CASE FaultsDrained(t)
    BY <1>0, <2>15 DEF FaultsDrained
  <2>16. CASE DropExclusive(t)
    BY <1>0, <2>16 DEF DropExclusive
  <2>17. CASE Unlock(t)
    BY <1>0, <2>17 DEF Unlock
  <2>18. QED
    BY <1>2, <2>1, <2>2, <2>3, <2>4, <2>5, <2>6, <2>7, <2>8, <2>9, <2>10,
       <2>11, <2>12, <2>13, <2>14, <2>15, <2>16, <2>17 DEF Reader, Writer
<1>3. QED
  BY <1>1, <1>2 DEF Next

-----------------------------------------------------------------------------
(* The writer's count of parked threads.                                   *)

\* blocked_count stays the number of parked threads whose event was read:
\* no other step than the writer's own changes that set while it waits.
LEMMA BlockedStep ==
  ASSUME IInv, [Next]_vars
  PROVE  BlockedIsParked'
<1> DEFINE Seen == Parked \ faults
<1>1. CASE UNCHANGED vars
  BY <1>1 DEF vars, IInv, BlockedIsParked, Parked
<1>2. ASSUME NEW t \in Threads, Reader(t) \/ Writer(t)
      PROVE  BlockedIsParked'
  <2>1. CASE RemoveLockPage(t)
    <3>1. Seen' = {}
      BY <2>1 DEF RemoveLockPage, IInv, TypeOK, LockOwner, PageAbsent, FaultsParked,
                  Parked, Locked, Waiting, Goto, PCs
    <3>2. blocked_count' = Cardinality(Seen)'
      BY <2>1, <3>1, FS_EmptySet DEF RemoveLockPage
    <3>3. QED
      BY <3>2 DEF BlockedIsParked
  <2>2. CASE ReadFault(t)
    <3>1. PICK u \in faults : faults' = faults \ {u}
      BY <2>2 DEF ReadFault
    <3>2. Seen' = Seen \cup {u} /\ u \notin Seen
      BY <2>2, <3>1 DEF ReadFault, IInv, FaultsParked, Parked
    <3>3. Cardinality(Seen)' = Cardinality(Seen) + 1
      <4>1. IsFiniteSet(Seen) /\ Cardinality(Seen) \in Nat
        BY SeenParked
      <4> HIDE DEF Seen
      <4>2. QED
        BY <3>2, <4>1, FS_AddElement
    <3>4. blocked_count = Cardinality(Seen)
      BY <2>2 DEF ReadFault, IInv, BlockedIsParked, Waiting
    <3>5. QED
      BY <2>2, <3>3, <3>4 DEF ReadFault, BlockedIsParked
  <2>3. CASE DropExclusive(t)
    BY <2>3 DEF DropExclusive, IInv, TypeOK, LockOwner, BlockedIsParked,
                Locked, Waiting, PCs
  <2>4. CASE ~RemoveLockPage(t) /\ ~ReadFault(t) /\ ~DropExclusive(t)
    <3> USE DEF IInv, TypeOK, Parked, FaultsParked, Goto, PCs, Locked, Waiting
    <3>1. /\ Seen' = Seen
          /\ blocked_count' = blocked_count
          /\ \A w \in Threads : pc'[w] \in Waiting => pc[w] \in Waiting
      <4>1. CASE LockForShared(t) \/ CountShared(t) \/ Safepoint(t)
        BY <4>1 DEF LockForShared, CountShared, Safepoint
      <4>2. CASE TouchLockPage(t)
        BY <4>2 DEF TouchLockPage
      <4>3. CASE DisableGuard(t) \/ UncountShared(t) \/ NotifyUnregister(t)
        BY <4>3 DEF DisableGuard, UncountShared, NotifyUnregister
      <4>4. CASE LockForExclusive(t) \/ CheckBlocked(t) \/ Poll(t) \/ ReadCommand(t)
        BY <4>4 DEF LockForExclusive, CheckBlocked, Poll, ReadCommand
      <4>5. CASE CommandsDrained(t) \/ FaultsDrained(t) \/ Unlock(t)
        BY <4>5 DEF CommandsDrained, FaultsDrained, Unlock
      <4>6. QED
        BY <1>2, <2>4, <4>1, <4>2, <4>3, <4>4, <4>5 DEF Reader, Writer
    <3>2. QED
      BY <3>1 DEF BlockedIsParked
  <2>5. QED
    BY <2>1, <2>2, <2>3, <2>4
<1>3. QED
  BY <1>1, <1>2 DEF Next

-----------------------------------------------------------------------------
(* Exclusion.                                                              *)

\* When the loop of get_exclusive ends, every counted thread is parked, every
\* fault is read and the pipe is empty: the counting argument.
LEMMA LoopExit ==
  ASSUME IInv, NEW w \in Threads, pc[w] = "checking",
         ~(blocked_count < live_threads)
  PROVE  /\ Counted = Parked \ faults
         /\ faults = {}
         /\ cmds = 0
<1>1. blocked_count = Cardinality(Parked \ faults)
  BY DEF IInv, BlockedIsParked, Waiting
<1>2. Cardinality(Counted) + cmds <= Cardinality(Parked \ faults)
  BY <1>1, CountedFinite, SeenParked DEF IInv, TypeOK, CountCovers
<1>3. Cardinality(Parked \ faults) = Cardinality(Counted) /\ cmds = 0
  BY <1>2, CountedFinite, SeenParked, SizeAssumption DEF IInv, TypeOK
<1>4. Counted = Parked \ faults
  BY <1>3, SeenParked
<1>5. faults \subseteq Counted
  BY DEF IInv, FaultsParked, Parked, Counted, Guarded
<1>6. QED
  BY <1>3, <1>4, <1>5

LEMMA ExclusionStep ==
  ASSUME IInv, [Next]_vars
  PROVE  Exclusion' /\ NothingPending'
<1> USE DEF IInv, TypeOK, Exclusion, NothingPending, Goto, PCs, Locked, Waiting
<1>1. CASE UNCHANGED vars
  BY <1>1 DEF vars
<1>2. ASSUME NEW t \in Threads, Reader(t) \/ Writer(t)
      PROVE  Exclusion' /\ NothingPending'
  <2>1. CASE CheckBlocked(t)
    <3>1. CASE blocked_count < live_threads
      BY <2>1, <3>1 DEF CheckBlocked
    <3>2. CASE ~(blocked_count < live_threads)
      <4>1. Counted = Parked \ faults /\ faults = {} /\ cmds = 0
        BY <2>1, <3>2, LoopExit DEF CheckBlocked
      <4>2. \A u \in Threads \ {t} : pc[u] \in {"out", "parked"}
        BY <2>1, <4>1 DEF CheckBlocked, LockOwner, Counted, Parked, Guarded
      <4>3. QED
        BY <2>1, <4>1, <4>2 DEF CheckBlocked, LockOwner
    <3>3. QED
      BY <3>1, <3>2
  <2>2. CASE LockForShared(t) \/ CountShared(t) \/ Safepoint(t)
    BY <2>2, ThreadAssumption DEF LockForShared, CountShared, Safepoint, LockOwner
  <2>3. CASE TouchLockPage(t)
    BY <2>3 DEF TouchLockPage
  <2>4. CASE DisableGuard(t) \/ UncountShared(t) \/ NotifyUnregister(t)
    BY <2>4, ThreadAssumption DEF DisableGuard, UncountShared, NotifyUnregister, LockOwner
  <2>5. CASE LockForExclusive(t) \/ RemoveLockPage(t)
    BY <2>5, ThreadAssumption DEF LockForExclusive, RemoveLockPage, LockOwner
  <2>6. CASE Poll(t) \/ ReadCommand(t) \/ CommandsDrained(t)
    BY <2>6 DEF Poll, ReadCommand, CommandsDrained, LockOwner
  <2>7. CASE ReadFault(t) \/ FaultsDrained(t)
    BY <2>7 DEF ReadFault, FaultsDrained, LockOwner
  <2>8. CASE DropExclusive(t) \/ Unlock(t)
    BY <2>8 DEF DropExclusive, Unlock, LockOwner
  <2>9. QED
    BY <1>2, <2>1, <2>2, <2>3, <2>4, <2>5, <2>6, <2>7, <2>8 DEF Reader, Writer
<1>3. QED
  BY <1>1, <1>2 DEF Next

-----------------------------------------------------------------------------
(* The theorems.                                                           *)

LEMMA InitInv == Init => IInv
<1> SUFFICES ASSUME Init PROVE IInv
  OBVIOUS
<1>1. Counted = {} /\ Parked = {}
  BY DEF Init, Counted, Parked, Guarded
<1>2. Cardinality(Counted) = 0
  BY <1>1, FS_EmptySet
<1>3. TypeOK
  <2>1. pc \in [Threads -> PCs]
    <3>1. "out" \in PCs
      BY DEF PCs
    <3>2. QED
      BY <3>1 DEF Init
  <2>2. cmds \in 0 .. PipeCapacity
    BY SizeAssumption DEF Init
  <2>3. QED
    BY <2>1, <2>2 DEF Init, TypeOK
<1>4. LockOwner /\ PageAbsent /\ FaultsParked
  BY <1>1, ThreadAssumption
     DEF Init, LockOwner, PageAbsent, FaultsParked, Locked, Waiting
<1>5. CountCovers /\ CountExact
  BY <1>2 DEF Init, CountCovers, CountExact
<1>6. BlockedIsParked /\ Exclusion /\ NothingPending
  BY DEF Init, BlockedIsParked, Exclusion, NothingPending, Waiting
<1>7. QED
  BY <1>3, <1>4, <1>5, <1>6 DEF IInv

\* The invariant is inductive: every step of get_shared, safepoint,
\* disable_guard, get_exclusive and the guards' drops keeps it.
THEOREM Invariance == Spec => []IInv
<1>1. IInv /\ [Next]_vars => IInv'
  BY CountStep, ControlStep, BlockedStep, ExclusionStep DEF IInv
<1>2. QED
  BY <1>1, InitInv, PTL DEF Spec

\* The variables of the protocol keep their types; in particular live_threads,
\* a u32 in the code, never goes below zero.
THEOREM TypeCorrect == Spec => []TypeOK
BY Invariance, PTL DEF IInv

\* A writer that get_exclusive has returned to is alone in the data.
THEOREM ExclusionHolds == Spec => []Exclusion
BY Invariance, PTL DEF IInv

\* live_threads is never below the threads and commands it stands for.
THEOREM CountCoversHolds == Spec => []CountCovers
BY Invariance, PTL DEF IInv

\* With a command of non-zero size live_threads is exact.
THEOREM CountExactHolds == Spec => []CountExact
BY Invariance, PTL DEF IInv

\* The writer that returns leaves no event and no command to the next one.
THEOREM NothingPendingHolds == Spec => []NothingPending
BY Invariance, PTL DEF IInv
-----------------------------------------------------------------------------
(* GCSync implements StopTheWorld.                                         *)

LEMMA InitRefines == Init => STW!Init
BY DEF Init, STW!Init, guards, running, writer, Guarded

LEMMA StepRefines ==
  ASSUME IInv, [Next]_vars
  PROVE  [STW!Next]_STW!vars
<1> USE DEF STW!vars, guards, running, writer, Guarded, Goto
<1>1. CASE UNCHANGED vars
  BY <1>1 DEF vars
<1>2. ASSUME NEW t \in Threads, Reader(t) \/ Writer(t)
      PROVE  [STW!Next]_STW!vars
  <2> USE ThreadAssumption DEF IInv, TypeOK, LockOwner, Locked, Waiting, PCs
  <2>1. CASE CountShared(t)
    <3>1. STW!Register(t)
      BY <2>1 DEF CountShared, STW!Register
    <3>2. QED
      BY <3>1 DEF STW!Next
  <2>2. CASE DisableGuard(t)
    <3>1. STW!Unregister(t)
      BY <2>2 DEF DisableGuard, STW!Unregister, Exclusion
    <3>2. QED
      BY <3>1 DEF STW!Next
  <2>3. CASE Safepoint(t)
    <3>1. STW!Pause(t)
      BY <2>3 DEF Safepoint, STW!Pause
    <3>2. QED
      BY <3>1 DEF STW!Next
  <2>4. CASE TouchLockPage(t) /\ lock_page
    <3>1. writer = NoThread
      BY <2>4 DEF PageAbsent
    <3>2. STW!Resume(t)
      BY <2>4, <3>1 DEF TouchLockPage, STW!Resume, FaultsParked
    <3>3. QED
      BY <3>2 DEF STW!Next
  <2>5. CASE TouchLockPage(t) /\ ~lock_page
    BY <2>5 DEF TouchLockPage
  <2>6. CASE CheckBlocked(t) /\ blocked_count < live_threads
    BY <2>6 DEF CheckBlocked
  <2>7. CASE CheckBlocked(t) /\ ~(blocked_count < live_threads)
    <3>1. running = {}
      BY <2>7, LoopExit DEF CheckBlocked, Counted, Parked
    <3>2. STW!Acquire(t)
      BY <2>7, <3>1 DEF CheckBlocked, STW!Acquire
    <3>3. QED
      BY <3>2 DEF STW!Next
  <2>8. CASE DropExclusive(t)
    <3>1. STW!Release(t)
      BY <2>8 DEF DropExclusive, STW!Release
    <3>2. QED
      BY <3>1 DEF STW!Next
  <2>9. CASE LockForShared(t) \/ UncountShared(t) \/ NotifyUnregister(t)
    BY <2>9 DEF LockForShared, UncountShared, NotifyUnregister
  <2>10. CASE LockForExclusive(t) \/ RemoveLockPage(t) \/ Poll(t)
    BY <2>10 DEF LockForExclusive, RemoveLockPage, Poll
  <2>11. CASE ReadCommand(t) \/ CommandsDrained(t) \/ ReadFault(t)
    BY <2>11 DEF ReadCommand, CommandsDrained, ReadFault
  <2>12. CASE FaultsDrained(t) \/ Unlock(t)
    BY <2>12 DEF FaultsDrained, Unlock
  <2>13. QED
    BY <1>2, <2>1, <2>2, <2>3, <2>4, <2>5, <2>6, <2>7, <2>8, <2>9, <2>10,
       <2>11, <2>12 DEF Reader, Writer
<1>3. QED
  BY <1>1, <1>2 DEF Next

\* Every behaviour of the mechanism is a behaviour of the abstract lock.
THEOREM Refinement == Spec => ImplementsSTW
<1>1. IInv /\ [Next]_vars => [STW!Next]_STW!vars
  BY StepRefines
<1>2. QED
  BY <1>1, InitRefines, Invariance, PTL DEF Spec, STW!Spec, ImplementsSTW

=============================================================================
