------------------------- MODULE GCControllerProofs -------------------------
(***************************************************************************)
(* Proofs about GCController for any set of mutators and any number of     *)
(* cycles: no request is lost, no wakeup is missed, and no cycle runs      *)
(* beside run_exclusive's function.                                        *)
(***************************************************************************)
EXTENDS GCController, TLAPS

LEMMA InitInv == Init => IInv
<1> SUFFICES ASSUME Init PROVE IInv
  OBVIOUS
<1> USE ActorAssumption DEF Init, Actors
<1>1. TypeOK
  <2>1. \A t \in Actors : pc[t] = IF t = gc THEN "entering" ELSE "idle"
    OBVIOUS
  <2>2. {"entering", "idle"} \subseteq LooperPCs \cup OwnerPCs \cup {"waiting"}
    BY DEF LooperPCs, OwnerPCs
  <2>3. pc \in [Actors -> LooperPCs \cup OwnerPCs \cup {"waiting"}]
    BY <2>2
  <2>4. QED
    BY <2>1, <2>3 DEF TypeOK, LooperPCs, OwnerPCs
<1>2. Bookkeeping /\ OwnerAlone /\ ExitMeansShutdown
  BY DEF Bookkeeping, OwnerAlone, ExitMeansShutdown
<1>3. NoLostRequest /\ NoMissedWakeup /\ ExclusiveHoldsOffCycle
  BY DEF NoLostRequest, NoMissedWakeup, ExclusiveHoldsOffCycle
<1>4. QED
  BY <1>1, <1>2, <1>3 DEF IInv

\* A mutator's own steps.
LEMMA MutatorStep ==
  ASSUME IInv, NEW m \in Mutators, Request(m) \/ Recheck(m)
  PROVE  IInv'
<1> USE ActorAssumption DEF IInv, Actors, Goto
<1>1. CASE Request(m)
  <2> USE <1>1 DEF Request
  <2>1. TypeOK'
    BY DEF TypeOK, OwnerPCs
  <2>2. Bookkeeping' /\ OwnerAlone' /\ ExitMeansShutdown'
    BY DEF TypeOK, Bookkeeping, OwnerAlone, NoContexts, ExitMeansShutdown
  <2>3. NoLostRequest' /\ NoMissedWakeup' /\ ExclusiveHoldsOffCycle'
    BY DEF TypeOK, NoLostRequest, NoMissedWakeup, ExclusiveHoldsOffCycle
  <2>4. QED
    BY <2>1, <2>2, <2>3
<1>2. CASE Recheck(m)
  <2> USE <1>2 DEF Recheck, state
  <2>1. TypeOK'
    BY DEF TypeOK, OwnerPCs
  <2>2. Bookkeeping' /\ OwnerAlone' /\ ExitMeansShutdown'
    BY DEF TypeOK, Bookkeeping, OwnerAlone, NoContexts, ExitMeansShutdown
  <2>3. NoLostRequest' /\ NoMissedWakeup' /\ ExclusiveHoldsOffCycle'
    BY DEF TypeOK, NoLostRequest, NoMissedWakeup, ExclusiveHoldsOffCycle
  <2>4. QED
    BY <2>1, <2>2, <2>3
<1>3. QED
  BY <1>1, <1>2

\* The collector's steps.  The count that FinishCycle advances serves every
\* mutator that waits, which is why it may leave no request behind.
LEMMA LooperStep ==
  ASSUME IInv, Looper
  PROVE  IInv'
<1> USE ActorAssumption DEF IInv, Actors, Goto
<1>1. CASE EnterLoop
  <2> USE <1>1 DEF EnterLoop, LoopTop, WaitForRequest, Free
  <2>1. TypeOK'
    BY DEF TypeOK, LooperPCs, OwnerPCs
  <2>2. Bookkeeping' /\ OwnerAlone' /\ ExitMeansShutdown'
    BY DEF TypeOK, Bookkeeping, OwnerAlone, NoContexts, ExitMeansShutdown
  <2>3. NoLostRequest' /\ NoMissedWakeup' /\ ExclusiveHoldsOffCycle'
    BY DEF TypeOK, Bookkeeping, OwnerAlone, NoContexts, ExitMeansShutdown,
           NoLostRequest, NoMissedWakeup, ExclusiveHoldsOffCycle
  <2>4. QED
    BY <2>1, <2>2, <2>3
<1>2. CASE WakeLooper
  <2> USE <1>2 DEF WakeLooper, WaitForRequest, Free
  <2>1. TypeOK'
    BY DEF TypeOK, LooperPCs, OwnerPCs
  <2>2. Bookkeeping' /\ OwnerAlone' /\ ExitMeansShutdown'
    BY DEF TypeOK, Bookkeeping, OwnerAlone, NoContexts, ExitMeansShutdown
  <2>3. NoLostRequest' /\ NoMissedWakeup' /\ ExclusiveHoldsOffCycle'
    BY DEF TypeOK, Bookkeeping, NoLostRequest, NoMissedWakeup, ExclusiveHoldsOffCycle
  <2>4. QED
    BY <2>1, <2>2, <2>3
<1>3. CASE ClearRequest
  <2> USE <1>3 DEF ClearRequest, Free
  <2>1. TypeOK'
    BY DEF TypeOK, LooperPCs, OwnerPCs
  <2>2. Bookkeeping' /\ OwnerAlone' /\ ExitMeansShutdown'
    BY DEF TypeOK, Bookkeeping, OwnerAlone, NoContexts, ExitMeansShutdown
  <2>3. NoLostRequest' /\ NoMissedWakeup' /\ ExclusiveHoldsOffCycle'
    BY DEF TypeOK, Bookkeeping, NoLostRequest, NoMissedWakeup, ExclusiveHoldsOffCycle
  <2>4. QED
    BY <2>1, <2>2, <2>3
<1>4. CASE FinishCycle
  <2> USE <1>4 DEF FinishCycle, LoopTop, WaitForRequest, Free
  <2>1. TypeOK'
    <3>0. is_running' \in BOOLEAN /\ is_requested' \in BOOLEAN
      BY Zenon DEF TypeOK
    <3>1. /\ is_shutting_down' \in BOOLEAN /\ finished_count' \in Nat
          /\ condvar' \subseteq {gc, owner} /\ cycle_done' \subseteq Mutators
          /\ cur_count' \in [Mutators -> Nat]
      BY DEF TypeOK
    <3>2. PICK l \in {"cycle", "asleep", "exited"} : pc' = [pc EXCEPT ![gc] = l]
      OBVIOUS
    <3>3. pc' \in [Actors -> LooperPCs \cup OwnerPCs \cup {"waiting"}]
      BY <3>2 DEF TypeOK, LooperPCs
    <3>4. pc'[gc] \in LooperPCs /\ \A t \in Actors \ {gc} : pc'[t] = pc[t]
      BY <3>2 DEF TypeOK, LooperPCs
    <3>5. QED
      BY <3>0, <3>1, <3>3, <3>4 DEF TypeOK
  <2>2. Bookkeeping' /\ OwnerAlone' /\ ExitMeansShutdown'
    BY DEF TypeOK, Bookkeeping, OwnerAlone, NoContexts, ExitMeansShutdown
  <2>3. \A m \in Mutators : cur_count'[m] # finished_count'
    BY DEF TypeOK, Bookkeeping
  <2>4. NoLostRequest' /\ NoMissedWakeup' /\ ExclusiveHoldsOffCycle'
    BY <2>3 DEF TypeOK, Bookkeeping, NoLostRequest, NoMissedWakeup,
                ExclusiveHoldsOffCycle
  <2>5. QED
    BY <2>1, <2>2, <2>4
<1>5. QED
  BY <1>1, <1>2, <1>3, <1>4 DEF Looper

\* The owner's steps.
LEMMA OwnerStep ==
  ASSUME IInv, Owner
  PROVE  IInv'
<1> USE ActorAssumption DEF IInv, Actors, Goto, state
<1>1. CASE RunExclusive
  <2> USE <1>1 DEF RunExclusive, WaitNotRunning
  <2>1. TypeOK'
    BY DEF TypeOK, LooperPCs, OwnerPCs
  <2>2. Bookkeeping' /\ OwnerAlone' /\ ExitMeansShutdown'
    BY DEF TypeOK, Bookkeeping, OwnerAlone, NoContexts, ExitMeansShutdown
  <2>3. NoLostRequest' /\ NoMissedWakeup' /\ ExclusiveHoldsOffCycle'
    BY DEF TypeOK, Bookkeeping, NoLostRequest, NoMissedWakeup, ExclusiveHoldsOffCycle
  <2>4. QED
    BY <2>1, <2>2, <2>3
<1>2. CASE FuncReturns \/ Shutdown
  <2> USE <1>2 DEF FuncReturns, Shutdown
  <2>1. TypeOK'
    BY DEF TypeOK, LooperPCs, OwnerPCs
  <2>2. Bookkeeping' /\ OwnerAlone' /\ ExitMeansShutdown'
    BY DEF TypeOK, Bookkeeping, OwnerAlone, NoContexts, ExitMeansShutdown
  <2>3. NoLostRequest' /\ NoMissedWakeup' /\ ExclusiveHoldsOffCycle'
    BY DEF TypeOK, NoLostRequest, NoMissedWakeup, ExclusiveHoldsOffCycle
  <2>4. QED
    BY <2>1, <2>2, <2>3
<1>3. CASE NotifyShutdown \/ Join
  <2> USE <1>3 DEF NotifyShutdown, Join
  <2>1. TypeOK'
    BY DEF TypeOK, LooperPCs, OwnerPCs
  <2>2. Bookkeeping' /\ OwnerAlone' /\ ExitMeansShutdown'
    BY DEF TypeOK, Bookkeeping, OwnerAlone, NoContexts, ExitMeansShutdown
  <2>3. NoLostRequest' /\ NoMissedWakeup' /\ ExclusiveHoldsOffCycle'
    BY DEF TypeOK, NoLostRequest, NoMissedWakeup, ExclusiveHoldsOffCycle
  <2>4. QED
    BY <2>1, <2>2, <2>3
<1>4. QED
  BY <1>1, <1>2, <1>3 DEF Owner

\* The invariant is inductive.
THEOREM Invariance == Spec => []IInv
<1>1. IInv /\ UNCHANGED vars => IInv'
  BY DEF vars, state, IInv, TypeOK, Actors, Bookkeeping, OwnerAlone, NoContexts,
         ExitMeansShutdown, NoLostRequest, NoMissedWakeup, ExclusiveHoldsOffCycle
<1>2. IInv /\ [Next]_vars => IInv'
  BY <1>1, MutatorStep, LooperStep, OwnerStep DEF Next
<1>3. QED
  BY <1>2, InitInv, PTL DEF Spec

\* The controller's state and its threads keep their types.
THEOREM TypeCorrect == Spec => []TypeOK
BY Invariance, PTL DEF IInv

\* No waiting mutator's request is erased without a cycle that will end for it.
THEOREM NoLostRequestHolds == Spec => []NoLostRequest
BY Invariance, PTL DEF IInv

\* Nobody sleeps on a condition variable once its condition has changed.
THEOREM NoMissedWakeupHolds == Spec => []NoMissedWakeup
BY Invariance, PTL DEF IInv

\* run_exclusive's function never overlaps a cycle.
THEOREM ExclusiveHolds == Spec => []ExclusiveHoldsOffCycle
BY Invariance, PTL DEF IInv

=============================================================================
