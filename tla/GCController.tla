---------------------------- MODULE GCController ----------------------------
(***************************************************************************)
(* GCController (uwugc/src/gc_controller.rs): mutators ask for a cycle and *)
(* sleep until one ends, the collector's thread sleeps until asked, and    *)
(* the owner of the UwUGC runs code with the collector held off or shuts   *)
(* it down.  One mutex, two condition variables.                           *)
(*                                                                         *)
(* The state mutex is held through each action, so it is explicit only     *)
(* where it is held across actions: while run_exclusive runs its function. *)
(* parking_lot's condition variables have no spurious wakeups.             *)
(***************************************************************************)
EXTENDS Naturals, FiniteSets

CONSTANTS
  Mutators,   (* threads that call start_and_wait_cycle *)
  gc,         (* the thread in do_looper *)
  owner,      (* the thread that owns the UwUGC *)
  MaxCycles   (* bound: no request is made once this many cycles ended *)

ASSUME ActorAssumption ==
  /\ gc \notin Mutators
  /\ owner \notin Mutators
  /\ gc # owner
  /\ MaxCycles \in Nat

VARIABLES
  pc,                (* where each thread is *)
  is_running,
  is_requested,
  is_shutting_down,
  finished_count,
  condvar,           (* threads asleep on condvar *)
  cycle_done,        (* threads asleep on cycle_done_condvar *)
  cur_count          (* each mutator's local copy of finished_count *)

state == <<is_running, is_requested, is_shutting_down, finished_count>>
vars == <<pc, state, condvar, cycle_done, cur_count>>

Actors == Mutators \cup {gc, owner}

Goto(t, l) == pc' = [pc EXCEPT ![t] = l]

\* run_exclusive holds the mutex while its function runs.
Free == pc[owner] # "func"

Init ==
  /\ pc = [t \in Actors |-> IF t = gc THEN "entering" ELSE "idle"]
  /\ is_running = FALSE
  /\ is_requested = FALSE
  /\ is_shutting_down = FALSE
  /\ finished_count = 0
  /\ condvar = {}
  /\ cycle_done = {}
  /\ cur_count = [m \in Mutators |-> 0]

-----------------------------------------------------------------------------
(* start_and_wait_cycle.                                                   *)

\* (mutant) the request does not wake the collector
RequestNoNotify(m) ==
  /\ pc[m] = "idle"
  /\ pc[owner] = "idle"
  /\ finished_count < MaxCycles
  /\ cur_count' = [cur_count EXCEPT ![m] = finished_count]
  /\ is_requested' = TRUE
  /\ cycle_done' = cycle_done \cup {m}
  /\ Goto(m, "waiting")
  /\ UNCHANGED <<is_running, is_shutting_down, finished_count, condvar>>

\* Contexts borrow the UwUGC: while its owner mutates or drops it none exists.
Request(m) ==
  /\ pc[m] = "idle"
  /\ pc[owner] = "idle"
  /\ finished_count < MaxCycles
  /\ cur_count' = [cur_count EXCEPT ![m] = finished_count]
  /\ is_requested' = TRUE
  /\ condvar' = {}
  /\ cycle_done' = cycle_done \cup {m}
  /\ Goto(m, "waiting")
  /\ UNCHANGED <<is_running, is_shutting_down, finished_count>>

\* A woken mutator evaluates the condition of its wait_while again.
Recheck(m) ==
  /\ pc[m] = "waiting"
  /\ m \notin cycle_done
  /\ Free
  /\ \/ /\ cur_count[m] = finished_count
        /\ cycle_done' = cycle_done \cup {m}
        /\ UNCHANGED pc
     \/ /\ cur_count[m] # finished_count
        /\ Goto(m, "idle")
        /\ UNCHANGED cycle_done
  /\ UNCHANGED <<state, condvar, cur_count>>

-----------------------------------------------------------------------------
(* do_looper.                                                              *)

\* wait_while(!is_requested), and the start of a cycle once it returns.
WaitForRequest ==
  \/ /\ is_requested
     /\ is_running' = TRUE
     /\ is_requested' = FALSE
     /\ Goto(gc, "cycle")
     /\ UNCHANGED condvar
  \/ /\ ~is_requested
     /\ is_running' = FALSE
     /\ condvar' = condvar \cup {gc}
     /\ Goto(gc, "asleep")
     /\ UNCHANGED is_requested

\* (mutant) the flag of a running cycle is left set when the loop ends
LoopTopStillRunning ==
  \/ is_shutting_down /\ Goto(gc, "exited") /\ UNCHANGED <<is_running, is_requested, condvar>>
  \/ ~is_shutting_down /\ WaitForRequest

\* (mutant) the loop never ends
LoopTopForever == WaitForRequest

\* The loop's own condition is tested only before it waits, never after.
LoopTop ==
  \/ /\ is_shutting_down
     /\ is_running' = FALSE
     /\ Goto(gc, "exited")
     /\ UNCHANGED <<is_requested, condvar>>
  \/ ~is_shutting_down /\ WaitForRequest

\* (mutant) the looper resets its state when it starts
EnterLoopResets ==
  /\ pc[gc] = "entering"
  /\ Free
  /\ is_running' = FALSE
  /\ is_requested' = FALSE
  /\ condvar' = condvar \cup {gc}
  /\ Goto(gc, "asleep")
  /\ UNCHANGED <<is_shutting_down, finished_count, cycle_done, cur_count>>

EnterLoop ==
  /\ pc[gc] = "entering"
  /\ Free
  /\ LoopTop
  /\ UNCHANGED <<is_shutting_down, finished_count, cycle_done, cur_count>>

WakeLooper ==
  /\ pc[gc] = "asleep"
  /\ gc \notin condvar
  /\ Free
  /\ WaitForRequest
  /\ UNCHANGED <<is_shutting_down, finished_count, cycle_done, cur_count>>

\* on_cycle, as far as the controller sees it: the collector erases the
\* requests made before its first stop of the world (step1).
ClearRequest ==
  /\ pc[gc] = "cycle"
  /\ Free
  /\ is_requested' = FALSE
  /\ Goto(gc, "cleared")
  /\ UNCHANGED <<is_running, is_shutting_down, finished_count, condvar, cycle_done,
                 cur_count>>

\* (mutant) the end of a cycle wakes nobody
FinishCycleNoNotify ==
  /\ pc[gc] = "cleared"
  /\ Free
  /\ finished_count' = finished_count + 1
  /\ LoopTop
  /\ UNCHANGED <<is_shutting_down, cycle_done, cur_count>>

\* The end of a cycle and the next turn of the loop are one critical section.
FinishCycle ==
  /\ pc[gc] = "cleared"
  /\ Free
  /\ finished_count' = finished_count + 1
  /\ cycle_done' = {}
  /\ LoopTop
  /\ UNCHANGED <<is_shutting_down, cur_count>>

-----------------------------------------------------------------------------
(* The owner: UwUGC::set_type_manager and UwUGC::drop, both exclusive.     *)

NoContexts == \A m \in Mutators : pc[m] = "idle"

\* (mutant) the wrong flag is waited for
WaitNotRequested ==
  \/ is_requested /\ condvar' = condvar \cup {owner} /\ Goto(owner, "asleep")
  \/ ~is_requested /\ UNCHANGED condvar /\ Goto(owner, "func")

\* wait_while(is_running) on condvar, the variable of the requests.
WaitNotRunning ==
  \/ is_running /\ condvar' = condvar \cup {owner} /\ Goto(owner, "asleep")
  \/ ~is_running /\ UNCHANGED condvar /\ Goto(owner, "func")

\* The call, and the turns of its wait loop after a notification.
RunExclusive ==
  /\ pc[owner] \in {"idle", "asleep"}
  /\ owner \notin condvar
  /\ NoContexts
  /\ WaitNotRunning
  /\ UNCHANGED <<state, cycle_done, cur_count>>

FuncReturns ==
  /\ pc[owner] = "func"
  /\ Goto(owner, "idle")
  /\ UNCHANGED <<state, condvar, cycle_done, cur_count>>

\* shutdown sets the flag, releases the mutex, and only then notifies.
Shutdown ==
  /\ pc[owner] = "idle"
  /\ NoContexts
  /\ is_shutting_down' = TRUE
  /\ Goto(owner, "notifying")
  /\ UNCHANGED <<is_running, is_requested, finished_count, condvar, cycle_done,
                 cur_count>>

NotifyShutdown ==
  /\ pc[owner] = "notifying"
  /\ condvar' = {}
  /\ Goto(owner, "joining")
  /\ UNCHANGED <<state, cycle_done, cur_count>>

Join ==
  /\ pc[owner] = "joining"
  /\ pc[gc] = "exited"
  /\ Goto(owner, "dropped")
  /\ UNCHANGED <<state, condvar, cycle_done, cur_count>>

-----------------------------------------------------------------------------

Looper == EnterLoop \/ WakeLooper \/ ClearRequest \/ FinishCycle

Owner ==
  \/ RunExclusive \/ FuncReturns
  \/ Shutdown \/ NotifyShutdown \/ Join

Next == Looper \/ Owner \/ \E m \in Mutators : Request(m) \/ Recheck(m)

Spec == Init /\ [][Next]_vars

\* Every thread that can run runs: on_cycle ends (that is for GCSync and the
\* collector to ensure) and so does run_exclusive's function.  Nobody has to
\* request a cycle, to run exclusively or to shut down.
Fairness ==
  /\ WF_vars(Looper)
  /\ \A m \in Mutators : WF_vars(Recheck(m))
  /\ WF_vars(pc[owner] # "idle" /\ Owner)

FairSpec == Spec /\ Fairness

-----------------------------------------------------------------------------

LooperPCs == {"entering", "asleep", "cycle", "cleared", "exited"}
OwnerPCs == {"idle", "asleep", "func", "notifying", "joining", "dropped"}

TypeOK ==
  /\ pc \in [Actors -> LooperPCs \cup OwnerPCs \cup {"waiting"}]
  /\ pc[gc] \in LooperPCs
  /\ pc[owner] \in OwnerPCs
  /\ \A m \in Mutators : pc[m] \in {"idle", "waiting"}
  /\ is_running \in BOOLEAN
  /\ is_requested \in BOOLEAN
  /\ is_shutting_down \in BOOLEAN
  /\ finished_count \in Nat
  /\ condvar \subseteq {gc, owner}
  /\ cycle_done \subseteq Mutators
  /\ cur_count \in [Mutators -> Nat]

\* A mutator whose cycle has not ended has one to come: its request is pending
\* or a cycle is running, although clear_request and the start of a cycle
\* erase requests they have not served.
NoLostRequest ==
  \A m \in Mutators : pc[m] = "waiting" /\ cur_count[m] = finished_count =>
    is_requested \/ is_running

\* Nobody sleeps on a condition that has changed: the collector has no request
\* and each sleeping mutator's cycle has not ended.
NoMissedWakeup ==
  /\ gc \in condvar => ~is_requested
  /\ \A m \in cycle_done : cur_count[m] = finished_count

\* While run_exclusive's function runs "GC cannot run at all": no cycle is in
\* progress and none starts.
ExclusiveHoldsOffCycle ==
  pc[owner] = "func" => pc[gc] \notin {"cycle", "cleared"} /\ ~is_running

\* is_running tells where the looper is, sleepers are in their waits, and no
\* mutator is ahead of the count it waits on.
Bookkeeping ==
  /\ is_running <=> pc[gc] \in {"cycle", "cleared"}
  /\ gc \in condvar => pc[gc] = "asleep"
  /\ owner \in condvar => pc[owner] = "asleep"
  /\ \A m \in cycle_done : pc[m] = "waiting"
  /\ \A m \in Mutators : cur_count[m] <= finished_count

\* Whoever shuts down or runs exclusively has no mutator to wait for.
OwnerAlone ==
  pc[owner] # "idle" => NoContexts

\* The collector's thread leaves its loop only on a shutdown.
ExitMeansShutdown ==
  /\ pc[gc] = "exited" => is_shutting_down
  /\ is_shutting_down => pc[owner] \in {"notifying", "joining", "dropped"}

\* The inductive invariant.
IInv ==
  /\ TypeOK
  /\ Bookkeeping
  /\ OwnerAlone
  /\ ExitMeansShutdown
  /\ NoLostRequest
  /\ NoMissedWakeup
  /\ ExclusiveHoldsOffCycle

\* start_and_wait_cycle returns.
RequestsServed == \A m \in Mutators : pc[m] = "waiting" ~> pc[m] = "idle"

\* A shutdown that finds a cycle running ends the collector's thread.
ShutdownEndsCycle ==
  is_shutting_down /\ pc[gc] \in {"cycle", "cleared"} ~> pc[gc] = "exited"

\* The owner's calls get what they wait for: run_exclusive runs func "with GC being
\* blocked", and UwUGC::drop "want[s] to wait the GC thread", which ends.
OwnerReturns ==
  pc[owner] \in {"asleep", "notifying", "joining"} ~> pc[owner] \in {"func", "dropped"}

=============================================================================
