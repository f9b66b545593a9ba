---------------------------- MODULE StopTheWorld ----------------------------
(***************************************************************************)
(* What GCSync promises to its users, without the mechanism: threads hold  *)
(* shared guards, a guard's holder either runs or is paused at a safepoint, *)
(* and a writer gets the state for itself only while no holder runs.       *)
(***************************************************************************)

CONSTANTS
  Threads,  (* every thread that may hold a guard, shared or exclusive *)
  NoThread  (* the absence of a writer *)

VARIABLES
  guards,   (* threads that own a SharedGuard *)
  running,  (* those of them that may be inside the protected data *)
  writer    (* the owner of the ExclusiveGuard, or NoThread *)

vars == <<guards, running, writer>>

Init ==
  /\ guards = {}
  /\ running = {}
  /\ writer = NoThread

\* A new shared guard: its owner starts inside the data.
Register(t) ==
  /\ t \notin guards
  /\ writer = NoThread
  /\ guards' = guards \cup {t}
  /\ running' = running \cup {t}
  /\ UNCHANGED writer

\* The guard is given up; only a running thread can do so.
Unregister(t) ==
  /\ t \in running
  /\ guards' = guards \ {t}
  /\ running' = running \ {t}
  /\ UNCHANGED writer

Pause(t) ==
  /\ t \in running
  /\ running' = running \ {t}
  /\ UNCHANGED <<guards, writer>>

Resume(t) ==
  /\ t \in guards \ running
  /\ writer = NoThread
  /\ running' = running \cup {t}
  /\ UNCHANGED <<guards, writer>>

Acquire(w) ==
  /\ writer = NoThread
  /\ w \notin guards
  /\ running = {}
  /\ writer' = w
  /\ UNCHANGED <<guards, running>>

Release(w) ==
  /\ writer = w
  /\ writer' = NoThread
  /\ UNCHANGED <<guards, running>>

Next ==
  \E t \in Threads :
    \/ Register(t) \/ Unregister(t) \/ Pause(t) \/ Resume(t)
    \/ Acquire(t) \/ Release(t)

Spec == Init /\ [][Next]_vars

=============================================================================
