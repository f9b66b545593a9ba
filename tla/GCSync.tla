------------------------------- MODULE GCSync -------------------------------
(***************************************************************************)
(* GCSync (uwugc/src/gc_sync.rs): a readers-writer protocol whose readers  *)
(* pay one load at a safepoint.  The writer takes the live_threads mutex,  *)
(* punches a hole in the lock page and counts page faults until as many    *)
(* threads are parked as are registered.  A reader that leaves while the   *)
(* mutex is held cannot decrement the count: it sends a command through a  *)
(* pipe (uwugc/src/pipe.rs) and the writer decrements on its behalf.       *)
(*                                                                         *)
(* Each critical section is split where another thread can act in between. *)
(* Memory is sequentially consistent: the fences of the code are assumed   *)
(* to do their work.                                                       *)
(***************************************************************************)
EXTENDS Naturals, FiniteSets

CONSTANTS
  Threads,       (* threads that use the GCSync *)
  Writers,       (* those that may ask for the exclusive guard *)
  CommandSize,   (* size_of::<Command>(), 0 for the enum of the source *)
  PipeCapacity,  (* packets the O_DIRECT pipe holds, 16 on Linux *)
  MaxLive,       (* bound of live_threads, a u32 in the source *)
  NoThread       (* "nobody holds the mutex" *)

ASSUME ThreadAssumption ==
  /\ IsFiniteSet(Threads)
  /\ Writers \subseteq Threads
  /\ NoThread \notin Threads

ASSUME SizeAssumption ==
  /\ CommandSize \in Nat
  /\ PipeCapacity \in Nat \ {0}
  /\ MaxLive \in Nat

VARIABLES
  pc,             (* where each thread is *)
  live_threads,   (* the counter the mutex protects *)
  lock,           (* owner of the live_threads mutex *)
  lock_page,      (* TRUE while the lock page is mapped *)
  faults,         (* parked threads whose fault event is still unread *)
  cmds,           (* packets in gc_commands *)
  blocked_count,  (* the writer's local count of the faults it has read *)
  uffd_event      (* did poll report the userfaultfd readable? *)

vars == <<pc, live_threads, lock, lock_page, faults, cmds, blocked_count,
          uffd_event>>

\* Where the writer is while the lock page is unmapped.
Waiting == {"checking", "polling", "commands", "faults"}

\* Where a thread owns the mutex.
Locked == {"counting", "uncounting", "removing", "exclusive", "unlocking"}
            \cup Waiting

PCs == {"out", "running", "safepoint", "parked", "notifying"} \cup Locked

\* Where a thread owns a SharedGuard that is not disabled.
Guarded == {"running", "safepoint", "parked"}

\* Where a thread is still part of live_threads, were no command lost.
Counted == {t \in Threads : pc[t] \in Guarded \cup {"uncounting", "notifying"}}

Parked == {t \in Threads : pc[t] = "parked"}

Goto(t, l) == pc' = [pc EXCEPT ![t] = l]

-----------------------------------------------------------------------------

Init ==
  /\ pc = [t \in Threads |-> "out"]
  /\ live_threads = 0
  /\ lock = NoThread
  /\ lock_page = TRUE
  /\ faults = {}
  /\ cmds = 0
  /\ blocked_count = 0
  /\ uffd_event = FALSE

\* get_shared, also as enable_guard at the end of unguarded: wait for the mutex.
LockForShared(t) ==
  /\ pc[t] = "out"
  /\ lock = NoThread
  /\ live_threads < MaxLive
  /\ lock' = t
  /\ Goto(t, "counting")
  /\ UNCHANGED <<live_threads, lock_page, faults, cmds, blocked_count, uffd_event>>

CountShared(t) ==
  /\ pc[t] = "counting"
  /\ live_threads' = live_threads + 1
  /\ lock' = NoThread
  /\ Goto(t, "running")
  /\ UNCHANGED <<lock_page, faults, cmds, blocked_count, uffd_event>>

Safepoint(t) ==
  /\ pc[t] = "running"
  /\ Goto(t, "safepoint")
  /\ UNCHANGED <<live_threads, lock, lock_page, faults, cmds, blocked_count, uffd_event>>

\* (mutant) the event of a fault is lost
TouchLockPageSilent(t) ==
  /\ pc[t] = "safepoint"
  /\ Goto(t, IF lock_page THEN "running" ELSE "parked")
  /\ UNCHANGED <<live_threads, lock, lock_page, faults, cmds, blocked_count, uffd_event>>

\* The load from the lock page: it returns, or faults and queues an event.
TouchLockPage(t) ==
  /\ pc[t] = "safepoint"
  /\ \/ lock_page /\ Goto(t, "running") /\ UNCHANGED faults
     \/ ~lock_page /\ Goto(t, "parked") /\ faults' = faults \cup {t}
  /\ UNCHANGED <<live_threads, lock, lock_page, cmds, blocked_count, uffd_event>>

\* disable_guard: try_lock decides who will do the decrement.
DisableGuard(t) ==
  /\ pc[t] = "running"
  /\ \/ lock = NoThread /\ lock' = t /\ Goto(t, "uncounting")
     \/ lock # NoThread /\ UNCHANGED lock /\ Goto(t, "notifying")
  /\ UNCHANGED <<live_threads, lock_page, faults, cmds, blocked_count, uffd_event>>

UncountShared(t) ==
  /\ pc[t] = "uncounting"
  /\ live_threads' = live_threads - 1
  /\ lock' = NoThread
  /\ Goto(t, "out")
  /\ UNCHANGED <<lock_page, faults, cmds, blocked_count, uffd_event>>

\* (mutant) every command is lost
WriteNothing == cmds

\* Pipe::write_blocking waits for room.  A write of no bytes succeeds, as the
\* code requires (it returns size_of::<T>()), but puts no packet in the pipe.
Write == IF CommandSize = 0 THEN cmds ELSE cmds + 1

NotifyUnregister(t) ==
  /\ pc[t] = "notifying"
  /\ cmds < PipeCapacity
  /\ cmds' = Write
  /\ Goto(t, "out")
  /\ UNCHANGED <<live_threads, lock, lock_page, faults, blocked_count, uffd_event>>

-----------------------------------------------------------------------------

LockForExclusive(w) ==
  /\ w \in Writers
  /\ pc[w] = "out"
  /\ lock = NoThread
  /\ lock' = w
  /\ Goto(w, "removing")
  /\ UNCHANGED <<live_threads, lock_page, faults, cmds, blocked_count, uffd_event>>

\* madvise(MADV_REMOVE): from here on every safepoint faults.
RemoveLockPage(w) ==
  /\ pc[w] = "removing"
  /\ lock_page' = FALSE
  /\ blocked_count' = 0
  /\ Goto(w, "checking")
  /\ UNCHANGED <<live_threads, lock, faults, cmds, uffd_event>>

\* (mutant) off by one: the loop ends with one thread still running
CheckBlockedTooEarly(w) ==
  /\ pc[w] = "checking"
  /\ Goto(w, IF blocked_count + 1 < live_threads THEN "polling" ELSE "exclusive")
  /\ UNCHANGED <<live_threads, lock, lock_page, faults, cmds, blocked_count, uffd_event>>

CheckBlocked(w) ==
  /\ pc[w] = "checking"
  /\ Goto(w, IF blocked_count < live_threads THEN "polling" ELSE "exclusive")
  /\ UNCHANGED <<live_threads, lock, lock_page, faults, cmds, blocked_count, uffd_event>>

\* poll without a timeout: it returns once a descriptor is readable.
Poll(w) ==
  /\ pc[w] = "polling"
  /\ cmds > 0 \/ faults # {}
  /\ uffd_event' = (faults # {})
  /\ Goto(w, IF cmds > 0 THEN "commands" ELSE "faults")
  /\ UNCHANGED <<live_threads, lock, lock_page, faults, cmds, blocked_count>>

ReadCommand(w) ==
  /\ pc[w] = "commands"
  /\ cmds > 0
  /\ cmds' = cmds - 1
  /\ live_threads' = live_threads - 1
  /\ UNCHANGED <<pc, lock, lock_page, faults, blocked_count, uffd_event>>

CommandsDrained(w) ==
  /\ pc[w] = "commands"
  /\ cmds = 0
  /\ Goto(w, IF uffd_event THEN "faults" ELSE "checking")
  /\ UNCHANGED <<live_threads, lock, lock_page, faults, cmds, blocked_count, uffd_event>>

ReadFault(w) ==
  /\ pc[w] = "faults"
  /\ \E t \in faults : faults' = faults \ {t}
  /\ blocked_count' = blocked_count + 1
  /\ UNCHANGED <<pc, live_threads, lock, lock_page, cmds, uffd_event>>

\* (mutant) the loop's condition is not tested again
FaultsDrainedNoLoop(w) ==
  /\ pc[w] = "faults"
  /\ faults = {}
  /\ Goto(w, "exclusive")
  /\ UNCHANGED <<live_threads, lock, lock_page, faults, cmds, blocked_count, uffd_event>>

FaultsDrained(w) ==
  /\ pc[w] = "faults"
  /\ faults = {}
  /\ Goto(w, "checking")
  /\ UNCHANGED <<live_threads, lock, lock_page, faults, cmds, blocked_count, uffd_event>>

\* (mutant) the page is mapped without waking who waits for it
DropExclusiveNoWake(w) ==
  /\ pc[w] = "exclusive"
  /\ lock_page' = TRUE
  /\ faults' = {}
  /\ Goto(w, "unlocking")
  /\ UNCHANGED <<live_threads, lock, cmds, blocked_count, uffd_event>>

\* ExclusiveGuard::drop maps a zero page and wakes every parked thread, which
\* loads again; the mutex is released only afterwards.
DropExclusive(w) ==
  /\ pc[w] = "exclusive"
  /\ lock_page' = TRUE
  /\ faults' = {}
  /\ pc' = [t \in Threads |-> IF t = w THEN "unlocking"
                              ELSE IF pc[t] = "parked" THEN "safepoint"
                              ELSE pc[t]]
  /\ UNCHANGED <<live_threads, lock, cmds, blocked_count, uffd_event>>

Unlock(w) ==
  /\ pc[w] = "unlocking"
  /\ lock' = NoThread
  /\ Goto(w, "out")
  /\ UNCHANGED <<live_threads, lock_page, faults, cmds, blocked_count, uffd_event>>

-----------------------------------------------------------------------------

Reader(t) ==
  \/ LockForShared(t) \/ CountShared(t)
  \/ Safepoint(t) \/ TouchLockPage(t)
  \/ DisableGuard(t) \/ UncountShared(t) \/ NotifyUnregister(t)

Writer(w) ==
  \/ LockForExclusive(w) \/ RemoveLockPage(w) \/ CheckBlocked(w) \/ Poll(w)
  \/ ReadCommand(w) \/ CommandsDrained(w) \/ ReadFault(w) \/ FaultsDrained(w)
  \/ DropExclusive(w) \/ Unlock(w)

Next == \E t \in Threads : Reader(t) \/ Writer(t)

Spec == Init /\ [][Next]_vars

\* What a thread does once it has begun.  A thread need not ask for a guard,
\* but the owner of one reaches a safepoint or gives it up: the clients owe
\* that (get_shared's comment), and the scheduler owes the rest.
Proceed(t) ==
  \/ CountShared(t) \/ Safepoint(t) \/ TouchLockPage(t)
  \/ DisableGuard(t) \/ UncountShared(t) \/ NotifyUnregister(t)
  \/ RemoveLockPage(t) \/ CheckBlocked(t) \/ Poll(t)
  \/ ReadCommand(t) \/ CommandsDrained(t) \/ ReadFault(t) \/ FaultsDrained(t)
  \/ DropExclusive(t) \/ Unlock(t)

Fairness == \A t \in Threads : WF_vars(Proceed(t))

FairSpec == Spec /\ Fairness

-----------------------------------------------------------------------------

TypeOK ==
  /\ pc \in [Threads -> PCs]
  /\ live_threads \in Nat
  /\ lock \in Threads \cup {NoThread}
  /\ lock_page \in BOOLEAN
  /\ faults \subseteq Threads
  /\ cmds \in 0 .. PipeCapacity
  /\ blocked_count \in Nat
  /\ uffd_event \in BOOLEAN

\* While a writer owns the ExclusiveGuard no other thread is inside the data,
\* or on its way out of it, or past the safepoint's load: the "no other thread
\* is running concurrently" of ExclusiveGuard::get.
Exclusion ==
  \A w \in Threads : pc[w] = "exclusive" =>
    \A t \in Threads \ {w} : pc[t] \in {"out", "parked"}

\* live_threads never falls below the threads and commands it stands for, so
\* neither kind of decrement underflows the u32 and the writer waits for all.
CountCovers == live_threads >= Cardinality(Counted) + cmds

\* With a command that has a size nothing is lost: the count is exact, but for
\* the commands that wait in the pipe.
CountExact ==
  CommandSize # 0 => live_threads = Cardinality(Counted) + cmds

\* The writer's blocked_count is the number of parked threads whose event it
\* has read; a wakeup it did not make would leave it too high.
BlockedIsParked ==
  \A w \in Threads :
    pc[w] \in Waiting => blocked_count = Cardinality(Parked \ faults)

\* The exclusive guard leaves nothing behind for the next writer: neither an
\* unread fault, which it would count twice, nor an unread command.
NothingPending ==
  \A w \in Threads : pc[w] = "exclusive" => faults = {} /\ cmds = 0

\* The mutex belongs to whoever is in a critical section, and to one at a time:
\* a writer that is about to unlock still keeps readers on the slow path.
LockOwner == \A t \in Threads : pc[t] \in Locked <=> lock = t

\* The page is unmapped exactly while a writer counts faults or owns the data.
PageAbsent ==
  ~lock_page <=> \E w \in Threads : pc[w] \in Waiting \cup {"exclusive"}

\* Fault events come from parked threads, and no thread is left parked on a
\* page that is there.
FaultsParked ==
  /\ faults \subseteq Parked
  /\ lock_page => Parked = {}

\* The inductive invariant.
IInv ==
  /\ TypeOK
  /\ LockOwner
  /\ PageAbsent
  /\ FaultsParked
  /\ CountCovers
  /\ CountExact
  /\ BlockedIsParked
  /\ Exclusion
  /\ NothingPending

\* get_exclusive returns once it has the mutex: "very sure we're going to be
\* here sooner or later".
StopCompletes ==
  \A w \in Writers : pc[w] = "removing" ~> pc[w] = "exclusive"

\* Every thread that parked at a safepoint is woken (if writers follow each
\* other closely it may be parked again before its load succeeds).
ParkedWakes ==
  \A t \in Threads : pc[t] = "parked" ~> pc[t] = "safepoint"

-----------------------------------------------------------------------------

\* The refinement mapping: who owns a guard, who may be inside the data, and
\* who owns the exclusive guard.
guards == {t \in Threads : pc[t] \in Guarded}
running == {t \in Threads : pc[t] = "running"}
writer == IF lock # NoThread /\ pc[lock] = "exclusive" THEN lock ELSE NoThread

STW == INSTANCE StopTheWorld

\* GCSync implements the stop-the-world lock it stands for: what SharedGuard
\* and ExclusiveGuard promise to the collector and the mutators.
ImplementsSTW == STW!Spec

=============================================================================
