------------------------------- MODULE Copier -------------------------------
(***************************************************************************)
(* The copier at work (uwugc/src/gc/copier.rs): the pages of to-space are  *)
(* missing until someone touches them or the copier comes to them.  A      *)
(* mutator that touches a missing page sleeps in the kernel until the page *)
(* is filled; the fault loop hands its event to a job of one pool, while a *)
(* second pool has a job for every flex page.  Whoever sets the bit of a   *)
(* page in work_done fills it.                                             *)
(*                                                                         *)
(* What a page is filled with is in Collector and Evacuation; here it is   *)
(* either moved objects or zeros.  Pages are base pages.                   *)
(***************************************************************************)
EXTENDS Naturals, FiniteSets

CONSTANTS
  Mutators,
  NrPages,   (* base pages of to-space *)
  None

ASSUME CopierAssumption == NrPages \in Nat /\ None \notin Nat

VARIABLES
  zero_page_start,  (* base pages from here on are zero pages *)
  first,            (* first page of the flex page of each page, else the page itself *)
  work_done,        (* bits set: first page of a flex page, or a zero page *)
  moved, zeroed,    (* base pages in place: with objects, with zeros *)
  waiting,          (* the page each mutator sleeps on in the kernel *)
  events,           (* mutators whose fault has not been read *)
  eager, faults,    (* jobs not yet run: flex pages, and pages faulted on *)
  filling,          (* jobs that have set a bit, and the pages they have to place *)
  pipe,             (* whether the eager jobs are spawned: the byte in the pipe *)
  loop              (* where finish is *)

layout == <<zero_page_start, first>>
pages == <<work_done, moved, zeroed>>
jobs == <<eager, faults, filling>>
vars == <<layout, pages, waiting, events, jobs, pipe, loop>>

BasePages == 0 .. NrPages - 1
Used == 0 .. zero_page_start - 1
InPlace == moved \cup zeroed

\* The page table as resolve_to_page reads it: flex pages are intervals of
\* used pages.
Layouts(used_end) ==
  {l \in [BasePages -> BasePages] : \A b \in BasePages :
     /\ l[b] <= b
     /\ used_end <= b => l[b] = b
     /\ \A c \in BasePages : l[b] <= c /\ c <= b => l[c] = l[b]}

\* Flex pages, and the base pages that first[b] stands for in work_done.
FlexPages == {p \in Used : first[p] = p}
Extent(p) == {b \in BasePages : first[b] = p}

\* start: uffd is registered on the whole of to-space, for any page table.
Init ==
  /\ zero_page_start \in 0 .. NrPages
  /\ first \in Layouts(zero_page_start)
  /\ work_done = {} /\ moved = {} /\ zeroed = {}
  /\ waiting = [m \in Mutators |-> None]
  /\ events = {}
  /\ eager = {} /\ faults = {} /\ filling = {}
  /\ pipe = "silent"
  /\ loop = "polling"

-----------------------------------------------------------------------------
(* Mutators and the kernel.                                                *)

Registered == loop # "returned"

\* A touch of a page that is in place changes nothing.
Fault(m, b) ==
  /\ Registered
  /\ waiting[m] = None
  /\ b \notin InPlace
  /\ waiting' = [waiting EXCEPT ![m] = b]
  /\ events' = events \cup {m}
  /\ UNCHANGED <<layout, pages, jobs, pipe, loop>>

\* Without userfaultfd the kernel puts zeros where a page is missing.
TouchUnregistered(m, b) ==
  /\ ~Registered
  /\ b \notin InPlace
  /\ zeroed' = zeroed \cup {b}
  /\ UNCHANGED <<layout, work_done, moved, waiting, events, jobs, pipe, loop>>

\* Those asleep on any of these pages go on, and their events are gone.
Wake(woken) ==
  /\ waiting' = [m \in Mutators |-> IF waiting[m] \in woken THEN None ELSE waiting[m]]
  /\ events' = {m \in events : waiting[m] \notin woken}

-----------------------------------------------------------------------------
(* Jobs: resolve_fault, do_relocate and do_zeropage.                       *)

\* The lock of a flex page, which its do_relocate holds throughout; there is
\* none for a zero page.
Locked(p) == p \in Used /\ \E f \in filling : f.page = p

\* (mutant) the bit is set without a look at what it was.
ClaimAlways(pool, p) ==
  /\ ~Locked(p)
  /\ work_done' = work_done \cup {p}
  /\ filling' = filling \cup {[pool |-> pool, page |-> p, rest |-> Extent(p)]}

\* Who finds the bit set takes the fault for a spurious one.
Claim(pool, p) ==
  /\ ~Locked(p)
  /\ work_done' = work_done \cup {p}
  /\ filling' = filling \cup
       {f \in {[pool |-> pool, page |-> p, rest |-> Extent(p)]} : p \notin work_done}

EagerJob(p) ==
  /\ p \in eager
  /\ eager' = eager \ {p}
  /\ Claim("worker", p)
  /\ UNCHANGED <<layout, moved, zeroed, waiting, events, faults, pipe, loop>>

FaultJob(job) ==
  /\ job \in faults
  /\ faults' = faults \ {job}
  /\ Claim("uffd", first[job[2]])
  /\ UNCHANGED <<layout, moved, zeroed, waiting, events, eager, pipe, loop>>

\* What is left to a job when the kernel has placed some pages from its start.
Remainder(f, placed) ==
  {g \in {[f EXCEPT !.rest = @ \ placed]} : g.rest # {}}

\* uffd.move_memory, which may place a part only and is called again for the
\* rest, or uffd.zeropage.  Both wake who waits for what was placed.
Fill(f, b) ==
  LET placed == {c \in f.rest : c <= b}
  IN  /\ f \in filling
      /\ b \in f.rest
      /\ filling' = (filling \ {f}) \cup Remainder(f, placed)
      /\ moved' = IF f.page \in Used THEN moved \cup placed ELSE moved
      /\ zeroed' = IF f.page \in Used THEN zeroed ELSE zeroed \cup placed
      /\ Wake(placed)
      /\ UNCHANGED <<layout, work_done, eager, faults, pipe, loop>>

-----------------------------------------------------------------------------
(* finish.                                                                 *)

\* (mutant) the fault loop is not told.
SpawnSilently ==
  /\ pipe = "silent"
  /\ eager' = FlexPages
  /\ UNCHANGED <<layout, pages, waiting, events, faults, filling, pipe, loop>>

\* (mutant) a job for every base page, also where no flex page starts.
SpawnAll ==
  /\ pipe = "silent"
  /\ eager' = BasePages
  /\ pipe' = "full"
  /\ UNCHANGED <<layout, pages, waiting, events, faults, filling, loop>>

\* (mutant) the first page is skipped.
SpawnButFirst ==
  /\ pipe = "silent"
  /\ eager' = FlexPages \ {0}
  /\ pipe' = "full"
  /\ UNCHANGED <<layout, pages, waiting, events, faults, filling, loop>>

\* The first job spawns one for each flex page, and then writes to the pipe:
\* "indicates that all pages is relocated".
SpawnEager ==
  /\ pipe = "silent"
  /\ eager' = FlexPages
  /\ pipe' = "full"
  /\ UNCHANGED <<layout, pages, waiting, events, faults, filling, loop>>

ReadFault(m) ==
  /\ loop = "polling"
  /\ m \in events
  /\ events' = events \ {m}
  /\ faults' = faults \cup {<<m, waiting[m]>>}
  /\ UNCHANGED <<layout, pages, waiting, eager, filling, pipe, loop>>

\* (mutant) the faults are dropped as soon as the loop ends.
LeaveAndDrop ==
  /\ loop = "polling"
  /\ pipe = "full"
  /\ pipe' = "read"
  /\ events' = {}
  /\ loop' = "left"
  /\ UNCHANGED <<layout, pages, waiting, jobs>>

LeaveLoop ==
  /\ loop = "polling"
  /\ pipe = "full"
  /\ pipe' = "read"
  /\ loop' = "left"
  /\ UNCHANGED <<layout, pages, waiting, events, jobs>>

PoolIdle(pool) == \A f \in filling : f.pool # pool

\* The scope of the uffd pool ends with its last job; the events of by then
\* are read and dropped: "worker already used all of them up".
DropFaults ==
  /\ loop = "left"
  /\ faults = {} /\ PoolIdle("uffd")
  /\ events' = {}
  /\ loop' = "dropped"
  /\ UNCHANGED <<layout, pages, waiting, jobs, pipe>>

\* (mutant) to-space is unregistered before the scope of the workers ends.
ReturnEarly ==
  /\ loop = "dropped"
  /\ Wake(BasePages)
  /\ loop' = "returned"
  /\ UNCHANGED <<layout, pages, jobs, pipe>>

\* The scope of the workers ends, and to-space is unregistered, which wakes
\* whoever still sleeps.
Return ==
  /\ loop = "dropped"
  /\ eager = {} /\ PoolIdle("worker")
  /\ Wake(BasePages)
  /\ loop' = "returned"
  /\ UNCHANGED <<layout, pages, jobs, pipe>>

-----------------------------------------------------------------------------

Touch == \E m \in Mutators, b \in BasePages : Fault(m, b) \/ TouchUnregistered(m, b)

RunJob ==
  \/ \E p \in eager : EagerJob(p)
  \/ \E job \in faults : FaultJob(job)

Place == \E f \in filling, b \in BasePages : Fill(f, b)

Finish == LeaveLoop \/ DropFaults \/ Return

Next ==
  \/ Touch
  \/ RunJob
  \/ Place
  \/ SpawnEager
  \/ \E m \in Mutators : ReadFault(m)
  \/ Finish

Spec == Init /\ [][Next]_vars

\* The pools run the jobs they have and the kernel places what it is given;
\* nobody has to touch a page, and poll may find the pipe before a fault.
Fairness == WF_vars(RunJob) /\ WF_vars(Place) /\ WF_vars(SpawnEager) /\ WF_vars(Finish)

FairSpec == Spec /\ Fairness

-----------------------------------------------------------------------------
(* Properties.                                                             *)

\* Every variable has its type.
TypeOK ==
  /\ zero_page_start \in 0 .. NrPages
  /\ first \in Layouts(zero_page_start)
  /\ work_done \subseteq BasePages
  /\ moved \subseteq BasePages /\ zeroed \subseteq BasePages
  /\ waiting \in [Mutators -> BasePages \cup {None}]
  /\ events \subseteq Mutators
  /\ eager \subseteq FlexPages
  /\ faults \subseteq Mutators \X BasePages
  /\ filling \subseteq [pool : {"worker", "uffd"}, page : BasePages, rest : SUBSET BasePages]
  /\ pipe \in {"silent", "full", "read"}
  /\ loop \in {"polling", "left", "dropped", "returned"}

\* A page is given to the kernel once only, although a worker, several faults
\* and a partial move may all come to it: UFFD_MOVE and zeropage fail on a
\* page in place, and do_relocate and do_zeropage panic on that failure.
PlacedOnce ==
  \A f \in filling :
    /\ f.rest \cap InPlace = {}
    /\ \A g \in filling : f.page = g.page => f = g

\* Nobody ever reads zeros where objects belong, neither through a fault that
\* the copier answers nor because it stopped answering (copier.rs:292-301).
ObjectsBeforeZeros == zeroed \cap Used = {}

\* When finish returns every used page is in place: from-space and the
\* registry are given up after it.
ReturnsComplete == loop = "returned" => Used \subseteq moved

\* Who sleeps on a page is not forgotten: its fault is unread or has a job, or
\* the page is being placed or is to be by an eager job.  Only when the faults
\* were dropped may a sleeper on a zero page have nobody but the unregistering.
SleeperKnown ==
  \A m \in Mutators : waiting[m] # None =>
    /\ Registered
    /\ \/ m \in events
       \/ <<m, waiting[m]>> \in faults
       \/ \E f \in filling : waiting[m] \in f.rest
       \/ waiting[m] \in Used /\ first[waiting[m]] \in eager
       \/ waiting[m] \notin Used /\ loop = "dropped"

\* The inductive invariant.  Whoever sets a bit has the page to place.
Claims ==
  \A f \in filling :
    f.page \in work_done /\ f.rest \subseteq Extent(f.page) /\ f.rest # {}

\* While the copier is at work a page without its bit is missing, and a page
\* with it is in place or being placed.
BitsExact ==
  \A b \in BasePages :
    /\ Registered /\ b \in InPlace => first[b] \in work_done
    /\ first[b] \in work_done => b \in InPlace \/ \E f \in filling : b \in f.rest

\* Threads sleep on missing pages only, and who has an unread fault sleeps.
SleepsOnMissing ==
  /\ \A m \in Mutators : waiting[m] \notin InPlace
  /\ \A m \in events : waiting[m] # None

\* finish waits for everything it has begun.
FinishStages ==
  /\ pipe # "silent" => FlexPages \subseteq eager \cup work_done
  /\ loop # "polling" => pipe # "silent"
  /\ loop \in {"dropped", "returned"} => faults = {} /\ PoolIdle("uffd")
  /\ loop = "returned" => eager = {} /\ filling = {}

IInv ==
  /\ TypeOK
  /\ Claims
  /\ BitsExact
  /\ PlacedOnce
  /\ ObjectsBeforeZeros
  /\ FinishStages
  /\ SleepsOnMissing
  /\ SleeperKnown

\* finish returns and nobody sleeps on a page for good, although the loop
\* leaves once the jobs are spawned and drops the faults of after that.
FinishReturns == <>[](loop = "returned" /\ \A m \in Mutators : waiting[m] = None)

=============================================================================
