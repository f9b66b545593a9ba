---------------------------- MODULE CopierProofs ----------------------------
(***************************************************************************)
(* Proofs about Copier, for every number of mutators and pages and every   *)
(* page table: IInv is inductive.                                          *)
(***************************************************************************)
EXTENDS Copier, TLAPS

\* A used page belongs to a flex page, a zero page to itself.
LEMMA LayoutFacts ==
  ASSUME TypeOK
  PROVE  /\ first \in [BasePages -> BasePages]
         /\ \A b \in Used : b \in BasePages /\ first[b] \in FlexPages
         /\ \A b \in BasePages \ Used : first[b] = b
         /\ \A b \in BasePages : first[b] \in BasePages /\ first[first[b]] = first[b]
         /\ \A b \in BasePages : first[b] \in Used <=> b \in Used
         /\ FlexPages \subseteq BasePages
<1>1. first \in [BasePages -> BasePages]
  BY DEF TypeOK, Layouts
<1>2. \A b \in BasePages :
        /\ b \in Nat /\ first[b] \in Nat /\ first[b] <= b
        /\ zero_page_start <= b => first[b] = b
        /\ first[first[b]] = first[b]
  BY <1>1, CopierAssumption DEF TypeOK, Layouts, BasePages
<1>3. zero_page_start \in Nat /\ zero_page_start <= NrPages
  BY CopierAssumption DEF TypeOK
<1>4. \A b \in Used : b \in BasePages
  BY <1>3, CopierAssumption DEF Used, BasePages
<1>5. \A b \in Used : first[b] \in Used
  BY <1>1, <1>2, <1>3, <1>4 DEF Used
<1>6. \A b \in BasePages \ Used : first[b] = b
  BY <1>2, <1>3, CopierAssumption DEF Used, BasePages
<1> QED BY <1>1, <1>2, <1>4, <1>5, <1>6 DEF FlexPages

\* No page is None.
LEMMA NoneMissing ==
  ASSUME TypeOK
  PROVE  None \notin InPlace /\ None \notin BasePages
<1>1. InPlace \subseteq BasePages
  BY DEF TypeOK, InPlace
<1>2. None \notin BasePages
  BY CopierAssumption DEF BasePages
<1> QED BY <1>1, <1>2

\* The initial state satisfies the invariant.
LEMMA InitIInv == Init => IInv
<1> SUFFICES ASSUME Init PROVE IInv
  OBVIOUS
<1>1. TypeOK
  BY DEF Init, TypeOK
<1>2. Claims /\ PlacedOnce /\ ObjectsBeforeZeros /\ InPlace = {}
  BY DEF Init, Claims, PlacedOnce, ObjectsBeforeZeros, InPlace
<1>3. BitsExact /\ SleepsOnMissing
  BY <1>1, <1>2, LayoutFacts DEF Init, BitsExact, SleepsOnMissing
<1>4. FinishStages /\ SleeperKnown
  BY DEF Init, FinishStages, SleeperKnown
<1> QED BY <1>1, <1>2, <1>3, <1>4 DEF IInv

\* What a job does to the bits: whether the page's bit was set or not, it is
\* now, and whoever sleeps on the page is looked after.
LEMMA ClaimStep ==
  ASSUME IInv, NEW pool \in {"worker", "uffd"}, NEW p \in BasePages, first[p] = p,
         Registered,
         Claim(pool, p), UNCHANGED <<layout, moved, zeroed, waiting, events, loop>>
  PROVE  /\ filling' \subseteq [pool : {"worker", "uffd"}, page : BasePages, rest : SUBSET BasePages]
         /\ work_done' \subseteq BasePages
         /\ work_done \cup {p} = work_done'
         /\ filling \subseteq filling'
         /\ \A f \in filling' : f \in filling \/ f.pool = pool
         /\ Claims' /\ BitsExact' /\ PlacedOnce' /\ ObjectsBeforeZeros' /\ SleepsOnMissing'
         /\ \A m \in Mutators : waiting[m] \in Extent(p) =>
              \E f \in filling' : waiting[m] \in f.rest
<1> DEFINE new == [pool |-> pool, page |-> p, rest |-> Extent(p)]
<1>1. /\ TypeOK /\ Claims /\ BitsExact /\ PlacedOnce /\ ObjectsBeforeZeros /\ SleepsOnMissing
  BY DEF IInv
<1>2. work_done' = work_done \cup {p} /\ work_done' \subseteq BasePages
  BY <1>1 DEF Claim, TypeOK
<1>3. /\ p \in work_done => filling' = filling
      /\ p \notin work_done => filling' = filling \cup {new}
  BY DEF Claim
<1>4. Extent(p) \subseteq BasePages /\ p \in Extent(p)
  BY DEF Extent
<1>5. new \in [pool : {"worker", "uffd"}, page : BasePages, rest : SUBSET BasePages]
  BY <1>4
<1>6. /\ Extent(p)' = Extent(p) /\ \A q : Extent(q)' = Extent(q)
      /\ InPlace' = InPlace /\ Registered' /\ Used' = Used /\ first' = first
  BY DEF Extent, BasePages, InPlace, Registered, Used, layout
<1>7. Claims'
  <2> SUFFICES ASSUME NEW f \in filling'
               PROVE  f.page \in work_done' /\ f.rest \subseteq Extent(f.page) /\ f.rest # {}
    BY <1>6 DEF Claims
  <2>1. CASE f \in filling
    BY <2>1, <1>1, <1>2 DEF Claims
  <2>2. CASE f = new
    BY <2>2, <1>2, <1>4
  <2> QED BY <2>1, <2>2, <1>3
<1>8. p \notin work_done => Extent(p) \cap InPlace = {}
  BY <1>1 DEF BitsExact, Extent
<1>9. PlacedOnce'
  <2>1. CASE p \in work_done
    BY <2>1, <1>1, <1>3, <1>6 DEF PlacedOnce
  <2>2. CASE p \notin work_done
    <3>1. \A f \in filling : f.page # p
      BY <2>2, <1>1 DEF Claims
    <3> QED BY <2>2, <3>1, <1>1, <1>3, <1>6, <1>8 DEF PlacedOnce
  <2> QED BY <2>1, <2>2
<1>10. BitsExact'
  <2> SUFFICES ASSUME NEW b \in BasePages
               PROVE  /\ b \in InPlace => first[b] \in work_done'
                      /\ first[b] \in work_done' =>
                           b \in InPlace \/ \E f \in filling' : b \in f.rest
    BY <1>6 DEF BitsExact, BasePages
  <2>1. b \in InPlace => first[b] \in work_done'
    BY <1>1, <1>2 DEF BitsExact
  <2>2. CASE first[b] \in work_done
    BY <2>1, <2>2, <1>1, <1>3 DEF BitsExact
  <2>3. CASE first[b] = p /\ p \notin work_done
    <3>1. b \in new.rest /\ new \in filling'
      BY <2>3, <1>3 DEF Extent
    <3> QED BY <2>1, <3>1
  <2> QED BY <2>1, <2>2, <2>3, <1>2
<1>11. ObjectsBeforeZeros' /\ SleepsOnMissing'
  BY <1>1, <1>6 DEF ObjectsBeforeZeros, SleepsOnMissing
<1>12. ASSUME NEW m \in Mutators, waiting[m] \in Extent(p)
       PROVE  \E f \in filling' : waiting[m] \in f.rest
  <2>1. waiting[m] \in BasePages /\ waiting[m] \notin InPlace /\ first[waiting[m]] = p
    BY <1>1, <1>12 DEF Extent, SleepsOnMissing
  <2> QED BY <2>1, <1>2, <1>6, <1>10 DEF BitsExact, BasePages
<1>13. filling' \subseteq [pool : {"worker", "uffd"}, page : BasePages, rest : SUBSET BasePages]
  BY <1>1, <1>3, <1>5 DEF TypeOK
<1>14. filling \subseteq filling' /\ \A f \in filling' : f \in filling \/ f.pool = pool
  BY <1>3
<1> QED BY <1>2, <1>7, <1>9, <1>10, <1>11, <1>12, <1>13, <1>14

\* A mutator faults.
LEMMA FaultStep ==
  ASSUME IInv, NEW m \in Mutators, NEW b \in BasePages, Fault(m, b)
  PROVE  IInv'
<1> USE DEF Fault, layout, pages, jobs
<1>1. /\ InPlace' = InPlace /\ Registered /\ Registered' /\ Used' = Used
      /\ FlexPages' = FlexPages /\ \A p : Extent(p)' = Extent(p)
      /\ \A pool : PoolIdle(pool)' = PoolIdle(pool)
  BY DEF InPlace, Registered, Used, FlexPages, Extent, PoolIdle, BasePages
<1>2. TypeOK'
  BY <1>1 DEF IInv, TypeOK, BasePages, Layouts, FlexPages, Used
<1>3. Claims' /\ BitsExact' /\ PlacedOnce' /\ ObjectsBeforeZeros' /\ FinishStages'
  BY <1>1 DEF IInv, Claims, BitsExact, PlacedOnce, ObjectsBeforeZeros, FinishStages, BasePages
<1>4. SleepsOnMissing'
  <2>1. \A n \in Mutators : waiting'[n] = IF n = m THEN b ELSE waiting[n]
    BY DEF IInv, TypeOK
  <2>2. b # None /\ b \notin InPlace
    BY NoneMissing DEF IInv
  <2>3. \A n \in events : n \in Mutators /\ waiting[n] # None
    BY DEF IInv, TypeOK, SleepsOnMissing
  <2> QED BY <2>1, <2>2, <2>3, <1>1 DEF IInv, SleepsOnMissing
<1>5. SleeperKnown'
  BY <1>1 DEF IInv, TypeOK, SleeperKnown
<1> QED BY <1>2, <1>3, <1>4, <1>5 DEF IInv

\* The kernel places zeros when to-space is unregistered: every used page is
\* in place by then.
LEMMA TouchUnregisteredStep ==
  ASSUME IInv, NEW m \in Mutators, NEW b \in BasePages, TouchUnregistered(m, b)
  PROVE  IInv'
<1> USE DEF TouchUnregistered, layout, jobs
<1>1. /\ InPlace' = InPlace \cup {b} /\ ~Registered /\ ~Registered' /\ Used' = Used
      /\ FlexPages' = FlexPages /\ \A p : Extent(p)' = Extent(p)
      /\ \A pool : PoolIdle(pool)' = PoolIdle(pool)
  BY DEF InPlace, Registered, Used, FlexPages, Extent, PoolIdle, BasePages
<1>2. filling = {} /\ FlexPages \subseteq work_done
  BY <1>1 DEF IInv, FinishStages, Registered
<1>3. b \notin Used
  <2> SUFFICES ASSUME b \in Used PROVE FALSE
    OBVIOUS
  <2>1. first[b] \in work_done
    BY <1>2, LayoutFacts DEF IInv
  <2> QED BY <2>1, <1>2 DEF IInv, BitsExact
<1>4. TypeOK'
  BY <1>1 DEF IInv, TypeOK, BasePages, Layouts, FlexPages, Used
<1>5. \A n \in Mutators : waiting[n] = None
  BY <1>1 DEF IInv, SleeperKnown
<1>6. None \notin InPlace'
  <2>1. None \notin InPlace
    BY <1>5 DEF IInv, SleepsOnMissing
  <2>2. b # None
    BY CopierAssumption DEF BasePages
  <2> QED BY <1>1, <2>1, <2>2
<1>7. Claims' /\ BitsExact' /\ PlacedOnce' /\ FinishStages'
  BY <1>1, <1>2 DEF IInv, Claims, BitsExact, PlacedOnce, FinishStages, BasePages
<1>8. ObjectsBeforeZeros'
  BY <1>1, <1>3 DEF IInv, ObjectsBeforeZeros
<1>9. SleepsOnMissing'
  BY <1>5, <1>6 DEF IInv, TypeOK, SleepsOnMissing
<1>10. SleeperKnown'
  BY <1>5 DEF SleeperKnown
<1> QED BY <1>4, <1>7, <1>8, <1>9, <1>10 DEF IInv

\* A job of the worker pool runs.
LEMMA EagerJobStep ==
  ASSUME IInv, NEW p \in eager, EagerJob(p)
  PROVE  IInv'
<1> USE DEF EagerJob, layout
<1>1. p \in FlexPages /\ p \in BasePages /\ first[p] = p
  BY LayoutFacts DEF IInv, TypeOK, FlexPages
<1>2. Registered /\ loop # "returned"
  BY DEF IInv, FinishStages, Registered
<1>3. /\ filling' \subseteq [pool : {"worker", "uffd"}, page : BasePages, rest : SUBSET BasePages]
      /\ work_done' \subseteq BasePages
      /\ work_done \cup {p} = work_done'
      /\ filling \subseteq filling'
      /\ \A f \in filling' : f \in filling \/ f.pool = "worker"
      /\ Claims' /\ BitsExact' /\ PlacedOnce' /\ ObjectsBeforeZeros' /\ SleepsOnMissing'
      /\ \A m \in Mutators : waiting[m] \in Extent(p) =>
           \E f \in filling' : waiting[m] \in f.rest
  BY <1>1, <1>2, ClaimStep
<1>4. /\ Used' = Used /\ FlexPages' = FlexPages /\ Registered'
  BY <1>2 DEF Used, FlexPages, Registered
<1>5. TypeOK'
  BY <1>3, <1>4 DEF IInv, TypeOK, BasePages, Layouts, FlexPages, Used
<1>6. FinishStages'
  <2>1. PoolIdle("uffd") => PoolIdle("uffd")'
    BY <1>3 DEF PoolIdle
  <2> QED BY <2>1, <1>2, <1>3, <1>4 DEF IInv, FinishStages
<1>7. SleeperKnown'
  <2> SUFFICES ASSUME NEW m \in Mutators, waiting[m] # None
               PROVE  \/ m \in events
                      \/ <<m, waiting[m]>> \in faults
                      \/ \E f \in filling' : waiting[m] \in f.rest
                      \/ waiting[m] \in Used /\ first[waiting[m]] \in eager'
                      \/ waiting[m] \notin Used /\ loop = "dropped"
    BY <1>4 DEF SleeperKnown
  <2>1. CASE waiting[m] \in Used /\ first[waiting[m]] = p
    <3>1. waiting[m] \in Extent(p)
      BY <2>1, LayoutFacts DEF IInv, Extent
    <3> QED BY <3>1, <1>3
  <2>2. CASE ~(waiting[m] \in Used /\ first[waiting[m]] = p)
    BY <2>2, <1>3 DEF IInv, SleeperKnown
  <2> QED BY <2>1, <2>2
<1> QED BY <1>3, <1>5, <1>6, <1>7 DEF IInv

\* A job of the uffd pool runs.
LEMMA FaultJobStep ==
  ASSUME IInv, NEW job \in faults, FaultJob(job)
  PROVE  IInv'
<1> USE DEF FaultJob, layout
<1> DEFINE p == first[job[2]]
<1>1. job \in Mutators \X BasePages /\ job[2] \in BasePages
  BY DEF IInv, TypeOK
<1>2. p \in BasePages /\ first[p] = p
  BY <1>1, LayoutFacts DEF IInv
<1>3. Registered /\ loop \notin {"dropped", "returned"}
  BY DEF IInv, FinishStages, Registered
<1>4. /\ filling' \subseteq [pool : {"worker", "uffd"}, page : BasePages, rest : SUBSET BasePages]
      /\ work_done' \subseteq BasePages
      /\ work_done \cup {p} = work_done'
      /\ filling \subseteq filling'
      /\ Claims' /\ BitsExact' /\ PlacedOnce' /\ ObjectsBeforeZeros' /\ SleepsOnMissing'
      /\ \A m \in Mutators : waiting[m] \in Extent(p) =>
           \E f \in filling' : waiting[m] \in f.rest
  BY <1>2, <1>3, ClaimStep
<1>5. /\ Used' = Used /\ FlexPages' = FlexPages /\ Registered'
  BY <1>3 DEF Used, FlexPages, Registered
<1>6. TypeOK'
  BY <1>4, <1>5 DEF IInv, TypeOK, BasePages, Layouts, FlexPages, Used
<1>7. FinishStages'
  BY <1>3, <1>4, <1>5 DEF IInv, FinishStages
<1>8. SleeperKnown'
  <2> SUFFICES ASSUME NEW m \in Mutators, waiting[m] # None
               PROVE  \/ m \in events
                      \/ <<m, waiting[m]>> \in faults'
                      \/ \E f \in filling' : waiting[m] \in f.rest
                      \/ waiting[m] \in Used /\ first[waiting[m]] \in eager
                      \/ waiting[m] \notin Used /\ loop = "dropped"
    BY <1>5 DEF SleeperKnown
  <2>1. CASE job = <<m, waiting[m]>>
    <3>1. waiting[m] \in Extent(p)
      BY <2>1, <1>1 DEF Extent
    <3> QED BY <3>1, <1>4
  <2>2. CASE job # <<m, waiting[m]>>
    BY <2>2, <1>4 DEF IInv, SleeperKnown
  <2> QED BY <2>1, <2>2
<1> QED BY <1>4, <1>6, <1>7, <1>8 DEF IInv

\* The kernel places some pages of a job: they were missing, and who sleeps on
\* one of them goes on.
LEMMA FillStep ==
  ASSUME IInv, NEW f \in filling, NEW b \in BasePages, Fill(f, b)
  PROVE  IInv'
<1> USE DEF layout
<1> DEFINE placed == {c \in f.rest : c <= b}
           left == [f EXCEPT !.rest = f.rest \ placed]
<1>1. /\ b \in f.rest
      /\ filling' = (filling \ {f}) \cup {g \in {left} : g.rest # {}}
      /\ moved' = IF f.page \in Used THEN moved \cup placed ELSE moved
      /\ zeroed' = IF f.page \in Used THEN zeroed ELSE zeroed \cup placed
      /\ waiting' = [m \in Mutators |-> IF waiting[m] \in placed THEN None ELSE waiting[m]]
      /\ events' = {m \in events : waiting[m] \notin placed}
      /\ UNCHANGED <<layout, work_done, eager, faults, pipe, loop>>
  BY DEF Fill, Wake, Remainder
<1>2. /\ f \in [pool : {"worker", "uffd"}, page : BasePages, rest : SUBSET BasePages]
      /\ f.page \in BasePages /\ f.rest \subseteq BasePages /\ f.rest \subseteq Extent(f.page)
      /\ f.page \in work_done /\ f.pool \in {"worker", "uffd"}
  BY DEF IInv, TypeOK, Claims
<1>3. /\ left \in [pool : {"worker", "uffd"}, page : BasePages, rest : SUBSET BasePages]
      /\ left.pool = f.pool /\ left.page = f.page /\ left.rest = f.rest \ placed
  BY <1>2
<1>4. /\ InPlace' = InPlace \cup placed /\ Used' = Used /\ FlexPages' = FlexPages
      /\ \A p : Extent(p)' = Extent(p) /\ Registered' = Registered
      /\ placed \subseteq f.rest /\ placed \cap InPlace = {}
  <2>1. InPlace' = InPlace \cup placed
    BY <1>1 DEF InPlace
  <2>2. placed \cap InPlace = {}
    BY DEF IInv, PlacedOnce
  <2> QED BY <2>1, <2>2, <1>1 DEF Used, FlexPages, Extent, Registered, BasePages
<1>5. Registered /\ loop # "returned"
  BY DEF IInv, FinishStages, Registered
<1>6. None \notin placed
  BY <1>2, CopierAssumption DEF BasePages
<1>7. TypeOK'
  <2>1. filling' \subseteq [pool : {"worker", "uffd"}, page : BasePages, rest : SUBSET BasePages]
    BY <1>1, <1>3 DEF IInv, TypeOK
  <2>2. moved' \subseteq BasePages /\ zeroed' \subseteq BasePages
    BY <1>1, <1>2 DEF IInv, TypeOK
  <2>3. waiting' \in [Mutators -> BasePages \cup {None}] /\ events' \subseteq Mutators
    BY <1>1 DEF IInv, TypeOK
  <2> QED BY <2>1, <2>2, <2>3, <1>1, <1>4 DEF IInv, TypeOK, BasePages, Layouts
<1>8. Claims'
  BY <1>1, <1>2, <1>3, <1>4 DEF IInv, Claims
<1>9. PlacedOnce'
  <2>1. \A g \in filling : g # f => g.page # f.page
    BY DEF IInv, PlacedOnce
  <2>2. \A g \in filling : g # f => g.rest \cap placed = {}
    <3> SUFFICES ASSUME NEW g \in filling, g # f, NEW c \in g.rest, c \in placed
                 PROVE  FALSE
      OBVIOUS
    <3>1. first[c] = g.page
      BY DEF IInv, Claims, Extent
    <3>2. first[c] = f.page
      BY <1>2 DEF Extent
    <3> QED BY <3>1, <3>2, <2>1
  <2>3. \A g \in filling' :
          g.rest \cap InPlace = {} /\ g.rest \cap placed = {}
    BY <1>1, <1>3, <2>2 DEF IInv, PlacedOnce
  <2>4. \A g, h \in filling' : g.page = h.page => g = h
    BY <1>1, <1>3, <2>1 DEF IInv, PlacedOnce
  <2> QED BY <2>3, <2>4, <1>4 DEF PlacedOnce
<1>10. \A g \in filling : \A c \in g.rest : c \in placed \/ \E h \in filling' : c \in h.rest
  <2> SUFFICES ASSUME NEW g \in filling, NEW c \in g.rest, c \notin placed
               PROVE  \E h \in filling' : c \in h.rest
    OBVIOUS
  <2>1. CASE g # f
    BY <2>1, <1>1
  <2>2. CASE g = f
    <3>1. c \in left.rest
      BY <2>2, <1>3
    <3>2. left \in filling'
      BY <3>1, <1>1
    <3> QED BY <3>1, <3>2
  <2> QED BY <2>1, <2>2
<1>11. BitsExact'
  <2> SUFFICES ASSUME NEW c \in BasePages
               PROVE  /\ c \in InPlace' => first[c] \in work_done
                      /\ first[c] \in work_done =>
                           c \in InPlace' \/ \E h \in filling' : c \in h.rest
    BY <1>1 DEF BitsExact, BasePages
  <2>1. c \in placed => first[c] \in work_done
    BY <1>2 DEF Extent
  <2>2. c \in InPlace => first[c] \in work_done
    BY <1>5 DEF IInv, BitsExact
  <2>3. ASSUME first[c] \in work_done
        PROVE  c \in InPlace' \/ \E h \in filling' : c \in h.rest
    BY <2>3, <1>4, <1>10 DEF IInv, BitsExact
  <2> QED BY <2>1, <2>2, <2>3, <1>4
<1>12. ObjectsBeforeZeros'
  <2>1. f.page \notin Used => placed \cap Used = {}
    BY <1>2, LayoutFacts DEF IInv, Extent
  <2> QED BY <2>1, <1>1, <1>4 DEF IInv, ObjectsBeforeZeros
<1>13. FinishStages'
  <2>1. \A pool : PoolIdle(pool) => PoolIdle(pool)'
    BY <1>1, <1>3 DEF PoolIdle
  <2> QED BY <2>1, <1>1, <1>4, <1>5 DEF IInv, FinishStages
<1>14. SleepsOnMissing'
  <2>1. None \notin InPlace
    BY NoneMissing DEF IInv
  <2>2. \A m \in events' : waiting'[m] # None
    BY <1>1, <1>6 DEF IInv, TypeOK, SleepsOnMissing
  <2>3. \A m \in Mutators : waiting'[m] \notin InPlace'
    BY <2>1, <1>1, <1>4, <1>6 DEF IInv, SleepsOnMissing
  <2> QED BY <2>2, <2>3 DEF SleepsOnMissing
<1>15. SleeperKnown'
  <2> SUFFICES ASSUME NEW m \in Mutators, waiting'[m] # None
               PROVE  \/ m \in events'
                      \/ <<m, waiting'[m]>> \in faults
                      \/ \E h \in filling' : waiting'[m] \in h.rest
                      \/ waiting'[m] \in Used /\ first[waiting'[m]] \in eager
                      \/ waiting'[m] \notin Used /\ loop = "dropped"
    BY <1>1, <1>4, <1>5 DEF SleeperKnown
  <2>1. waiting'[m] = waiting[m] /\ waiting[m] \notin placed
    BY <1>1
  <2> QED BY <2>1, <1>1, <1>10 DEF IInv, SleeperKnown
<1> QED BY <1>7, <1>8, <1>9, <1>11, <1>12, <1>13, <1>14, <1>15 DEF IInv

\* The steps of finish other than the last: jobs are spawned, faults are read
\* and dropped, the loop is left.
LEMMA LoopStep ==
  ASSUME IInv,
         SpawnEager \/ (\E m \in Mutators : ReadFault(m)) \/ LeaveLoop \/ DropFaults
  PROVE  IInv'
<1> USE DEF SpawnEager, ReadFault, LeaveLoop, DropFaults, layout, pages, jobs
<1>1. /\ Registered /\ Registered' /\ InPlace' = InPlace /\ Used' = Used
      /\ FlexPages' = FlexPages /\ \A p : Extent(p)' = Extent(p)
      /\ \A pool : PoolIdle(pool)' = PoolIdle(pool)
      /\ filling' = filling /\ waiting' = waiting /\ work_done' = work_done
      /\ zeroed' = zeroed /\ first' = first
  <2>1. Registered /\ Registered'
    BY DEF IInv, FinishStages, Registered
  <2> QED BY <2>1 DEF InPlace, Used, FlexPages, Extent, PoolIdle, BasePages
<1>2. TypeOK'
  <2>1. ASSUME NEW m \in Mutators, ReadFault(m)
        PROVE  TypeOK'
    <3>1. waiting[m] \in BasePages
      BY <2>1 DEF IInv, TypeOK, SleepsOnMissing
    <3>2. faults' \subseteq Mutators \X BasePages /\ events' \subseteq Mutators
      BY <2>1, <3>1 DEF IInv, TypeOK
    <3> QED BY <2>1, <3>2, <1>1 DEF IInv, TypeOK, BasePages, Layouts
  <2>2. CASE SpawnEager \/ LeaveLoop \/ DropFaults
    <3>1. eager' \subseteq FlexPages /\ events' \subseteq Mutators
      BY <2>2 DEF IInv, TypeOK
    <3>2. pipe' \in {"silent", "full", "read"} /\ loop' \in {"polling", "left", "dropped", "returned"}
      BY <2>2 DEF IInv, TypeOK
    <3>3. faults' = faults /\ moved' = moved /\ zero_page_start' = zero_page_start
      BY <2>2
    <3> QED BY <3>1, <3>2, <3>3, <1>1 DEF IInv, TypeOK, BasePages, Layouts
  <2> QED BY <2>1, <2>2
<1>3. Claims' /\ BitsExact' /\ PlacedOnce' /\ ObjectsBeforeZeros'
  BY <1>1 DEF IInv, Claims, BitsExact, PlacedOnce, ObjectsBeforeZeros, BasePages
<1>4. SleepsOnMissing'
  BY <1>1 DEF IInv, SleepsOnMissing
<1>5. FinishStages'
  BY <1>1 DEF IInv, FinishStages
<1>6. SleeperKnown'
  <2> SUFFICES ASSUME NEW m \in Mutators, waiting[m] # None
               PROVE  \/ m \in events'
                      \/ <<m, waiting[m]>> \in faults'
                      \/ \E h \in filling : waiting[m] \in h.rest
                      \/ waiting[m] \in Used /\ first[waiting[m]] \in eager'
                      \/ waiting[m] \notin Used /\ loop' = "dropped"
    BY <1>1 DEF SleeperKnown
  <2>1. \/ m \in events
        \/ <<m, waiting[m]>> \in faults
        \/ \E h \in filling : waiting[m] \in h.rest
        \/ waiting[m] \in Used /\ first[waiting[m]] \in eager
        \/ waiting[m] \notin Used /\ loop = "dropped"
    BY DEF IInv, SleeperKnown
  <2>2. CASE SpawnEager
    <3>1. waiting[m] \in Used => first[waiting[m]] \in FlexPages
      BY LayoutFacts DEF IInv
    <3> QED BY <2>1, <2>2, <3>1 DEF IInv, FinishStages
  <2>3. CASE \E n \in Mutators : ReadFault(n)
    BY <2>1, <2>3
  <2>4. CASE LeaveLoop
    BY <2>1, <2>4
  <2>5. CASE DropFaults
    <3>1. CASE waiting[m] \notin Used
      BY <3>1, <2>5
    <3>2. CASE waiting[m] \in Used
      <4>1. first[waiting[m]] \in FlexPages /\ waiting[m] \in BasePages
        BY <3>2, LayoutFacts DEF IInv
      <4>2. first[waiting[m]] \in eager \cup work_done
        BY <4>1, <2>5 DEF IInv, FinishStages
      <4>3. waiting[m] \notin InPlace
        BY DEF IInv, SleepsOnMissing
      <4>4. first[waiting[m]] \in work_done => \E h \in filling : waiting[m] \in h.rest
        BY <4>1, <4>3 DEF IInv, BitsExact
      <4> QED BY <3>2, <4>2, <4>4, <2>5
    <3> QED BY <3>1, <3>2
  <2> QED BY <2>2, <2>3, <2>4, <2>5
<1> QED BY <1>2, <1>3, <1>4, <1>5, <1>6 DEF IInv

\* finish returns, and wakes everyone.
LEMMA ReturnStep ==
  ASSUME IInv, Return
  PROVE  IInv'
<1> USE DEF Return, layout, pages, jobs
<1>1. /\ waiting' = [m \in Mutators |-> IF waiting[m] \in BasePages THEN None ELSE waiting[m]]
      /\ events' = {m \in events : waiting[m] \notin BasePages}
  BY DEF Wake
<1>2. \A m \in Mutators : waiting'[m] = None
  BY <1>1 DEF IInv, TypeOK
<1>3. events' = {}
  BY <1>1 DEF IInv, TypeOK, SleepsOnMissing
<1>4. filling = {}
  BY DEF IInv, TypeOK, FinishStages, PoolIdle
<1>5. /\ ~Registered' /\ InPlace' = InPlace /\ Used' = Used
      /\ FlexPages' = FlexPages /\ \A p : Extent(p)' = Extent(p)
  BY DEF Registered, InPlace, Used, FlexPages, Extent, BasePages
<1>6. TypeOK'
  BY <1>1, <1>3, <1>5 DEF IInv, TypeOK, BasePages, Layouts
<1>7. Claims' /\ BitsExact' /\ PlacedOnce' /\ ObjectsBeforeZeros'
  BY <1>4, <1>5 DEF IInv, Claims, BitsExact, PlacedOnce, ObjectsBeforeZeros, BasePages
<1>8. FinishStages'
  BY <1>4, <1>5 DEF IInv, FinishStages, PoolIdle
<1>9. SleepsOnMissing' /\ SleeperKnown'
  BY <1>2, <1>3, <1>5, NoneMissing DEF IInv, SleepsOnMissing, SleeperKnown
<1> QED BY <1>6, <1>7, <1>8, <1>9 DEF IInv

\* A stuttering step.
LEMMA StutterStep == IInv /\ UNCHANGED vars => IInv'
BY DEF vars, layout, pages, jobs, IInv, TypeOK, Claims, BitsExact, PlacedOnce,
       ObjectsBeforeZeros, FinishStages, SleepsOnMissing, SleeperKnown, Registered,
       InPlace, Used, FlexPages, Extent, PoolIdle, BasePages, Layouts

\* The invariant holds in every state of the copier, for any number of
\* mutators and pages and any page table.
THEOREM Invariance == Spec => []IInv
<1>1. IInv /\ [Next]_vars => IInv'
  BY FaultStep, TouchUnregisteredStep, EagerJobStep, FaultJobStep, FillStep, LoopStep,
     ReturnStep, StutterStep
  DEF Next, Touch, RunJob, Place, Finish
<1> QED BY InitIInv, <1>1, PTL DEF Spec

\* No page is given to the kernel twice: do_relocate and do_zeropage never meet
\* a page that is in place (copier.rs:111, 98).
THEOREM PagesPlacedOnce == Spec => []PlacedOnce
BY Invariance, PTL DEF IInv

\* Nobody reads zeros where objects belong, also after finish has returned.
THEOREM NoZerosForObjects == Spec => []ObjectsBeforeZeros
BY Invariance, PTL DEF IInv

\* Who sleeps on a page is looked after (copier.rs:252-294).
THEOREM SleepersKnown == Spec => []SleeperKnown
BY Invariance, PTL DEF IInv

\* When finish returns the used pages are all in place.
THEOREM FinishComplete == Spec => []ReturnsComplete
<1>1. IInv => ReturnsComplete
  <2> SUFFICES ASSUME IInv, loop = "returned", NEW b \in Used
               PROVE  b \in moved
    BY DEF ReturnsComplete
  <2>1. first[b] \in FlexPages /\ b \in BasePages
    BY LayoutFacts DEF IInv
  <2>2. first[b] \in work_done /\ filling = {}
    BY <2>1 DEF IInv, FinishStages
  <2>3. b \in InPlace
    BY <2>1, <2>2 DEF IInv, BitsExact
  <2> QED BY <2>3 DEF IInv, ObjectsBeforeZeros, InPlace
<1> QED BY Invariance, <1>1, PTL

=============================================================================
