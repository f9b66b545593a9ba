----------------------------- MODULE Collector ------------------------------
(***************************************************************************)
(* A collection cycle (uwugc/src/gc.rs, gc/marker.rs) and the mutators     *)
(* that run beside it (uwugc/src/state.rs, state/context.rs), at the level *)
(* of objects: roots, fields, mark bits, the relocation records, the swap  *)
(* of the two spaces, and the page each context allocates from.            *)
(*                                                                         *)
(* A stop of the world is one action: StopTheWorld says no mutator is      *)
(* inside the heap meanwhile, and the contract of safepoint says that then *)
(* every pointer of a mutator is in its root set.  Objects have one size   *)
(* and fill pages of PageObjs; kinds and sizes of pages are PageTable's    *)
(* matter.  A panic ends the model's behaviour; failure says which.        *)
(***************************************************************************)
EXTENDS Naturals, Sequences, FiniteSets

CONSTANTS
  Mutators,   (* threads with a context *)
  Slots,      (* slots of root sets *)
  SlotsOf,    (* those that each context uses *)
  Fields,     (* pointer fields of an object *)
  Null,       (* an empty slot or field *)
  NrPages,    (* pages of each space *)
  PageObjs,   (* objects that fit in a page *)
  MaxTries,   (* tries of alloc_slow: 3 in the code *)
  MaxCycles   (* bound: no cycle is requested after this many *)

ASSUME SizeAssumption ==
  {NrPages, PageObjs, MaxTries} \subseteq Nat \ {0} /\ MaxCycles \in Nat
ASSUME SlotsAssumption == SlotsOf \in [Mutators -> SUBSET Slots]

VARIABLES
  roots,          (* root set of each context *)
  local,          (* local_buffer_page of each context, 0 for None *)
  mpc,            (* what each mutator does *)
  tries,          (* cycles its alloc_slow has waited for *)
  objs,           (* the objects in memory: identity, mark bit, fields *)
  pages,          (* page table of each space: objects placed in each page *)
  mm,             (* which space is SharedState.mm *)
  mark_true_bit,
  requested,      (* the controller's is_requested *)
  gpc,            (* where the collector is *)
  used_end,       (* used_end_page as of step1 *)
  worklist,       (* snapshot of the roots and mark stack *)
  scan,           (* object whose fields are being read, and fields to read *)
  move_page,      (* local_buffer_page of the marker's context *)
  records,        (* relocation records, from source to destination *)
  uncopied,       (* pages of the current space the copier has yet to fill *)
  cycles,         (* finished_count *)
  failure         (* the panic that ended the run, or "none" *)

heapvars == <<objs, pages, mm, mark_true_bit>>
mutvars == <<roots, local, mpc, tries>>
gcvars == <<used_end, worklist, scan, move_page, records, uncopied>>
vars == <<mutvars, heapvars, requested, gpc, gcvars, cycles, failure>>

Pointers == {0, 1} \X (1 .. NrPages) \X (1 .. PageObjs)

\* None is not an address (Option<NonNull>).
ASSUME NullAssumption == Null \notin Pointers

Other == 1 - mm
Empty == [x \in {} |-> Null]

\* The object being scanned and its fields still to be read.
Idle == <<Null, {}>>
Scanning(p, rest) == IF rest = {} THEN Idle ELSE <<p, rest>>

Rooted == {roots[m][s] : m \in Mutators, s \in Slots} \ {Null}

\* Identities name objects in the properties only: one the memory does not hold.
Ids == 1 .. (2 * NrPages * PageObjs + 1)
Fresh == CHOOSE i \in Ids : \A p \in DOMAIN objs : objs[p].id # i

-----------------------------------------------------------------------------
(* mm::Context: bump allocation from a local page.                         *)

\* The local page names a slot of the page table in which there is no page.
Stale(table, page) == page > Len(table)

HasRoom(table, page) == page # 0 /\ table[page] < PageObjs

Fits(table, page) == HasRoom(table, page) \/ Len(table) < NrPages

\* Where the next object goes: the page, and the page table after it.
Page(table, page) == IF HasRoom(table, page) THEN page ELSE Len(table) + 1

Placed(table, page) ==
  IF HasRoom(table, page) THEN [table EXCEPT ![page] = @ + 1] ELSE Append(table, 1)

Address(s, table, page) ==
  LET pg == Page(table, page) IN <<s, pg, Placed(table, page)[pg]>>

-----------------------------------------------------------------------------
(* Mutators.                                                               *)

Init ==
  /\ roots = [m \in Mutators |-> [s \in Slots |-> Null]]
  /\ local = [m \in Mutators |-> 0]
  /\ mpc = [m \in Mutators |-> "run"]
  /\ tries = [m \in Mutators |-> 0]
  /\ objs = Empty
  /\ pages = [s \in {0, 1} |-> <<>>]
  /\ mm = 0
  /\ mark_true_bit = 1
  /\ requested = FALSE
  /\ gpc = "idle"
  /\ used_end = 0
  /\ worklist = {}
  /\ scan = Idle
  /\ move_page = 0
  /\ records = Empty
  /\ uncopied = {}
  /\ cycles = 0
  /\ failure = "none"

\* alloc_slow tries several times, each time before it asks for a cycle.
Allocating(m) ==
  \/ mpc[m] = "run"
  \/ mpc[m] = "slow" /\ tries[m] < MaxTries

\* (mutant) the bit is not negated.
NewObjectUnmarked == [id |-> Fresh, mark |-> mark_true_bit, fields |-> [f \in Fields |-> Null]]

\* init_object.
NewObject == [id |-> Fresh, mark |-> 1 - mark_true_bit, fields |-> [f \in Fields |-> Null]]

\* alloc_fast, or a try of alloc_slow: the object is born with the bit that
\* a running cycle takes for marked.  Its page is filled when it is written to.
Alloc(m, s) ==
  /\ Allocating(m)
  /\ roots[m][s] = Null
  /\ ~Stale(pages[mm], local[m])
  /\ Fits(pages[mm], local[m])
  /\ Page(pages[mm], local[m]) \notin uncopied
  /\ LET p == Address(mm, pages[mm], local[m]) IN
       /\ objs' = [q \in DOMAIN objs \cup {p} |-> IF q = p THEN NewObject ELSE objs[q]]
       /\ roots' = [roots EXCEPT ![m][s] = p]
  /\ local' = [local EXCEPT ![m] = Page(pages[mm], local[m])]
  /\ pages' = [pages EXCEPT ![mm] = Placed(pages[mm], local[m])]
  /\ mpc' = [mpc EXCEPT ![m] = "run"]
  /\ tries' = [tries EXCEPT ![m] = 0]
  /\ UNCHANGED <<mm, mark_true_bit, requested, gpc, gcvars, cycles, failure>>

\* The local page is not in the page table of the current space: a panic.
AllocFromStalePage(m) ==
  /\ Allocating(m)
  /\ Stale(pages[mm], local[m])
  /\ failure' = "page"
  /\ UNCHANGED <<mutvars, heapvars, requested, gpc, gcvars, cycles>>

\* alloc_fast fails and alloc_slow is called.
AllocFails(m) ==
  /\ mpc[m] = "run"
  /\ ~Stale(pages[mm], local[m])
  /\ ~Fits(pages[mm], local[m])
  /\ mpc' = [mpc EXCEPT ![m] = "slow"]
  /\ UNCHANGED <<roots, local, tries, heapvars, requested, gpc, gcvars, cycles, failure>>

\* A try of alloc_slow fails: unguarded, it waits for the end of a cycle.
RequestCycle(m) ==
  /\ mpc[m] = "slow" /\ tries[m] < MaxTries
  /\ ~Stale(pages[mm], local[m])
  /\ ~Fits(pages[mm], local[m])
  /\ cycles < MaxCycles
  /\ mpc' = [mpc EXCEPT ![m] = "wait"]
  /\ tries' = [tries EXCEPT ![m] = @ + 1]
  /\ requested' = TRUE
  /\ UNCHANGED <<roots, local, heapvars, gpc, gcvars, cycles, failure>>

\* After the last cycle alloc_slow returns None.
GiveUp(m) ==
  /\ mpc[m] = "slow" /\ tries[m] = MaxTries
  /\ mpc' = [mpc EXCEPT ![m] = "run"]
  /\ tries' = [tries EXCEPT ![m] = 0]
  /\ UNCHANGED <<roots, local, heapvars, requested, gpc, gcvars, cycles, failure>>

\* An object can be read and written once it is in memory: in to-space the
\* copier holds the access back until it has moved the object's page there.
Accessible(m, s) == mpc[m] = "run" /\ roots[m][s] # Null /\ roots[m][s] \in DOMAIN objs

DropRoot(m, s) ==
  /\ mpc[m] = "run"
  /\ roots[m][s] # Null
  /\ roots' = [roots EXCEPT ![m][s] = Null]
  /\ UNCHANGED <<local, mpc, tries, heapvars, requested, gpc, gcvars, cycles, failure>>

LoadField(m, s, f, r) ==
  /\ Accessible(m, s)
  /\ roots[m][r] = Null
  /\ roots' = [roots EXCEPT ![m][r] = objs[roots[m][s]].fields[f]]
  /\ UNCHANGED <<local, mpc, tries, heapvars, requested, gpc, gcvars, cycles, failure>>

\* There is no write barrier.
StoreField(m, s, f, r) ==
  /\ Accessible(m, s)
  /\ objs' = [objs EXCEPT ![roots[m][s]].fields[f] = roots[m][r]]
  /\ UNCHANGED <<mutvars, pages, mm, mark_true_bit, requested, gpc, gcvars, cycles, failure>>

-----------------------------------------------------------------------------
(* The cycle.                                                              *)

\* The looper takes the request.
StartCycle ==
  /\ gpc = "idle" /\ requested
  /\ requested' = FALSE
  /\ gpc' = "flush"
  /\ UNCHANGED <<mutvars, heapvars, gcvars, cycles, failure>>

\* (mutant) the local pages are kept.
FlushNothing ==
  /\ gpc = "flush"
  /\ local' = local
  /\ gpc' = "step1"
  /\ UNCHANGED <<roots, mpc, tries, heapvars, requested, gcvars, cycles, failure>>

\* Stopped: every context forgets its local page.
Flush ==
  /\ gpc = "flush"
  /\ local' = [m \in Mutators |-> 0]
  /\ gpc' = "step1"
  /\ UNCHANGED <<roots, mpc, tries, heapvars, requested, gcvars, cycles, failure>>

\* (mutant) the meaning of the bit stays.
Step1NoFlip ==
  /\ gpc = "step1"
  /\ mark_true_bit' = mark_true_bit
  /\ worklist' = Rooted
  /\ requested' = FALSE
  /\ used_end' = Len(pages[mm])
  /\ pages' = [pages EXCEPT ![Other] = <<>>]
  /\ move_page' = 0
  /\ gpc' = "mark"
  /\ UNCHANGED <<mutvars, objs, mm, scan, records, uncopied, cycles, failure>>

\* (mutant) empty slots are pushed too.
Step1RawRoots ==
  /\ gpc = "step1"
  /\ mark_true_bit' = 1 - mark_true_bit
  /\ worklist' = {roots[m][s] : m \in Mutators, s \in Slots}
  /\ requested' = FALSE
  /\ used_end' = Len(pages[mm])
  /\ pages' = [pages EXCEPT ![Other] = <<>>]
  /\ move_page' = 0
  /\ gpc' = "mark"
  /\ UNCHANGED <<mutvars, objs, mm, scan, records, uncopied, cycles, failure>>

\* Stopped: the snapshot of the roots, and the meaning of the mark bit flips.
\* The marker starts with an empty page table of to-space, which nobody else has.
Step1 ==
  /\ gpc = "step1"
  /\ mark_true_bit' = 1 - mark_true_bit
  /\ worklist' = Rooted
  /\ requested' = FALSE
  /\ used_end' = Len(pages[mm])
  /\ pages' = [pages EXCEPT ![Other] = <<>>]
  /\ move_page' = 0
  /\ gpc' = "mark"
  /\ UNCHANGED <<mutvars, objs, mm, scan, records, uncopied, cycles, failure>>

\* The bit the marker sets, and new objects have.
Marked == 1 - mark_true_bit

\* (mutant) the fields of the object are not pushed.
MarkNoScan(p) ==
  /\ gpc = "mark" /\ scan = Idle
  /\ p \in worklist
  /\ objs[p].mark # Marked
  /\ Fits(pages[Other], move_page)
  /\ worklist' = worklist \ {p}
  /\ objs' = [objs EXCEPT ![p].mark = Marked]
  /\ records' = [q \in DOMAIN records \cup {p} |->
       IF q = p THEN Address(Other, pages[Other], move_page) ELSE records[q]]
  /\ move_page' = Page(pages[Other], move_page)
  /\ pages' = [pages EXCEPT ![Other] = Placed(pages[Other], move_page)]
  /\ scan' = Idle
  /\ UNCHANGED <<mutvars, mm, mark_true_bit, requested, gpc, used_end, uncopied, cycles, failure>>

\* The marker takes an object off its stack for the first time: it gets its
\* mark and its place in to-space.
MarkObject(p) ==
  /\ gpc = "mark" /\ scan = Idle
  /\ p \in worklist
  /\ objs[p].mark # Marked
  /\ Fits(pages[Other], move_page)
  /\ worklist' = worklist \ {p}
  /\ objs' = [objs EXCEPT ![p].mark = Marked]
  /\ records' = [q \in DOMAIN records \cup {p} |->
       IF q = p THEN Address(Other, pages[Other], move_page) ELSE records[q]]
  /\ move_page' = Page(pages[Other], move_page)
  /\ pages' = [pages EXCEPT ![Other] = Placed(pages[Other], move_page)]
  /\ scan' = Scanning(p, Fields)
  /\ UNCHANGED <<mutvars, mm, mark_true_bit, requested, gpc, used_end, uncopied, cycles, failure>>

SkipMarked(p) ==
  /\ gpc = "mark" /\ scan = Idle
  /\ p \in worklist
  /\ objs[p].mark = Marked
  /\ worklist' = worklist \ {p}
  /\ UNCHANGED <<mutvars, heapvars, requested, gpc, used_end, scan, move_page, records, uncopied,
                 cycles, failure>>

\* One field of the object just marked is read and pushed.
ScanField(f) ==
  /\ gpc = "mark" /\ f \in scan[2]
  /\ worklist' = worklist \cup ({objs[scan[1]].fields[f]} \ {Null})
  /\ scan' = Scanning(scan[1], scan[2] \ {f})
  /\ UNCHANGED <<mutvars, heapvars, requested, gpc, used_end, move_page, records, uncopied,
                 cycles, failure>>

\* start returns when every root's objects are marked (gc.rs, step2).
MarkDone ==
  /\ gpc = "mark" /\ scan = Idle /\ worklist = {}
  /\ gpc' = "step3"
  /\ move_page' = 0
  /\ UNCHANGED <<mutvars, heapvars, requested, used_end, worklist, scan, records, uncopied, cycles,
                 failure>>

\* What step 3 panics on: donate_page on any page, then a root without record.
Step3Failure ==
  IF Len(pages[mm]) > used_end THEN "donation"
  ELSE IF Rooted \subseteq DOMAIN records THEN "none" ELSE "root"

Mapped(p) == IF p = Null THEN Null ELSE records[p]

\* (mutant) the new space starts with an empty page table.
Step3NewTable ==
  /\ gpc = "step3"
  /\ Step3Failure = "none"
  /\ roots' = [m \in Mutators |-> [s \in Slots |-> Mapped(roots[m][s])]]
  /\ mm' = Other
  /\ pages' = [pages EXCEPT ![Other] = <<>>]
  /\ uncopied' = DOMAIN pages[Other]
  /\ used_end' = 0
  /\ gpc' = "copy"
  /\ UNCHANGED <<local, mpc, tries, objs, mark_true_bit, requested, worklist, scan, move_page,
                 records, cycles, failure>>

\* Stopped: the roots are fixed and the spaces swapped.
Step3 ==
  /\ gpc = "step3"
  /\ Step3Failure = "none"
  /\ roots' = [m \in Mutators |-> [s \in Slots |-> Mapped(roots[m][s])]]
  /\ mm' = Other
  /\ uncopied' = DOMAIN pages[Other]
  /\ used_end' = 0
  /\ gpc' = "copy"
  /\ UNCHANGED <<local, mpc, tries, objs, pages, mark_true_bit, requested, worklist, scan, move_page,
                 records, cycles, failure>>

Step3Panics ==
  /\ gpc = "step3"
  /\ Step3Failure # "none"
  /\ failure' = Step3Failure
  /\ UNCHANGED <<mutvars, heapvars, requested, gpc, gcvars, cycles>>

\* The objects with a place in page k of the current space.
Sources(k) == {p \in DOMAIN records : records[p][2] = k}
Pointees(p) == {objs[p].fields[f] : f \in Fields} \ {Null}

\* (mutant) the fields keep their old addresses.
CopiedUnfixed(p) == [objs[p] EXCEPT !.fields = objs[p].fields]

\* (mutant) only the header is copied.
CopiedBlank(p) == [objs[p] EXCEPT !.fields = [f \in Fields |-> Null]]

Copied(p) == [objs[p] EXCEPT !.fields = [f \in Fields |-> Mapped(objs[p].fields[f])]]

\* do_relocate: every object of a page is copied and its fields are fixed,
\* then the page is moved in at once.
CopyPage(k) ==
  /\ gpc = "copy" /\ k \in uncopied
  /\ \A p \in Sources(k) : Pointees(p) \subseteq DOMAIN records
  /\ objs' = [q \in DOMAIN objs \cup {records[p] : p \in Sources(k)} |->
       IF q \in DOMAIN objs THEN objs[q]
       ELSE Copied(CHOOSE p \in Sources(k) : records[p] = q)]
  /\ uncopied' = uncopied \ {k}
  /\ UNCHANGED <<mutvars, pages, mm, mark_true_bit, requested, gpc, used_end, worklist, scan,
                 move_page, records, cycles, failure>>

CopyPagePanics(k) ==
  /\ gpc = "copy" /\ k \in uncopied
  /\ \E p \in Sources(k) : ~(Pointees(p) \subseteq DOMAIN records)
  /\ failure' = "field"
  /\ UNCHANGED <<mutvars, heapvars, requested, gpc, gcvars, cycles>>

\* Every page is filled: unfreeze empties the registry, the memory of
\* from-space is given back.  Its page table stays until the next step 1.
Step4 ==
  /\ gpc = "copy" /\ uncopied = {}
  /\ objs' = [p \in {q \in DOMAIN objs : q[1] = mm} |-> objs[p]]
  /\ records' = Empty
  /\ gpc' = "step5"
  /\ UNCHANGED <<mutvars, pages, mm, mark_true_bit, requested, used_end, worklist, scan, move_page, uncopied,
                 cycles, failure>>

\* (mutant) nobody is told of the end.
Step5NoWake ==
  /\ gpc = "step5"
  /\ gpc' = "idle"
  /\ cycles' = cycles + 1
  /\ UNCHANGED <<mutvars, heapvars, requested, gcvars, failure>>

\* The cycle is over, and everybody who waits for its end goes on.
Step5 ==
  /\ gpc = "step5"
  /\ gpc' = "idle"
  /\ cycles' = cycles + 1
  /\ mpc' = [m \in Mutators |-> IF mpc[m] = "wait" THEN "slow" ELSE mpc[m]]
  /\ UNCHANGED <<roots, local, tries, heapvars, requested, gcvars, failure>>

Running == failure = "none"

MutatorStep ==
  \E m \in Mutators :
    \/ AllocFromStalePage(m) \/ AllocFails(m) \/ RequestCycle(m) \/ GiveUp(m)
    \/ \E s \in SlotsOf[m] :
         \/ Alloc(m, s) \/ DropRoot(m, s)
         \/ \E f \in Fields, r \in SlotsOf[m] : LoadField(m, s, f, r) \/ StoreField(m, s, f, r)

CollectorStep ==
  \/ StartCycle \/ Flush \/ Step1
  \/ \E p \in Pointers : MarkObject(p) \/ SkipMarked(p)
  \/ \E f \in Fields : ScanField(f)
  \/ MarkDone \/ Step3 \/ Step3Panics
  \/ \E k \in 1 .. NrPages : CopyPage(k) \/ CopyPagePanics(k)
  \/ Step4 \/ Step5

Next == Running /\ (MutatorStep \/ CollectorStep)

\* The collector's thread is scheduled, and so are the mutators' stops.
Fairness == WF_vars(Running /\ CollectorStep)

Spec == Init /\ [][Next]_vars /\ Fairness

-----------------------------------------------------------------------------
(* Properties.                                                             *)

Objects == [id : Ids, mark : {0, 1}, fields : [Fields -> Pointers \cup {Null}]]

\* Every variable has its type (gc.rs, state.rs: the fields and locals that hold it).
TypeOK ==
  /\ roots \in [Mutators -> [Slots -> Pointers \cup {Null}]]
  /\ local \in [Mutators -> 0 .. NrPages]
  /\ mpc \in [Mutators -> {"run", "slow", "wait"}]
  /\ tries \in [Mutators -> 0 .. MaxTries]
  /\ DOMAIN objs \subseteq Pointers /\ objs \in [DOMAIN objs -> Objects]
  /\ pages \in [{0, 1} -> Seq(1 .. PageObjs)] /\ \A s \in {0, 1} : Len(pages[s]) <= NrPages
  /\ mm \in {0, 1} /\ mark_true_bit \in {0, 1}
  /\ requested \in BOOLEAN
  /\ gpc \in {"idle", "flush", "step1", "mark", "step3", "copy", "step5"}
  /\ used_end \in 0 .. NrPages /\ move_page \in 0 .. NrPages
  /\ worklist \subseteq Pointers
  /\ scan \in {Idle} \cup (Pointers \X ((SUBSET Fields) \ {{}}))
  /\ DOMAIN records \subseteq Pointers /\ records \in [DOMAIN records -> Pointers]
  /\ uncopied \subseteq 1 .. NrPages
  /\ cycles \in 0 .. MaxCycles + 1
  /\ failure \in {"none", "page", "donation", "root", "field"}

InCurrent == {p \in DOMAIN objs : p[1] = mm}
Destinations == {records[p] : p \in DOMAIN records}

\* Roots and the fields a mutator can read point into the current space, at
\* an object that is there or that the copier has a record for: none is left
\* on from-space when step 4 clears it (gc.rs:199-214, 263; copier.rs:157-171).
NoDangling ==
  \A p \in Rooted \cup UNION {Pointees(q) : q \in InCurrent} :
    p[1] = mm /\ (p \in DOMAIN objs \/ p \in Destinations)

\* Outside marking, every object of the current space has the bit that new
\* objects have: the flip of step 1 makes all of them unmarked, those
\* of the cycles before, those moved and those born meanwhile (gc.rs:90-93,
\* state/context.rs:124).
MarkUniform ==
  gpc \notin {"mark", "step3"} => \A p \in InCurrent : objs[p].mark = Marked

\* The places records reserve in to-space differ, lie below what its pages have
\* handed out, and no mutator that allocates in to-space before the copier is
\* done is given one (marker.rs:73-83, gc.rs:228-238).
RecordsSound ==
  /\ \A p, q \in DOMAIN records : records[p] = records[q] => p = q
  /\ \A d \in Destinations : d[2] <= Len(pages[d[1]]) /\ d[3] <= pages[d[1]][d[2]]
  /\ \A p \in DOMAIN records :
       records[p] \in DOMAIN objs => objs[records[p]].id = objs[p].id

\* What the roots reach through fields: the smallest set that holds the roots
\* and whatever the fields of its members refer to.
Closed(S) == Rooted \subseteq S /\ \A p \in S \cap DOMAIN objs : Pointees(p) \subseteq S

ReachableObjects ==
  LET closed == {S \in SUBSET Pointers : Closed(S)} IN {p \in Pointers : \A S \in closed : p \in S}

\* Every mutator waits, and has waited since step 1: a later request would have
\* set requested again.
Undisturbed == ~requested /\ \A m \in Mutators : mpc[m] = "wait"

\* When every mutator waits while the collector marks, the records are exactly
\* the reachable objects: nothing live is lost and no garbage is
\* moved (marker.rs:43-96).
LiveExactly == gpc = "step3" /\ Undisturbed => DOMAIN records = ReachableObjects

\* While it marks, and as long as every mutator waits, a field of an object
\* already marked is marked too, or will be looked at (marker.rs:54-90).
TriColour ==
  gpc = "mark" /\ Undisturbed => \A p \in DOMAIN records : \A f \in Fields :
    \/ objs[p].fields[f] \in DOMAIN records \cup worklist \cup {Null}
    \/ (scan[1] = p /\ f \in scan[2])

\* A cycle that starts while every mutator waits comes to its end without a panic of
\* step 3 or of the copier, and leaves no mutator a page that the new space does
\* not have (gc.rs:118-122, 207; copier.rs:161; mm/context.rs:43).
CycleSucceeds ==
  gpc = "flush" /\ (\A m \in Mutators : mpc[m] = "wait")
    ~> /\ gpc = "idle" /\ failure = "none"
       /\ \A m \in Mutators : mpc[m] = "slow" /\ ~Stale(pages[mm], local[m])

\* Who waits for a cycle sees its end, everybody at once, or the panic that ends
\* the collector's thread (gc_thread and do_cycle come to an end).
WaitEnds ==
  (\E m \in Mutators : mpc[m] = "wait") ~> ((\A m \in Mutators : mpc[m] # "wait") \/ failure # "none")

\* A context never allocates from a page of a page table that is gone: flushing
\* before the cycle is said to be what prevents it (state.rs:157-161).
NoStalePage == failure # "page"

-----------------------------------------------------------------------------
(* The heap as mutators see it.                                            *)

\* A pointer into to-space may be ahead of the object's copy.
IdOf(p) ==
  IF p \in DOMAIN objs THEN objs[p].id ELSE objs[CHOOSE q \in DOMAIN records : records[q] = p].id

\* Where the objects are: the originals until they have a copy, and the copies.
Places == {p \in DOMAIN objs : p \notin DOMAIN records \/ records[p] \notin DOMAIN objs}

\* What the slots and the fields refer to.
HeapNow ==
  LET used == {x \in Mutators \X Slots : roots[x[1]][x[2]] # Null}
      filled == {x \in Places \X Fields : objs[x[1]].fields[x[2]] # Null}
  IN  [roots |-> {<<x[1], x[2], IdOf(roots[x[1]][x[2]])>> : x \in used},
       edges |-> {<<objs[x[1]].id, x[2], IdOf(objs[x[1]].fields[x[2]])>> : x \in filled}]

Heap == INSTANCE AbstractHeap WITH heap <- HeapNow

\* Moving is invisible: what mutators read and write is a heap of objects that
\* never move and are never lost, at every point of every cycle until a panic
\* (gc.rs, marker.rs, copier.rs: a whole cycle).
ImplementsHeap == Heap!Spec

=============================================================================
