# A formal model of UwUGC

UwUGC is a concurrent, moving garbage collector: mutators allocate and change
objects while one thread marks, relocates and copies them into a second space,
page by page and on demand. This directory has TLA+ modules for its parts, TLC
configurations that check them on small instances, and theorems that TLAPS
proves for every value of the constants. Paths below are relative to `src/`;
`PROJECT.json` maps every definition to the lines it models.

To check a configuration: `tlc -config GCSync_intended.cfg MCGCSync` (each
module `MCx` goes with the configurations whose names begin with `x`). To check
proofs: `tlapm GCSyncProofs.tla`, and so on for the other `...Proofs` modules.

## 1. Inventory

### uwugc, the collector

| Component | State | Operations | Talks to |
|---|---|---|---|
| Stop the world, `gc_sync.rs` | a mutex with `live_threads`, a lock page watched by userfaultfd, a pipe of commands, a slow-path flag | `get_shared`, drop of a guard, `safepoint`, `unguarded`, `get_exclusive` and its drop | every mutator, the collector; kernel |
| Cycle controller, `gc_controller.rs` | one mutex with three flags and a count, two condition variables | `start_and_wait_cycle`, `do_looper`, `clear_request`, `run_exclusive`, `shutdown` | mutators (wait), collector (serves), owner (`set_type_manager`, drop) |
| Cycle, `gc.rs`, `state.rs`, `state/context.rs`, `gc/marker.rs` | root sets, two spaces and their page tables, mark bit, registry | flush, steps 1 to 5, `alloc_fast`, `alloc_slow`, marking | all of the others |
| Page tables, `mm/` | base pages, flex pages of three kinds, buffer page per table and per context | `alloc`, `alloc_page`, `resolve_to_page`, `donate_page`, `clear` | mutators allocate, marker allocates to-space, copier resolves faults |
| Relocation registry, `gc/relocation_map.rs` | two vectors of records | `insert`, `freeze`, range searches, `map_src_to_dest`, `unfreeze` | marker inserts; copier and step 3 search |
| Copier, `gc/copier.rs`, `bitmap.rs` | bits of pages done, two thread pools, a pipe, userfaultfd on to-space | `start`, `resolve_fault`, `do_relocate`, `do_zeropage`, `finish` | mutators that touch a missing page; kernel |
| Others | `pipe.rs`, `mmap.rs`, `quirks/`, `profiler.rs`, `object/`, `root_set.rs`, `type_manager.rs` | wrappers, one-word packing, interfaces | |

### uwugc-plus and uwugc-plus-alloc, the typed front end

| Component | State | Operations |
|---|---|---|
| Root references, `context.rs`, `typed_root_ref.rs`, `safepoint.rs` | per thread: slots, used map, counts of references and of stored ones | create, `store`, `load`, drop, `safepoint`, the collector's `map_pointers` |
| Types, `types.rs`, `lib.rs` | map of dynamic types, an id counter | `register`, `get_type`, sizes, `alloc`, `alloc_array`, `assume_all_dead`, `wipe_deads`, visiting and updating pointers |
| Descriptors, `descriptor.rs`, `types/pointer_iterator.rs`, `has_descriptor.rs`, derive macro | none, an iterator's stack | pointer offsets of nested and array types |
| Boxes, arrays, `Vec` | one word per box; a backing array and a length | load, store; growth with safepoints in the copy |

### Where it is hard

* **Interleaving.** Threads register, leave and park while a writer counts
  them from two event sources (`gc_sync.rs:112`). Mutators allocate, load and
  store while the marker reads the same fields without a barrier
  (`marker.rs:87`). Workers, fault handlers and partial moves meet on one page
  (`copier.rs:111`).
* **Stale state.** A page cached by a context outlives its page table
  (`state.rs:162`); what is allocated after step 1 read `used_end_page` has to
  be carried over (`gc.rs:118`); `clear_request` erases requests it may not
  have served.
* **Ordering.** The registry is searched by destination, in the order of
  marking (`relocation_map.rs:107`); the fault loop is told to leave when jobs
  are spawned, not done (`copier.rs:248`).
* **Liveness.** A writer that waits for a thread which has left, an owner that
  joins a thread which sleeps, a mutator that waits for a cycle.
* **Failure.** Panics half way through step 3, in a copier's job, in `load`, or
  in the growth of a vector.
* **Agreement.** `alloc_array`, `get_dynamic_size`, the iterators and the derive
  macro compute the same layout four times (`types.rs:182`, `descriptor.rs:105`).

`PROJECT.json` has the whole list under `hazards`, each with the properties
that watch it, or with the reason why none does yet.

### What makes each part correct

* GCSync: while a writer has the data nobody else is in it; every stop
  completes; nothing of one stop leaks into the next; parked threads wake.
* Controller: no request is lost, no wakeup missed, every waiter returns;
  `run_exclusive` excludes cycles; a shutdown ends the thread.
* Cycle: the heap that mutators see does not change because objects move;
  exactly the live objects move; no pointer is left on memory given back.
* Pages and registry: places do not overlap; addresses resolve; every record
  is found by both searches.
* Copier: each page is filled once, before anybody reads it; nobody sleeps on
  a page for good; `finish` returns with every page in place.
* Root references: where objects may move no reference holds an address.
* Types and layouts: the offsets the collector visits are where the pointers
  are, and the size it computes is the size that was allocated; so a cycle
  leaves every value as the program built it.
* Vector: what was inserted stays, in order, also when a growth panics half
  way; no cycle runs while the vector is borrowed.

## 2. Modules

| Module | Models | How it corresponds |
|---|---|---|
| `StopTheWorld` | the promise of `gc_sync.rs` | readers that are out, in or paused; a writer that acquires when none is in |
| `GCSync` | `gc_sync.rs`, `pipe.rs` | one action per stretch of code between points where another thread can act; page faults as a set of parked threads with an unread event; `CommandSize` is `size_of::<Command>()` |
| `GCController` | `gc_controller.rs` | one action per critical section; the mutex is explicit only where `run_exclusive` holds it across a call |
| `AbstractHeap` | what mutators may rely on | roots and fields as relations over objects that never move and are forgotten only when no root reaches them |
| `Collector` | `gc.rs`, `marker.rs`, `state.rs`, `state/context.rs` | a stop of the world is one action (that is what `StopTheWorld` promises); marking, copying and mutators interleave; objects have an identity that only the properties look at |
| `RootRefs` | `uwugc-plus/src/context.rs` | one action per method; a panicking call leaves what it had changed; `object` and `place` are auxiliary |
| `GcVec` | `vec.rs`, `zero_or_init.rs` | a client of `RootRefs`: one action per element copied, per reference stored for a safepoint, per panic; unwinding is an action |
| `Layout` | `descriptor.rs`, `pointer_iterator.rs`, `has_descriptor.rs`, the derive macro, sizes of `types.rs` | functions: descriptors, the stack machine that flattens them as a recursion over its states, and the definition of where the pointers are that it is held against |
| `Types` | `types.rs`, `type_manager.rs`, `lib.rs`, `gcbox.rs` | objects of several layouts in a memory of words; a cycle is `StartCycle`, one `MarkObject` for each object found, in any order, and `Move`, taken while the one thread waits |
| `Values` | what a program believes of its values | each root denotes a tree; a box is filled by giving up a root |
| `PageTable`, `RelocationMap` | `mm/`, `relocation_map.rs` | pure operators: allocation as functions of a page table, the standard library's binary search as a recursive function over windows, the stable sort of `freeze` |
| `Evacuation` | marker, registry and copier over objects of different sizes | extends the two: mutators fill from-space, the marker gives places in every order, the copier takes what the registry finds for a page |
| `Copier` | `copier.rs`, `bitmap.rs` | faults, jobs, bits, partial moves and the stages of `finish`, for any page table |

The `MC...` modules name the model values of the runs. Operators marked
`(mutant)` are wrong variants of the definition that follows them; substituted
for it they break a property, which shows that the property depends on it. They
are not part of any specification.

How the parts fit: `Collector` takes from `GCSync` that a stop is atomic, from
`GCController` that a request is served, from `RootRefs` that all pointers of a
stopped mutator are in its slots, from `Evacuation` the placing of objects (its
own objects have one size), from `Types` that fields are found and objects copied
whole, and from `Copier` that a page appears at once, and
once. `Copier` takes from `Evacuation` (`PagesResolve`) that `resolve_to_page`
finds flex pages. `GcVec` is composed with
`RootRefs` in one specification, and proved to implement it. The other contracts
are stated in the modules' headers.

## 3. Runs

| Run | Instance | Shows |
|---|---|---|
| `gcsync_intended` | 4 threads, 2 of them writers, a command with a size | the inductive invariant, exclusion, exact counts, nothing pending after a stop, every stop completes, parked threads wake, and `StopTheWorld` is implemented |
| `gcsync_lost` | 3 threads, `CommandSize` 0 as in the source | **violation**: a stop never completes |
| `controller_cycles` | 3 mutators, 3 cycles | the inductive invariant, requests served, no missed wakeup, exclusion of cycles, shutdown during a cycle |
| `controller_owner` | same | **violation**: the owner's `drop` or `run_exclusive` never returns |
| `collector_cycles` | 2 mutators, with 2 slots and 1, objects of 1 field, 2 pages, 1 requested cycle | no dangling pointer, uniform mark bits, sound records, exactly the live objects move when nobody interferes, the tri-colour invariant, `AbstractHeap` implemented, waits end, and a cycle all wait for ends without a panic |
| `collector_page` | 2 mutators, 1 page | **violation**: a stale local page is used |
| `gcvec` | a vector and up to 2 more references, 4 objects, 4 addresses, 2 elements, `MaxData` 2, 1 panic of `load` | the inductive invariant of the references, and of the vector: contents, nothing leaks, no safepoint inside a call |
| `types` | 4 layouts, arrays of up to 2, 2 roots, 72 bytes a space, 2 cycles, with and without extra bytes | `Values` implemented; only extra bytes can stop a cycle |
| `types_nested` | a struct nested at an offset | **violation**: its pointers are looked for elsewhere |
| `evacuation_mixed` | 4 pages of 4 units, 5 sizes of 3 kinds, up to 4 objects, 2 contexts | places do not overlap, pages resolve, sources map, a heap of one kind moves completely |
| `evacuation_unsorted` | same, 1 context | **violation**: records of a page are not found |
| `copier` | 2 faulting mutators, 3 base pages, every layout | pages placed once, no zeros for objects, `finish` complete, sleepers known, `finish` returns and wakes all |

### Why the bounds are enough

GCSync needs a reader in each of the states in, leaving and arriving beside a
writer, and a second writer that finds what the first left; four threads give
that. The controller's interesting cases need one waiter of the running cycle,
one of the next and one late; there are three mutators and three cycles. In the
collector one field and two slots make chains, cycles of objects, hidden
objects (load, clear, store) and garbage; two pages make a stale page, a full
heap and donation. One cycle is requested while none runs, and a second one
while the first runs. Four objects and four pages are the
smallest instance in which small pages interleave with medium and huge ones,
and in which the packing of to-space can fail. Three base pages give the copier
a flex page of several base pages beside another or a zero page. A vector grows
from nothing to one element, to two, and fails to grow to four: later growths
take the same steps, and `Period`, 512 in the code, decides only that the first
element is copied without a safepoint. In 72 bytes there is room for a
chain of three structs, and for an array of two structs one of which holds a third:
structs in arrays and arrays in structs, with a root beside them. Layouts nest in
every way but the one of `types_nested`.

Bounds are named constants: `MaxLive`, `PipeCapacity`, `MaxCycles`,
`MaxTries`, `MaxPanics`, `MaxObjects`, `MaxData`, `MaxIds`, `MaxDepth`, `Space`. `SlotsOf`
gives each context of `Collector` the slots it uses, so that instances need not be
symmetric. `MaxTries` is 3 in the code and 1 in the run. `MaxCycles` only stops requests; a cycle that runs
ends.

### Deadlock

TLC checks for deadlock in `gcsync_intended` and `gcvec`. The other systems
may stop: the owner drops the `UwUGC`, a bound is reached, a panic ends the
behaviour, or the evacuation is over.

### Fairness

* GCSync: weak fairness of the steps a running thread must take. `Proceed`
  includes that a thread in the data reaches a safepoint or drops its guard:
  that is the client's obligation, without which no stop of the world can end.
* GCController: the collector's thread, woken mutators and an owner that has
  begun an operation keep going. Nobody has to request, shut down or run
  exclusively.
* Collector: the collector's steps; nothing of the mutators.
* Copier: the pools run their jobs, the kernel places what it is given,
  `finish` goes on. Not the reading of faults: poll may always find the pipe.

## 4. Proofs

All are for every value of the constants that satisfies the named `ASSUME`s.

* `GCSyncProofs` (any finite set of threads and writers, any pipe capacity,
  any `CommandSize`, so the source's 0 as well): exclusion alone is not
  inductive. A writer is alone because its count of faults reached
  `live_threads`; `IInv` therefore says who is counted (`CountCovers`), that
  the writer's count is the number of parked threads whose event it has read
  (`BlockedIsParked`), and who owns the mutex and the lock page. One lemma per
  part, one step per action. `Refinement` proves that `GCSync` implements
  `StopTheWorld`.
* `GCControllerProofs`: the invariant ties `is_running` to where the looper is
  and each sleeper to the condition it sleeps on. From it, no request is lost,
  no wakeup is missed and cycles are kept off while `run_exclusive` runs.
* `RootRefsProofs` (both kinds of build): a safepoint compares two counters;
  the invariant says that the counter of existing references never falls below
  the references, and that of stored ones never exceeds them, also after a
  caught panic in `load`. So equal counters mean that every reference is
  stored. Slots have one owner, references keep denoting their object, and
  until a call panics no slot leaks.
* `GcVecProofs` extends it: whatever a vector does to references is a step of
  `RootRefs`, so `VecImplementsRoots` gives all of the above to programs with
  vectors. During a call the vector's own reference is loaded and in no list
  that is stored (`SelfLoaded`); by `SafepointSafe` the counters then differ, and
  `SelfStaysFresh` concludes that no cycle runs inside a call.
  `NothingIsLost` adds `Contents`. That is inductive only together with `Held`
  (there is no log without a vector) and `Growing`: while a call grows the
  vector, the new backing is another object, longer than the old one, and equal
  to it as far as the copy has come, whichever safepoint then panics.
* `CopierProofs` (any mutators, pages and page table): the invariant says that
  a bit of `work_done` is set exactly when the page is in place or a job has
  it to place. From it, pages are placed once, no page of objects is ever
  zeros, `finish` is complete, and nobody who sleeps is forgotten.
* `CollectorProofs` (any mutators, slots, fields, pages, tries and cycles). None
  of the properties of a cycle is inductive. `NoDangling` says where pointers
  lead now; that they still do after step 3 and after each copied page depends
  on where records lead from and to in each phase (`Phases`, `Recorded`), on
  nothing being where a page has not given memory out (`Below`, so that a new
  object can take no recorded place), and on which pages have still to be
  copied (`Copies`: a record's place is filled or its page is not done).
  `MarkUniform` needs in addition that the originals of records are marked.
  `Tracing` is `TriColour` for the roots as well, and its converse: what is
  marked or on the stack lies in every set closed under references. When both
  are empty the records are therefore closed and least, which is `LiveExactly`;
  no induction over paths is needed. `Requests` bounds the cycles.
* `MovingIsInvisible`, in the same module, proves that `Collector` implements
  `AbstractHeap`. The refinement maps pointers to identities, so it needs that an
  identity is that of one object and its copy (`Named`) and that the fields
  of garbage lead to objects too (`Known`), since the abstract heap has garbage
  with its edges until step 4 forgets it. Allocation, load, store and drop are
  steps of the abstract heap, step 4 is `Forget`, and every other step, the
  marker's, step 3's and the copying of a page, changes nothing.
* `EvacuationProofs` (any base pages, page size, limits of the kinds, contexts
  and objects). It begins with the registry, for sequences of any length: the
  binary search ends at a record, and if records are in order and do not overlap,
  at the one that contains the address whenever there is one (`SearchFinds`). Then
  `InRange` is what lies in a range that begins with a record (`RangeOrdered`),
  `map_src_to_dest` maps the addresses in records and no others (`MapsOrdered`),
  and the sort of `freeze` orders by source and loses nothing (`SortOrders`).
  `Sound` is the bump invariant of a page table: flex pages lie
  behind each other below `current_base_page`, none is filled beyond its end,
  and the table's buffer is one of them. Together with types, `ObjectsPlaced`,
  what a record is (`Recorded`), and local pages being flex pages, it is
  inductive for both spaces.
  `AddressesResolve` follows from `Sound` (`resolve_to_page` walks back to the
  nearest flex page), `SourcesMap` from `ObjectsPlaced` and `SortOrders`.
  For the copier's search by destination, `KInv` adds `Lined`: while all
  objects are of one kind, the page the next one is bumped from is the last, so
  that marking inserts in the order of places. With `Begun` (a flex page begins
  with an object) the search starts where it has to, and with `Moved` (a page
  that is done has what the registry finds for it) `OneKindEvacuated` and
  `OneKindNeverPanics` follow. Without the one kind the search misses
  records: that is `evacuation_unsorted`.

* `TypesProofs` (any types, slots, lengths, extra bytes, sizes of a space and
  cycles). First the iterators: `IteratorsAgree` says that the stack machine of
  `descriptor.rs` returns the offsets of a type's pointers, each once. The machine
  is followed through a whole descriptor at any place of its stack
  (`Drained` against `PointersIn`), by induction on the depth of types, which the
  assumption that no type lies in itself provides. The theorem is about types that
  are `Upright`: the only part with pointers that lies further on in another
  must not itself have such parts, since the machine forgets where it came from. For
  other types it is false, and `types_nested` is the counterexample; `MCTypes`
  evaluates that the types of the run `types` are upright and those of `types_nested`
  are not.
  Then the heap: `HeapOK` says that objects lie apart, below `top`, with the words
  their types ask for, and that boxes are null or lead to objects; during a cycle
  `MarkOK` says that what is on the stack or in the records is a live object, that
  whatever a marked object refers to is one or the other, and that places of
  records lie apart. The new space suffices because records are of distinct
  objects that lie apart in the old one: a count of their bytes (`BytesBound`,
  `BytesAdded`). `Move` then maps every reference once, and the copies are objects
  with the same words (`MovedHeap`). `TypesTypeOK`, `TypesOnlyExtraFails` and
  `TypesVisitsPointers` follow.
* `TypesImplementsValues`, in the same module, proves that `Types` implements
  `Values`: whatever the program builds, of whatever types, no cycle changes it. The
  refinement maps a root to the nodes that paths of boxes lead to, so the proof is
  about paths. `TreeInv` adds to the invariant that everything is referred to at
  most once, by a root or by a box (`Single`: a root that goes into a box is given
  up), and that words that are no pointers keep their contents (`Intact`). Hence an
  object is at the end of one path only (`OnePath`), and the objects of a path are
  distinct, so that the bytes of a space bound its length (`LeadsBound`), which
  is the bound that `ValueAt` has. A write to a box grafts a tree there (`Grafted`,
  `ValueFilled`) and leaves the other trees alone (`OtherKept`), because the object
  that is written is in one tree (`SamePath`). A cycle makes an image of the
  live objects (`MovedImage`), paths lead to the images of what they led to
  (`ImagePaths`), and the values are the same (`ImageValue`). Induction over
  paths is `PathInduction`: a set of paths that is closed under one more step has all.

The invariants of `CollectorProofs`, `GcVecProofs` and `TypesProofs` and the two
of `EvacuationProofs` were checked with TLC on the runs' instances before they were
proved. The arithmetic of cardinalities comes from the library's
`FiniteSetTheorems`.

What the theorems assume, beside sizes being natural numbers: Collector's `Null` is
no pointer (`NullAssumption`), GcVec's no object (`VecAssumption`) and Types' no
address (`TypesAssumption`), as `None` is none of these; a page table's `None` is
neither a page number nor a flex page, the limits of small and medium objects are in order and fit their pages
(`PageAssumption`; `mm/page.rs:66-81` computes them so). `LayoutAssumption` is what
the callers of `Descriptor::new`, which is `unsafe`, promise: fields and parts lie
in their type and beside each other, aligned for pointers (the derive macro and
Rust's own layout see to it), and no type contains itself, as Rust requires of sized
types.

Some definitions are written so that they can be reasoned about. What roots
reach (`ReachableObjects`, `AbstractHeap!Reach`) and the powers of two that a
vector's capacity is chosen from (`PowersOfTwo`) are smallest closed sets rather
than iterations; the binary search recurses over a finite set of windows, and
the sort places each record at its `Rank`; descriptors and the states of the
iterator are the domains of the recursive functions `PointersIn` and `Drained`. A
recursive function over a finite set
has its value by a smallest counterexample: the lemma `Recursion` takes, of the
windows for which the equation fails, one of the least size (`WFMin`,
`NatLessThanWellFounded`), and needs no theorem with an operator parameter.

Only model-checked:

* liveness (fairness and `ENABLED` are beyond the provers): what `gcsync_intended`,
  `controller_cycles`, `collector_cycles` and `copier` check of it;
* that a code property fails: the five violations are behaviours that TLC finds.

## 5. Findings

1. **Lost commands** (`gcsync_lost`). `Command` is zero-sized, so a thread that
   drops its guard while a writer is counting sends nothing; the writer waits
   for it forever. Exclusion is not affected: that is proved.
2. **Deaf looper** (`controller_owner`). `do_looper` tests the shutdown only
   before it waits for a request, and `shutdown` does not make one: `drop`
   joins a thread that sleeps for good.
3. **Wrong condition variable** (`controller_owner` as well). `run_exclusive`
   waits on `condvar`, the end of a cycle notifies `cycle_done_condvar`. TLC ends
   the run with the behaviour of 2; in behaviours in which nobody shuts down it
   finds this one.
4. **Stale local page** (`collector_page`). The flush and step 1 are different
   stops; a mutator that allocates in between keeps its page across the swap.
5. **Unsorted registry** (`evacuation_unsorted`). `freeze` sorts by source
   only. With objects of several kinds the destinations are not in order, the
   binary search misses records, and objects are not copied, or an assertion
   of the copier fails.
6. **Nested structs** (`types_nested`). `PointerIter` forgets the offset of the
   struct it descends from. A box in a struct in a struct is looked for too
   early in the object, unless the inner struct is the first field.

What `gcvec` and its proof say of the vector is not what its code seems to hope
for: the safepoints of a growth never let a cycle run, they panic, because the
vector is borrowed through a loaded reference. A vector therefore cannot grow
beyond two elements, nor at all when the heap is full, and `insert` never
returns its `Err`. The contents survive (`Contents`), but the caller's references
that were in the safepoint argument stay stored. `resize_with` makes room for one
element whatever `len` it is given, and panics at the next power of two. This is
against the intent of `vec.rs:57` ("Maybe cap is too big to copy in one go") and
of `gclatencyexperiment.rs:28`, which asks for a whole window.

`ZeroOrInit::take` says that it makes its source uninitialized
(`zero_or_init.rs:33-34`); the code copies the bytes and leaves the source as it
was, and `GcVec` does as the code does. The vector depends on it: when a safepoint
panics in the middle of a copy the vector keeps its old backing, and `Contents`
holds then because the elements taken so far are still there (the mutant
`CopyElementAway`, which clears them, breaks it).

Also seen in the model, as behaviours that end in a panic: with two mutators
`Collector` reaches the donation of a page (whose address arithmetic,
`mm/page_table.rs:91`, divides only the first of two addresses), a root without
a record (`gc.rs:207`) and a field without one (`copier.rs:162`), the last two
because a mutator hides an object from the marker. `CycleSucceeds` says that a
cycle that begins while all mutators wait reaches none of them. `Evacuation` reaches a to-space that does not
suffice (`marker.rs:74`): marking order can pack worse than allocation order.

## 6. What is simplified, and what is left out

* Memory is sequentially consistent; the fences of `gc_sync.rs` are assumed to
  do their work.
* `ParkedWakes` says that the lock page comes back for a parked thread, not
  that it runs: stops that follow each other closely may park it again.
* A panic ends the behaviour of `Collector` and `Evacuation`. What unwinding
  does (guards dropped half way through step 3 leave some roots mapped, a
  closed userfaultfd turns missing pages into zeros) is not modelled.
* `alloc_slow` makes three tries and waits after each, so the third wait is
  followed by no try; the model has this as it is. A context's entry stays in
  the map of contexts when the context is dropped; new contexts are not
  created during a run of `Collector`.
* `start_and_wait_cycle` may return at the end of a cycle that began before
  the request; the model has this too, and `RequestsServed` asks for no more.
* UFFD_MOVE's underreporting (`quirks/`) is not modelled; partial moves are.
* Tree-shaped values: in `Types` a program fills a box by giving up the root of
  what goes in, as `GCBox::store` does. Sharing and cycles of objects, and
  programs that run during a cycle, are `Collector`'s.
* An id in an object's header is the address of a static descriptor. Registered
  ids (`Types!Register`) have no use: no public call allocates by id, so neither
  the ids' missing tags (`types.rs:71`), nor the offsets of reference arrays
  (`pointer_iterator.rs:79`), nor the missing calls of `set_alive`
  (`types.rs:233`) can be met by a program. `PlainOldData` is not used either.
* `CheckRoots` of `GcVec` ends at a safepoint that is passed, because
  `SelfFresh` shows that there is none.
* Not modelled: the profiler, the raw kernel interfaces, the packing of the
  object header, the experiments of `uwugc-test`.

## 7. Plan

Done: all modules of section 2, and proofs about all of them. What is
left, in the order of what it would add:

1. Theorems: that `Copier` implements an abstract "every page appears once"; that a
   stop of the world in `Collector` and `GcVec` may be one action because
   `StopTheWorld` allows no other; the panics of `Evacuation` on mixed kinds,
   characterised by the order of marking.
2. The donation of pages with its address arithmetic, which today always panics,
   and the registration of contexts, as parts of `Collector`.
3. What unwinding does after a panic of step 3 or of a copier's job.
