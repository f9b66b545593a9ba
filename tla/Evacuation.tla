----------------------------- MODULE Evacuation -----------------------------
(***************************************************************************)
(* One evacuation of a space whose objects have different sizes: mutators  *)
(* allocate from flex pages of three kinds (uwugc/src/mm), the marker      *)
(* gives every live object, in the order it meets them, a place in         *)
(* to-space (uwugc/src/gc/marker.rs), and the copier fills to-space page   *)
(* by page with what the registry finds (uwugc/src/gc/relocation_map.rs,   *)
(* gc/copier.rs).  PageTable and RelocationMap have the algorithms.        *)
(***************************************************************************)
EXTENDS PageTable, RelocationMap, Functions

CONSTANTS
  Contexts,    (* mutators' allocation contexts *)
  Sizes,       (* sizes objects may have *)
  MaxObjects   (* bound: objects allocated *)

ASSUME EvacuationAssumption == Sizes \subseteq Nat \ {0} /\ MaxObjects \in Nat

VARIABLES
  from, to,    (* the two page tables *)
  local,       (* local page of each context *)
  move_local,  (* local page of the marker's context *)
  objects,     (* objects in from-space: start and size *)
  records,     (* relocation records in the order of their insertion *)
  by_src,      (* the same sorted by source, once frozen *)
  copied,      (* records whose object the copier has moved *)
  work_done,   (* flex pages of to-space the copier has filled *)
  phase

vars == <<from, to, local, move_local, objects, records, by_src, copied, work_done, phase>>

FlexPages(t) == {p \in BasePages : t.pages[p] # None}

Init ==
  /\ from = EmptyTable /\ to = EmptyTable
  /\ local = [c \in Contexts |-> None]
  /\ move_local = None
  /\ objects = {}
  /\ records = NoRecords /\ by_src = NoRecords
  /\ copied = {} /\ work_done = {}
  /\ phase = "mutate"

Alloc(c, size) ==
  /\ phase = "mutate"
  /\ Cardinality(objects) < MaxObjects
  /\ Succeeds(from, local[c], size)
  /\ objects' = objects \cup {[start |-> Address(from, local[c], size), size |-> size]}
  /\ from' = TableAfter(from, local[c], size)
  /\ local' = [local EXCEPT ![c] = LocalAfter(from, @, size)]
  /\ UNCHANGED <<to, move_local, records, by_src, copied, work_done, phase>>

StartMarking ==
  /\ phase = "mutate"
  /\ phase' = "mark"
  /\ UNCHANGED <<from, to, local, move_local, objects, records, by_src, copied, work_done>>

Unmarked == {o \in objects : \A i \in DOMAIN records : records[i].src # o.start}

\* (mutant) to-space is bumped by one, whatever the size.
MarkForgetsSize(o) ==
  /\ phase = "mark"
  /\ o \in Unmarked
  /\ Succeeds(to, move_local, o.size)
  /\ records' = Insert(records, o.start, Address(to, move_local, o.size), o.size)
  /\ to' = TableAfter(to, move_local, 1)
  /\ move_local' = LocalAfter(to, move_local, o.size)
  /\ UNCHANGED <<from, local, objects, by_src, copied, work_done, phase>>

\* The marker meets a live object for the first time.
Mark(o) ==
  /\ phase = "mark"
  /\ o \in Unmarked
  /\ Succeeds(to, move_local, o.size)
  /\ records' = Insert(records, o.start, Address(to, move_local, o.size), o.size)
  /\ to' = TableAfter(to, move_local, o.size)
  /\ move_local' = LocalAfter(to, move_local, o.size)
  /\ UNCHANGED <<from, local, objects, by_src, copied, work_done, phase>>

\* to-space has no room for a live object: the marker panics.
MarkPanics(o) ==
  /\ phase = "mark"
  /\ o \in Unmarked
  /\ ~Succeeds(to, move_local, o.size)
  /\ phase' = "panic"
  /\ UNCHANGED <<from, to, local, move_local, objects, records, by_src, copied, work_done>>

\* (mutant) the records are not sorted at all.
FreezeUnsorted ==
  /\ phase = "mark"
  /\ by_src' = records
  /\ phase' = "copy"
  /\ UNCHANGED <<from, to, local, move_local, objects, records, copied, work_done>>

\* What is unmarked by now is garbage.
Freeze ==
  /\ phase = "mark"
  /\ by_src' = SortedBySrc(records)
  /\ phase' = "copy"
  /\ UNCHANGED <<from, to, local, move_local, objects, records, copied, work_done>>

\* The records do_relocate moves for page p: the second vector of the registry,
\* which is in the order of insertion.
RecordsFor(p) == InRange(records, "dest", Start(p), End(to, p))

Within(p, recs) == \A r \in recs : r.dest >= Start(p) /\ r.dest + r.size <= End(to, p)

Relocate(p) ==
  /\ phase = "copy"
  /\ p \in FlexPages(to) \ work_done
  /\ Within(p, RecordsFor(p))
  /\ copied' = copied \cup RecordsFor(p)
  /\ work_done' = work_done \cup {p}
  /\ UNCHANGED <<from, to, local, move_local, objects, records, by_src, phase>>

\* A record of another page is found: an assertion of do_relocate fails before
\* its buffer is moved into place.
RelocatePanics(p) ==
  /\ phase = "copy"
  /\ p \in FlexPages(to) \ work_done
  /\ ~Within(p, RecordsFor(p))
  /\ work_done' = work_done \cup {p}
  /\ phase' = "panic"
  /\ UNCHANGED <<from, to, local, move_local, objects, records, by_src, copied>>

Next ==
  \/ \E c \in Contexts, size \in Sizes : Alloc(c, size)
  \/ StartMarking
  \/ \E o \in objects : Mark(o) \/ MarkPanics(o)
  \/ Freeze
  \/ \E p \in BasePages : Relocate(p) \/ RelocatePanics(p)

Spec == Init /\ [][Next]_vars

-----------------------------------------------------------------------------
(* Properties.                                                             *)

Extent(start, size) == start .. start + size - 1

\* Every variable has its type.
TypeOK ==
  /\ from \in PageTables /\ to \in PageTables
  /\ local \in [Contexts -> BasePages \cup {None}]
  /\ move_local \in BasePages \cup {None}
  /\ objects \subseteq [start : 0 .. NrPages * PageSize - 1, size : Sizes]
  /\ copied \subseteq Range(records)
  /\ work_done \subseteq BasePages
  /\ phase \in {"mutate", "mark", "copy", "panic"}

\* A set of extents that do not overlap and lie within the used part of a flex
\* page of t each: "No object split between 2 pages" (copier.rs:128-134).
Placed(t, extents) ==
  /\ \A a, b \in extents :
       a # b => Extent(a.start, a.size) \cap Extent(b.start, b.size) = {}
  /\ \A a \in extents : \E p \in FlexPages(t) :
       Start(p) <= a.start /\ a.start + a.size <= Start(p) + t.pages[p].used

\* No two objects overlap and none crosses its flex page, whatever the contexts
\* allocate, and so it is with the places the marker reserves
\* (mm/context.rs, page_table.rs, marker.rs:73-83).
ObjectsPlaced ==
  /\ Placed(from, objects)
  /\ Cardinality({r.dest : r \in Range(records)}) = Len(records)
  /\ Placed(to, {[start |-> r.dest, size |-> r.size] : r \in Range(records)})

\* Flex pages do not overlap, and end where current_base_page says; resolving
\* an address finds its flex page, and nothing for others (page_table.rs:52-87).
Resolves(t) ==
  \A a \in 0 .. NrPages * PageSize - 1 :
    ResolveToPage(t, a) \in
      IF \E p \in FlexPages(t) : Start(p) <= a /\ a < End(t, p)
      THEN {p \in FlexPages(t) : Start(p) <= a /\ a < End(t, p)} ELSE {None}
PagesResolve ==
  /\ Resolves(from) /\ Resolves(to)
  /\ \A t \in {from, to} : \A p, q \in FlexPages(t) : p < q => End(t, p) <= Start(q)
  /\ \A t \in {from, to} : \A p \in FlexPages(t) : End(t, p) <= t.current_base_page * PageSize

\* Once frozen, every address in a live object is mapped to the same place in
\* the moved object, and no other address is mapped: this is what fixes roots
\* and fields (relocation_map.rs:113-124).
MapsSources ==
  phase = "copy" => \A a \in 0 .. NrPages * PageSize - 1 :
    MapSrcToDest(by_src, a) =
      {r.dest + (a - r.src) : r \in {q \in Range(records) : a \in Extent(q.src, q.size)}}

\* The registry gives the copier the records of a page: "Getting record which
\* is intersecting with a given destination range" (relocation_map.rs:8-10).
FindsDestinations ==
  phase = "copy" => \A p \in FlexPages(to) :
    RecordsFor(p) = {r \in Range(records) : Start(p) <= r.dest /\ r.dest < End(to, p)}

\* When the live objects are all small, or all medium, or all huge, the records
\* are inserted in the order of their places, and once the copier has filled
\* every page of to-space it has moved every live object (copier.rs:232-244).
OneKind == \A r, q \in Range(records) :
  Small(r.size) = Small(q.size) /\ Medium(r.size) = Medium(q.size)
EvacuatesOneKind ==
  OneKind /\ phase = "copy" =>
    /\ \A p \in FlexPages(to) : Within(p, RecordsFor(p))
    /\ work_done = FlexPages(to) => copied = Range(records)

=============================================================================
