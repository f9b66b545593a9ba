------------------------------- MODULE Types --------------------------------
(***************************************************************************)
(* The types of uwugc-plus at work: a thread allocates objects of several  *)
(* layouts, fills their boxes, and waits while cycles of the collector     *)
(* find the pointers of every object, compute its size, move it and fix    *)
(* its pointers, all by what the type manager says.  The heap is a memory  *)
(* of words; a mistake about a type reads the wrong word.  What happens    *)
(* when threads run during a cycle is Collector's.                         *)
(***************************************************************************)
EXTENDS Layout, FiniteSets, TLC

CONSTANTS
  MaxIds,       (* bound: types registered *)
  NrSlots,      (* slots of the root set *)
  Space,        (* bytes of a space *)
  Lens,         (* lengths of arrays *)
  Extras,       (* extra_bytes of allocations *)
  MaxCycles,    (* bound: cycles of the collector *)
  Null

ASSUME TypesAssumption ==
  /\ StaticTypes \cup Registered \subseteq Descriptors
  /\ {MaxIds, NrSlots, MaxCycles} \cup Lens \cup Extras \subseteq Nat
  /\ Space \in Nat /\ Space % Word = 0 /\ Null \notin Nat

Slots == 1 .. NrSlots

VARIABLES
  mem,            (* the words of both spaces, one behind the other *)
  base,           (* where the current space starts *)
  top,            (* where the next object goes *)
  roots,          (* the address in each slot of the root set *)
  mark_stack,     (* objects the marker has found and not looked at *)
  records,        (* of the cycle that runs: where each live object goes, and its size *)
  latest_id,      (* ids handed out by register *)
  dynamic_types,  (* registered types: marked_dead and descriptor *)
  gpc,            (* "idle", or "mark" while a cycle runs *)
  cycles,         (* cycles started *)
  failure,        (* the panic or the wild access that was reached *)
  extended        (* has anything been allocated with extra_bytes? *)

heapvars == <<mem, base, top, roots>>
typevars == <<latest_id, dynamic_types>>
cyclevars == <<mark_stack, records, gpc, cycles, failure>>
vars == <<heapvars, typevars, cyclevars, extended>>

-----------------------------------------------------------------------------
(* Words *)

Nil == <<"nil">>              (* zero: a null pointer, memory of no object *)
Data == <<"data">>            (* any other bits that are no pointer *)
Ptr(a) == <<"ptr", a>>
Meta(desc) == <<"meta", desc>>  (* the header of an object: its type id, an address of a descriptor *)
Length(n) == <<"len", n>>     (* the header of an array *)

Addresses == {a \in 0 .. 2 * Space - Word : a % Word = 0}

IsObject(m, a) == a \in DOMAIN m /\ m[a][1] = "meta"

-----------------------------------------------------------------------------
\* get_type of an id that is the address of a static descriptor.
TypeAt(m, a) == m[a][2]

\* The length of the array at a, as its header has it.
LenAt(m, a) ==
  IF TypeAt(m, a).is_array /\ m[a + Metadata][1] = "len" THEN m[a + Metadata][2] ELSE 0

\* get_size: the size of an object with its header.
SizeAt(m, a) == DynamicSize(TypeAt(m, a), LenAt(m, a)) + Metadata

\* Where the pointers of the object at a are, by its type.
BoxesOf(m, a) == {a + Metadata + o : o \in PointersOf(TypeAt(m, a), LenAt(m, a))}

\* The addresses of the words that iterating over the object at a visits.
Visits(m, a) ==
  LET offsets == PointerIterator(TypeAt(m, a), LenAt(m, a))
  IN  [i \in DOMAIN offsets |-> a + Metadata + offsets[i]]

\* What is read where a pointer is expected.
WordAt(m, a) == IF a \in DOMAIN m THEN m[a] ELSE Data

\* A word that refers to an object, and the objects that some words refer to.
Refers(m, word) == word[1] = "ptr" /\ IsObject(m, word[2])
Targets(words) == {WordAt(mem, b)[2] : b \in {c \in words : Refers(mem, WordAt(mem, c))}}

-----------------------------------------------------------------------------
Init ==
  /\ mem = [a \in Addresses |-> Nil]
  /\ base = 0 /\ top = 0
  /\ roots = [s \in Slots |-> Null]
  /\ mark_stack = {} /\ records = << >>
  /\ latest_id = 0 /\ dynamic_types = << >>
  /\ gpc = "idle" /\ cycles = 0 /\ failure = "none" /\ extended = FALSE

Running == gpc = "idle" /\ failure = "none"

-----------------------------------------------------------------------------
(* The program *)

\* register: the id is the counter, which get_type would take for an address, for
\* a reference array or for nothing at all three times out of four; uwugc-plus has
\* no call that allocates an object of such a type.
Register(desc) ==
  /\ Running /\ latest_id < MaxIds
  /\ latest_id' = latest_id + 1
  /\ dynamic_types' = [id \in DOMAIN dynamic_types \cup {latest_id} |->
       IF id = latest_id THEN [marked_dead |-> TRUE, descriptor |-> desc] ELSE dynamic_types[id]]
  /\ UNCHANGED <<heapvars, cyclevars, extended>>

\* The words of a new object: boxes are empty and everything else is not zero.
Born(desc, len) ==
  [offset \in {o \in 0 .. DynamicSize(desc, len) + Metadata - 1 : o % Word = 0} |->
     IF offset = 0 THEN Meta(desc)
     ELSE IF desc.is_array /\ offset = Metadata THEN Length(len)
     ELSE IF offset - Metadata \in PointersOf(desc, len) THEN Nil
     ELSE Data]

\* alloc and alloc_array: what is asked of the allocator, with the header.
AllocSize(desc, len, extra) ==
  StaticSize(desc) + (IF desc.is_array THEN desc.size * len ELSE 0) + extra + Metadata

Alloc(s, desc, len, extra) ==
  LET size == AllocSize(desc, len, extra)
      new == Born(desc, len)
  IN  /\ Running /\ roots[s] = Null
      /\ ~desc.is_array => len = 0
      /\ size % 8 = 0                    \* the allocator asserts it
      /\ top + size <= base + Space
      /\ mem' = [a \in Addresses |-> IF a - top \in DOMAIN new THEN new[a - top] ELSE mem[a]]
      /\ top' = top + size
      /\ roots' = [roots EXCEPT ![s] = top]
      /\ extended' = (extended \/ extra # 0)
      /\ UNCHANGED <<base, typevars, cyclevars>>

\* The objects the program can get at from a root: no set that holds what the
\* root and the boxes of its members refer to leaves one of them out.
Below(p) ==
  LET objects == {a \in Addresses : IsObject(mem, a)}
  IN  {a \in objects : \A S \in SUBSET objects :
         p \in S /\ (\A o \in S : Targets(BoxesOf(mem, o)) \subseteq S) => a \in S}

BoxesUnder(s) == UNION {BoxesOf(mem, a) : a \in Below(roots[s])}

\* GCBoxOption::store of a root, which is dropped, and of None.
Store(s, r) ==
  /\ Running /\ roots[s] # Null /\ roots[r] # Null /\ s # r
  /\ \E b \in BoxesUnder(s) : mem' = [mem EXCEPT ![b] = Ptr(roots[r])]
  /\ roots' = [roots EXCEPT ![r] = Null]
  /\ UNCHANGED <<base, top, typevars, cyclevars, extended>>

Clear(s) ==
  /\ Running /\ roots[s] # Null
  /\ \E b \in BoxesUnder(s) : mem[b] # Nil /\ mem' = [mem EXCEPT ![b] = Nil]
  /\ UNCHANGED <<base, top, roots, typevars, cyclevars, extended>>

DropRoot(s) ==
  /\ Running /\ roots[s] # Null
  /\ roots' = [roots EXCEPT ![s] = Null]
  /\ UNCHANGED <<mem, base, top, typevars, cyclevars, extended>>

\* alloc_slow waits for a cycle, whose first step assumes that every dynamic type
\* is dead, takes the roots and begins to fill the other space.
StartCycle ==
  /\ Running /\ cycles < MaxCycles
  /\ cycles' = cycles + 1
  /\ dynamic_types' = [id \in DOMAIN dynamic_types |-> [dynamic_types[id] EXCEPT !.marked_dead = TRUE]]
  /\ mark_stack' = {roots[s] : s \in {r \in Slots : roots[r] # Null}}
  /\ top' = Space - base
  /\ gpc' = "mark"
  /\ UNCHANGED <<mem, base, roots, records, failure, latest_id, extended>>

-----------------------------------------------------------------------------
(* The collector *)

\* Iterating over the object at obj reads a word that is no pointer to an object.
Wild(obj) ==
  \E b \in Range(Visits(mem, obj)) : WordAt(mem, b) # Nil /\ ~Refers(mem, WordAt(mem, b))

\* The marker takes an object: the first time it gets a place in the new space,
\* and what iterating over it visits is pushed.
MarkObject(obj) ==
  LET size == SizeAt(mem, obj)
  IN  /\ gpc = "mark" /\ failure = "none" /\ obj \in mark_stack
      /\ failure' = IF size % 8 # 0 THEN "size" ELSE IF Wild(obj) THEN "wild" ELSE "none"
      /\ IF failure' = "none"
         THEN /\ records' = [p \in DOMAIN records \cup {obj} |->
                              IF p = obj THEN [dest |-> top, size |-> size] ELSE records[p]]
              /\ top' = top + size
              /\ mark_stack' = (mark_stack \cup Targets(Range(Visits(mem, obj)))) \ DOMAIN records'
         ELSE UNCHANGED <<records, top, mark_stack>>
      /\ UNCHANGED <<mem, base, roots, typevars, gpc, cycles, extended>>

\* As many bytes of every object as its record says, in their new place.
Copied ==
  [a \in Addresses |->
     LET from == {p \in DOMAIN records : a - records[p].dest \in 0 .. records[p].size - 1}
     IN  IF from # {} THEN LET p == CHOOSE q \in from : TRUE IN WordAt(mem, p + (a - records[p].dest))
         ELSE mem[a]]

\* The visits of update_gc_pointers to the words of the copies: each by its object
\* and its place in the iteration.
Updates == UNION {{<<p, x>> : x \in DOMAIN Visits(Copied, records[p].dest)} : p \in DOMAIN records}
Updated(u) == Visits(Copied, records[u[1]].dest)[u[2]]

\* A word is mapped when it is null or has a record; that of an update that has
\* been made before has none, it refers to the new space.
HasRecord(word) == \E p \in DOMAIN records : word = Ptr(p)
AllMapped ==
  \A u \in Updates : WordAt(Copied, Updated(u)) # Nil =>
    HasRecord(WordAt(Copied, Updated(u))) /\ \A v \in Updates : Updated(v) = Updated(u) => v = u

\* (mutant) the roots are left on the old space.
RootsKept == roots

MappedRoots == [s \in Slots |-> IF roots[s] = Null THEN Null ELSE records[roots[s]].dest]

\* Steps 3 to 5, when nothing is left to mark: types that are dead are wiped, roots
\* and objects move, and the old space is given back.
Move ==
  LET alive == {id \in DOMAIN dynamic_types : ~dynamic_types[id].marked_dead}
      updated == {Updated(u) : u \in Updates}
  IN  /\ gpc = "mark" /\ mark_stack = {} /\ failure = "none"
      /\ dynamic_types' = [id \in alive |-> dynamic_types[id]]
      /\ roots' = MappedRoots
      /\ mem' = [a \in Addresses |->
                   IF a \in base .. base + Space - 1 THEN Nil
                   ELSE IF a \in updated /\ HasRecord(Copied[a]) THEN Ptr(records[Copied[a][2]].dest)
                   ELSE Copied[a]]
      /\ failure' = IF AllMapped THEN "none" ELSE "record"
      /\ base' = Space - base
      /\ records' = << >>
      /\ gpc' = "idle"
      /\ UNCHANGED <<top, mark_stack, latest_id, cycles, extended>>

-----------------------------------------------------------------------------
Next ==
  \/ \E desc \in Registered : Register(desc)
  \/ \E s \in Slots, desc \in StaticTypes, len \in Lens, extra \in Extras : Alloc(s, desc, len, extra)
  \/ \E s, r \in Slots : Store(s, r)
  \/ \E s \in Slots : Clear(s) \/ DropRoot(s)
  \/ StartCycle
  \/ \E obj \in mark_stack : MarkObject(obj)
  \/ Move

Spec == Init /\ [][Next]_vars

-----------------------------------------------------------------------------
(* Properties *)

\* Type invariant: objects, roots and records of the memory.
TypeOK ==
  /\ DOMAIN mem = Addresses
  /\ base \in {0, Space} /\ top \in Nat
  /\ gpc = "idle" => top \in base .. base + Space
  /\ \A s \in Slots : roots[s] # Null => roots[s] \in base .. base + Space - 1 /\ IsObject(mem, roots[s])
  /\ \A p \in DOMAIN records : IsObject(mem, p) /\ records[p].dest \in Addresses
  /\ DOMAIN dynamic_types \subseteq 0 .. latest_id - 1
  /\ gpc \in {"idle", "mark"} /\ cycles \in 0 .. MaxCycles
  /\ failure \in {"none", "size", "wild", "record"}

\* What a word that is not null denotes at the end of a path: an object, or
\* nothing that a program could build.
Node(m, path, word) ==
  IF ~Refers(m, word) THEN [path |-> path, type |-> Plain(0)]
  ELSE LET a == word[2]
           desc == TypeAt(m, a)
           len == LenAt(m, a)
           plain == {o \in 0 .. DynamicSize(desc, len) - 1 : o % Word = 0} \ PointersOf(desc, len)
       IN  [path |-> path, type |-> desc, len |-> len, boxes |-> PointersOf(desc, len),
            intact |-> \A o \in plain : WordAt(m, a + Metadata + o) # Nil]

\* Where the boxes of the object at the end of a way lead, and what they hold.
Onward(m, way) ==
  LET a == way.word[2]
      filled == {o \in PointersOf(TypeAt(m, a), LenAt(m, a)) : WordAt(m, a + Metadata + o) # Nil}
  IN  IF ~Refers(m, way.word) THEN {}
      ELSE {[path |-> Append(way.path, o), word |-> WordAt(m, a + Metadata + o)] : o \in filled}

\* The ways of each length that lead from an object.
Ways(m, p) ==
  LET ways[n \in Nat] ==
        IF n = 0 THEN {[path |-> <<>>, word |-> Ptr(p)]}
        ELSE UNION {Onward(m, way) : way \in ways[n - 1]}
  IN  ways

\* The nodes of the value of a root; every object on the way to a node has a
\* header and a box, so that no way is longer than a space has room for.
ValueAt(m, p) ==
  IF p = Null THEN {}
  ELSE {Node(m, way.path, way.word) : way \in UNION {Ways(m, p)[n] : n \in 0 .. Space \div (2 * Word)}}

\* The nodes of new objects.
NewNode(desc, len) ==
  [path |-> <<>>, type |-> desc, len |-> len, boxes |-> PointersOf(desc, len), intact |-> TRUE]
NewNodes == {NewNode(desc, len) : desc \in StaticTypes, len \in Lens}

ValuesNow == [s \in Slots |-> ValueAt(mem, roots[s])]

Believed == INSTANCE Values WITH values <- ValuesNow, Fresh <- NewNodes

\* Whatever their types, the values behind the roots are those the program has
\* built, and a cycle changes none of them: every pointer is found, objects are
\* copied whole, and every pointer is fixed once (types.rs, descriptor.rs,
\* pointer_iterator.rs).
ImplementsValues == Believed!Spec

\* Only an object allocated with extra_bytes can stop a cycle: the allocator
\* asserts that sizes are multiples of 8, and the size the collector computes
\* leaves the extra bytes out (types.rs:162-188, mm/context.rs:32).
OnlyExtraFails == failure # "none" => failure = "size" /\ extended

\* "This return offset to each GC pointer" (types.rs:135): iterating over an
\* object visits all its pointers and nothing else.
VisitsPointers ==
  \A a \in base .. base + Space - 1 :
    gpc = "idle" /\ failure = "none" /\ a % Word = 0 /\ IsObject(mem, a) =>
      ToSet(Visits(mem, a)) = {a + Metadata + o : o \in PointersOf(TypeAt(mem, a), LenAt(mem, a))}

=============================================================================
