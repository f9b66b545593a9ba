------------------------------ MODULE RootRefs ------------------------------
(***************************************************************************)
(* The root references of one thread (uwugc-plus/src/context.rs).  A       *)
(* RootRefRaw owns a slot of the thread's root set; it holds the object's  *)
(* address itself, or has stored it in the slot, where the collector finds *)
(* and replaces it.  A safepoint is passed only when the counters say that *)
(* every reference is stored.                                              *)
(*                                                                         *)
(* The composite calls (safepoint, alloc with its SafepointMut argument)   *)
(* are sequences of the actions below.  A call that panics may be caught,  *)
(* so the thread goes on with what the call had done by then; calls that   *)
(* panic before they change anything are left out.                         *)
(***************************************************************************)
EXTENDS Integers, Sequences, FiniteSets

CONSTANTS
  Refs,           (* names for the RootRefRaws that exist at a time *)
  Objects,        (* objects that references refer to *)
  Addresses,      (* where objects may be *)
  Null,           (* the None of a slot or a reference *)
  OverflowChecks, (* whether the build panics when a counter underflows *)
  MaxPanics       (* bound: calls of load that panic *)

ASSUME ConstantsAssumption ==
  /\ IsFiniteSet(Refs)
  /\ Null \notin Addresses
  /\ OverflowChecks \in BOOLEAN
  /\ MaxPanics \in Nat

VARIABLES
  set,           (* the slots *)
  used_map,      (* which slots belong to a reference *)
  stored_count,
  exist_count,
  refs,          (* the references that exist: slot, and address unless stored *)
  stopped,       (* inside safepoint or alloc_slow, where the collector may move *)
  panics,        (* calls that have panicked half way *)
  object,        (* auxiliary: the object each reference stands for *)
  place          (* auxiliary: where each object is *)

vars == <<set, used_map, stored_count, exist_count, refs, stopped, panics, object, place>>

Stored(r) == refs[r].ptr = Null
StoredRefs == {r \in DOMAIN refs : Stored(r)}
Slots == DOMAIN used_map

Placements == {p \in [Objects -> Addresses] : \A o, q \in Objects : p[o] = p[q] => o = q}

Without(f, r) == [q \in DOMAIN f \ {r} |-> f[q]]
With(f, r, v) == [q \in DOMAIN f \cup {r} |-> IF q = r THEN v ELSE f[q]]

Init ==
  /\ set = <<>>
  /\ used_map = <<>>
  /\ stored_count = 0
  /\ exist_count = 0
  /\ refs = [r \in {} |-> Null]
  /\ stopped = FALSE
  /\ panics = 0
  /\ object = [r \in {} |-> Null]
  /\ place \in Placements

\* used_map.first_zero().
FirstFree(i) == ~used_map[i] /\ \A j \in 1 .. i - 1 : used_map[j]

\* A reference to an object just allocated, which only it refers to.
Add(r, o, i) ==
  /\ refs' = With(refs, r, [idx |-> i, ptr |-> place[o]])
  /\ object' = With(object, r, o)
  /\ exist_count' = exist_count + 1
  /\ UNCHANGED <<stored_count, stopped, panics, place>>

CanAdd(r, o) ==
  /\ ~stopped
  /\ r \notin DOMAIN refs
  /\ o \notin {object[q] : q \in DOMAIN object}
  /\ place[o] \notin {set[i] : i \in DOMAIN set}

AddInNewSlot(r, o) ==
  /\ CanAdd(r, o)
  /\ \A i \in Slots : used_map[i]
  /\ set' = Append(set, Null)
  /\ used_map' = Append(used_map, TRUE)
  /\ Add(r, o, Len(set) + 1)

AddInFreeSlot(r, o, i) ==
  /\ CanAdd(r, o)
  /\ FirstFree(i)
  /\ set' = [set EXCEPT ![i] = Null]
  /\ used_map' = [used_map EXCEPT ![i] = TRUE]
  /\ Add(r, o, i)

Store(r) ==
  /\ ~stopped
  /\ r \in DOMAIN refs /\ ~Stored(r)
  /\ stored_count' = stored_count + 1
  /\ set' = [set EXCEPT ![refs[r].idx] = refs[r].ptr]
  /\ refs' = [refs EXCEPT ![r].ptr = Null]
  /\ UNCHANGED <<used_map, exist_count, stopped, panics, object, place>>

Load(r) ==
  /\ ~stopped
  /\ r \in DOMAIN refs /\ Stored(r)
  /\ ~(OverflowChecks /\ stored_count = 0)
  /\ stored_count' = stored_count - 1
  /\ set' = [set EXCEPT ![refs[r].idx] = Null]
  /\ refs' = [refs EXCEPT ![r].ptr = set[refs[r].idx]]
  /\ UNCHANGED <<used_map, exist_count, stopped, panics, object, place>>

\* load() of a reference that is loaded: the counter goes down, then the
\* assertion on the slot fails.
LoadPanics(r) ==
  /\ ~stopped
  /\ panics < MaxPanics
  /\ r \in DOMAIN refs /\ ~Stored(r)
  /\ ~(OverflowChecks /\ stored_count = 0)
  /\ stored_count' = stored_count - 1
  /\ panics' = panics + 1
  /\ UNCHANGED <<set, used_map, exist_count, refs, stopped, object, place>>

\* (mutant) the counter of stored references is forgotten.
DropKeepsCount(r) ==
  /\ ~stopped
  /\ r \in DOMAIN refs
  /\ exist_count' = exist_count - 1
  /\ set' = [set EXCEPT ![refs[r].idx] = Null]
  /\ used_map' = [used_map EXCEPT ![refs[r].idx] = FALSE]
  /\ refs' = Without(refs, r)
  /\ object' = Without(object, r)
  /\ UNCHANGED <<stored_count, stopped, panics, place>>

Drop(r) ==
  /\ ~stopped
  /\ r \in DOMAIN refs
  /\ ~(Stored(r) /\ OverflowChecks /\ stored_count = 0)
  /\ exist_count' = exist_count - 1
  /\ stored_count' = IF Stored(r) THEN stored_count - 1 ELSE stored_count
  /\ set' = [set EXCEPT ![refs[r].idx] = Null]
  /\ used_map' = [used_map EXCEPT ![refs[r].idx] = FALSE]
  /\ refs' = Without(refs, r)
  /\ object' = Without(object, r)
  /\ UNCHANGED <<stopped, panics, place>>

\* The drop of a stored reference whose counter is too low after a panic: the
\* reference is gone and its slot stays.
DropPanics(r) ==
  /\ ~stopped
  /\ r \in DOMAIN refs
  /\ Stored(r) /\ OverflowChecks /\ stored_count = 0
  /\ exist_count' = exist_count - 1
  /\ refs' = Without(refs, r)
  /\ object' = Without(object, r)
  /\ panics' = panics + 1
  /\ UNCHANGED <<set, used_map, stored_count, stopped, place>>

\* (mutant) some reference is stored.
EnterWithSome ==
  /\ ~stopped
  /\ stored_count > 0 \/ exist_count = 0
  /\ stopped' = TRUE
  /\ UNCHANGED <<set, used_map, stored_count, exist_count, refs, panics, object, place>>

\* The assertion of safepoint and alloc_slow holds and the world may stop.
Enter ==
  /\ ~stopped
  /\ stored_count = exist_count
  /\ stopped' = TRUE
  /\ UNCHANGED <<set, used_map, stored_count, exist_count, refs, panics, object, place>>

\* The collector moves objects and fixes the slots (map_pointers).
Move ==
  /\ stopped
  /\ place' \in Placements
  /\ set' = [i \in DOMAIN set |->
       IF \E o \in Objects : place[o] = set[i]
       THEN place'[CHOOSE o \in Objects : place[o] = set[i]] ELSE set[i]]
  /\ UNCHANGED <<used_map, stored_count, exist_count, refs, stopped, panics, object>>

Leave ==
  /\ stopped
  /\ stopped' = FALSE
  /\ UNCHANGED <<set, used_map, stored_count, exist_count, refs, panics, object, place>>

Next ==
  \/ \E r \in Refs :
       \/ Store(r) \/ Load(r) \/ LoadPanics(r) \/ Drop(r) \/ DropPanics(r)
       \/ \E o \in Objects : AddInNewSlot(r, o) \/ \E i \in Slots : AddInFreeSlot(r, o, i)
  \/ Enter \/ Move \/ Leave

Spec == Init /\ [][Next]_vars

-----------------------------------------------------------------------------
(* Properties.                                                             *)

\* Every variable has its type (context.rs:13-36).
TypeOK ==
  /\ set \in Seq(Addresses \cup {Null})
  /\ used_map \in Seq(BOOLEAN)
  /\ Len(set) = Len(used_map)
  /\ stored_count \in Int /\ exist_count \in Int
  /\ DOMAIN refs \subseteq Refs
  /\ refs \in [DOMAIN refs -> [idx : Slots, ptr : Addresses \cup {Null}]]
  /\ stopped \in BOOLEAN /\ panics \in Nat
  /\ object \in [DOMAIN refs -> Objects]
  /\ place \in Placements

\* A slot belongs to one reference, which is marked as used and holds an
\* address if and only if the reference does not: the assertions of store, load
\* and add_ptr hold (context.rs:70-75, 86-89, 123).
SlotsOwned ==
  /\ \A r, q \in DOMAIN refs : refs[r].idx = refs[q].idx => r = q
  /\ \A r \in DOMAIN refs :
       /\ used_map[refs[r].idx]
       /\ set[refs[r].idx] # Null <=> Stored(r)
  /\ \A i \in Slots : ~used_map[i] => set[i] = Null

\* Where the collector may move objects, no reference holds an address: the
\* comparison of two counters is enough, even after panics (context.rs:142-169).
SafepointSafe == stopped => \A r \in DOMAIN refs : Stored(r)

\* A reference stands for the same object after every store, move and load.
Denotes ==
  \A r \in DOMAIN refs :
    (IF Stored(r) THEN set[refs[r].idx] ELSE refs[r].ptr) = place[object[r]]

\* Until a call has panicked, the counters count the references, and every slot
\* that is in use has its reference: dropped references leave no root behind
\* (context.rs:38-55).
NothingLeaks ==
  panics = 0 =>
    /\ stored_count = Cardinality(StoredRefs)
    /\ exist_count = Cardinality(DOMAIN refs)
    /\ \A i \in Slots : used_map[i] => \E r \in DOMAIN refs : refs[r].idx = i

\* The collector's view after panics: never more stored references are counted
\* than there are.
CountsSafe ==
  /\ stored_count <= Cardinality(StoredRefs)
  /\ exist_count = Cardinality(DOMAIN refs)

IInv == TypeOK /\ SlotsOwned /\ SafepointSafe /\ Denotes /\ NothingLeaks /\ CountsSafe

=============================================================================
