--------------------------- MODULE RootRefsProofs ---------------------------
(***************************************************************************)
(* Proofs about RootRefs, for every number of references, objects and      *)
(* addresses and both kinds of build: IInv is inductive.                   *)
(***************************************************************************)
EXTENDS RootRefs, FiniteSetTheorems, TLAPS

\* The references that exist are finitely many, and so are those stored.
LEMMA FiniteRefs ==
  ASSUME TypeOK
  PROVE  /\ IsFiniteSet(DOMAIN refs) /\ IsFiniteSet(StoredRefs)
         /\ Cardinality(DOMAIN refs) \in Nat /\ Cardinality(StoredRefs) \in Nat
         /\ Cardinality(StoredRefs) <= Cardinality(DOMAIN refs)
<1>1. IsFiniteSet(DOMAIN refs)
  BY ConstantsAssumption, FS_Subset DEF TypeOK
<1>2. StoredRefs \subseteq DOMAIN refs
  BY DEF StoredRefs
<1> QED BY <1>1, <1>2, FS_Subset, FS_CardinalityType

\* With as many stored references counted as references exist, all are stored.
LEMMA AllStored ==
  ASSUME TypeOK, CountsSafe, stored_count = exist_count
  PROVE  \A r \in DOMAIN refs : Stored(r)
<1>1. StoredRefs \subseteq DOMAIN refs
  BY DEF StoredRefs
<1>2. Cardinality(StoredRefs) = Cardinality(DOMAIN refs)
  BY FiniteRefs DEF CountsSafe, TypeOK
<1>3. StoredRefs = DOMAIN refs
  BY <1>1, <1>2, FiniteRefs, FS_Subset
<1> QED BY <1>3 DEF StoredRefs

\* A sequence with one element replaced.
LEMMA Replaced ==
  ASSUME NEW S, NEW s \in Seq(S), NEW i \in DOMAIN s, NEW v \in S
  PROVE  [s EXCEPT ![i] = v] \in Seq(S) /\ Len([s EXCEPT ![i] = v]) = Len(s)
OBVIOUS

\* The initial state satisfies the invariant.
LEMMA InitIInv == Init => IInv
<1> SUFFICES ASSUME Init PROVE IInv
  OBVIOUS
<1>1. DOMAIN refs = {} /\ StoredRefs = {} /\ Slots = {}
  BY DEF Init, StoredRefs, Slots
<1>2. TypeOK
  <2>1. refs \in [DOMAIN refs -> [idx : Slots, ptr : Addresses \cup {Null}]]
    BY <1>1 DEF Init
  <2>2. object \in [DOMAIN refs -> Objects]
    BY <1>1 DEF Init
  <2>3. set \in Seq(Addresses \cup {Null}) /\ used_map \in Seq(BOOLEAN) /\ Len(set) = Len(used_map)
    BY DEF Init
  <2>4. DOMAIN refs \subseteq Refs
    BY <1>1
  <2>5. stored_count \in Int /\ exist_count \in Int /\ panics \in Nat
    BY DEF Init
  <2>6. stopped \in BOOLEAN /\ place \in Placements
    BY Zenon DEF Init
  <2> QED BY <2>1, <2>2, <2>3, <2>4, <2>5, <2>6 DEF TypeOK
<1>3. SlotsOwned /\ SafepointSafe /\ Denotes
  BY <1>1 DEF Init, SlotsOwned, SafepointSafe, Denotes
<1>4. NothingLeaks /\ CountsSafe
  BY <1>1, FS_EmptySet DEF Init, NothingLeaks, CountsSafe
<1> QED BY <1>2, <1>3, <1>4 DEF IInv

-----------------------------------------------------------------------------
(* The steps that add a reference.                                         *)

\* What both ways to add a reference have in common: reference r is new and
\* loaded, the others are as before.
LEMMA AddedRef ==
  ASSUME IInv, NEW r \in Refs, NEW o \in Objects, NEW i \in Nat,
         CanAdd(r, o), Add(r, o, i)
  PROVE  /\ DOMAIN refs' = DOMAIN refs \cup {r}
         /\ refs'[r] = [idx |-> i, ptr |-> place[o]]
         /\ object'[r] = o
         /\ \A q \in DOMAIN refs : q # r /\ refs'[q] = refs[q] /\ object'[q] = object[q]
         /\ StoredRefs' = StoredRefs
         /\ DOMAIN object' = DOMAIN refs'
         /\ Cardinality((DOMAIN refs)') = Cardinality(DOMAIN refs) + 1
<1>1. place[o] # Null
  BY ConstantsAssumption DEF IInv, TypeOK, Placements
<1>2. /\ DOMAIN refs' = DOMAIN refs \cup {r}
      /\ refs'[r] = [idx |-> i, ptr |-> place[o]]
      /\ object'[r] = o
      /\ \A q \in DOMAIN refs : q # r /\ refs'[q] = refs[q] /\ object'[q] = object[q]
      /\ DOMAIN object' = DOMAIN refs'
  BY DEF Add, CanAdd, With, IInv, TypeOK
<1>3. StoredRefs' = StoredRefs
  BY <1>1, <1>2 DEF StoredRefs, Stored
<1>4. Cardinality((DOMAIN refs)') = Cardinality(DOMAIN refs) + 1
  BY <1>2, FiniteRefs, FS_AddElement DEF CanAdd, IInv
<1> QED BY <1>2, <1>3, <1>4

\* The slots after a reference was added, whichever way.
LEMMA AddStep ==
  ASSUME IInv, NEW r \in Refs, NEW o \in Objects, NEW i \in Nat \ {0},
         CanAdd(r, o), Add(r, o, i),
         set' \in Seq(Addresses \cup {Null}), used_map' \in Seq(BOOLEAN),
         Len(set') = Len(used_map'),
         i \in DOMAIN used_map', used_map'[i] = TRUE, set'[i] = Null,
         \A j \in Slots : j # i => used_map'[j] = used_map[j] /\ set'[j] = set[j],
         DOMAIN used_map' = Slots \cup {i},
         i \in Slots => ~used_map[i]
  PROVE  IInv'
<1>a. /\ DOMAIN refs' = DOMAIN refs \cup {r}
      /\ refs'[r] = [idx |-> i, ptr |-> place[o]]
      /\ object'[r] = o
      /\ \A q \in DOMAIN refs : q # r /\ refs'[q] = refs[q] /\ object'[q] = object[q]
      /\ StoredRefs' = StoredRefs
      /\ DOMAIN object' = DOMAIN refs'
      /\ Cardinality((DOMAIN refs)') = Cardinality(DOMAIN refs) + 1
  BY AddedRef
<1>b. TypeOK /\ SlotsOwned /\ SafepointSafe /\ Denotes /\ NothingLeaks /\ CountsSafe
  BY DEF IInv
<1>c. place[o] \in Addresses /\ place[o] # Null
  BY <1>b, ConstantsAssumption DEF TypeOK, Placements
<1>0. \A q \in DOMAIN refs : refs[q].idx \in Slots /\ refs[q].idx # i
  BY <1>b DEF TypeOK, SlotsOwned
<1>1. TypeOK'
  <2>1. DOMAIN refs' \subseteq Refs
    BY <1>b, <1>a DEF TypeOK
  <2>2. refs' \in [DOMAIN refs' -> [idx : Slots', ptr : Addresses \cup {Null}]]
    <3>2. \A q \in DOMAIN refs : refs[q] \in [idx : Slots', ptr : Addresses \cup {Null}]
      BY <1>b DEF TypeOK, Slots
    <3>3. [idx |-> i, ptr |-> place[o]] \in [idx : Slots', ptr : Addresses \cup {Null}]
      BY <1>b, <1>c DEF Slots
    <3>4. refs' = [q \in DOMAIN refs' |-> refs'[q]]
      BY <1>b DEF Add, With
    <3> QED BY <1>b, <3>2, <3>3, <3>4, <1>a
  <2>3. object' \in [DOMAIN refs' -> Objects]
    <3>1. object' = [q \in DOMAIN object' |-> object'[q]]
      BY <1>b DEF Add, With
    <3> QED BY <1>b, <3>1, <1>a DEF TypeOK
  <2> QED BY <1>b, <2>1, <2>2, <2>3 DEF TypeOK, Add
<1>2. SlotsOwned'
  <2>2. \A q \in DOMAIN refs : Stored(q)' <=> Stored(q)
    BY <1>b, <1>a DEF Stored
  <2>3. ~Stored(r)'
    BY <1>b, <1>c, <1>a DEF Stored
  <2>4. \A p, q \in DOMAIN refs' : refs'[p].idx = refs'[q].idx => p = q
    BY <1>b, <1>0, <1>a DEF SlotsOwned
  <2>5. \A q \in DOMAIN refs' :
          used_map'[refs'[q].idx] /\ (set'[refs'[q].idx] # Null <=> Stored(q)')
    BY <1>b, <1>0, <2>2, <2>3, <1>a DEF SlotsOwned
  <2>6. \A j \in Slots' : ~used_map'[j] => set'[j] = Null
    BY <1>b DEF SlotsOwned, Slots
  <2> QED BY <1>b, <2>4, <2>5, <2>6 DEF SlotsOwned
<1>3. SafepointSafe'
  BY <1>b DEF SafepointSafe, Add, CanAdd
<1>4. Denotes'
  <2> QED BY <1>b, <1>0, <1>c, <1>a DEF Denotes, Stored, Add
<1>5. NothingLeaks'
  <2> SUFFICES ASSUME panics' = 0 PROVE NothingLeaks'
    BY <1>b DEF NothingLeaks
  <2>1. NothingLeaks!2
    BY <1>b DEF NothingLeaks, Add
  <2>2. stored_count' = Cardinality(StoredRefs')
    BY <1>b, <2>1, <1>a DEF Add
  <2>3. exist_count' = Cardinality((DOMAIN refs)')
    BY <1>b, <2>1, <1>a DEF Add
  <2>4. \A j \in Slots' : used_map'[j] => \E q \in DOMAIN refs' : refs'[q].idx = j
    BY <1>b, <2>1, <1>a DEF Slots
  <2> QED BY <1>b, <2>2, <2>3, <2>4 DEF NothingLeaks
<1>6. CountsSafe'
  BY <1>b, <1>a DEF CountsSafe, Add
<1> QED BY <1>1, <1>2, <1>3, <1>4, <1>5, <1>6 DEF IInv

\* A reference in a new slot.
LEMMA AddInNewSlotStep ==
  ASSUME IInv, NEW r \in Refs, NEW o \in Objects, AddInNewSlot(r, o)
  PROVE  IInv'
<1> DEFINE i == Len(set) + 1
<1>1. set \in Seq(Addresses \cup {Null}) /\ used_map \in Seq(BOOLEAN) /\ Len(set) = Len(used_map)
  BY DEF IInv, TypeOK
<1>2. /\ set' \in Seq(Addresses \cup {Null}) /\ used_map' \in Seq(BOOLEAN)
      /\ Len(set') = Len(used_map')
      /\ i \in DOMAIN used_map' /\ used_map'[i] = TRUE /\ set'[i] = Null
      /\ \A j \in Slots : j # i => used_map'[j] = used_map[j] /\ set'[j] = set[j]
      /\ DOMAIN used_map' = Slots \cup {i}
      /\ i \notin Slots
  BY <1>1 DEF AddInNewSlot, Slots
<1>3. CanAdd(r, o) /\ Add(r, o, i) /\ i \in Nat \ {0}
  BY <1>1 DEF AddInNewSlot
<1> QED BY <1>2, <1>3, AddStep

\* A reference in a slot that is free.
LEMMA AddInFreeSlotStep ==
  ASSUME IInv, NEW r \in Refs, NEW o \in Objects, NEW i \in Slots, AddInFreeSlot(r, o, i)
  PROVE  IInv'
<1>1. set \in Seq(Addresses \cup {Null}) /\ used_map \in Seq(BOOLEAN) /\ Len(set) = Len(used_map)
  BY DEF IInv, TypeOK
<1>2. /\ set' \in Seq(Addresses \cup {Null}) /\ used_map' \in Seq(BOOLEAN)
      /\ Len(set') = Len(used_map')
      /\ i \in DOMAIN used_map' /\ used_map'[i] = TRUE /\ set'[i] = Null
      /\ \A j \in Slots : j # i => used_map'[j] = used_map[j] /\ set'[j] = set[j]
      /\ DOMAIN used_map' = Slots \cup {i}
      /\ i \in Nat \ {0}
  BY <1>1 DEF AddInFreeSlot, Slots
<1> QED BY <1>1, <1>2, AddStep DEF AddInFreeSlot, FirstFree

-----------------------------------------------------------------------------
(* The steps of one reference.                                             *)

\* store() moves the address of the reference to its slot.
LEMMA StoreStep ==
  ASSUME IInv, NEW r \in Refs, Store(r)
  PROVE  IInv'
<1> DEFINE i == refs[r].idx
<1>b. TypeOK /\ SlotsOwned /\ SafepointSafe /\ Denotes /\ NothingLeaks /\ CountsSafe
  BY DEF IInv
<1>1. r \in DOMAIN refs /\ ~Stored(r) /\ i \in Slots /\ refs[r].ptr \in Addresses
  BY <1>b DEF Store, TypeOK, Stored
<1>2. /\ DOMAIN refs' = DOMAIN refs
      /\ refs'[r].idx = i /\ refs'[r].ptr = Null
      /\ \A q \in DOMAIN refs \ {r} : refs'[q] = refs[q]
  BY <1>b, <1>1 DEF Store, TypeOK
<1>3. \A q \in DOMAIN refs : refs[q].idx \in Slots /\ (q # r => refs[q].idx # i)
  BY <1>b, <1>1 DEF TypeOK, SlotsOwned
<1>4. set'[i] = refs[r].ptr /\ \A j \in Slots \ {i} : set'[j] = set[j]
  BY <1>b, <1>1 DEF Store, TypeOK, Slots
<1>5. StoredRefs' = StoredRefs \cup {r} /\ r \notin StoredRefs
  BY <1>1, <1>2 DEF StoredRefs, Stored
<1>6. Cardinality(StoredRefs') = Cardinality(StoredRefs) + 1
  BY <1>b, <1>5, FiniteRefs, FS_AddElement
<1>7. TypeOK'
  <2>1. refs' \in [DOMAIN refs' -> [idx : Slots, ptr : Addresses \cup {Null}]]
    BY <1>b, <1>1 DEF Store, TypeOK
  <2>2. set' \in Seq(Addresses \cup {Null}) /\ Len(set') = Len(set)
    BY <1>b, <1>1, Replaced DEF Store, TypeOK, Slots
  <2>3. stored_count' \in Int
    BY <1>b DEF Store, TypeOK
  <2> QED BY <1>b, <1>2, <2>1, <2>2, <2>3 DEF Store, TypeOK, Slots
<1>8. SlotsOwned'
  <2>1. \A p, q \in DOMAIN refs' : refs'[p].idx = refs'[q].idx => p = q
    BY <1>b, <1>2, <1>3 DEF SlotsOwned
  <2>2. \A q \in DOMAIN refs' :
          used_map'[refs'[q].idx] /\ (set'[refs'[q].idx] # Null <=> Stored(q)')
    BY <1>b, <1>1, <1>2, <1>3, <1>4, ConstantsAssumption DEF SlotsOwned, Store, Stored
  <2>3. \A j \in Slots' : ~used_map'[j] => set'[j] = Null
    BY <1>b, <1>1, <1>4 DEF SlotsOwned, Store, Slots
  <2> QED BY <2>1, <2>2, <2>3 DEF SlotsOwned
<1>9. SafepointSafe'
  BY DEF SafepointSafe, Store
<1>10. Denotes'
  BY <1>b, <1>1, <1>2, <1>3, <1>4 DEF Denotes, Stored, Store
<1>11. NothingLeaks'
  <2> SUFFICES ASSUME panics' = 0 PROVE NothingLeaks'
    BY DEF NothingLeaks
  <2>1. NothingLeaks!2
    BY <1>b DEF NothingLeaks, Store
  <2>2. \A j \in Slots' : used_map'[j] => \E q \in DOMAIN refs' : refs'[q].idx = j
    BY <1>2, <2>1 DEF Slots, Store
  <2> QED BY <1>2, <1>6, <2>1, <2>2 DEF NothingLeaks, Store
<1>12. CountsSafe'
  BY <1>b, <1>2, <1>6, FiniteRefs DEF CountsSafe, Store, TypeOK
<1> QED BY <1>7, <1>8, <1>9, <1>10, <1>11, <1>12 DEF IInv

\* load() takes the address back.
LEMMA LoadStep ==
  ASSUME IInv, NEW r \in Refs, Load(r)
  PROVE  IInv'
<1> DEFINE i == refs[r].idx
<1>b. TypeOK /\ SlotsOwned /\ SafepointSafe /\ Denotes /\ NothingLeaks /\ CountsSafe
  BY DEF IInv
<1>1. r \in DOMAIN refs /\ Stored(r) /\ i \in Slots
  BY <1>b DEF Load, TypeOK
<1>2. set[i] \in Addresses /\ set[i] # Null
  BY <1>b, <1>1 DEF SlotsOwned, TypeOK, Slots
<1>3. /\ DOMAIN refs' = DOMAIN refs
      /\ refs'[r].idx = i /\ refs'[r].ptr = set[i]
      /\ \A q \in DOMAIN refs \ {r} : refs'[q] = refs[q]
  BY <1>b, <1>1 DEF Load, TypeOK
<1>4. \A q \in DOMAIN refs : refs[q].idx \in Slots /\ (q # r => refs[q].idx # i)
  BY <1>b, <1>1 DEF TypeOK, SlotsOwned
<1>5. set'[i] = Null /\ \A j \in Slots \ {i} : set'[j] = set[j]
  BY <1>b, <1>1 DEF Load, TypeOK, Slots
<1>6. StoredRefs' = StoredRefs \ {r} /\ r \in StoredRefs
  BY <1>1, <1>2, <1>3 DEF StoredRefs, Stored
<1>7. Cardinality(StoredRefs') = Cardinality(StoredRefs) - 1
  BY <1>b, <1>6, FiniteRefs, FS_RemoveElement
<1>8. TypeOK'
  <2>1. refs' \in [DOMAIN refs' -> [idx : Slots, ptr : Addresses \cup {Null}]]
    BY <1>b, <1>1, <1>2 DEF Load, TypeOK
  <2>2. set' \in Seq(Addresses \cup {Null}) /\ Len(set') = Len(set)
    BY <1>b, <1>1, Replaced DEF Load, TypeOK, Slots
  <2>3. stored_count' \in Int
    BY <1>b DEF Load, TypeOK
  <2> QED BY <1>b, <1>3, <2>1, <2>2, <2>3 DEF Load, TypeOK, Slots
<1>9. SlotsOwned'
  <2>1. \A p, q \in DOMAIN refs' : refs'[p].idx = refs'[q].idx => p = q
    BY <1>b, <1>3, <1>4 DEF SlotsOwned
  <2>2. \A q \in DOMAIN refs' :
          used_map'[refs'[q].idx] /\ (set'[refs'[q].idx] # Null <=> Stored(q)')
    BY <1>b, <1>1, <1>2, <1>3, <1>4, <1>5 DEF SlotsOwned, Load, Stored
  <2>3. \A j \in Slots' : ~used_map'[j] => set'[j] = Null
    BY <1>b, <1>1, <1>5 DEF SlotsOwned, Load, Slots
  <2> QED BY <2>1, <2>2, <2>3 DEF SlotsOwned
<1>10. SafepointSafe'
  BY DEF SafepointSafe, Load
<1>11. Denotes'
  BY <1>b, <1>1, <1>2, <1>3, <1>4, <1>5 DEF Denotes, Stored, Load
<1>12. NothingLeaks'
  <2> SUFFICES ASSUME panics' = 0 PROVE NothingLeaks'
    BY DEF NothingLeaks
  <2>1. NothingLeaks!2
    BY <1>b DEF NothingLeaks, Load
  <2>2. \A j \in Slots' : used_map'[j] => \E q \in DOMAIN refs' : refs'[q].idx = j
    BY <1>3, <2>1 DEF Slots, Load
  <2> QED BY <1>3, <1>7, <2>1, <2>2 DEF NothingLeaks, Load
<1>13. CountsSafe'
  BY <1>b, <1>3, <1>7, FiniteRefs DEF CountsSafe, Load, TypeOK
<1> QED BY <1>8, <1>9, <1>10, <1>11, <1>12, <1>13 DEF IInv

\* load() of a loaded reference only makes the counter too low.
LEMMA LoadPanicsStep ==
  ASSUME IInv, NEW r \in Refs, LoadPanics(r)
  PROVE  IInv'
<1>b. TypeOK /\ SlotsOwned /\ SafepointSafe /\ Denotes /\ CountsSafe
  BY DEF IInv
<1>1. StoredRefs' = StoredRefs
  BY DEF LoadPanics, StoredRefs, Stored
<1>2. TypeOK'
  BY <1>b DEF LoadPanics, TypeOK, Slots
<1>3. SlotsOwned' /\ SafepointSafe' /\ Denotes'
  BY <1>b DEF LoadPanics, SlotsOwned, SafepointSafe, Denotes, Stored, Slots
<1>4. NothingLeaks'
  BY <1>b DEF LoadPanics, NothingLeaks, TypeOK
<1>5. CountsSafe'
  BY <1>b, <1>1, FiniteRefs DEF LoadPanics, CountsSafe, TypeOK
<1> QED BY <1>2, <1>3, <1>4, <1>5 DEF IInv

\* What both ways to drop a reference have in common.
LEMMA DroppedRef ==
  ASSUME IInv, NEW r \in DOMAIN refs,
         refs' = Without(refs, r), object' = Without(object, r)
  PROVE  /\ DOMAIN refs' = DOMAIN refs \ {r} /\ DOMAIN object' = DOMAIN refs'
         /\ \A q \in DOMAIN refs \ {r} : refs'[q] = refs[q] /\ object'[q] = object[q]
         /\ StoredRefs' = StoredRefs \ {r}
         /\ refs' \in [DOMAIN refs' -> [idx : Slots, ptr : Addresses \cup {Null}]]
         /\ object' \in [DOMAIN refs' -> Objects]
         /\ Cardinality((DOMAIN refs)') = Cardinality(DOMAIN refs) - 1
         /\ Cardinality(StoredRefs') =
              IF Stored(r) THEN Cardinality(StoredRefs) - 1 ELSE Cardinality(StoredRefs)
<1>b. TypeOK
  BY DEF IInv
<1>1. /\ DOMAIN refs' = DOMAIN refs \ {r} /\ DOMAIN object' = DOMAIN refs'
      /\ \A q \in DOMAIN refs \ {r} : refs'[q] = refs[q] /\ object'[q] = object[q]
  BY <1>b DEF Without, TypeOK
<1>2. StoredRefs' = StoredRefs \ {r}
  BY <1>1 DEF StoredRefs, Stored
<1>3. refs' \in [DOMAIN refs' -> [idx : Slots, ptr : Addresses \cup {Null}]]
  BY <1>b, <1>1 DEF Without, TypeOK
<1>4. object' \in [DOMAIN refs' -> Objects]
  BY <1>b, <1>1 DEF Without, TypeOK
<1>5. Cardinality((DOMAIN refs)') = Cardinality(DOMAIN refs) - 1
  BY <1>b, <1>1, FiniteRefs, FS_RemoveElement
<1>6. r \in StoredRefs <=> Stored(r)
  BY DEF StoredRefs
<1>7. Cardinality(StoredRefs') =
        IF Stored(r) THEN Cardinality(StoredRefs) - 1 ELSE Cardinality(StoredRefs)
  BY <1>b, <1>2, <1>6, FiniteRefs, FS_RemoveElement
<1> QED BY <1>1, <1>2, <1>3, <1>4, <1>5, <1>7

\* A drop empties the slot and frees it.
LEMMA DropStep ==
  ASSUME IInv, NEW r \in Refs, Drop(r)
  PROVE  IInv'
<1> DEFINE i == refs[r].idx
<1>b. TypeOK /\ SlotsOwned /\ SafepointSafe /\ Denotes /\ NothingLeaks /\ CountsSafe
  BY DEF IInv
<1>1. r \in DOMAIN refs /\ i \in Slots
  BY <1>b DEF Drop, TypeOK
<1>2. /\ DOMAIN refs' = DOMAIN refs \ {r} /\ DOMAIN object' = DOMAIN refs'
      /\ \A q \in DOMAIN refs \ {r} : refs'[q] = refs[q] /\ object'[q] = object[q]
      /\ refs' \in [DOMAIN refs' -> [idx : Slots, ptr : Addresses \cup {Null}]]
      /\ object' \in [DOMAIN refs' -> Objects]
      /\ Cardinality((DOMAIN refs)') = Cardinality(DOMAIN refs) - 1
      /\ Cardinality(StoredRefs') =
           IF Stored(r) THEN Cardinality(StoredRefs) - 1 ELSE Cardinality(StoredRefs)
  BY <1>1, DroppedRef DEF Drop
<1>3. \A q \in DOMAIN refs : refs[q].idx \in Slots /\ (q # r => refs[q].idx # i)
  BY <1>b, <1>1 DEF TypeOK, SlotsOwned
<1>4. set'[i] = Null /\ \A j \in Slots \ {i} : set'[j] = set[j]
  BY <1>b, <1>1 DEF Drop, TypeOK, Slots
<1>5. ~used_map'[i] /\ \A j \in Slots \ {i} : used_map'[j] = used_map[j]
  BY <1>b, <1>1 DEF Drop, TypeOK, Slots
<1>6. /\ set' \in Seq(Addresses \cup {Null}) /\ used_map' \in Seq(BOOLEAN)
      /\ Len(set') = Len(used_map') /\ Slots' = Slots
  BY <1>b, <1>1, Replaced DEF Drop, TypeOK, Slots
<1>7. TypeOK'
  <2>1. stored_count' \in Int /\ exist_count' \in Int
    BY <1>b DEF Drop, TypeOK
  <2> QED BY <1>b, <1>2, <1>6, <2>1 DEF Drop, TypeOK
<1>8. SlotsOwned'
  <2>1. \A p, q \in DOMAIN refs' : refs'[p].idx = refs'[q].idx => p = q
    BY <1>b, <1>2 DEF SlotsOwned
  <2>2. \A q \in DOMAIN refs' :
          used_map'[refs'[q].idx] /\ (set'[refs'[q].idx] # Null <=> Stored(q)')
    BY <1>b, <1>2, <1>3, <1>4, <1>5 DEF SlotsOwned, Stored
  <2>3. \A j \in Slots' : ~used_map'[j] => set'[j] = Null
    BY <1>b, <1>4, <1>5, <1>6 DEF SlotsOwned
  <2> QED BY <2>1, <2>2, <2>3 DEF SlotsOwned
<1>9. SafepointSafe'
  BY DEF SafepointSafe, Drop
<1>10. Denotes'
  BY <1>b, <1>2, <1>3, <1>4 DEF Denotes, Stored, Drop
<1>11. NothingLeaks'
  <2> SUFFICES ASSUME panics' = 0 PROVE NothingLeaks'
    BY DEF NothingLeaks
  <2>1. NothingLeaks!2
    BY <1>b DEF NothingLeaks, Drop
  <2>2. \A j \in Slots' : used_map'[j] => \E q \in DOMAIN refs' : refs'[q].idx = j
    BY <1>2, <1>3, <1>5, <1>6, <2>1
  <2> QED BY <1>2, <2>1, <2>2 DEF NothingLeaks, Drop
<1>12. CountsSafe'
  BY <1>b, <1>2, FiniteRefs DEF CountsSafe, Drop, TypeOK
<1> QED BY <1>7, <1>8, <1>9, <1>10, <1>11, <1>12 DEF IInv

\* A drop that panics leaves the slot used, as no reference's slot.
LEMMA DropPanicsStep ==
  ASSUME IInv, NEW r \in Refs, DropPanics(r)
  PROVE  IInv'
<1>b. TypeOK /\ SlotsOwned /\ SafepointSafe /\ Denotes /\ CountsSafe
  BY DEF IInv
<1>1. r \in DOMAIN refs /\ Stored(r) /\ Slots' = Slots
  BY DEF DropPanics, Slots
<1>2. /\ DOMAIN refs' = DOMAIN refs \ {r} /\ DOMAIN object' = DOMAIN refs'
      /\ \A q \in DOMAIN refs \ {r} : refs'[q] = refs[q] /\ object'[q] = object[q]
      /\ refs' \in [DOMAIN refs' -> [idx : Slots, ptr : Addresses \cup {Null}]]
      /\ object' \in [DOMAIN refs' -> Objects]
      /\ Cardinality((DOMAIN refs)') = Cardinality(DOMAIN refs) - 1
      /\ StoredRefs' = StoredRefs \ {r}
  BY <1>1, DroppedRef DEF DropPanics
<1>3. TypeOK'
  <2>1. exist_count' \in Int /\ panics' \in Nat
    BY <1>b DEF DropPanics, TypeOK
  <2> QED BY <1>b, <1>1, <1>2, <2>1 DEF DropPanics, TypeOK
<1>4. SlotsOwned'
  <2>1. \A p, q \in DOMAIN refs' : refs'[p].idx = refs'[q].idx => p = q
    BY <1>b, <1>2 DEF SlotsOwned
  <2>2. \A q \in DOMAIN refs' :
          used_map'[refs'[q].idx] /\ (set'[refs'[q].idx] # Null <=> Stored(q)')
    BY <1>b, <1>2 DEF SlotsOwned, Stored, DropPanics
  <2>3. \A j \in Slots' : ~used_map'[j] => set'[j] = Null
    BY <1>b, <1>1 DEF SlotsOwned, DropPanics
  <2> QED BY <2>1, <2>2, <2>3 DEF SlotsOwned
<1>5. SafepointSafe'
  BY DEF SafepointSafe, DropPanics
<1>6. Denotes'
  BY <1>b, <1>2 DEF Denotes, Stored, DropPanics
<1>7. NothingLeaks'
  BY <1>b DEF DropPanics, NothingLeaks, TypeOK
<1>8. CountsSafe'
  <2>1. stored_count' = 0 /\ exist_count' = exist_count - 1
    BY DEF DropPanics
  <2>2. Cardinality(StoredRefs') \in Nat
    BY <1>3, <1>2, <1>b, FiniteRefs, FS_RemoveElement, FS_CardinalityType
  <2> QED BY <1>b, <1>2, <2>1, <2>2 DEF CountsSafe
<1> QED BY <1>3, <1>4, <1>5, <1>6, <1>7, <1>8 DEF IInv

-----------------------------------------------------------------------------
(* The steps of a stop.                                                    *)

\* The assertion lets the thread stop only when every reference is stored.
LEMMA EnterStep == IInv /\ Enter => IInv'
<1> SUFFICES ASSUME IInv, Enter PROVE IInv'
  OBVIOUS
<1>1. SafepointSafe'
  BY AllStored DEF IInv, Enter, SafepointSafe, Stored
<1>2. StoredRefs' = StoredRefs
  BY DEF Enter, StoredRefs, Stored
<1>3. TypeOK'
  BY DEF IInv, Enter, TypeOK, Slots
<1>4. SlotsOwned' /\ Denotes'
  BY DEF IInv, Enter, SlotsOwned, Denotes, Stored, Slots
<1>5. NothingLeaks' /\ CountsSafe'
  BY <1>2 DEF IInv, Enter, NothingLeaks, CountsSafe, Slots
<1> QED BY <1>1, <1>3, <1>4, <1>5 DEF IInv

LEMMA LeaveStep == IInv /\ Leave => IInv'
<1> SUFFICES ASSUME IInv, Leave PROVE IInv'
  OBVIOUS
<1>1. StoredRefs' = StoredRefs
  BY DEF Leave, StoredRefs, Stored
<1>2. TypeOK'
  BY DEF IInv, Leave, TypeOK, Slots
<1>3. SlotsOwned' /\ SafepointSafe' /\ Denotes'
  BY DEF IInv, Leave, SlotsOwned, SafepointSafe, Denotes, Stored, Slots
<1>4. NothingLeaks' /\ CountsSafe'
  BY <1>1 DEF IInv, Leave, NothingLeaks, CountsSafe, Slots
<1> QED BY <1>2, <1>3, <1>4 DEF IInv

\* A move replaces the address in a slot by the address of the same object;
\* nothing else holds one.
LEMMA MoveStep == IInv /\ Move => IInv'
<1> SUFFICES ASSUME IInv, Move PROVE IInv'
  OBVIOUS
<1> DEFINE At(i) == CHOOSE o \in Objects : place[o] = set[i]
<1>b. TypeOK /\ SlotsOwned /\ SafepointSafe /\ Denotes /\ NothingLeaks /\ CountsSafe /\ stopped
  BY DEF IInv, Move
<1>1. StoredRefs' = StoredRefs
  BY DEF Move, StoredRefs, Stored
<1>2. place' \in [Objects -> Addresses]
  BY DEF Move, Placements
<1>3. \A i \in DOMAIN set : (\E o \in Objects : place[o] = set[i]) =>
        At(i) \in Objects /\ place[At(i)] = set[i] /\ set'[i] = place'[At(i)]
  BY DEF Move
<1>4. \A i \in DOMAIN set : ~(\E o \in Objects : place[o] = set[i]) => set'[i] = set[i]
  BY DEF Move
<1>5. \A i \in DOMAIN set : set'[i] \in Addresses \cup {Null} /\ (set'[i] = Null <=> set[i] = Null)
  <2> TAKE i \in DOMAIN set
  <2>1. CASE \E o \in Objects : place[o] = set[i]
    <3>1. set'[i] \in Addresses
      BY <1>2, <1>3, <2>1
    <3>2. set[i] \in Addresses
      BY <1>b, <2>1 DEF TypeOK, Placements
    <3> QED BY <3>1, <3>2, ConstantsAssumption
  <2>2. CASE ~(\E o \in Objects : place[o] = set[i])
    BY <1>b, <1>4, <2>2 DEF TypeOK
  <2> QED BY <2>1, <2>2
<1>6. DOMAIN set' = DOMAIN set /\ set' \in Seq(Addresses \cup {Null}) /\ Len(set') = Len(set)
  <2>1. DOMAIN set = 1 .. Len(set) /\ Len(set) \in Nat
    BY <1>b DEF TypeOK
  <2>2. set' = [i \in 1 .. Len(set) |-> set'[i]]
    BY <2>1 DEF Move
  <2>3. set' \in [1 .. Len(set) -> Addresses \cup {Null}]
    BY <1>5, <2>1, <2>2
  <2> QED BY <2>1, <2>3
<1>7. TypeOK'
  BY <1>b, <1>6 DEF Move, TypeOK, Slots
<1>8. SlotsOwned'
  <2>1. \A i \in Slots : i \in DOMAIN set
    BY <1>b DEF TypeOK, Slots
  <2>2. \A r \in DOMAIN refs : refs[r].idx \in Slots
    BY <1>b DEF TypeOK
  <2> QED BY <1>b, <1>5, <2>1, <2>2 DEF Move, SlotsOwned, Stored, Slots
<1>9. Denotes'
  <2> SUFFICES ASSUME NEW r \in DOMAIN refs
               PROVE  Stored(r) /\ set'[refs[r].idx] = place'[object[r]]
    BY DEF Denotes, Move, Stored
  <2>1. Stored(r) /\ refs[r].idx \in DOMAIN set /\ object[r] \in Objects
    BY <1>b DEF SafepointSafe, TypeOK, Slots
  <2>2. set[refs[r].idx] = place[object[r]]
    BY <1>b, <2>1 DEF Denotes
  <2>3. At(refs[r].idx) = object[r]
    BY <1>b, <1>3, <2>1, <2>2 DEF TypeOK, Placements
  <2> QED BY <1>3, <2>1, <2>2, <2>3
<1>10. SafepointSafe' /\ NothingLeaks' /\ CountsSafe'
  BY <1>b, <1>1 DEF Move, SafepointSafe, NothingLeaks, CountsSafe, Stored, Slots
<1> QED BY <1>7, <1>8, <1>9, <1>10 DEF IInv

-----------------------------------------------------------------------------
(* Theorems.                                                               *)

\* Every step preserves the invariant.
LEMMA NextIInv == IInv /\ [Next]_vars => IInv'
<1> SUFFICES ASSUME IInv, [Next]_vars PROVE IInv'
  OBVIOUS
<1>1. ASSUME NEW r \in Refs, Store(r) \/ Load(r) \/ LoadPanics(r) \/ Drop(r) \/ DropPanics(r)
      PROVE  IInv'
  BY <1>1, StoreStep, LoadStep, LoadPanicsStep, DropStep, DropPanicsStep
<1>2. ASSUME NEW r \in Refs, NEW o \in Objects, AddInNewSlot(r, o)
      PROVE  IInv'
  BY <1>2, AddInNewSlotStep
<1>3. ASSUME NEW r \in Refs, NEW o \in Objects, NEW i \in Slots, AddInFreeSlot(r, o, i)
      PROVE  IInv'
  BY <1>3, AddInFreeSlotStep
<1>4. CASE Enter \/ Move \/ Leave
  BY <1>4, EnterStep, MoveStep, LeaveStep
<1>5. CASE UNCHANGED vars
  <2>1. StoredRefs' = StoredRefs
    BY <1>5 DEF vars, StoredRefs, Stored
  <2>2. TypeOK'
    BY <1>5 DEF vars, IInv, TypeOK, Slots
  <2>3. SlotsOwned' /\ SafepointSafe' /\ Denotes'
    BY <1>5 DEF vars, IInv, SlotsOwned, SafepointSafe, Denotes, Stored, Slots
  <2>4. NothingLeaks' /\ CountsSafe'
    BY <1>5, <2>1 DEF vars, IInv, NothingLeaks, CountsSafe, Slots
  <2> QED BY <2>2, <2>3, <2>4 DEF IInv
<1> QED BY <1>1, <1>2, <1>3, <1>4, <1>5 DEF Next

\* The invariant holds of every behaviour of the references.
THEOREM Invariance == Spec => []IInv
<1> QED BY InitIInv, NextIInv, PTL DEF Spec

\* No reference holds an address where the collector may move objects, whatever
\* calls panicked before and whether or not counters wrap (context.rs:142-169).
THEOREM SafepointIsSafe == Spec => []SafepointSafe
<1>1. IInv => SafepointSafe
  BY DEF IInv
<1> QED BY <1>1, Invariance, PTL

\* Slots have one owner, and the assertions on them hold (context.rs:70-89, 123).
THEOREM SlotsHaveOneOwner == Spec => []SlotsOwned
<1>1. IInv => SlotsOwned
  BY DEF IInv
<1> QED BY <1>1, Invariance, PTL

\* A reference stands for the same object for as long as it exists.
THEOREM ReferencesDenote == Spec => []Denotes
<1>1. IInv => Denotes
  BY DEF IInv
<1> QED BY <1>1, Invariance, PTL

\* Without panics, dropping references leaves no root behind (context.rs:38-55).
THEOREM NoRootLeaks == Spec => []NothingLeaks
<1>1. IInv => NothingLeaks
  BY DEF IInv
<1> QED BY <1>1, Invariance, PTL
=============================================================================
