---------------------------- MODULE GcVecProofs -----------------------------
(***************************************************************************)
(* GcVec uses references as RootRefs allows, and no safepoint is passed    *)
(* inside a call.                                                          *)
(***************************************************************************)
EXTENDS GcVec, RootRefsProofs, WellFoundedInduction

allvars == <<vars, vecvars, call>>

VInv == IInv /\ SelfLoaded /\ SelfFresh

\* A root for an allocated object is added as in RootRefs.
LEMMA AllocatedStep ==
  ASSUME IInv, NEW r \in Refs, NEW o \in Objects, Allocated(r, o)
  PROVE  /\ Next
         /\ DOMAIN refs' = DOMAIN refs \cup {r} /\ r \notin DOMAIN refs
         /\ \A q \in DOMAIN refs : refs'[q] = refs[q]
         /\ ~stopped /\ stopped' = stopped
<1>1. AddInNewSlot(r, o) \/ \E i \in Slots : AddInFreeSlot(r, o, i)
  BY DEF Allocated
<1>2. Next
  BY <1>1 DEF Next
<1>3. CanAdd(r, o) /\ \E i \in Nat : Add(r, o, i)
  <2>1. Len(set) + 1 \in Nat /\ Slots \subseteq Nat
    BY DEF IInv, TypeOK, Slots
  <2> QED BY <1>1, <2>1 DEF AddInNewSlot, AddInFreeSlot
<1>4. DOMAIN refs' = DOMAIN refs \cup {r} /\ \A q \in DOMAIN refs : refs'[q] = refs[q]
  BY <1>3, AddedRef
<1> QED BY <1>2, <1>3, <1>4 DEF CanAdd, Add

\* Dropping a reference leaves the others as they are.
LEMMA DropOthers ==
  ASSUME NEW r, Drop(r) \/ DropPanics(r)
  PROVE  /\ DOMAIN refs' = DOMAIN refs \ {r}
         /\ \A q \in DOMAIN refs \ {r} : refs'[q] = refs[q]
         /\ ~stopped /\ stopped' = stopped
BY DEF Drop, DropPanics, Without

\* While some reference is loaded the comparison of safepoint fails.
LEMMA LoadedFails ==
  ASSUME IInv, NEW r \in DOMAIN refs, ~Stored(r)
  PROVE  stored_count # exist_count
BY AllStored DEF IInv

\* Initially there is no vector.
LEMMA InitVInv == VecInit => VInv
<1> SUFFICES ASSUME VecInit PROVE VInv
  OBVIOUS
<1>1. call = Idle /\ vec = Null /\ Init
  BY DEF VecInit
<1>2. Idle \in Calls
  BY DEF Idle, Calls
<1> QED BY <1>1, <1>2, InitIInv DEF VInv, SelfLoaded, SelfFresh

\* What the vector does to references, RootRefs allows.
LEMMA StepRefines == VInv /\ [VecNext]_allvars => [Next]_vars
<1> SUFFICES ASSUME VInv, [VecNext]_allvars PROVE [Next]_vars
  OBVIOUS
<1>1. IInv /\ DOMAIN refs \subseteq Refs
  BY DEF VInv, IInv, TypeOK
<1>2. CASE UNCHANGED allvars
  BY <1>2 DEF allvars
<1>3. CASE Client
  BY <1>1, <1>3, AllocatedStep DEF Client, Next
<1>4. CASE DropVec
  <2>1. vec \in Refs
    BY <1>1, <1>4 DEF DropVec, VInv, SelfLoaded
  <2> QED BY <2>1, <1>4 DEF DropVec, Next
<1>5. CASE Suffices \/ GrowSlowly \/ CopyElement \/ Push \/ PushPanics \/ Return
  BY <1>5 DEF Suffices, GrowSlowly, CopyElement, Push, PushPanics, Return
<1>6. ASSUME Drop(call.new) PROVE Next
  BY <1>1, <1>6 DEF Drop, Next
<1>7. CASE SwapBacking \/ Unwind
  BY <1>6, <1>7 DEF SwapBacking, Unwind, vars
<1>8. CASE CheckRoots
  BY <1>8 DEF CheckRoots, Next
<1>9. CASE \E r \in Refs : Park(r)
  BY <1>9 DEF Park, Next
<1>10. CASE \E r \in Refs : \E o \in Objects : NewVec(r, o) \/ Grow(r, o)
  BY <1>1, <1>10, AllocatedStep DEF NewVec, Grow
<1>11. CASE \E n \in 0 .. MaxData, list \in SUBSET (DOMAIN refs \ {vec}) :
              \E data \in [1 .. n -> Data] : Begin(data, list)
  BY <1>11 DEF Begin
<1> QED
  BY <1>2, <1>3, <1>4, <1>5, <1>7, <1>8, <1>9, <1>10, <1>11 DEF VecNext, VecStep

\* Between calls the thread may do anything but lose the vector's reference.
LEMMA ClientKeeps == VInv /\ Client => SelfLoaded' /\ SelfFresh'
<1> SUFFICES ASSUME VInv, Client PROVE SelfLoaded' /\ SelfFresh'
  OBVIOUS
<1>1. IInv /\ SelfLoaded /\ call = Idle /\ call' = call /\ vec' = vec
  BY DEF VInv, Client, vecvars
<1>2. vec \in DOMAIN refs => vec \in DOMAIN refs'
  <2>1. ASSUME NEW r \in Refs, Store(r) \/ Load(r) \/ LoadPanics(r)
        PROVE  DOMAIN refs' = DOMAIN refs
    BY <2>1 DEF Store, Load, LoadPanics
  <2>2. ASSUME NEW r \in Refs, r # vec, Drop(r) \/ DropPanics(r)
        PROVE  vec \in DOMAIN refs => vec \in DOMAIN refs'
    BY <2>2, DropOthers
  <2>3. ASSUME NEW r \in Refs, NEW o \in Objects, Allocated(r, o)
        PROVE  DOMAIN refs \subseteq DOMAIN refs'
    BY <1>1, <2>3, AllocatedStep
  <2>4. CASE Enter \/ Move \/ Leave
    BY <2>4 DEF Enter, Move, Leave
  <2> QED BY <2>1, <2>2, <2>3, <2>4 DEF Client
<1> QED BY <1>1, <1>2 DEF SelfLoaded, SelfFresh

\* A call that changes no reference, or others than the vector's, keeps it loaded.
LEMMA CallKeeps ==
  ASSUME VInv, call # Idle, call' \in Calls, vec' = vec, stopped' = stopped,
         vec \in DOMAIN refs', refs'[vec] = refs[vec],
         vec \notin call'.list \cup call'.park \cup {call'.new}
  PROVE  SelfLoaded' /\ SelfFresh'
BY DEF VInv, SelfLoaded, SelfFresh, Stored

\* Every step of the vector keeps its own reference loaded while a call runs.
LEMMA VecStepKeeps == VInv /\ VecStep => SelfLoaded' /\ SelfFresh'
<1> SUFFICES ASSUME VInv, VecStep PROVE SelfLoaded' /\ SelfFresh'
  OBVIOUS
<1>1. IInv /\ SelfLoaded /\ SelfFresh /\ call \in Calls /\ DOMAIN refs \subseteq Refs
  BY DEF VInv, SelfLoaded, IInv, TypeOK
<1>2. Idle \in Calls /\ Idle.pc = "idle"
  BY DEF Idle, Calls
<1>3. call # Idle => vec \in DOMAIN refs /\ ~Stored(vec) /\ ~stopped
                     /\ vec # call.new /\ vec \notin call.list /\ vec \notin call.park
  BY <1>1 DEF SelfLoaded, SelfFresh
<1>4. CASE DropVec
  BY <1>2, <1>4 DEF DropVec, SelfLoaded, SelfFresh
<1>5. CASE Suffices \/ PushPanics \/ GrowSlowly \/ Push
  <2>1. call # Idle /\ refs' = refs /\ stopped' = stopped /\ vec' = vec
    BY <1>2, <1>5 DEF Suffices, PushPanics, GrowSlowly, Push, vars, vecvars
  <2>2. call' \in Calls /\ call'.new = call.new /\ call'.list = call.list
        /\ call'.park \in {call.park, call.list}
    <3>1. CASE Suffices \/ PushPanics
      BY <1>1, <3>1 DEF Suffices, PushPanics, Calls
    <3>2. CASE GrowSlowly
      BY <1>1, <3>2 DEF GrowSlowly, Calls
    <3>3. CASE Push
      <4>1. call.data \in Seq(Data) /\ call.data # <<>> /\ call' = [call EXCEPT !.data = Tail(call.data)]
        BY <1>1, <3>3 DEF Push, Calls
      <4>2. Tail(call.data) \in Seq(Data)
        BY <4>1
      <4> QED BY <1>1, <4>1, <4>2 DEF Calls
    <3> QED BY <1>5, <3>1, <3>2, <3>3
  <2> QED BY <1>3, <2>1, <2>2, CallKeeps
<1>6. CASE CopyElement
  <2>1. call # Idle /\ refs' = refs /\ stopped' = stopped /\ vec' = vec
    BY <1>2, <1>6 DEF CopyElement, vars
  <2>2. call' \in Calls /\ call'.new = call.new /\ call'.list = call.list
        /\ call'.park \in {call.park, call.list \cup {call.new}}
    <3>1. \/ call' = [call EXCEPT !.at = call.at + 1]
          \/ call' = [call EXCEPT !.pc = "park", !.park = call.list \cup {call.new}]
      BY <1>6 DEF CopyElement
    <3>2. CASE call' = [call EXCEPT !.at = call.at + 1]
      BY <1>1, <3>2 DEF Calls
    <3>3. CASE call' = [call EXCEPT !.pc = "park", !.park = call.list \cup {call.new}]
      BY <1>1, <3>3 DEF Calls
    <3> QED BY <3>1, <3>2, <3>3
  <2> QED BY <1>3, <2>1, <2>2, CallKeeps
<1>7. CASE Return
  BY <1>1, <1>2, <1>7 DEF Return, vars, vecvars, SelfLoaded, SelfFresh
<1>8. CASE SwapBacking
  <2>1. call # Idle /\ vec' = vec /\ Drop(call.new)
    BY <1>2, <1>8 DEF SwapBacking
  <2>2. call' \in Calls /\ call'.new = Null /\ call'.list = call.list /\ call'.park = call.park
    BY <1>1, <1>8 DEF SwapBacking, Calls
  <2>3. vec # Null
    BY <1>1, <2>1 DEF SelfLoaded
  <2> QED BY <1>3, <2>1, <2>2, <2>3, DropOthers, CallKeeps
<1>9. CASE Unwind
  <2>1. call # Idle /\ vec' = vec /\ call' = Idle
    BY <1>2, <1>9 DEF Unwind
  <2>2. vec \in DOMAIN refs'
    BY <1>3, <1>9, <2>1, DropOthers DEF Unwind, vars
  <2> QED BY <1>2, <2>1, <2>2 DEF SelfLoaded, SelfFresh
<1>10. CASE CheckRoots
  <2>1. call # Idle
    BY <1>2, <1>10 DEF CheckRoots
  <2>2. stored_count # exist_count
    BY <1>1, <1>3, <2>1, LoadedFails
  <2>3. refs' = refs /\ stopped' = stopped /\ vec' = vec
    BY <1>10, <2>2 DEF CheckRoots, vars, vecvars
  <2>4. call' \in Calls /\ call'.new = call.new /\ call'.list = call.list /\ call'.park = call.park
    BY <1>1, <1>10, <2>2 DEF CheckRoots, Calls
  <2> QED BY <1>3, <2>1, <2>3, <2>4, CallKeeps
<1>11. ASSUME NEW r \in Refs, Park(r) PROVE SelfLoaded' /\ SelfFresh'
  <2>1. call # Idle /\ vec' = vec /\ r \in call.park
    BY <1>2, <1>11 DEF Park, vecvars
  <2>2. r # vec
    BY <1>3, <2>1
  <2>3. stopped' = stopped /\ vec \in DOMAIN refs' /\ refs'[vec] = refs[vec]
    BY <1>3, <1>11, <2>1, <2>2 DEF Park, Store, vars
  <2>4. call' \in Calls /\ call'.new = call.new /\ call'.list = call.list /\ call'.park \subseteq call.park
    BY <1>1, <1>11 DEF Park, Calls
  <2> QED BY <1>3, <2>1, <2>3, <2>4, CallKeeps
<1>12. ASSUME NEW r \in Refs, NEW o \in Objects, NewVec(r, o) PROVE SelfLoaded' /\ SelfFresh'
  BY <1>1, <1>2, <1>12, AllocatedStep DEF NewVec, SelfLoaded, SelfFresh
<1>13. ASSUME NEW r \in Refs, NEW o \in Objects, Grow(r, o) PROVE SelfLoaded' /\ SelfFresh'
  <2>1. call # Idle /\ vec' = vec /\ Allocated(r, o)
    BY <1>2, <1>13 DEF Grow
  <2>2. call' \in Calls /\ call'.new = r /\ call'.list = call.list /\ call'.park = call.park
    BY <1>1, <1>13 DEF Grow, Calls
  <2> QED BY <1>1, <1>3, <2>1, <2>2, AllocatedStep, CallKeeps
<1>14. ASSUME NEW n \in 0 .. MaxData, NEW list \in SUBSET (DOMAIN refs \ {vec}),
              NEW data \in [1 .. n -> Data], Begin(data, list)
       PROVE  SelfLoaded' /\ SelfFresh'
  <2>1. data \in Seq(Data) /\ list \subseteq Refs
    BY <1>1, VecAssumption
  <2>2. /\ call' \in Calls /\ call'.new = Null /\ call'.list = list /\ call'.park = {}
        /\ vec # Null /\ ~Stored(vec) /\ ~stopped
        /\ refs' = refs /\ stopped' = stopped /\ vec' = vec
    BY <1>14, <2>1 DEF Begin, Idle, Calls, vars, vecvars
  <2> QED BY <1>1, <2>2 DEF SelfLoaded, SelfFresh, Stored
<1> QED
  BY <1>4, <1>5, <1>6, <1>7, <1>8, <1>9, <1>10, <1>11, <1>12, <1>13, <1>14 DEF VecStep

\* The invariant of the vector and of the references under it is inductive.
LEMMA NextVInv == VInv /\ [VecNext]_allvars => VInv'
<1> SUFFICES ASSUME VInv, [VecNext]_allvars PROVE VInv'
  OBVIOUS
<1>1. IInv'
  BY StepRefines, NextIInv DEF VInv
<1>2. SelfLoaded' /\ SelfFresh'
  <2>1. CASE UNCHANGED allvars
    BY <2>1 DEF VInv, SelfLoaded, SelfFresh, Stored, allvars, vars, vecvars
  <2> QED BY <2>1, ClientKeeps, VecStepKeeps DEF VecNext
<1> QED BY <1>1, <1>2 DEF VInv

\* Vectors use the root references as RootRefs says: all that is proved of them
\* holds beside vectors too (vec.rs:36-91, context.rs:38-170).
THEOREM VecImplementsRoots == VecSpec => Spec
<1>1. VecInit => Init
  BY DEF VecInit
<1> QED BY <1>1, InitVInv, NextVInv, StepRefines, PTL DEF VecSpec, Spec, allvars

\* No call of a vector passes a safepoint, for any number of references and
\* after any panics: &mut self never goes stale, and a copy that comes to a safepoint
\* panics (vec.rs:57-62).
THEOREM SelfStaysFresh == VecSpec => []SelfFresh
<1>1. VInv => SelfFresh
  BY DEF VInv
<1> QED BY <1>1, InitVInv, NextVInv, PTL DEF VecSpec, allvars
-----------------------------------------------------------------------------
(* The elements.                                                           *)

\* Natural numbers have a smallest.
LEMMA Smallest == ASSUME NEW T \in SUBSET Nat, T # {} PROVE \E x \in T : \A y \in T : x <= y
<1>1. PICK x \in T : \A y \in T : <<y, x>> \notin OpToRel(<, Nat)
  BY WFMin, NatLessThanWellFounded, Zenon
<1>2. \A y \in T : ~(y < x)
  BY <1>1, Zenon DEF OpToRel
<1> QED BY <1>2

\* There is a power of two above every length: the largest of those up to
\* 2 * len + 1 would otherwise have a double among them.
LEMMA CapacityFits == ASSUME len \in Nat PROVE MinCapacity \in Nat /\ MinCapacity > len
<1>1. PICK b : b = 2 * len + 1
  OBVIOUS
<1>2. PICK P : P = PowersOfTwo(b)
  OBVIOUS
<1>3. b \in Nat /\ b >= 1
  BY <1>1
<1>4. P \subseteq 1 .. b /\ 1 \in P
  BY <1>2, <1>3 DEF PowersOfTwo, Doubling
<1>5. ASSUME NEW n \in P, 2 * n <= b PROVE 2 * n \in P
  <2>1. n \in 1 .. b /\ 2 * n \in 1 .. b
    BY <1>3, <1>4, <1>5
  <2>2. \A S \in SUBSET (1 .. b) : Doubling(S, b) => n \in S
    BY <1>2 DEF PowersOfTwo
  <2>3. \A S \in SUBSET (1 .. b) : Doubling(S, b) => 2 * n \in S
    BY <1>5, <2>2 DEF Doubling
  <2> QED BY <1>2, <2>1, <2>3 DEF PowersOfTwo
<1>6. PICK m \in P : \A n \in P : n <= m
  <2>1. PICK T : T = {b - n : n \in P}
    OBVIOUS
  <2>2. T \in SUBSET Nat /\ T # {}
    BY <1>3, <1>4, <2>1
  <2>3. PICK x \in T : \A y \in T : x <= y
    BY <2>2, Smallest
  <2>4. PICK m \in P : x = b - m
    BY <2>1
  <2>5. ASSUME NEW n \in P PROVE n <= m
    <3>1. b - n \in T
      BY <2>1
    <3>2. b - m <= b - n
      BY <2>3, <2>4, <3>1
    <3> QED BY <1>3, <1>4, <3>2
  <2> QED BY <2>5
<1>7. m > len
  <2> SUFFICES ASSUME m <= len PROVE FALSE
    BY <1>4
  <2>1. 2 * m \in P
    BY <1>1, <1>4, <1>5
  <2> QED BY <1>4, <1>6, <2>1
<1>8. PICK powers : powers = {c \in P : c > len}
  OBVIOUS
<1>9. powers \in SUBSET Nat /\ powers # {}
  <2>1. m \in powers
    BY <1>7, <1>8
  <2>2. P \subseteq Nat
    BY <1>3, <1>4
  <2> QED BY <1>8, <2>1, <2>2
<1>10. \E c \in powers : \A n \in powers : c <= n
  BY <1>9, Smallest, Zenon
<1>11. MinCapacity = CHOOSE c \in powers : \A n \in powers : c <= n
  BY <1>1, <1>2, <1>8 DEF MinCapacity
<1>12. MinCapacity \in powers
  BY <1>10, <1>11
<1> QED BY <1>8, <1>9, <1>12

\* What the objects and the log hold, and nothing while there is no vector.
Held ==
  /\ backing \in Objects \cup {Null} /\ cells \in [Objects -> Seq(Data \cup {Zero})]
  /\ log \in Seq(Data) /\ len \in Nat
  /\ vec = Null => backing = Null /\ len = 0 /\ log = <<>>

\* A backing that is being filled is not the vector's; it has room for one more
\* element than the vector's, and what is copied is the same in both.
Growing ==
  /\ call.pc = "ensure" => call.at = 0
  /\ call.new # Null \/ call.pc = "copy" => call.new \in DOMAIN refs /\ object[call.new] # backing
  /\ call.pc = "copy" => \A new : new = cells[object[call.new]] =>
       /\ Capacity < Len(new) /\ call.at <= Capacity
       /\ \A i \in 1 .. Len(new) : new[i] = IF i <= call.at THEN Elements[i] ELSE Zero

CInv == VInv /\ Held /\ Contents /\ Growing

\* The elements are a sequence.
LEMMA ElementsType ==
  ASSUME Held
  PROVE  /\ Elements \in Seq(Data \cup {Zero}) /\ Capacity \in Nat
         /\ Capacity # 0 => backing # Null /\ backing \in Objects /\ Elements = cells[backing]
<1>1. Elements \in Seq(Data \cup {Zero})
  BY DEF Held, Elements
<1>2. backing = Null => Elements = <<>>
  BY DEF Elements
<1>3. Len(<<>>) = 0
  OBVIOUS
<1> QED BY <1>1, <1>2, <1>3 DEF Held, Elements, Capacity

\* A step that leaves the vector and its backing alone.
LEMMA ElementsStay ==
  ASSUME Held, Contents, vec' = vec, backing' = backing, len' = len, log' = log,
         cells' \in [Objects -> Seq(Data \cup {Zero})],
         backing # Null => cells'[backing] = cells[backing]
  PROVE  Held' /\ Contents' /\ Elements' = Elements /\ Capacity' = Capacity
<1>1. Elements' = Elements /\ Capacity' = Capacity
  BY DEF Elements, Capacity
<1>2. Contents'
  BY <1>1 DEF Contents
<1> QED BY <1>1, <1>2 DEF Held

\* A call that goes on without copying or allocating.
LEMMA CallGoesOn ==
  ASSUME Growing, backing' = backing, call'.pc \notin {"ensure", "copy"}, call'.new = call.new,
         call.new \in DOMAIN refs => call.new \in DOMAIN refs' /\ object'[call.new] = object[call.new]
  PROVE  Growing'
BY DEF Growing

\* Between calls nothing grows.
LEMMA IdleCall == ASSUME call' = Idle PROVE Growing'
BY DEF Growing, Idle

\* The new backing is of zeros, and larger than the old one.
LEMMA GrowFills ==
  ASSUME CInv, NEW r \in Refs, NEW o \in Objects, Grow(r, o)
  PROVE  Held' /\ Contents' /\ Growing'
<1>1. /\ Held /\ Contents /\ Growing /\ IInv /\ call.pc = "ensure" /\ call.at = 0 /\ call \in Calls
      /\ Capacity < MinCapacity /\ Capacity \in Nat /\ len \in Nat /\ DOMAIN object = DOMAIN refs
  BY ElementsType DEF CInv, VInv, Grow, Growing, Held, SelfLoaded, IInv, TypeOK
<1>2. MinCapacity \in Nat
  BY <1>1, CapacityFits
<1>3. PICK zeros : zeros = [i \in 1 .. MinCapacity |-> Zero]
  OBVIOUS
<1>4. zeros \in Seq(Data \cup {Zero}) /\ Len(zeros) = MinCapacity
  BY <1>2, <1>3
<1>5. /\ Allocated(r, o) /\ o # backing
      /\ cells' = [cells EXCEPT ![o] = zeros] /\ call' = [call EXCEPT !.pc = "copy", !.new = r]
      /\ vec' = vec /\ backing' = backing /\ len' = len /\ log' = log
  BY <1>3 DEF Grow, Allocated
<1>6. /\ cells' \in [Objects -> Seq(Data \cup {Zero})] /\ cells'[o] = zeros
      /\ backing # Null => cells'[backing] = cells[backing]
  BY <1>1, <1>4, <1>5 DEF Held
<1>7. Held' /\ Contents' /\ Elements' = Elements /\ Capacity' = Capacity
  BY <1>1, <1>5, <1>6, ElementsStay
<1>8. call'.pc = "copy" /\ call'.new = r /\ call'.at = 0
  BY <1>1, <1>5 DEF Calls
<1>9. r \in DOMAIN refs' /\ object'[r] = o
  <2>1. AddInNewSlot(r, o) \/ \E i \in Slots : AddInFreeSlot(r, o, i)
    BY <1>5 DEF Allocated
  <2>2. CanAdd(r, o) /\ \E i \in Nat : Add(r, o, i)
    <3>1. Len(set) + 1 \in Nat /\ Slots \subseteq Nat
      BY <1>1 DEF IInv, TypeOK, Slots
    <3> QED BY <2>1, <3>1 DEF AddInNewSlot, AddInFreeSlot
  <2> QED BY <1>1, <2>2, AddedRef
<1>10. \A i \in 1 .. Len(zeros) : zeros[i] = Zero /\ ~(i <= 0)
  BY <1>2, <1>3, <1>4
<1>11. Growing'
  BY <1>1, <1>4, <1>5, <1>6, <1>7, <1>8, <1>9, <1>10 DEF Growing
<1> QED BY <1>7, <1>11

\* An element is copied to the new backing; the old one keeps it.
LEMMA CopyFills ==
  ASSUME CInv, CopyElement
  PROVE  Held' /\ Contents' /\ Growing'
<1>1. /\ Held /\ Contents /\ Growing /\ IInv /\ call.pc = "copy" /\ call.at < Capacity /\ call \in Calls
      /\ Capacity \in Nat /\ call.at \in Nat
  BY ElementsType DEF CInv, VInv, CopyElement, SelfLoaded, Calls
<1>2. PICK o : o = object[call.new]
  OBVIOUS
<1>3. PICK new : new = cells[o]
  OBVIOUS
<1>4. PICK k : k = call.at + 1
  OBVIOUS
<1>5. call.new \in DOMAIN refs /\ o # backing /\ o \in Objects
  BY <1>1, <1>2 DEF Growing, IInv, TypeOK
<1>6. /\ new \in Seq(Data \cup {Zero}) /\ Capacity < Len(new)
      /\ \A i \in 1 .. Len(new) : new[i] = IF i <= call.at THEN Elements[i] ELSE Zero
  BY <1>1, <1>2, <1>3, <1>5 DEF Growing, Held
<1>7. k \in 1 .. Capacity /\ k \in 1 .. Len(new) /\ Elements[k] \in Data \cup {Zero}
  <2>1. Elements \in Seq(Data \cup {Zero}) /\ Len(new) \in Nat
    BY <1>1, <1>6, ElementsType
  <2>2. k \in 1 .. Capacity /\ k \in 1 .. Len(new)
    BY <1>1, <1>4, <1>6, <2>1
  <2> QED BY <2>1, <2>2 DEF Capacity
<1>8. PICK longer : longer = [new EXCEPT ![k] = Elements[k]]
  OBVIOUS
<1>9. /\ longer \in Seq(Data \cup {Zero}) /\ Len(longer) = Len(new) /\ longer[k] = Elements[k]
      /\ \A i \in 1 .. Len(new) : i # k => longer[i] = new[i]
  BY <1>6, <1>7, <1>8
<1>10. /\ cells' = [cells EXCEPT ![o] = longer]
       /\ vec' = vec /\ backing' = backing /\ len' = len /\ log' = log /\ refs' = refs /\ object' = object
       /\ \/ call' = [call EXCEPT !.at = k]
          \/ call' = [call EXCEPT !.pc = "park", !.park = call.list \cup {call.new}]
  BY <1>2, <1>3, <1>4, <1>5, <1>8 DEF CopyElement, vars, Held
<1>11. /\ cells' \in [Objects -> Seq(Data \cup {Zero})] /\ cells'[o] = longer
       /\ backing # Null => cells'[backing] = cells[backing]
  BY <1>1, <1>5, <1>9, <1>10 DEF Held
<1>12. Held' /\ Contents' /\ Elements' = Elements /\ Capacity' = Capacity
  BY <1>1, <1>10, <1>11, ElementsStay
<1>13. CASE call' = [call EXCEPT !.at = k]
  <2>1. call'.pc = "copy" /\ call'.new = call.new /\ call'.at = k
    BY <1>1, <1>13 DEF Calls
  <2>2. k <= Capacity /\ Len(longer) \in Nat
    BY <1>1, <1>7, <1>9
  <2>3. ASSUME NEW i \in 1 .. Len(longer) PROVE longer[i] = IF i <= k THEN Elements[i] ELSE Zero
    <3>1. i \in 1 .. Len(new) /\ (i <= k <=> i = k \/ i <= call.at)
      BY <1>1, <1>4, <1>9, <2>2
    <3>2. i # k => longer[i] = IF i <= call.at THEN Elements[i] ELSE Zero
      BY <1>6, <1>9, <3>1
    <3> QED BY <1>9, <3>1, <3>2
  <2>4. object'[call'.new] = o /\ cells'[object'[call'.new]] = longer
    BY <1>2, <1>10, <1>11, <2>1
  <2>5. Growing'
    BY <1>5, <1>6, <1>9, <1>10, <1>12, <2>1, <2>2, <2>3, <2>4 DEF Growing
  <2> QED BY <1>12, <2>5
<1>14. CASE call' = [call EXCEPT !.pc = "park", !.park = call.list \cup {call.new}]
  <2>1. call'.pc = "park" /\ call'.new = call.new
    BY <1>1, <1>14 DEF Calls
  <2>2. Growing'
    BY <1>1, <1>10, <2>1, CallGoesOn
  <2> QED BY <1>12, <2>2
<1> QED BY <1>10, <1>13, <1>14

\* The new backing has what the old one had, and zeros behind it.
LEMMA SwapKeeps ==
  ASSUME CInv, SwapBacking
  PROVE  Held' /\ Contents' /\ Growing'
<1>1. /\ Held /\ Contents /\ Growing /\ IInv /\ SelfLoaded /\ call.pc = "copy" /\ call.at = Capacity
      /\ call \in Calls /\ Capacity \in Nat
  BY ElementsType DEF CInv, VInv, SwapBacking, SelfLoaded
<1>2. PICK o : o = object[call.new]
  OBVIOUS
<1>3. PICK new : new = cells[o]
  OBVIOUS
<1>4. call.new \in DOMAIN refs /\ o # backing /\ o \in Objects /\ o # Null
  BY <1>1, <1>2, VecAssumption DEF Growing, IInv, TypeOK
<1>5. /\ new \in Seq(Data \cup {Zero}) /\ Capacity < Len(new) /\ Len(new) \in Nat
      /\ \A i \in 1 .. Len(new) : new[i] = IF i <= Capacity THEN Elements[i] ELSE Zero
  BY <1>1, <1>2, <1>3, <1>4 DEF Growing, Held
<1>6. /\ backing' = o /\ cells' = [q \in Objects |-> IF q = backing THEN <<>> ELSE cells[q]]
      /\ call' = [call EXCEPT !.pc = "push", !.new = Null]
      /\ vec' = vec /\ len' = len /\ log' = log
  BY <1>2 DEF SwapBacking
<1>7. cells' \in [Objects -> Seq(Data \cup {Zero})] /\ cells'[o] = new
  BY <1>1, <1>3, <1>4, <1>6 DEF Held
<1>8. Elements' = new /\ Capacity' = Len(new)
  BY <1>4, <1>6, <1>7 DEF Elements, Capacity
<1>9. vec # Null
  BY <1>1 DEF SelfLoaded, Idle
<1>10. len = Len(log) /\ len <= Capacity /\ \A i \in 1 .. Capacity : Elements[i] = IF i <= len THEN log[i] ELSE Zero
  BY <1>1, <1>9 DEF Contents
<1>11. ASSUME NEW i \in 1 .. Len(new) PROVE new[i] = IF i <= len THEN log[i] ELSE Zero
  <2>1. CASE i <= Capacity
    <3>1. i \in 1 .. Capacity /\ new[i] = Elements[i]
      BY <1>1, <1>5, <2>1
    <3> QED BY <1>10, <3>1
  <2>2. CASE ~(i <= Capacity)
    <3>1. ~(i <= len)
      BY <1>1, <1>10, <2>2 DEF Held
    <3> QED BY <1>5, <2>2, <3>1
  <2> QED BY <2>1, <2>2
<1>12. Contents'
  <2>1. len <= Len(new)
    BY <1>1, <1>5, <1>10 DEF Held
  <2> QED BY <1>6, <1>8, <1>10, <1>11, <2>1 DEF Contents
<1>13. Held'
  BY <1>1, <1>4, <1>6, <1>7, <1>9 DEF Held
<1>14. call'.pc = "push" /\ call'.new = Null
  BY <1>1, <1>6 DEF Calls
<1>15. Growing'
  BY <1>14 DEF Growing
<1> QED BY <1>12, <1>13, <1>15

\* An element is added behind the others, where there was a zero.
LEMMA PushAppends ==
  ASSUME CInv, Push
  PROVE  Held' /\ Contents' /\ Growing'
<1>1. /\ Held /\ Contents /\ Growing /\ SelfLoaded /\ call.pc = "push" /\ call.data # <<>> /\ len < Capacity
      /\ call \in Calls /\ Capacity \in Nat /\ len \in Nat /\ log \in Seq(Data)
      /\ Elements \in Seq(Data \cup {Zero})
  BY ElementsType DEF CInv, VInv, Push, SelfLoaded, Held
<1>2. backing \in Objects /\ backing # Null /\ Elements = cells[backing]
  BY <1>1, ElementsType
<1>3. PICK d : d = Head(call.data)
  OBVIOUS
<1>4. d \in Data
  BY <1>1, <1>3 DEF Calls
<1>5. PICK longer : longer = [Elements EXCEPT ![len + 1] = d]
  OBVIOUS
<1>6. len + 1 \in 1 .. Len(Elements)
  BY <1>1 DEF Capacity
<1>7. /\ longer \in Seq(Data \cup {Zero}) /\ Len(longer) = Capacity /\ longer[len + 1] = d
      /\ \A i \in 1 .. Capacity : i # len + 1 => longer[i] = Elements[i]
  BY <1>1, <1>4, <1>5, <1>6 DEF Capacity
<1>8. /\ cells' = [cells EXCEPT ![backing] = longer] /\ len' = len + 1 /\ log' = Append(log, d)
      /\ call' = [call EXCEPT !.data = Tail(call.data)]
      /\ vec' = vec /\ backing' = backing /\ refs' = refs /\ object' = object
  BY <1>1, <1>2, <1>3, <1>5 DEF Push, vars, Held
<1>9. cells' \in [Objects -> Seq(Data \cup {Zero})] /\ cells'[backing] = longer
  BY <1>1, <1>2, <1>7, <1>8 DEF Held
<1>10. Elements' = longer /\ Capacity' = Capacity
  BY <1>2, <1>7, <1>8, <1>9 DEF Elements, Capacity
<1>11. vec # Null
  BY <1>1 DEF SelfLoaded, Idle
<1>12. len = Len(log) /\ \A i \in 1 .. Capacity : Elements[i] = IF i <= len THEN log[i] ELSE Zero
  BY <1>1, <1>11 DEF Contents
<1>13. Len(log') = len + 1 /\ log'[len + 1] = d /\ \A i \in 1 .. len : log'[i] = log[i]
  BY <1>1, <1>4, <1>8, <1>12
<1>14. ASSUME NEW i \in 1 .. Capacity PROVE longer[i] = IF i <= len + 1 THEN log'[i] ELSE Zero
  <2>1. CASE i = len + 1
    BY <1>7, <1>13, <2>1
  <2>2. CASE i # len + 1
    <3>1. longer[i] = IF i <= len THEN log[i] ELSE Zero
      BY <1>7, <1>12, <2>2
    <3>2. (i <= len + 1 <=> i <= len) /\ (i <= len => i \in 1 .. len)
      BY <1>1, <2>2
    <3> QED BY <1>13, <3>1, <3>2
  <2> QED BY <2>1, <2>2
<1>15. Contents'
  <2>1. len + 1 <= Capacity
    BY <1>1
  <2> QED BY <1>8, <1>10, <1>13, <1>14, <2>1 DEF Contents
<1>16. Held'
  BY <1>1, <1>2, <1>4, <1>8, <1>9, <1>11 DEF Held
<1>17. call'.pc = "push" /\ call'.new = call.new
  BY <1>1, <1>8 DEF Calls
<1>18. Growing'
  BY <1>1, <1>8, <1>17, CallGoesOn
<1> QED BY <1>15, <1>16, <1>18

\* Between calls the vector is as it was, or it is made or dropped.
LEMMA BetweenCalls ==
  ASSUME CInv, Client \/ DropVec \/ \E r \in Refs : \E o \in Objects : NewVec(r, o)
  PROVE  Held' /\ Contents' /\ Growing'
<1>1. Held /\ Contents /\ call' = Idle
  BY DEF CInv, Client, DropVec, NewVec
<1>2. Growing'
  BY <1>1, IdleCall
<1>3. CASE Client
  <2>1. UNCHANGED vecvars
    BY <1>3 DEF Client
  <2> QED BY <1>1, <1>2, <2>1, ElementsStay DEF vecvars, Held
<1>4. CASE DropVec
  <2>1. vec' = Null /\ backing' = Null /\ len' = 0 /\ log' = <<>> /\ cells' = [o \in Objects |-> <<>>]
    BY <1>4 DEF DropVec
  <2>2. Held' /\ Contents'
    BY <2>1 DEF Held, Contents
  <2> QED BY <1>2, <2>2
<1>5. CASE \E r \in Refs : \E o \in Objects : NewVec(r, o)
  <2>1. vec = Null /\ backing' = backing /\ len' = len /\ cells' = cells /\ log' = log
        /\ vec' \in Refs
    BY <1>5 DEF NewVec
  <2>2. backing = Null /\ len = 0 /\ log = <<>>
    BY <1>1, <2>1 DEF Held
  <2>3. Elements' = <<>> /\ Capacity' = 0
    BY <2>1, <2>2 DEF Elements, Capacity
  <2>4. Held'
    BY <1>1, <2>1, <2>2 DEF Held
  <2>5. Contents'
    BY <2>1, <2>2, <2>3 DEF Contents
  <2> QED BY <1>2, <2>4, <2>5
<1> QED BY <1>3, <1>4, <1>5

\* A panic empties the new backing, which is not the vector's.
LEMMA UnwindKeeps ==
  ASSUME CInv, Unwind
  PROVE  Held' /\ Contents' /\ Growing'
<1>1. /\ Held /\ Contents /\ Growing /\ IInv /\ call' = Idle
      /\ vec' = vec /\ backing' = backing /\ len' = len /\ log' = log
  BY DEF CInv, VInv, Unwind
<1>2. CASE call.new = Null
  <2>1. cells' = cells
    BY <1>2 DEF Unwind
  <2> QED BY <1>1, <2>1, ElementsStay, IdleCall DEF Held
<1>3. CASE call.new # Null
  <2>1. PICK o : o = object[call.new]
    OBVIOUS
  <2>2. o \in Objects /\ o # backing
    BY <1>1, <1>3, <2>1 DEF Growing, IInv, TypeOK
  <2>3. cells' = [cells EXCEPT ![o] = <<>>]
    BY <1>3, <2>1 DEF Unwind
  <2>4. cells' \in [Objects -> Seq(Data \cup {Zero})] /\ (backing # Null => cells'[backing] = cells[backing])
    BY <1>1, <2>2, <2>3 DEF Held
  <2> QED BY <1>1, <2>4, ElementsStay, IdleCall
<1> QED BY <1>2, <1>3

\* The other steps of a call leave every element alone.
LEMMA CallsKeep ==
  ASSUME CInv,
         \/ Suffices \/ GrowSlowly \/ CheckRoots \/ PushPanics \/ Return
         \/ \E r \in Refs : Park(r)
         \/ \E n \in 0 .. MaxData, list \in SUBSET (DOMAIN refs \ {vec}) :
              \E data \in [1 .. n -> Data] : Begin(data, list)
  PROVE  Held' /\ Contents' /\ Growing'
<1>1. Held /\ Contents /\ Growing /\ call \in Calls /\ DOMAIN refs \subseteq Refs
  BY DEF CInv, VInv, SelfLoaded, IInv, TypeOK
<1>2. UNCHANGED vecvars
  BY DEF Suffices, GrowSlowly, CheckRoots, PushPanics, Return, Park, Begin
<1>3. Held' /\ Contents'
  BY <1>1, <1>2, ElementsStay DEF vecvars, Held
<1>4. backing' = backing
  BY <1>2 DEF vecvars
<1>5. CASE Suffices \/ GrowSlowly \/ PushPanics
  <2>1. call'.pc \in {"push", "park", "unwind"} /\ call'.new = call.new /\ refs' = refs /\ object' = object
    BY <1>1, <1>5 DEF Suffices, GrowSlowly, PushPanics, Calls, vars
  <2> QED BY <1>1, <1>3, <1>4, <2>1, CallGoesOn
<1>6. CASE CheckRoots
  <2>1. call'.pc \in {"stopped", "unwind"} /\ call'.new = call.new
    BY <1>1, <1>6 DEF CheckRoots, Calls
  <2>2. refs' = refs /\ object' = object
    BY <1>6 DEF CheckRoots, Enter, vars
  <2> QED BY <1>1, <1>3, <1>4, <2>1, <2>2, CallGoesOn
<1>7. CASE \E r \in Refs : Park(r)
  <2>1. PICK r \in Refs : Park(r)
    BY <1>7
  <2>2. call'.pc \in {"park", "unwind"} /\ call'.new = call.new
    BY <1>1, <2>1 DEF Park, Calls
  <2>3. DOMAIN refs' = DOMAIN refs /\ object' = object
    BY <2>1 DEF Park, Store, vars
  <2> QED BY <1>1, <1>3, <1>4, <2>2, <2>3, CallGoesOn
<1>8. CASE Return
  BY <1>3, <1>8, IdleCall DEF Return
<1>9. CASE \E n \in 0 .. MaxData, list \in SUBSET (DOMAIN refs \ {vec}) :
              \E data \in [1 .. n -> Data] : Begin(data, list)
  <2>1. call'.pc = "ensure" /\ call'.at = 0 /\ call'.new = Null
    BY <1>9 DEF Begin, Idle
  <2> QED BY <1>3, <2>1 DEF Growing
<1> QED BY <1>5, <1>6, <1>7, <1>8, <1>9

\* Initially there is nothing to hold.
LEMMA InitCInv == VecInit => CInv
<1> SUFFICES ASSUME VecInit PROVE CInv
  OBVIOUS
<1>1. /\ vec = Null /\ backing = Null /\ len = 0 /\ cells = [o \in Objects |-> <<>>]
      /\ call = Idle /\ log = <<>>
  BY DEF VecInit
<1>2. Held
  BY <1>1 DEF Held
<1>3. Contents
  BY <1>1 DEF Contents
<1>4. Growing
  BY <1>1 DEF Growing, Idle
<1> QED BY <1>2, <1>3, <1>4, InitVInv DEF CInv

\* The invariant of the elements is inductive.
LEMMA NextCInv == CInv /\ [VecNext]_allvars => CInv'
<1> SUFFICES ASSUME CInv, [VecNext]_allvars PROVE CInv'
  OBVIOUS
<1>1. VInv'
  BY NextVInv DEF CInv
<1>2. Held' /\ Contents' /\ Growing'
  <2>1. CASE UNCHANGED allvars
    <3>1. Held /\ Contents /\ Growing /\ UNCHANGED allvars
      BY <2>1 DEF CInv
    <3>2. Elements' = Elements /\ Capacity' = Capacity
      BY <3>1 DEF Elements, Capacity, allvars, vecvars
    <3>3. Held' /\ Contents'
      BY <3>1, ElementsStay DEF Held, allvars, vecvars
    <3> QED BY <3>1, <3>2, <3>3 DEF Growing, allvars, vars, vecvars
  <2>2. CASE Client \/ DropVec \/ \E r \in Refs : \E o \in Objects : NewVec(r, o)
    BY <2>2, BetweenCalls
  <2>3. CASE \E r \in Refs : \E o \in Objects : Grow(r, o)
    BY <2>3, GrowFills
  <2>4. CASE CopyElement \/ SwapBacking \/ Unwind \/ Push
    BY <2>4, CopyFills, SwapKeeps, UnwindKeeps, PushAppends
  <2>5. CASE \/ Suffices \/ GrowSlowly \/ CheckRoots \/ PushPanics \/ Return
             \/ \E r \in Refs : Park(r)
             \/ \E n \in 0 .. MaxData, list \in SUBSET (DOMAIN refs \ {vec}) :
                  \E data \in [1 .. n -> Data] : Begin(data, list)
    BY <2>5, CallsKeep
  <2> QED BY <2>1, <2>2, <2>3, <2>4, <2>5 DEF VecNext, VecStep
<1> QED BY <1>1, <1>2 DEF CInv

\* A vector holds what was inserted, in order, with zeros behind it: at every
\* point of a growth, after any panic, for every period of the copy and any
\* number of references (vec.rs:48-66, 86-90; zero_or_init.rs:35-46).
THEOREM NothingIsLost == VecSpec => []Contents
<1>1. CInv => Contents
  BY DEF CInv
<1> QED BY <1>1, InitCInv, NextCInv, PTL DEF VecSpec, allvars

=============================================================================
