------------------------------- MODULE GcVec --------------------------------
(***************************************************************************)
(* The growable vector of uwugc-plus-alloc (vec.rs, zero_or_init.rs) as a  *)
(* client of the root references of its thread.  The vector is an object   *)
(* with one reference; its elements are in a second object, the backing.   *)
(*                                                                         *)
(* insert and resize_with borrow the vector as &mut self through its       *)
(* reference, so that reference is loaded and cannot be part of the        *)
(* safepoint argument.  What a call does to references are actions of      *)
(* RootRefs.  insert(d) is resize_with(1, d): the code differs in nothing. *)
(* A backing that is not used any more is shown as empty.                  *)
(***************************************************************************)
EXTENDS RootRefs

CONSTANTS
  Data,    (* elements *)
  Zero,    (* an element of zeros, where nothing was written *)
  Period,  (* 512 in the code: how often a copy takes no safepoint *)
  MaxData  (* bound: elements that one call adds *)

\* None is not an object either.
ASSUME VecAssumption ==
  Null \notin Objects /\ Zero \notin Data /\ {Period, MaxData} \subseteq Nat \ {0}

VARIABLES
  vec,      (* reference to the vector, Null while there is none *)
  backing,  (* object that holds the elements, or Null *)
  len,
  cells,    (* the elements in each object *)
  call,     (* the call in progress *)
  log       (* auxiliary: the elements inserted *)

vecvars == <<vec, backing, len, cells, log>>

(* data: what is left to add; list: the safepoint argument; park: references
   that before_safepoint has yet to store; new: reference to the backing just
   allocated; at: elements copied to it. *)
Idle == [pc |-> "idle", data |-> <<>>, list |-> {}, park |-> {}, new |-> Null, at |-> 0]
Calls ==
  [pc : {"idle", "ensure", "copy", "park", "stopped", "push", "unwind"}, data : Seq(Data),
   list : SUBSET Refs, park : SUBSET (Refs \cup {Null}), new : Refs \cup {Null}, at : Nat]

Elements == IF backing = Null THEN <<>> ELSE cells[backing]
Capacity == Len(Elements)

\* The powers of two up to b: the smallest set with 1 and the doubles of its members.
Doubling(S, b) == 1 \in S /\ \A n \in S : 2 * n <= b => 2 * n \in S

PowersOfTwo(b) ==
  LET doubling == {S \in SUBSET (1 .. b) : Doubling(S, b)}
  IN  {n \in 1 .. b : \A S \in doubling : n \in S}

\* len + 1, rounded up to a power of two.
MinCapacity ==
  LET powers == {c \in PowersOfTwo(2 * len + 1) : c > len}
  IN  CHOOSE c \in powers : \A b \in powers : c <= b

VecInit ==
  /\ Init
  /\ vec = Null /\ backing = Null /\ len = 0
  /\ cells = [o \in Objects |-> <<>>]
  /\ call = Idle
  /\ log = <<>>

\* A root of its own for an object just allocated; the backing is not free.
Allocated(r, o) ==
  /\ o # backing
  /\ AddInNewSlot(r, o) \/ \E i \in Slots : AddInFreeSlot(r, o, i)

\* Between calls the thread does as it likes with all its references.
Client ==
  /\ call = Idle
  /\ \/ \E r \in Refs :
          \/ Store(r) \/ Load(r) \/ LoadPanics(r)
          \/ r # vec /\ (Drop(r) \/ DropPanics(r))
          \/ \E o \in Objects : Allocated(r, o)
     \/ Enter \/ Move \/ Leave
  /\ UNCHANGED <<vecvars, call>>

NewVec(r, o) ==
  /\ call = Idle
  /\ vec = Null
  /\ Allocated(r, o)
  /\ vec' = r
  /\ UNCHANGED <<backing, len, cells, call, log>>

DropVec ==
  /\ call = Idle
  /\ vec # Null
  /\ Drop(vec) \/ DropPanics(vec)
  /\ vec' = Null /\ backing' = Null /\ len' = 0
  /\ cells' = [o \in Objects |-> <<>>]
  /\ log' = <<>>
  /\ UNCHANGED call

\* insert or resize_with: deref_mut needs the reference loaded.
Begin(data, list) ==
  /\ call = Idle
  /\ ~stopped
  /\ vec # Null /\ ~Stored(vec)
  /\ call' = [Idle EXCEPT !.pc = "ensure", !.data = data, !.list = list]
  /\ UNCHANGED <<vars, vecvars>>

\* ensure_capacity has nothing to do.
Suffices ==
  /\ call.pc = "ensure"
  /\ Capacity >= MinCapacity
  /\ call' = [call EXCEPT !.pc = "push"]
  /\ UNCHANGED <<vars, vecvars>>

\* alloc_fast gives a new backing, of zeros.
Grow(r, o) ==
  /\ call.pc = "ensure"
  /\ Capacity < MinCapacity
  /\ Allocated(r, o)
  /\ cells' = [cells EXCEPT ![o] = [i \in 1 .. MinCapacity |-> Zero]]
  /\ call' = [call EXCEPT !.pc = "copy", !.new = r]
  /\ UNCHANGED <<vec, backing, len, log>>

\* alloc_fast fails, and alloc_slow takes a safepoint.
GrowSlowly ==
  /\ call.pc = "ensure"
  /\ Capacity < MinCapacity
  /\ call' = [call EXCEPT !.pc = "park", !.park = call.list]
  /\ UNCHANGED <<vars, vecvars>>

\* (mutant) take leaves zeros behind.
CopyElementAway ==
  /\ call.pc = "copy" /\ call.at < Capacity
  /\ cells' = [cells EXCEPT ![object[call.new]][call.at + 1] = Elements[call.at + 1],
                            ![backing][call.at + 1] = Zero]
  /\ call' = IF call.at % Period = 0 THEN [call EXCEPT !.at = @ + 1]
             ELSE [call EXCEPT !.pc = "park", !.park = call.list \cup {call.new}]
  /\ UNCHANGED <<vars, vec, backing, len, log>>

\* One element is copied; take leaves it where it was.  A safepoint follows
\* after every element but each 512th.
CopyElement ==
  /\ call.pc = "copy" /\ call.at < Capacity
  /\ cells' = [cells EXCEPT ![object[call.new]][call.at + 1] = Elements[call.at + 1]]
  /\ call' = IF call.at % Period = 0 THEN [call EXCEPT !.at = @ + 1]
             ELSE [call EXCEPT !.pc = "park", !.park = call.list \cup {call.new}]
  /\ UNCHANGED <<vars, vec, backing, len, log>>

\* The new backing is stored in the vector, which consumes its reference.
SwapBacking ==
  /\ call.pc = "copy" /\ call.at = Capacity
  /\ Drop(call.new)
  /\ backing' = object[call.new]
  /\ cells' = [o \in Objects |-> IF o = backing THEN <<>> ELSE cells[o]]
  /\ call' = [call EXCEPT !.pc = "push", !.new = Null]
  /\ UNCHANGED <<vec, len, log>>

\* before_safepoint stores the new backing's reference and then the caller's;
\* one that is stored already panics.
Park(r) ==
  /\ call.pc = "park" /\ r \in call.park
  /\ r = call.new \/ call.new \notin call.park
  /\ \/ /\ Store(r)
        /\ call' = [call EXCEPT !.park = @ \ {r}]
     \/ /\ Stored(r)
        /\ call' = [call EXCEPT !.pc = "unwind"]
        /\ UNCHANGED vars
  /\ UNCHANGED vecvars

\* (mutant) safepoint does not compare the counters.
CheckNothing ==
  /\ call.pc = "park" /\ call.park = {}
  /\ stopped' = TRUE
  /\ call' = [call EXCEPT !.pc = "stopped"]
  /\ UNCHANGED <<set, used_map, stored_count, exist_count, refs, panics, object, place, vecvars>>

\* The safepoint itself.  What would follow on one that is passed is left out:
\* SelfFresh says that none is.
CheckRoots ==
  /\ call.pc = "park" /\ call.park = {}
  /\ IF stored_count = exist_count
     THEN Enter /\ call' = [call EXCEPT !.pc = "stopped"]
     ELSE UNCHANGED vars /\ call' = [call EXCEPT !.pc = "unwind"]
  /\ UNCHANGED vecvars

\* A panic drops the new backing.  The caller's references stay stored.
Unwind ==
  /\ call.pc = "unwind"
  /\ IF call.new = Null THEN UNCHANGED <<vars, cells>>
     ELSE Drop(call.new) /\ cells' = [cells EXCEPT ![object[call.new]] = <<>>]
  /\ call' = Idle
  /\ UNCHANGED <<vec, backing, len, log>>

Push ==
  /\ call.pc = "push" /\ call.data # <<>> /\ len < Capacity
  /\ cells' = [cells EXCEPT ![backing][len + 1] = Head(call.data)]
  /\ len' = len + 1
  /\ log' = Append(log, Head(call.data))
  /\ call' = [call EXCEPT !.data = Tail(@)]
  /\ UNCHANGED <<vars, vec, backing>>

\* resize_with has made room for one element only: the index is out of bounds.
PushPanics ==
  /\ call.pc = "push" /\ call.data # <<>> /\ len = Capacity
  /\ call' = [call EXCEPT !.pc = "unwind"]
  /\ UNCHANGED <<vars, vecvars>>

Return ==
  /\ call.pc = "push" /\ call.data = <<>>
  /\ call' = Idle
  /\ UNCHANGED <<vars, vecvars>>

VecStep ==
  \/ DropVec \/ Suffices \/ GrowSlowly \/ CopyElement \/ SwapBacking
  \/ CheckRoots \/ Unwind \/ Push \/ PushPanics \/ Return
  \/ \E r \in Refs : Park(r) \/ \E o \in Objects : NewVec(r, o) \/ Grow(r, o)
  \/ \E n \in 0 .. MaxData, list \in SUBSET (DOMAIN refs \ {vec}) :
       \E data \in [1 .. n -> Data] : Begin(data, list)

VecNext == Client \/ VecStep

VecSpec == VecInit /\ [][VecNext]_<<vars, vecvars, call>>

-----------------------------------------------------------------------------
(* Properties.                                                             *)

\* The vector holds what was inserted, in order, and zeros behind it, at every
\* point of a growth and also after a call that panicked half way
\* (vec.rs:48-66, 86-90; zero_or_init.rs:35-46).
Contents ==
  vec # Null =>
    /\ len = Len(log) /\ len <= Capacity
    /\ \A i \in 1 .. Capacity : Elements[i] = IF i <= len THEN log[i] ELSE Zero

\* The world never stops inside a call: &mut self and the old backing would be
\* stale after it.  So the safepoints of a growth can only panic, whatever
\* has panicked before (vec.rs:57-62, context.rs:142-165).
SelfFresh == call # Idle => ~stopped

\* Why: the vector's own reference is loaded from the beginning of a call to its
\* end, being neither in the safepoint argument nor the new backing's.
SelfLoaded ==
  /\ call \in Calls
  /\ vec # Null => vec \in DOMAIN refs
  /\ call # Idle =>
       /\ vec # Null /\ ~Stored(vec)
       /\ vec \notin call.list \cup call.park \cup {call.new}

=============================================================================
