---------------------------- MODULE AbstractHeap ----------------------------
(***************************************************************************)
(* The heap the mutators believe in: objects with fields, named by their   *)
(* identity, that never move, and are forgotten only when no root reaches  *)
(* them any more.                                                          *)
(***************************************************************************)
EXTENDS Naturals, FiniteSets

CONSTANTS
  Mutators,  (* threads with a context *)
  Slots,     (* slots of a context's root set *)
  Fields,    (* pointer fields of an object *)
  Ids        (* identities of objects *)

VARIABLE
  heap       (* roots: <<mutator, slot, object>> for every slot in use;
                edges: <<object, field, object>> for every field that is not null *)

\* Everything the roots reach through fields: the smallest set that holds what
\* they refer to and what the fields of its members refer to.
Closed(h, S) ==
  /\ \A r \in h.roots : r[3] \in S
  /\ \A e \in h.edges : e[1] \in S => e[3] \in S

Reach(h) == LET closed == {S \in SUBSET Ids : Closed(h, S)} IN {i \in Ids : \A S \in closed : i \in S}

\* What a slot or a field refers to: one object or none.
In(relation, x, y) == {t[3] : t \in {u \in relation : u[1] = x /\ u[2] = y}}

\* A slot or a field refers to something else.
Refer(relation, x, y, objects) ==
  {u \in relation : <<u[1], u[2]>> # <<x, y>>} \cup {<<x, y, i>> : i \in objects}

\* Slot s of mutator m changes: the heap after it.
Set(h, m, s, objects) == [h EXCEPT !.roots = Refer(@, m, s, objects)]

Init == heap = [roots |-> {}, edges |-> {}]

\* A step of mutator m, from heap h to heap g.
New(h, g, m, s) ==
  \E i \in Ids \ (Reach(h) \cup {e[1] : e \in h.edges}) : g = Set(h, m, s, {i})

Drop(h, g, m, s) == g = Set(h, m, s, {})

Load(h, g, m, s) ==
  \E i \in In(h.roots, m, s), f \in Fields, r \in Slots : g = Set(h, m, r, In(h.edges, i, f))

Store(h, g, m, s) ==
  \E i \in In(h.roots, m, s), f \in Fields, r \in Slots :
    g = [h EXCEPT !.edges = Refer(@, i, f, In(h.roots, m, r))]

\* Objects that cannot be reached are forgotten.
Forget(h, g) ==
  /\ g.roots = h.roots
  /\ g.edges \subseteq h.edges
  /\ \A e \in h.edges \ g.edges : e[1] \notin Reach(h)

Next ==
  \E h \in {heap}, g \in {heap'} :
    /\ g # h
    /\ \/ Forget(h, g)
       \/ \E m \in Mutators, s \in Slots :
            New(h, g, m, s) \/ Drop(h, g, m, s) \/ Load(h, g, m, s) \/ Store(h, g, m, s)

Spec == Init /\ [][Next]_heap

=============================================================================
