------------------------------- MODULE Values -------------------------------
(***************************************************************************)
(* What a program that uses uwugc-plus believes of its heap: each root     *)
(* denotes a value, and a value is a tree, for a box is filled by giving   *)
(* up the root of what goes into it.  A tree is the set of its nodes, each *)
(* with the path of boxes that leads to it.  Nothing has an address, and   *)
(* nothing ever changes but by the program's own steps.                    *)
(***************************************************************************)
EXTENDS Naturals, Sequences, SequencesExt

CONSTANTS
  Slots,         (* roots of the program *)
  Fresh          (* the nodes that allocations can return, with empty boxes *)

VARIABLE values  (* what each root denotes; nothing, when it is not used *)

Init == values = [s \in Slots |-> {}]

\* The boxes of a value, as paths.
Boxes(v) == UNION {{Append(n.path, o) : o \in n.boxes} : n \in v}

\* Value v when u is put in box b.
Filled(v, b, u) ==
  {n \in v : ~IsPrefix(b, n.path)} \cup {[n EXCEPT !.path = b \o @] : n \in u}

New(s, old, new) == old[s] = {} /\ \E n \in Fresh : new = [old EXCEPT ![s] = {n}]

Drop(s, old, new) == new = [old EXCEPT ![s] = {}]

\* The root that is stored is given up.
Store(s, r, old, new) ==
  /\ r # s /\ old[r] # {}
  /\ \E b \in Boxes(old[s]) : new = [old EXCEPT ![s] = Filled(old[s], b, old[r]), ![r] = {}]

\* A box is emptied.
Clear(s, old, new) == \E b \in Boxes(old[s]) : new = [old EXCEPT ![s] = Filled(old[s], b, {})]

Next ==
  \E old \in {values}, new \in {values'}, s \in Slots :
    \/ New(s, old, new)
    \/ Drop(s, old, new)
    \/ \E r \in Slots : Store(s, r, old, new)
    \/ Clear(s, old, new)

Spec == Init /\ [][Next]_values

=============================================================================
