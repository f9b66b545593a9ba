------------------------------- MODULE Layout -------------------------------
(***************************************************************************)
(* How uwugc-plus describes the layout of objects: the descriptors of the  *)
(* types a program can allocate, the iterators that turn a descriptor into *)
(* the offsets the collector visits, and the sizes computed from it.       *)
(* Beside them stands what they have to agree with: where the pointers of  *)
(* a type really are.  Sizes and offsets are in bytes.                     *)
(***************************************************************************)
EXTENDS Naturals, Sequences, SequencesExt

CONSTANTS
  StaticTypes,  (* descriptors of the types a program allocates *)
  Registered,   (* descriptors a program registers at run time *)
  MaxDepth      (* bound: how deep structs lie in one another *)

Word == 8              (* bytes of a pointer, and of a usize *)
ArrayHeader == Word    (* the length, in front of an array's elements *)
Metadata == Word       (* MetadataCompressed, in front of every object *)

-----------------------------------------------------------------------------
\* Descriptors: offsets of pointers, and descriptors of parts at their offsets.
Descriptor(fields, size, unflattened) ==
  [fields |-> fields, unflattened |-> unflattened, size |-> size, is_array |-> FALSE]

\* Every type of std that can be put in the heap: no pointers of the heap in it.
Plain(size) == Descriptor(<<>>, size, <<>>)

\* GCBox and GCBoxOption: one pointer, and nothing else.
Box == Descriptor(<<0>>, Word, <<>>)

\* #[derive(HasDescriptor)]: a struct has no fields of its own, only parts,
\* which lie one behind the other.
Derived(parts) ==
  LET end[i \in 0 .. Len(parts)] == IF i = 0 THEN 0 ELSE end[i - 1] + parts[i].size
  IN  Descriptor(<<>>, end[Len(parts)], [i \in 1 .. Len(parts) |-> <<end[i - 1], parts[i]>>])

\* Array<T>: the descriptor of an element, with the flag set.
ToArray(element) == [element EXCEPT !.is_array = TRUE]

-----------------------------------------------------------------------------
\* The descriptors of a program: those of its types, and of their parts.
Descriptors ==
  LET parts[n \in 0 .. MaxDepth] ==
        IF n = 0 THEN StaticTypes \cup Registered
        ELSE {part[2] : part \in UNION {ToSet(desc.unflattened) : desc \in parts[n - 1]}}
  IN  UNION {parts[n] : n \in 0 .. MaxDepth}

\* Where the pointers of a value are: the definition the code is held against.
PointersIn[desc \in Descriptors] ==
  ToSet(desc.fields) \cup
    UNION {{part[1] + offset : offset \in PointersIn[part[2]]} : part \in ToSet(desc.unflattened)}

\* The same for an object of len elements, or of a type that is no array.
PointersOf(desc, len) ==
  IF desc.is_array
  THEN {ArrayHeader + i * desc.size + offset : i \in 0 .. len - 1, offset \in PointersIn[desc]}
  ELSE PointersIn[desc]

\* Two fields or parts share no byte.
Apart(start1, size1, start2, size2) == start1 + size1 <= start2 \/ start2 + size2 <= start1

\* What the callers of Descriptor::new promise: fields and parts lie in the type
\* and beside each other, and what holds a pointer is aligned for it.
Sane(desc) ==
  LET fields == desc.fields
      parts == desc.unflattened
  IN  /\ desc.size \in Nat /\ desc.is_array \in BOOLEAN
      /\ fields \in Seq(Nat) /\ parts \in Seq(Nat \X Descriptors)
      /\ PointersIn[desc] # {} => desc.size % Word = 0
      /\ \A i \in DOMAIN fields : fields[i] % Word = 0 /\ fields[i] + Word <= desc.size
      /\ \A i \in DOMAIN parts :
           /\ parts[i][1] + parts[i][2].size <= desc.size
           /\ PointersIn[parts[i][2]] # {} => parts[i][1] % Word = 0
      /\ \A i, j \in DOMAIN fields : i # j => fields[i] # fields[j]
      /\ \A i, j \in DOMAIN parts : i # j =>
           Apart(parts[i][1], parts[i][2].size, parts[j][1], parts[j][2].size)
      /\ \A i \in DOMAIN fields, j \in DOMAIN parts :
           Apart(fields[i], Word, parts[j][1], parts[j][2].size)

\* No type lies in itself.
ASSUME LayoutAssumption ==
  /\ \A desc \in Descriptors : Sane(desc)
  /\ MaxDepth \in Nat
  /\ \E depth \in [Descriptors -> 0 .. MaxDepth] :
       \A desc \in Descriptors : \A i \in DOMAIN desc.unflattened :
         depth[desc.unflattened[i][2]] < depth[desc]

\* Types whose structs do not lie further on in one another, unless the pointers of
\* the inner one are fields of its own: all others are where the iterator looks.
Shallow(desc) == \A i \in DOMAIN desc.unflattened : PointersIn[desc.unflattened[i][2]] = {}
Upright(types) ==
  \A desc \in types : \A i \in DOMAIN desc.unflattened :
    LET part == desc.unflattened[i]
    IN  IF part[1] = 0 THEN part[2] \in types ELSE Shallow(part[2])

-----------------------------------------------------------------------------
(* PointerIter, the stack machine that flattens a descriptor. *)

CurrentDescriptor(base, desc) ==
  [base |-> base, fields |-> desc.fields, childs |-> desc.unflattened]

\* (mutant) a child is entered as if it lay at the start of the object.
EnteredAtZero(child) == CurrentDescriptor(0, child[2])

\* The child is entered with its offset in its parent as the base.
Entered(child) == CurrentDescriptor(child[1], child[2])

\* One turn of the loop of next; what it returns is collected in out.
Turn(iter) ==
  LET current == Last(iter.stack)
      below == Front(iter.stack)
  IN  IF current.fields # <<>>
      THEN [stack |-> Append(below, [current EXCEPT !.fields = Tail(@)]),
            out |-> Append(iter.out, current.base + Head(current.fields))]
      ELSE [iter EXCEPT !.stack =
              IF current.childs # <<>>
              THEN below \o <<[current EXCEPT !.childs = Tail(@)], Entered(Head(current.childs))>>
              ELSE below]

Frames == [base : Nat, fields : Seq(Nat), childs : Seq(Nat \X Descriptors)]
Iterators == [stack : Seq(Frames), out : Seq(Nat)]

\* All that calls of next return until it returns None.
Drained[iter \in Iterators] == IF iter.stack = <<>> THEN iter.out ELSE Drained[Turn(iter)]

IterPtrs[desc \in Descriptors] == Drained[[stack |-> <<CurrentDescriptor(0, desc)>>, out |-> <<>>]]

\* The elements of an array are visited one by one: what the iterator of an
\* element returns, for each of them.
ArrayIter(desc, len) ==
  LET ptrs == IterPtrs[desc]
  IN  [at \in (0 .. len - 1) \X DOMAIN ptrs |-> at[1] * desc.size + ptrs[at[2]] + ArrayHeader]

\* A family of offsets: in order, or by element and in order in each.
PointerIterator(desc, len) == IF desc.is_array THEN ArrayIter(desc, len) ELSE IterPtrs[desc]

-----------------------------------------------------------------------------
(* Sizes: what alloc asks for, and what the collector computes. *)

StaticSize(desc) == IF desc.is_array THEN ArrayHeader ELSE desc.size

\* (mutant) the header of an array is not counted.
DynamicSizeNoHeader(desc, len) == desc.size * (IF desc.is_array THEN len ELSE 1)

DynamicSize(desc, len) ==
  IF desc.is_array THEN StaticSize(desc) + desc.size * len ELSE desc.size

=============================================================================
