---------------------------- MODULE TypesProofs -----------------------------
(***************************************************************************)
(* What holds of types and of the heap they describe, whatever the types:  *)
(* iterating over an object visits each of its pointers once, if no struct *)
(* with parts that hold pointers lies further on in another one; and then  *)
(* the heap stays well-formed, only extra bytes can stop a cycle, and the  *)
(* trees that the program has built stay what they are (Values).           *)
(***************************************************************************)
EXTENDS Types, FiniteSetTheorems, SequenceTheorems, WellFoundedInduction, TLAPS

\* Natural numbers have a smallest.
LEMMA LeastOf == ASSUME NEW T \in SUBSET Nat, T # {} PROVE \E x \in T : \A y \in T : x <= y
<1>1. PICK x \in T : \A y \in T : <<y, x>> \notin OpToRel(<, Nat)
  BY WFMin, NatLessThanWellFounded, Zenon
<1>2. \A y \in T : ~(y < x)
  BY <1>1, Zenon DEF OpToRel
<1> QED BY <1>2

-----------------------------------------------------------------------------
(* The recursive functions of Layout are functions. *)

\* The parts of a descriptor, as the assumption on the program has them.
LEMMA DescriptorParts ==
  ASSUME NEW desc \in Descriptors
  PROVE  /\ desc.fields \in Seq(Nat) /\ desc.unflattened \in Seq(Nat \X Descriptors)
         /\ ToSet(desc.fields) \in SUBSET Nat /\ ToSet(desc.unflattened) \in SUBSET (Nat \X Descriptors)
         /\ desc.size \in Nat
<1>1. Sane(desc)
  BY LayoutAssumption
<1>2. desc.fields \in Seq(Nat) /\ desc.unflattened \in Seq(Nat \X Descriptors) /\ desc.size \in Nat
  BY <1>1 DEF Sane
<1> QED BY <1>2 DEF ToSet

PointersBy(f, desc) ==
  ToSet(desc.fields) \cup
    UNION {{part[1] + offset : offset \in f[part[2]]} : part \in ToSet(desc.unflattened)}

\* More pointers in the parts are more pointers in the whole.
LEMMA PointersByMonotone ==
  ASSUME NEW f, NEW g, NEW desc \in Descriptors, \A d \in Descriptors : f[d] \subseteq g[d]
  PROVE  PointersBy(f, desc) \subseteq PointersBy(g, desc)
<1> SUFFICES ASSUME NEW o \in PointersBy(f, desc) PROVE o \in PointersBy(g, desc)
  OBVIOUS
<1>1. CASE o \in ToSet(desc.fields)
  BY <1>1 DEF PointersBy
<1>2. CASE o \notin ToSet(desc.fields)
  <2>1. PICK part \in ToSet(desc.unflattened) : \E offset \in f[part[2]] : o = part[1] + offset
    BY <1>2 DEF PointersBy
  <2>2. part[2] \in Descriptors
    BY DescriptorParts
  <2>3. \E offset \in g[part[2]] : o = part[1] + offset
    BY <2>1, <2>2
  <2> QED BY <2>3 DEF PointersBy
<1> QED BY <1>1, <1>2

\* Where pointers are is well defined: the equation that says it has a solution.
LEMMA PointersInDef ==
  /\ PointersIn \in [Descriptors -> SUBSET Nat]
  /\ \A desc \in Descriptors : PointersIn[desc] = PointersBy(PointersIn, desc)
<1> DEFINE V == [Descriptors -> SUBSET Nat]
           Closed(g) == \A desc \in Descriptors : PointersBy(g, desc) \subseteq g[desc]
           least == [desc \in Descriptors |-> {o \in Nat : \A g \in V : Closed(g) => o \in g[desc]}]
           again == [desc \in Descriptors |-> PointersBy(least, desc)]
<1>1. \A g \in V, desc \in Descriptors : PointersBy(g, desc) \subseteq Nat
  <2> SUFFICES ASSUME NEW g \in V, NEW desc \in Descriptors, NEW o \in PointersBy(g, desc) PROVE o \in Nat
    OBVIOUS
  <2>1. CASE o \in ToSet(desc.fields)
    BY <2>1, DescriptorParts
  <2>2. CASE o \notin ToSet(desc.fields)
    <3>1. PICK part \in ToSet(desc.unflattened) : \E offset \in g[part[2]] : o = part[1] + offset
      BY <2>2 DEF PointersBy
    <3>2. part[1] \in Nat /\ part[2] \in Descriptors
      BY DescriptorParts
    <3> QED BY <3>1, <3>2
  <2> QED BY <2>1, <2>2
<1>2. least \in V
  OBVIOUS
<1>3. \A desc \in Descriptors : PointersBy(least, desc) \subseteq least[desc]
  <2> SUFFICES ASSUME NEW desc \in Descriptors, NEW o \in PointersBy(least, desc), NEW g \in V, Closed(g)
               PROVE  o \in g[desc]
    BY <1>1, <1>2
  <2>1. \A d \in Descriptors : least[d] \subseteq g[d]
    OBVIOUS
  <2>2. PointersBy(least, desc) \subseteq PointersBy(g, desc)
    BY <2>1, PointersByMonotone, Zenon
  <2> QED BY <2>2
<1>4. again \in V
  BY <1>1, <1>2
<1>5. Closed(again)
  <2> SUFFICES ASSUME NEW desc \in Descriptors PROVE PointersBy(again, desc) \subseteq again[desc]
    OBVIOUS
  <2>1. \A d \in Descriptors : again[d] \subseteq least[d]
    BY <1>3
  <2> HIDE DEF again, least
  <2>2. PointersBy(again, desc) \subseteq PointersBy(least, desc)
    BY <2>1, PointersByMonotone, Zenon
  <2> QED BY <2>2 DEF again
<1>6. \A desc \in Descriptors : least[desc] = PointersBy(least, desc)
  BY <1>3, <1>4, <1>5
<1> HIDE DEF least
<1>7. least = [desc \in Descriptors |-> PointersBy(least, desc)]
  BY <1>2, <1>6
<1> DEFINE Solution(f) == f = [desc \in Descriptors |-> PointersBy(f, desc)]
<1>8. PointersIn = CHOOSE f : Solution(f)
  BY DEF PointersIn, PointersBy
<1>9. Solution(PointersIn)
  <2> HIDE DEF Solution
  <2>1. Solution(least)
    BY <1>7 DEF Solution
  <2> QED BY <2>1, <1>8, Zenon
<1>10. \A desc \in Descriptors : PointersIn[desc] = PointersBy(PointersIn, desc)
  BY <1>9, Zenon
<1>11. DOMAIN PointersIn = Descriptors /\ PointersIn = [desc \in Descriptors |-> PointersIn[desc]]
  BY <1>9
<1>12. PICK depth \in [Descriptors -> 0 .. MaxDepth] :
         \A desc \in Descriptors : \A i \in DOMAIN desc.unflattened :
           depth[desc.unflattened[i][2]] < depth[desc]
  BY LayoutAssumption
<1>13. \A desc \in Descriptors : PointersIn[desc] \subseteq Nat
  <2> DEFINE Bad == {n \in Nat : \E desc \in Descriptors : depth[desc] = n /\ ~(PointersIn[desc] \subseteq Nat)}
  <2> SUFFICES ASSUME NEW any \in Descriptors, ~(PointersIn[any] \subseteq Nat) PROVE FALSE
    OBVIOUS
  <2>1. depth[any] \in Nat
    BY LayoutAssumption
  <2>2. PICK n \in Bad : \A m \in Bad : n <= m
    <3>1. Bad \in SUBSET Nat /\ Bad # {}
      BY <2>1
    <3> HIDE DEF Bad
    <3> QED BY <3>1, LeastOf
  <2>3. PICK desc \in Descriptors : depth[desc] = n /\ ~(PointersIn[desc] \subseteq Nat)
    BY <2>2
  <2>4. PICK o \in PointersBy(PointersIn, desc) : o \notin Nat
    BY <2>3, <1>10
  <2>5. o \notin ToSet(desc.fields)
    BY <2>4, DescriptorParts
  <2>6. PICK part \in ToSet(desc.unflattened) : \E offset \in PointersIn[part[2]] : o = part[1] + offset
    BY <2>4, <2>5 DEF PointersBy
  <2>7. PICK i \in DOMAIN desc.unflattened : part = desc.unflattened[i]
    BY <2>6 DEF ToSet
  <2>8. part[1] \in Nat /\ part[2] \in Descriptors
    BY <2>6, DescriptorParts
  <2>9. depth[part[2]] < depth[desc]
    BY <2>7, <1>12
  <2>10. depth[part[2]] \in Nat /\ depth[desc] \in Nat
    BY <2>8, LayoutAssumption
  <2>11. PointersIn[part[2]] \subseteq Nat
    BY <2>2, <2>3, <2>8, <2>9, <2>10
  <2> QED BY <2>4, <2>6, <2>8, <2>11
<1> QED BY <1>10, <1>11, <1>13

-----------------------------------------------------------------------------
(* The stack machine. *)

At(below, frame, out) == [stack |-> Append(below, frame), out |-> out]

\* A stack that is not empty is a stack with a frame on top.
LEMMA TopFrame ==
  ASSUME NEW stack \in Seq(Frames), stack # <<>>
  PROVE  \E below \in Seq(Frames), frame \in Frames : stack = Append(below, frame)
<1>1. Len(stack) \in Nat /\ Len(stack) >= 1
  BY EmptySeq
<1>2. Front(stack) \in Seq(Frames) /\ Last(stack) \in Frames
  BY <1>1 DEF Front, Last
<1>3. stack = Append(Front(stack), Last(stack))
  BY <1>1 DEF Front, Last
<1> QED BY <1>2, <1>3

\* What is on top of a stack, and what is below.
LEMMA FrontAndLast ==
  ASSUME NEW below \in Seq(Frames), NEW frame \in Frames
  PROVE  /\ Append(below, frame) \in Seq(Frames) /\ Append(below, frame) # <<>>
         /\ Front(Append(below, frame)) = below /\ Last(Append(below, frame)) = frame
<1>1. Append(below, frame) \in Seq(Frames) /\ Len(Append(below, frame)) = Len(below) + 1
  OBVIOUS
<1>2. Front(Append(below, frame)) = below
  BY <1>1 DEF Front
<1> QED BY <1>1, <1>2 DEF Last

\* A turn of the loop when a field is left: it is returned.
LEMMA TurnField ==
  ASSUME NEW below \in Seq(Frames), NEW frame \in Frames, NEW out \in Seq(Nat), frame.fields # <<>>
  PROVE  /\ Turn(At(below, frame, out)) =
              At(below, [frame EXCEPT !.fields = Tail(frame.fields)], Append(out, frame.base + Head(frame.fields)))
         /\ [frame EXCEPT !.fields = Tail(frame.fields)] \in Frames
         /\ frame.base + Head(frame.fields) \in Nat /\ Append(out, frame.base + Head(frame.fields)) \in Seq(Nat)
<1> DEFINE it == At(below, frame, out)
<1>1. it.stack = Append(below, frame) /\ it.out = out /\ Front(it.stack) = below /\ Last(it.stack) = frame
  BY FrontAndLast DEF At
<1>2. frame.base \in Nat /\ frame.fields \in Seq(Nat) /\ frame.childs \in Seq(Nat \X Descriptors)
  BY DEF Frames
<1>3. Turn(it) = [stack |-> Append(below, [frame EXCEPT !.fields = Tail(@)]),
                  out |-> Append(out, frame.base + Head(frame.fields))]
  BY <1>1 DEF Turn
<1>4. Head(frame.fields) \in Nat /\ Tail(frame.fields) \in Seq(Nat)
  BY <1>2, HeadTailProperties
<1>5. [frame EXCEPT !.fields = Tail(frame.fields)] \in Frames
  BY <1>4 DEF Frames
<1>6. frame.base + Head(frame.fields) \in Nat
  BY <1>2, <1>4
<1>7. Append(out, frame.base + Head(frame.fields)) \in Seq(Nat)
  BY <1>6, AppendProperties
<1>8. Turn(it) = At(below, [frame EXCEPT !.fields = Tail(frame.fields)], Append(out, frame.base + Head(frame.fields)))
  BY <1>3 DEF At
<1> QED BY <1>5, <1>6, <1>7, <1>8

\* When no field is left and a child is: it is entered.
LEMMA TurnChild ==
  ASSUME NEW below \in Seq(Frames), NEW frame \in Frames, NEW out \in Seq(Nat),
         frame.fields = <<>>, frame.childs # <<>>
  PROVE  /\ Turn(At(below, frame, out)) =
              At(Append(below, [frame EXCEPT !.childs = Tail(frame.childs)]), Entered(Head(frame.childs)), out)
         /\ [frame EXCEPT !.childs = Tail(frame.childs)] \in Frames
         /\ Entered(Head(frame.childs)) \in Frames
<1> DEFINE it == At(below, frame, out)
<1>1. it.stack = Append(below, frame) /\ it.out = out /\ Front(it.stack) = below /\ Last(it.stack) = frame
  BY FrontAndLast DEF At
<1>2. frame.base \in Nat /\ frame.fields \in Seq(Nat) /\ frame.childs \in Seq(Nat \X Descriptors)
  BY DEF Frames
<1>3. Turn(it) = [it EXCEPT !.stack =
                    below \o <<[frame EXCEPT !.childs = Tail(@)], Entered(Head(frame.childs))>>]
  BY <1>1 DEF Turn
<1>4. Head(frame.childs) \in Nat \X Descriptors /\ Tail(frame.childs) \in Seq(Nat \X Descriptors)
  BY <1>2, HeadTailProperties
<1>5. PICK rest : rest = [frame EXCEPT !.childs = Tail(frame.childs)]
  OBVIOUS
<1>6. rest \in Frames
  BY <1>4, <1>5 DEF Frames
<1>7. PICK child : child = Entered(Head(frame.childs))
  OBVIOUS
<1>8. child \in Frames
  <2>1. PICK offset \in Nat, desc \in Descriptors : Head(frame.childs) = <<offset, desc>>
    BY <1>4
  <2>2. child = [base |-> offset, fields |-> desc.fields, childs |-> desc.unflattened]
    BY <1>7, <2>1 DEF Entered, CurrentDescriptor
  <2> QED BY <2>2, DescriptorParts DEF Frames
<1>9. below \o <<rest, child>> = Append(Append(below, rest), child)
  BY <1>6, <1>8
<1>10. Turn(it) = At(Append(below, rest), child, out)
  BY <1>3, <1>5, <1>7, <1>9 DEF At
<1> QED BY <1>5, <1>6, <1>7, <1>8, <1>10

\* When nothing is left: the frame is popped.
LEMMA TurnPop ==
  ASSUME NEW below \in Seq(Frames), NEW frame \in Frames, NEW out \in Seq(Nat),
         frame.fields = <<>>, frame.childs = <<>>
  PROVE  Turn(At(below, frame, out)) = [stack |-> below, out |-> out]
<1> DEFINE it == At(below, frame, out)
<1>1. it.stack = Append(below, frame) /\ it.out = out /\ Front(it.stack) = below /\ Last(it.stack) = frame
  BY FrontAndLast DEF At
<1> QED BY <1>1 DEF Turn, At

\* A frame on a stack is an iterator.
LEMMA AtTyped ==
  ASSUME NEW below \in Seq(Frames), NEW frame \in Frames, NEW out \in Seq(Nat)
  PROVE  At(below, frame, out) \in Iterators /\ At(below, frame, out).stack # <<>>
BY FrontAndLast DEF At, Iterators

\* A turn makes an iterator of an iterator.
LEMMA TurnTyped ==
  ASSUME NEW it \in Iterators, it.stack # <<>>
  PROVE  Turn(it) \in Iterators
<1>1. it.stack \in Seq(Frames) /\ it.out \in Seq(Nat) /\ it = [stack |-> it.stack, out |-> it.out]
  BY DEF Iterators
<1>2. PICK below \in Seq(Frames), frame \in Frames : it.stack = Append(below, frame)
  BY <1>1, TopFrame
<1>3. PICK out \in Seq(Nat) : it = At(below, frame, out)
  BY <1>1, <1>2 DEF At
<1>4. CASE frame.fields # <<>>
  <2>1. PICK rest \in Frames : rest = [frame EXCEPT !.fields = Tail(frame.fields)]
    BY <1>4, TurnField, Zenon
  <2>2. PICK more \in Seq(Nat) : more = Append(out, frame.base + Head(frame.fields))
    BY <1>4, TurnField, Zenon
  <2>3. Turn(it) = At(below, rest, more)
    BY <1>3, <1>4, <2>1, <2>2, TurnField, Zenon
  <2> QED BY <2>3, AtTyped
<1>5. CASE frame.fields = <<>> /\ frame.childs # <<>>
  <2>1. PICK rest \in Frames : rest = [frame EXCEPT !.childs = Tail(frame.childs)]
    BY <1>5, TurnChild, Zenon
  <2>2. PICK child \in Frames : child = Entered(Head(frame.childs))
    BY <1>5, TurnChild, Zenon
  <2>3. Turn(it) = At(Append(below, rest), child, out)
    BY <1>3, <1>5, <2>1, <2>2, TurnChild, Zenon
  <2>4. Append(below, rest) \in Seq(Frames)
    BY FrontAndLast, Zenon
  <2> QED BY <2>3, <2>4, AtTyped
<1>6. CASE frame.fields = <<>> /\ frame.childs = <<>>
  <2>1. Turn(it) = [stack |-> below, out |-> out]
    BY <1>3, <1>6, TurnPop, Zenon
  <2> QED BY <2>1 DEF Iterators
<1> QED BY <1>4, <1>5, <1>6

\* What calls of next return is well defined: a machine that has stopped has
\* returned what is collected, and one that has not goes on as its next turn does.
LEMMA DrainedDef ==
  \A it \in Iterators : Drained[it] = IF it.stack = <<>> THEN it.out ELSE Drained[Turn(it)]
<1> DEFINE Pairs == Iterators \X Seq(Nat)
           Closed(S) ==
             /\ \A it \in Iterators : it.stack = <<>> => <<it, it.out>> \in S
             /\ \A it \in Iterators, o \in Seq(Nat) :
                  it.stack # <<>> /\ <<Turn(it), o>> \in S => <<it, o>> \in S
           Ends == {pair \in Pairs : \A S \in SUBSET Pairs : Closed(S) => pair \in S}
           Results(it) == {o \in Seq(Nat) : <<it, o>> \in Ends}
           f == [it \in Iterators |-> CHOOSE o : o \in Results(it)]
           Solution(g) == g = [it \in Iterators |-> IF it.stack = <<>> THEN it.out ELSE g[Turn(it)]]
<1>1. Ends \in SUBSET Pairs /\ Closed(Ends)
  <2>1. \A it \in Iterators : it.out \in Seq(Nat)
    BY DEF Iterators
  <2> QED BY <2>1
<1>2. \A S \in SUBSET Pairs : Closed(S) => Ends \subseteq S
  OBVIOUS
<1> HIDE DEF Ends
<1>3. ASSUME NEW it \in Iterators, it.stack = <<>> PROVE Results(it) = {it.out}
  <2>1. it.out \in Results(it)
    BY <1>1, <1>3 DEF Iterators
  <2>2. ASSUME NEW o \in Results(it), o # it.out PROVE FALSE
    <3> DEFINE less == Ends \ {<<it, o>>}
    <3>1. less \in SUBSET Pairs
      BY <1>1
    <3>2. Closed(less)
      BY <1>1, <1>3, <2>2
    <3> QED BY <1>2, <2>2, <3>1, <3>2
  <2> QED BY <2>1, <2>2
<1>4. ASSUME NEW it \in Iterators, it.stack # <<>> PROVE Results(it) = Results(Turn(it))
  <2>1. Turn(it) \in Iterators
    BY <1>4, TurnTyped
  <2>2. \A o \in Results(Turn(it)) : o \in Results(it)
    BY <1>1, <1>4
  <2>3. ASSUME NEW o \in Results(it), o \notin Results(Turn(it)) PROVE FALSE
    <3> DEFINE less == Ends \ {<<it, o>>}
    <3>1. less \in SUBSET Pairs
      BY <1>1
    <3>2. Closed(less)
      BY <1>1, <1>4, <2>3
    <3> QED BY <1>2, <2>3, <3>1, <3>2
  <2> QED BY <2>2, <2>3
<1>5. Solution(f)
  <2>1. ASSUME NEW it \in Iterators PROVE f[it] = IF it.stack = <<>> THEN it.out ELSE f[Turn(it)]
    <3> HIDE DEF Results
    <3>1. CASE it.stack = <<>>
      BY <1>3, <3>1
    <3>2. CASE it.stack # <<>>
      BY <1>4, <3>2, TurnTyped
    <3> QED BY <3>1, <3>2
  <2> HIDE DEF Results
  <2> QED BY <2>1
<1>6. Drained = CHOOSE g : Solution(g)
  BY DEF Drained
<1>7. Solution(Drained)
  <2> HIDE DEF Solution, f
  <2> QED BY <1>5, <1>6, Zenon
<1> QED BY <1>7, Zenon

-----------------------------------------------------------------------------
(* What the machine returns. *)

\* The sequence o has every member of S once.
Lists(o, S) ==
  /\ o \in Seq(Nat)
  /\ \A i, j \in DOMAIN o : o[i] = o[j] => i = j
  /\ {o[i] : i \in DOMAIN o} = S

\* Whatever is below a frame, the machine returns o until it is there.
Drains(frame, o) ==
  \A below \in Seq(Frames), out \in Seq(Nat) :
    Drained[At(below, frame, out)] = Drained[[stack |-> below, out |-> out \o o]]

\* Two lists of different members are a list of both.
LEMMA ListsConcat ==
  ASSUME NEW o1, NEW o2, NEW S1, NEW S2, Lists(o1, S1), Lists(o2, S2), S1 \cap S2 = {}
  PROVE  Lists(o1 \o o2, S1 \cup S2)
<1>1. o1 \in Seq(Nat) /\ o2 \in Seq(Nat) /\ Len(o1) \in Nat /\ Len(o2) \in Nat
  BY DEF Lists
<1>2. PICK o : o = o1 \o o2
  OBVIOUS
<1>3. /\ o \in Seq(Nat) /\ Len(o) = Len(o1) + Len(o2)
      /\ \A i \in 1 .. Len(o) : o[i] = IF i <= Len(o1) THEN o1[i] ELSE o2[i - Len(o1)]
  BY <1>1, <1>2, ConcatProperties
<1>4. DOMAIN o = 1 .. Len(o) /\ DOMAIN o1 = 1 .. Len(o1) /\ DOMAIN o2 = 1 .. Len(o2)
  BY <1>1, <1>3
<1>5. \A i \in DOMAIN o :
        \/ i \in DOMAIN o1 /\ o[i] = o1[i] /\ o[i] \in S1
        \/ i - Len(o1) \in DOMAIN o2 /\ o[i] = o2[i - Len(o1)] /\ o[i] \in S2 /\ i > Len(o1)
  BY <1>1, <1>3, <1>4, SMTT(30) DEF Lists
<1>6. \A i, j \in DOMAIN o : o[i] = o[j] => i = j
  <2> SUFFICES ASSUME NEW i \in DOMAIN o, NEW j \in DOMAIN o, o[i] = o[j] PROVE i = j
    OBVIOUS
  <2>1. i \in Nat /\ j \in Nat
    BY <1>3, <1>4
  <2> QED BY <1>1, <1>4, <1>5, <2>1 DEF Lists
<1>7. \A i \in DOMAIN o1 : i \in DOMAIN o /\ o[i] = o1[i]
  BY <1>1, <1>3, <1>4
<1>8. \A i \in DOMAIN o2 : i + Len(o1) \in DOMAIN o /\ o[i + Len(o1)] = o2[i]
  <2> SUFFICES ASSUME NEW i \in DOMAIN o2 PROVE i + Len(o1) \in DOMAIN o /\ o[i + Len(o1)] = o2[i]
    OBVIOUS
  <2>1. i \in Nat /\ i >= 1 /\ i <= Len(o2)
    BY <1>1, <1>4
  <2>2. PICK k : k = i + Len(o1)
    OBVIOUS
  <2>3. k \in DOMAIN o /\ ~(k <= Len(o1)) /\ k - Len(o1) = i
    BY <1>1, <1>3, <1>4, <2>1, <2>2, SMTT(30)
  <2> QED BY <1>3, <1>4, <2>2, <2>3, SMTT(30)
<1>9. {o[i] : i \in DOMAIN o} = S1 \cup S2
  <2>1. {o1[i] : i \in DOMAIN o1} = S1 /\ {o2[i] : i \in DOMAIN o2} = S2
    BY DEF Lists
  <2>2. ASSUME NEW x \in S1 \cup S2 PROVE \E i \in DOMAIN o : o[i] = x
    <3>1. CASE x \in S1
      <4>1. PICK i \in DOMAIN o1 : o1[i] = x
        BY <2>1, <3>1
      <4> QED BY <1>7, <4>1
    <3>2. CASE x \in S2
      <4>1. PICK i \in DOMAIN o2 : o2[i] = x
        BY <2>1, <3>2
      <4> QED BY <1>8, <4>1
    <3> QED BY <2>2, <3>1, <3>2
  <2>3. \A i \in DOMAIN o : o[i] \in S1 \cup S2
    BY <1>5
  <2> QED BY <2>2, <2>3
<1> QED BY <1>2, <1>3, <1>6, <1>9, SMTT(30) DEF Lists

\* A frame with nothing left returns nothing.
LEMMA DrainNothing ==
  ASSUME NEW frame \in Frames, frame.fields = <<>>, frame.childs = <<>>
  PROVE  Drains(frame, <<>>)
<1> SUFFICES ASSUME NEW below \in Seq(Frames), NEW out \in Seq(Nat)
             PROVE  Drained[At(below, frame, out)] = Drained[[stack |-> below, out |-> out \o <<>>]]
  BY DEF Drains
<1>1. Drained[At(below, frame, out)] = Drained[Turn(At(below, frame, out))]
  BY AtTyped, DrainedDef, Zenon
<1>2. Turn(At(below, frame, out)) = [stack |-> below, out |-> out]
  BY TurnPop
<1>3. out \o <<>> = out
  OBVIOUS
<1> QED BY <1>1, <1>2, <1>3

\* Lists of offsets can be put together in any order of steps.
LEMMA Associates ==
  ASSUME NEW s1 \in Seq(Nat), NEW s2 \in Seq(Nat), NEW s3 \in Seq(Nat)
  PROVE  (s1 \o s2) \o s3 = s1 \o (s2 \o s3)
BY SMTT(30), ConcatAssociative

\* A field is returned first.
LEMMA DrainField ==
  ASSUME NEW frame \in Frames, frame.fields # <<>>, NEW o \in Seq(Nat),
         Drains([frame EXCEPT !.fields = Tail(frame.fields)], o)
  PROVE  Drains(frame, <<frame.base + Head(frame.fields)>> \o o)
<1>1. PICK n : n = frame.base + Head(frame.fields)
  OBVIOUS
<1> SUFFICES ASSUME NEW below \in Seq(Frames), NEW out \in Seq(Nat)
             PROVE  Drained[At(below, frame, out)] = Drained[[stack |-> below, out |-> out \o (<<n>> \o o)]]
  BY <1>1 DEF Drains
<1>2. Drained[At(below, frame, out)] = Drained[Turn(At(below, frame, out))]
  BY AtTyped, DrainedDef, Zenon
<1>3. PICK rest \in Frames : rest = [frame EXCEPT !.fields = Tail(frame.fields)]
  BY TurnField, Zenon
<1>4. n \in Nat /\ Append(out, n) \in Seq(Nat) /\ Turn(At(below, frame, out)) = At(below, rest, Append(out, n))
  BY <1>1, <1>3, TurnField, Zenon
<1>5. Drained[At(below, rest, Append(out, n))] = Drained[[stack |-> below, out |-> Append(out, n) \o o]]
  BY <1>3, <1>4, Zenon DEF Drains
<1>6. Append(out, n) \o o = out \o (<<n>> \o o)
  <2>1. <<n>> \in Seq(Nat)
    BY <1>4
  <2>2. (out \o <<n>>) \o o = out \o (<<n>> \o o)
    BY <2>1, Associates, Zenon
  <2>3. Append(out, n) = out \o <<n>>
    BY <1>4, AppendIsConcat, Zenon
  <2> QED BY <2>2, <2>3, Zenon
<1> QED BY <1>2, <1>4, <1>5, <1>6, Zenon

\* When no field is left, all of a child is returned first.
LEMMA DrainChild ==
  ASSUME NEW frame \in Frames, frame.fields = <<>>, frame.childs # <<>>,
         NEW o1 \in Seq(Nat), NEW o2 \in Seq(Nat),
         Drains(Entered(Head(frame.childs)), o1), Drains([frame EXCEPT !.childs = Tail(frame.childs)], o2)
  PROVE  Drains(frame, o1 \o o2)
<1> SUFFICES ASSUME NEW below \in Seq(Frames), NEW out \in Seq(Nat)
             PROVE  Drained[At(below, frame, out)] = Drained[[stack |-> below, out |-> out \o (o1 \o o2)]]
  BY DEF Drains
<1>1. Drained[At(below, frame, out)] = Drained[Turn(At(below, frame, out))]
  BY AtTyped, DrainedDef, Zenon
<1>2. PICK rest \in Frames : rest = [frame EXCEPT !.childs = Tail(frame.childs)]
  BY TurnChild, Zenon
<1>3. PICK child \in Frames : child = Entered(Head(frame.childs))
  BY TurnChild, Zenon
<1>4. Turn(At(below, frame, out)) = At(Append(below, rest), child, out)
  BY <1>2, <1>3, TurnChild, Zenon
<1>5. Append(below, rest) \in Seq(Frames) /\ out \o o1 \in Seq(Nat)
  BY FrontAndLast, ConcatProperties
<1>6. Drained[At(Append(below, rest), child, out)] = Drained[At(below, rest, out \o o1)]
  <2>1. Drains(child, o1)
    BY <1>3
  <2>2. Drained[At(Append(below, rest), child, out)] = Drained[[stack |-> Append(below, rest), out |-> out \o o1]]
    BY <1>3, <1>5, <2>1, Zenon DEF Drains
  <2> QED BY <2>2 DEF At
<1>7. Drained[At(below, rest, out \o o1)] = Drained[[stack |-> below, out |-> (out \o o1) \o o2]]
  <2>1. Drains(rest, o2)
    BY <1>2
  <2> QED BY <1>2, <1>5, <2>1, Zenon DEF Drains
<1>8. (out \o o1) \o o2 = out \o (o1 \o o2)
  BY Associates, Zenon
<1> QED BY <1>1, <1>4, <1>6, <1>7, <1>8, Zenon

\* The pointers of what lies at an offset.
Shifted(offset, desc) == {offset + p : p \in PointersIn[desc]}

\* What is left of a frame is a frame.
LEMMA FrameRest ==
  ASSUME NEW frame \in Frames
  PROVE  /\ frame.fields # <<>> => [frame EXCEPT !.fields = Tail(frame.fields)] \in Frames
         /\ frame.childs # <<>> => [frame EXCEPT !.childs = Tail(frame.childs)] \in Frames
<1>1. frame.fields \in Seq(Nat) /\ frame.childs \in Seq(Nat \X Descriptors)
  BY DEF Frames
<1>2. frame.fields # <<>> => Tail(frame.fields) \in Seq(Nat)
  BY <1>1, HeadTailProperties
<1>3. frame.childs # <<>> => Tail(frame.childs) \in Seq(Nat \X Descriptors)
  BY <1>1, HeadTailProperties
<1> QED BY <1>2, <1>3 DEF Frames

\* All fields of a frame are returned before anything else.
FieldsDrain(frame) ==
  \A o, S : 
    /\ Lists(o, S) /\ Drains([frame EXCEPT !.fields = <<>>], o)
    /\ \A i, j \in DOMAIN frame.fields : frame.fields[i] = frame.fields[j] => i = j
    /\ \A i \in DOMAIN frame.fields : frame.base + frame.fields[i] \notin S
    => \E all : /\ Lists(all, {frame.base + frame.fields[i] : i \in DOMAIN frame.fields} \cup S)
                /\ Drains(frame, all)

\* The members of a sequence that is not empty.
LEMMA HeadAndTail ==
  ASSUME NEW T, NEW seq \in Seq(T), seq # <<>>
  PROVE  /\ Head(seq) \in T /\ Tail(seq) \in Seq(T) /\ Len(Tail(seq)) = Len(seq) - 1 /\ Len(seq) \in Nat
         /\ 1 \in DOMAIN seq /\ seq[1] = Head(seq)
         /\ \A i \in DOMAIN Tail(seq) : i + 1 \in DOMAIN seq /\ Tail(seq)[i] = seq[i + 1] /\ i + 1 # 1
         /\ \A i \in DOMAIN seq : i = 1 \/ \E k \in DOMAIN Tail(seq) : i = k + 1
<1>1. Len(seq) \in Nat /\ Len(seq) >= 1 /\ DOMAIN seq = 1 .. Len(seq)
  BY EmptySeq
<1>2. /\ Head(seq) = seq[1] /\ Head(seq) \in T /\ Tail(seq) \in Seq(T) /\ Len(Tail(seq)) = Len(seq) - 1
      /\ \A i \in 1 .. Len(Tail(seq)) : Tail(seq)[i] = seq[i + 1]
  BY HeadTailProperties
<1>3. DOMAIN Tail(seq) = 1 .. Len(seq) - 1
  BY <1>1, <1>2
<1>4. \A i \in DOMAIN Tail(seq) : i + 1 \in DOMAIN seq /\ Tail(seq)[i] = seq[i + 1] /\ i + 1 # 1
  BY <1>1, <1>2, <1>3
<1>5. ASSUME NEW i \in DOMAIN seq, i # 1 PROVE \E k \in DOMAIN Tail(seq) : i = k + 1
  <2>1. i - 1 \in DOMAIN Tail(seq) /\ i = (i - 1) + 1
    BY <1>1, <1>3, <1>5
  <2> QED BY <2>1
<1> QED BY <1>1, <1>2, <1>4, <1>5

\* One field more.
LEMMA FieldsDrainStep ==
  ASSUME NEW frame \in Frames, frame.fields # <<>>,
         FieldsDrain([frame EXCEPT !.fields = Tail(frame.fields)])
  PROVE  FieldsDrain(frame)
<1>1. frame.base \in Nat /\ frame.fields \in Seq(Nat)
  BY DEF Frames
<1>2. PICK rest \in Frames : rest = [frame EXCEPT !.fields = Tail(frame.fields)]
  BY FrameRest
<1>3. rest.fields = Tail(frame.fields) /\ rest.base = frame.base /\ FieldsDrain(rest)
      /\ [rest EXCEPT !.fields = <<>>] = [frame EXCEPT !.fields = <<>>]
  BY <1>2 DEF Frames
<1> SUFFICES ASSUME NEW o, NEW S, Lists(o, S), Drains([frame EXCEPT !.fields = <<>>], o),
                    \A i, j \in DOMAIN frame.fields : frame.fields[i] = frame.fields[j] => i = j,
                    \A i \in DOMAIN frame.fields : frame.base + frame.fields[i] \notin S
             PROVE  \E all : /\ Lists(all, {frame.base + frame.fields[i] : i \in DOMAIN frame.fields} \cup S)
                             /\ Drains(frame, all)
  BY DEF FieldsDrain
<1>4. /\ Head(frame.fields) \in Nat /\ 1 \in DOMAIN frame.fields /\ frame.fields[1] = Head(frame.fields)
      /\ \A i \in DOMAIN rest.fields : i + 1 \in DOMAIN frame.fields /\ rest.fields[i] = frame.fields[i + 1] /\ i + 1 # 1
      /\ \A i \in DOMAIN frame.fields : i = 1 \/ \E k \in DOMAIN rest.fields : i = k + 1
      /\ rest.fields \in Seq(Nat)
  BY <1>1, <1>3, HeadAndTail
<1>5. \A i, j \in DOMAIN rest.fields : rest.fields[i] = rest.fields[j] => i = j
  <2> SUFFICES ASSUME NEW i \in DOMAIN rest.fields, NEW j \in DOMAIN rest.fields, rest.fields[i] = rest.fields[j]
               PROVE  i = j
    OBVIOUS
  <2>0. \A k \in DOMAIN rest.fields : k + 1 \in DOMAIN frame.fields /\ rest.fields[k] = frame.fields[k + 1]
    BY <1>4, Zenon
  <2>4. /\ i + 1 \in DOMAIN frame.fields /\ j + 1 \in DOMAIN frame.fields
        /\ rest.fields[i] = frame.fields[i + 1] /\ rest.fields[j] = frame.fields[j + 1]
    BY <2>0, Zenon
  <2>1. /\ i + 1 \in DOMAIN frame.fields /\ j + 1 \in DOMAIN frame.fields
        /\ frame.fields[i + 1] = frame.fields[j + 1]
    BY <2>4
  <2>2. i + 1 = j + 1
    BY <2>1, Zenon
  <2>3. i \in Nat /\ j \in Nat
    <3>1. rest.fields \in Seq(Nat)
      BY <1>4, Zenon
    <3> QED BY <3>1
  <2> QED BY <2>2, <2>3
<1>6. \A i \in DOMAIN rest.fields : rest.base + rest.fields[i] \notin S
  <2>1. \A k \in DOMAIN rest.fields : k + 1 \in DOMAIN frame.fields /\ rest.fields[k] = frame.fields[k + 1]
    BY <1>4, Zenon
  <2>2. ASSUME NEW i \in DOMAIN rest.fields PROVE rest.base + rest.fields[i] \notin S
    <3>1. i + 1 \in DOMAIN frame.fields /\ rest.fields[i] = frame.fields[i + 1]
      BY <2>1, Zenon
    <3>2. frame.base + frame.fields[i + 1] \notin S
      BY <3>1, Zenon
    <3> QED BY <1>3, <3>1, <3>2
  <2> QED BY <2>2
<1>7. PICK all : /\ Lists(all, {rest.base + rest.fields[i] : i \in DOMAIN rest.fields} \cup S)
                 /\ Drains(rest, all)
  BY <1>3, <1>5, <1>6, Zenon DEF FieldsDrain
<1> DEFINE n == frame.base + Head(frame.fields)
           others == {rest.base + rest.fields[i] : i \in DOMAIN rest.fields} \cup S
<1>8. all \in Seq(Nat)
  BY <1>7 DEF Lists
<1>9. Drains(frame, <<n>> \o all)
  BY <1>2, <1>7, <1>8, DrainField
<1>10. n \notin others
  <2>1. n \notin S
    BY <1>4
  <2>2. ASSUME NEW i \in DOMAIN rest.fields, n = rest.base + rest.fields[i] PROVE FALSE
    <3>1. rest.fields[i] \in Nat
      BY <1>4
    <3>2. PICK b \in Nat, h \in Nat, r \in Nat : b = frame.base /\ h = Head(frame.fields) /\ r = rest.fields[i]
      BY <1>1, <1>4, <3>1
    <3>3. b + h = b + r
      BY <1>3, <2>2, <3>2
    <3>4. h = r
      BY <3>3
    <3> QED BY <1>4, <3>2, <3>4
  <2> QED BY <2>1, <2>2
<1>11. Lists(<<n>>, {n})
  <2>1. n \in Nat
    BY <1>1, <1>4
  <2> QED BY <2>1 DEF Lists
<1>12. Lists(<<n>> \o all, {n} \cup others)
  BY <1>7, <1>10, <1>11, ListsConcat
<1>13. {n} \cup others = {frame.base + frame.fields[i] : i \in DOMAIN frame.fields} \cup S
  <2>1. \A i \in DOMAIN frame.fields :
          frame.base + frame.fields[i] = n \/ \E k \in DOMAIN rest.fields : frame.base + frame.fields[i] = rest.base + rest.fields[k]
    <3> SUFFICES ASSUME NEW i \in DOMAIN frame.fields, i # 1
                 PROVE  \E k \in DOMAIN rest.fields : frame.base + frame.fields[i] = rest.base + rest.fields[k]
      BY <1>4
    <3>1. PICK k \in DOMAIN rest.fields : i = k + 1
      BY <1>4
    <3>2. rest.fields[k] = frame.fields[i]
      BY <1>4, <3>1
    <3> QED BY <1>3, <3>2
  <2>2. n \in {frame.base + frame.fields[i] : i \in DOMAIN frame.fields}
    BY <1>4
  <2>3. \A k \in DOMAIN rest.fields : \E i \in DOMAIN frame.fields : rest.base + rest.fields[k] = frame.base + frame.fields[i]
    BY <1>3, <1>4
  <2> HIDE DEF n
  <2> QED BY <2>1, <2>2, <2>3
<1> QED BY <1>9, <1>12, <1>13

\* Any number of fields.
LEMMA FieldsDrainAll == \A frame \in Frames : FieldsDrain(frame)
<1> DEFINE Bad == {n \in Nat : \E frame \in Frames : Len(frame.fields) = n /\ ~FieldsDrain(frame)}
<1> SUFFICES ASSUME NEW any \in Frames, ~FieldsDrain(any) PROVE FALSE
  OBVIOUS
<1>1. \A frame \in Frames : frame.fields \in Seq(Nat) /\ Len(frame.fields) \in Nat
  BY DEF Frames
<1>2. PICK n \in Bad : \A m \in Bad : n <= m
  <2>1. Bad \in SUBSET Nat /\ Bad # {}
    BY <1>1
  <2> HIDE DEF Bad
  <2> QED BY <2>1, LeastOf
<1>3. PICK frame \in Frames : Len(frame.fields) = n /\ ~FieldsDrain(frame)
  BY <1>2
<1>4. CASE frame.fields = <<>>
  <2>1. [frame EXCEPT !.fields = <<>>] = frame
    BY <1>4 DEF Frames
  <2>2. {frame.base + frame.fields[i] : i \in DOMAIN frame.fields} = {}
    BY <1>4
  <2>3. FieldsDrain(frame)
    <3> SUFFICES ASSUME NEW o, NEW S, Lists(o, S), Drains([frame EXCEPT !.fields = <<>>], o)
                 PROVE  \E all : /\ Lists(all, {frame.base + frame.fields[i] : i \in DOMAIN frame.fields} \cup S)
                                 /\ Drains(frame, all)
      BY DEF FieldsDrain
    <3>1. {frame.base + frame.fields[i] : i \in DOMAIN frame.fields} \cup S = S
      BY <2>2
    <3> QED BY <2>1, <3>1
  <2> QED BY <1>3, <2>3
<1>5. CASE frame.fields # <<>>
  <2>1. PICK rest \in Frames : rest = [frame EXCEPT !.fields = Tail(frame.fields)]
    BY <1>5, FrameRest
  <2>2. Len(rest.fields) = n - 1
    BY <1>1, <1>3, <1>5, <2>1, HeadAndTail DEF Frames
  <2>3. FieldsDrain(rest)
    BY <1>1, <1>2, <2>2
  <2> QED BY <1>3, <1>5, <2>1, <2>3, FieldsDrainStep
<1> QED BY <1>4, <1>5

-----------------------------------------------------------------------------
(* What iterating over a descriptor visits. *)

Of(child) == Shifted(child[1], child[2])
Iterates(base0, desc) ==
  \E o : Lists(o, Shifted(base0, desc)) /\ Drains(CurrentDescriptor(base0, desc), o)

\* All children of a frame are returned, when each of them is.
ChildsDrain(frame) ==
  /\ \A i \in DOMAIN frame.childs : Iterates(frame.childs[i][1], frame.childs[i][2])
  /\ \A i, j \in DOMAIN frame.childs : i # j => Of(frame.childs[i]) \cap Of(frame.childs[j]) = {}
  => \E all : /\ Lists(all, UNION {Of(frame.childs[i]) : i \in DOMAIN frame.childs})
              /\ Drains(frame, all)

\* One child more.
LEMMA ChildsDrainStep ==
  ASSUME NEW frame \in Frames, frame.fields = <<>>, frame.childs # <<>>,
         ChildsDrain([frame EXCEPT !.childs = Tail(frame.childs)])
  PROVE  ChildsDrain(frame)
<1>1. frame.childs \in Seq(Nat \X Descriptors)
  BY DEF Frames
<1>2. PICK rest \in Frames : rest = [frame EXCEPT !.childs = Tail(frame.childs)]
  BY FrameRest
<1>3. rest.childs = Tail(frame.childs) /\ ChildsDrain(rest)
  BY <1>2 DEF Frames
<1> SUFFICES ASSUME \A i \in DOMAIN frame.childs : Iterates(frame.childs[i][1], frame.childs[i][2]),
                    \A i, j \in DOMAIN frame.childs : i # j => Of(frame.childs[i]) \cap Of(frame.childs[j]) = {}
             PROVE  \E all : /\ Lists(all, UNION {Of(frame.childs[i]) : i \in DOMAIN frame.childs})
                             /\ Drains(frame, all)
  BY DEF ChildsDrain
<1>4. /\ Head(frame.childs) \in Nat \X Descriptors /\ 1 \in DOMAIN frame.childs
      /\ frame.childs[1] = Head(frame.childs)
      /\ \A i \in DOMAIN rest.childs : i + 1 \in DOMAIN frame.childs /\ rest.childs[i] = frame.childs[i + 1] /\ i + 1 # 1
      /\ \A i \in DOMAIN frame.childs : i = 1 \/ \E k \in DOMAIN rest.childs : i = k + 1
      /\ rest.childs \in Seq(Nat \X Descriptors)
  BY <1>1, <1>3, HeadAndTail
<1>5. \A i \in DOMAIN rest.childs : Iterates(rest.childs[i][1], rest.childs[i][2])
  BY <1>4
<1>6. \A i, j \in DOMAIN rest.childs : i # j => Of(rest.childs[i]) \cap Of(rest.childs[j]) = {}
  <2> SUFFICES ASSUME NEW i \in DOMAIN rest.childs, NEW j \in DOMAIN rest.childs, i # j
               PROVE  Of(rest.childs[i]) \cap Of(rest.childs[j]) = {}
    OBVIOUS
  <2>1. i \in Nat /\ j \in Nat
    <3>1. rest.childs \in Seq(Nat \X Descriptors)
      BY <1>4
    <3> QED BY <3>1
  <2>2. i + 1 # j + 1
    BY <2>1
  <2>3. \A k \in DOMAIN rest.childs : k + 1 \in DOMAIN frame.childs /\ rest.childs[k] = frame.childs[k + 1]
    BY <1>4, Zenon
  <2> QED BY <2>2, <2>3, Zenon
<1>7. PICK o2 : /\ Lists(o2, UNION {Of(rest.childs[i]) : i \in DOMAIN rest.childs}) /\ Drains(rest, o2)
  BY <1>3, <1>5, <1>6, Zenon DEF ChildsDrain
<1>8. PICK child : child = Head(frame.childs)
  OBVIOUS
<1>9. PICK o1 : Lists(o1, Of(child)) /\ Drains(Entered(child), o1)
  <2>1. Iterates(child[1], child[2])
    BY <1>4, <1>8
  <2>2. PICK o : Lists(o, Shifted(child[1], child[2])) /\ Drains(CurrentDescriptor(child[1], child[2]), o)
    BY <2>1, Zenon DEF Iterates
  <2> QED BY <2>2 DEF Of, Entered
<1>10. Drains(frame, o1 \o o2)
  <2>1. o1 \in Seq(Nat) /\ o2 \in Seq(Nat)
    BY <1>7, <1>9 DEF Lists
  <2> QED BY <1>2, <1>7, <1>8, <1>9, <2>1, DrainChild
<1> DEFINE others == UNION {Of(rest.childs[i]) : i \in DOMAIN rest.childs}
<1>11. Of(child) \cap others = {}
  <2>1. \A i \in DOMAIN rest.childs : Of(child) \cap Of(rest.childs[i]) = {}
    BY <1>4, <1>8
  <2> QED BY <2>1
<1>12. Lists(o1 \o o2, Of(child) \cup others)
  BY <1>7, <1>9, <1>11, ListsConcat
<1>13. Of(child) \cup others = UNION {Of(frame.childs[i]) : i \in DOMAIN frame.childs}
  <2>1. \A i \in DOMAIN frame.childs : frame.childs[i] = child \/ \E k \in DOMAIN rest.childs : frame.childs[i] = rest.childs[k]
    <3> SUFFICES ASSUME NEW i \in DOMAIN frame.childs, i # 1
                 PROVE  \E k \in DOMAIN rest.childs : frame.childs[i] = rest.childs[k]
      BY <1>4, <1>8
    <3>1. PICK k \in DOMAIN rest.childs : i = k + 1
      BY <1>4
    <3> QED BY <1>4, <3>1
  <2>2. \E i \in DOMAIN frame.childs : frame.childs[i] = child
    BY <1>4, <1>8
  <2>3. \A k \in DOMAIN rest.childs : \E i \in DOMAIN frame.childs : rest.childs[k] = frame.childs[i]
    BY <1>4
  <2> QED BY <2>1, <2>2, <2>3
<1> QED BY <1>10, <1>12, <1>13

\* Any number of children.
LEMMA ChildsDrainAll == \A frame \in Frames : frame.fields = <<>> => ChildsDrain(frame)
<1> DEFINE Bad == {n \in Nat : \E frame \in Frames :
                     frame.fields = <<>> /\ Len(frame.childs) = n /\ ~ChildsDrain(frame)}
<1> SUFFICES ASSUME NEW any \in Frames, any.fields = <<>>, ~ChildsDrain(any) PROVE FALSE
  OBVIOUS
<1>1. \A frame \in Frames : frame.childs \in Seq(Nat \X Descriptors) /\ Len(frame.childs) \in Nat
  BY DEF Frames
<1>2. PICK n \in Bad : \A m \in Bad : n <= m
  <2>1. Bad \in SUBSET Nat /\ Bad # {}
    BY <1>1
  <2> HIDE DEF Bad
  <2> QED BY <2>1, LeastOf
<1>3. PICK frame \in Frames : frame.fields = <<>> /\ Len(frame.childs) = n /\ ~ChildsDrain(frame)
  BY <1>2
<1>4. CASE frame.childs = <<>>
  <2>1. UNION {Of(frame.childs[i]) : i \in DOMAIN frame.childs} = {}
    BY <1>4
  <2>2. Lists(<<>>, {})
    BY DEF Lists
  <2>3. Drains(frame, <<>>)
    BY <1>3, <1>4, DrainNothing
  <2> QED BY <1>3, <2>1, <2>2, <2>3 DEF ChildsDrain
<1>5. CASE frame.childs # <<>>
  <2>1. PICK rest \in Frames : rest = [frame EXCEPT !.childs = Tail(frame.childs)]
    BY <1>5, FrameRest
  <2>2. rest.fields = <<>> /\ Len(rest.childs) = n - 1
    BY <1>1, <1>3, <1>5, <2>1, HeadAndTail DEF Frames
  <2>3. ChildsDrain(rest)
    BY <1>1, <1>2, <2>2
  <2> QED BY <1>3, <1>5, <2>1, <2>3, ChildsDrainStep
<1> QED BY <1>4, <1>5

\* Pointers lie in their type, and are aligned.
LEMMA PointersBound ==
  \A desc \in Descriptors : \A p \in PointersIn[desc] : p \in Nat /\ p % 8 = 0 /\ p + 8 <= desc.size
<1> DEFINE Fine(desc) == \A p \in PointersIn[desc] : p % 8 = 0 /\ p + 8 <= desc.size
<1>1. PICK depth \in [Descriptors -> 0 .. MaxDepth] :
        \A desc \in Descriptors : \A i \in DOMAIN desc.unflattened :
          depth[desc.unflattened[i][2]] < depth[desc]
  BY LayoutAssumption
<1>2. \A desc \in Descriptors : Fine(desc)
  <2> DEFINE Bad == {n \in Nat : \E desc \in Descriptors : depth[desc] = n /\ ~Fine(desc)}
  <2> SUFFICES ASSUME NEW any \in Descriptors, ~Fine(any) PROVE FALSE
    OBVIOUS
  <2> HIDE DEF Fine
  <2>1. depth[any] \in Nat
    BY LayoutAssumption
  <2>2. PICK n \in Bad : \A m \in Bad : n <= m
    <3>1. Bad \in SUBSET Nat /\ Bad # {}
      BY <2>1
    <3> HIDE DEF Bad
    <3> QED BY <3>1, LeastOf
  <2>3. PICK desc \in Descriptors : depth[desc] = n /\ ~Fine(desc)
    BY <2>2
  <2>4. PICK p \in PointersIn[desc] : ~(p % 8 = 0 /\ p + 8 <= desc.size)
    BY <2>3 DEF Fine
  <2>5. p \in PointersBy(PointersIn, desc)
    BY PointersInDef, Zenon
  <2>6. Sane(desc)
    BY LayoutAssumption
  <2>7. p \notin ToSet(desc.fields)
    <3>1. \A i \in DOMAIN desc.fields : desc.fields[i] % 8 = 0 /\ desc.fields[i] + 8 <= desc.size
      BY <2>6 DEF Sane, Word
    <3> QED BY <2>4, <3>1 DEF ToSet
  <2>8. PICK part \in ToSet(desc.unflattened) : \E offset \in PointersIn[part[2]] : p = part[1] + offset
    BY <2>5, <2>7 DEF PointersBy
  <2>9. PICK offset \in PointersIn[part[2]] : p = part[1] + offset
    BY <2>8
  <2>10. PICK i \in DOMAIN desc.unflattened : part = desc.unflattened[i]
    BY <2>8 DEF ToSet
  <2>11. part[1] \in Nat /\ part[2] \in Descriptors
    BY <2>8, DescriptorParts
  <2>12. part[1] % 8 = 0 /\ part[1] + part[2].size <= desc.size
    BY <2>6, <2>9, <2>10 DEF Sane, Word
  <2>13. Fine(part[2])
    <3>1. depth[part[2]] < depth[desc]
      BY <1>1, <2>10
    <3>2. depth[part[2]] \in Nat /\ depth[desc] \in Nat
      BY <2>11, LayoutAssumption
    <3> QED BY <2>2, <2>3, <2>11, <3>1, <3>2
  <2>14. offset % 8 = 0 /\ offset + 8 <= part[2].size /\ offset \in Nat
    <3>1. offset % 8 = 0 /\ offset + 8 <= part[2].size
      BY <2>13 DEF Fine
    <3> QED BY <3>1, <2>11, PointersInDef
  <2>15. part[2].size \in Nat /\ desc.size \in Nat
    BY <2>11, DescriptorParts
  <2>16. PICK a \in Nat, b \in Nat, c \in Nat, d \in Nat :
           a = part[1] /\ b = offset /\ c = part[2].size /\ d = desc.size
    BY <2>11, <2>14, <2>15
  <2>17. a % 8 = 0 /\ b % 8 = 0 /\ a + c <= d /\ b + 8 <= c /\ p = a + b
    BY <2>9, <2>12, <2>14, <2>16
  <2>18. (a + b) % 8 = 0 /\ a + b + 8 <= d
    BY <2>17
  <2> QED BY <2>4, <2>16, <2>17, <2>18
<1>3. \A desc \in Descriptors : PointersIn[desc] \subseteq Nat
  BY PointersInDef
<1> QED BY <1>2, <1>3

\* What lies apart has no pointer in common.
LEMMA PartsDisjoint ==
  ASSUME NEW desc \in Descriptors
  PROVE  /\ \A i, j \in DOMAIN desc.unflattened : i # j => Of(desc.unflattened[i]) \cap Of(desc.unflattened[j]) = {}
         /\ \A i \in DOMAIN desc.fields, j \in DOMAIN desc.unflattened : desc.fields[i] \notin Of(desc.unflattened[j])
<1>1. Sane(desc)
  BY LayoutAssumption
<1>2. \A j \in DOMAIN desc.unflattened : desc.unflattened[j] \in Nat \X Descriptors
  BY DescriptorParts
<1>3. \A child \in Nat \X Descriptors : \A p \in Of(child) :
        child[1] \in Nat /\ child[2].size \in Nat /\ p \in Nat /\ child[1] <= p /\ p + 8 <= child[1] + child[2].size
  <2> SUFFICES ASSUME NEW child \in Nat \X Descriptors, NEW p \in Of(child)
               PROVE  child[1] \in Nat /\ child[2].size \in Nat /\ p \in Nat /\ child[1] <= p
                      /\ p + 8 <= child[1] + child[2].size
    OBVIOUS
  <2>1. child[1] \in Nat /\ child[2] \in Descriptors /\ child[2].size \in Nat
    BY DescriptorParts
  <2>2. PICK q \in PointersIn[child[2]] : p = child[1] + q
    BY DEF Of, Shifted
  <2>3. q \in Nat /\ q + 8 <= child[2].size
    BY <2>1, PointersBound
  <2> QED BY <2>1, <2>2, <2>3
<1>4. ASSUME NEW i \in DOMAIN desc.unflattened, NEW j \in DOMAIN desc.unflattened, i # j,
             NEW p \in Of(desc.unflattened[i]), p \in Of(desc.unflattened[j])
      PROVE  FALSE
  <2>1. Apart(desc.unflattened[i][1], desc.unflattened[i][2].size, desc.unflattened[j][1], desc.unflattened[j][2].size)
    BY <1>1, <1>4 DEF Sane
  <2>2. PICK a \in Nat \X Descriptors, b \in Nat \X Descriptors : a = desc.unflattened[i] /\ b = desc.unflattened[j]
    BY <1>2
  <2>3. Apart(a[1], a[2].size, b[1], b[2].size) /\ p \in Of(a) /\ p \in Of(b)
    BY <1>4, <2>1, <2>2
  <2> QED BY <1>3, <2>3 DEF Apart
<1>5. ASSUME NEW i \in DOMAIN desc.fields, NEW j \in DOMAIN desc.unflattened, desc.fields[i] \in Of(desc.unflattened[j])
      PROVE  FALSE
  <2>1. Apart(desc.fields[i], 8, desc.unflattened[j][1], desc.unflattened[j][2].size)
    BY <1>1 DEF Sane, Word
  <2>2. PICK b \in Nat \X Descriptors : b = desc.unflattened[j]
    BY <1>2
  <2>3. PICK f : f = desc.fields[i]
    OBVIOUS
  <2>4. Apart(f, 8, b[1], b[2].size) /\ f \in Of(b)
    BY <1>5, <2>1, <2>2, <2>3
  <2> QED BY <1>3, <2>4 DEF Apart
<1> QED BY <1>4, <1>5

\* A descriptor is iterated over right when its parts are, and none of them has
\* a pointer unless it is where the machine takes it to be.
LEMMA IteratesOne ==
  ASSUME NEW base0 \in Nat, NEW desc \in Descriptors,
         \A i \in DOMAIN desc.unflattened : Iterates(desc.unflattened[i][1], desc.unflattened[i][2]),
         base0 = 0 \/ Shallow(desc)
  PROVE  Iterates(base0, desc)
<1>1. desc.fields \in Seq(Nat) /\ desc.unflattened \in Seq(Nat \X Descriptors)
  BY DescriptorParts
<1>2. PICK frame : frame = CurrentDescriptor(base0, desc)
  OBVIOUS
<1>3. frame \in Frames /\ frame.base = base0 /\ frame.fields = desc.fields /\ frame.childs = desc.unflattened
  BY <1>1, <1>2 DEF CurrentDescriptor, Frames
<1>4. PICK rest : rest = [frame EXCEPT !.fields = <<>>]
  OBVIOUS
<1>5. rest \in Frames /\ rest.fields = <<>> /\ rest.childs = desc.unflattened
  <2>1. rest = [base |-> base0, fields |-> <<>>, childs |-> desc.unflattened]
    BY <1>2, <1>4 DEF CurrentDescriptor
  <2> QED BY <1>1, <2>1 DEF Frames
<1> DEFINE below == UNION {Of(desc.unflattened[i]) : i \in DOMAIN desc.unflattened}
<1>6. PICK o : Lists(o, below) /\ Drains(rest, o)
  <2>1. ChildsDrain(rest)
    BY <1>5, ChildsDrainAll
  <2>2. \A i, j \in DOMAIN desc.unflattened : i # j => Of(desc.unflattened[i]) \cap Of(desc.unflattened[j]) = {}
    BY PartsDisjoint
  <2>3. PICK s : s = desc.unflattened
    OBVIOUS
  <2>4. /\ \A i \in DOMAIN rest.childs : Iterates(rest.childs[i][1], rest.childs[i][2])
        /\ \A i, j \in DOMAIN rest.childs : i # j => Of(rest.childs[i]) \cap Of(rest.childs[j]) = {}
    BY <1>5, <2>2
  <2>5. \E all : /\ Lists(all, UNION {Of(rest.childs[i]) : i \in DOMAIN rest.childs})
                 /\ Drains(rest, all)
    BY <2>1, <2>4, Zenon DEF ChildsDrain
  <2> QED BY <1>5, <2>5
<1>7. base0 # 0 => below = {}
  <2> SUFFICES ASSUME Shallow(desc), NEW i \in DOMAIN desc.unflattened PROVE Of(desc.unflattened[i]) = {}
    OBVIOUS
  <2>1. PointersIn[desc.unflattened[i][2]] = {}
    BY DEF Shallow
  <2> QED BY <2>1 DEF Of, Shifted
<1> HIDE DEF below
<1>8. \A i \in DOMAIN desc.fields : desc.fields[i] \in Nat
  BY <1>1
<1>9. \A i \in DOMAIN frame.fields : frame.base + frame.fields[i] \notin below
  <2> SUFFICES ASSUME NEW i \in DOMAIN desc.fields, base0 = 0, 0 + desc.fields[i] \in below PROVE FALSE
    BY <1>3, <1>7
  <2>1. desc.fields[i] \in below
    BY <1>8
  <2> QED BY <2>1, PartsDisjoint DEF below
<1>10. \A i, j \in DOMAIN frame.fields : frame.fields[i] = frame.fields[j] => i = j
  <2>1. Sane(desc)
    BY LayoutAssumption
  <2>2. \A i, j \in DOMAIN desc.fields : i # j => desc.fields[i] # desc.fields[j]
    BY <2>1 DEF Sane
  <2> QED BY <1>3, <2>2
<1>11. PICK all : /\ Lists(all, {frame.base + frame.fields[i] : i \in DOMAIN frame.fields} \cup below)
                  /\ Drains(frame, all)
  <2>1. FieldsDrain(frame)
    BY <1>3, FieldsDrainAll
  <2>2. Drains([frame EXCEPT !.fields = <<>>], o)
    BY <1>4, <1>6
  <2> QED BY <1>6, <1>9, <1>10, <2>1, <2>2, Zenon DEF FieldsDrain
<1>12. {frame.base + frame.fields[i] : i \in DOMAIN frame.fields} \cup below = Shifted(base0, desc)
  <2>1. PointersIn[desc] = PointersBy(PointersIn, desc)
    BY PointersInDef, Zenon
  <2>2. \A p : p \in PointersIn[desc] <=> (\E i \in DOMAIN desc.fields : p = desc.fields[i]) \/ p \in below
    <3>1. \A p : p \in ToSet(desc.fields) <=> \E i \in DOMAIN desc.fields : p = desc.fields[i]
      BY DEF ToSet
    <3>2. \A p : p \in below <=> \E part \in ToSet(desc.unflattened) : \E q \in PointersIn[part[2]] : p = part[1] + q
      BY DEF ToSet, below, Of, Shifted
    <3> QED BY <2>1, <3>1, <3>2 DEF PointersBy
  <2>3. CASE base0 = 0
    <3>1. \A p \in PointersIn[desc] : p \in Nat
      BY PointersBound
    <3>2. Shifted(base0, desc) = PointersIn[desc]
      BY <2>3, <3>1 DEF Shifted
    <3>3. \A i \in DOMAIN frame.fields : frame.base + frame.fields[i] = desc.fields[i]
      BY <1>3, <1>8, <2>3
    <3>4. {frame.base + frame.fields[i] : i \in DOMAIN frame.fields} = {desc.fields[i] : i \in DOMAIN desc.fields}
      BY <1>3, <3>3
    <3> QED BY <2>2, <3>2, <3>4
  <2>4. CASE base0 # 0
    <3>1. \A p : p \in PointersIn[desc] <=> \E i \in DOMAIN desc.fields : p = desc.fields[i]
      BY <1>7, <2>2, <2>4
    <3> QED BY <1>3, <1>7, <2>4, <3>1 DEF Shifted
  <2> QED BY <2>3, <2>4
<1> QED BY <1>2, <1>11, <1>12 DEF Iterates

\* The parts of a descriptor are less deep.
LEMMA Depth ==
  \E depth \in [Descriptors -> Nat] :
    \A desc \in Descriptors : \A i \in DOMAIN desc.unflattened :
      desc.unflattened[i][2] \in Descriptors /\ depth[desc.unflattened[i][2]] < depth[desc]
<1>1. PICK depth \in [Descriptors -> 0 .. MaxDepth] :
        \A desc \in Descriptors : \A i \in DOMAIN desc.unflattened :
          depth[desc.unflattened[i][2]] < depth[desc]
  BY LayoutAssumption
<1>2. depth \in [Descriptors -> Nat]
  BY LayoutAssumption
<1>3. \A desc \in Descriptors : \A i \in DOMAIN desc.unflattened : desc.unflattened[i][2] \in Descriptors
  BY DescriptorParts DEF ToSet
<1> QED BY <1>1, <1>2, <1>3

\* The parts of a type without pointers have none.
LEMMA NoPointersInParts ==
  ASSUME NEW desc \in Descriptors, PointersIn[desc] = {}
  PROVE  Shallow(desc)
<1> SUFFICES ASSUME NEW i \in DOMAIN desc.unflattened, NEW p \in PointersIn[desc.unflattened[i][2]] PROVE FALSE
  BY DEF Shallow
<1>1. desc.unflattened[i] \in ToSet(desc.unflattened)
  BY DEF ToSet
<1>2. desc.unflattened[i][1] + p \in PointersBy(PointersIn, desc)
  BY <1>1 DEF PointersBy
<1> QED BY <1>2, PointersInDef, Zenon

\* Where no part has pointers in its parts, iterating is right at any offset.
LEMMA ShallowIterates == \A desc \in Descriptors : Shallow(desc) => \A b \in Nat : Iterates(b, desc)
<1> DEFINE Fine(desc) == Shallow(desc) => \A b \in Nat : Iterates(b, desc)
<1>1. PICK depth \in [Descriptors -> Nat] :
        \A desc \in Descriptors : \A i \in DOMAIN desc.unflattened :
          desc.unflattened[i][2] \in Descriptors /\ depth[desc.unflattened[i][2]] < depth[desc]
  BY Depth
<1> DEFINE Bad == {n \in Nat : \E desc \in Descriptors : depth[desc] = n /\ ~Fine(desc)}
<1> SUFFICES ASSUME NEW any \in Descriptors, ~Fine(any) PROVE FALSE
  OBVIOUS
<1> HIDE DEF Fine
<1>2. PICK n \in Bad : \A m \in Bad : n <= m
  <2>1. Bad \in SUBSET Nat /\ Bad # {}
    OBVIOUS
  <2> HIDE DEF Bad
  <2> QED BY <2>1, LeastOf
<1>3. PICK desc \in Descriptors : depth[desc] = n /\ ~Fine(desc)
  BY <1>2
<1>4. Shallow(desc)
  BY <1>3 DEF Fine
<1>5. ASSUME NEW i \in DOMAIN desc.unflattened PROVE Iterates(desc.unflattened[i][1], desc.unflattened[i][2])
  <2>1. desc.unflattened[i] \in Nat \X Descriptors
    BY DescriptorParts
  <2>2. PICK part \in Nat \X Descriptors : part = desc.unflattened[i]
    BY <2>1
  <2>3. part[1] \in Nat /\ part[2] \in Descriptors /\ depth[part[2]] < depth[desc]
    BY <1>1, <2>2
  <2>4. Fine(part[2])
    BY <1>2, <1>3, <2>3
  <2>5. Shallow(part[2])
    <3>1. PointersIn[part[2]] = {}
      BY <1>4, <2>2 DEF Shallow
    <3> QED BY <2>3, <3>1, NoPointersInParts
  <2> QED BY <2>2, <2>3, <2>4, <2>5 DEF Fine
<1>6. Fine(desc)
  BY <1>4, <1>5, IteratesOne DEF Fine
<1> QED BY <1>3, <1>6

\* And so it is for the types of an upright set, from the start of an object.
LEMMA UprightIterates ==
  ASSUME NEW types \in SUBSET Descriptors, Upright(types)
  PROVE  \A desc \in types : Iterates(0, desc)
<1>1. PICK depth \in [Descriptors -> Nat] :
        \A desc \in Descriptors : \A i \in DOMAIN desc.unflattened :
          desc.unflattened[i][2] \in Descriptors /\ depth[desc.unflattened[i][2]] < depth[desc]
  BY Depth
<1> DEFINE Bad == {n \in Nat : \E desc \in types : depth[desc] = n /\ ~Iterates(0, desc)}
<1> SUFFICES ASSUME NEW any \in types, ~Iterates(0, any) PROVE FALSE
  OBVIOUS
<1>2. PICK n \in Bad : \A m \in Bad : n <= m
  <2>1. Bad \in SUBSET Nat /\ Bad # {}
    OBVIOUS
  <2> HIDE DEF Bad
  <2> QED BY <2>1, LeastOf
<1>3. PICK desc \in types : depth[desc] = n /\ ~Iterates(0, desc)
  BY <1>2
<1>4. ASSUME NEW i \in DOMAIN desc.unflattened PROVE Iterates(desc.unflattened[i][1], desc.unflattened[i][2])
  <2>1. desc.unflattened[i] \in Nat \X Descriptors
    BY DescriptorParts
  <2>2. PICK part \in Nat \X Descriptors : part = desc.unflattened[i]
    BY <2>1
  <2>3. part[1] \in Nat /\ part[2] \in Descriptors /\ depth[part[2]] < depth[desc]
    BY <1>1, <2>2
  <2>4. IF part[1] = 0 THEN part[2] \in types ELSE Shallow(part[2])
    BY <2>2 DEF Upright
  <2>5. CASE part[1] = 0
    BY <1>2, <1>3, <2>2, <2>3, <2>4, <2>5
  <2>6. CASE part[1] # 0
    BY <2>2, <2>3, <2>4, <2>6, ShallowIterates
  <2> QED BY <2>5, <2>6
<1> QED BY <1>3, <1>4, IteratesOne

\* What calls of next return for a type of an upright set: each pointer once.
LEMMA IterPtrsList ==
  ASSUME NEW types \in SUBSET Descriptors, Upright(types), NEW desc \in types
  PROVE  Lists(IterPtrs[desc], PointersIn[desc])
<1>1. PICK o : Lists(o, Shifted(0, desc)) /\ Drains(CurrentDescriptor(0, desc), o)
  BY UprightIterates DEF Iterates
<1>2. Shifted(0, desc) = PointersIn[desc]
  BY PointersBound DEF Shifted
<1>3. PICK frame : frame = CurrentDescriptor(0, desc)
  OBVIOUS
<1>4. <<>> \in Seq(Frames) /\ <<>> \in Seq(Nat) /\ o \in Seq(Nat)
  BY <1>1 DEF Lists
<1>5. Drained[At(<<>>, frame, <<>>)] = Drained[[stack |-> <<>>, out |-> <<>> \o o]]
  BY <1>1, <1>3, <1>4, Zenon DEF Drains
<1>6. <<>> \o o = o
  BY <1>4
<1>7. At(<<>>, frame, <<>>) = [stack |-> <<frame>>, out |-> <<>>]
  BY DEF At
<1>8. PICK end : end = [stack |-> <<>>, out |-> o]
  OBVIOUS
<1>9. end \in Iterators /\ end.stack = <<>> /\ end.out = o
  BY <1>4, <1>8 DEF Iterators
<1>10. Drained[end] = o
  BY <1>9, DrainedDef
<1>11. IterPtrs[desc] = Drained[[stack |-> <<frame>>, out |-> <<>>]]
  BY <1>3 DEF IterPtrs
<1> QED BY <1>1, <1>2, <1>5, <1>6, <1>7, <1>8, <1>10, <1>11

-----------------------------------------------------------------------------
(* Objects. *)

\* Elements of an array lie one behind the other.
LEMMA ElementBound ==
  ASSUME NEW i \in Nat, NEW n \in Nat, NEW size \in Nat, i < n
  PROVE  i * size \in Nat /\ n * size \in Nat /\ i * size + size <= n * size
<1>1. PICK k \in Nat : n = i + 1 + k
  <2>1. n - i - 1 \in Nat /\ n = i + 1 + (n - i - 1)
    OBVIOUS
  <2> QED BY <2>1
<1>2. i * size \in Nat /\ k * size \in Nat /\ n * size \in Nat
  OBVIOUS
<1>3. (i + 1 + k) * size = i * size + size + k * size
  OBVIOUS
<1> QED BY <1>1, <1>2, <1>3

\* Multiples of the size of a type with pointers are aligned.
LEMMA ElementAligned ==
  ASSUME NEW i \in Nat, NEW size \in Nat, size % 8 = 0
  PROVE  (i * size) % 8 = 0
<1>1. PICK k \in Nat : size = 8 * k
  <2>1. size \div 8 \in Nat /\ size = 8 * (size \div 8)
    OBVIOUS
  <2> QED BY <2>1
<1>2. i * size = 8 * (i * k) /\ i * k \in Nat
  BY <1>1
<1>3. \A m \in Nat : (8 * m) % 8 = 0
  OBVIOUS
<1> QED BY <1>2, <1>3

\* An offset in an element of an array.
ElementAt(desc, i, p) == i * desc.size + p + ArrayHeader

\* Pointers lie in their object, behind the header of an array.
LEMMA OffsetsBound ==
  ASSUME NEW desc \in Descriptors, NEW len \in Nat
  PROVE  /\ DynamicSize(desc, len) \in Nat
         /\ desc.is_array => DynamicSize(desc, len) >= 8
         /\ \A o \in PointersOf(desc, len) :
              /\ o \in Nat /\ o % 8 = 0 /\ o + 8 <= DynamicSize(desc, len)
              /\ desc.is_array => o >= 8
<1>1. Sane(desc) /\ desc.size \in Nat
  BY LayoutAssumption, DescriptorParts
<1>2. CASE ~desc.is_array
  BY <1>1, <1>2, PointersBound DEF PointersOf, DynamicSize
<1>3. CASE desc.is_array
  <2>1. desc.size * len \in Nat /\ DynamicSize(desc, len) = 8 + desc.size * len
    BY <1>1, <1>3 DEF DynamicSize, StaticSize, ArrayHeader, Word
  <2>2. ASSUME NEW o \in PointersOf(desc, len)
        PROVE  o \in Nat /\ o % 8 = 0 /\ o + 8 <= DynamicSize(desc, len) /\ o >= 8
    <3>1. PICK i \in 0 .. len - 1, p \in PointersIn[desc] : o = 8 + i * desc.size + p
      BY <1>3, <2>2 DEF PointersOf, ArrayHeader, Word
    <3>2. p \in Nat /\ p % 8 = 0 /\ p + 8 <= desc.size /\ i \in Nat /\ i < len
      BY PointersBound
    <3>3. desc.size % 8 = 0
      BY <1>1 DEF Sane, Word
    <3>4. PICK s \in Nat, k \in Nat, t \in Nat : s = desc.size /\ k = i * desc.size /\ t = desc.size * len
      BY <1>1, <3>2
    <3>5. k + s <= t
      <4>1. i * s + s <= len * s
        BY <3>2, ElementBound
      <4>2. len * s = s * len
        BY <3>4
      <4> QED BY <3>4, <4>1, <4>2
    <3>6. k % 8 = 0
      BY <1>1, <3>2, <3>3, <3>4, ElementAligned
    <3>7. o = 8 + k + p /\ p + 8 <= s /\ DynamicSize(desc, len) = 8 + t
      BY <2>1, <3>1, <3>2, <3>4
    <3> QED BY <3>2, <3>4, <3>5, <3>6, <3>7
  <2> QED BY <2>1, <2>2
<1>4. desc.is_array \in BOOLEAN
  BY <1>1 DEF Sane
<1> QED BY <1>2, <1>3, <1>4

\* Iterating over an object of a type of an upright set, of any length, visits
\* each of its pointers once, and nothing else (types.rs:135).
THEOREM IteratorsAgree ==
  ASSUME NEW types \in SUBSET Descriptors, Upright(types), NEW desc \in types, NEW len \in Nat
  PROVE  LET offsets == PointerIterator(desc, len)
         IN  /\ {offsets[x] : x \in DOMAIN offsets} = PointersOf(desc, len)
             /\ \A x, y \in DOMAIN offsets : offsets[x] = offsets[y] => x = y
<1>1. PICK ptrs : ptrs = IterPtrs[desc]
  OBVIOUS
<1>2. Lists(ptrs, PointersIn[desc])
  BY <1>1, IterPtrsList
<1>3. /\ \A k \in DOMAIN ptrs : ptrs[k] \in PointersIn[desc]
      /\ \A p \in PointersIn[desc] : \E k \in DOMAIN ptrs : ptrs[k] = p
      /\ \A k, l \in DOMAIN ptrs : ptrs[k] = ptrs[l] => k = l
  BY <1>2 DEF Lists
<1>4. CASE ~desc.is_array
  <2>1. PointerIterator(desc, len) = ptrs /\ PointersOf(desc, len) = PointersIn[desc]
    BY <1>1, <1>4 DEF PointerIterator, PointersOf
  <2> QED BY <1>2, <2>1 DEF Lists
<1>5. CASE desc.is_array
  <2>1. PICK offsets : offsets = PointerIterator(desc, len)
    OBVIOUS
  <2>2. offsets = [at \in (0 .. len - 1) \X DOMAIN ptrs |-> at[1] * desc.size + ptrs[at[2]] + 8]
    BY <1>1, <1>5, <2>1 DEF PointerIterator, ArrayIter, ArrayHeader, Word
  <2>3. desc.size \in Nat /\ \A p \in PointersIn[desc] : p \in Nat /\ p + 8 <= desc.size
    BY DescriptorParts, PointersBound
  <2>4. ASSUME NEW x \in DOMAIN offsets
        PROVE  /\ x[1] \in 0 .. len - 1 /\ x[2] \in DOMAIN ptrs /\ x = <<x[1], x[2]>>
               /\ offsets[x] = 8 + x[1] * desc.size + ptrs[x[2]]
    <3>1. x \in (0 .. len - 1) \X DOMAIN ptrs
      BY <2>2
    <3>2. x[1] \in Nat /\ ptrs[x[2]] \in Nat /\ x[1] * desc.size \in Nat
      BY <1>3, <2>3, <3>1
    <3>3. PICK k \in Nat, p \in Nat : k = x[1] * desc.size /\ p = ptrs[x[2]]
      BY <3>2
    <3>4. offsets[x] = k + p + 8
      BY <2>2, <3>1, <3>3
    <3> QED BY <3>1, <3>3, <3>4
  <2>5. \A x \in DOMAIN offsets : offsets[x] \in PointersOf(desc, len)
    BY <1>3, <1>5, <2>4 DEF PointersOf, ArrayHeader, Word
  <2>6. ASSUME NEW o \in PointersOf(desc, len) PROVE \E x \in DOMAIN offsets : offsets[x] = o
    <3>1. PICK i \in 0 .. len - 1, p \in PointersIn[desc] : o = 8 + i * desc.size + p
      BY <1>5, <2>6 DEF PointersOf, ArrayHeader, Word
    <3>2. PICK k \in DOMAIN ptrs : ptrs[k] = p
      BY <1>3
    <3>3. <<i, k>> \in DOMAIN offsets
      BY <2>2
    <3> QED BY <2>4, <3>1, <3>2, <3>3
  <2>7. ASSUME NEW x \in DOMAIN offsets, NEW y \in DOMAIN offsets, offsets[x] = offsets[y]
        PROVE  x = y
    <3>0. \A z \in {x, y} : z[1] \in Nat /\ z[2] \in DOMAIN ptrs /\ ptrs[z[2]] \in Nat /\ ptrs[z[2]] + 8 <= desc.size
      <4> SUFFICES ASSUME NEW z \in DOMAIN offsets
                   PROVE  z[1] \in Nat /\ z[2] \in DOMAIN ptrs /\ ptrs[z[2]] \in Nat /\ ptrs[z[2]] + 8 <= desc.size
        OBVIOUS
      <4>1. z[1] \in 0 .. len - 1 /\ z[2] \in DOMAIN ptrs
        BY <2>4
      <4>2. ptrs[z[2]] \in PointersIn[desc]
        BY <1>3, <4>1
      <4> QED BY <2>3, <4>1, <4>2
    <3>1. PICK i \in Nat, j \in Nat, p \in Nat, q \in Nat, s \in Nat :
            /\ i = x[1] /\ j = y[1] /\ p = ptrs[x[2]] /\ q = ptrs[y[2]] /\ s = desc.size
            /\ p + 8 <= s /\ q + 8 <= s
      BY <2>3, <3>0
    <3>2. PICK a \in Nat, b \in Nat : a = i * s /\ b = j * s
      OBVIOUS
    <3>3. a + p = b + q
      <4>1. 8 + a + p = 8 + b + q
        BY <2>4, <2>7, <3>1, <3>2
      <4> QED BY <4>1
    <3>4. ~(i < j)
      <4>1. i < j => a + s <= b
        BY <3>2, ElementBound
      <4> QED BY <3>1, <3>2, <3>3, <4>1
    <3>5. ~(j < i)
      <4>1. j < i => b + s <= a
        BY <3>2, ElementBound
      <4> QED BY <3>1, <3>2, <3>3, <4>1
    <3>6. i = j
      BY <3>4, <3>5
    <3>7. p = q
      BY <3>2, <3>3, <3>6
    <3>8. x[2] = y[2]
      <4>1. PICK k \in DOMAIN ptrs, l \in DOMAIN ptrs : k = x[2] /\ l = y[2]
        BY <3>0
      <4>2. ptrs[k] = ptrs[l]
        BY <3>1, <3>7, <4>1
      <4> QED BY <1>3, <4>1, <4>2
    <3>9. x = <<x[1], x[2]>> /\ y = <<y[1], y[2]>>
      BY <2>4
    <3> QED BY <3>1, <3>6, <3>8, <3>9
  <2>8. {offsets[x] : x \in DOMAIN offsets} = PointersOf(desc, len)
    BY <2>5, <2>6
  <2> QED BY <2>1, <2>7, <2>8
<1> QED BY <1>4, <1>5

-----------------------------------------------------------------------------
(* The heap. *)

Words ==
  {Nil, Data} \cup {Ptr(a) : a \in Addresses} \cup {Meta(desc) : desc \in StaticTypes}
    \cup {Length(n) : n \in Nat}

ObjectsOf(m) == {a \in Addresses : IsObject(m, a)}

\* A memory whose objects lie between two addresses, one behind the other, and
\* whose boxes are empty or refer to objects.
HeapOK(m, low, high) ==
  /\ m \in [Addresses -> Words]
  /\ \A a \in ObjectsOf(m) :
       /\ low <= a /\ a + SizeAt(m, a) <= high
       /\ TypeAt(m, a).is_array => \E n \in Nat : m[a + Metadata] = Length(n)
  /\ \A a, c \in ObjectsOf(m) : a < c => a + SizeAt(m, a) <= c
  /\ \A a \in ObjectsOf(m) : \A w \in BoxesOf(m, a) : m[w] = Nil \/ \E c \in ObjectsOf(m) : m[w] = Ptr(c)

EvenSizes(m) == \A a \in ObjectsOf(m) : SizeAt(m, a) % 8 = 0

Marked(p) == p \in DOMAIN records \cup mark_stack
BytesOf(m, objects) == UNION {p .. p + SizeAt(m, p) - 1 : p \in objects}

\* While a cycle runs: what has been found, and where what is recorded goes.
MarkOK ==
  /\ DOMAIN records \subseteq ObjectsOf(mem) /\ mark_stack \subseteq ObjectsOf(mem) \ DOMAIN records
  /\ \A s \in Slots : roots[s] # Null => Marked(roots[s])
  /\ \A p \in DOMAIN records :
       /\ \A w \in BoxesOf(mem, p), c \in ObjectsOf(mem) : mem[w] = Ptr(c) => Marked(c)
       /\ records[p].size = SizeAt(mem, p) /\ records[p].size % 8 = 0
       /\ records[p].dest \in Nat /\ records[p].dest % 8 = 0
       /\ Space - base <= records[p].dest /\ records[p].dest + records[p].size <= top
  /\ \A p, q \in DOMAIN records :
       p # q => Apart(records[p].dest, records[p].size, records[q].dest, records[q].size)
  /\ top >= Space - base
  /\ Cardinality(BytesOf(mem, DOMAIN records)) = top - (Space - base)

\* The inductive invariant.
IInv ==
  /\ base \in {0, Space} /\ top \in Nat /\ top % 8 = 0
  /\ cycles \in 0 .. MaxCycles /\ latest_id \in Nat /\ DOMAIN dynamic_types \subseteq 0 .. latest_id - 1
  /\ HeapOK(mem, base, IF gpc = "idle" THEN top ELSE base + Space)
  /\ ~extended => EvenSizes(mem)
  /\ \A s \in Slots : roots[s] # Null => roots[s] \in ObjectsOf(mem)
  /\ gpc \in {"idle", "mark"}
  /\ gpc = "idle" => top \in base .. base + Space /\ records = << >> /\ mark_stack = {}
  /\ gpc = "mark" => MarkOK
  /\ \/ failure = "none"
     \/ failure = "size" /\ extended /\ gpc = "mark"

-----------------------------------------------------------------------------
(* Objects of a heap. *)

\* The kinds of words can be told apart.
LEMMA WordKinds ==
  ASSUME NEW w \in Words
  PROVE  /\ w[1] = "meta" => w[2] \in StaticTypes /\ w = Meta(w[2])
         /\ w[1] = "len" => w[2] \in Nat /\ w = Length(w[2])
         /\ w[1] = "ptr" => w[2] \in Addresses /\ w = Ptr(w[2])
         /\ w = Nil <=> w[1] = "nil"
BY DEF Words, Nil, Data, Ptr, Meta, Length

\* What a well-formed heap says of one of its objects.
LEMMA ObjectFacts ==
  ASSUME NEW m, NEW low, NEW high, HeapOK(m, low, high), NEW a \in ObjectsOf(m)
  PROVE  /\ a \in Addresses /\ a \in Nat /\ a % 8 = 0 /\ m[a] = Meta(TypeAt(m, a))
         /\ TypeAt(m, a) \in StaticTypes /\ TypeAt(m, a) \in Descriptors /\ LenAt(m, a) \in Nat
         /\ SizeAt(m, a) \in Nat /\ SizeAt(m, a) >= 8
         /\ SizeAt(m, a) = DynamicSize(TypeAt(m, a), LenAt(m, a)) + 8
         /\ TypeAt(m, a).is_array => SizeAt(m, a) >= 16 /\ m[a + 8] = Length(LenAt(m, a))
         /\ ~TypeAt(m, a).is_array => LenAt(m, a) = 0
         /\ \A w \in BoxesOf(m, a) :
              /\ w \in Nat /\ w % 8 = 0 /\ w >= a + 8 /\ w + 8 <= a + SizeAt(m, a)
              /\ TypeAt(m, a).is_array => w >= a + 16
<1>1. a \in Addresses /\ a \in Nat /\ a % 8 = 0 /\ m[a] \in Words /\ m[a][1] = "meta"
  BY TypesAssumption DEF ObjectsOf, Addresses, IsObject, HeapOK, Word
<1>2. m[a][2] \in StaticTypes /\ m[a] = Meta(m[a][2])
  BY <1>1, WordKinds
<1>3. PICK desc : desc = TypeAt(m, a)
  OBVIOUS
<1>4. desc \in StaticTypes /\ desc \in Descriptors /\ m[a] = Meta(desc)
  BY <1>2, <1>3, TypesAssumption DEF TypeAt
<1>5. desc.is_array => \E n \in Nat : m[a + 8] = Length(n)
  BY <1>3 DEF HeapOK, Metadata, Word
<1>6. PICK len \in Nat : len = LenAt(m, a)
  BY <1>3, <1>5 DEF LenAt, Length, Metadata, Word
<1>7. (desc.is_array => m[a + 8] = Length(len)) /\ (~desc.is_array => len = 0)
  BY <1>3, <1>5, <1>6 DEF LenAt, Length, Metadata, Word
<1>8. PICK size : size = DynamicSize(desc, len)
  OBVIOUS
<1>9. /\ size \in Nat /\ (desc.is_array => size >= 8)
      /\ \A o \in PointersOf(desc, len) :
           o \in Nat /\ o % 8 = 0 /\ o + 8 <= size /\ (desc.is_array => o >= 8)
  BY <1>4, <1>8, OffsetsBound
<1>10. SizeAt(m, a) = size + 8
  BY <1>3, <1>6, <1>8 DEF SizeAt, Metadata, Word
<1>11. ASSUME NEW w \in BoxesOf(m, a)
       PROVE  w \in Nat /\ w % 8 = 0 /\ w >= a + 8 /\ w + 8 <= a + (size + 8) /\ (desc.is_array => w >= a + 16)
  <2>1. PICK o \in PointersOf(desc, len) : w = a + 8 + o
    BY <1>3, <1>6, <1>11 DEF BoxesOf, Metadata, Word
  <2> QED BY <1>1, <1>9, <2>1
<1> QED BY <1>1, <1>3, <1>4, <1>6, <1>7, <1>8, <1>9, <1>10, <1>11

\* An address lies in one object.
LEMMA SameObject ==
  ASSUME NEW m, NEW low, NEW high, HeapOK(m, low, high), NEW a \in ObjectsOf(m), NEW c \in ObjectsOf(m),
         NEW x \in Nat, a <= x, x < a + SizeAt(m, a), c <= x, x < c + SizeAt(m, c)
  PROVE  a = c
<1>1. /\ a \in Nat /\ c \in Nat /\ SizeAt(m, a) \in Nat /\ SizeAt(m, c) \in Nat
      /\ (a < c => a + SizeAt(m, a) <= c) /\ (c < a => c + SizeAt(m, c) <= a)
  BY ObjectFacts DEF HeapOK
<1> QED BY <1>1

\* Boxes are words of the memory, and neither the header of an object nor the
\* length of an array.
LEMMA BoxesApart ==
  ASSUME NEW m, NEW low, NEW high, HeapOK(m, low, high), high <= 2 * Space, high \in Nat,
         NEW a \in ObjectsOf(m), NEW b \in BoxesOf(m, a), NEW c \in ObjectsOf(m)
  PROVE  b \in Addresses /\ b # c /\ (TypeAt(m, c).is_array => b # c + 8)
<1>0. SizeAt(m, a) \in Nat
  BY ObjectFacts
<1>1. PICK size \in Nat : size = SizeAt(m, a) /\ a + size <= high
  BY <1>0 DEF HeapOK
<1>2. b \in Nat /\ b % 8 = 0 /\ b >= a + 8 /\ b + 8 <= a + size /\ a \in Nat
  BY <1>1, ObjectFacts
<1>3. b \in Addresses
  BY <1>1, <1>2, TypesAssumption DEF Addresses, Word
<1>4. c \in Nat /\ SizeAt(m, c) \in Nat /\ SizeAt(m, c) >= 8 /\ (TypeAt(m, c).is_array => SizeAt(m, c) >= 16)
  BY ObjectFacts
<1>5. b # c
  BY <1>1, <1>2, <1>4, SameObject
<1>6. ASSUME TypeAt(m, c).is_array, b = c + 8 PROVE FALSE
  <2>1. c = a
    BY <1>1, <1>2, <1>4, <1>6, SameObject
  <2>2. b >= a + 16
    BY <1>6, <2>1, ObjectFacts
  <2> QED BY <1>2, <1>6, <2>1, <2>2
<1> QED BY <1>3, <1>5, <1>6

Written(m, b, word) == [m EXCEPT ![b] = word]

\* Filling or emptying a box keeps the heap well-formed, and its objects.
LEMMA BoxWritten ==
  ASSUME NEW m, NEW low, NEW high, HeapOK(m, low, high), high <= 2 * Space, high \in Nat,
         NEW a \in ObjectsOf(m), NEW b \in BoxesOf(m, a),
         NEW word, word = Nil \/ (\E c \in ObjectsOf(m) : word = Ptr(c)),
         NEW n, n = Written(m, b, word)
  PROVE  /\ HeapOK(n, low, high) /\ ObjectsOf(n) = ObjectsOf(m)
         /\ \A c \in ObjectsOf(m) :
              SizeAt(n, c) = SizeAt(m, c) /\ TypeAt(n, c) = TypeAt(m, c) /\ LenAt(n, c) = LenAt(m, c)
<1>1. m \in [Addresses -> Words]
  BY DEF HeapOK
<1>2. word \in Words /\ word[1] # "meta"
  BY DEF Words, Nil, Ptr, ObjectsOf
<1>3. b \in Addresses /\ m[b][1] # "meta"
  <2>1. b \in Addresses
    BY BoxesApart
  <2>2. b \notin ObjectsOf(m)
    BY BoxesApart
  <2> QED BY <1>1, <2>1, <2>2 DEF ObjectsOf, IsObject
<1>4. n \in [Addresses -> Words] /\ \A x \in Addresses : n[x] = IF x = b THEN word ELSE m[x]
  BY <1>1, <1>2, <1>3 DEF Written
<1>5. ObjectsOf(n) = ObjectsOf(m)
  BY <1>1, <1>2, <1>3, <1>4 DEF ObjectsOf, IsObject
<1>6. ASSUME NEW c \in ObjectsOf(m)
      PROVE  /\ TypeAt(n, c) = TypeAt(m, c) /\ LenAt(n, c) = LenAt(m, c)
             /\ TypeAt(n, c).is_array => n[c + 8] = m[c + 8]
  <2>1. c \in Addresses /\ b # c /\ (TypeAt(m, c).is_array => b # c + 8)
    BY BoxesApart, ObjectFacts
  <2>2. n[c] = m[c]
    BY <1>4, <2>1
  <2>3. TypeAt(n, c) = TypeAt(m, c)
    BY <2>2 DEF TypeAt
  <2>4. n[c + 8] = m[c + 8] \/ ~TypeAt(m, c).is_array
    <3> SUFFICES ASSUME TypeAt(m, c).is_array PROVE n[c + 8] = m[c + 8]
      OBVIOUS
    <3>1. c \in Nat /\ c % 8 = 0 /\ SizeAt(m, c) \in Nat /\ SizeAt(m, c) >= 16
      BY ObjectFacts
    <3>2. c + SizeAt(m, c) <= high
      BY DEF HeapOK
    <3>3. c + 8 \in Addresses
      BY <3>1, <3>2, TypesAssumption DEF Addresses, Word
    <3> QED BY <1>4, <2>1, <3>3
  <2> QED BY <2>3, <2>4 DEF LenAt, Metadata, Word
<1>7. \A c \in ObjectsOf(m) : SizeAt(n, c) = SizeAt(m, c) /\ BoxesOf(n, c) = BoxesOf(m, c)
  BY <1>6 DEF SizeAt, BoxesOf
<1>8. \A c \in ObjectsOf(n) :
        /\ low <= c /\ c + SizeAt(n, c) <= high
        /\ TypeAt(n, c).is_array => \E k \in Nat : n[c + Metadata] = Length(k)
  BY <1>5, <1>6, <1>7 DEF HeapOK, Metadata, Word
<1>9. \A c, d \in ObjectsOf(n) : c < d => c + SizeAt(n, c) <= d
  BY <1>5, <1>7 DEF HeapOK
<1>10. ASSUME NEW c \in ObjectsOf(n), NEW w \in BoxesOf(n, c)
       PROVE  n[w] = Nil \/ \E d \in ObjectsOf(n) : n[w] = Ptr(d)
  <2>1. w \in BoxesOf(m, c) /\ c \in ObjectsOf(m)
    BY <1>5, <1>7, <1>10
  <2>2. w \in Addresses
    BY <2>1, BoxesApart
  <2>3. m[w] = Nil \/ \E d \in ObjectsOf(m) : m[w] = Ptr(d)
    BY <2>1 DEF HeapOK
  <2> QED BY <1>4, <1>5, <2>2, <2>3
<1>11. HeapOK(n, low, high)
  BY <1>4, <1>8, <1>9, <1>10, Zenon DEF HeapOK
<1> QED BY <1>5, <1>6, <1>7, <1>11

\* Memory n is m with a new object in it, of some size.
Grows(m, n, low, high, size, desc, len) ==
  /\ HeapOK(n, low, high + size) /\ ObjectsOf(n) = ObjectsOf(m) \cup {high}
  /\ \A c \in ObjectsOf(m) :
       SizeAt(n, c) = SizeAt(m, c) /\ TypeAt(n, c) = TypeAt(m, c) /\ LenAt(n, c) = LenAt(m, c)
  /\ SizeAt(n, high) = DynamicSize(desc, len) + 8 /\ TypeAt(n, high) = desc /\ LenAt(n, high) = len
  /\ \A x \in Addresses : x < high => n[x] = m[x]
  /\ high \notin ObjectsOf(m) /\ \A b \in BoxesOf(n, high) : n[b] = Nil
  /\ \A o \in 0 .. DynamicSize(desc, len) - 1 : o % 8 = 0 /\ o \notin PointersOf(desc, len) =>
       high + 8 + o \in Addresses /\ n[high + 8 + o] # Nil

\* A new object behind the others keeps the heap well-formed: its boxes are empty.
LEMMA HeapGrown ==
  ASSUME NEW m, NEW low \in {0, Space}, NEW high \in Nat, HeapOK(m, low, high), high % 8 = 0, low <= high,
         NEW desc \in StaticTypes, NEW len \in Nat, ~desc.is_array => len = 0,
         NEW size \in Nat, DynamicSize(desc, len) + 8 <= size, high + size <= low + Space,
         NEW n, n = [a \in Addresses |->
                       IF a - high \in DOMAIN Born(desc, len) THEN Born(desc, len)[a - high] ELSE m[a]]
  PROVE  Grows(m, n, low, high, size, desc, len)
<1>1. PICK bytes \in Nat : bytes = DynamicSize(desc, len) /\ (desc.is_array => bytes >= 8)
  BY OffsetsBound, TypesAssumption
<1>2. desc.is_array \in BOOLEAN /\ desc \in Descriptors
  BY LayoutAssumption, TypesAssumption DEF Sane
<1>3. PICK born : born = Born(desc, len)
  OBVIOUS
<1>4. /\ DOMAIN born = {o \in 0 .. bytes + 7 : o % 8 = 0}
      /\ \A o \in DOMAIN born :
           born[o] = IF o = 0 THEN Meta(desc)
                     ELSE IF desc.is_array /\ o = 8 THEN Length(len)
                     ELSE IF o - 8 \in PointersOf(desc, len) THEN Nil
                     ELSE Data
  <2>1. DOMAIN born = {o \in 0 .. bytes + 8 - 1 : o % 8 = 0}
    BY <1>1, <1>3 DEF Born, Metadata, Word
  <2>2. \A o \in DOMAIN born :
           born[o] = IF o = 0 THEN Meta(desc)
                     ELSE IF desc.is_array /\ o = 8 THEN Length(len)
                     ELSE IF o - 8 \in PointersOf(desc, len) THEN Nil
                     ELSE Data
    BY <1>3 DEF Born, Metadata, Word
  <2> QED BY <1>1, <2>1, <2>2
<1>5. m \in [Addresses -> Words]
  BY DEF HeapOK
<1>6. Addresses \subseteq Nat /\ Space \in Nat
  BY TypesAssumption DEF Addresses
<1>7. /\ n = [a \in Addresses |-> IF a - high \in DOMAIN born THEN born[a - high] ELSE m[a]]
      /\ \A a \in Addresses : a < high => n[a] = m[a]
  <2>1. n = [a \in Addresses |-> IF a - high \in DOMAIN born THEN born[a - high] ELSE m[a]]
    BY <1>3
  <2>2. ASSUME NEW a \in Addresses, a < high PROVE n[a] = m[a]
    <3>1. a - high \notin DOMAIN born
      BY <1>4, <1>6, <2>2
    <3> QED BY <2>1, <3>1
  <2> QED BY <2>1, <2>2
<1>8. \A o \in DOMAIN born : high + o \in Addresses /\ n[high + o] = born[o]
  <2>1. ASSUME NEW o \in DOMAIN born PROVE high + o \in Addresses /\ n[high + o] = born[o]
    <3>1. o \in Nat /\ o % 8 = 0 /\ o <= bytes + 7
      BY <1>1, <1>4
    <3>2. PICK end \in Nat : end = low + Space /\ end % 8 = 0 /\ end <= 2 * Space
      BY <1>6, TypesAssumption DEF Word
    <3>3. high + o \in Addresses
      <4>1. high + o < end
        BY <1>1, <3>1, <3>2
      <4>2. high + o + 8 <= end
        BY <3>1, <3>2, <4>1
      <4> QED BY <1>6, <3>1, <3>2, <4>2 DEF Addresses, Word
    <3>4. (high + o) - high = o
      BY <3>1
    <3> QED BY <1>7, <3>3, <3>4
  <2> QED BY <2>1
<1>9. 0 \in DOMAIN born /\ (desc.is_array => 8 \in DOMAIN born)
  BY <1>1, <1>4
<1>10. /\ high \in Addresses /\ n[high] = Meta(desc)
       /\ (desc.is_array => n[high + 8] = Length(len))
  <2>1. high + 0 = high
    OBVIOUS
  <2>2. born[0] = Meta(desc) /\ (desc.is_array => born[8] = Length(len))
    BY <1>4, <1>9
  <2> QED BY <1>8, <1>9, <2>1, <2>2
<1>11. \A a \in Addresses : n[a] \in Words /\ (a >= high /\ a # high => n[a][1] # "meta")
  <2> SUFFICES ASSUME NEW a \in Addresses
               PROVE  n[a] \in Words /\ (a >= high /\ a # high => n[a][1] # "meta")
    OBVIOUS
  <2>1. CASE a - high \in DOMAIN born
    <3>1. PICK o \in DOMAIN born : o = a - high /\ n[a] = born[o]
      BY <1>7, <2>1
    <3>2. (born[o] = Meta(desc) /\ o = 0) \/ born[o] = Length(len) \/ born[o] = Nil \/ born[o] = Data
      BY <1>4
    <3>3. n[a] \in Words
      BY <3>1, <3>2 DEF Words
    <3> QED BY <1>6, <3>1, <3>2, <3>3 DEF Length, Nil, Data
  <2>2. CASE a - high \notin DOMAIN born
    <3>1. n[a] = m[a] /\ m[a] \in Words
      BY <1>5, <1>7, <2>2
    <3>2. a >= high => m[a][1] # "meta"
      <4> SUFFICES ASSUME a >= high, m[a][1] = "meta" PROVE FALSE
        OBVIOUS
      <4>1. a \in ObjectsOf(m)
        BY <1>5 DEF ObjectsOf, IsObject
      <4>2. SizeAt(m, a) \in Nat /\ SizeAt(m, a) >= 8
        BY <4>1, ObjectFacts
      <4>3. a + SizeAt(m, a) <= high
        BY <4>1 DEF HeapOK
      <4> QED BY <1>6, <4>2, <4>3
    <3> QED BY <3>1, <3>2
  <2> QED BY <2>1, <2>2
<1>12. n \in [Addresses -> Words]
  BY <1>7, <1>11
<1>13. ASSUME NEW c \in ObjectsOf(m)
       PROVE  /\ c \in Addresses /\ c \in Nat /\ c < high /\ n[c] = m[c]
              /\ SizeAt(m, c) \in Nat /\ SizeAt(m, c) >= 8 /\ c + SizeAt(m, c) <= high
              /\ SizeAt(n, c) = SizeAt(m, c) /\ BoxesOf(n, c) = BoxesOf(m, c)
              /\ TypeAt(n, c) = TypeAt(m, c) /\ LenAt(n, c) = LenAt(m, c)
              /\ TypeAt(m, c).is_array => n[c + 8] = m[c + 8]
  <2>1. c \in Addresses /\ c \in Nat /\ c % 8 = 0 /\ SizeAt(m, c) \in Nat /\ SizeAt(m, c) >= 8
    BY ObjectFacts
  <2>2. c + SizeAt(m, c) <= high
    BY DEF HeapOK
  <2>3. c < high /\ n[c] = m[c]
    BY <1>7, <2>1, <2>2
  <2>4. TypeAt(n, c) = TypeAt(m, c)
    BY <2>3 DEF TypeAt
  <2>5. TypeAt(m, c).is_array => n[c + 8] = m[c + 8]
    <3> SUFFICES ASSUME TypeAt(m, c).is_array PROVE n[c + 8] = m[c + 8]
      OBVIOUS
    <3>1. SizeAt(m, c) >= 16
      BY ObjectFacts
    <3>2. c + 8 < high /\ c + 8 + 8 <= high /\ high <= 2 * Space /\ (c + 8) % 8 = 0
      BY <1>6, <2>1, <2>2, <3>1
    <3>3. c + 8 \in Addresses
      BY <1>6, <2>1, <3>2 DEF Addresses, Word
    <3> QED BY <1>7, <3>2, <3>3
  <2>6. LenAt(n, c) = LenAt(m, c)
    BY <2>4, <2>5 DEF LenAt, Metadata, Word
  <2> QED BY <2>1, <2>2, <2>3, <2>4, <2>5, <2>6 DEF SizeAt, BoxesOf
<1>14. ObjectsOf(n) = ObjectsOf(m) \cup {high}
  <2>1. ObjectsOf(m) \subseteq ObjectsOf(n)
    BY <1>5, <1>12, <1>13 DEF ObjectsOf, IsObject
  <2>2. high \in ObjectsOf(n)
    BY <1>10, <1>12 DEF ObjectsOf, IsObject, Meta
  <2>3. ASSUME NEW a \in ObjectsOf(n), a # high PROVE a \in ObjectsOf(m)
    <3>1. a \in Addresses /\ n[a][1] = "meta"
      BY <1>12 DEF ObjectsOf, IsObject
    <3>2. a < high
      BY <1>6, <1>11, <2>3, <3>1
    <3>3. m[a][1] = "meta"
      BY <1>7, <3>1, <3>2
    <3> QED BY <1>5, <3>1, <3>3 DEF ObjectsOf, IsObject
  <2> QED BY <2>1, <2>2, <2>3
<1>15. TypeAt(n, high) = desc /\ LenAt(n, high) = len
  <2>1. TypeAt(n, high) = desc
    BY <1>10 DEF TypeAt, Meta
  <2>2. desc.is_array => n[high + 8][1] = "len" /\ n[high + 8][2] = len
    <3>1. PICK word : word = n[high + 8]
      OBVIOUS
    <3>2. desc.is_array => word = <<"len", len>>
      BY <1>10, <3>1 DEF Length
    <3>3. desc.is_array => word[1] = "len" /\ word[2] = len
      BY <3>2
    <3> QED BY <3>1, <3>3
  <2>3. CASE desc.is_array
    BY <2>1, <2>2, <2>3 DEF LenAt, Metadata, Word
  <2>4. CASE ~desc.is_array
    BY <2>1, <2>4 DEF LenAt
  <2> QED BY <2>1, <2>3, <2>4
<1>16. SizeAt(n, high) = bytes + 8
  BY <1>1, <1>15 DEF SizeAt, Metadata, Word
<1>17. \A w \in BoxesOf(n, high) : n[w] = Nil
  <2> SUFFICES ASSUME NEW w \in BoxesOf(n, high) PROVE n[w] = Nil
    OBVIOUS
  <2>1. PICK o \in PointersOf(desc, len) : w = high + 8 + o
    BY <1>15 DEF BoxesOf, Metadata, Word
  <2>2. o \in Nat /\ o % 8 = 0 /\ o + 8 <= bytes /\ (desc.is_array => o >= 8)
    BY <1>1, <1>2, OffsetsBound
  <2>3. PICK x \in Nat : x = o + 8
    BY <2>2
  <2>4. x \in DOMAIN born /\ x - 8 = o /\ x # 0 /\ (desc.is_array => x # 8)
    BY <1>1, <1>4, <2>2, <2>3
  <2>5. born[x] = Nil
    BY <1>4, <2>4
  <2>6. w = high + x
    BY <2>1, <2>2, <2>3
  <2> QED BY <1>8, <2>4, <2>5, <2>6
<1>18. \A c \in ObjectsOf(n) :
         /\ low <= c /\ c + SizeAt(n, c) <= high + size
         /\ TypeAt(n, c).is_array => \E k \in Nat : n[c + Metadata] = Length(k)
  <2> SUFFICES ASSUME NEW c \in ObjectsOf(n)
               PROVE  /\ low <= c /\ c + SizeAt(n, c) <= high + size
                      /\ TypeAt(n, c).is_array => \E k \in Nat : n[c + Metadata] = Length(k)
    OBVIOUS
  <2>1. CASE c = high
    <3>1. low <= high /\ high + (bytes + 8) <= high + size
      BY <1>1
    <3>2. desc.is_array => n[high + 8] = Length(len)
      BY <1>10
    <3> QED BY <1>15, <1>16, <2>1, <3>1, <3>2 DEF Metadata, Word
  <2>2. CASE c \in ObjectsOf(m)
    <3>1. low <= c /\ (TypeAt(m, c).is_array => \E k \in Nat : m[c + 8] = Length(k))
      BY <2>2 DEF HeapOK, Metadata, Word
    <3>2. c + SizeAt(n, c) <= high + size
      BY <1>13, <2>2
    <3> QED BY <1>13, <2>2, <3>1, <3>2 DEF Metadata, Word
  <2> QED BY <1>14, <2>1, <2>2
<1>19. ASSUME NEW c \in ObjectsOf(n), NEW d \in ObjectsOf(n), c < d PROVE c + SizeAt(n, c) <= d
  <2>1. CASE c \in ObjectsOf(m) /\ d \in ObjectsOf(m)
    BY <1>13, <1>19, <2>1 DEF HeapOK
  <2>2. CASE c \in ObjectsOf(m) /\ d = high
    BY <1>13, <2>2
  <2>3. CASE c = high
    <3>1. d # high /\ ~(d < high)
      <4>1. \A k \in Nat : ~(high < k /\ k < high) /\ ~(high < high)
        OBVIOUS
      <4>2. d \in ObjectsOf(m) => d \in Nat /\ d < high
        BY <1>13
      <4> QED BY <1>14, <1>19, <2>3, <4>1, <4>2
    <3>2. d \in ObjectsOf(m) => d < high
      BY <1>13
    <3> QED BY <1>14, <3>1, <3>2
  <2> QED BY <1>14, <2>1, <2>2, <2>3
<1>20. ASSUME NEW c \in ObjectsOf(n), NEW w \in BoxesOf(n, c)
       PROVE  n[w] = Nil \/ \E d \in ObjectsOf(n) : n[w] = Ptr(d)
  <2>1. CASE c = high
    BY <1>17, <1>20, <2>1
  <2>2. CASE c \in ObjectsOf(m)
    <3>1. w \in BoxesOf(m, c)
      BY <1>13, <1>20, <2>2
    <3>2. m[w] = Nil \/ \E d \in ObjectsOf(m) : m[w] = Ptr(d)
      BY <2>2, <3>1 DEF HeapOK
    <3>3. high <= 2 * Space
      BY <1>1, <1>6
    <3>4. w \in Addresses
      BY <2>2, <3>1, <3>3, BoxesApart
    <3>5. w < high
      <4>1. w + 8 <= c + SizeAt(m, c) /\ w \in Nat
        BY <2>2, <3>1, ObjectFacts
      <4> QED BY <1>13, <2>2, <4>1
    <3>6. n[w] = m[w]
      BY <1>7, <3>4, <3>5
    <3> QED BY <1>14, <3>2, <3>6
  <2> QED BY <1>14, <2>1, <2>2
<1>21. HeapOK(n, low, high + size)
  BY <1>12, <1>18, <1>19, <1>20, Zenon DEF HeapOK
<1>22. ASSUME NEW o \in 0 .. bytes - 1, o % 8 = 0, o \notin PointersOf(desc, len)
       PROVE  high + 8 + o \in Addresses /\ n[high + 8 + o] # Nil
  <2>1. PICK x \in Nat : x = o + 8
    BY <1>1
  <2>2. x \in DOMAIN born /\ x - 8 = o /\ x # 0
    BY <1>1, <1>4, <1>22, <2>1
  <2>3. born[x] = Length(len) \/ born[x] = Data
    BY <1>4, <1>22, <2>2
  <2>4. born[x] # Nil
    BY <2>3 DEF Length, Data, Nil
  <2>5. high + 8 + o = high + x
    BY <1>1, <2>1
  <2> QED BY <1>8, <2>2, <2>4, <2>5
<1>23. high \notin ObjectsOf(m)
  BY <1>13
<1>24. \A x \in Addresses : x < high => n[x] = m[x]
  BY <1>7
<1> QED BY <1>1, <1>13, <1>14, <1>15, <1>16, <1>17, <1>21, <1>22, <1>23, <1>24 DEF Grows

\* Iterating over an object of an upright type visits its boxes, each once.
LEMMA VisitsBoxes ==
  ASSUME NEW types \in SUBSET Descriptors, StaticTypes \subseteq types, Upright(types),
         NEW m, NEW a \in Nat, TypeAt(m, a) \in StaticTypes, LenAt(m, a) \in Nat
  PROVE  /\ Range(Visits(m, a)) = BoxesOf(m, a)
         /\ \A x, y \in DOMAIN Visits(m, a) : Visits(m, a)[x] = Visits(m, a)[y] => x = y
<1>1. PICK desc \in types, len \in Nat : desc = TypeAt(m, a) /\ len = LenAt(m, a) /\ desc \in Descriptors
  BY TypesAssumption
<1>2. PICK offsets : offsets = PointerIterator(desc, len)
  OBVIOUS
<1>3. /\ {offsets[x] : x \in DOMAIN offsets} = PointersOf(desc, len)
      /\ \A x, y \in DOMAIN offsets : offsets[x] = offsets[y] => x = y
  BY <1>1, <1>2, IteratorsAgree
<1>4. \A x \in DOMAIN offsets : offsets[x] \in Nat
  BY <1>1, <1>3, OffsetsBound
<1>5. PICK visits : visits = Visits(m, a)
  OBVIOUS
<1>6. visits = [x \in DOMAIN offsets |-> a + 8 + offsets[x]]
  BY <1>1, <1>2, <1>5 DEF Visits, Metadata, Word
<1>7. BoxesOf(m, a) = {a + 8 + o : o \in PointersOf(desc, len)}
  BY <1>1 DEF BoxesOf, Metadata, Word
<1>8. Range(visits) = BoxesOf(m, a)
  BY <1>3, <1>6, <1>7 DEF Range
<1>9. \A x, y \in DOMAIN visits : visits[x] = visits[y] => x = y
  <2> SUFFICES ASSUME NEW x \in DOMAIN visits, NEW y \in DOMAIN visits, visits[x] = visits[y] PROVE x = y
    OBVIOUS
  <2>1. a + 8 + offsets[x] = a + 8 + offsets[y] /\ offsets[x] \in Nat /\ offsets[y] \in Nat
    BY <1>4, <1>6
  <2>2. offsets[x] = offsets[y]
    BY <2>1
  <2> QED BY <1>3, <1>6, <2>2
<1> QED BY <1>5, <1>8, <1>9

\* There may be more room than objects take.
LEMMA HeapWider ==
  ASSUME NEW m, NEW low, NEW high \in Nat, NEW higher \in Nat, HeapOK(m, low, high), high <= higher
  PROVE  HeapOK(m, low, higher)
<1>1. \A a \in ObjectsOf(m) : a \in Nat /\ SizeAt(m, a) \in Nat
  BY ObjectFacts
<1>2. \A a \in ObjectsOf(m) : a + SizeAt(m, a) <= higher
  BY <1>1 DEF HeapOK
<1> QED BY <1>2 DEF HeapOK

\* Objects of a space take no more bytes than it has.
LEMMA BytesBound ==
  ASSUME NEW m, NEW low \in Nat, HeapOK(m, low, low + Space), NEW objects \in SUBSET ObjectsOf(m)
  PROVE  /\ IsFiniteSet(BytesOf(m, objects))
         /\ Cardinality(BytesOf(m, objects)) \in Nat /\ Cardinality(BytesOf(m, objects)) <= Space
<1>1. PICK high \in Nat : high = low + Space
  BY TypesAssumption
<1>2. BytesOf(m, objects) \subseteq low .. high - 1
  <2> SUFFICES ASSUME NEW p \in objects, NEW x \in p .. p + SizeAt(m, p) - 1 PROVE x \in low .. high - 1
    BY DEF BytesOf
  <2>1. p \in Nat /\ SizeAt(m, p) \in Nat
    BY ObjectFacts
  <2>2. low <= p /\ p + SizeAt(m, p) <= high
    BY <1>1 DEF HeapOK
  <2> QED BY <2>1, <2>2
<1>3. low \in Int /\ high - 1 \in Int
  BY <1>1
<1>4. PICK last \in Int : last = high - 1
  BY <1>3
<1>5. IsFiniteSet(low .. last) /\ Cardinality(low .. last) = IF low > last THEN 0 ELSE last - low + 1
  BY <1>3, FS_Interval, Zenon
<1>6. Cardinality(low .. last) = Space
  BY <1>1, <1>4, <1>5, TypesAssumption
<1>7. BytesOf(m, objects) \subseteq low .. last
  BY <1>2, <1>4
<1>8. /\ IsFiniteSet(BytesOf(m, objects))
      /\ Cardinality(BytesOf(m, objects)) <= Cardinality(low .. last)
  BY <1>5, <1>7, FS_Subset, Zenon
<1>9. Cardinality(BytesOf(m, objects)) \in Nat
  BY <1>8, FS_CardinalityType, Zenon
<1> QED BY <1>6, <1>8, <1>9

\* One more object takes as many bytes more as its size.
LEMMA BytesAdded ==
  ASSUME NEW m, NEW low \in Nat, HeapOK(m, low, low + Space), NEW objects \in SUBSET ObjectsOf(m),
         NEW obj \in ObjectsOf(m) \ objects
  PROVE  Cardinality(BytesOf(m, objects \cup {obj})) = Cardinality(BytesOf(m, objects)) + SizeAt(m, obj)
<1>1. PICK size \in Nat : size = SizeAt(m, obj) /\ size >= 8 /\ obj \in Nat
  BY ObjectFacts
<1>2. PICK own : own = obj .. obj + size - 1
  OBVIOUS
<1>3. PICK rest : rest = BytesOf(m, objects)
  OBVIOUS
<1>4. BytesOf(m, objects \cup {obj}) = rest \cup own
  BY <1>1, <1>2, <1>3 DEF BytesOf
<1>5. rest \cap own = {}
  <2> SUFFICES ASSUME NEW p \in objects, NEW x \in p .. p + SizeAt(m, p) - 1, x \in own PROVE FALSE
    BY <1>3 DEF BytesOf
  <2>1. p \in Nat /\ SizeAt(m, p) \in Nat
    BY ObjectFacts
  <2>2. x \in Nat /\ obj <= x /\ x < obj + size /\ p <= x /\ x < p + SizeAt(m, p)
    BY <1>1, <1>2, <2>1
  <2>3. p = obj
    BY <1>1, <2>2, SameObject
  <2> QED BY <2>3
<1>6. IsFiniteSet(rest) /\ Cardinality(rest) \in Nat
  BY <1>3, BytesBound
<1>7. PICK last \in Int : last = obj + size - 1 /\ obj \in Int
  BY <1>1
<1>8. IsFiniteSet(obj .. last) /\ Cardinality(obj .. last) = IF obj > last THEN 0 ELSE last - obj + 1
  BY <1>7, FS_Interval, Zenon
<1>9. IsFiniteSet(own) /\ Cardinality(own) = size
  BY <1>1, <1>2, <1>7, <1>8
<1>10. Cardinality(rest \cup own) = Cardinality(rest) + Cardinality(own) - Cardinality(rest \cap own)
  BY <1>6, <1>9, FS_Union, Zenon
<1>11. Cardinality(rest \cap own) = 0
  BY <1>5, FS_EmptySet, Zenon
<1>12. Cardinality(rest \cup own) = Cardinality(rest) + size
  BY <1>6, <1>9, <1>10, <1>11
<1> QED BY <1>1, <1>3, <1>4, <1>12

-----------------------------------------------------------------------------
(* The steps of the program. *)

\* The heap starts empty.
LEMMA InitInv == Init => IInv
<1> SUFFICES ASSUME Init PROVE IInv
  OBVIOUS
<1>1. mem \in [Addresses -> Words]
  BY DEF Init, Words
<1>2. ObjectsOf(mem) = {}
  BY DEF Init, ObjectsOf, IsObject, Nil
<1>3. HeapOK(mem, base, top)
  BY <1>1, <1>2 DEF HeapOK
<1>4. EvenSizes(mem)
  BY <1>2 DEF EvenSizes
<1>5. DOMAIN dynamic_types = {} /\ records = << >> /\ mark_stack = {} /\ latest_id = 0
  BY DEF Init
<1>6. /\ base = 0 /\ top = 0 /\ gpc = "idle" /\ failure = "none" /\ cycles = 0
      /\ \A s \in Slots : roots[s] = Null
  BY DEF Init
<1>7. Space \in Nat /\ MaxCycles \in Nat
  BY TypesAssumption
<1>8. top \in base .. base + Space /\ cycles \in 0 .. MaxCycles
  BY <1>6, <1>7
<1> QED BY <1>3, <1>4, <1>5, <1>6, <1>7, <1>8 DEF IInv

\* What the invariant says between cycles.
LEMMA IdleFacts ==
  ASSUME IInv, Running
  PROVE  /\ base \in {0, Space} /\ top \in Nat /\ top % 8 = 0 /\ base <= top /\ top <= base + Space
         /\ top <= 2 * Space /\ HeapOK(mem, base, top) /\ records = << >> /\ mark_stack = {}
         /\ \A s \in Slots : roots[s] # Null => roots[s] \in ObjectsOf(mem)
         /\ failure = "none" /\ gpc = "idle"
<1>1. base \in {0, Space} /\ top \in Nat /\ gpc = "idle" /\ top \in base .. base + Space /\ Space \in Nat
  BY TypesAssumption DEF IInv, Running
<1>2. base <= top /\ top <= base + Space /\ top <= 2 * Space
  BY <1>1
<1> QED BY <1>1, <1>2 DEF IInv, Running

\* Enough for the invariant to hold between cycles.
LEMMA IdleInv ==
  ASSUME IInv, Running, UNCHANGED cyclevars, UNCHANGED base,
         latest_id' \in Nat, DOMAIN dynamic_types' \subseteq 0 .. latest_id' - 1,
         top' \in Nat, top' % 8 = 0, base <= top', top' <= base + Space,
         HeapOK(mem', base, top'), ~extended' => EvenSizes(mem'),
         \A s \in Slots : roots'[s] # Null => roots'[s] \in ObjectsOf(mem')
  PROVE  IInv'
<1>1. /\ gpc' = "idle" /\ failure' = "none" /\ records' = << >> /\ mark_stack' = {}
      /\ base' = base /\ cycles' = cycles /\ base \in {0, Space} /\ Space \in Nat
  BY IdleFacts, TypesAssumption DEF cyclevars
<1>2. top' \in base' .. base' + Space
  BY <1>1
<1>3. cycles' \in 0 .. MaxCycles
  BY <1>1 DEF IInv
<1> QED BY <1>1, <1>2, <1>3 DEF IInv

\* What is written in a box of a value.
LEMMA BoxesUnderObjects ==
  ASSUME NEW s \in Slots, NEW b \in BoxesUnder(s)
  PROVE  \E a \in ObjectsOf(mem) : b \in BoxesOf(mem, a)
BY DEF BoxesUnder, Below, ObjectsOf

\* Registering touches no object.
LEMMA RegisterInv == ASSUME IInv, NEW desc \in Registered, Register(desc) PROVE IInv'
<1>1. UNCHANGED heapvars /\ UNCHANGED cyclevars /\ UNCHANGED extended /\ Running
  BY DEF Register
<1>2. latest_id' = latest_id + 1 /\ DOMAIN dynamic_types' = DOMAIN dynamic_types \cup {latest_id}
  BY DEF Register
<1>3. latest_id \in Nat /\ DOMAIN dynamic_types \subseteq 0 .. latest_id - 1
  BY DEF IInv
<1>4. latest_id' \in Nat /\ DOMAIN dynamic_types' \subseteq 0 .. latest_id' - 1
  BY <1>2, <1>3
<1>5. mem' = mem /\ base' = base /\ top' = top /\ roots' = roots /\ extended' = extended
  BY <1>1 DEF heapvars
<1>6. ~extended => EvenSizes(mem)
  BY DEF IInv
<1>7. HeapOK(mem', base, top') /\ (~extended' => EvenSizes(mem'))
  BY <1>1, <1>5, <1>6, IdleFacts
<1>8. \A s \in Slots : roots'[s] # Null => roots'[s] \in ObjectsOf(mem')
  BY <1>1, <1>5, IdleFacts
<1>9. top' \in Nat /\ top' % 8 = 0 /\ base <= top' /\ top' <= base + Space
  BY <1>1, <1>5, IdleFacts
<1> QED BY <1>1, <1>4, <1>5, <1>7, <1>8, <1>9, IdleInv

\* What an allocation makes of the heap.
LEMMA AllocFacts ==
  ASSUME IInv, NEW s \in Slots, NEW desc \in StaticTypes, NEW len \in Lens, NEW extra \in Extras,
         Alloc(s, desc, len, extra),
         NEW m, NEW low, NEW high, NEW n, m = mem, low = base, high = top, n = mem'
  PROVE  \E bytes, size \in Nat :
           /\ bytes = DynamicSize(desc, len) /\ size = bytes + extra + 8 /\ size % 8 = 0
           /\ low \in {0, Space} /\ high \in Nat /\ high % 8 = 0 /\ low <= high /\ high + size <= low + Space
           /\ len \in Nat /\ extra \in Nat /\ desc \in Descriptors
           /\ top' = high + size /\ HeapOK(m, low, high) /\ Grows(m, n, low, high, size, desc, len)
<1>1. PICK size : size = AllocSize(desc, len, extra)
  OBVIOUS
<1>2. /\ Running /\ roots[s] = Null /\ (~desc.is_array => len = 0) /\ size % 8 = 0
      /\ top + size <= base + Space /\ top' = top + size
      /\ roots' = [roots EXCEPT ![s] = top] /\ extended' = (extended \/ extra # 0)
      /\ UNCHANGED <<base, typevars, cyclevars>>
  BY <1>1 DEF Alloc
<1>3. n = [a \in Addresses |-> IF a - high \in DOMAIN Born(desc, len) THEN Born(desc, len)[a - high] ELSE m[a]]
  BY DEF Alloc
<1>4. /\ low \in {0, Space} /\ high \in Nat /\ high % 8 = 0 /\ low <= high /\ high <= low + Space
      /\ HeapOK(m, low, high)
  BY <1>2, IdleFacts
<1>5. len \in Nat /\ extra \in Nat /\ Space \in Nat /\ desc \in Descriptors
  BY TypesAssumption
<1>6. PICK bytes \in Nat : bytes = DynamicSize(desc, len)
  BY <1>5, OffsetsBound
<1>7. size = bytes + extra + 8
  <2>1. StaticSize(desc) + (IF desc.is_array THEN desc.size * len ELSE 0) = bytes
    <3>1. CASE desc.is_array
      BY <1>6, <3>1 DEF DynamicSize
    <3>2. CASE ~desc.is_array
      <4>1. desc.size \in Nat
        BY <1>5, DescriptorParts
      <4> QED BY <1>6, <3>2, <4>1 DEF DynamicSize, StaticSize
    <3> QED BY <3>1, <3>2
  <2> QED BY <1>1, <2>1 DEF AllocSize, Metadata, Word
<1>8. size \in Nat /\ bytes + 8 <= size /\ high + size <= low + Space
  <2>1. size \in Nat /\ bytes + 8 <= size
    BY <1>5, <1>7
  <2>2. high + size <= low + Space
    BY <1>2
  <2> QED BY <2>1, <2>2
<1>9. Grows(m, n, low, high, size, desc, len)
  <2>1. ~desc.is_array => len = 0
    BY <1>2
  <2>2. size \in Nat /\ DynamicSize(desc, len) + 8 <= size /\ high + size <= low + Space
    BY <1>6, <1>8
  <2> QED BY <1>3, <1>4, <1>5, <2>1, <2>2, HeapGrown
<1>10. top' = high + size
  BY <1>2
<1> QED BY <1>2, <1>4, <1>5, <1>6, <1>7, <1>8, <1>9, <1>10

\* What an allocation writes is the words of the new object.
LEMMA AllocInv ==
  ASSUME IInv, NEW s \in Slots, NEW desc \in StaticTypes, NEW len \in Lens, NEW extra \in Extras,
         Alloc(s, desc, len, extra)
  PROVE  IInv'
<1>1. /\ Running /\ roots[s] = Null
      /\ roots' = [roots EXCEPT ![s] = top] /\ extended' = (extended \/ extra # 0)
      /\ UNCHANGED <<base, typevars, cyclevars>>
  BY DEF Alloc
<1>2. PICK m, low, high, n : m = mem /\ low = base /\ high = top /\ n = mem'
  OBVIOUS
<1>3. PICK bytes, size \in Nat :
        /\ bytes = DynamicSize(desc, len) /\ size = bytes + extra + 8 /\ size % 8 = 0 /\ extra \in Nat
        /\ high \in Nat /\ high % 8 = 0 /\ low \in {0, Space} /\ low <= high /\ high + size <= low + Space
        /\ top' = high + size /\ Grows(m, n, low, high, size, desc, len)
  BY <1>2, AllocFacts
<1>4. /\ HeapOK(n, low, high + size) /\ ObjectsOf(n) = ObjectsOf(m) \cup {high}
      /\ \A c \in ObjectsOf(m) : SizeAt(n, c) = SizeAt(m, c)
      /\ SizeAt(n, high) = bytes + 8
  BY <1>3 DEF Grows
<1>5. ~extended' => EvenSizes(n)
  <2> SUFFICES ASSUME ~extended' PROVE EvenSizes(n)
    OBVIOUS
  <2>1. ~extended /\ extra = 0
    BY <1>1
  <2>2. EvenSizes(m)
    BY <1>2, <2>1 DEF IInv
  <2>3. SizeAt(n, high) % 8 = 0
    BY <1>3, <1>4, <2>1
  <2> QED BY <1>3, <1>4, <2>2, <2>3 DEF EvenSizes
<1>6. \A r \in Slots : roots'[r] # Null => roots'[r] \in ObjectsOf(n)
  <2> SUFFICES ASSUME NEW r \in Slots, roots'[r] # Null PROVE roots'[r] \in ObjectsOf(n)
    OBVIOUS
  <2>1. roots'[r] = top \/ roots'[r] = roots[r]
    BY <1>1
  <2>2. roots[r] # Null => roots[r] \in ObjectsOf(m)
    BY <1>1, <1>2, IdleFacts
  <2> QED BY <1>2, <1>3, <1>4, <2>1, <2>2
<1>7. top' \in Nat /\ top' % 8 = 0 /\ base <= top' /\ top' <= base + Space
  <2>1. /\ size % 8 = 0 /\ high \in Nat /\ high % 8 = 0 /\ low \in {0, Space} /\ low <= high
        /\ high + size <= low + Space /\ top' = high + size
    BY <1>3
  <2>2. high + size \in Nat /\ (high + size) % 8 = 0 /\ low <= high + size
    BY <2>1, TypesAssumption
  <2> QED BY <1>2, <2>1, <2>2
<1>8. HeapOK(mem', base, top') /\ (~extended' => EvenSizes(mem'))
  BY <1>1, <1>2, <1>3, <1>4, <1>5
<1>9. UNCHANGED cyclevars /\ UNCHANGED base /\ latest_id' = latest_id /\ dynamic_types' = dynamic_types
  BY <1>1 DEF typevars
<1>10. latest_id' \in Nat /\ DOMAIN dynamic_types' \subseteq 0 .. latest_id' - 1
  BY <1>9 DEF IInv
<1>11. \A r \in Slots : roots'[r] # Null => roots'[r] \in ObjectsOf(mem')
  BY <1>2, <1>6
<1> QED BY <1>1, <1>7, <1>8, <1>9, <1>10, <1>11, IdleInv

\* Writing a box of a value, with what there is in the program's hands.
LEMMA WriteInv ==
  ASSUME IInv, Running, NEW s \in Slots, NEW b \in BoxesUnder(s),
         NEW word, word = Nil \/ (\E c \in ObjectsOf(mem) : word = Ptr(c)),
         mem' = [mem EXCEPT ![b] = word],
         \A t \in Slots : roots'[t] # Null => roots'[t] = roots[t],
         UNCHANGED <<base, top, typevars, cyclevars, extended>>
  PROVE  IInv'
<1>1. PICK a \in ObjectsOf(mem) : b \in BoxesOf(mem, a)
  BY BoxesUnderObjects
<1>2. PICK m, low, high, n : m = mem /\ low = base /\ high = top /\ n = mem'
  OBVIOUS
<1>3. HeapOK(m, low, high) /\ high \in Nat /\ high <= 2 * Space
  BY <1>2, IdleFacts
<1>4. a \in ObjectsOf(m) /\ b \in BoxesOf(m, a)
  BY <1>1, <1>2
<1>5. word = Nil \/ (\E c \in ObjectsOf(m) : word = Ptr(c))
  BY <1>2
<1>6. n = Written(m, b, word)
  BY <1>2 DEF Written
<1>7. /\ HeapOK(n, low, high) /\ ObjectsOf(n) = ObjectsOf(m)
      /\ \A c \in ObjectsOf(m) : SizeAt(n, c) = SizeAt(m, c)
  BY <1>3, <1>4, <1>5, <1>6, BoxWritten
<1>8. ~extended' => EvenSizes(n)
  <2> SUFFICES ASSUME ~extended' PROVE EvenSizes(n)
    OBVIOUS
  <2>1. EvenSizes(m)
    BY <1>2 DEF IInv
  <2> QED BY <1>7, <2>1 DEF EvenSizes
<1>9. base' = base /\ top' = top /\ UNCHANGED cyclevars /\ latest_id' = latest_id /\ dynamic_types' = dynamic_types
  BY DEF typevars
<1>10. HeapOK(mem', base, top') /\ (~extended' => EvenSizes(mem'))
  BY <1>2, <1>7, <1>8, <1>9
<1>11. latest_id' \in Nat /\ DOMAIN dynamic_types' \subseteq 0 .. latest_id' - 1
  BY <1>9 DEF IInv
<1>12. \A t \in Slots : roots'[t] # Null => roots'[t] \in ObjectsOf(mem')
  <2>1. \A t \in Slots : roots[t] # Null => roots[t] \in ObjectsOf(m)
    BY <1>2, IdleFacts
  <2> QED BY <1>2, <1>7, <2>1
<1>13. top' \in Nat /\ top' % 8 = 0 /\ base <= top' /\ top' <= base + Space
  BY <1>9, IdleFacts
<1> QED BY <1>9, <1>10, <1>11, <1>12, <1>13, IdleInv

\* Storing a root in a box.
LEMMA StoreInv == ASSUME IInv, NEW s \in Slots, NEW r \in Slots, Store(s, r) PROVE IInv'
<1>1. PICK b \in BoxesUnder(s) : mem' = [mem EXCEPT ![b] = Ptr(roots[r])]
  BY DEF Store
<1>2. Running /\ roots[r] # Null /\ roots' = [roots EXCEPT ![r] = Null]
  BY DEF Store
<1>3. roots[r] \in ObjectsOf(mem)
  BY <1>2, IdleFacts
<1>4. \A t \in Slots : roots'[t] # Null => roots'[t] = roots[t]
  BY <1>2
<1>5. UNCHANGED <<base, top, typevars, cyclevars, extended>>
  BY DEF Store
<1>6. PICK word : word = Ptr(roots[r])
  OBVIOUS
<1>7. word = Nil \/ (\E c \in ObjectsOf(mem) : word = Ptr(c))
  BY <1>3, <1>6
<1>8. mem' = [mem EXCEPT ![b] = word]
  BY <1>1, <1>6
<1> QED BY <1>2, <1>4, <1>5, <1>7, <1>8, WriteInv

\* Emptying a box.
LEMMA ClearInv == ASSUME IInv, NEW s \in Slots, Clear(s) PROVE IInv'
<1>1. PICK b \in BoxesUnder(s) : mem' = [mem EXCEPT ![b] = Nil]
  BY DEF Clear
<1>2. Running /\ roots' = roots /\ UNCHANGED <<base, top, typevars, cyclevars, extended>>
  BY DEF Clear
<1>3. \A t \in Slots : roots'[t] # Null => roots'[t] = roots[t]
  BY <1>2
<1> QED BY <1>1, <1>2, <1>3, WriteInv

\* Dropping a root.
LEMMA DropRootInv == ASSUME IInv, NEW s \in Slots, DropRoot(s) PROVE IInv'
<1>1. /\ Running /\ roots' = [roots EXCEPT ![s] = Null] /\ mem' = mem /\ base' = base /\ top' = top
      /\ UNCHANGED cyclevars /\ extended' = extended /\ latest_id' = latest_id /\ dynamic_types' = dynamic_types
  BY DEF DropRoot, typevars
<1>2. latest_id' \in Nat /\ DOMAIN dynamic_types' \subseteq 0 .. latest_id' - 1
  BY <1>1 DEF IInv
<1>3. HeapOK(mem', base, top')
  BY <1>1, IdleFacts
<1>4. ~extended' => EvenSizes(mem')
  BY <1>1 DEF IInv
<1>5. \A t \in Slots : roots'[t] # Null => roots'[t] \in ObjectsOf(mem')
  <2>1. \A t \in Slots : roots'[t] # Null => roots'[t] = roots[t]
    BY <1>1
  <2> QED BY <1>1, <2>1, IdleFacts
<1>6. top' \in Nat /\ top' % 8 = 0 /\ base <= top' /\ top' <= base + Space
  BY <1>1, IdleFacts
<1> QED BY <1>1, <1>2, <1>3, <1>4, <1>5, <1>6, IdleInv

\* A cycle starts with the roots, and nothing in the other space.
LEMMA StartCycleInv == ASSUME IInv, StartCycle PROVE IInv'
<1>1. /\ Running /\ cycles < MaxCycles /\ cycles' = cycles + 1 /\ DOMAIN dynamic_types' = DOMAIN dynamic_types
      /\ mark_stack' = {roots[s] : s \in {r \in Slots : roots[r] # Null}}
      /\ top' = Space - base /\ gpc' = "mark" /\ mem' = mem /\ base' = base /\ roots' = roots
      /\ records' = records /\ failure' = failure /\ latest_id' = latest_id /\ extended' = extended
  BY DEF StartCycle
<1>2. /\ base \in {0, Space} /\ top \in Nat /\ top <= base + Space /\ HeapOK(mem, base, top)
      /\ records = << >> /\ failure = "none" /\ \A s \in Slots : roots[s] # Null => roots[s] \in ObjectsOf(mem)
  BY <1>1, IdleFacts
<1>3. Space \in Nat /\ Space % 8 = 0
  BY TypesAssumption DEF Word
<1>4. top' \in Nat /\ top' % 8 = 0 /\ top' >= Space - base'
  BY <1>1, <1>2, <1>3
<1>5. PICK end \in Nat : end = base + Space
  BY <1>2, <1>3
<1>6. HeapOK(mem, base, end)
  BY <1>2, <1>5, HeapWider
<1>7. HeapOK(mem', base', base' + Space)
  BY <1>1, <1>5, <1>6
<1>8. mark_stack' \subseteq ObjectsOf(mem') /\ \A s \in Slots : roots'[s] # Null => roots'[s] \in mark_stack'
  BY <1>1, <1>2
<1>9. records' = << >> /\ DOMAIN records' = {}
  BY <1>1, <1>2
<1>10. Cardinality(BytesOf(mem', {})) = top' - (Space - base')
  <2>1. BytesOf(mem', {}) = {}
    BY DEF BytesOf
  <2>2. Cardinality({}) = 0
    BY FS_EmptySet
  <2>3. top' - (Space - base') = 0
    BY <1>1, <1>2, <1>3
  <2> QED BY <2>1, <2>2, <2>3
<1>11. Cardinality(BytesOf(mem', DOMAIN records')) = top' - (Space - base')
  BY <1>9, <1>10
<1>12. MarkOK'
  BY <1>4, <1>8, <1>9, <1>11 DEF MarkOK, Marked
<1>13. /\ cycles' \in 0 .. MaxCycles /\ latest_id' \in Nat /\ DOMAIN dynamic_types' \subseteq 0 .. latest_id' - 1
       /\ (~extended' => EvenSizes(mem'))
  <2>1. cycles \in 0 .. MaxCycles /\ MaxCycles \in Nat
    BY TypesAssumption DEF IInv
  <2>2. cycles' \in 0 .. MaxCycles
    BY <1>1, <2>1
  <2>3. latest_id' \in Nat /\ DOMAIN dynamic_types' \subseteq 0 .. latest_id' - 1
    BY <1>1 DEF IInv
  <2>4. ~extended' => EvenSizes(mem')
    BY <1>1 DEF IInv
  <2> QED BY <2>2, <2>3, <2>4
<1>14. \A s \in Slots : roots'[s] # Null => roots'[s] \in ObjectsOf(mem')
  BY <1>1, <1>2
<1> QED BY <1>1, <1>2, <1>4, <1>7, <1>12, <1>13, <1>14 DEF IInv

-----------------------------------------------------------------------------
(* The steps of the collector. *)

\* What the invariant says during a cycle.
LEMMA MarkFacts ==
  ASSUME IInv, gpc = "mark"
  PROVE  /\ base \in {0, Space} /\ base \in Nat /\ base + Space \in Nat /\ base + Space <= 2 * Space
         /\ Space \in Nat /\ Space % 8 = 0 /\ Space - base \in {0, Space} /\ Space - base \in Nat
         /\ HeapOK(mem, base, base + Space) /\ MarkOK
         /\ top \in Nat /\ top % 8 = 0
<1>1. base \in {0, Space} /\ Space \in Nat /\ Space % 8 = 0
  BY TypesAssumption DEF IInv, Word
<1>2. HeapOK(mem, base, base + Space) /\ MarkOK /\ top \in Nat /\ top % 8 = 0
  BY DEF IInv
<1> QED BY <1>1, <1>2

\* The words an iteration reads: boxes that are empty or refer to objects.
LEMMA BoxWords ==
  ASSUME IInv, gpc = "mark", NEW obj \in ObjectsOf(mem), NEW b \in BoxesOf(mem, obj)
  PROVE  /\ b \in Addresses /\ WordAt(mem, b) = mem[b]
         /\ mem[b] = Nil \/ \E c \in ObjectsOf(mem) : mem[b] = Ptr(c)
         /\ Refers(mem, mem[b]) => mem[b][2] \in ObjectsOf(mem) /\ mem[b] = Ptr(mem[b][2])
         /\ mem[b] # Nil => Refers(mem, mem[b])
<1>1. PICK m, low, high : m = mem /\ low = base /\ high = base + Space
  OBVIOUS
<1>2. HeapOK(m, low, high) /\ high <= 2 * Space /\ high \in Nat
  BY <1>1, MarkFacts
<1>3. obj \in ObjectsOf(m) /\ b \in BoxesOf(m, obj)
  BY <1>1
<1>4. b \in Addresses
  BY <1>2, <1>3, BoxesApart
<1>5. m \in [Addresses -> Words] /\ (m[b] = Nil \/ \E c \in ObjectsOf(m) : m[b] = Ptr(c))
  BY <1>2, <1>3 DEF HeapOK
<1>6. m[b] # Nil => Refers(m, m[b]) /\ m[b][2] \in ObjectsOf(m) /\ m[b] = Ptr(m[b][2])
  <2> SUFFICES ASSUME m[b] # Nil PROVE Refers(m, m[b]) /\ m[b][2] \in ObjectsOf(m) /\ m[b] = Ptr(m[b][2])
    OBVIOUS
  <2>1. PICK c \in ObjectsOf(m) : m[b] = Ptr(c)
    BY <1>5
  <2>2. PICK word : word = m[b]
    OBVIOUS
  <2>3. word = Ptr(c) /\ word[1] = "ptr" /\ word[2] = c
    BY <2>1, <2>2 DEF Ptr
  <2>4. IsObject(m, c)
    BY <1>1 DEF ObjectsOf
  <2> QED BY <2>2, <2>3, <2>4 DEF Refers
<1>7. Refers(m, m[b]) => m[b] # Nil
  BY DEF Refers, Nil
<1>8. WordAt(m, b) = m[b]
  BY <1>4, <1>5 DEF WordAt
<1> QED BY <1>1, <1>4, <1>5, <1>6, <1>7, <1>8

\* Marking an object reads its boxes and nothing else, and finds what they refer to.
LEMMA MarkReads ==
  ASSUME NEW types \in SUBSET Descriptors, StaticTypes \subseteq types, Upright(types),
         IInv, gpc = "mark", NEW obj \in ObjectsOf(mem)
  PROVE  /\ ~Wild(obj) /\ Targets(Range(Visits(mem, obj))) \subseteq ObjectsOf(mem)
         /\ \A w \in BoxesOf(mem, obj), c \in ObjectsOf(mem) :
              mem[w] = Ptr(c) => c \in Targets(Range(Visits(mem, obj)))
<1>1. PICK m, low, high : m = mem /\ low = base /\ high = base + Space
  OBVIOUS
<1>2. HeapOK(m, low, high) /\ obj \in ObjectsOf(m)
  BY <1>1, MarkFacts
<1>3. obj \in Nat /\ TypeAt(m, obj) \in StaticTypes /\ LenAt(m, obj) \in Nat
  BY <1>2, ObjectFacts
<1>4. Range(Visits(m, obj)) = BoxesOf(m, obj)
  BY <1>3, VisitsBoxes
<1>5. Range(Visits(mem, obj)) = BoxesOf(mem, obj)
  BY <1>1, <1>4
<1>6. PICK boxes : boxes = BoxesOf(mem, obj)
  OBVIOUS
<1>7. \A b \in boxes : /\ WordAt(mem, b) = mem[b]
                       /\ (Refers(mem, mem[b]) => mem[b][2] \in ObjectsOf(mem) /\ mem[b] = Ptr(mem[b][2]))
                       /\ (mem[b] # Nil => Refers(mem, mem[b]))
  BY <1>6, BoxWords
<1>8. ~Wild(obj)
  BY <1>5, <1>6, <1>7 DEF Wild
<1>9. Targets(boxes) \subseteq ObjectsOf(mem)
  BY <1>7 DEF Targets
<1>10. ASSUME NEW w \in boxes, NEW c \in ObjectsOf(mem), mem[w] = Ptr(c) PROVE c \in Targets(boxes)
  <2>1. PICK word : word = mem[w]
    OBVIOUS
  <2>2. word # Nil /\ word[2] = c
    BY <1>10, <2>1 DEF Ptr, Nil
  <2>3. WordAt(mem, w) = word /\ Refers(mem, word)
    BY <1>7, <2>1, <2>2
  <2> QED BY <2>2, <2>3 DEF Targets
<1> QED BY <1>5, <1>6, <1>8, <1>9, <1>10

\* Marking an object keeps what has been found closed, and places apart.
LEMMA MarkObjectInv ==
  ASSUME NEW types \in SUBSET Descriptors, StaticTypes \subseteq types, Upright(types),
         IInv, NEW obj \in mark_stack, MarkObject(obj)
  PROVE  IInv'
<1>1. /\ gpc = "mark" /\ failure = "none" /\ mem' = mem /\ base' = base /\ roots' = roots
      /\ latest_id' = latest_id /\ dynamic_types' = dynamic_types
      /\ gpc' = gpc /\ cycles' = cycles /\ extended' = extended
  BY DEF MarkObject, typevars
<1>2. /\ base \in {0, Space} /\ base \in Nat /\ base + Space \in Nat /\ base + Space <= 2 * Space
      /\ Space \in Nat /\ Space % 8 = 0 /\ Space - base \in {0, Space} /\ Space - base \in Nat
      /\ HeapOK(mem, base, base + Space) /\ MarkOK
      /\ top \in Nat /\ top % 8 = 0
  BY <1>1, MarkFacts
<1>3. obj \in ObjectsOf(mem) /\ obj \notin DOMAIN records
  BY <1>2 DEF MarkOK
<1>4. PICK size : size = SizeAt(mem, obj)
  OBVIOUS
<1>5. size \in Nat /\ size >= 8
  BY <1>2, <1>3, <1>4, ObjectFacts
<1>6. PICK found : found = Targets(Range(Visits(mem, obj)))
  OBVIOUS
<1>7. /\ ~Wild(obj) /\ found \subseteq ObjectsOf(mem)
      /\ \A w \in BoxesOf(mem, obj), c \in ObjectsOf(mem) : mem[w] = Ptr(c) => c \in found
  BY <1>1, <1>3, <1>6, MarkReads
<1>8. /\ failure' = IF size % 8 # 0 THEN "size" ELSE "none"
      /\ IF failure' = "none"
         THEN /\ records' = [p \in DOMAIN records \cup {obj} |->
                              IF p = obj THEN [dest |-> top, size |-> size] ELSE records[p]]
              /\ top' = top + size
              /\ mark_stack' = (mark_stack \cup found) \ DOMAIN records'
         ELSE UNCHANGED <<records, top, mark_stack>>
  BY <1>4, <1>6, <1>7 DEF MarkObject
<1>9. /\ base' \in {0, Space} /\ cycles' \in 0 .. MaxCycles /\ latest_id' \in Nat
      /\ DOMAIN dynamic_types' \subseteq 0 .. latest_id' - 1
      /\ HeapOK(mem', base', base' + Space)
      /\ (~extended' => EvenSizes(mem'))
      /\ \A s \in Slots : roots'[s] # Null => roots'[s] \in ObjectsOf(mem')
      /\ gpc' = "mark"
  BY <1>1, <1>2 DEF IInv
<1>10. CASE size % 8 # 0
  <2>1. failure' = "size" /\ UNCHANGED <<records, top, mark_stack>>
    BY <1>8, <1>10
  <2>2. extended
    BY <1>3, <1>4, <1>10 DEF IInv, EvenSizes
  <2>3. MarkOK'
    BY <1>1, <1>2, <2>1 DEF MarkOK, Marked
  <2> QED BY <1>1, <1>2, <1>9, <2>1, <2>2, <2>3 DEF IInv
<1>11. CASE size % 8 = 0
  <2>1. /\ failure' = "none" /\ top' = top + size
        /\ records' = [p \in DOMAIN records \cup {obj} |->
                         IF p = obj THEN [dest |-> top, size |-> size] ELSE records[p]]
        /\ mark_stack' = (mark_stack \cup found) \ DOMAIN records'
    BY <1>8, <1>11
  <2>2. /\ DOMAIN records' = DOMAIN records \cup {obj}
        /\ records'[obj].dest = top /\ records'[obj].size = size
        /\ \A p \in DOMAIN records : records'[p] = records[p]
    BY <1>3, <2>1
  <2>3. top' \in Nat /\ top' % 8 = 0 /\ top <= top'
    BY <1>2, <1>5, <1>11, <2>1
  <2>4. PICK other \in Nat : other = Space - base
    BY <1>2
  <2>5. /\ DOMAIN records \subseteq ObjectsOf(mem) /\ mark_stack \subseteq ObjectsOf(mem) \ DOMAIN records
        /\ \A s \in Slots : roots[s] # Null => Marked(roots[s])
        /\ \A p \in DOMAIN records :
             /\ \A w \in BoxesOf(mem, p), c \in ObjectsOf(mem) : mem[w] = Ptr(c) => Marked(c)
             /\ records[p].size = SizeAt(mem, p) /\ records[p].size % 8 = 0
             /\ records[p].dest \in Nat /\ records[p].dest % 8 = 0
             /\ other <= records[p].dest /\ records[p].dest + records[p].size <= top
        /\ \A p, q \in DOMAIN records :
             p # q => Apart(records[p].dest, records[p].size, records[q].dest, records[q].size)
        /\ top >= other
        /\ Cardinality(BytesOf(mem, DOMAIN records)) = top - other
    BY <1>2, <2>4 DEF MarkOK
  <2>6. DOMAIN records' \subseteq ObjectsOf(mem) /\ mark_stack' \subseteq ObjectsOf(mem) \ DOMAIN records'
    BY <1>3, <1>7, <2>1, <2>2, <2>5
  <2>7. \A c : Marked(c) \/ c \in found => Marked(c)'
    BY <2>1, <2>2 DEF Marked
  <2>8. \A s \in Slots : roots'[s] # Null => Marked(roots[s])'
    BY <1>1, <2>5, <2>7
  <2>9. \A p \in DOMAIN records' :
          /\ \A w \in BoxesOf(mem, p), c \in ObjectsOf(mem) : mem[w] = Ptr(c) => Marked(c)'
          /\ records'[p].size = SizeAt(mem, p) /\ records'[p].size % 8 = 0
          /\ records'[p].dest \in Nat /\ records'[p].dest % 8 = 0
          /\ other <= records'[p].dest /\ records'[p].dest + records'[p].size <= top'
    <3> SUFFICES ASSUME NEW p \in DOMAIN records'
                 PROVE  /\ \A w \in BoxesOf(mem, p), c \in ObjectsOf(mem) : mem[w] = Ptr(c) => Marked(c)'
                        /\ records'[p].size = SizeAt(mem, p) /\ records'[p].size % 8 = 0
                        /\ records'[p].dest \in Nat /\ records'[p].dest % 8 = 0
                        /\ other <= records'[p].dest /\ records'[p].dest + records'[p].size <= top'
      OBVIOUS
    <3>1. CASE p = obj
      <4>1. \A w \in BoxesOf(mem, p), c \in ObjectsOf(mem) : mem[w] = Ptr(c) => Marked(c)'
        BY <1>7, <2>7, <3>1
      <4> QED BY <1>2, <1>4, <1>11, <2>1, <2>2, <2>4, <2>5, <3>1, <4>1
    <3>2. CASE p \in DOMAIN records
      <4>1. \A w \in BoxesOf(mem, p), c \in ObjectsOf(mem) : mem[w] = Ptr(c) => Marked(c)'
        BY <2>5, <2>7, <3>2
      <4>2. PICK dest, bytes : dest = records[p].dest /\ bytes = records[p].size
        OBVIOUS
      <4>3. bytes \in Nat
        BY <1>2, <2>5, <3>2, <4>2, ObjectFacts
      <4>4. dest \in Nat /\ dest + bytes <= top
        BY <2>5, <3>2, <4>2
      <4>5. dest + bytes <= top'
        BY <1>2, <2>3, <4>3, <4>4
      <4> QED BY <2>2, <2>5, <3>2, <4>1, <4>2, <4>5
    <3> QED BY <2>2, <3>1, <3>2
  <2>10. \A p, q \in DOMAIN records' :
           p # q => Apart(records'[p].dest, records'[p].size, records'[q].dest, records'[q].size)
    <3> SUFFICES ASSUME NEW p \in DOMAIN records', NEW q \in DOMAIN records', p # q
                 PROVE  Apart(records'[p].dest, records'[p].size, records'[q].dest, records'[q].size)
      OBVIOUS
    <3>1. CASE p \in DOMAIN records /\ q \in DOMAIN records
      BY <2>2, <2>5, <3>1
    <3>2. CASE p = obj
      <4>1. q \in DOMAIN records /\ records[q].dest + records[q].size <= records'[p].dest
        BY <2>2, <2>5, <3>2
      <4> QED BY <2>2, <4>1 DEF Apart
    <3>3. CASE q = obj
      <4>1. p \in DOMAIN records /\ records[p].dest + records[p].size <= records'[q].dest
        BY <2>2, <2>5, <3>3
      <4> QED BY <2>2, <4>1 DEF Apart
    <3> QED BY <2>2, <3>1, <3>2, <3>3
  <2>11. Cardinality(BytesOf(mem, DOMAIN records')) = top' - other
    <3>1. PICK m, low, done : m = mem /\ low = base /\ done = DOMAIN records
      OBVIOUS
    <3>2. low \in Nat /\ HeapOK(m, low, low + Space) /\ done \in SUBSET ObjectsOf(m) /\ obj \in ObjectsOf(m) \ done
      BY <1>2, <1>3, <2>5, <3>1
    <3>3. Cardinality(BytesOf(m, done \cup {obj})) = Cardinality(BytesOf(m, done)) + SizeAt(m, obj)
      BY <3>2, BytesAdded
    <3>4. Cardinality(BytesOf(mem, DOMAIN records')) = (top - other) + size
      BY <1>4, <2>2, <2>5, <3>1, <3>3
    <3> QED BY <1>2, <1>5, <2>1, <2>4, <3>4
  <2>12. top' >= other
    BY <1>2, <2>3, <2>4, <2>5
  <2>13. MarkOK'
    BY <1>1, <2>4, <2>6, <2>8, <2>9, <2>10, <2>11, <2>12 DEF MarkOK
  <2> QED BY <1>9, <2>1, <2>3, <2>13 DEF IInv
<1> QED BY <1>10, <1>11

\* What the invariant says of a record: an object, and a place for it in the other space.
LEMMA RecordFacts ==
  ASSUME IInv, gpc = "mark", NEW p \in DOMAIN records
  PROVE  /\ p \in ObjectsOf(mem) /\ p \in Nat /\ p % 8 = 0
         /\ records[p].size = SizeAt(mem, p) /\ records[p].size \in Nat
         /\ records[p].size >= 8 /\ records[p].size % 8 = 0
         /\ base <= p /\ p + records[p].size <= base + Space
         /\ records[p].dest \in Nat /\ records[p].dest % 8 = 0
         /\ Space - base <= records[p].dest
         /\ records[p].dest + records[p].size <= top /\ top <= (Space - base) + Space
         /\ records[p].dest \in Addresses
         /\ \A q \in DOMAIN records : \A x \in Nat :
              /\ records[p].dest <= x /\ x < records[p].dest + records[p].size
              /\ records[q].dest <= x /\ x < records[q].dest + records[q].size
              => p = q
<1>1. /\ base \in {0, Space} /\ base \in Nat /\ base + Space \in Nat /\ Space \in Nat /\ Space % 8 = 0
      /\ Space - base \in Nat /\ HeapOK(mem, base, base + Space) /\ MarkOK /\ top \in Nat
  BY MarkFacts
<1>2. /\ DOMAIN records \subseteq ObjectsOf(mem) /\ top >= Space - base
      /\ \A q \in DOMAIN records :
           /\ records[q].size = SizeAt(mem, q) /\ records[q].size % 8 = 0
           /\ records[q].dest \in Nat /\ records[q].dest % 8 = 0
           /\ Space - base <= records[q].dest /\ records[q].dest + records[q].size <= top
           /\ \A r \in DOMAIN records :
                q # r => Apart(records[q].dest, records[q].size, records[r].dest, records[r].size)
      /\ Cardinality(BytesOf(mem, DOMAIN records)) = top - (Space - base)
  BY <1>1 DEF MarkOK
<1>3. \A q \in DOMAIN records : /\ q \in Nat /\ q % 8 = 0 /\ records[q].size \in Nat /\ records[q].size >= 8
                                /\ base <= q /\ q + records[q].size <= base + Space
  <2> SUFFICES ASSUME NEW q \in DOMAIN records
               PROVE  /\ q \in Nat /\ q % 8 = 0 /\ records[q].size \in Nat /\ records[q].size >= 8
                      /\ base <= q /\ q + records[q].size <= base + Space
    OBVIOUS
  <2>1. q \in Nat /\ q % 8 = 0 /\ SizeAt(mem, q) \in Nat /\ SizeAt(mem, q) >= 8
    BY <1>1, <1>2, ObjectFacts
  <2>2. base <= q /\ q + SizeAt(mem, q) <= base + Space
    BY <1>1, <1>2 DEF HeapOK
  <2> QED BY <1>2, <2>1, <2>2
<1>4. top <= (Space - base) + Space
  <2>1. PICK bytes : bytes = Cardinality(BytesOf(mem, DOMAIN records))
    OBVIOUS
  <2>2. bytes \in Nat /\ bytes <= Space
    BY <1>1, <1>2, <2>1, BytesBound
  <2> QED BY <1>1, <1>2, <2>1, <2>2
<1>5. PICK dest, size : dest = records[p].dest /\ size = records[p].size
  OBVIOUS
<1>6. /\ dest \in Nat /\ dest % 8 = 0 /\ size \in Nat /\ size >= 8
      /\ dest + size <= top /\ Space - base <= dest
  BY <1>2, <1>3, <1>5
<1>7. dest + 8 <= 2 * Space
  BY <1>1, <1>4, <1>6
<1>8. dest \in Addresses
  BY <1>1, <1>6, <1>7 DEF Addresses, Word
<1>9. ASSUME NEW q \in DOMAIN records, NEW x \in Nat, dest <= x, x < dest + size,
             records[q].dest <= x, x < records[q].dest + records[q].size
      PROVE  p = q
  <2>1. PICK to \in Nat, bytes \in Nat : to = records[q].dest /\ bytes = records[q].size
    BY <1>2, <1>3
  <2>2. p # q => dest + size <= to \/ to + bytes <= dest
    BY <1>2, <1>5, <2>1 DEF Apart
  <2> QED BY <1>6, <1>9, <2>1, <2>2
<1> QED BY <1>2, <1>3, <1>4, <1>5, <1>6, <1>8, <1>9

\* A word of an object, and where it has been copied to.
LEMMA WordCopied ==
  ASSUME IInv, gpc = "mark", NEW p \in DOMAIN records, NEW k \in Nat, k % 8 = 0, k < records[p].size
  PROVE  /\ p + k \in Addresses /\ records[p].dest + k \in Addresses
         /\ records[p].dest + k \notin base .. base + Space - 1
         /\ Copied[records[p].dest + k] = mem[p + k]
<1>1. PICK dest \in Nat, size \in Nat : dest = records[p].dest /\ size = records[p].size
  BY RecordFacts
<1>2. /\ p \in Nat /\ p % 8 = 0 /\ size % 8 = 0 /\ base <= p /\ p + size <= base + Space
      /\ dest % 8 = 0 /\ Space - base <= dest /\ dest + size <= (Space - base) + Space
  <2>1. top \in Nat /\ dest + size <= top /\ top <= (Space - base) + Space
    BY <1>1, MarkFacts, RecordFacts
  <2>2. dest + size <= (Space - base) + Space
    <3>1. PICK t \in Nat, room \in Nat : t = top /\ room = (Space - base) + Space
      BY MarkFacts
    <3> QED BY <1>1, <2>1, <3>1
  <2>3. /\ p \in Nat /\ p % 8 = 0 /\ base <= p /\ p + records[p].size <= base + Space
        /\ records[p].size % 8 = 0 /\ records[p].dest % 8 = 0 /\ Space - base <= records[p].dest
    BY RecordFacts
  <2> QED BY <1>1, <2>2, <2>3
<1>3. base \in {0, Space} /\ Space \in Nat /\ Space % 8 = 0 /\ mem \in [Addresses -> Words]
  BY MarkFacts DEF HeapOK
<1>4. k + 8 <= size
  BY <1>1, <1>2
<1>5. p + k + 8 <= 2 * Space /\ dest + k + 8 <= 2 * Space
  <2>1. p + k + 8 <= p + size /\ dest + k + 8 <= dest + size
    BY <1>2, <1>4
  <2>2. p \in Nat /\ p + size <= base + Space /\ dest + size <= (Space - base) + Space /\ Space \in Nat
    BY <1>2, <1>3
  <2>3. CASE base = 0
    BY <2>1, <2>2, <2>3
  <2>4. CASE base = Space
    BY <2>1, <2>2, <2>4
  <2> QED BY <1>3, <2>3, <2>4
<1>6. p + k \in Addresses /\ dest + k \in Addresses
  BY <1>2, <1>3, <1>5 DEF Addresses, Word
<1>7. dest + k \notin base .. base + Space - 1
  BY <1>2, <1>3, <1>4
<1>13. PICK a \in Nat : a = dest + k
  OBVIOUS
<1>8. \A q \in DOMAIN records : a - records[q].dest \in 0 .. records[q].size - 1 <=> q = p
  <2>1. a - dest = k /\ k \in 0 .. size - 1
    BY <1>1, <1>13
  <2>2. ASSUME NEW q \in DOMAIN records, a - records[q].dest \in 0 .. records[q].size - 1 PROVE q = p
    <3>1. PICK to \in Nat, bytes \in Nat : to = records[q].dest /\ bytes = records[q].size
      BY RecordFacts
    <3>2. to <= dest + k /\ dest + k < to + bytes
      BY <1>13, <2>2, <3>1
    <3>3. dest <= dest + k /\ dest + k < dest + size /\ dest + k \in Nat
      BY <1>1
    <3> QED BY <1>1, <3>1, <3>2, <3>3, RecordFacts
  <2> QED BY <1>1, <2>1, <2>2
<1>9. Copied[dest + k] = WordAt(mem, p + (dest + k - dest))
  <2>1. a \in Addresses
    BY <1>6, <1>13
  <2>2. PICK from : from = {q \in DOMAIN records : a - records[q].dest \in 0 .. records[q].size - 1}
    OBVIOUS
  <2>3. from = {p}
    BY <1>8, <2>2
  <2>4. Copied[a] = IF from # {} THEN LET q == CHOOSE r \in from : TRUE IN WordAt(mem, q + (a - records[q].dest))
                    ELSE mem[a]
    BY <2>1, <2>2 DEF Copied
  <2>5. (CHOOSE r \in from : TRUE) = p
    BY <2>3
  <2>6. Copied[a] = WordAt(mem, p + (a - records[p].dest))
    BY <2>3, <2>4, <2>5
  <2> QED BY <1>1, <1>13, <2>6
<1>10. dest + k - dest = k
  OBVIOUS
<1>11. WordAt(mem, p + k) = mem[p + k]
  BY <1>3, <1>6 DEF WordAt
<1> QED BY <1>1, <1>6, <1>7, <1>9, <1>10, <1>11

\* A word that belongs to no copy.
LEMMA WordKept ==
  ASSUME NEW a \in Addresses,
         \A p \in DOMAIN records : a - records[p].dest \notin 0 .. records[p].size - 1
  PROVE  Copied[a] = mem[a]
<1>1. {q \in DOMAIN records : a - records[q].dest \in 0 .. records[q].size - 1} = {}
  OBVIOUS
<1> QED BY <1>1 DEF Copied

\* A copy has the layout of its object: its boxes lie as far behind its start.
LEMMA CopyLayout ==
  ASSUME NEW m, IInv, gpc = "mark", NEW p \in DOMAIN records,
         m[records[p].dest] = mem[p],
         TypeAt(mem, p).is_array => m[records[p].dest + 8] = mem[p + 8]
  PROVE  /\ TypeAt(m, records[p].dest) = TypeAt(mem, p) /\ LenAt(m, records[p].dest) = LenAt(mem, p)
         /\ SizeAt(m, records[p].dest) = records[p].size
         /\ \A w \in BoxesOf(m, records[p].dest) :
              \E k \in Nat : /\ w = records[p].dest + k /\ p + k \in BoxesOf(mem, p) /\ k >= 8
                             /\ k % 8 = 0 /\ k < records[p].size /\ (TypeAt(mem, p).is_array => k # 8)
<1>1. PICK dest \in Nat : dest = records[p].dest
  BY RecordFacts
<1>2. TypeAt(m, dest) = TypeAt(mem, p)
  BY <1>1 DEF TypeAt
<1>3. LenAt(m, dest) = LenAt(mem, p)
  BY <1>1, <1>2 DEF LenAt, Metadata, Word
<1>4. SizeAt(m, dest) = records[p].size
  <2>1. SizeAt(m, dest) = SizeAt(mem, p)
    BY <1>2, <1>3 DEF SizeAt
  <2> QED BY <2>1, RecordFacts
<1>5. ASSUME NEW w \in BoxesOf(m, dest)
      PROVE  \E k \in Nat : /\ w = dest + k /\ p + k \in BoxesOf(mem, p) /\ k >= 8
                            /\ k % 8 = 0 /\ k < records[p].size /\ (TypeAt(mem, p).is_array => k # 8)
  <2>1. PICK desc, len : desc = TypeAt(mem, p) /\ len = LenAt(mem, p)
    OBVIOUS
  <2>2. PICK o \in PointersOf(desc, len) : w = dest + 8 + o
    BY <1>2, <1>3, <2>1 DEF BoxesOf, Metadata, Word
  <2>3. HeapOK(mem, base, base + Space) /\ p \in ObjectsOf(mem) /\ p \in Nat
    BY MarkFacts, RecordFacts
  <2>4. /\ desc \in Descriptors /\ len \in Nat /\ SizeAt(mem, p) = DynamicSize(desc, len) + 8
    BY <2>1, <2>3, ObjectFacts
  <2>5. PICK bytes \in Nat : bytes = DynamicSize(desc, len)
    BY <2>4, OffsetsBound
  <2>6. o \in Nat /\ o % 8 = 0 /\ o + 8 <= bytes /\ (desc.is_array => o >= 8)
    BY <2>4, <2>5, OffsetsBound
  <2>7. records[p].size = bytes + 8
    BY <2>4, <2>5, RecordFacts
  <2>8. PICK k \in Nat : k = 8 + o
    BY <2>6
  <2>9. w = dest + k /\ k >= 8 /\ k % 8 = 0 /\ k < bytes + 8 /\ (desc.is_array => k # 8)
    BY <2>2, <2>6, <2>8
  <2>10. p + k \in BoxesOf(mem, p)
    <3>1. p + k = p + 8 + o
      BY <2>3, <2>6, <2>8
    <3> QED BY <2>1, <3>1 DEF BoxesOf, Metadata, Word
  <2> QED BY <2>1, <2>7, <2>9, <2>10
<1> QED BY <1>1, <1>2, <1>3, <1>4, <1>5

\* The header of an object is copied, and the length of an array.
LEMMA HeaderCopied ==
  ASSUME IInv, gpc = "mark", NEW p \in DOMAIN records
  PROVE  /\ Copied[records[p].dest] = mem[p]
         /\ TypeAt(mem, p).is_array =>
              /\ Copied[records[p].dest + 8] = mem[p + 8]
              /\ records[p].dest + 8 \in Addresses /\ p + 8 \in Addresses
              /\ records[p].dest + 8 \notin base .. base + Space - 1
         /\ records[p].dest \notin base .. base + Space - 1
<1>1. PICK dest \in Nat, size \in Nat : dest = records[p].dest /\ size = records[p].size /\ size >= 8 /\ p \in Nat
  BY RecordFacts
<1>2. 0 \in Nat /\ 0 % 8 = 0 /\ 0 < records[p].size
  BY <1>1
<1>3. Copied[records[p].dest + 0] = mem[p + 0] /\ records[p].dest + 0 \notin base .. base + Space - 1
  BY <1>2, WordCopied
<1>4. dest + 0 = dest /\ p + 0 = p
  BY <1>1
<1>5. Copied[records[p].dest] = mem[p] /\ records[p].dest \notin base .. base + Space - 1
  BY <1>1, <1>3, <1>4
<1>6. ASSUME TypeAt(mem, p).is_array
      PROVE  /\ Copied[records[p].dest + 8] = mem[p + 8]
             /\ records[p].dest + 8 \in Addresses /\ p + 8 \in Addresses
             /\ records[p].dest + 8 \notin base .. base + Space - 1
  <2>1. SizeAt(mem, p) >= 16
    BY <1>6, MarkFacts, RecordFacts, ObjectFacts
  <2>2. records[p].size = SizeAt(mem, p)
    BY RecordFacts
  <2>3. 8 \in Nat /\ 8 % 8 = 0 /\ 8 < records[p].size
    BY <1>1, <2>1, <2>2
  <2> QED BY <2>3, WordCopied
<1> QED BY <1>5, <1>6

\* The boxes of a copy hold what the boxes of the object hold, and an iteration
\* over the copy visits each of them once.
LEMMA BoxesCopied ==
  ASSUME NEW types \in SUBSET Descriptors, StaticTypes \subseteq types, Upright(types),
         IInv, gpc = "mark", mark_stack = {}, NEW p \in DOMAIN records
  PROVE  LET dest == records[p].dest
         IN  /\ Range(Visits(Copied, dest)) = BoxesOf(Copied, dest)
             /\ \A x, y \in DOMAIN Visits(Copied, dest) :
                  Visits(Copied, dest)[x] = Visits(Copied, dest)[y] => x = y
             /\ TypeAt(Copied, dest) = TypeAt(mem, p) /\ LenAt(Copied, dest) = LenAt(mem, p)
             /\ \A w \in BoxesOf(Copied, dest) :
                  /\ w \in Addresses /\ w \in Nat /\ dest + 8 <= w /\ w < dest + records[p].size
                  /\ TypeAt(mem, p).is_array => w # dest + 8
                  /\ w \notin base .. base + Space - 1
                  /\ Copied[w] = Nil \/ \E c \in DOMAIN records : Copied[w] = Ptr(c)
<1>1. PICK dest \in Nat, size \in Nat : dest = records[p].dest /\ size = records[p].size
  BY RecordFacts
<1>2. PICK m : m = Copied
  OBVIOUS
<1>3. m[dest] = mem[p] /\ (TypeAt(mem, p).is_array => m[dest + 8] = mem[p + 8])
  BY <1>1, <1>2, HeaderCopied
<1>4. /\ TypeAt(m, dest) = TypeAt(mem, p) /\ LenAt(m, dest) = LenAt(mem, p)
      /\ \A w \in BoxesOf(m, dest) :
           \E k \in Nat : /\ w = dest + k /\ p + k \in BoxesOf(mem, p) /\ k >= 8
                          /\ k % 8 = 0 /\ k < size /\ (TypeAt(mem, p).is_array => k # 8)
  <2>1. m[records[p].dest] = mem[p] /\ (TypeAt(mem, p).is_array => m[records[p].dest + 8] = mem[p + 8])
    BY <1>1, <1>3
  <2>2. /\ TypeAt(m, records[p].dest) = TypeAt(mem, p) /\ LenAt(m, records[p].dest) = LenAt(mem, p)
        /\ \A w \in BoxesOf(m, records[p].dest) :
             \E k \in Nat : /\ w = records[p].dest + k /\ p + k \in BoxesOf(mem, p) /\ k >= 8
                            /\ k % 8 = 0 /\ k < records[p].size /\ (TypeAt(mem, p).is_array => k # 8)
    BY <2>1, CopyLayout
  <2> QED BY <1>1, <2>2
<1>5. p \in ObjectsOf(mem) /\ HeapOK(mem, base, base + Space) /\ MarkOK
  BY MarkFacts, RecordFacts
<1>6. TypeAt(m, dest) \in StaticTypes /\ LenAt(m, dest) \in Nat
  BY <1>4, <1>5, ObjectFacts
<1>7. /\ Range(Visits(m, dest)) = BoxesOf(m, dest)
      /\ \A x, y \in DOMAIN Visits(m, dest) : Visits(m, dest)[x] = Visits(m, dest)[y] => x = y
  BY <1>6, VisitsBoxes
<1>8. ASSUME NEW w \in BoxesOf(m, dest)
      PROVE  /\ w \in Addresses /\ w \in Nat /\ dest + 8 <= w /\ w < dest + size
             /\ TypeAt(mem, p).is_array => w # dest + 8
             /\ w \notin base .. base + Space - 1
             /\ m[w] = Nil \/ \E c \in DOMAIN records : m[w] = Ptr(c)
  <2>1. PICK k \in Nat : /\ w = dest + k /\ p + k \in BoxesOf(mem, p) /\ k >= 8
                         /\ k % 8 = 0 /\ k < size /\ (TypeAt(mem, p).is_array => k # 8)
    BY <1>4
  <2>2. w \in Addresses /\ w \notin base .. base + Space - 1 /\ m[w] = mem[p + k]
    BY <1>1, <1>2, <2>1, WordCopied
  <2>3. mem[p + k] = Nil \/ \E c \in ObjectsOf(mem) : mem[p + k] = Ptr(c)
    BY <1>5, <2>1, BoxWords
  <2>4. \A c \in ObjectsOf(mem) : mem[p + k] = Ptr(c) => c \in DOMAIN records
    BY <1>5, <2>1 DEF MarkOK, Marked
  <2>5. w \in Nat /\ dest + 8 <= w /\ w < dest + size /\ (TypeAt(mem, p).is_array => w # dest + 8)
    BY <1>1, <2>1
  <2> QED BY <2>2, <2>3, <2>4, <2>5
<1> QED BY <1>1, <1>2, <1>4, <1>7, <1>8

\* Every word that is visited is null or has a record, and is visited once.
LEMMA MapsAll ==
  ASSUME NEW types \in SUBSET Descriptors, StaticTypes \subseteq types, Upright(types),
         IInv, gpc = "mark", mark_stack = {}
  PROVE  /\ AllMapped
         /\ {Updated(u) : u \in Updates} = UNION {BoxesOf(Copied, records[p].dest) : p \in DOMAIN records}
<1>1. PICK m : m = Copied
  OBVIOUS
<1>2. \A p \in DOMAIN records :
        /\ Range(Visits(m, records[p].dest)) = BoxesOf(m, records[p].dest)
        /\ \A x, y \in DOMAIN Visits(m, records[p].dest) :
             Visits(m, records[p].dest)[x] = Visits(m, records[p].dest)[y] => x = y
        /\ \A w \in BoxesOf(m, records[p].dest) :
             /\ w \in Addresses /\ w \in Nat /\ records[p].dest <= w /\ w < records[p].dest + records[p].size
             /\ m[w] = Nil \/ \E c \in DOMAIN records : m[w] = Ptr(c)
  <2> SUFFICES ASSUME NEW p \in DOMAIN records
               PROVE  /\ Range(Visits(m, records[p].dest)) = BoxesOf(m, records[p].dest)
                      /\ \A x, y \in DOMAIN Visits(m, records[p].dest) :
                           Visits(m, records[p].dest)[x] = Visits(m, records[p].dest)[y] => x = y
                      /\ \A w \in BoxesOf(m, records[p].dest) :
                           /\ w \in Addresses /\ w \in Nat /\ records[p].dest <= w
                           /\ w < records[p].dest + records[p].size
                           /\ m[w] = Nil \/ \E c \in DOMAIN records : m[w] = Ptr(c)
    OBVIOUS
  <2>1. PICK dest \in Nat, size \in Nat : dest = records[p].dest /\ size = records[p].size
    BY RecordFacts
  <2>2. /\ Range(Visits(m, dest)) = BoxesOf(m, dest)
        /\ \A x, y \in DOMAIN Visits(m, dest) : Visits(m, dest)[x] = Visits(m, dest)[y] => x = y
        /\ \A w \in BoxesOf(m, dest) :
             /\ w \in Addresses /\ w \in Nat /\ dest + 8 <= w /\ w < dest + size
             /\ m[w] = Nil \/ \E c \in DOMAIN records : m[w] = Ptr(c)
    BY <1>1, <2>1, BoxesCopied
  <2>3. \A w \in Nat : dest + 8 <= w => dest <= w
    OBVIOUS
  <2> QED BY <2>1, <2>2, <2>3
<1>3. \A p \in DOMAIN records : \A x \in DOMAIN Visits(m, records[p].dest) :
        Visits(m, records[p].dest)[x] \in BoxesOf(m, records[p].dest)
  BY <1>2 DEF Range
<1>4. \A u \in Updates : /\ u = <<u[1], u[2]>> /\ u[1] \in DOMAIN records
                         /\ u[2] \in DOMAIN Visits(m, records[u[1]].dest)
                         /\ Updated(u) = Visits(m, records[u[1]].dest)[u[2]]
                         /\ Updated(u) \in BoxesOf(m, records[u[1]].dest)
  BY <1>1, <1>3 DEF Updates, Updated
<1>5. DOMAIN m = Addresses
  BY <1>1 DEF Copied
<1>6. ASSUME NEW u \in Updates, WordAt(m, Updated(u)) # Nil
      PROVE  HasRecord(WordAt(m, Updated(u))) /\ \A v \in Updates : Updated(v) = Updated(u) => v = u
  <2>1. PICK w : w = Updated(u)
    OBVIOUS
  <2>2. /\ w \in BoxesOf(m, records[u[1]].dest) /\ w \in Addresses /\ WordAt(m, w) = m[w]
        /\ m[w] = Nil \/ \E c \in DOMAIN records : m[w] = Ptr(c)
    BY <1>2, <1>4, <1>5, <2>1 DEF WordAt
  <2>3. HasRecord(WordAt(m, Updated(u)))
    BY <1>6, <2>1, <2>2 DEF HasRecord
  <2>4. ASSUME NEW v \in Updates, Updated(v) = w PROVE v = u
    <3>1. PICK p \in DOMAIN records, q \in DOMAIN records : p = u[1] /\ q = v[1]
      BY <1>4
    <3>2. w \in BoxesOf(m, records[p].dest) /\ w \in BoxesOf(m, records[q].dest)
      BY <1>4, <2>1, <2>4, <3>1
    <3>3. /\ w \in Nat /\ records[p].dest <= w /\ w < records[p].dest + records[p].size
          /\ records[q].dest <= w /\ w < records[q].dest + records[q].size
      BY <1>2, <3>2
    <3>4. p = q
      BY <3>3, RecordFacts
    <3>5. Visits(m, records[p].dest)[u[2]] = Visits(m, records[p].dest)[v[2]]
      BY <1>4, <2>1, <2>4, <3>1, <3>4
    <3>6. u[2] \in DOMAIN Visits(m, records[p].dest) /\ v[2] \in DOMAIN Visits(m, records[p].dest)
      BY <1>4, <3>1, <3>4
    <3>7. u[2] = v[2]
      BY <1>2, <3>5, <3>6
    <3>8. u = <<u[1], u[2]>> /\ v = <<v[1], v[2]>>
      BY <1>4
    <3> QED BY <3>1, <3>4, <3>7, <3>8
  <2> QED BY <2>1, <2>3, <2>4
<1>7. AllMapped
  BY <1>1, <1>6 DEF AllMapped
<1>8. \A w : (\E u \in Updates : w = Updated(u)) <=> \E p \in DOMAIN records : w \in BoxesOf(m, records[p].dest)
  <2>1. ASSUME NEW p \in DOMAIN records, NEW w \in BoxesOf(m, records[p].dest) PROVE \E u \in Updates : w = Updated(u)
    <3>1. PICK x \in DOMAIN Visits(m, records[p].dest) : Visits(m, records[p].dest)[x] = w
      BY <1>2 DEF Range
    <3>2. PICK u : u = <<p, x>>
      OBVIOUS
    <3>3. u \in Updates /\ Updated(u) = w
      BY <1>1, <3>1, <3>2 DEF Updates, Updated
    <3> QED BY <3>3
  <2> QED BY <1>4, <2>1
<1> QED BY <1>1, <1>7, <1>8

\* The memory when everything has been copied and fixed, and the old space given back.
MovedMem ==
  [a \in Addresses |->
     IF a \in base .. base + Space - 1 THEN Nil
     ELSE IF a \in UNION {BoxesOf(Copied, records[p].dest) : p \in DOMAIN records} /\ HasRecord(Copied[a])
          THEN Ptr(records[Copied[a][2]].dest)
     ELSE Copied[a]]

\* Headers are moved only by copying.
LEMMA MovedWords ==
  ASSUME IInv, gpc = "mark", NEW a \in Addresses
  PROVE  MovedMem[a] \in Words /\ (MovedMem[a][1] = "meta" => \E p \in DOMAIN records : a = records[p].dest)
<1>1. PICK word : word = MovedMem[a]
  OBVIOUS
<1>2. HeapOK(mem, base, base + Space) /\ base \in Nat /\ Space \in Nat
  BY MarkFacts
<1>3. mem \in [Addresses -> Words]
  BY <1>2 DEF HeapOK
<1>4. CASE a \in base .. base + Space - 1
  <2>1. word = Nil
    BY <1>1, <1>4 DEF MovedMem
  <2> QED BY <1>1, <2>1 DEF Words, Nil
<1>5. CASE a \notin base .. base + Space - 1 /\ HasRecord(Copied[a]) /\ word # Copied[a]
  <2>1. word = Ptr(records[Copied[a][2]].dest)
    BY <1>1, <1>5 DEF MovedMem
  <2>2. PICK p \in DOMAIN records : Copied[a] = Ptr(p)
    BY <1>5 DEF HasRecord
  <2>3. word = Ptr(records[p].dest)
    BY <2>1, <2>2 DEF Ptr
  <2>4. records[p].dest \in Addresses
    BY RecordFacts
  <2> QED BY <1>1, <2>3, <2>4 DEF Words, Ptr
<1>6. CASE a \notin base .. base + Space - 1 /\ word = Copied[a]
  <2>1. CASE \E p \in DOMAIN records : a - records[p].dest \in 0 .. records[p].size - 1
    <3>1. PICK p \in DOMAIN records : a - records[p].dest \in 0 .. records[p].size - 1
      BY <2>1
    <3>2. PICK dest \in Nat, size \in Nat : dest = records[p].dest /\ size = records[p].size /\ dest % 8 = 0
      BY RecordFacts
    <3>3. PICK k \in Nat : k = a - dest /\ k < size
      BY <3>1, <3>2
    <3>4. a \in Nat /\ a % 8 = 0
      BY <1>2 DEF Addresses, Word
    <3>5. a = dest + k /\ k % 8 = 0
      BY <3>2, <3>3, <3>4
    <3>6. p + k \in Addresses /\ Copied[a] = mem[p + k]
      BY <3>2, <3>3, <3>5, WordCopied
    <3>7. word = mem[p + k] /\ word \in Words
      BY <1>3, <1>6, <3>6
    <3>8. ASSUME word[1] = "meta" PROVE a = records[p].dest
      <4>1. PICK x : x = p + k
        OBVIOUS
      <4>2. x \in ObjectsOf(mem)
        BY <1>3, <3>6, <3>7, <3>8, <4>1 DEF ObjectsOf, IsObject
      <4>3. p \in ObjectsOf(mem) /\ p \in Nat /\ size = SizeAt(mem, p)
        BY <3>2, RecordFacts
      <4>4. SizeAt(mem, x) \in Nat /\ SizeAt(mem, x) >= 8 /\ x \in Nat
        BY <1>2, <4>2, ObjectFacts
      <4>5. p <= x /\ x < p + SizeAt(mem, p) /\ x < x + SizeAt(mem, x) /\ x <= x
        <5>1. p <= x /\ x < p + size
          BY <3>3, <4>1, <4>3
        <5> QED BY <4>3, <4>4, <5>1
      <4>6. p = x
        BY <1>2, <4>2, <4>3, <4>4, <4>5, SameObject
      <4>7. k = 0
        BY <4>1, <4>3, <4>6
      <4> QED BY <3>2, <3>5, <4>7
    <3> QED BY <1>1, <3>7, <3>8
  <2>2. CASE \A p \in DOMAIN records : a - records[p].dest \notin 0 .. records[p].size - 1
    <3>1. word = mem[a]
      BY <1>6, <2>2, WordKept
    <3>2. ASSUME word[1] = "meta" PROVE FALSE
      <4>1. a \in ObjectsOf(mem)
        BY <1>3, <3>1, <3>2 DEF ObjectsOf, IsObject
      <4>2. a \in Nat /\ SizeAt(mem, a) \in Nat /\ SizeAt(mem, a) >= 8
        BY <1>2, <4>1, ObjectFacts
      <4>3. base <= a /\ a + SizeAt(mem, a) <= base + Space
        BY <1>2, <4>1 DEF HeapOK
      <4> QED BY <1>2, <1>6, <4>2, <4>3
    <3> QED BY <1>1, <1>3, <3>1, <3>2
  <2> QED BY <2>1, <2>2
<1>7. word = Copied[a] \/ HasRecord(Copied[a]) \/ a \in base .. base + Space - 1
  BY <1>1 DEF MovedMem
<1> QED BY <1>4, <1>5, <1>6, <1>7

\* A moved object: its header is that of its original, and its boxes refer to
\* where the objects they referred to have gone.
LEMMA MovedObject ==
  ASSUME NEW types \in SUBSET Descriptors, StaticTypes \subseteq types, Upright(types),
         IInv, gpc = "mark", mark_stack = {}, NEW p \in DOMAIN records
  PROVE  LET dest == records[p].dest
         IN  /\ MovedMem[dest] = mem[p]
             /\ SizeAt(MovedMem, dest) = records[p].size
             /\ TypeAt(MovedMem, dest).is_array => \E len \in Nat : MovedMem[dest + 8] = Length(len)
             /\ \A w \in BoxesOf(MovedMem, dest) :
                  MovedMem[w] = Nil \/ \E c \in DOMAIN records : MovedMem[w] = Ptr(records[c].dest)
<1>1. PICK n : n = MovedMem
  OBVIOUS
<1>2. PICK dest : dest = records[p].dest
  OBVIOUS
<1>3. /\ dest \in Addresses /\ dest \notin base .. base + Space - 1
      /\ p \in ObjectsOf(mem) /\ HeapOK(mem, base, base + Space)
  BY <1>2, MarkFacts, RecordFacts, HeaderCopied
<1>4. mem[p] = Meta(TypeAt(mem, p)) /\ (TypeAt(mem, p).is_array => LenAt(mem, p) \in Nat /\ mem[p + 8] = Length(LenAt(mem, p)))
  BY <1>3, ObjectFacts
<1>5. ~HasRecord(mem[p]) /\ (TypeAt(mem, p).is_array => ~HasRecord(mem[p + 8]))
  BY <1>4 DEF HasRecord, Meta, Length, Ptr
<1>6. n[dest] = mem[p]
  <2>1. Copied[dest] = mem[p]
    BY <1>2, HeaderCopied
  <2> QED BY <1>1, <1>3, <1>5, <2>1 DEF MovedMem
<1>7. TypeAt(mem, p).is_array => n[dest + 8] = mem[p + 8]
  <2> SUFFICES ASSUME TypeAt(mem, p).is_array PROVE n[dest + 8] = mem[p + 8]
    OBVIOUS
  <2>1. Copied[dest + 8] = mem[p + 8] /\ dest + 8 \in Addresses /\ dest + 8 \notin base .. base + Space - 1
    BY <1>2, HeaderCopied
  <2>2. PICK a \in Addresses : a = dest + 8
    BY <2>1
  <2>3. n[a] = Copied[a]
    BY <1>1, <1>5, <2>1, <2>2 DEF MovedMem
  <2> QED BY <2>1, <2>2, <2>3
<1>8. TypeAt(n, dest) = TypeAt(mem, p) /\ LenAt(n, dest) = LenAt(mem, p) /\ SizeAt(n, dest) = records[p].size
  <2>1. n[records[p].dest] = mem[p] /\ (TypeAt(mem, p).is_array => n[records[p].dest + 8] = mem[p + 8])
    BY <1>2, <1>6, <1>7
  <2>2. /\ TypeAt(n, records[p].dest) = TypeAt(mem, p) /\ LenAt(n, records[p].dest) = LenAt(mem, p)
        /\ SizeAt(n, records[p].dest) = records[p].size
    BY <2>1, CopyLayout
  <2> QED BY <1>2, <2>2
<1>9. /\ TypeAt(Copied, dest) = TypeAt(mem, p) /\ LenAt(Copied, dest) = LenAt(mem, p)
      /\ \A w \in BoxesOf(Copied, dest) :
           /\ w \in Addresses /\ w \notin base .. base + Space - 1
           /\ Copied[w] = Nil \/ \E c \in DOMAIN records : Copied[w] = Ptr(c)
  BY <1>2, BoxesCopied
<1>10. BoxesOf(n, dest) = BoxesOf(Copied, dest)
  BY <1>8, <1>9 DEF BoxesOf
<1>11. ASSUME NEW w \in BoxesOf(Copied, dest)
       PROVE  n[w] = Nil \/ \E c \in DOMAIN records : n[w] = Ptr(records[c].dest)
  <2>1. /\ w \in Addresses /\ w \notin base .. base + Space - 1
        /\ w \in UNION {BoxesOf(Copied, records[q].dest) : q \in DOMAIN records}
    BY <1>2, <1>9
  <2>2. n[w] = IF HasRecord(Copied[w]) THEN Ptr(records[Copied[w][2]].dest) ELSE Copied[w]
    BY <1>1, <2>1 DEF MovedMem
  <2>3. CASE Copied[w] = Nil
    <3>1. ~HasRecord(Nil)
      BY DEF HasRecord, Nil, Ptr
    <3> QED BY <2>2, <2>3, <3>1
  <2>4. ASSUME NEW c \in DOMAIN records, Copied[w] = Ptr(c) PROVE n[w] = Ptr(records[c].dest)
    <3>1. HasRecord(Copied[w])
      BY <2>4 DEF HasRecord
    <3>2. Copied[w][2] = c
      BY <2>4 DEF Ptr
    <3> QED BY <2>2, <3>1, <3>2
  <2> QED BY <1>9, <2>3, <2>4
<1>12. TypeAt(n, dest).is_array => \E len \in Nat : n[dest + 8] = Length(len)
  BY <1>4, <1>7, <1>8
<1> QED BY <1>1, <1>2, <1>6, <1>8, <1>10, <1>11, <1>12

\* What has been moved is a well-formed heap, and its objects are the copies.
LEMMA MovedHeap ==
  ASSUME NEW types \in SUBSET Descriptors, StaticTypes \subseteq types, Upright(types),
         IInv, gpc = "mark", mark_stack = {}
  PROVE  /\ HeapOK(MovedMem, Space - base, top) /\ EvenSizes(MovedMem)
         /\ ObjectsOf(MovedMem) = {records[p].dest : p \in DOMAIN records}
<1>1. PICK n : n = MovedMem
  OBVIOUS
<1>2. n \in [Addresses -> Words]
  <2>1. n = [a \in Addresses |-> n[a]]
    BY <1>1 DEF MovedMem
  <2>2. \A a \in Addresses : n[a] \in Words
    BY <1>1, MovedWords
  <2> QED BY <2>1, <2>2
<1>3. \A p \in DOMAIN records :
        /\ n[records[p].dest] = mem[p] /\ SizeAt(n, records[p].dest) = records[p].size
        /\ TypeAt(n, records[p].dest).is_array => \E len \in Nat : n[records[p].dest + 8] = Length(len)
        /\ \A w \in BoxesOf(n, records[p].dest) :
             n[w] = Nil \/ \E c \in DOMAIN records : n[w] = Ptr(records[c].dest)
  BY <1>1, MovedObject
<1>4. \A p \in DOMAIN records :
        /\ records[p].dest \in Addresses /\ records[p].dest \in Nat
        /\ records[p].size \in Nat /\ records[p].size >= 8 /\ records[p].size % 8 = 0
        /\ Space - base <= records[p].dest /\ records[p].dest + records[p].size <= top
        /\ p \in ObjectsOf(mem)
  BY RecordFacts
<1>5. ObjectsOf(n) = {records[p].dest : p \in DOMAIN records}
  <2>1. ASSUME NEW a \in ObjectsOf(n) PROVE \E p \in DOMAIN records : a = records[p].dest
    <3>1. a \in Addresses /\ n[a][1] = "meta"
      BY <1>2 DEF ObjectsOf, IsObject
    <3> QED BY <1>1, <3>1, MovedWords
  <2>2. ASSUME NEW p \in DOMAIN records PROVE records[p].dest \in ObjectsOf(n)
    <3>1. mem[p][1] = "meta"
      BY <1>4 DEF ObjectsOf, IsObject
    <3> QED BY <1>2, <1>3, <1>4, <3>1 DEF ObjectsOf, IsObject
  <2> QED BY <2>1, <2>2
<1>6. \A a \in ObjectsOf(n) :
        /\ Space - base <= a /\ a + SizeAt(n, a) <= top
        /\ TypeAt(n, a).is_array => \E k \in Nat : n[a + Metadata] = Length(k)
  BY <1>3, <1>4, <1>5 DEF Metadata, Word
<1>7. ASSUME NEW a \in ObjectsOf(n), NEW c \in ObjectsOf(n), a < c PROVE a + SizeAt(n, a) <= c
  <2>1. PICK p \in DOMAIN records, q \in DOMAIN records : a = records[p].dest /\ c = records[q].dest
    BY <1>5
  <2>2. a \in Nat /\ c \in Nat /\ SizeAt(n, a) = records[p].size /\ records[p].size \in Nat
        /\ records[q].size \in Nat /\ records[q].size >= 8
    BY <1>3, <1>4, <2>1
  <2>3. SUFFICES ASSUME c < a + SizeAt(n, a) PROVE FALSE
    BY <2>2
  <2>4. a <= c /\ c < a + records[p].size /\ c <= c /\ c < c + records[q].size
    BY <1>7, <2>2, <2>3
  <2>5. p = q
    BY <2>1, <2>2, <2>4, RecordFacts
  <2> QED BY <1>7, <2>1, <2>2, <2>5
<1>8. \A a \in ObjectsOf(n) : \A w \in BoxesOf(n, a) : n[w] = Nil \/ \E c \in ObjectsOf(n) : n[w] = Ptr(c)
  BY <1>3, <1>5
<1>9. HeapOK(n, Space - base, top)
  BY <1>2, <1>6, <1>7, <1>8, Zenon DEF HeapOK
<1>10. EvenSizes(n)
  BY <1>3, <1>4, <1>5 DEF EvenSizes
<1> QED BY <1>1, <1>5, <1>9, <1>10

\* Moving leaves a heap that the program can go on with.
LEMMA MoveInv ==
  ASSUME NEW types \in SUBSET Descriptors, StaticTypes \subseteq types, Upright(types),
         IInv, Move
  PROVE  IInv'
<1>1. /\ gpc = "mark" /\ mark_stack = {} /\ failure = "none" /\ roots' = MappedRoots
      /\ failure' = (IF AllMapped THEN "none" ELSE "record") /\ base' = Space - base
      /\ records' = << >> /\ gpc' = "idle"
      /\ top' = top /\ mark_stack' = mark_stack /\ latest_id' = latest_id
      /\ cycles' = cycles /\ extended' = extended
  BY DEF Move
<1>2. DOMAIN dynamic_types' \subseteq DOMAIN dynamic_types
  BY DEF Move
<1>3. AllMapped /\ {Updated(u) : u \in Updates} = UNION {BoxesOf(Copied, records[p].dest) : p \in DOMAIN records}
  BY <1>1, MapsAll
<1>4. mem' = [a \in Addresses |->
                IF a \in base .. base + Space - 1 THEN Nil
                ELSE IF a \in {Updated(u) : u \in Updates} /\ HasRecord(Copied[a]) THEN Ptr(records[Copied[a][2]].dest)
                ELSE Copied[a]]
  BY DEF Move
<1>5. mem' = MovedMem
  BY <1>3, <1>4 DEF MovedMem
<1>6. /\ HeapOK(MovedMem, Space - base, top) /\ EvenSizes(MovedMem)
      /\ ObjectsOf(MovedMem) = {records[p].dest : p \in DOMAIN records}
  BY <1>1, MovedHeap
<1>7. HeapOK(mem', base', top') /\ EvenSizes(mem')
  BY <1>1, <1>5, <1>6
<1>8. \A s \in Slots : roots'[s] # Null => roots'[s] \in ObjectsOf(mem')
  <2> SUFFICES ASSUME NEW s \in Slots, roots'[s] # Null PROVE roots'[s] \in ObjectsOf(mem')
    OBVIOUS
  <2>1. roots[s] # Null /\ roots'[s] = records[roots[s]].dest
    BY <1>1 DEF MappedRoots
  <2>2. roots[s] \in DOMAIN records
    BY <1>1, <2>1, MarkFacts DEF MarkOK, Marked
  <2> QED BY <1>5, <1>6, <2>1, <2>2
<1>9. /\ base \in {0, Space} /\ Space \in Nat /\ Space - base \in Nat
      /\ top \in Nat /\ top % 8 = 0 /\ MarkOK
  BY <1>1, MarkFacts
<1>10. top <= (Space - base) + Space
  <2>1. HeapOK(mem, base, base + Space) /\ base \in Nat /\ DOMAIN records \in SUBSET ObjectsOf(mem)
    BY <1>1, MarkFacts DEF MarkOK
  <2>2. PICK bytes : bytes = Cardinality(BytesOf(mem, DOMAIN records))
    OBVIOUS
  <2>3. bytes \in Nat /\ bytes <= Space
    BY <2>1, <2>2, BytesBound
  <2>4. bytes = top - (Space - base)
    BY <1>9, <2>2 DEF MarkOK
  <2> QED BY <1>9, <2>3, <2>4
<1>11. base' \in {0, Space} /\ top' \in base' .. base' + Space
  <2>1. top >= Space - base
    BY <1>9 DEF MarkOK
  <2>2. Space - base \in {0, Space}
    BY <1>9
  <2> QED BY <1>1, <1>9, <1>10, <2>1, <2>2
<1>12. cycles' \in 0 .. MaxCycles /\ latest_id' \in Nat /\ DOMAIN dynamic_types' \subseteq 0 .. latest_id' - 1
  BY <1>1, <1>2 DEF IInv
<1> QED BY <1>1, <1>3, <1>7, <1>8, <1>9, <1>11, <1>12 DEF IInv

-----------------------------------------------------------------------------
(* The theorems. *)

\* Every step keeps the invariant.
LEMMA StepInv ==
  ASSUME NEW types \in SUBSET Descriptors, StaticTypes \subseteq types, Upright(types),
         IInv, [Next]_vars
  PROVE  IInv'
<1>1. CASE UNCHANGED vars
  BY <1>1 DEF vars, heapvars, typevars, cyclevars, IInv, MarkOK, Marked
<1>2. ASSUME NEW desc \in Registered, Register(desc) PROVE IInv'
  BY <1>2, RegisterInv
<1>3. ASSUME NEW s \in Slots, NEW desc \in StaticTypes, NEW len \in Lens, NEW extra \in Extras,
             Alloc(s, desc, len, extra)
      PROVE  IInv'
  BY <1>3, AllocInv
<1>4. ASSUME NEW s \in Slots, NEW r \in Slots, Store(s, r) PROVE IInv'
  BY <1>4, StoreInv
<1>5. ASSUME NEW s \in Slots, Clear(s) PROVE IInv'
  BY <1>5, ClearInv
<1>6. ASSUME NEW s \in Slots, DropRoot(s) PROVE IInv'
  BY <1>6, DropRootInv
<1>7. CASE StartCycle
  BY <1>7, StartCycleInv
<1>8. ASSUME NEW obj \in mark_stack, MarkObject(obj) PROVE IInv'
  BY <1>8, MarkObjectInv
<1>9. CASE Move
  BY <1>9, MoveInv
<1> QED BY <1>1, <1>2, <1>3, <1>4, <1>5, <1>6, <1>7, <1>8, <1>9 DEF Next

\* The invariant says what the type invariant says.
LEMMA InvTypeOK == IInv => TypeOK
<1> SUFFICES ASSUME IInv PROVE TypeOK
  OBVIOUS
<1>1. PICK high : HeapOK(mem, base, high) /\ high = IF gpc = "idle" THEN top ELSE base + Space
  BY DEF IInv
<1>2. /\ base \in {0, Space} /\ base \in Nat /\ Space \in Nat /\ top \in Nat /\ gpc \in {"idle", "mark"}
      /\ cycles \in 0 .. MaxCycles /\ DOMAIN dynamic_types \subseteq 0 .. latest_id - 1
      /\ (gpc = "idle" => top \in base .. base + Space /\ records = << >>)
      /\ failure \in {"none", "size", "wild", "record"}
  BY TypesAssumption DEF IInv
<1>3. DOMAIN mem = Addresses
  BY <1>1 DEF HeapOK
<1>4. high \in Nat /\ high <= base + Space
  BY <1>1, <1>2
<1>5. ASSUME NEW s \in Slots, roots[s] # Null
      PROVE  roots[s] \in base .. base + Space - 1 /\ IsObject(mem, roots[s])
  <2>1. PICK a \in ObjectsOf(mem) : a = roots[s]
    BY <1>5 DEF IInv
  <2>2. a \in Nat /\ SizeAt(mem, a) \in Nat /\ SizeAt(mem, a) >= 8
    BY <1>1, ObjectFacts
  <2>3. base <= a /\ a + SizeAt(mem, a) <= high
    BY <1>1 DEF HeapOK
  <2>4. a \in base .. base + Space - 1
    BY <1>2, <1>4, <2>2, <2>3
  <2> QED BY <2>1, <2>4 DEF ObjectsOf
<1>6. ASSUME NEW p \in DOMAIN records PROVE IsObject(mem, p) /\ records[p].dest \in Addresses
  <2>1. CASE gpc = "mark"
    BY <2>1, RecordFacts DEF ObjectsOf
  <2>2. CASE gpc = "idle"
    BY <1>2, <1>6, <2>2
  <2> QED BY <1>2, <2>1, <2>2
<1> QED BY <1>2, <1>3, <1>5, <1>6 DEF TypeOK

\* Objects, roots and records of the memory stay what they should be, whatever the
\* types, while no struct with parts that hold pointers lies further on in another.
THEOREM TypesTypeOK ==
  ASSUME NEW types \in SUBSET Descriptors, StaticTypes \subseteq types, Upright(types)
  PROVE  Spec => []TypeOK
<1>1. Init => IInv
  BY InitInv
<1>2. IInv /\ [Next]_vars => IInv'
  BY StepInv
<1>3. IInv => TypeOK
  BY InvTypeOK
<1> QED BY <1>1, <1>2, <1>3, PTL DEF Spec

\* Under the same condition the marker reads no word that is no pointer, every word
\* that is fixed has a record, and a cycle stops only because of extra bytes
\* (types.rs:162-188, mm/context.rs:32).
THEOREM TypesOnlyExtraFails ==
  ASSUME NEW types \in SUBSET Descriptors, StaticTypes \subseteq types, Upright(types)
  PROVE  Spec => []OnlyExtraFails
<1>1. Init => IInv
  BY InitInv
<1>2. IInv /\ [Next]_vars => IInv'
  BY StepInv
<1>3. IInv => OnlyExtraFails
  BY DEF IInv, OnlyExtraFails
<1> QED BY <1>1, <1>2, <1>3, PTL DEF Spec

\* The doc of iter_pointers is right of every object of such types, of any length:
\* iterating over it visits all its pointers and nothing else (types.rs:135).
THEOREM TypesVisitsPointers ==
  ASSUME NEW types \in SUBSET Descriptors, StaticTypes \subseteq types, Upright(types)
  PROVE  Spec => []VisitsPointers
<1>1. Init => IInv
  BY InitInv
<1>2. IInv /\ [Next]_vars => IInv'
  BY StepInv
<1>3. IInv => VisitsPointers
  <2> SUFFICES ASSUME IInv, NEW a \in base .. base + Space - 1, IsObject(mem, a)
               PROVE  ToSet(Visits(mem, a)) = {a + Metadata + o : o \in PointersOf(TypeAt(mem, a), LenAt(mem, a))}
    BY DEF VisitsPointers
  <2>1. PICK high : HeapOK(mem, base, high)
    BY DEF IInv
  <2>2. a \in ObjectsOf(mem)
    BY <2>1 DEF HeapOK, ObjectsOf, IsObject
  <2>3. a \in Nat /\ TypeAt(mem, a) \in StaticTypes /\ LenAt(mem, a) \in Nat
    BY <2>1, <2>2, ObjectFacts
  <2>4. PICK m : m = mem
    OBVIOUS
  <2>5. Range(Visits(m, a)) = BoxesOf(m, a)
    BY <2>3, <2>4, VisitsBoxes
  <2>6. ToSet(Visits(m, a)) = BoxesOf(m, a)
    BY <2>5 DEF ToSet, Range
  <2> QED BY <2>4, <2>6 DEF BoxesOf
<1> QED BY <1>1, <1>2, <1>3, PTL DEF Spec

-----------------------------------------------------------------------------
(* Paths, and where they lead. *)

\* What holds of the empty path, and of every path that is one step longer than one
\* of which it holds, holds of all paths.
LEMMA PathInduction ==
  ASSUME NEW S \in SUBSET Seq(Nat), <<>> \in S, \A path \in S, o \in Nat : Append(path, o) \in S
  PROVE  \A path \in Seq(Nat) : path \in S
<1> SUFFICES ASSUME NEW any \in Seq(Nat), any \notin S PROVE FALSE
  OBVIOUS
<1> DEFINE Bad == {Len(path) : path \in Seq(Nat) \ S}
<1>1. Bad \in SUBSET Nat /\ Bad # {}
  <2>1. \A path \in Seq(Nat) : Len(path) \in Nat
    OBVIOUS
  <2>2. Len(any) \in Bad
    OBVIOUS
  <2> QED BY <2>1, <2>2
<1>2. PICK n \in Bad : \A k \in Bad : n <= k
  <2> HIDE DEF Bad
  <2> QED BY <1>1, LeastOf
<1>3. PICK path \in Seq(Nat) \ S : Len(path) = n
  BY <1>2
<1>4. PICK q \in Seq(Nat), o \in Nat : path = Append(q, o)
  BY <1>3, SequenceEmptyOrAppend
<1>5. Len(q) \in Nat /\ n = Len(q) + 1
  BY <1>3, <1>4, LenProperties, AppendProperties
<1>6. q \in S
  <2>1. CASE q \notin S
    <3>1. Len(q) \in Bad
      BY <2>1
    <3>2. n <= Len(q)
      BY <1>2, <3>1
    <3> QED BY <1>5, <3>2
  <2> QED BY <2>1
<1> QED BY <1>3, <1>4, <1>6

\* A path has one last step.
LEMMA AppendSame ==
  ASSUME NEW s \in Seq(Nat), NEW t \in Seq(Nat), NEW e \in Nat, NEW f \in Nat, Append(s, e) = Append(t, f)
  PROVE  s = t /\ e = f
BY AppendInjective

\* A space and its objects, with all of its room.
HeapIn(m, low) == low \in {0, Space} /\ HeapOK(m, low, low + Space)

Offsets(m, a) == PointersOf(TypeAt(m, a), LenAt(m, a))
Way(path, a) == [path |-> path, word |-> Ptr(a)]

\* The boxes of an object, by their offsets.
LEMMA OffsetWords ==
  ASSUME NEW m, NEW low, HeapIn(m, low), NEW a \in ObjectsOf(m), NEW o \in Offsets(m, a)
  PROVE  /\ o \in Nat /\ o % 8 = 0 /\ a \in Nat /\ a + 8 + o \in BoxesOf(m, a) /\ a + 8 + o \in Addresses
         /\ o + 16 <= SizeAt(m, a)
         /\ WordAt(m, a + 8 + o) = m[a + 8 + o]
         /\ m[a + 8 + o] = Nil \/ \E c \in ObjectsOf(m) : m[a + 8 + o] = Ptr(c)
<1>1. HeapOK(m, low, low + Space) /\ low \in Nat /\ low + Space \in Nat /\ low + Space <= 2 * Space
  BY TypesAssumption DEF HeapIn
<1>2. /\ a \in Nat /\ TypeAt(m, a) \in Descriptors /\ LenAt(m, a) \in Nat
      /\ SizeAt(m, a) = DynamicSize(TypeAt(m, a), LenAt(m, a)) + 8
  BY <1>1, ObjectFacts
<1>3. DynamicSize(TypeAt(m, a), LenAt(m, a)) \in Nat
  BY <1>2, OffsetsBound
<1>4. o \in Nat /\ o % 8 = 0 /\ o + 8 <= DynamicSize(TypeAt(m, a), LenAt(m, a))
  BY <1>2, OffsetsBound DEF Offsets
<1>5. o + 16 <= SizeAt(m, a)
  BY <1>2, <1>3, <1>4
<1>6. PICK b : b = a + 8 + o
  OBVIOUS
<1>7. b \in BoxesOf(m, a)
  BY <1>6 DEF BoxesOf, Offsets, Metadata, Word
<1>8. b \in Addresses
  BY <1>1, <1>7, BoxesApart
<1>9. WordAt(m, b) = m[b] /\ (m[b] = Nil \/ \E c \in ObjectsOf(m) : m[b] = Ptr(c))
  BY <1>1, <1>7, <1>8 DEF HeapOK, WordAt
<1> QED BY <1>2, <1>4, <1>5, <1>6, <1>7, <1>8, <1>9

\* The ways on from an object lead to what its boxes refer to.
LEMMA OnwardFrom ==
  ASSUME NEW m, NEW low, HeapIn(m, low), NEW a \in ObjectsOf(m), NEW path
  PROVE  \A way : way \in Onward(m, Way(path, a)) <=>
           \E o \in Offsets(m, a), c \in ObjectsOf(m) : m[a + 8 + o] = Ptr(c) /\ way = Way(Append(path, o), c)
<1>1. Way(path, a).word = Ptr(a) /\ Way(path, a).path = path /\ Ptr(a)[1] = "ptr" /\ Ptr(a)[2] = a
  BY DEF Way, Ptr
<1>2. Refers(m, Ptr(a))
  BY <1>1 DEF Refers, ObjectsOf
<1>3. PICK filled : filled = {o \in Offsets(m, a) : WordAt(m, a + 8 + o) # Nil}
  OBVIOUS
<1>4. Onward(m, Way(path, a)) = {[path |-> Append(path, o), word |-> WordAt(m, a + 8 + o)] : o \in filled}
  BY <1>1, <1>2, <1>3 DEF Onward, Offsets, Metadata, Word
<1>5. \A o \in Offsets(m, a) : /\ WordAt(m, a + 8 + o) = m[a + 8 + o]
                               /\ m[a + 8 + o] = Nil \/ \E c \in ObjectsOf(m) : m[a + 8 + o] = Ptr(c)
  BY OffsetWords
<1>6. \A c : Ptr(c) # Nil
  BY DEF Ptr, Nil
<1>7. ASSUME NEW way \in Onward(m, Way(path, a))
      PROVE  \E o \in Offsets(m, a), c \in ObjectsOf(m) : m[a + 8 + o] = Ptr(c) /\ way = Way(Append(path, o), c)
  <2>1. PICK o \in filled : way = [path |-> Append(path, o), word |-> WordAt(m, a + 8 + o)]
    BY <1>4
  <2>2. o \in Offsets(m, a) /\ WordAt(m, a + 8 + o) # Nil
    BY <1>3
  <2>3. PICK c \in ObjectsOf(m) : WordAt(m, a + 8 + o) = Ptr(c) /\ m[a + 8 + o] = Ptr(c)
    BY <1>5, <2>2
  <2>4. way = Way(Append(path, o), c)
    BY <2>1, <2>3 DEF Way
  <2> QED BY <2>2, <2>3, <2>4
<1>8. ASSUME NEW o \in Offsets(m, a), NEW c \in ObjectsOf(m), m[a + 8 + o] = Ptr(c)
      PROVE  Way(Append(path, o), c) \in Onward(m, Way(path, a))
  <2>1. o \in filled /\ WordAt(m, a + 8 + o) = Ptr(c)
    BY <1>3, <1>5, <1>6, <1>8
  <2> QED BY <1>4, <2>1 DEF Way
<1> QED BY <1>7, <1>8

Steps(m) == [path : Seq(Nat), word : {Ptr(a) : a \in ObjectsOf(m)}]

\* A way is a path and an object.
LEMMA StepsAreWays ==
  ASSUME NEW m
  PROVE  /\ \A w \in Steps(m) : \E path \in Seq(Nat), a \in ObjectsOf(m) : w = Way(path, a)
         /\ \A path \in Seq(Nat), a \in ObjectsOf(m) : Way(path, a) \in Steps(m)
<1>1. ASSUME NEW w \in Steps(m) PROVE \E path \in Seq(Nat), a \in ObjectsOf(m) : w = Way(path, a)
  <2>1. w.path \in Seq(Nat) /\ w = [path |-> w.path, word |-> w.word] /\ \E a \in ObjectsOf(m) : w.word = Ptr(a)
    BY DEF Steps
  <2> QED BY <2>1 DEF Way
<1>2. \A path \in Seq(Nat), a \in ObjectsOf(m) : Way(path, a) \in Steps(m)
  BY DEF Way, Steps
<1> QED BY <1>1, <1>2

\* A way has one path and leads to one object.
LEMMA WaySame ==
  ASSUME NEW path, NEW q, NEW a, NEW c, Way(path, a) = Way(q, c)
  PROVE  path = q /\ a = c
<1>1. Way(path, a).path = path /\ Way(q, c).path = q /\ Way(path, a).word[2] = a /\ Way(q, c).word[2] = c
  BY DEF Way, Ptr
<1> QED BY <1>1

WaysBy(f, m, p, n) ==
  IF n = 0 THEN {Way(<<>>, p)} ELSE UNION {Onward(m, way) : way \in f[n - 1]}

\* The ways of each length are well defined: the equation that says them has a solution.
LEMMA WaysDef ==
  ASSUME NEW m, NEW low, HeapIn(m, low), NEW p \in ObjectsOf(m)
  PROVE  \A n \in Nat : Ways(m, p)[n] = WaysBy(Ways(m, p), m, p, n)
<1> DEFINE Closed(S) == Way(<<>>, p) \in S /\ \A w \in S : Onward(m, w) \subseteq S
           All == {w \in Steps(m) : \A S \in SUBSET Steps(m) : Closed(S) => w \in S}
           f == [n \in Nat |-> {w \in All : Len(w.path) = n}]
           Solution(g) == g = [n \in Nat |-> WaysBy(g, m, p, n)]
<1>1. \A w \in Steps(m) : \A v \in Onward(m, w) : v \in Steps(m) /\ Len(v.path) = Len(w.path) + 1
  <2> SUFFICES ASSUME NEW w \in Steps(m), NEW v \in Onward(m, w) PROVE v \in Steps(m) /\ Len(v.path) = Len(w.path) + 1
    OBVIOUS
  <2>1. PICK path \in Seq(Nat), a \in ObjectsOf(m) : w = Way(path, a)
    BY StepsAreWays
  <2>2. PICK o \in Offsets(m, a), c \in ObjectsOf(m) : v = Way(Append(path, o), c)
    BY <2>1, OnwardFrom
  <2>3. o \in Nat
    BY OffsetWords
  <2>4. Append(path, o) \in Seq(Nat) /\ Len(Append(path, o)) = Len(path) + 1
    BY <2>3
  <2>5. w.path = path /\ v.path = Append(path, o)
    BY <2>1, <2>2 DEF Way
  <2> QED BY <2>2, <2>4, <2>5, StepsAreWays
<1>2. Way(<<>>, p) \in Steps(m) /\ Way(<<>>, p).path = <<>>
  <2>1. <<>> \in Seq(Nat)
    OBVIOUS
  <2> QED BY <2>1, StepsAreWays DEF Way
<1>3. All \in SUBSET Steps(m) /\ Closed(All)
  <2>1. All \in SUBSET Steps(m) /\ Way(<<>>, p) \in All
    BY <1>2
  <2>2. ASSUME NEW w \in All, NEW v \in Onward(m, w) PROVE v \in All
    <3>1. w \in Steps(m) /\ v \in Steps(m)
      BY <1>1, <2>2
    <3> QED BY <2>2, <3>1
  <2> QED BY <2>1, <2>2
<1>4. \A S \in SUBSET Steps(m) : Closed(S) => All \subseteq S
  OBVIOUS
<1> HIDE DEF All
<1>5. ASSUME NEW w \in All, w # Way(<<>>, p) PROVE \E v \in All : w \in Onward(m, v)
  <2> DEFINE less == All \ {w}
  <2>1. CASE Closed(less)
    <3>1. less \in SUBSET Steps(m)
      BY <1>3
    <3>2. All \subseteq less
      BY <1>4, <2>1, <3>1
    <3> QED BY <3>2
  <2>2. CASE ~Closed(less)
    <3>1. Way(<<>>, p) \in less
      BY <1>3, <1>5
    <3>2. PICK v \in less : ~(Onward(m, v) \subseteq less)
      BY <2>2, <3>1
    <3>3. v \in All /\ Onward(m, v) \subseteq All
      BY <1>3, <3>2
    <3> QED BY <3>2, <3>3
  <2> QED BY <2>1, <2>2
<1>6. \A w \in All : Len(w.path) \in Nat /\ (Len(w.path) = 0 <=> w = Way(<<>>, p))
  <2>0. ASSUME NEW w \in All PROVE Len(w.path) \in Nat
    <3>1. w.path \in Seq(Nat)
      BY <1>3 DEF Steps
    <3> QED BY <3>1
  <2>1. ASSUME NEW w \in All, w # Way(<<>>, p) PROVE Len(w.path) # 0
    <3>1. PICK v \in All : w \in Onward(m, v)
      BY <1>5, <2>1
    <3>2. Len(w.path) = Len(v.path) + 1
      BY <1>1, <1>3, <3>1
    <3> QED BY <2>0, <3>2
  <2>2. Len(Way(<<>>, p).path) = 0
    BY <1>2
  <2> QED BY <2>0, <2>1, <2>2
<1>7. f[0] = WaysBy(f, m, p, 0)
  BY <1>3, <1>6 DEF WaysBy
<1>8. ASSUME NEW n \in Nat, n # 0 PROVE f[n] = WaysBy(f, m, p, n)
  <2>1. n - 1 \in Nat
    BY <1>8
  <2>2. WaysBy(f, m, p, n) = UNION {Onward(m, way) : way \in f[n - 1]}
    BY <1>8 DEF WaysBy
  <2>3. ASSUME NEW w \in f[n] PROVE \E v \in f[n - 1] : w \in Onward(m, v)
    <3>1. w \in All /\ Len(w.path) = n
      BY <2>3
    <3>2. PICK v \in All : w \in Onward(m, v)
      BY <1>5, <1>6, <1>8, <3>1
    <3>3. Len(w.path) = Len(v.path) + 1
      BY <1>1, <1>3, <3>2
    <3>4. Len(v.path) = n - 1
      BY <1>6, <3>1, <3>3
    <3> QED BY <2>1, <3>2, <3>4
  <2>4. ASSUME NEW v \in f[n - 1], NEW w \in Onward(m, v) PROVE w \in f[n]
    <3>1. v \in All /\ Len(v.path) = n - 1
      BY <2>1, <2>4
    <3>2. w \in All /\ Len(w.path) = Len(v.path) + 1
      BY <1>1, <1>3, <2>4, <3>1
    <3>3. Len(w.path) = n
      BY <3>1, <3>2
    <3> QED BY <3>2, <3>3
  <2> HIDE DEF f
  <2> QED BY <2>2, <2>3, <2>4
<1>9. Solution(f)
  <2>1. \A n \in Nat : f[n] = WaysBy(f, m, p, n)
    BY <1>7, <1>8
  <2>2. f = [n \in Nat |-> f[n]]
    OBVIOUS
  <2> HIDE DEF f
  <2> QED BY <2>1, <2>2
<1>10. Ways(m, p) = CHOOSE g : Solution(g)
  BY DEF Ways, WaysBy, Way
<1>11. Solution(Ways(m, p))
  <2> HIDE DEF Solution, f
  <2> QED BY <1>9, <1>10, Zenon
<1> QED BY <1>11, Zenon

Leads(m, p, path, a) ==
  path \in Seq(Nat) /\ a \in ObjectsOf(m) /\ Way(path, a) \in Ways(m, p)[Len(path)]

\* The ways of a length lead to objects.
LEMMA WaysTyped ==
  ASSUME NEW m, NEW low, HeapIn(m, low), NEW p \in ObjectsOf(m)
  PROVE  \A n \in Nat : \A w \in Ways(m, p)[n] :
           \E path \in Seq(Nat), a \in ObjectsOf(m) : w = Way(path, a) /\ Len(path) = n
<1> DEFINE Typed(n) == \A w \in Ways(m, p)[n] :
                         \E path \in Seq(Nat), a \in ObjectsOf(m) : w = Way(path, a) /\ Len(path) = n
           Bad == {n \in Nat : ~Typed(n)}
<1> SUFFICES ASSUME NEW any \in Nat, ~Typed(any) PROVE FALSE
  OBVIOUS
<1>1. Bad \in SUBSET Nat /\ Bad # {}
  OBVIOUS
<1>2. PICK n \in Bad : \A k \in Bad : n <= k
  <2> HIDE DEF Bad
  <2> QED BY <1>1, LeastOf
<1>3. PICK ways : ways = Ways(m, p)
  OBVIOUS
<1>4. ways[n] = WaysBy(ways, m, p, n) /\ n \in Nat
  BY <1>3, WaysDef
<1>5. n # 0
  <2> SUFFICES ASSUME n = 0 PROVE FALSE
    OBVIOUS
  <2>1. ways[n] = {Way(<<>>, p)}
    BY <1>4 DEF WaysBy
  <2>2. <<>> \in Seq(Nat) /\ Len(<<>>) = 0
    OBVIOUS
  <2>3. Typed(n)
    BY <1>3, <2>1, <2>2
  <2> QED BY <1>2, <2>3
<1>6. n - 1 \in Nat /\ ways[n] = UNION {Onward(m, way) : way \in ways[n - 1]}
  BY <1>4, <1>5 DEF WaysBy
<1>7. Typed(n - 1)
  <2>1. CASE n - 1 \in Bad
    <3>1. n <= n - 1
      BY <1>2, <2>1
    <3> QED BY <1>6, <3>1
  <2>2. CASE n - 1 \notin Bad
    BY <1>6, <2>2
  <2> QED BY <2>1, <2>2
<1>8. ASSUME NEW w \in ways[n]
      PROVE  \E path \in Seq(Nat), a \in ObjectsOf(m) : w = Way(path, a) /\ Len(path) = n
  <2>1. PICK v \in ways[n - 1] : w \in Onward(m, v)
    BY <1>6
  <2>2. PICK path \in Seq(Nat), a \in ObjectsOf(m) : v = Way(path, a) /\ Len(path) = n - 1
    BY <1>3, <1>7, <2>1
  <2>3. PICK o \in Offsets(m, a), c \in ObjectsOf(m) : w = Way(Append(path, o), c)
    BY <2>1, <2>2, OnwardFrom
  <2>4. o \in Nat
    BY <2>3, OffsetWords
  <2>5. Append(path, o) \in Seq(Nat) /\ Len(Append(path, o)) = n
    BY <1>6, <2>2, <2>4
  <2> QED BY <2>3, <2>5
<1> QED BY <1>2, <1>3, <1>8

\* The empty path leads to the object itself.
LEMMA LeadsStart ==
  ASSUME NEW m, NEW low, HeapIn(m, low), NEW p \in ObjectsOf(m)
  PROVE  \A a : Leads(m, p, <<>>, a) <=> a = p
<1>1. <<>> \in Seq(Nat) /\ Len(<<>>) = 0
  OBVIOUS
<1>2. Ways(m, p)[0] = {Way(<<>>, p)}
  <2>1. Ways(m, p)[0] = WaysBy(Ways(m, p), m, p, 0)
    BY WaysDef
  <2> QED BY <2>1 DEF WaysBy
<1>3. \A a : Way(<<>>, a) = Way(<<>>, p) => a = p
  BY WaySame, Zenon
<1> QED BY <1>1, <1>2, <1>3 DEF Leads

\* A path leads to what the box at its last step refers to.
LEMMA LeadsOn ==
  ASSUME NEW m, NEW low, HeapIn(m, low), NEW p \in ObjectsOf(m), NEW path \in Seq(Nat), NEW o \in Nat
  PROVE  \A a : Leads(m, p, Append(path, o), a) <=>
           a \in ObjectsOf(m) /\ \E c \in ObjectsOf(m) : Leads(m, p, path, c) /\ o \in Offsets(m, c) /\ m[c + 8 + o] = Ptr(a)
<1>1. PICK n \in Nat : n = Len(path)
  OBVIOUS
<1>2. Append(path, o) \in Seq(Nat) /\ Len(Append(path, o)) = n + 1
  BY <1>1
<1>3. PICK ways : ways = Ways(m, p)
  OBVIOUS
<1>4. ways[n + 1] = UNION {Onward(m, way) : way \in ways[n]}
  <2>1. n + 1 \in Nat /\ n + 1 # 0 /\ (n + 1) - 1 = n
    OBVIOUS
  <2>2. ways[n + 1] = WaysBy(ways, m, p, n + 1)
    BY <1>3, <2>1, WaysDef
  <2> QED BY <2>1, <2>2 DEF WaysBy
<1>5. ASSUME NEW a, Leads(m, p, Append(path, o), a)
      PROVE  a \in ObjectsOf(m) /\ \E c \in ObjectsOf(m) : Leads(m, p, path, c) /\ o \in Offsets(m, c) /\ m[c + 8 + o] = Ptr(a)
  <2>1. Way(Append(path, o), a) \in ways[n + 1] /\ a \in ObjectsOf(m)
    BY <1>2, <1>3, <1>5 DEF Leads
  <2>2. PICK v \in ways[n] : Way(Append(path, o), a) \in Onward(m, v)
    BY <1>4, <2>1
  <2>3. PICK q \in Seq(Nat), c \in ObjectsOf(m) : v = Way(q, c) /\ Len(q) = n
    BY <1>3, WaysTyped
  <2>4. PICK o2 \in Offsets(m, c), a2 \in ObjectsOf(m) : m[c + 8 + o2] = Ptr(a2) /\ Way(Append(path, o), a) = Way(Append(q, o2), a2)
    BY <2>2, <2>3, OnwardFrom
  <2>5. o2 \in Nat
    BY OffsetWords
  <2>6. Append(path, o) = Append(q, o2) /\ a = a2
    <3>1. PICK s, t : s = Append(path, o) /\ t = Append(q, o2)
      OBVIOUS
    <3>2. Way(s, a) = Way(t, a2)
      BY <2>4, <3>1
    <3>3. Way(s, a).path = s /\ Way(s, a).word = Ptr(a) /\ Way(t, a2).path = t /\ Way(t, a2).word = Ptr(a2)
      BY DEF Way
    <3>4. Ptr(a) = Ptr(a2) => a = a2
      BY DEF Ptr
    <3> QED BY <3>1, <3>2, <3>3, <3>4
  <2>7. path = q /\ o = o2
    BY <2>3, <2>5, <2>6, AppendSame
  <2>8. Leads(m, p, path, c)
    BY <1>1, <1>3, <2>2, <2>3, <2>7 DEF Leads
  <2> QED BY <2>1, <2>4, <2>6, <2>7, <2>8
<1>6. ASSUME NEW a \in ObjectsOf(m), NEW c \in ObjectsOf(m), Leads(m, p, path, c), o \in Offsets(m, c), m[c + 8 + o] = Ptr(a)
      PROVE  Leads(m, p, Append(path, o), a)
  <2>1. Way(path, c) \in ways[n]
    BY <1>1, <1>3, <1>6 DEF Leads
  <2>2. Way(Append(path, o), a) \in Onward(m, Way(path, c))
    BY <1>6, OnwardFrom
  <2>3. Way(Append(path, o), a) \in ways[n + 1]
    BY <1>4, <2>1, <2>2
  <2> QED BY <1>2, <1>3, <2>3 DEF Leads
<1> QED BY <1>5, <1>6

\* Words of an object that are not its boxes.
PlainOf(m, a) == {o \in 0 .. DynamicSize(TypeAt(m, a), LenAt(m, a)) - 1 : o % Word = 0} \ Offsets(m, a)

\* What is referred to is referred to once, by a root or by a box.
Single(m, r) ==
  /\ \A s, t \in Slots : r[s] = r[t] /\ r[s] # Null => s = t
  /\ \A a, c \in ObjectsOf(m) : \A o \in Offsets(m, a), e \in Offsets(m, c) :
       m[a + 8 + o] = m[c + 8 + e] /\ m[a + 8 + o] # Nil => a = c /\ o = e
  /\ \A s \in Slots : \A a \in ObjectsOf(m) : \A o \in Offsets(m, a) : r[s] # Null => m[a + 8 + o] # Ptr(r[s])

Intact(m) == \A a \in ObjectsOf(m) : \A o \in PlainOf(m, a) : WordAt(m, a + 8 + o) # Nil

Forest(m, r, low) ==
  /\ HeapIn(m, low) /\ Single(m, r) /\ Intact(m)
  /\ \A s \in Slots : r[s] # Null => r[s] \in ObjectsOf(m)

\* A box lies in one object.
LEMMA OneBox ==
  ASSUME NEW m, NEW low, HeapIn(m, low), NEW a \in ObjectsOf(m), NEW c \in ObjectsOf(m),
         NEW o \in Offsets(m, a), NEW e \in Offsets(m, c), a + 8 + o = c + 8 + e
  PROVE  a = c /\ o = e
<1>1. HeapOK(m, low, low + Space)
  BY DEF HeapIn
<1>2. /\ o \in Nat /\ a \in Nat /\ o + 16 <= SizeAt(m, a)
      /\ e \in Nat /\ c \in Nat /\ e + 16 <= SizeAt(m, c)
  BY OffsetWords
<1>3. SizeAt(m, a) \in Nat /\ SizeAt(m, c) \in Nat
  BY <1>1, ObjectFacts
<1>4. PICK x \in Nat : x = a + 8 + o /\ x = c + 8 + e
  BY <1>2
<1>5. a <= x /\ x < a + SizeAt(m, a) /\ c <= x /\ x < c + SizeAt(m, c)
  BY <1>2, <1>3, <1>4
<1>6. a = c
  BY <1>1, <1>4, <1>5, SameObject
<1> QED BY <1>2, <1>4, <1>6

\* A path leads from a root to one object.
LEMMA OneObject ==
  ASSUME NEW m, NEW low, HeapIn(m, low), NEW p \in ObjectsOf(m)
  PROVE  \A path \in Seq(Nat) : \A a, c : Leads(m, p, path, a) /\ Leads(m, p, path, c) => a = c
<1> DEFINE S == {path \in Seq(Nat) : \A a, c : Leads(m, p, path, a) /\ Leads(m, p, path, c) => a = c}
<1>1. <<>> \in S
  <2>1. \A a : Leads(m, p, <<>>, a) <=> a = p
    BY LeadsStart
  <2>2. <<>> \in Seq(Nat)
    OBVIOUS
  <2> QED BY <2>1, <2>2
<1>2. ASSUME NEW path \in S, NEW o \in Nat PROVE Append(path, o) \in S
  <2>1. path \in Seq(Nat) /\ Append(path, o) \in Seq(Nat)
    OBVIOUS
  <2>2. \A a : Leads(m, p, Append(path, o), a) <=>
          a \in ObjectsOf(m) /\ \E c \in ObjectsOf(m) : Leads(m, p, path, c) /\ o \in Offsets(m, c) /\ m[c + 8 + o] = Ptr(a)
    BY <2>1, LeadsOn
  <2>3. ASSUME NEW a, NEW c, Leads(m, p, Append(path, o), a), Leads(m, p, Append(path, o), c) PROVE a = c
    <3>1. PICK d \in ObjectsOf(m) : Leads(m, p, path, d) /\ m[d + 8 + o] = Ptr(a)
      BY <2>2, <2>3
    <3>2. PICK e \in ObjectsOf(m) : Leads(m, p, path, e) /\ m[e + 8 + o] = Ptr(c)
      BY <2>2, <2>3
    <3>3. d = e
      BY <3>1, <3>2
    <3>4. Ptr(a) = Ptr(c)
      BY <3>1, <3>2, <3>3
    <3> QED BY <3>4 DEF Ptr
  <2> QED BY <2>1, <2>3
<1>3. S \in SUBSET Seq(Nat)
  OBVIOUS
<1>4. \A path \in Seq(Nat) : path \in S
  <2> HIDE DEF S
  <2> QED BY <1>1, <1>2, <1>3, PathInduction
<1> QED BY <1>4

\* The last step to an object is a box that refers to it.
LEMMA LastStep ==
  ASSUME NEW m, NEW low, HeapIn(m, low), NEW p \in ObjectsOf(m), NEW path \in Seq(Nat), NEW o \in Nat,
         NEW a, Leads(m, p, Append(path, o), a)
  PROVE  a \in ObjectsOf(m) /\ \E c \in ObjectsOf(m) : Leads(m, p, path, c) /\ o \in Offsets(m, c) /\ m[c + 8 + o] = Ptr(a)
BY LeadsOn, Zenon

\* An object is on one path, and from one root: the forest of the program's values.
LEMMA OnePath ==
  ASSUME NEW m, NEW r, NEW low, Forest(m, r, low)
  PROVE  \A path, q \in Seq(Nat) : \A a : \A s, t \in Slots :
           r[s] # Null /\ r[t] # Null /\ Leads(m, r[s], path, a) /\ Leads(m, r[t], q, a) => s = t /\ path = q
<1> DEFINE S == {path \in Seq(Nat) : \A q \in Seq(Nat) : \A a : \A s, t \in Slots :
                   r[s] # Null /\ r[t] # Null /\ Leads(m, r[s], path, a) /\ Leads(m, r[t], q, a) => s = t /\ path = q}
<1>1. HeapIn(m, low) /\ \A s \in Slots : r[s] # Null => r[s] \in ObjectsOf(m)
  BY DEF Forest
<1>2. \A s, t \in Slots : r[s] = r[t] /\ r[s] # Null => s = t
  BY DEF Forest, Single
<1>3. \A a, c \in ObjectsOf(m) : \A o \in Offsets(m, a), e \in Offsets(m, c) :
        m[a + 8 + o] = m[c + 8 + e] /\ m[a + 8 + o] # Nil => a = c /\ o = e
  BY DEF Forest, Single
<1>4. \A s \in Slots : \A a \in ObjectsOf(m) : \A o \in Offsets(m, a) : r[s] # Null => m[a + 8 + o] # Ptr(r[s])
  BY DEF Forest, Single
<1>5. \A s \in Slots : r[s] # Null => \A a : Leads(m, r[s], <<>>, a) <=> a = r[s]
  BY <1>1, LeadsStart
<1>6. \A q \in Seq(Nat) : q = <<>> \/ \E path \in Seq(Nat), o \in Nat : q = Append(path, o)
  BY SequenceEmptyOrAppend
<1>7. <<>> \in S
  <2> SUFFICES ASSUME NEW q \in Seq(Nat), NEW a, NEW s \in Slots, NEW t \in Slots, r[s] # Null, r[t] # Null,
                      Leads(m, r[s], <<>>, a), Leads(m, r[t], q, a)
               PROVE  s = t /\ <<>> = q
    OBVIOUS
  <2>1. a = r[s]
    BY <1>5
  <2>2. CASE q = <<>>
    BY <1>2, <1>5, <2>1, <2>2
  <2>3. ASSUME NEW path \in Seq(Nat), NEW o \in Nat, q = Append(path, o) PROVE FALSE
    <3>0. Leads(m, r[t], Append(path, o), a)
      BY <2>3
    <3>1. PICK c \in ObjectsOf(m) : o \in Offsets(m, c) /\ m[c + 8 + o] = Ptr(a)
      BY <1>1, <3>0, LastStep
    <3> QED BY <1>4, <2>1, <3>1
  <2> QED BY <1>6, <2>2, <2>3
<1>8. ASSUME NEW path \in S, NEW o \in Nat PROVE Append(path, o) \in S
  <2>0. path \in Seq(Nat) /\ Append(path, o) \in Seq(Nat)
    OBVIOUS
  <2>00. \A q \in Seq(Nat) : \A a : \A s, t \in Slots :
           r[s] # Null /\ r[t] # Null /\ Leads(m, r[s], path, a) /\ Leads(m, r[t], q, a) => s = t /\ path = q
    OBVIOUS
  <2> SUFFICES ASSUME NEW q \in Seq(Nat), NEW a, NEW s \in Slots, NEW t \in Slots, r[s] # Null, r[t] # Null,
                      Leads(m, r[s], Append(path, o), a), Leads(m, r[t], q, a)
               PROVE  s = t /\ Append(path, o) = q
    BY <2>0
  <2> HIDE DEF S
  <2>1. PICK c \in ObjectsOf(m) : Leads(m, r[s], path, c) /\ o \in Offsets(m, c) /\ m[c + 8 + o] = Ptr(a)
    BY <1>1, <2>0, LastStep
  <2>2. CASE q = <<>>
    <3>1. a = r[t]
      BY <1>5, <2>2
    <3> QED BY <1>4, <2>1, <3>1
  <2>3. ASSUME NEW before \in Seq(Nat), NEW e \in Nat, q = Append(before, e) PROVE s = t /\ Append(path, o) = q
    <3>0. Leads(m, r[t], Append(before, e), a)
      BY <2>3
    <3>1. PICK d \in ObjectsOf(m) : Leads(m, r[t], before, d) /\ e \in Offsets(m, d) /\ m[d + 8 + e] = Ptr(a)
      BY <1>1, <3>0, LastStep
    <3>2. Ptr(a) # Nil
      BY DEF Ptr, Nil
    <3>3. c = d /\ o = e
      BY <1>3, <2>1, <3>1, <3>2
    <3>4. s = t /\ path = before
      BY <2>00, <2>1, <3>1, <3>3
    <3> QED BY <2>3, <3>3, <3>4
  <2> QED BY <1>6, <2>2, <2>3
<1>9. S \in SUBSET Seq(Nat)
  OBVIOUS
<1>10. \A path \in Seq(Nat) : path \in S
  <2> HIDE DEF S
  <2> QED BY <1>7, <1>8, <1>9, PathInduction
<1> QED BY <1>10

\* The same, of two paths.
LEMMA SamePath ==
  ASSUME NEW m, NEW r, NEW low, Forest(m, r, low), NEW s \in Slots, NEW t \in Slots, r[s] # Null, r[t] # Null,
         NEW path, NEW q, NEW a, Leads(m, r[s], path, a), Leads(m, r[t], q, a)
  PROVE  s = t /\ path = q
<1>1. path \in Seq(Nat) /\ q \in Seq(Nat)
  BY DEF Leads
<1> QED BY <1>1, OnePath

\* A box that refers to an object leads on to it.
LEMMA NextStep ==
  ASSUME NEW m, NEW low, HeapIn(m, low), NEW p \in ObjectsOf(m), NEW path, NEW c, Leads(m, p, path, c),
         NEW o \in Offsets(m, c), NEW a \in ObjectsOf(m), m[c + 8 + o] = Ptr(a)
  PROVE  /\ path \in Seq(Nat) /\ o \in Nat /\ Append(path, o) \in Seq(Nat) /\ c \in ObjectsOf(m)
         /\ Leads(m, p, Append(path, o), a)
<1>1. path \in Seq(Nat) /\ c \in ObjectsOf(m)
  BY DEF Leads
<1>2. o \in Nat
  BY <1>1, OffsetWords
<1>3. Leads(m, p, Append(path, o), a) <=>
        a \in ObjectsOf(m) /\ \E d \in ObjectsOf(m) : Leads(m, p, path, d) /\ o \in Offsets(m, d) /\ m[d + 8 + o] = Ptr(a)
  BY <1>1, <1>2, LeadsOn
<1>4. Leads(m, p, Append(path, o), a)
  BY <1>1, <1>3
<1> QED BY <1>1, <1>2, <1>4

\* No path is longer than a space has room for: each object that it leaves has a
\* header and a box, and none is left twice.
LEMMA LeadsBound ==
  ASSUME NEW m, NEW r, NEW low, Forest(m, r, low), NEW s \in Slots, r[s] # Null
  PROVE  \A path \in Seq(Nat) : \A a : Leads(m, r[s], path, a) => 16 * Len(path) <= Space
<1> DEFINE Left(path, C) ==
             /\ C \in SUBSET ObjectsOf(m)
             /\ \A c \in C : \E q \in Seq(Nat) : Leads(m, r[s], q, c) /\ Len(q) < Len(path)
             /\ Cardinality(BytesOf(m, C)) >= 16 * Len(path)
           S == {path \in Seq(Nat) : (\E a : Leads(m, r[s], path, a)) => \E C : Left(path, C)}
<1>1. HeapIn(m, low) /\ r[s] \in ObjectsOf(m)
  BY DEF Forest
<1>2. HeapOK(m, low, low + Space) /\ low \in Nat /\ Space \in Nat
  BY <1>1, TypesAssumption DEF HeapIn
<1>3. <<>> \in S
  <2>1. BytesOf(m, {}) = {}
    BY DEF BytesOf
  <2>2. Cardinality({}) = 0
    BY FS_EmptySet
  <2>3. <<>> \in Seq(Nat) /\ Len(<<>>) = 0
    OBVIOUS
  <2>4. Left(<<>>, {})
    BY <2>1, <2>2, <2>3
  <2> QED BY <2>3, <2>4
<1>4. ASSUME NEW path \in S, NEW o \in Nat PROVE Append(path, o) \in S
  <2>1. path \in Seq(Nat) /\ ((\E a : Leads(m, r[s], path, a)) => \E C : Left(path, C))
    OBVIOUS
  <2>2. PICK n \in Nat : n = Len(path)
    BY <2>1
  <2>3. Append(path, o) \in Seq(Nat) /\ Len(Append(path, o)) = n + 1
    BY <2>1, <2>2
  <2> SUFFICES ASSUME NEW a, Leads(m, r[s], Append(path, o), a) PROVE \E C : Left(Append(path, o), C)
    BY <2>3
  <2> HIDE DEF S
  <2>4. PICK c \in ObjectsOf(m) : Leads(m, r[s], path, c) /\ o \in Offsets(m, c)
    BY <1>1, <2>1, LastStep
  <2>5. PICK C : Left(path, C)
    BY <2>1, <2>4
  <2>6. /\ C \in SUBSET ObjectsOf(m)
        /\ \A d \in C : \E q \in Seq(Nat) : Leads(m, r[s], q, d) /\ Len(q) < n
        /\ Cardinality(BytesOf(m, C)) >= 16 * n
    BY <2>2, <2>5
  <2>7. c \notin C
    <3> SUFFICES ASSUME c \in C PROVE FALSE
      OBVIOUS
    <3>1. PICK q \in Seq(Nat) : Leads(m, r[s], q, c) /\ Len(q) < n
      BY <2>6
    <3>2. q = path
      BY <2>4, <3>1, SamePath
    <3> QED BY <2>2, <3>1, <3>2
  <2>8. Cardinality(BytesOf(m, C \cup {c})) = Cardinality(BytesOf(m, C)) + SizeAt(m, c)
    BY <1>2, <2>6, <2>7, BytesAdded
  <2>9. SizeAt(m, c) \in Nat /\ SizeAt(m, c) >= 16
    <3>1. SizeAt(m, c) \in Nat
      BY <1>2, ObjectFacts
    <3>2. o + 16 <= SizeAt(m, c)
      BY <1>1, <2>4, OffsetWords
    <3> QED BY <3>1, <3>2
  <2>10. Cardinality(BytesOf(m, C)) \in Nat
    BY <1>2, <2>6, BytesBound
  <2>11. Cardinality(BytesOf(m, C \cup {c})) >= 16 * (n + 1)
    BY <2>6, <2>8, <2>9, <2>10
  <2>12. \A d \in C \cup {c} : \E q \in Seq(Nat) : Leads(m, r[s], q, d) /\ Len(q) < n + 1
    <3>1. \A d \in C : \E q \in Seq(Nat) : Leads(m, r[s], q, d) /\ Len(q) < n + 1
      <4> SUFFICES ASSUME NEW d \in C PROVE \E q \in Seq(Nat) : Leads(m, r[s], q, d) /\ Len(q) < n + 1
        OBVIOUS
      <4>1. PICK q \in Seq(Nat) : Leads(m, r[s], q, d) /\ Len(q) < n
        BY <2>6
      <4>2. Len(q) \in Nat
        OBVIOUS
      <4> QED BY <4>1, <4>2
    <3>2. Len(path) < n + 1
      BY <2>2
    <3> QED BY <2>1, <2>4, <3>1, <3>2
  <2>13. Left(Append(path, o), C \cup {c})
    BY <2>3, <2>6, <2>11, <2>12
  <2> QED BY <2>13
<1>5. S \in SUBSET Seq(Nat)
  OBVIOUS
<1>6. \A path \in Seq(Nat) : path \in S
  <2> HIDE DEF S
  <2> QED BY <1>3, <1>4, <1>5, PathInduction
<1> SUFFICES ASSUME NEW path \in Seq(Nat), NEW a, Leads(m, r[s], path, a) PROVE 16 * Len(path) <= Space
  OBVIOUS
<1>7. PICK C : Left(path, C)
  BY <1>6
<1>8. Cardinality(BytesOf(m, C)) \in Nat /\ Cardinality(BytesOf(m, C)) <= Space
  BY <1>2, <1>7, BytesBound
<1>9. Len(path) \in Nat
  OBVIOUS
<1> QED BY <1>2, <1>7, <1>8, <1>9

NodeWith(path, type, len, boxes) == [path |-> path, type |-> type, len |-> len, boxes |-> boxes, intact |-> TRUE]
NodeOf(m, path, a) == NodeWith(path, TypeAt(m, a), LenAt(m, a), Offsets(m, a))

ValueHas(m, p) ==
  \A x : x \in ValueAt(m, p) <=> \E path \in Seq(Nat), a \in ObjectsOf(m) : Leads(m, p, path, a) /\ x = NodeOf(m, path, a)

\* The value of a root: a node for each path that leads somewhere.
LEMMA ValueNodes ==
  ASSUME NEW m, NEW r, NEW low, Forest(m, r, low), NEW s \in Slots, r[s] # Null
  PROVE  ValueHas(m, r[s])
<1>1. HeapIn(m, low) /\ r[s] \in ObjectsOf(m)
  BY DEF Forest
<1>2. PICK p \in ObjectsOf(m) : p = r[s]
  BY <1>1
<1>3. PICK longest : longest = Space \div 16
  OBVIOUS
<1>4. \A k \in Nat : 16 * k <= Space => k \in 0 .. longest
  BY <1>3, TypesAssumption
<1>5. \A n \in 0 .. longest : n \in Nat
  OBVIOUS
<1>6. PICK ways : ways = Ways(m, p)
  OBVIOUS
<1>7. ValueAt(m, p) = {Node(m, way.path, way.word) : way \in UNION {ways[n] : n \in 0 .. longest}}
  BY <1>2, <1>3, <1>6 DEF ValueAt, Word
<1>8. \A path : \A a \in ObjectsOf(m) : Node(m, path, Ptr(a)) = NodeOf(m, path, a)
  <2> SUFFICES ASSUME NEW path, NEW a \in ObjectsOf(m) PROVE Node(m, path, Ptr(a)) = NodeOf(m, path, a)
    OBVIOUS
  <2>1. Refers(m, Ptr(a)) /\ Ptr(a)[2] = a
    BY DEF Refers, ObjectsOf, Ptr
  <2>2. (\A o \in PlainOf(m, a) : WordAt(m, a + Metadata + o) # Nil) = TRUE
    BY DEF Forest, Intact, Metadata, Word
  <2>3. Node(m, path, Ptr(a)) =
          [path |-> path, type |-> TypeAt(m, a), len |-> LenAt(m, a), boxes |-> Offsets(m, a),
           intact |-> \A o \in PlainOf(m, a) : WordAt(m, a + Metadata + o) # Nil]
    BY <2>1 DEF Node, Offsets, PlainOf
  <2> QED BY <2>2, <2>3 DEF NodeOf, NodeWith
<1>9. ASSUME NEW x \in ValueAt(m, p)
      PROVE  \E path \in Seq(Nat), a \in ObjectsOf(m) : Leads(m, p, path, a) /\ x = NodeOf(m, path, a)
  <2>1. PICK n \in 0 .. longest : \E way \in ways[n] : x = Node(m, way.path, way.word)
    BY <1>7
  <2>2. PICK way \in ways[n] : x = Node(m, way.path, way.word)
    BY <2>1
  <2>3. n \in Nat
    BY <1>5
  <2>4. PICK path \in Seq(Nat), a \in ObjectsOf(m) : way = Way(path, a) /\ Len(path) = n
    BY <1>1, <1>6, <2>3, WaysTyped
  <2>5. Leads(m, p, path, a)
    BY <1>6, <2>4 DEF Leads
  <2>6. way.path = path /\ way.word = Ptr(a)
    BY <2>4 DEF Way
  <2> QED BY <1>8, <2>2, <2>5, <2>6
<1>10. ASSUME NEW path \in Seq(Nat), NEW a \in ObjectsOf(m), Leads(m, p, path, a)
       PROVE  NodeOf(m, path, a) \in ValueAt(m, p)
  <2>1. PICK n \in 0 .. longest : n = Len(path)
    <3>1. Len(path) \in Nat /\ 16 * Len(path) <= Space
      BY <1>2, <1>10, LeadsBound
    <3> QED BY <1>4, <3>1
  <2>2. Way(path, a) \in ways[n]
    BY <1>6, <1>10, <2>1 DEF Leads
  <2>3. Way(path, a).path = path /\ Way(path, a).word = Ptr(a)
    BY DEF Way
  <2>4. Node(m, path, Ptr(a)) \in ValueAt(m, p)
    BY <1>7, <2>2, <2>3
  <2> QED BY <1>8, <2>4
<1> QED BY <1>2, <1>9, <1>10 DEF ValueHas

\* In n there is an image of every object of C in m, with the same boxes, which
\* refer to the images of what those of the object refer to.
Image(f, C, m, n) ==
  /\ C \in SUBSET ObjectsOf(m)
  /\ \A a \in C :
       /\ f[a] \in ObjectsOf(n) /\ TypeAt(n, f[a]) = TypeAt(m, a) /\ LenAt(n, f[a]) = LenAt(m, a)
       /\ \A o \in Offsets(m, a) :
            \/ m[a + 8 + o] = Nil /\ n[f[a] + 8 + o] = Nil
            \/ \E c \in C : m[a + 8 + o] = Ptr(c) /\ n[f[a] + 8 + o] = Ptr(f[c])

Follows(f, C, m, n, p, path) ==
  /\ \A a : Leads(m, p, path, a) => a \in C /\ Leads(n, f[p], path, f[a])
  /\ \A b : Leads(n, f[p], path, b) => \E a \in C : Leads(m, p, path, a) /\ b = f[a]

\* Paths lead from the image of an object to the images of what they lead to from it.
LEMMA ImagePaths ==
  ASSUME NEW m, NEW low, HeapIn(m, low), NEW n, NEW high, HeapIn(n, high), NEW f, NEW C, Image(f, C, m, n), NEW p \in C
  PROVE  \A path \in Seq(Nat) : Follows(f, C, m, n, p, path)
<1> DEFINE S == {path \in Seq(Nat) : Follows(f, C, m, n, p, path)}
<1>1. p \in ObjectsOf(m) /\ f[p] \in ObjectsOf(n)
  BY DEF Image
<1>2. <<>> \in S
  <2>1. \A a : Leads(m, p, <<>>, a) <=> a = p
    BY <1>1, LeadsStart
  <2>2. \A b : Leads(n, f[p], <<>>, b) <=> b = f[p]
    BY <1>1, LeadsStart
  <2>3. <<>> \in Seq(Nat)
    OBVIOUS
  <2> QED BY <2>1, <2>2, <2>3 DEF Follows
<1>3. ASSUME NEW path \in S, NEW o \in Nat PROVE Append(path, o) \in S
  <2>1. path \in Seq(Nat) /\ Append(path, o) \in Seq(Nat) /\ Follows(f, C, m, n, p, path)
    OBVIOUS
  <2> HIDE DEF S
  <2>2. ASSUME NEW a, Leads(m, p, Append(path, o), a) PROVE a \in C /\ Leads(n, f[p], Append(path, o), f[a])
    <3>1. PICK c \in ObjectsOf(m) : Leads(m, p, path, c) /\ o \in Offsets(m, c) /\ m[c + 8 + o] = Ptr(a)
      BY <1>1, <2>1, <2>2, LastStep
    <3>2. c \in C /\ Leads(n, f[p], path, f[c])
      BY <2>1, <3>1 DEF Follows
    <3>3. PICK d \in C : m[c + 8 + o] = Ptr(d) /\ n[f[c] + 8 + o] = Ptr(f[d])
      BY <3>1, <3>2 DEF Image, Ptr, Nil
    <3>4. a = d
      BY <3>1, <3>3 DEF Ptr
    <3>5. o \in Offsets(n, f[c]) /\ f[a] \in ObjectsOf(n)
      BY <3>1, <3>2, <3>4 DEF Image, Offsets
    <3>6. n[f[c] + 8 + o] = Ptr(f[a])
      BY <3>3, <3>4
    <3>7. Leads(n, f[p], Append(path, o), f[a])
      BY <1>1, <3>2, <3>5, <3>6, NextStep
    <3> QED BY <3>4, <3>7
  <2>3. ASSUME NEW b, Leads(n, f[p], Append(path, o), b)
        PROVE  \E a \in C : Leads(m, p, Append(path, o), a) /\ b = f[a]
    <3>1. PICK d \in ObjectsOf(n) : Leads(n, f[p], path, d) /\ o \in Offsets(n, d) /\ n[d + 8 + o] = Ptr(b)
      BY <1>1, <2>1, <2>3, LastStep
    <3>2. PICK c \in C : Leads(m, p, path, c) /\ d = f[c]
      BY <2>1, <3>1 DEF Follows
    <3>3. o \in Offsets(m, c)
      BY <3>1, <3>2 DEF Image, Offsets
    <3>4. PICK a \in C : m[c + 8 + o] = Ptr(a) /\ n[f[c] + 8 + o] = Ptr(f[a])
      BY <3>1, <3>2, <3>3 DEF Image, Ptr, Nil
    <3>5. b = f[a]
      BY <3>1, <3>2, <3>4 DEF Ptr
    <3>6. a \in ObjectsOf(m)
      BY DEF Image
    <3>7. Leads(m, p, Append(path, o), a)
      BY <1>1, <3>2, <3>3, <3>4, <3>6, NextStep
    <3> QED BY <3>5, <3>7
  <2> QED BY <2>1, <2>2, <2>3 DEF S, Follows
<1>4. S \in SUBSET Seq(Nat)
  OBVIOUS
<1>5. \A path \in Seq(Nat) : path \in S
  <2> HIDE DEF S
  <2> QED BY <1>2, <1>3, <1>4, PathInduction
<1> QED BY <1>5

Mirrors(f, C, m, n, r, r2, s) ==
  Image(f, C, m, n) /\ s \in Slots /\ r[s] # Null /\ r[s] \in C /\ r2[s] = f[r[s]] /\ r2[s] # Null

\* So the image of a value is the same value.
LEMMA ImageValue ==
  ASSUME NEW m, NEW r, NEW low, Forest(m, r, low), NEW n, NEW r2, NEW high, Forest(n, r2, high),
         NEW f, NEW C, NEW s, Mirrors(f, C, m, n, r, r2, s)
  PROVE  ValueAt(n, r2[s]) = ValueAt(m, r[s])
<1>1. Image(f, C, m, n) /\ s \in Slots /\ r[s] # Null /\ r[s] \in C /\ r2[s] = f[r[s]] /\ r2[s] # Null
  BY DEF Mirrors
<1>2. HeapIn(m, low) /\ HeapIn(n, high)
  BY DEF Forest
<1>3. \A path \in Seq(Nat) :
        /\ \A a : Leads(m, r[s], path, a) => a \in C /\ Leads(n, r2[s], path, f[a])
        /\ \A b : Leads(n, r2[s], path, b) => \E a \in C : Leads(m, r[s], path, a) /\ b = f[a]
  <2>1. PICK p \in C : p = r[s]
    BY <1>1
  <2>2. \A path \in Seq(Nat) : Follows(f, C, m, n, p, path)
    BY <1>1, <1>2, ImagePaths
  <2>3. f[p] = r2[s]
    BY <1>1, <2>1
  <2> QED BY <2>1, <2>2, <2>3 DEF Follows
<1>4. \A x : x \in ValueAt(m, r[s]) <=>
        \E path \in Seq(Nat), a \in ObjectsOf(m) : Leads(m, r[s], path, a) /\ x = NodeOf(m, path, a)
  BY <1>1, ValueNodes DEF ValueHas
<1>5. \A x : x \in ValueAt(n, r2[s]) <=>
        \E path \in Seq(Nat), a \in ObjectsOf(n) : Leads(n, r2[s], path, a) /\ x = NodeOf(n, path, a)
  BY <1>1, ValueNodes DEF ValueHas
<1>6. \A path : \A a \in C : a \in ObjectsOf(m) /\ f[a] \in ObjectsOf(n) /\ NodeOf(n, path, f[a]) = NodeOf(m, path, a)
  BY <1>1 DEF Image, NodeOf, Offsets
<1>7. ASSUME NEW x \in ValueAt(m, r[s]) PROVE x \in ValueAt(n, r2[s])
  <2>1. PICK path \in Seq(Nat), a \in ObjectsOf(m) : Leads(m, r[s], path, a) /\ x = NodeOf(m, path, a)
    BY <1>4
  <2>2. a \in C /\ Leads(n, r2[s], path, f[a])
    BY <1>3, <2>1
  <2> QED BY <1>5, <1>6, <2>1, <2>2
<1>8. ASSUME NEW x \in ValueAt(n, r2[s]) PROVE x \in ValueAt(m, r[s])
  <2>1. PICK path \in Seq(Nat), b \in ObjectsOf(n) : Leads(n, r2[s], path, b) /\ x = NodeOf(n, path, b)
    BY <1>5
  <2>2. PICK a \in C : Leads(m, r[s], path, a) /\ b = f[a]
    BY <1>3, <2>1
  <2> QED BY <1>4, <1>6, <2>1, <2>2
<1> QED BY <1>7, <1>8

-----------------------------------------------------------------------------
(* Paths that go through a box. *)

Beyond(box, path) == \E q \in Seq(Nat) : path = box \o q

\* A path goes through a box when the box is a prefix of it.
LEMMA BeyondIsPrefix ==
  ASSUME NEW box \in Seq(Nat), NEW path \in Seq(Nat)
  PROVE  Beyond(box, path) <=> Len(box) <= Len(path) /\ SubSeq(box, 1, Len(box)) = SubSeq(path, 1, Len(box))
<1>1. Len(box) \in Nat /\ Len(path) \in Nat /\ SubSeq(box, 1, Len(box)) = box
  BY SubSeqFull
<1>2. ASSUME NEW q \in Seq(Nat), path = box \o q
      PROVE  Len(box) <= Len(path) /\ box = SubSeq(path, 1, Len(box))
  <2>1. Len(path) = Len(box) + Len(q) /\ Len(q) \in Nat
    BY <1>2, ConcatProperties
  <2>2. SubSeq(box \o q, 1, Len(box)) = box
    BY <1>1, SubSeqOfConcat1
  <2> QED BY <1>1, <1>2, <2>1, <2>2
<1>3. ASSUME Len(box) <= Len(path), box = SubSeq(path, 1, Len(box)) PROVE Beyond(box, path)
  <2>1. PICK k \in Nat, n \in Nat : k = Len(box) /\ n = Len(path)
    BY <1>1
  <2>2. SubSeq(path, 1, n) = path
    BY <2>1, SubSeqFull
  <2>3. SubSeq(path, 1, k) \o SubSeq(path, k + 1, n) = SubSeq(path, 1, n)
    <3>1. PICK one : one = 1
      OBVIOUS
    <3>2. one \in 1 .. Len(path) + 1 /\ k \in one - 1 .. Len(path) /\ n \in k .. Len(path)
      BY <1>3, <2>1, <3>1
    <3>3. SubSeq(path, one, k) \o SubSeq(path, k + 1, n) = SubSeq(path, one, n)
      BY <3>2, ConcatAdjacentSubSeq
    <3> QED BY <3>1, <3>3
  <2>4. SubSeq(path, k + 1, n) \in Seq(Nat)
    BY <2>1
  <2>5. path = box \o SubSeq(path, k + 1, n)
    BY <1>3, <2>1, <2>2, <2>3
  <2> QED BY <2>4, <2>5 DEF Beyond
<1> QED BY <1>1, <1>2, <1>3 DEF Beyond

\* A step at the end of what follows a box is a step at the end of the path.
LEMMA AppendBeyond ==
  ASSUME NEW box \in Seq(Nat), NEW q \in Seq(Nat), NEW o \in Nat
  PROVE  box \o Append(q, o) = Append(box \o q, o) /\ box \o q \in Seq(Nat)
<1>1. <<o>> \in Seq(Nat) /\ box \o q \in Seq(Nat)
  OBVIOUS
<1>2. Append(q, o) = q \o <<o>>
  BY AppendIsConcat
<1>3. Append(box \o q, o) = (box \o q) \o <<o>>
  BY <1>1, AppendIsConcat
<1>4. (box \o q) \o <<o>> = box \o (q \o <<o>>)
  BY <1>1, Associates
<1> QED BY <1>1, <1>2, <1>3, <1>4

BoxSteps(box, path, o) ==
  /\ ~Beyond(box, <<>>) /\ Beyond(box, box) /\ box = box \o <<>> /\ <<>> \in Seq(Nat)
  /\ \A q \in Seq(Nat) : path = box \o q =>
       Append(path, o) = box \o Append(q, o) /\ Append(q, o) \in Seq(Nat)
  /\ \A q \in Seq(Nat) : Append(path, o) = box \o q =>
       \/ q = <<>> /\ box = Append(path, o)
       \/ \E q2 \in Seq(Nat) : path = box \o q2 /\ q = Append(q2, o)
  /\ Beyond(box, Append(path, o)) <=> Beyond(box, path) \/ box = Append(path, o)

\* Nothing lies beyond a box but the box and the steps that follow.
LEMMA BeyondStep ==
  ASSUME NEW box \in Seq(Nat), box # <<>>, NEW path \in Seq(Nat), NEW o \in Nat
  PROVE  BoxSteps(box, path, o)
<1>1. box \o <<>> = box /\ <<>> \in Seq(Nat)
  BY ConcatEmptySeq
<1>2. Beyond(box, box)
  BY <1>1 DEF Beyond
<1>3. ~Beyond(box, <<>>)
  <2> SUFFICES ASSUME NEW q \in Seq(Nat), <<>> = box \o q PROVE FALSE
    BY DEF Beyond
  <2>1. PICK long \in Seq(Nat) : long = box \o q
    BY ConcatProperties
  <2>2. Len(long) = Len(box) + Len(q) /\ Len(box) \in Nat /\ Len(q) \in Nat
    BY <2>1, ConcatProperties
  <2>3. Len(box) # 0
    BY EmptySeq
  <2>4. Len(<<>>) = 0
    OBVIOUS
  <2>5. long = <<>>
    BY <2>1, Zenon
  <2>6. Len(long) = 0
    BY <2>4, <2>5, Zenon
  <2>7. \A i, k \in Nat : i + k = 0 => i = 0
    OBVIOUS
  <2>8. Len(box) + Len(q) = 0
    BY <2>2, <2>6, Zenon
  <2> QED BY <2>2, <2>3, <2>7, <2>8, Zenon
<1>4. ASSUME NEW q \in Seq(Nat), path = box \o q
      PROVE  Append(path, o) = box \o Append(q, o) /\ Append(q, o) \in Seq(Nat)
  BY <1>4, AppendBeyond, SMTT(30)
<1>5. ASSUME NEW q \in Seq(Nat), Append(path, o) = box \o q
      PROVE  \/ q = <<>> /\ box = Append(path, o)
             \/ \E q2 \in Seq(Nat) : path = box \o q2 /\ q = Append(q2, o)
  <2>1. CASE q = <<>>
    BY <1>1, <1>5, <2>1
  <2>2. ASSUME NEW q2 \in Seq(Nat), NEW e \in Nat, q = Append(q2, e) PROVE path = box \o q2 /\ q = Append(q2, o)
    <3>1. box \o q = Append(box \o q2, e) /\ box \o q2 \in Seq(Nat)
      BY <2>2, AppendBeyond, SMTT(30)
    <3>2. PICK s \in Seq(Nat) : s = box \o q2
      BY <3>1
    <3>3. Append(path, o) = Append(s, e)
      BY <1>5, <3>1, <3>2
    <3>4. path = s /\ o = e
      BY <3>3, AppendSame
    <3> QED BY <2>2, <3>2, <3>4
  <2>3. q # <<>> => \E q2 \in Seq(Nat), e \in Nat : q = Append(q2, e)
    BY SequenceEmptyOrAppend
  <2> QED BY <2>1, <2>2, <2>3
<1>6. Beyond(box, Append(path, o)) => Beyond(box, path) \/ box = Append(path, o)
  BY <1>5 DEF Beyond
<1>7. Beyond(box, path) => Beyond(box, Append(path, o))
  BY <1>4 DEF Beyond
<1> QED BY <1>1, <1>2, <1>3, <1>4, <1>5, <1>6, <1>7 DEF BoxSteps

-----------------------------------------------------------------------------
(* What becomes of the values when a box is filled or emptied. *)

\* Objects of two memories look the same, but for what their boxes hold.
SameShape(m, n) ==
  /\ ObjectsOf(n) = ObjectsOf(m)
  /\ \A c \in ObjectsOf(m) : /\ TypeAt(n, c) = TypeAt(m, c) /\ LenAt(n, c) = LenAt(m, c)
                             /\ Offsets(n, c) = Offsets(m, c) /\ BoxesOf(n, c) = BoxesOf(m, c)

\* Writing a box changes that word.
LEMMA BoxRewritten ==
  ASSUME NEW m, NEW low, HeapIn(m, low), NEW d \in ObjectsOf(m), NEW ob \in Offsets(m, d),
         NEW word, word = Nil \/ (\E c \in ObjectsOf(m) : word = Ptr(c)),
         NEW n, n = Written(m, d + 8 + ob, word)
  PROVE  /\ HeapIn(n, low) /\ SameShape(m, n)
         /\ \A c \in ObjectsOf(m) : \A o \in Offsets(m, c) :
              n[c + 8 + o] = IF c = d /\ o = ob THEN word ELSE m[c + 8 + o]
         /\ Intact(m) => Intact(n)
<1>1. PICK high : high = low + Space
  OBVIOUS
<1>2. HeapOK(m, low, high) /\ high \in Nat /\ high <= 2 * Space /\ low \in {0, Space}
  BY <1>1, TypesAssumption DEF HeapIn
<1>3. PICK b : b = d + 8 + ob
  OBVIOUS
<1>4. b \in BoxesOf(m, d) /\ b \in Addresses
  BY <1>3, OffsetWords
<1>5. n = Written(m, b, word)
  BY <1>3
<1>6. /\ HeapOK(n, low, high) /\ ObjectsOf(n) = ObjectsOf(m)
      /\ \A c \in ObjectsOf(m) :
           SizeAt(n, c) = SizeAt(m, c) /\ TypeAt(n, c) = TypeAt(m, c) /\ LenAt(n, c) = LenAt(m, c)
  BY <1>2, <1>4, <1>5, BoxWritten
<1>7. HeapIn(n, low) /\ SameShape(m, n)
  BY <1>1, <1>2, <1>6 DEF HeapIn, SameShape, Offsets, BoxesOf
<1>8. \A x \in Addresses : n[x] = IF x = b THEN word ELSE m[x]
  BY <1>2, <1>5 DEF HeapOK, Written
<1>9. ASSUME NEW c \in ObjectsOf(m), NEW o \in Offsets(m, c)
      PROVE  n[c + 8 + o] = IF c = d /\ o = ob THEN word ELSE m[c + 8 + o]
  <2>1. PICK x \in Addresses : x = c + 8 + o
    BY OffsetWords
  <2>2. x = b <=> c = d /\ o = ob
    BY <1>3, <2>1, OneBox
  <2> QED BY <1>8, <2>1, <2>2
<1>10. ASSUME Intact(m) PROVE Intact(n)
  <2> SUFFICES ASSUME NEW c \in ObjectsOf(m), NEW o \in PlainOf(m, c) PROVE WordAt(n, c + 8 + o) # Nil
    BY <1>6 DEF Intact, PlainOf, Offsets
  <2>1. WordAt(m, c + 8 + o) # Nil
    BY <1>10 DEF Intact
  <2>2. DOMAIN m = Addresses /\ DOMAIN n = Addresses
    BY <1>2, <1>6 DEF HeapOK
  <2>3. c + 8 + o # b
    <3> SUFFICES ASSUME c + 8 + o = b PROVE FALSE
      OBVIOUS
    <3>1. c \in Nat /\ SizeAt(m, c) \in Nat /\ SizeAt(m, c) = DynamicSize(TypeAt(m, c), LenAt(m, c)) + 8
          /\ TypeAt(m, c) \in Descriptors /\ LenAt(m, c) \in Nat
      BY <1>2, ObjectFacts
    <3>2. PICK bytes \in Nat : bytes = DynamicSize(TypeAt(m, c), LenAt(m, c))
      BY <3>1, OffsetsBound
    <3>3. o \in Nat /\ o < bytes
      BY <3>2 DEF PlainOf
    <3>4. d \in Nat /\ ob \in Nat /\ ob + 16 <= SizeAt(m, d) /\ SizeAt(m, d) \in Nat
      BY <1>2, OffsetWords, ObjectFacts
    <3>5. PICK x \in Nat : x = c + 8 + o /\ x = d + 8 + ob
      BY <1>3, <3>1, <3>3
    <3>6. c <= x /\ x < c + SizeAt(m, c) /\ d <= x /\ x < d + SizeAt(m, d)
      BY <3>1, <3>2, <3>3, <3>4, <3>5
    <3>7. c = d
      BY <1>2, <3>5, <3>6, SameObject
    <3>8. o = ob
      BY <3>1, <3>3, <3>4, <3>5, <3>7
    <3> QED BY <3>7, <3>8 DEF PlainOf
  <2>4. WordAt(n, c + 8 + o) = WordAt(m, c + 8 + o)
    BY <1>8, <2>2, <2>3 DEF WordAt
  <2> QED BY <2>1, <2>4
<1> QED BY <1>7, <1>9, <1>10

\* Where the paths from root s lead when a box holds a word: where they led, unless
\* they go through the box, and from the box to where the root that went into it led.
Grafts(m, r, s, box, word, path, a) ==
  \/ Leads(m, r[s], path, a) /\ ~Beyond(box, path)
  \/ \E q \in Seq(Nat), t \in Slots :
       t # s /\ r[t] # Null /\ word = Ptr(r[t]) /\ path = box \o q /\ Leads(m, r[t], q, a)

Grafting(m, n, r, s, box, word, path) ==
  \A a : Leads(n, r[s], path, a) <=> Grafts(m, r, s, box, word, path, a)

\* One step more.
LEMMA GraftedOn ==
  ASSUME NEW m, NEW r, NEW low, Forest(m, r, low), NEW s \in Slots, r[s] # Null,
         NEW before \in Seq(Nat), NEW d \in ObjectsOf(m), Leads(m, r[s], before, d), NEW ob \in Offsets(m, d),
         NEW word, word = Nil \/ (\E t \in Slots : t # s /\ r[t] # Null /\ word = Ptr(r[t])),
         NEW n, n = Written(m, d + 8 + ob, word),
         NEW box \in Seq(Nat), box = Append(before, ob),
         NEW path \in Seq(Nat), Grafting(m, n, r, s, box, word, path), NEW o \in Nat
  PROVE  Grafting(m, n, r, s, box, word, Append(path, o))
<1>1. HeapIn(m, low) /\ \A t \in Slots : r[t] # Null => r[t] \in ObjectsOf(m)
  BY DEF Forest
<1>2. word = Nil \/ \E c \in ObjectsOf(m) : word = Ptr(c)
  BY <1>1
<1>3. /\ HeapIn(n, low) /\ SameShape(m, n)
      /\ \A c \in ObjectsOf(m) : \A e \in Offsets(m, c) :
           n[c + 8 + e] = IF c = d /\ e = ob THEN word ELSE m[c + 8 + e]
  BY <1>1, <1>2, BoxRewritten
<1>4. ObjectsOf(n) = ObjectsOf(m) /\ \A c \in ObjectsOf(m) : Offsets(n, c) = Offsets(m, c)
  BY <1>3 DEF SameShape
<1>5. r[s] \in ObjectsOf(m) /\ r[s] \in ObjectsOf(n) /\ ob \in Nat
  BY <1>1, <1>4, OffsetWords
<1>6. box # <<>>
  BY AppendProperties
<1>7. /\ path \in Seq(Nat) /\ Append(path, o) \in Seq(Nat)
      /\ \A a : Leads(n, r[s], path, a) <=> Grafts(m, r, s, box, word, path, a)
  BY DEF Grafting
<1>8. BoxSteps(box, path, o)
  BY <1>6, BeyondStep
<1>9. /\ Beyond(box, box) /\ box = box \o <<>> /\ <<>> \in Seq(Nat)
      /\ \A q \in Seq(Nat) : path = box \o q =>
           Append(path, o) = box \o Append(q, o) /\ Append(q, o) \in Seq(Nat)
      /\ \A q \in Seq(Nat) : Append(path, o) = box \o q =>
           \/ q = <<>> /\ box = Append(path, o)
           \/ \E q2 \in Seq(Nat) : path = box \o q2 /\ q = Append(q2, o)
      /\ Beyond(box, Append(path, o)) <=> Beyond(box, path) \/ box = Append(path, o)
  BY <1>8 DEF BoxSteps
<1>10. box = Append(path, o) => path = before /\ o = ob
  BY <1>5, <1>7, AppendSame
<1>11. ASSUME NEW a, Leads(n, r[s], Append(path, o), a)
      PROVE  Grafts(m, r, s, box, word, Append(path, o), a)
  <2>1. PICK c \in ObjectsOf(m) : Leads(n, r[s], path, c) /\ o \in Offsets(m, c) /\ n[c + 8 + o] = Ptr(a)
    <3>1. PICK p \in ObjectsOf(n) : p = r[s]
      BY <1>5
    <3>2. Leads(n, p, Append(path, o), a)
      BY <1>11, <3>1
    <3>3. HeapIn(n, low) /\ path \in Seq(Nat)
      BY <1>3, <1>7
    <3>4. a \in ObjectsOf(n) /\ \E c \in ObjectsOf(n) : Leads(n, p, path, c) /\ o \in Offsets(n, c) /\ n[c + 8 + o] = Ptr(a)
      BY <3>2, <3>3, LastStep
    <3> QED BY <1>4, <3>1, <3>4
  <2>2. a \in ObjectsOf(m)
    BY <1>4, <1>11 DEF Leads
  <2>3. CASE Leads(m, r[s], path, c) /\ ~Beyond(box, path)
    <3>1. CASE c = d /\ o = ob
      <4>1. word = Ptr(a)
        BY <1>3, <2>1, <3>1
      <4>2. PICK t \in Slots : t # s /\ r[t] # Null /\ word = Ptr(r[t])
        BY <4>1 DEF Ptr, Nil
      <4>3. a = r[t]
        BY <4>1, <4>2 DEF Ptr
      <4>4. Leads(m, r[t], <<>>, a)
        BY <1>1, <4>2, <4>3, LeadsStart
      <4>5. path = before
        BY <2>3, <3>1, SamePath
      <4>6. Append(path, o) = box \o <<>>
        BY <1>9, <3>1, <4>5
      <4> QED BY <1>9, <4>2, <4>4, <4>6 DEF Grafts
    <3>2. CASE ~(c = d /\ o = ob)
      <4>1. m[c + 8 + o] = Ptr(a)
        BY <1>3, <2>1, <3>2
      <4>2. Leads(m, r[s], Append(path, o), a)
        BY <1>1, <1>5, <2>1, <2>2, <2>3, <4>1, NextStep
      <4>3. box # Append(path, o)
        <5> SUFFICES ASSUME box = Append(path, o) PROVE FALSE
          OBVIOUS
        <5>1. path = before /\ o = ob
          BY <1>10
        <5>2. c = d
          BY <1>1, <1>5, <2>3, <5>1, OneObject
        <5> QED BY <3>2, <5>1, <5>2
      <4> QED BY <1>9, <2>3, <4>2, <4>3 DEF Grafts
    <3> QED BY <3>1, <3>2
  <2>4. ASSUME NEW q \in Seq(Nat), NEW t \in Slots, t # s, r[t] # Null, word = Ptr(r[t]), path = box \o q,
               Leads(m, r[t], q, c)
      PROVE  Grafts(m, r, s, box, word, Append(path, o), a)
    <3>1. c # d
      <4>1. Leads(m, r[t], q, d) => s = t
        BY <2>4, SamePath
      <4> QED BY <2>4, <4>1
    <3>2. m[c + 8 + o] = Ptr(a)
      BY <1>3, <2>1, <3>1
    <3>3. Leads(m, r[t], Append(q, o), a)
      BY <1>1, <2>1, <2>2, <2>4, <3>2, NextStep
    <3>4. Append(path, o) = box \o Append(q, o) /\ Append(q, o) \in Seq(Nat)
      BY <1>9, <2>4
    <3> QED BY <2>4, <3>3, <3>4 DEF Grafts
  <2>5. Grafts(m, r, s, box, word, path, c)
    BY <1>7, <2>1
  <2> QED BY <2>3, <2>4, <2>5 DEF Grafts
<1>12. ASSUME NEW a, Leads(m, r[s], Append(path, o), a), ~Beyond(box, Append(path, o))
      PROVE  Leads(n, r[s], Append(path, o), a)
  <2>1. a \in ObjectsOf(m)
    BY <1>12 DEF Leads
  <2>2. PICK c \in ObjectsOf(m) : Leads(m, r[s], path, c) /\ o \in Offsets(m, c) /\ m[c + 8 + o] = Ptr(a)
    BY <1>1, <1>5, <1>7, <1>12, LastStep
  <2>3. ~Beyond(box, path) /\ box # Append(path, o)
    BY <1>9, <1>12
  <2>4. Leads(n, r[s], path, c)
    BY <1>7, <2>2, <2>3 DEF Grafts
  <2>5. ~(c = d /\ o = ob)
    <3> SUFFICES ASSUME c = d, o = ob PROVE FALSE
      OBVIOUS
    <3>1. path = before
      BY <2>2, SamePath
    <3> QED BY <2>3, <3>1
  <2>6. n[c + 8 + o] = Ptr(a) /\ o \in Offsets(n, c) /\ a \in ObjectsOf(n)
    BY <1>3, <1>4, <2>1, <2>2, <2>5
  <2> QED BY <1>3, <1>5, <2>4, <2>6, NextStep
<1>13. ASSUME NEW a, NEW q \in Seq(Nat), NEW t \in Slots, t # s, r[t] # Null, word = Ptr(r[t]),
             Append(path, o) = box \o q, Leads(m, r[t], q, a)
      PROVE  Leads(n, r[s], Append(path, o), a)
  <2>0. a \in ObjectsOf(n) /\ a \in ObjectsOf(m)
    BY <1>4, <1>13 DEF Leads
  <2>1. CASE q = <<>> /\ box = Append(path, o)
    <3>1. a = r[t]
      BY <1>1, <1>13, <2>1, LeadsStart
    <3>2. path = before /\ o = ob
      BY <1>10, <2>1
    <3>3. ~Beyond(box, path)
      <4> SUFFICES ASSUME NEW q2 \in Seq(Nat), path = box \o q2 PROVE FALSE
        BY DEF Beyond
      <4>1. PICK long \in Seq(Nat), rest \in Seq(Nat) : long = box /\ rest = q2
        OBVIOUS
      <4>2. Len(path) = Len(long) + Len(rest) /\ Len(long) \in Nat /\ Len(rest) \in Nat
        BY <4>1, ConcatProperties
      <4>3. Len(long) = Len(path) + 1 /\ Len(path) \in Nat
        BY <1>7, <2>1, <4>1, AppendProperties, LenProperties
      <4> QED BY <4>2, <4>3
    <3>4. Leads(n, r[s], path, d)
      BY <1>7, <3>2, <3>3 DEF Grafts
    <3>5. n[d + 8 + o] = Ptr(a) /\ o \in Offsets(n, d)
      BY <1>3, <1>4, <1>13, <3>1, <3>2
    <3> QED BY <1>3, <1>5, <2>0, <3>4, <3>5, NextStep
  <2>2. ASSUME NEW q2 \in Seq(Nat), path = box \o q2, q = Append(q2, o)
      PROVE  Leads(n, r[s], Append(path, o), a)
    <3>1. Leads(m, r[t], Append(q2, o), a) /\ r[t] \in ObjectsOf(m)
      BY <1>1, <1>13, <2>2
    <3>2. PICK c \in ObjectsOf(m) : Leads(m, r[t], q2, c) /\ o \in Offsets(m, c) /\ m[c + 8 + o] = Ptr(a)
      BY <1>1, <3>1, LastStep
    <3>3. c # d
      <4>1. Leads(m, r[t], q2, d) => s = t
        BY <1>13, SamePath
      <4> QED BY <1>13, <3>2, <4>1
    <3>4. Leads(n, r[s], path, c)
      BY <1>7, <1>13, <2>2, <3>2 DEF Grafts
    <3>5. n[c + 8 + o] = Ptr(a) /\ o \in Offsets(n, c)
      BY <1>3, <1>4, <3>2, <3>3
    <3> QED BY <1>3, <1>5, <2>0, <3>4, <3>5, NextStep
  <2> QED BY <1>9, <1>13, <2>1, <2>2
<1>14. \A a : Grafts(m, r, s, box, word, Append(path, o), a) => Leads(n, r[s], Append(path, o), a)
  BY <1>12, <1>13 DEF Grafts
<1> QED BY <1>11, <1>14 DEF Grafting

\* Filling a box puts one tree into another, emptying it cuts a tree off.
LEMMA Grafted ==
  ASSUME NEW m, NEW r, NEW low, Forest(m, r, low), NEW s \in Slots, r[s] # Null,
         NEW before \in Seq(Nat), NEW d \in ObjectsOf(m), Leads(m, r[s], before, d), NEW ob \in Offsets(m, d),
         NEW word, word = Nil \/ (\E t \in Slots : t # s /\ r[t] # Null /\ word = Ptr(r[t])),
         NEW n, n = Written(m, d + 8 + ob, word),
         NEW box \in Seq(Nat), box = Append(before, ob)
  PROVE  \A path \in Seq(Nat) : Grafting(m, n, r, s, box, word, path)
<1> DEFINE S == {path \in Seq(Nat) : Grafting(m, n, r, s, box, word, path)}
<1>1. HeapIn(m, low) /\ \A t \in Slots : r[t] # Null => r[t] \in ObjectsOf(m)
  BY DEF Forest
<1>2. word = Nil \/ \E c \in ObjectsOf(m) : word = Ptr(c)
  BY <1>1
<1>3. /\ HeapIn(n, low) /\ SameShape(m, n)
      /\ \A c \in ObjectsOf(m) : \A o \in Offsets(m, c) :
           n[c + 8 + o] = IF c = d /\ o = ob THEN word ELSE m[c + 8 + o]
  BY <1>1, <1>2, BoxRewritten
<1>4. ObjectsOf(n) = ObjectsOf(m) /\ \A c \in ObjectsOf(m) : Offsets(n, c) = Offsets(m, c)
  BY <1>3 DEF SameShape
<1>5. r[s] \in ObjectsOf(m) /\ r[s] \in ObjectsOf(n) /\ ob \in Nat
  BY <1>1, <1>4, OffsetWords
<1>6. box # <<>>
  BY AppendProperties
<1>7. <<>> \in S
  <2>1. \A a : Leads(n, r[s], <<>>, a) <=> a = r[s]
    BY <1>3, <1>5, LeadsStart
  <2>2. \A a : Leads(m, r[s], <<>>, a) <=> a = r[s]
    BY <1>1, <1>5, LeadsStart
  <2>6. BoxSteps(box, before, ob)
    BY <1>5, <1>6, BeyondStep
  <2>3. ~Beyond(box, <<>>) /\ <<>> \in Seq(Nat)
    BY <2>6 DEF BoxSteps
  <2>4. \A q \in Seq(Nat) : <<>> # box \o q
    BY <2>3 DEF Beyond
  <2>5. \A a : Grafts(m, r, s, box, word, <<>>, a) <=> Leads(m, r[s], <<>>, a)
    BY <2>3, <2>4 DEF Grafts
  <2> QED BY <2>1, <2>2, <2>3, <2>5 DEF Grafting
<1>8. ASSUME NEW path \in S, NEW o \in Nat PROVE Append(path, o) \in S
  <2>1. path \in Seq(Nat) /\ Append(path, o) \in Seq(Nat)
    OBVIOUS
  <2>2. Grafting(m, n, r, s, box, word, path)
    OBVIOUS
  <2> HIDE DEF S
  <2>3. Grafting(m, n, r, s, box, word, Append(path, o))
    BY <2>1, <2>2, GraftedOn
  <2> QED BY <2>1, <2>3 DEF S
<1>9. S \in SUBSET Seq(Nat)
  OBVIOUS
<1>10. \A path \in Seq(Nat) : path \in S
  <2> HIDE DEF S
  <2> QED BY <1>7, <1>8, <1>9, PathInduction
<1> QED BY <1>10

Moved(node, box) == [node EXCEPT !.path = box \o @]

Fields == {"path", "type", "len", "boxes", "intact"}
HasFields(node, path, type, len, boxes) ==
  /\ node = [field \in Fields |-> node[field]]
  /\ node["path"] = path /\ node["type"] = type /\ node["len"] = len /\ node["boxes"] = boxes /\ node["intact"] = TRUE

\* A node by its fields.
LEMMA NodeFields ==
  ASSUME NEW path, NEW type, NEW len, NEW boxes, NEW node, node = NodeWith(path, type, len, boxes)
  PROVE  HasFields(node, path, type, len, boxes)
<1>1. NodeWith(path, type, len, boxes) = [field \in Fields |-> NodeWith(path, type, len, boxes)[field]]
  BY DEF NodeWith, Fields
<1>2. /\ NodeWith(path, type, len, boxes)["path"] = path /\ NodeWith(path, type, len, boxes)["type"] = type
      /\ NodeWith(path, type, len, boxes)["len"] = len /\ NodeWith(path, type, len, boxes)["boxes"] = boxes
      /\ NodeWith(path, type, len, boxes)["intact"] = TRUE
  BY DEF NodeWith
<1> QED BY <1>1, <1>2 DEF HasFields

\* The node of a path that is put behind a box.
LEMMA NodeMoved ==
  ASSUME NEW m, NEW path, NEW a, NEW box
  PROVE  NodeOf(m, path, a).path = path /\ Moved(NodeOf(m, path, a), box) = NodeOf(m, box \o path, a)
<1>1. PICK type, len, boxes : type = TypeAt(m, a) /\ len = LenAt(m, a) /\ boxes = Offsets(m, a)
  OBVIOUS
<1>2. PICK node : node = NodeWith(path, type, len, boxes)
  OBVIOUS
<1>3. PICK q : q = box \o path
  OBVIOUS
<1>4. PICK next : next = NodeWith(q, type, len, boxes)
  OBVIOUS
<1>5. HasFields(node, path, type, len, boxes)
  BY <1>2, NodeFields
<1>6. HasFields(next, q, type, len, boxes)
  BY <1>4, NodeFields
<1>7. [node EXCEPT !.path = q] = [field \in Fields |-> IF field = "path" THEN q ELSE node[field]]
  BY <1>5 DEF HasFields
<1>8. \A field \in Fields : next[field] = IF field = "path" THEN q ELSE node[field]
  BY <1>5, <1>6 DEF Fields, HasFields
<1>9. [node EXCEPT !.path = q] = next
  BY <1>6, <1>7, <1>8 DEF HasFields
<1>10. Moved(node, box) = [node EXCEPT !.path = q]
  <2>1. node.path = path
    BY <1>5 DEF HasFields
  <2> QED BY <1>3, <2>1 DEF Moved
<1>11. node = NodeOf(m, path, a) /\ next = NodeOf(m, box \o path, a)
  BY <1>1, <1>2, <1>3, <1>4 DEF NodeOf
<1> QED BY <1>5, <1>9, <1>10, <1>11 DEF HasFields

\* What goes into a box: the value of another root, or nothing.
PutIn(m, r, s, word, u) ==
  \/ word = Nil /\ u = {}
  \/ \E t \in Slots : t # s /\ r[t] # Null /\ word = Ptr(r[t]) /\ u = ValueAt(m, r[t])

\* Memory n is m after a write to a box of an object that root s leads to.
Writes(m, n, r, r2, low, s, before, d, ob, word) ==
  /\ Forest(m, r, low) /\ Forest(n, r2, low) /\ s \in Slots /\ r[s] # Null /\ r2[s] = r[s]
  /\ before \in Seq(Nat) /\ d \in ObjectsOf(m) /\ Leads(m, r[s], before, d) /\ ob \in Offsets(m, d)
  /\ n = Written(m, d + 8 + ob, word)

Ends(box, before, ob) == box \in Seq(Nat) /\ box = Append(before, ob)

\* Writing a box fills that box of the value, or empties it.
LEMMA ValueFilled ==
  ASSUME NEW m, NEW n, NEW r, NEW r2, NEW low, NEW s, NEW before, NEW d, NEW ob, NEW word,
         Writes(m, n, r, r2, low, s, before, d, ob, word), NEW u, PutIn(m, r, s, word, u),
         NEW box, Ends(box, before, ob)
  PROVE  ValueAt(n, r2[s]) = Believed!Filled(ValueAt(m, r[s]), box, u)
<1> /\ Forest(m, r, low) /\ Forest(n, r2, low) /\ s \in Slots /\ r[s] # Null /\ r2[s] = r[s]
    /\ before \in Seq(Nat) /\ d \in ObjectsOf(m) /\ Leads(m, r[s], before, d) /\ ob \in Offsets(m, d)
    /\ n = Written(m, d + 8 + ob, word)
  BY DEF Writes
<1> box \in Seq(Nat) /\ box = Append(before, ob)
  BY DEF Ends
<1>1. HeapIn(m, low) /\ \A t \in Slots : r[t] # Null => r[t] \in ObjectsOf(m)
  BY DEF Forest
<1>2. word = Nil \/ (\E t \in Slots : t # s /\ r[t] # Null /\ word = Ptr(r[t]))
  BY DEF PutIn
<1>3. word = Nil \/ \E c \in ObjectsOf(m) : word = Ptr(c)
  BY <1>1, <1>2
<1>4. SameShape(m, n)
  BY <1>1, <1>3, BoxRewritten
<1>5. ObjectsOf(n) = ObjectsOf(m) /\ \A path : \A a \in ObjectsOf(m) : NodeOf(n, path, a) = NodeOf(m, path, a)
  BY <1>4 DEF SameShape, NodeOf
<1>6. \A path \in Seq(Nat) : \A a : Leads(n, r2[s], path, a) <=> Grafts(m, r, s, box, word, path, a)
  <2>1. \A path \in Seq(Nat) : Grafting(m, n, r, s, box, word, path)
    BY <1>2, Grafted
  <2> QED BY <2>1 DEF Grafting
<1>7. \A t \in Slots : r[t] # Null => \A x : x \in ValueAt(m, r[t]) <=>
        \E path \in Seq(Nat), a \in ObjectsOf(m) : Leads(m, r[t], path, a) /\ x = NodeOf(m, path, a)
  <2> SUFFICES ASSUME NEW t \in Slots, r[t] # Null PROVE ValueHas(m, r[t])
    BY DEF ValueHas
  <2> QED BY ValueNodes
<1>8. \A x : x \in ValueAt(n, r2[s]) <=>
        \E path \in Seq(Nat), a \in ObjectsOf(m) : Grafts(m, r, s, box, word, path, a) /\ x = NodeOf(m, path, a)
  <2>1. \A x : x \in ValueAt(n, r2[s]) <=>
          \E path \in Seq(Nat), a \in ObjectsOf(n) : Leads(n, r2[s], path, a) /\ x = NodeOf(n, path, a)
    <3>1. r2[s] # Null
      OBVIOUS
    <3>2. ValueHas(n, r2[s])
      BY <3>1, ValueNodes
    <3> QED BY <3>2 DEF ValueHas
  <2> QED BY <1>5, <1>6, <2>1
<1>9. \A path : \A a : NodeOf(m, path, a).path = path /\ Moved(NodeOf(m, path, a), box) = NodeOf(m, box \o path, a)
  BY NodeMoved
<1>10. \A path \in Seq(Nat) : Beyond(box, path) <=> Believed!IsPrefix(box, path)
  BY BeyondIsPrefix DEF Believed!IsPrefix
<1>11. \A t \in Slots : r[t] # Null /\ word = Ptr(r[t]) => u = ValueAt(m, r[t])
  BY DEF PutIn, Ptr, Nil
<1>12. PICK v : v = ValueAt(m, r[s])
  OBVIOUS
<1>13. Believed!Filled(v, box, u) =
         {y \in v : ~Believed!IsPrefix(box, y.path)} \cup {Moved(y, box) : y \in u}
  BY DEF Believed!Filled, Moved
<1>14. ASSUME NEW path \in Seq(Nat), NEW a \in ObjectsOf(m), Grafts(m, r, s, box, word, path, a)
       PROVE  NodeOf(m, path, a) \in Believed!Filled(v, box, u)
  <2>1. CASE Leads(m, r[s], path, a) /\ ~Beyond(box, path)
    <3>1. NodeOf(m, path, a) \in v
      BY <1>7, <1>12, <2>1
    <3> QED BY <1>9, <1>10, <1>13, <2>1, <3>1
  <2>2. ASSUME NEW q \in Seq(Nat), NEW t \in Slots, t # s, r[t] # Null, word = Ptr(r[t]), path = box \o q,
               Leads(m, r[t], q, a)
        PROVE  NodeOf(m, path, a) \in Believed!Filled(v, box, u)
    <3>1. NodeOf(m, q, a) \in u
      BY <1>7, <1>11, <2>2
    <3> QED BY <1>9, <1>13, <2>2, <3>1
  <2> QED BY <1>14, <2>1, <2>2 DEF Grafts
<1>15. ASSUME NEW y \in v, ~Believed!IsPrefix(box, y.path) PROVE y \in ValueAt(n, r2[s])
  <2>1. PICK path \in Seq(Nat), a \in ObjectsOf(m) : Leads(m, r[s], path, a) /\ y = NodeOf(m, path, a)
    <3>1. y \in ValueAt(m, r[s])
      BY <1>12
    <3>2. ValueHas(m, r[s])
      BY ValueNodes
    <3> QED BY <3>1, <3>2 DEF ValueHas
  <2>2. ~Beyond(box, path)
    BY <1>9, <1>10, <1>15, <2>1
  <2> QED BY <1>8, <2>1, <2>2 DEF Grafts
<1>16. ASSUME NEW y \in u PROVE Moved(y, box) \in ValueAt(n, r2[s])
  <2>1. PICK t \in Slots : t # s /\ r[t] # Null /\ word = Ptr(r[t]) /\ u = ValueAt(m, r[t])
    BY DEF PutIn
  <2>2. PICK q \in Seq(Nat), a \in ObjectsOf(m) : Leads(m, r[t], q, a) /\ y = NodeOf(m, q, a)
    <3>1. y \in ValueAt(m, r[t])
      BY <2>1
    <3>2. ValueHas(m, r[t])
      BY <2>1, ValueNodes
    <3> QED BY <3>1, <3>2 DEF ValueHas
  <2>3. box \o q \in Seq(Nat)
    BY ConcatProperties
  <2>4. Grafts(m, r, s, box, word, box \o q, a)
    BY <2>1, <2>2 DEF Grafts
  <2>5. NodeOf(m, box \o q, a) \in ValueAt(n, r2[s])
    BY <1>8, <2>2, <2>3, <2>4, Zenon
  <2> QED BY <1>9, <2>2, <2>5
<1> QED BY <1>8, <1>12, <1>13, <1>14, <1>15, <1>16

Led(m, p) == {a \in ObjectsOf(m) : \E path : Leads(m, p, path, a)}

\* What an object leads to is closed: its boxes are empty or refer to more of it.
LEMMA LedClosed ==
  ASSUME NEW m, NEW low, HeapIn(m, low), NEW p \in ObjectsOf(m)
  PROVE  /\ p \in Led(m, p)
         /\ \A a \in Led(m, p) : \A o \in Offsets(m, a) :
              m[a + 8 + o] = Nil \/ \E c \in Led(m, p) : m[a + 8 + o] = Ptr(c)
<1>1. p \in Led(m, p)
  <2>1. Leads(m, p, <<>>, p)
    BY LeadsStart
  <2> QED BY <2>1 DEF Led
<1>2. ASSUME NEW a \in Led(m, p), NEW o \in Offsets(m, a)
      PROVE  m[a + 8 + o] = Nil \/ \E c \in Led(m, p) : m[a + 8 + o] = Ptr(c)
  <2>1. a \in ObjectsOf(m)
    BY DEF Led
  <2>2. m[a + 8 + o] = Nil \/ \E c \in ObjectsOf(m) : m[a + 8 + o] = Ptr(c)
    BY <2>1, OffsetWords
  <2>3. ASSUME NEW c \in ObjectsOf(m), m[a + 8 + o] = Ptr(c) PROVE c \in Led(m, p)
    <3>1. PICK path : Leads(m, p, path, a)
      BY DEF Led
    <3>2. Leads(m, p, Append(path, o), c)
      BY <2>3, <3>1, NextStep
    <3> QED BY <3>2 DEF Led
  <2> QED BY <2>2, <2>3
<1> QED BY <1>1, <1>2

\* A tree none of whose words change denotes the same value.
LEMMA ValueKept ==
  ASSUME NEW m, NEW r, NEW low, Forest(m, r, low), NEW n, NEW r2, NEW high, Forest(n, r2, high),
         NEW t \in Slots, r[t] # Null, r2[t] = r[t], ObjectsOf(m) \subseteq ObjectsOf(n),
         \A a \in Led(m, r[t]) : /\ TypeAt(n, a) = TypeAt(m, a) /\ LenAt(n, a) = LenAt(m, a)
                                 /\ \A o \in Offsets(m, a) : n[a + 8 + o] = m[a + 8 + o]
  PROVE  ValueAt(n, r2[t]) = ValueAt(m, r[t])
<1>1. HeapIn(m, low) /\ r[t] \in ObjectsOf(m)
  BY DEF Forest
<1>2. PICK p \in ObjectsOf(m) : p = r[t]
  BY <1>1
<1>3. PICK f : f = [a \in ObjectsOf(m) |-> a]
  OBVIOUS
<1>4. PICK C : C = Led(m, p)
  OBVIOUS
<1>5. /\ p \in C
      /\ \A a \in C : \A o \in Offsets(m, a) : m[a + 8 + o] = Nil \/ \E c \in C : m[a + 8 + o] = Ptr(c)
  BY <1>1, <1>4, LedClosed
<1>6. C \in SUBSET ObjectsOf(m) /\ \A a \in C : f[a] = a /\ f[a] \in ObjectsOf(n)
  BY <1>3, <1>4 DEF Led
<1>7. \A a \in C : /\ TypeAt(n, a) = TypeAt(m, a) /\ LenAt(n, a) = LenAt(m, a)
                   /\ \A o \in Offsets(m, a) : n[a + 8 + o] = m[a + 8 + o]
  BY <1>2, <1>4
<1>8. Image(f, C, m, n)
  BY <1>5, <1>6, <1>7 DEF Image
<1>9. r[t] \in C /\ r2[t] = f[r[t]] /\ r2[t] # Null
  BY <1>2, <1>5, <1>6
<1>10. Mirrors(f, C, m, n, r, r2, t)
  BY <1>8, <1>9 DEF Mirrors
<1> QED BY <1>10, ImageValue

\* Writing a box of one tree leaves the others as they are.
LEMMA OtherKept ==
  ASSUME NEW m, NEW n, NEW r, NEW r2, NEW low, NEW s, NEW before, NEW d, NEW ob, NEW word,
         Writes(m, n, r, r2, low, s, before, d, ob, word), word = Nil \/ (\E c \in ObjectsOf(m) : word = Ptr(c)),
         NEW t \in Slots, t # s, r[t] # Null, r2[t] = r[t]
  PROVE  ValueAt(n, r2[t]) = ValueAt(m, r[t])
<1> /\ Forest(m, r, low) /\ Forest(n, r2, low) /\ s \in Slots /\ r[s] # Null /\ r2[s] = r[s]
    /\ before \in Seq(Nat) /\ d \in ObjectsOf(m) /\ Leads(m, r[s], before, d) /\ ob \in Offsets(m, d)
    /\ n = Written(m, d + 8 + ob, word)
  BY DEF Writes
<1>1. HeapIn(m, low) /\ d \in ObjectsOf(m)
  BY DEF Forest, Leads
<1>2. /\ SameShape(m, n)
      /\ \A c \in ObjectsOf(m) : \A o \in Offsets(m, c) :
           n[c + 8 + o] = IF c = d /\ o = ob THEN word ELSE m[c + 8 + o]
  BY <1>1, BoxRewritten
<1>3. d \notin Led(m, r[t])
  <2> SUFFICES ASSUME d \in Led(m, r[t]) PROVE FALSE
    OBVIOUS
  <2>1. PICK path : Leads(m, r[t], path, d)
    BY DEF Led
  <2>2. s = t
    BY <2>1, SamePath
  <2> QED BY <2>2
<1>4. \A a \in Led(m, r[t]) : /\ TypeAt(n, a) = TypeAt(m, a) /\ LenAt(n, a) = LenAt(m, a)
                              /\ \A o \in Offsets(m, a) : n[a + 8 + o] = m[a + 8 + o]
  BY <1>2, <1>3 DEF Led, SameShape
<1>5. ObjectsOf(m) \subseteq ObjectsOf(n)
  BY <1>2 DEF SameShape
<1> QED BY <1>4, <1>5, ValueKept

\* The program gets at the objects that its roots lead to, and at no others.
LEMMA BelowLeads ==
  ASSUME NEW low, HeapIn(mem, low), NEW p \in ObjectsOf(mem), NEW a \in Below(p)
  PROVE  a \in Led(mem, p)
<1>1. PICK m : m = mem
  OBVIOUS
<1>2. PICK S : S = Led(m, p)
  OBVIOUS
<1>3. HeapIn(m, low) /\ p \in ObjectsOf(m)
  BY <1>1
<1>4. /\ p \in S
      /\ \A c \in S : \A o \in Offsets(m, c) : m[c + 8 + o] = Nil \/ \E e \in S : m[c + 8 + o] = Ptr(e)
  BY <1>2, <1>3, LedClosed
<1>5. S \in SUBSET ObjectsOf(m)
  BY <1>2 DEF Led
<1>6. ASSUME NEW c \in S, NEW x \in Targets(BoxesOf(m, c)) PROVE x \in S
  <2>1. PICK b \in BoxesOf(m, c) : Refers(m, WordAt(m, b)) /\ x = WordAt(m, b)[2]
    BY <1>1 DEF Targets
  <2>2. PICK o \in Offsets(m, c) : b = c + 8 + o
    BY DEF BoxesOf, Offsets, Metadata, Word
  <2>3. c \in ObjectsOf(m)
    BY <1>5
  <2>4. WordAt(m, b) = m[b]
    BY <1>3, <2>2, <2>3, OffsetWords
  <2>5. m[b] # Nil
    BY <2>1, <2>4 DEF Refers, Nil
  <2>6. PICK e \in S : m[b] = Ptr(e)
    BY <1>4, <2>2, <2>5
  <2>7. x = e
    BY <2>1, <2>4, <2>6 DEF Ptr
  <2> QED BY <2>6, <2>7
<1>7. \A c \in S : Targets(BoxesOf(mem, c)) \subseteq S
  BY <1>1, <1>6
<1>8. S \in SUBSET {c \in Addresses : IsObject(mem, c)}
  BY <1>1, <1>5 DEF ObjectsOf
<1>9. a \in S
  BY <1>4, <1>7, <1>8 DEF Below
<1> QED BY <1>1, <1>2, <1>9

-----------------------------------------------------------------------------
(* Every object has one reference, in a root or in a box: the invariant. *)

TreeInv == IInv /\ DOMAIN roots = Slots /\ Single(mem, roots) /\ Intact(mem)

\* The invariant is about the whole space.
LEMMA TreeForest == TreeInv => Forest(mem, roots, base)
<1> SUFFICES ASSUME TreeInv PROVE Forest(mem, roots, base)
  OBVIOUS
<1>1. base \in {0, Space} /\ base \in Nat /\ base + Space \in Nat
  BY TypesAssumption DEF TreeInv, IInv
<1>2. HeapOK(mem, base, base + Space)
  <2>1. CASE gpc = "idle"
    <3>1. HeapOK(mem, base, top) /\ top \in Nat /\ top <= base + Space
      BY <2>1, <1>1 DEF TreeInv, IInv
    <3> QED BY <1>1, <3>1, HeapWider
  <2>2. CASE gpc # "idle"
    BY <2>2 DEF TreeInv, IInv
  <2> QED BY <2>1, <2>2
<1>3. \A s \in Slots : roots[s] # Null => roots[s] \in ObjectsOf(mem)
  BY DEF TreeInv, IInv
<1> QED BY <1>1, <1>2, <1>3 DEF TreeInv, Forest, HeapIn

\* A root that goes into a box is given up: there is one reference to what it referred to.
LEMMA WriteForest ==
  ASSUME NEW m, NEW r, NEW low, Forest(m, r, low), NEW d \in ObjectsOf(m), NEW ob \in Offsets(m, d),
         NEW word, NEW n, n = Written(m, d + 8 + ob, word), NEW r2,
         word = Nil \/ (\E t \in Slots : r[t] # Null /\ word = Ptr(r[t]) /\ r2[t] = Null),
         \A t \in Slots : r2[t] # Null => r2[t] = r[t]
  PROVE  Forest(n, r2, low)
<1>1. HeapIn(m, low) /\ Intact(m) /\ \A t \in Slots : r[t] # Null => r[t] \in ObjectsOf(m)
  BY DEF Forest
<1>2. word = Nil \/ (\E c \in ObjectsOf(m) : word = Ptr(c))
  BY <1>1
<1>3. /\ HeapIn(n, low) /\ SameShape(m, n) /\ Intact(n)
      /\ \A c \in ObjectsOf(m) : \A o \in Offsets(m, c) :
           n[c + 8 + o] = IF c = d /\ o = ob THEN word ELSE m[c + 8 + o]
  BY <1>1, <1>2, BoxRewritten
<1>4. ObjectsOf(n) = ObjectsOf(m) /\ \A c \in ObjectsOf(m) : Offsets(n, c) = Offsets(m, c)
  BY <1>3 DEF SameShape
<1>5. /\ \A s, t \in Slots : r[s] = r[t] /\ r[s] # Null => s = t
      /\ \A a, c \in ObjectsOf(m) : \A o \in Offsets(m, a), e \in Offsets(m, c) :
           m[a + 8 + o] = m[c + 8 + e] /\ m[a + 8 + o] # Nil => a = c /\ o = e
      /\ \A s \in Slots : \A a \in ObjectsOf(m) : \A o \in Offsets(m, a) : r[s] # Null => m[a + 8 + o] # Ptr(r[s])
  BY DEF Forest, Single
<1>6. \A s, t \in Slots : r2[s] = r2[t] /\ r2[s] # Null => s = t
  BY <1>5
<1>7. \A a \in ObjectsOf(m) : \A o \in Offsets(m, a) : word # Nil => m[a + 8 + o] # word
  BY <1>5
<1>8. ASSUME NEW a \in ObjectsOf(m), NEW c \in ObjectsOf(m), NEW o \in Offsets(m, a), NEW e \in Offsets(m, c),
             n[a + 8 + o] = n[c + 8 + e], n[a + 8 + o] # Nil
      PROVE  a = c /\ o = e
  <2>1. n[a + 8 + o] = (IF a = d /\ o = ob THEN word ELSE m[a + 8 + o])
    BY <1>3
  <2>2. n[c + 8 + e] = (IF c = d /\ e = ob THEN word ELSE m[c + 8 + e])
    BY <1>3
  <2>3. m[a + 8 + o] = m[c + 8 + e] /\ m[a + 8 + o] # Nil => a = c /\ o = e
    BY <1>5
  <2>4. (word # Nil => m[a + 8 + o] # word) /\ (word # Nil => m[c + 8 + e] # word)
    BY <1>7
  <2> QED BY <1>8, <2>1, <2>2, <2>3, <2>4
<1>9. ASSUME NEW s \in Slots, NEW a \in ObjectsOf(m), NEW o \in Offsets(m, a), r2[s] # Null
      PROVE  n[a + 8 + o] # Ptr(r2[s])
  <2>1. n[a + 8 + o] = (IF a = d /\ o = ob THEN word ELSE m[a + 8 + o])
    BY <1>3
  <2>2. r2[s] = r[s] /\ m[a + 8 + o] # Ptr(r[s])
    BY <1>5, <1>9
  <2>3. word # Ptr(r[s])
    <3>1. Nil # Ptr(r[s])
      BY DEF Nil, Ptr
    <3>2. ASSUME NEW t \in Slots, r[t] # Null, word = Ptr(r[t]), r2[t] = Null, word = Ptr(r[s]) PROVE FALSE
      <4>1. r[s] = r[t]
        BY <3>2 DEF Ptr
      <4>2. s = t
        BY <1>5, <3>2, <4>1
      <4> QED BY <1>9, <3>2, <4>2
    <3> QED BY <3>1, <3>2
  <2> QED BY <2>1, <2>2, <2>3
<1>10. Single(n, r2)
  BY <1>4, <1>6, <1>8, <1>9 DEF Single
<1>11. \A s \in Slots : r2[s] # Null => r2[s] \in ObjectsOf(n)
  BY <1>1, <1>4
<1> QED BY <1>3, <1>10, <1>11 DEF Forest

\* A root that is dropped takes nothing with it.
LEMMA DropForest ==
  ASSUME NEW m, NEW r, NEW low, Forest(m, r, low), NEW r2, \A t \in Slots : r2[t] # Null => r2[t] = r[t]
  PROVE  Forest(m, r2, low)
BY DEF Forest, Single

Widens(m, n, low, high, size, desc, len) ==
  /\ HeapOK(m, low, high) /\ low \in {0, Space} /\ high \in Nat /\ size \in Nat /\ high + size <= low + Space
  /\ Grows(m, n, low, high, size, desc, len)

\* Objects that were there before an allocation are as they were.
LEMMA GrowKept ==
  ASSUME NEW m, NEW low, NEW high, NEW n, NEW size, NEW desc, NEW len, Widens(m, n, low, high, size, desc, len)
  PROVE  /\ HeapIn(m, low) /\ HeapIn(n, low)
         /\ \A c \in ObjectsOf(m) :
              /\ TypeAt(n, c) = TypeAt(m, c) /\ LenAt(n, c) = LenAt(m, c) /\ Offsets(n, c) = Offsets(m, c)
              /\ \A x \in Addresses : x < c + SizeAt(m, c) => n[x] = m[x]
              /\ \A o \in Offsets(m, c) : n[c + 8 + o] = m[c + 8 + o]
<1>1. /\ HeapOK(m, low, high) /\ low \in {0, Space} /\ high \in Nat /\ size \in Nat /\ high + size <= low + Space
      /\ HeapOK(n, low, high + size) /\ Space \in Nat
  BY TypesAssumption DEF Widens, Grows
<1>2. /\ \A c \in ObjectsOf(m) : TypeAt(n, c) = TypeAt(m, c) /\ LenAt(n, c) = LenAt(m, c)
      /\ \A x \in Addresses : x < high => n[x] = m[x]
  BY DEF Widens, Grows
<1>3. low \in Nat /\ low + Space \in Nat /\ high + size \in Nat /\ high <= low + Space
  BY <1>1
<1>4. HeapIn(m, low) /\ HeapIn(n, low)
  <2>1. HeapOK(m, low, low + Space)
    BY <1>1, <1>3, HeapWider
  <2>2. HeapOK(n, low, low + Space)
    BY <1>1, <1>3, HeapWider
  <2> QED BY <1>1, <2>1, <2>2 DEF HeapIn
<1>5. ASSUME NEW c \in ObjectsOf(m)
      PROVE  /\ \A x \in Addresses : x < c + SizeAt(m, c) => n[x] = m[x]
             /\ \A o \in Offsets(m, c) : n[c + 8 + o] = m[c + 8 + o]
  <2>1. c \in Nat /\ SizeAt(m, c) \in Nat
    BY <1>1, ObjectFacts
  <2>2. c + SizeAt(m, c) <= high
    BY <1>1 DEF HeapOK
  <2>3. ASSUME NEW x \in Addresses, x < c + SizeAt(m, c) PROVE n[x] = m[x]
    <3>1. x \in Nat
      BY <1>1 DEF Addresses
    <3>2. x < high
      BY <1>1, <2>1, <2>2, <2>3, <3>1
    <3> QED BY <1>2, <3>2
  <2>4. ASSUME NEW o \in Offsets(m, c) PROVE n[c + 8 + o] = m[c + 8 + o]
    <3>1. o \in Nat /\ c + 8 + o \in Addresses /\ o + 16 <= SizeAt(m, c)
      BY <1>4, OffsetWords
    <3>2. c + 8 + o < c + SizeAt(m, c)
      BY <2>1, <3>1
    <3> QED BY <2>3, <3>1, <3>2
  <2> QED BY <2>3, <2>4
<1>6. \A c \in ObjectsOf(m) : Offsets(n, c) = Offsets(m, c)
  BY <1>2 DEF Offsets
<1> QED BY <1>2, <1>4, <1>5, <1>6

\* A new object is a tree of its own.
LEMMA GrowForest ==
  ASSUME NEW m, NEW r, NEW low, Forest(m, r, low), NEW high, NEW n, NEW size, NEW desc, NEW len,
         Widens(m, n, low, high, size, desc, len), NEW s \in Slots, NEW r2,
         r2[s] = high, \A t \in Slots : t # s => r2[t] = r[t]
  PROVE  Forest(n, r2, low)
<1>1. /\ HeapIn(m, low) /\ HeapIn(n, low)
      /\ \A c \in ObjectsOf(m) :
           /\ TypeAt(n, c) = TypeAt(m, c) /\ LenAt(n, c) = LenAt(m, c) /\ Offsets(n, c) = Offsets(m, c)
           /\ \A x \in Addresses : x < c + SizeAt(m, c) => n[x] = m[x]
           /\ \A o \in Offsets(m, c) : n[c + 8 + o] = m[c + 8 + o]
  BY GrowKept
<1>2. /\ ObjectsOf(n) = ObjectsOf(m) \cup {high} /\ high \notin ObjectsOf(m)
      /\ TypeAt(n, high) = desc /\ LenAt(n, high) = len /\ \A b \in BoxesOf(n, high) : n[b] = Nil
      /\ \A o \in 0 .. DynamicSize(desc, len) - 1 : o % 8 = 0 /\ o \notin PointersOf(desc, len) =>
           high + 8 + o \in Addresses /\ n[high + 8 + o] # Nil
  BY DEF Widens, Grows
<1>3. \A o \in Offsets(n, high) : n[high + 8 + o] = Nil
  <2>1. \A o \in Offsets(n, high) : high + 8 + o \in BoxesOf(n, high)
    BY <1>1, <1>2, OffsetWords
  <2> QED BY <1>2, <2>1
<1>4. /\ \A a, c \in Slots : r[a] = r[c] /\ r[a] # Null => a = c
      /\ \A a, c \in ObjectsOf(m) : \A o \in Offsets(m, a), e \in Offsets(m, c) :
           m[a + 8 + o] = m[c + 8 + e] /\ m[a + 8 + o] # Nil => a = c /\ o = e
      /\ \A t \in Slots : \A a \in ObjectsOf(m) : \A o \in Offsets(m, a) : r[t] # Null => m[a + 8 + o] # Ptr(r[t])
      /\ \A t \in Slots : r[t] # Null => r[t] \in ObjectsOf(m)
  BY DEF Forest, Single
<1>5. \A a, c \in Slots : r2[a] = r2[c] /\ r2[a] # Null => a = c
  BY <1>2, <1>4
<1>6. ASSUME NEW a \in ObjectsOf(n), NEW c \in ObjectsOf(n), NEW o \in Offsets(n, a), NEW e \in Offsets(n, c),
             n[a + 8 + o] = n[c + 8 + e], n[a + 8 + o] # Nil
      PROVE  a = c /\ o = e
  <2>1. a # high /\ c # high
    BY <1>3, <1>6
  <2>2. a \in ObjectsOf(m) /\ c \in ObjectsOf(m)
    BY <1>2, <2>1
  <2>3. o \in Offsets(m, a) /\ e \in Offsets(m, c) /\ n[a + 8 + o] = m[a + 8 + o] /\ n[c + 8 + e] = m[c + 8 + e]
    BY <1>1, <2>2
  <2>4. m[a + 8 + o] = m[c + 8 + e] /\ m[a + 8 + o] # Nil => a = c /\ o = e
    BY <1>4, <2>2, <2>3
  <2> QED BY <1>6, <2>3, <2>4
<1>7. ASSUME NEW t \in Slots, NEW a \in ObjectsOf(n), NEW o \in Offsets(n, a), r2[t] # Null
      PROVE  n[a + 8 + o] # Ptr(r2[t])
  <2>1. CASE a = high
    <3>1. n[a + 8 + o] = Nil
      BY <1>3, <2>1
    <3> QED BY <3>1 DEF Nil, Ptr
  <2>2. CASE a # high
    <3>1. a \in ObjectsOf(m)
      BY <1>2, <2>2
    <3>2. o \in Offsets(m, a) /\ n[a + 8 + o] = m[a + 8 + o]
      BY <1>1, <3>1
    <3>3. CASE t = s
      <4>1. m[a + 8 + o] = Nil \/ \E c \in ObjectsOf(m) : m[a + 8 + o] = Ptr(c)
        BY <1>1, <3>1, <3>2, OffsetWords
      <4>2. r2[t] \notin ObjectsOf(m)
        BY <1>2, <3>3
      <4> QED BY <3>2, <4>1, <4>2 DEF Nil, Ptr
    <3>4. CASE t # s
      BY <1>4, <1>7, <3>1, <3>2, <3>4
    <3> QED BY <3>3, <3>4
  <2> QED BY <2>1, <2>2
<1>8. Single(n, r2)
  BY <1>5, <1>6, <1>7 DEF Single
<1>9. ASSUME NEW a \in ObjectsOf(n), NEW o \in PlainOf(n, a) PROVE WordAt(n, a + 8 + o) # Nil
  <2>1. CASE a = high
    <3>1. high + 8 + o \in Addresses /\ n[high + 8 + o] # Nil
      BY <1>2, <2>1 DEF PlainOf, Offsets, Word
    <3> QED BY <2>1, <3>1 DEF WordAt, Data, Nil
  <2>2. CASE a # high
    <3>1. a \in ObjectsOf(m)
      BY <1>2, <2>2
    <3>2. o \in PlainOf(m, a)
      BY <1>1, <3>1 DEF PlainOf
    <3>3. WordAt(m, a + 8 + o) # Nil
      BY <3>1, <3>2 DEF Forest, Intact
    <3>4. HeapOK(m, low, low + Space) /\ HeapOK(n, low, low + Space)
      BY <1>1 DEF HeapIn
    <3>5. DOMAIN m = Addresses /\ DOMAIN n = Addresses
      BY <3>4 DEF HeapOK
    <3>6. /\ a \in Nat /\ TypeAt(m, a) \in Descriptors /\ LenAt(m, a) \in Nat /\ SizeAt(m, a) \in Nat
          /\ SizeAt(m, a) = DynamicSize(TypeAt(m, a), LenAt(m, a)) + 8
      BY <3>1, <3>4, ObjectFacts
    <3>7. PICK bytes \in Nat : bytes = DynamicSize(TypeAt(m, a), LenAt(m, a))
      BY <3>6, OffsetsBound
    <3>8. o \in Nat /\ o < bytes
      BY <3>2, <3>7 DEF PlainOf
    <3>9. PICK x : x = a + 8 + o
      OBVIOUS
    <3>10. x < a + SizeAt(m, a)
      BY <3>6, <3>7, <3>8, <3>9
    <3>11. WordAt(n, x) = WordAt(m, x)
      BY <1>1, <3>1, <3>5, <3>10 DEF WordAt
    <3> QED BY <3>3, <3>9, <3>11
  <2> QED BY <2>1, <2>2
<1>10. Intact(n)
  BY <1>9 DEF Intact
<1>11. \A t \in Slots : r2[t] # Null => r2[t] \in ObjectsOf(n)
  BY <1>2, <1>4
<1> QED BY <1>1, <1>8, <1>10, <1>11 DEF Forest

\* A new root denotes a single node.
LEMMA GrowValue ==
  ASSUME NEW m, NEW r, NEW low, Forest(m, r, low), NEW high, NEW n, NEW size, NEW desc, NEW len,
         Widens(m, n, low, high, size, desc, len), NEW s \in Slots, NEW r2, r2[s] = high, r2[s] # Null,
         \A t \in Slots : t # s => r2[t] = r[t]
  PROVE  /\ ValueAt(n, r2[s]) = {NodeWith(<<>>, desc, len, PointersOf(desc, len))}
         /\ \A t \in Slots : t # s => ValueAt(n, r2[t]) = ValueAt(m, r[t])
<1>1. Forest(n, r2, low)
  BY GrowForest
<1>2. /\ HeapIn(n, low)
      /\ \A c \in ObjectsOf(m) :
           /\ TypeAt(n, c) = TypeAt(m, c) /\ LenAt(n, c) = LenAt(m, c)
           /\ \A o \in Offsets(m, c) : n[c + 8 + o] = m[c + 8 + o]
  BY GrowKept
<1>3. /\ ObjectsOf(n) = ObjectsOf(m) \cup {high} /\ high \in ObjectsOf(n)
      /\ TypeAt(n, high) = desc /\ LenAt(n, high) = len /\ \A b \in BoxesOf(n, high) : n[b] = Nil
  BY DEF Widens, Grows
<1>4. ASSUME NEW t \in Slots, t # s PROVE ValueAt(n, r2[t]) = ValueAt(m, r[t])
  <2>1. r2[t] = r[t]
    BY <1>4
  <2>2. CASE r[t] = Null
    <3>1. ValueAt(n, r2[t]) = {} /\ ValueAt(m, r[t]) = {}
      BY <2>1, <2>2 DEF ValueAt
    <3> QED BY <3>1
  <2>3. CASE r[t] # Null
    <3>1. ObjectsOf(m) \subseteq ObjectsOf(n)
      BY <1>3
    <3>2. \A a \in Led(m, r[t]) : /\ TypeAt(n, a) = TypeAt(m, a) /\ LenAt(n, a) = LenAt(m, a)
                                  /\ \A o \in Offsets(m, a) : n[a + 8 + o] = m[a + 8 + o]
      BY <1>2 DEF Led
    <3> QED BY <1>1, <2>1, <2>3, <3>1, <3>2, ValueKept
  <2> QED BY <2>2, <2>3
<1>5. ValueHas(n, r2[s])
  BY <1>1, ValueNodes
<1>6. Leads(n, high, <<>>, high)
  BY <1>2, <1>3, LeadsStart
<1>7. \A path \in Seq(Nat) : \A a : Leads(n, high, path, a) => path = <<>> /\ a = high
  <2> DEFINE S == {path \in Seq(Nat) : \A a : Leads(n, high, path, a) => path = <<>> /\ a = high}
  <2>1. <<>> \in S
    <3>1. \A a : Leads(n, high, <<>>, a) <=> a = high
      BY <1>2, <1>3, LeadsStart
    <3>2. <<>> \in Seq(Nat)
      OBVIOUS
    <3> QED BY <3>1, <3>2
  <2>2. ASSUME NEW path \in S, NEW o \in Nat PROVE Append(path, o) \in S
    <3>1. /\ path \in Seq(Nat) /\ Append(path, o) \in Seq(Nat)
          /\ \A a : Leads(n, high, path, a) => path = <<>> /\ a = high
      OBVIOUS
    <3> SUFFICES ASSUME NEW a, Leads(n, high, Append(path, o), a) PROVE FALSE
      BY <3>1
    <3> HIDE DEF S
    <3>2. PICK c \in ObjectsOf(n) : Leads(n, high, path, c) /\ o \in Offsets(n, c) /\ n[c + 8 + o] = Ptr(a)
      BY <1>2, <1>3, <3>1, LastStep
    <3>3. c = high
      BY <3>1, <3>2
    <3>4. high + 8 + o \in BoxesOf(n, high)
      BY <1>2, <1>3, <3>2, <3>3, OffsetWords
    <3>5. n[c + 8 + o] = Nil
      BY <1>3, <3>3, <3>4
    <3> QED BY <3>2, <3>5 DEF Ptr, Nil
  <2>3. S \in SUBSET Seq(Nat)
    OBVIOUS
  <2>4. \A path \in Seq(Nat) : path \in S
    <3> HIDE DEF S
    <3> QED BY <2>1, <2>2, <2>3, PathInduction
  <2> QED BY <2>4
<1>8. NodeOf(n, <<>>, high) = NodeWith(<<>>, desc, len, PointersOf(desc, len))
  BY <1>3 DEF NodeOf, Offsets
<1>9. \A x : x \in ValueAt(n, r2[s]) <=> x = NodeOf(n, <<>>, high)
  <2>1. \A x : x \in ValueAt(n, high) <=>
          \E path \in Seq(Nat), a \in ObjectsOf(n) : Leads(n, high, path, a) /\ x = NodeOf(n, path, a)
    BY <1>5 DEF ValueHas
  <2>2. <<>> \in Seq(Nat)
    OBVIOUS
  <2>3. ASSUME NEW x \in ValueAt(n, high) PROVE x = NodeOf(n, <<>>, high)
    <3>1. PICK path \in Seq(Nat), a \in ObjectsOf(n) : Leads(n, high, path, a) /\ x = NodeOf(n, path, a)
      BY <2>1
    <3>2. path = <<>> /\ a = high
      BY <1>7, <3>1
    <3> QED BY <3>1, <3>2
  <2>4. NodeOf(n, <<>>, high) \in ValueAt(n, high)
    BY <1>3, <1>6, <2>1, <2>2
  <2> QED BY <2>3, <2>4
<1> QED BY <1>4, <1>8, <1>9

\* The image of a forest is a forest.
LEMMA ImageForest ==
  ASSUME NEW m, NEW r, NEW low, Forest(m, r, low), NEW n, NEW high, HeapIn(n, high), Intact(n),
         NEW f, NEW C, Image(f, C, m, n), ObjectsOf(n) = {f[c] : c \in C}, \A a, c \in C : f[a] = f[c] => a = c,
         NEW r2, \A s \in Slots : (r[s] = Null /\ r2[s] = Null) \/ (r[s] # Null /\ r[s] \in C /\ r2[s] = f[r[s]])
  PROVE  Forest(n, r2, high)
<1>1. /\ \A s, t \in Slots : r[s] = r[t] /\ r[s] # Null => s = t
      /\ \A a, c \in ObjectsOf(m) : \A o \in Offsets(m, a), e \in Offsets(m, c) :
           m[a + 8 + o] = m[c + 8 + e] /\ m[a + 8 + o] # Nil => a = c /\ o = e
      /\ \A s \in Slots : \A a \in ObjectsOf(m) : \A o \in Offsets(m, a) : r[s] # Null => m[a + 8 + o] # Ptr(r[s])
  BY DEF Forest, Single
<1>2. /\ C \in SUBSET ObjectsOf(m)
      /\ \A a \in C : /\ f[a] \in ObjectsOf(n) /\ Offsets(n, f[a]) = Offsets(m, a)
                      /\ \A o \in Offsets(m, a) :
                           \/ m[a + 8 + o] = Nil /\ n[f[a] + 8 + o] = Nil
                           \/ \E c \in C : m[a + 8 + o] = Ptr(c) /\ n[f[a] + 8 + o] = Ptr(f[c])
  BY DEF Image, Offsets
<1>3. \A s, t \in Slots : r2[s] = r2[t] /\ r2[s] # Null => s = t
  <2> SUFFICES ASSUME NEW s \in Slots, NEW t \in Slots, r2[s] = r2[t], r2[s] # Null PROVE s = t
    OBVIOUS
  <2>1. r[s] \in C /\ r[t] \in C /\ r[s] # Null /\ f[r[s]] = f[r[t]]
    OBVIOUS
  <2>2. r[s] = r[t]
    BY <2>1
  <2> QED BY <1>1, <2>1, <2>2
<1>4. ASSUME NEW x \in ObjectsOf(n), NEW y \in ObjectsOf(n), NEW o \in Offsets(n, x), NEW e \in Offsets(n, y),
             n[x + 8 + o] = n[y + 8 + e], n[x + 8 + o] # Nil
      PROVE  x = y /\ o = e
  <2>1. PICK a \in C, c \in C : x = f[a] /\ y = f[c]
    OBVIOUS
  <2>2. o \in Offsets(m, a) /\ e \in Offsets(m, c)
    BY <1>2, <2>1
  <2>3. PICK a2 \in C : m[a + 8 + o] = Ptr(a2) /\ n[x + 8 + o] = Ptr(f[a2])
    BY <1>2, <1>4, <2>1, <2>2
  <2>4. PICK c2 \in C : m[c + 8 + e] = Ptr(c2) /\ n[y + 8 + e] = Ptr(f[c2])
    <3>1. \/ m[c + 8 + e] = Nil /\ n[f[c] + 8 + e] = Nil
          \/ \E c2 \in C : m[c + 8 + e] = Ptr(c2) /\ n[f[c] + 8 + e] = Ptr(f[c2])
      BY <1>2, <2>2
    <3>2. n[y + 8 + e] # Nil
      BY <1>4
    <3> QED BY <2>1, <3>1, <3>2
  <2>5. f[a2] = f[c2]
    <3>1. Ptr(f[a2]) = Ptr(f[c2])
      BY <1>4, <2>3, <2>4
    <3> QED BY <3>1 DEF Ptr
  <2>6. a2 = c2
    BY <2>5
  <2>7. m[a + 8 + o] = m[c + 8 + e] /\ m[a + 8 + o] # Nil
    BY <2>3, <2>4, <2>6 DEF Ptr, Nil
  <2>8. a = c /\ o = e
    BY <1>1, <1>2, <2>2, <2>7
  <2> QED BY <2>1, <2>8
<1>5. ASSUME NEW s \in Slots, NEW x \in ObjectsOf(n), NEW o \in Offsets(n, x), r2[s] # Null
      PROVE  n[x + 8 + o] # Ptr(r2[s])
  <2> SUFFICES ASSUME n[x + 8 + o] = Ptr(r2[s]) PROVE FALSE
    OBVIOUS
  <2>1. PICK a \in C : x = f[a]
    OBVIOUS
  <2>2. o \in Offsets(m, a) /\ Ptr(r2[s]) # Nil
    BY <1>2, <2>1 DEF Ptr, Nil
  <2>3. PICK c \in C : m[a + 8 + o] = Ptr(c) /\ n[x + 8 + o] = Ptr(f[c])
    BY <1>2, <2>1, <2>2
  <2>4. r[s] # Null /\ r[s] \in C /\ r2[s] = f[r[s]]
    BY <1>5
  <2>5. f[c] = f[r[s]]
    BY <2>3, <2>4 DEF Ptr
  <2>6. c = r[s]
    BY <2>4, <2>5
  <2> QED BY <1>1, <1>2, <2>2, <2>3, <2>4, <2>6
<1>6. Single(n, r2)
  BY <1>3, <1>4, <1>5 DEF Single
<1>7. \A s \in Slots : r2[s] # Null => r2[s] \in ObjectsOf(n)
  BY <1>2
<1> QED BY <1>6, <1>7 DEF Forest

\* What a cycle leaves behind is the image of what it found, and nothing else.
LEMMA MovedImage ==
  ASSUME NEW types \in SUBSET Descriptors, StaticTypes \subseteq types, Upright(types),
         IInv, gpc = "mark", mark_stack = {}, Intact(mem),
         NEW m, m = mem, NEW n, n = MovedMem,
         NEW C, C = DOMAIN records, NEW f, f = [p \in C |-> records[p].dest]
  PROVE  /\ Image(f, C, m, n) /\ Intact(n) /\ ObjectsOf(n) = {f[c] : c \in C}
         /\ \A a, c \in C : f[a] = f[c] => a = c
<1>1. ObjectsOf(n) = {f[c] : c \in C}
  BY MovedHeap
<1>2. \A a, c \in C : f[a] = f[c] => a = c
  <2> SUFFICES ASSUME NEW a \in C, NEW c \in C, f[a] = f[c] PROVE a = c
    OBVIOUS
  <2>1. PICK x \in Nat : x = records[a].dest /\ x = records[c].dest
    BY RecordFacts
  <2>2. /\ records[a].dest <= x /\ x < records[a].dest + records[a].size
        /\ records[c].dest <= x /\ x < records[c].dest + records[c].size
    <3>1. records[a].size \in Nat /\ records[a].size >= 8 /\ records[c].size \in Nat /\ records[c].size >= 8
      BY RecordFacts
    <3> QED BY <2>1, <3>1
  <2> QED BY <2>2, RecordFacts
<1>3. C \in SUBSET ObjectsOf(m) /\ HeapIn(m, base)
  <2>1. HeapOK(mem, base, base + Space) /\ base \in {0, Space}
    BY MarkFacts
  <2>2. \A p \in C : p \in ObjectsOf(mem)
    BY RecordFacts
  <2> QED BY <2>1, <2>2 DEF HeapIn
<1>4. \A p \in C : f[p] = records[p].dest /\ f[p] \in ObjectsOf(n)
  BY <1>1
<1>5. \A p \in C : TypeAt(n, f[p]) = TypeAt(m, p) /\ LenAt(n, f[p]) = LenAt(m, p)
  <2> SUFFICES ASSUME NEW p \in C PROVE TypeAt(n, f[p]) = TypeAt(m, p) /\ LenAt(n, f[p]) = LenAt(m, p)
    OBVIOUS
  <2>1. n[records[p].dest] = mem[p]
    BY MovedObject
  <2>2. TypeAt(n, records[p].dest) = TypeAt(mem, p)
    BY <2>1 DEF TypeAt
  <2>3. TypeAt(mem, p).is_array => n[records[p].dest + 8] = mem[p + 8]
    <3> SUFFICES ASSUME TypeAt(mem, p).is_array PROVE n[records[p].dest + 8] = mem[p + 8]
      OBVIOUS
    <3>1. PICK a \in Addresses : a = records[p].dest + 8 /\ Copied[a] = mem[p + 8] /\ a \notin base .. base + Space - 1
      BY HeaderCopied
    <3>2. mem[p + 8] = Length(LenAt(mem, p))
      BY <1>3, MarkFacts, ObjectFacts
    <3>3. ~HasRecord(Copied[a])
      BY <3>1, <3>2 DEF HasRecord, Length, Ptr
    <3>4. n[a] = Copied[a]
      BY <3>1, <3>3 DEF MovedMem
    <3> QED BY <3>1, <3>4
  <2>4. TypeAt(n, records[p].dest) = TypeAt(mem, p) /\ LenAt(n, records[p].dest) = LenAt(mem, p)
    BY <2>1, <2>3, CopyLayout
  <2> QED BY <1>4, <2>4
<1>6. ASSUME NEW p \in C, NEW k \in Nat, k % 8 = 0, k < records[p].size
      PROVE  /\ p + k \in Addresses /\ f[p] + k \in Addresses /\ f[p] + k \notin base .. base + Space - 1
             /\ Copied[f[p] + k] = m[p + k]
  BY <1>4, <1>6, WordCopied
<1>7. ASSUME NEW p \in C, NEW o \in Offsets(m, p)
      PROVE  \/ m[p + 8 + o] = Nil /\ n[f[p] + 8 + o] = Nil
             \/ \E c \in C : m[p + 8 + o] = Ptr(c) /\ n[f[p] + 8 + o] = Ptr(f[c])
  <2>1. /\ o \in Nat /\ o % 8 = 0 /\ p \in Nat /\ p + 8 + o \in BoxesOf(m, p) /\ o + 16 <= SizeAt(m, p)
        /\ m[p + 8 + o] = Nil \/ \E c \in ObjectsOf(m) : m[p + 8 + o] = Ptr(c)
    BY <1>3, OffsetWords
  <2>2. f[p] \in Nat /\ records[p].size = SizeAt(m, p) /\ records[p].size \in Nat
    BY <1>4, RecordFacts
  <2>3. PICK k \in Nat : k = 8 + o
    BY <2>1
  <2>4. k % 8 = 0 /\ k < records[p].size /\ p + k = p + 8 + o /\ f[p] + k = f[p] + 8 + o
    BY <2>1, <2>2, <2>3
  <2>5. PICK w \in Addresses : w = f[p] + 8 + o /\ w \notin base .. base + Space - 1 /\ Copied[w] = m[p + 8 + o]
    BY <1>6, <2>4
  <2>6. w \in UNION {BoxesOf(Copied, records[q].dest) : q \in DOMAIN records}
    <3>1. TypeAt(Copied, records[p].dest) = TypeAt(mem, p) /\ LenAt(Copied, records[p].dest) = LenAt(mem, p)
      BY BoxesCopied
    <3>2. w \in BoxesOf(Copied, records[p].dest)
      BY <1>4, <2>5, <3>1 DEF BoxesOf, Offsets, Metadata, Word
    <3> QED BY <3>2
  <2>7. n[w] = IF HasRecord(Copied[w]) THEN Ptr(records[Copied[w][2]].dest) ELSE Copied[w]
    BY <2>5, <2>6 DEF MovedMem
  <2>8. CASE m[p + 8 + o] = Nil
    <3>1. ~HasRecord(Nil)
      BY DEF HasRecord, Nil, Ptr
    <3> QED BY <2>5, <2>7, <2>8, <3>1
  <2>9. ASSUME NEW c \in ObjectsOf(m), m[p + 8 + o] = Ptr(c) PROVE c \in C /\ n[f[p] + 8 + o] = Ptr(f[c])
    <3>1. c \in C
      BY <2>1, <2>9, MarkFacts DEF MarkOK, Marked
    <3>2. HasRecord(Copied[w]) /\ Copied[w][2] = c
      BY <2>5, <2>9, <3>1 DEF HasRecord, Ptr
    <3> QED BY <1>4, <2>5, <2>7, <3>1, <3>2
  <2> QED BY <2>1, <2>8, <2>9
<1>8. Image(f, C, m, n)
  BY <1>3, <1>4, <1>5, <1>7 DEF Image
<1>9. ASSUME NEW x \in ObjectsOf(n), NEW o \in PlainOf(n, x) PROVE WordAt(n, x + 8 + o) # Nil
  <2>1. PICK p \in C : x = f[p]
    BY <1>1
  <2>2. o \in PlainOf(m, p) /\ p \in ObjectsOf(m)
    BY <1>3, <1>5, <2>1 DEF PlainOf, Offsets
  <2>3. WordAt(m, p + 8 + o) # Nil
    BY <2>2 DEF Intact
  <2>4. /\ p \in Nat /\ f[p] \in Nat /\ records[p].size = SizeAt(m, p) /\ records[p].size \in Nat
    BY <1>4, RecordFacts
  <2>5. /\ TypeAt(m, p) \in Descriptors /\ LenAt(m, p) \in Nat /\ SizeAt(m, p) = DynamicSize(TypeAt(m, p), LenAt(m, p)) + 8
    BY <2>2, MarkFacts, ObjectFacts
  <2>6. PICK bytes \in Nat : bytes = DynamicSize(TypeAt(m, p), LenAt(m, p))
    BY <2>5, OffsetsBound
  <2>7. o \in Nat /\ o < bytes /\ o % 8 = 0
    BY <2>2, <2>6 DEF PlainOf, Word
  <2>8. PICK k \in Nat : k = 8 + o
    BY <2>7
  <2>9. k % 8 = 0 /\ k < records[p].size /\ p + k = p + 8 + o /\ f[p] + k = f[p] + 8 + o
    BY <2>4, <2>5, <2>6, <2>7, <2>8
  <2>10. PICK w \in Addresses : /\ w = x + 8 + o /\ w \notin base .. base + Space - 1 /\ Copied[w] = m[p + 8 + o]
                                /\ p + 8 + o \in Addresses
    BY <1>6, <2>1, <2>9
  <2>11. DOMAIN m = Addresses /\ DOMAIN n = Addresses
    BY <1>3 DEF HeapIn, HeapOK, MovedMem
  <2>12. Copied[w] # Nil
    BY <2>3, <2>10, <2>11 DEF WordAt
  <2>13. n[w] # Nil
    BY <2>10, <2>12 DEF MovedMem, Ptr, Nil
  <2> QED BY <2>10, <2>11, <2>13 DEF WordAt
<1>10. Intact(n)
  BY <1>9 DEF Intact
<1> QED BY <1>1, <1>2, <1>8, <1>10

-----------------------------------------------------------------------------
(* Steps of the program, and what they make of the values. *)

Puts(m, n, r, r2, d, ob, word) ==
  /\ d \in ObjectsOf(m) /\ ob \in Offsets(m, d) /\ n = Written(m, d + 8 + ob, word)
  /\ word = Nil \/ \E t \in Slots : r[t] # Null /\ word = Ptr(r[t]) /\ r2[t] = Null
  /\ \A t \in Slots : r2[t] # Null => r2[t] = r[t]

\* The box of an object that a path leads to is a box of the value.
LEMMA LedBox ==
  ASSUME NEW m, NEW r, NEW low, Forest(m, r, low), NEW s \in Slots, r[s] # Null,
         NEW before, NEW d, Leads(m, r[s], before, d), NEW ob \in Offsets(m, d)
  PROVE  /\ Append(before, ob) \in Believed!Boxes(ValueAt(m, r[s]))
         /\ before \in Seq(Nat) /\ ob \in Nat /\ Append(before, ob) \in Seq(Nat)
<1>1. before \in Seq(Nat) /\ d \in ObjectsOf(m) /\ HeapIn(m, low)
  BY DEF Leads, Forest
<1>2. ob \in Nat
  BY <1>1, OffsetWords
<1>3. PICK node : node = NodeOf(m, before, d)
  OBVIOUS
<1>4. node \in ValueAt(m, r[s])
  <2>1. ValueHas(m, r[s])
    BY ValueNodes
  <2> QED BY <1>1, <1>3, <2>1 DEF ValueHas
<1>5. node.path = before /\ node.boxes = Offsets(m, d)
  <2>1. HasFields(node, before, TypeAt(m, d), LenAt(m, d), Offsets(m, d))
    BY <1>3, NodeFields DEF NodeOf
  <2> QED BY <2>1 DEF HasFields
<1>6. Append(before, ob) \in Believed!Boxes(ValueAt(m, r[s]))
  BY <1>4, <1>5 DEF Believed!Boxes
<1> QED BY <1>1, <1>2, <1>6

PutsUnder(m, n, r, r2, low, s, word, u) ==
  /\ Forest(m, r, low) /\ s \in Slots /\ r[s] # Null /\ r2[s] = r[s] /\ PutIn(m, r, s, word, u)
  /\ \E before, d, ob : Leads(m, r[s], before, d) /\ Puts(m, n, r, r2, d, ob, word)

Refilled(v, w, u) == \E box \in Believed!Boxes(v) : w = Believed!Filled(v, box, u)

FillsValue(m, n, r, r2, low, s, u) ==
  /\ Forest(n, r2, low) /\ Refilled(ValueAt(m, r[s]), ValueAt(n, r2[s]), u)
  /\ \A t \in Slots : t # s /\ r2[t] = r[t] => ValueAt(n, r2[t]) = ValueAt(m, r[t])

\* Writing a box of the value of a root, and giving up what goes into it.
LEMMA WriteValues ==
  ASSUME NEW m, NEW n, NEW r, NEW r2, NEW low, NEW s, NEW word, NEW u, PutsUnder(m, n, r, r2, low, s, word, u)
  PROVE  FillsValue(m, n, r, r2, low, s, u)
<1> Forest(m, r, low) /\ s \in Slots /\ r[s] # Null /\ r2[s] = r[s] /\ PutIn(m, r, s, word, u)
  BY DEF PutsUnder
<1>1. PICK before, d, ob : Leads(m, r[s], before, d) /\ Puts(m, n, r, r2, d, ob, word)
  BY DEF PutsUnder
<1>2. /\ d \in ObjectsOf(m) /\ ob \in Offsets(m, d) /\ n = Written(m, d + 8 + ob, word)
      /\ word = Nil \/ \E t \in Slots : r[t] # Null /\ word = Ptr(r[t]) /\ r2[t] = Null
      /\ \A t \in Slots : r2[t] # Null => r2[t] = r[t]
  BY <1>1 DEF Puts
<1>3. Forest(n, r2, low)
  BY <1>2, WriteForest
<1>4. PICK box : box = Append(before, ob)
  OBVIOUS
<1>5. box \in Believed!Boxes(ValueAt(m, r[s])) /\ box \in Seq(Nat) /\ before \in Seq(Nat)
  BY <1>1, <1>2, <1>4, LedBox
<1>6. Writes(m, n, r, r2, low, s, before, d, ob, word)
  BY <1>1, <1>2, <1>3, <1>5 DEF Writes
<1>7. Ends(box, before, ob)
  BY <1>4, <1>5 DEF Ends
<1>8. ValueAt(n, r2[s]) = Believed!Filled(ValueAt(m, r[s]), box, u)
  BY <1>6, <1>7, ValueFilled
<1>9. word = Nil \/ \E c \in ObjectsOf(m) : word = Ptr(c)
  BY <1>2 DEF Forest
<1>10. ASSUME NEW t \in Slots, t # s, r2[t] = r[t] PROVE ValueAt(n, r2[t]) = ValueAt(m, r[t])
  <2>1. CASE r[t] = Null
    <3>1. ValueAt(n, r2[t]) = {} /\ ValueAt(m, r[t]) = {}
      BY <1>10, <2>1 DEF ValueAt
    <3> QED BY <3>1
  <2>2. CASE r[t] # Null
    BY <1>6, <1>9, <1>10, <2>2, OtherKept
  <2> QED BY <2>1, <2>2
<1> QED BY <1>3, <1>5, <1>10, <1>8 DEF FillsValue, Refilled

\* What the program gets at from a root lies at the end of a path.
LEMMA BoxReached ==
  ASSUME TreeInv, NEW s \in Slots, roots[s] # Null, NEW b \in BoxesUnder(s)
  PROVE  \E before, d : \E ob \in Offsets(mem, d) : Leads(mem, roots[s], before, d) /\ b = d + 8 + ob
<1>1. HeapIn(mem, base) /\ roots[s] \in ObjectsOf(mem)
  BY TreeForest DEF Forest
<1>2. PICK d \in Below(roots[s]) : b \in BoxesOf(mem, d)
  BY DEF BoxesUnder
<1>3. PICK p \in ObjectsOf(mem) : p = roots[s]
  BY <1>1
<1>4. d \in Led(mem, p)
  BY <1>1, <1>2, <1>3, BelowLeads
<1>5. PICK before : Leads(mem, p, before, d)
  BY <1>4 DEF Led
<1>6. PICK ob \in Offsets(mem, d) : b = d + 8 + ob
  BY <1>2 DEF BoxesOf, Offsets, Metadata, Word
<1> QED BY <1>3, <1>5, <1>6

\* A root that is used denotes something.
LEMMA RootValue ==
  ASSUME NEW m, NEW r, NEW low, Forest(m, r, low), NEW s \in Slots
  PROVE  ValueAt(m, r[s]) = {} <=> r[s] = Null
<1>1. CASE r[s] = Null
  BY <1>1 DEF ValueAt
<1>2. CASE r[s] # Null
  <2>1. ValueHas(m, r[s])
    BY <1>2, ValueNodes
  <2>2. PICK p \in ObjectsOf(m) : p = r[s]
    BY <1>2 DEF Forest
  <2>3. HeapIn(m, low)
    BY DEF Forest
  <2>4. Leads(m, p, <<>>, p)
    BY <2>3, LeadsStart
  <2>5. <<>> \in Seq(Nat)
    OBVIOUS
  <2>6. NodeOf(m, <<>>, p) \in ValueAt(m, r[s])
    BY <2>1, <2>2, <2>4, <2>5 DEF ValueHas
  <2> QED BY <1>2, <2>6
<1> QED BY <1>1, <1>2

-----------------------------------------------------------------------------
(* The steps of Types are steps of Values. *)

\* A step of the values, from one slot's point of view.
LEMMA StepOfValues ==
  ASSUME NEW s \in Slots,
         \/ Believed!New(s, ValuesNow, ValuesNow')
         \/ Believed!Drop(s, ValuesNow, ValuesNow')
         \/ \E t \in Slots : Believed!Store(s, t, ValuesNow, ValuesNow')
         \/ Believed!Clear(s, ValuesNow, ValuesNow')
  PROVE  [Believed!Next]_ValuesNow
BY Zenon DEF Believed!Next

\* What the invariant needs besides that of the heap.
LEMMA ForestInv == ASSUME IInv', DOMAIN roots' = Slots, Forest(mem', roots', base') PROVE TreeInv'
BY DEF TreeInv, Forest

Valued(m, r) == [s \in Slots |-> ValueAt(m, r[s])]

\* Nothing is referred to at first.
LEMMA InitTree == Init => TreeInv /\ Believed!Init
<1> SUFFICES ASSUME Init PROVE TreeInv /\ Believed!Init
  OBVIOUS
<1>1. IInv
  BY InitInv
<1>2. DOMAIN roots = Slots /\ \A s \in Slots : roots[s] = Null
  BY DEF Init
<1>3. ObjectsOf(mem) = {}
  BY DEF Init, ObjectsOf, IsObject, Nil
<1>4. Single(mem, roots) /\ Intact(mem)
  BY <1>2, <1>3 DEF Single, Intact
<1>5. \A s \in Slots : ValueAt(mem, roots[s]) = {}
  BY <1>2 DEF ValueAt
<1>6. ValuesNow = [s \in Slots |-> {}]
  BY <1>5 DEF ValuesNow
<1> QED BY <1>1, <1>2, <1>4, <1>6 DEF TreeInv, Believed!Init

\* Registering a type and looking for objects change no value.
LEMMA QuietStep ==
  ASSUME TreeInv, IInv', mem' = mem, roots' = roots
  PROVE  TreeInv' /\ [Believed!Next]_ValuesNow
<1>1. ValuesNow' = ValuesNow
  BY DEF ValuesNow
<1>2. TreeInv'
  BY DEF TreeInv
<1> QED BY <1>1, <1>2

\* Dropping a root drops its value.
LEMMA DropStep ==
  ASSUME TreeInv, IInv', NEW s \in Slots, DropRoot(s)
  PROVE  TreeInv' /\ [Believed!Next]_ValuesNow
<1>1. roots' = [roots EXCEPT ![s] = Null] /\ mem' = mem /\ base' = base /\ DOMAIN roots = Slots
  BY DEF DropRoot, TreeInv
<1>2. PICK m, r, low, r2 : m = mem /\ r = roots /\ low = base /\ r2 = roots'
  OBVIOUS
<1>3. Forest(m, r, low)
  BY <1>2, TreeForest
<1>4. /\ DOMAIN r2 = Slots /\ r2[s] = Null /\ \A t \in Slots : t # s => r2[t] = r[t]
      /\ \A t \in Slots : r2[t] # Null => r2[t] = r[t]
  BY <1>1, <1>2
<1>5. Forest(m, r2, low)
  BY <1>3, <1>4, DropForest
<1>6. TreeInv'
  BY <1>1, <1>2, <1>4, <1>5, ForestInv
<1>7. PICK old, new : old = ValuesNow /\ new = ValuesNow'
  OBVIOUS
<1>8. old = Valued(m, r) /\ new = Valued(m, r2)
  BY <1>1, <1>2, <1>7 DEF ValuesNow, Valued
<1>9. ValueAt(m, r2[s]) = {}
  BY <1>4 DEF ValueAt
<1>10. new = [old EXCEPT ![s] = {}]
  BY <1>4, <1>8, <1>9 DEF Valued
<1>11. Believed!Drop(s, old, new)
  BY <1>10 DEF Believed!Drop
<1> QED BY <1>6, <1>7, <1>11, StepOfValues

\* An allocation makes a value of one node.
LEMMA AllocStep ==
  ASSUME TreeInv, IInv', NEW s \in Slots, NEW desc \in StaticTypes, NEW len \in Lens, NEW extra \in Extras,
         Alloc(s, desc, len, extra)
  PROVE  TreeInv' /\ [Believed!Next]_ValuesNow
<1>1. /\ roots[s] = Null /\ roots' = [roots EXCEPT ![s] = top] /\ base' = base /\ DOMAIN roots = Slots
  BY DEF Alloc, TreeInv
<1>2. PICK m, r, low, high, n, r2 :
        m = mem /\ r = roots /\ low = base /\ high = top /\ n = mem' /\ r2 = roots'
  OBVIOUS
<1>3. Forest(m, r, low) /\ IInv
  BY <1>2, TreeForest DEF TreeInv
<1>4. PICK size \in Nat :
        /\ low \in {0, Space} /\ high \in Nat /\ high + size <= low + Space
        /\ HeapOK(m, low, high) /\ Grows(m, n, low, high, size, desc, len)
  BY <1>2, <1>3, AllocFacts
<1>5. Widens(m, n, low, high, size, desc, len)
  BY <1>4 DEF Widens
<1>6. high # Null
  BY <1>4, TypesAssumption
<1>7. r2[s] = high /\ r2[s] # Null /\ DOMAIN r2 = Slots /\ \A t \in Slots : t # s => r2[t] = r[t]
  BY <1>1, <1>2, <1>6
<1>8. Forest(n, r2, low)
  BY <1>3, <1>5, <1>7, GrowForest
<1>9. TreeInv'
  BY <1>1, <1>2, <1>7, <1>8, ForestInv
<1>10. PICK node : node = NodeWith(<<>>, desc, len, PointersOf(desc, len))
  OBVIOUS
<1>11. ValueAt(n, r2[s]) = {node} /\ \A t \in Slots : t # s => ValueAt(n, r2[t]) = ValueAt(m, r[t])
  BY <1>3, <1>5, <1>7, <1>10, GrowValue
<1>12. PICK old, new : old = ValuesNow /\ new = ValuesNow'
  OBVIOUS
<1>13. old = Valued(m, r) /\ new = Valued(n, r2)
  BY <1>2, <1>12 DEF ValuesNow, Valued
<1>14. old[s] = {} /\ new = [old EXCEPT ![s] = {node}]
  <2>1. ValueAt(m, r[s]) = {}
    BY <1>1, <1>2 DEF ValueAt
  <2> QED BY <1>11, <1>13, <2>1 DEF Valued
<1>15. Believed!New(s, old, new)
  <2>1. node = NewNode(desc, len)
    BY <1>10 DEF NodeWith, NewNode
  <2>2. node \in NewNodes
    BY <2>1 DEF NewNodes
  <2> QED BY <1>14, <2>2 DEF Believed!New
<1> QED BY <1>9, <1>12, <1>15, StepOfValues

WritesTo(s, b, word, u) ==
  /\ s \in Slots /\ roots[s] # Null /\ b \in BoxesUnder(s) /\ mem' = [mem EXCEPT ![b] = word]
  /\ base' = base /\ DOMAIN roots' = Slots /\ roots'[s] = roots[s] /\ PutIn(mem, roots, s, word, u)
  /\ \A t \in Slots : roots'[t] # Null => roots'[t] = roots[t]
  /\ \A t \in Slots : roots[t] # Null /\ word = Ptr(roots[t]) => roots'[t] = Null

Rewrites(s, u, old, new) ==
  Refilled(old[s], new[s], u) /\ \A t \in Slots : t # s /\ roots'[t] = roots[t] => new[t] = old[t]

\* What a write to a box makes of the values.
LEMMA WriteStep ==
  ASSUME TreeInv, IInv', NEW s, NEW b, NEW word, NEW u, WritesTo(s, b, word, u)
  PROVE  TreeInv' /\ Rewrites(s, u, ValuesNow, ValuesNow')
<1> /\ s \in Slots /\ roots[s] # Null /\ b \in BoxesUnder(s) /\ mem' = [mem EXCEPT ![b] = word]
    /\ base' = base /\ DOMAIN roots' = Slots /\ roots'[s] = roots[s] /\ PutIn(mem, roots, s, word, u)
    /\ \A t \in Slots : roots'[t] # Null => roots'[t] = roots[t]
    /\ \A t \in Slots : roots[t] # Null /\ word = Ptr(roots[t]) => roots'[t] = Null
  BY DEF WritesTo
<1>1. PICK m, r, low, n, r2 : m = mem /\ r = roots /\ low = base /\ n = mem' /\ r2 = roots'
  OBVIOUS
<1>2. Forest(m, r, low) /\ r[s] # Null /\ r2[s] = r[s] /\ PutIn(m, r, s, word, u)
  BY <1>1, TreeForest
<1>3. PICK before, d : \E ob \in Offsets(m, d) : Leads(m, r[s], before, d) /\ b = d + 8 + ob
  BY <1>1, BoxReached
<1>4. PICK ob \in Offsets(m, d) : Leads(m, r[s], before, d) /\ b = d + 8 + ob
  BY <1>3
<1>5. Puts(m, n, r, r2, d, ob, word)
  <2>1. d \in ObjectsOf(m)
    BY <1>4 DEF Leads
  <2>2. n = Written(m, d + 8 + ob, word)
    BY <1>1, <1>4 DEF Written
  <2>3. word = Nil \/ \E t \in Slots : r[t] # Null /\ word = Ptr(r[t]) /\ r2[t] = Null
    BY <1>1, <1>2 DEF PutIn
  <2>4. \A t \in Slots : r2[t] # Null => r2[t] = r[t]
    BY <1>1
  <2> QED BY <1>4, <2>1, <2>2, <2>3, <2>4 DEF Puts
<1>6. PutsUnder(m, n, r, r2, low, s, word, u)
  BY <1>2, <1>4, <1>5 DEF PutsUnder
<1>7. FillsValue(m, n, r, r2, low, s, u)
  BY <1>6, WriteValues
<1>8. TreeInv'
  BY <1>1, <1>7, ForestInv DEF FillsValue
<1>9. \A t \in Slots : ValuesNow[t] = ValueAt(m, r[t]) /\ ValuesNow'[t] = ValueAt(n, r2[t])
  BY <1>1 DEF ValuesNow
<1>10. PICK old, new : old = ValuesNow /\ new = ValuesNow'
  OBVIOUS
<1>11. old[s] = ValueAt(m, r[s]) /\ new[s] = ValueAt(n, r2[s])
  BY <1>9, <1>10
<1>12. Refilled(old[s], new[s], u)
  BY <1>7, <1>11 DEF FillsValue
<1>13. ASSUME NEW t \in Slots, t # s, roots'[t] = roots[t] PROVE new[t] = old[t]
  <2>1. ValueAt(n, r2[t]) = ValueAt(m, r[t])
    BY <1>1, <1>7, <1>13 DEF FillsValue
  <2> QED BY <1>9, <1>10, <2>1
<1> QED BY <1>8, <1>10, <1>12, <1>13 DEF Rewrites

\* Storing a root in a box moves its value there.
LEMMA StoreStep ==
  ASSUME TreeInv, IInv', NEW s \in Slots, NEW t \in Slots, Store(s, t)
  PROVE  TreeInv' /\ [Believed!Next]_ValuesNow
<1>1. /\ roots[s] # Null /\ roots[t] # Null /\ t # s /\ roots' = [roots EXCEPT ![t] = Null] /\ base' = base
      /\ DOMAIN roots = Slots
  BY DEF Store, TreeInv
<1>2. PICK b \in BoxesUnder(s) : mem' = [mem EXCEPT ![b] = Ptr(roots[t])]
  BY DEF Store
<1>3. PICK word, u : word = Ptr(roots[t]) /\ u = ValueAt(mem, roots[t])
  OBVIOUS
<1>4. PutIn(mem, roots, s, word, u) /\ mem' = [mem EXCEPT ![b] = word]
  BY <1>1, <1>2, <1>3 DEF PutIn
<1>5. /\ DOMAIN roots' = Slots /\ roots'[s] = roots[s] /\ roots'[t] = Null
      /\ \A x \in Slots : x # t => roots'[x] = roots[x]
      /\ \A x \in Slots : roots'[x] # Null => roots'[x] = roots[x]
  BY <1>1
<1>6. \A x \in Slots : roots[x] # Null /\ word = Ptr(roots[x]) => roots'[x] = Null
  <2> SUFFICES ASSUME NEW x \in Slots, roots[x] # Null, word = Ptr(roots[x]) PROVE x = t
    BY <1>5
  <2>1. roots[x] = roots[t]
    BY <1>3 DEF Ptr
  <2> QED BY <2>1 DEF TreeInv, Single
<1>7. PICK old, new : old = ValuesNow /\ new = ValuesNow'
  OBVIOUS
<1>8. TreeInv' /\ Refilled(old[s], new[s], u) /\ \A x \in Slots : x # s /\ roots'[x] = roots[x] => new[x] = old[x]
  <2>1. WritesTo(s, b, word, u)
    BY <1>1, <1>4, <1>5, <1>6 DEF WritesTo
  <2>2. TreeInv' /\ Rewrites(s, u, ValuesNow, ValuesNow')
    BY <2>1, WriteStep
  <2> QED BY <1>7, <2>2 DEF Rewrites
<1>9. old[t] = u /\ old[t] # {} /\ new[t] = {}
  <2>1. old[t] = u /\ new[t] = ValueAt(mem', roots'[t])
    BY <1>3, <1>7 DEF ValuesNow
  <2>2. PICK m, r, low : m = mem /\ r = roots /\ low = base
    OBVIOUS
  <2>3. Forest(m, r, low)
    BY <2>2, TreeForest
  <2>4. ValueAt(m, r[t]) # {}
    BY <1>1, <2>2, <2>3, RootValue
  <2>5. ValueAt(mem', roots'[t]) = {}
    BY <1>5 DEF ValueAt
  <2> QED BY <1>3, <2>1, <2>2, <2>4, <2>5
<1>10. DOMAIN old = Slots /\ DOMAIN new = Slots /\ old = [x \in Slots |-> old[x]] /\ new = [x \in Slots |-> new[x]]
  BY <1>7 DEF ValuesNow
<1>11. \A x \in Slots : x # s /\ x # t => new[x] = old[x]
  BY <1>5, <1>8
<1>12. PICK box \in Believed!Boxes(old[s]) : new[s] = Believed!Filled(old[s], box, old[t])
  BY <1>8, <1>9 DEF Refilled
<1>13. new = [old EXCEPT ![s] = Believed!Filled(old[s], box, old[t]), ![t] = {}]
  BY <1>1, <1>9, <1>10, <1>11, <1>12
<1>14. Believed!Store(s, t, old, new)
  BY <1>1, <1>9, <1>12, <1>13 DEF Believed!Store
<1> QED BY <1>7, <1>8, <1>14, StepOfValues

\* Emptying a box takes out what was in it.
LEMMA ClearStep ==
  ASSUME TreeInv, IInv', NEW s \in Slots, Clear(s)
  PROVE  TreeInv' /\ [Believed!Next]_ValuesNow
<1>1. roots[s] # Null /\ roots' = roots /\ base' = base /\ DOMAIN roots = Slots
  BY DEF Clear, TreeInv
<1>2. PICK b \in BoxesUnder(s) : mem' = [mem EXCEPT ![b] = Nil]
  BY DEF Clear
<1>3. PICK word, u : word = Nil /\ u = {}
  OBVIOUS
<1>4. PutIn(mem, roots, s, word, u) /\ mem' = [mem EXCEPT ![b] = word]
  BY <1>2, <1>3 DEF PutIn
<1>5. /\ DOMAIN roots' = Slots /\ roots'[s] = roots[s]
      /\ \A x \in Slots : roots'[x] # Null => roots'[x] = roots[x]
  BY <1>1
<1>6. \A x \in Slots : roots[x] # Null /\ word = Ptr(roots[x]) => roots'[x] = Null
  BY <1>3 DEF Nil, Ptr
<1>7. PICK old, new : old = ValuesNow /\ new = ValuesNow'
  OBVIOUS
<1>8. TreeInv' /\ Refilled(old[s], new[s], u) /\ \A x \in Slots : x # s /\ roots'[x] = roots[x] => new[x] = old[x]
  <2>1. WritesTo(s, b, word, u)
    BY <1>1, <1>4, <1>5, <1>6 DEF WritesTo
  <2>2. TreeInv' /\ Rewrites(s, u, ValuesNow, ValuesNow')
    BY <2>1, WriteStep
  <2> QED BY <1>7, <2>2 DEF Rewrites
<1>9. DOMAIN old = Slots /\ DOMAIN new = Slots /\ old = [x \in Slots |-> old[x]] /\ new = [x \in Slots |-> new[x]]
  BY <1>7 DEF ValuesNow
<1>10. PICK box \in Believed!Boxes(old[s]) : new[s] = Believed!Filled(old[s], box, {})
  BY <1>3, <1>8 DEF Refilled
<1>11. \A x \in Slots : x # s => new[x] = old[x]
  BY <1>1, <1>8
<1>12. new = [old EXCEPT ![s] = Believed!Filled(old[s], box, {})]
  BY <1>9, <1>10, <1>11
<1>13. Believed!Clear(s, old, new)
  BY <1>10, <1>12 DEF Believed!Clear
<1> QED BY <1>7, <1>8, <1>13, StepOfValues

\* A cycle that ends leaves every value as it was.
LEMMA MoveStep ==
  ASSUME NEW types \in SUBSET Descriptors, StaticTypes \subseteq types, Upright(types),
         TreeInv, IInv', Move
  PROVE  TreeInv' /\ [Believed!Next]_ValuesNow
<1>1. /\ gpc = "mark" /\ mark_stack = {} /\ roots' = MappedRoots /\ base' = Space - base /\ gpc' = "idle"
      /\ mem' = [a \in Addresses |->
                   IF a \in base .. base + Space - 1 THEN Nil
                   ELSE IF a \in {Updated(u) : u \in Updates} /\ HasRecord(Copied[a])
                        THEN Ptr(records[Copied[a][2]].dest)
                   ELSE Copied[a]]
  BY DEF Move
<1>2. IInv /\ Intact(mem)
  BY DEF TreeInv
<1>3. {Updated(u) : u \in Updates} = UNION {BoxesOf(Copied, records[p].dest) : p \in DOMAIN records}
  BY <1>1, <1>2, MapsAll DEF Move
<1>4. mem' = MovedMem
  BY <1>1, <1>3 DEF MovedMem
<1>5. PICK m, r, low, n, r2, high, C, f :
        /\ m = mem /\ r = roots /\ low = base /\ n = mem' /\ r2 = roots' /\ high = base'
        /\ C = DOMAIN records /\ f = [p \in DOMAIN records |-> records[p].dest]
  OBVIOUS
<1>6. Forest(m, r, low)
  BY <1>5, TreeForest
<1>7. /\ Image(f, C, m, n) /\ Intact(n) /\ ObjectsOf(n) = {f[c] : c \in C}
      /\ \A a, c \in C : f[a] = f[c] => a = c
  BY <1>1, <1>2, <1>4, <1>5, MovedImage
<1>8. \A s \in Slots : (r[s] = Null /\ r2[s] = Null) \/ (r[s] # Null /\ r[s] \in C /\ r2[s] = f[r[s]])
  <2> SUFFICES ASSUME NEW s \in Slots, r[s] # Null PROVE r[s] \in C /\ r2[s] = f[r[s]]
    BY <1>1, <1>5 DEF MappedRoots
  <2>1. r[s] \in C
    BY <1>1, <1>2, <1>5, MarkFacts DEF MarkOK, Marked
  <2> QED BY <1>1, <1>5, <2>1 DEF MappedRoots
<1>9. HeapIn(n, high)
  <2>1. high \in {0, Space} /\ high \in Nat /\ high + Space \in Nat
    <3>1. base' \in {0, Space}
      BY DEF IInv
    <3>2. high \in {0, Space} /\ Space \in Nat
      BY <1>5, <3>1, TypesAssumption
    <3> QED BY <3>2
  <2>2. PICK end : end = top'
    OBVIOUS
  <2>3. HeapOK(n, high, end) /\ end \in Nat /\ end <= high + Space
    BY <1>1, <1>5, <2>1, <2>2 DEF IInv
  <2>4. HeapOK(n, high, high + Space)
    BY <2>1, <2>3, HeapWider
  <2> QED BY <2>1, <2>4 DEF HeapIn
<1>10. Forest(n, r2, high)
  BY <1>6, <1>7, <1>8, <1>9, ImageForest
<1>11. DOMAIN roots' = Slots
  BY <1>1 DEF MappedRoots
<1>12. TreeInv'
  BY <1>5, <1>10, <1>11, ForestInv
<1>13. ASSUME NEW s \in Slots PROVE ValueAt(n, r2[s]) = ValueAt(m, r[s])
  <2>1. CASE r[s] = Null
    BY <1>8, <2>1 DEF ValueAt
  <2>2. CASE r[s] # Null
    <3>1. r[s] \in C /\ r2[s] = f[r[s]]
      BY <1>8, <2>2
    <3>2. f[r[s]] \in ObjectsOf(n)
      BY <1>7, <3>1
    <3>3. r2[s] # Null
      BY <3>1, <3>2, TypesAssumption DEF ObjectsOf, Addresses
    <3>4. Mirrors(f, C, m, n, r, r2, s)
      BY <1>7, <2>2, <3>1, <3>3 DEF Mirrors
    <3> QED BY <1>6, <1>10, <3>4, ImageValue
  <2> QED BY <2>1, <2>2
<1>14. ValuesNow' = ValuesNow
  BY <1>5, <1>13 DEF ValuesNow
<1> QED BY <1>12, <1>14

\* Every step is a step of the values, or changes none of them.
LEMMA StepMaps ==
  ASSUME NEW types \in SUBSET Descriptors, StaticTypes \subseteq types, Upright(types),
         TreeInv, [Next]_vars
  PROVE  TreeInv' /\ [Believed!Next]_ValuesNow
<1>1. IInv'
  BY StepInv DEF TreeInv
<1>2. CASE UNCHANGED vars
  BY <1>1, <1>2, QuietStep DEF vars, heapvars
<1>3. ASSUME NEW desc \in Registered, Register(desc) PROVE mem' = mem /\ roots' = roots
  BY <1>3 DEF Register, heapvars
<1>4. ASSUME NEW s \in Slots, NEW desc \in StaticTypes, NEW len \in Lens, NEW extra \in Extras,
             Alloc(s, desc, len, extra)
      PROVE  TreeInv' /\ [Believed!Next]_ValuesNow
  BY <1>1, <1>4, AllocStep
<1>5. ASSUME NEW s \in Slots, NEW t \in Slots, Store(s, t) PROVE TreeInv' /\ [Believed!Next]_ValuesNow
  BY <1>1, <1>5, StoreStep
<1>6. ASSUME NEW s \in Slots, Clear(s) PROVE TreeInv' /\ [Believed!Next]_ValuesNow
  BY <1>1, <1>6, ClearStep
<1>7. ASSUME NEW s \in Slots, DropRoot(s) PROVE TreeInv' /\ [Believed!Next]_ValuesNow
  BY <1>1, <1>7, DropStep
<1>8. CASE StartCycle
  BY <1>1, <1>8, QuietStep DEF StartCycle
<1>9. ASSUME NEW obj \in mark_stack, MarkObject(obj) PROVE mem' = mem /\ roots' = roots
  BY <1>9 DEF MarkObject
<1>10. CASE Move
  BY <1>1, <1>10, MoveStep
<1> QED BY <1>1, <1>2, <1>3, <1>4, <1>5, <1>6, <1>7, <1>8, <1>9, <1>10, QuietStep DEF Next

\* Whatever their types, of any number and any depth, the values behind the roots are
\* those the program has built, and no cycle changes one: objects are found by their
\* types, copied whole, and every pointer is fixed once (types.rs, descriptor.rs,
\* pointer_iterator.rs).
THEOREM TypesImplementsValues ==
  ASSUME NEW types \in SUBSET Descriptors, StaticTypes \subseteq types, Upright(types)
  PROVE  Spec => ImplementsValues
<1>1. Init => TreeInv /\ Believed!Init
  BY InitTree
<1>2. TreeInv /\ [Next]_vars => TreeInv' /\ [Believed!Next]_ValuesNow
  BY StepMaps
<1> QED BY <1>1, <1>2, PTL DEF Spec, ImplementsValues, Believed!Spec

=============================================================================
