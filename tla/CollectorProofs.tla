-------------------------- MODULE CollectorProofs ---------------------------
(***************************************************************************)
(* Proofs about Collector, for every number of mutators, slots, fields and *)
(* pages: IInv is inductive, and the safety invariants follow from it.     *)
(***************************************************************************)
EXTENDS Collector, TLAPS, FiniteSetTheorems

-----------------------------------------------------------------------------
(* The inductive invariant.                                                *)

\* The space the originals of the recorded objects are in.
From == IF gpc = "copy" THEN Other ELSE mm

\* What exists in which step of a cycle only.
Phases ==
  /\ gpc \notin {"mark", "step3", "copy"} => DOMAIN records = {}
  /\ gpc # "copy" => uncopied = {} /\ \A p \in DOMAIN objs : p[1] = mm
  /\ gpc # "mark" => worklist = {} /\ scan = Idle

\* A record leads from a marked object of the one space to a place of the other.
Recorded ==
  /\ \A p \in DOMAIN records :
       p \in DOMAIN objs /\ p[1] = From /\ records[p][1] = 1 - From /\ objs[p].mark = Marked
  /\ worklist \subseteq DOMAIN objs
  /\ scan # Idle => scan[1] \in DOMAIN records
  /\ gpc = "mark" => ~Stale(pages[Other], move_page)

\* Nothing is where the pages of its space have not yet given memory out.
Inside(p) == p[2] \in DOMAIN pages[p[1]] /\ p[3] <= pages[p[1]][p[2]]
Below == \A p \in DOMAIN objs \cup Destinations : Inside(p)

\* The pages of the current space that the copier has filled are those it has
\* no work left for.
Copies ==
  /\ uncopied \subseteq DOMAIN pages[mm]
  /\ \A p \in InCurrent : p[2] \notin uncopied
  /\ gpc = "copy" => \A p \in DOMAIN records : records[p][2] \in uncopied \/ records[p] \in DOMAIN objs

\* Who asks for a cycle may ask for the last but no more.
Requests ==
  /\ requested \/ gpc # "idle" => cycles <= MaxCycles
  /\ requested /\ gpc # "idle" => cycles < MaxCycles

\* While nobody interferes the marker has a record or a stack entry for the roots,
\* for whatever the objects it has scanned refer to, and for nothing else.
Tracing ==
  gpc \in {"mark", "step3"} /\ Undisturbed =>
    /\ \A p \in DOMAIN objs : objs[p].mark = Marked => p \in DOMAIN records
    /\ Rooted \subseteq DOMAIN records \cup worklist
    /\ \A p \in DOMAIN records, f \in Fields :
         \/ objs[p].fields[f] \in DOMAIN records \cup worklist \cup {Null}
         \/ (scan[1] = p /\ f \in scan[2])
    /\ \A S \in SUBSET Pointers : Closed(S) => DOMAIN records \cup worklist \subseteq S

IInv ==
  /\ TypeOK /\ Phases /\ Recorded /\ Below /\ Copies /\ Requests
  /\ NoDangling /\ MarkUniform /\ RecordsSound /\ Tracing

-----------------------------------------------------------------------------
(* Operators.                                                              *)

\* There is an identity that no object has: memory has fewer places than there
\* are identities.
LEMMA FreshId == ASSUME TypeOK PROVE Fresh \in Ids /\ \A p \in DOMAIN objs : objs[p].id # Fresh
<1> DEFINE Places3 == {0, 1} \X ((1 .. NrPages) \X (1 .. PageObjs))
           g == [p \in Pointers |-> <<p[1], <<p[2], p[3]>>>>]
<1>1. NrPages \in Nat \ {0} /\ PageObjs \in Nat \ {0}
  BY SizeAssumption
<1>2. \A n \in Nat \ {0} : IsFiniteSet(1 .. n) /\ Cardinality(1 .. n) = n
  <2> SUFFICES ASSUME NEW n \in Nat \ {0} PROVE IsFiniteSet(1 .. n) /\ Cardinality(1 .. n) = n
    OBVIOUS
  <2>1. 1 \in Int /\ n \in Int /\ ~(1 > n) /\ n - 1 + 1 = n
    OBVIOUS
  <2> QED BY <2>1, FS_Interval, Zenon
<1>3. IsFiniteSet({0, 1}) /\ Cardinality({0, 1}) = 2
  <2>1. IsFiniteSet({1}) /\ Cardinality({1}) = 1
    BY FS_Singleton, Zenon
  <2>2. {1} \cup {0} = {0, 1} /\ 0 \notin {1}
    OBVIOUS
  <2>3. IsFiniteSet({1} \cup {0}) /\ Cardinality({1} \cup {0}) = Cardinality({1}) + 1
    BY <2>1, <2>2, FS_AddElement, Zenon
  <2> QED BY <2>1, <2>2, <2>3
<1>4. IsFiniteSet(Places3) /\ Cardinality(Places3) = 2 * (NrPages * PageObjs)
  <2> HIDE DEF g
  <2>1. IsFiniteSet((1 .. NrPages) \X (1 .. PageObjs))
        /\ Cardinality((1 .. NrPages) \X (1 .. PageObjs))
             = Cardinality(1 .. NrPages) * Cardinality(1 .. PageObjs)
    BY <1>1, <1>2, FS_Product, Zenon
  <2>2. IsFiniteSet(Places3)
        /\ Cardinality(Places3) = Cardinality({0, 1}) * Cardinality((1 .. NrPages) \X (1 .. PageObjs))
    BY <1>3, <2>1, FS_Product, Zenon
  <2> QED BY <1>1, <1>2, <1>3, <2>1, <2>2, Zenon
<1>5. g \in Injection(Pointers, Places3)
  BY DEF Pointers, Injection, IsInjective
<1>6. IsFiniteSet(Pointers) /\ Cardinality(Pointers) <= 2 * (NrPages * PageObjs)
  BY <1>4, <1>5, FS_Injection
<1>7. DOMAIN objs \in SUBSET Pointers
  BY DEF TypeOK
<1>8. IsFiniteSet(DOMAIN objs) /\ Cardinality(DOMAIN objs) <= Cardinality(Pointers)
  BY <1>6, <1>7, FS_Subset
<1>9. NrPages * PageObjs \in Nat
  BY <1>1
<1>10. IsFiniteSet(Ids) /\ Cardinality(Ids) = 2 * (NrPages * PageObjs) + 1
  <2>1. 2 * NrPages * PageObjs = 2 * (NrPages * PageObjs)
    BY <1>1
  <2>2. Ids = 1 .. (2 * (NrPages * PageObjs) + 1)
    BY <2>1 DEF Ids
  <2> QED BY <1>9, <2>2, FS_Interval
<1>11. \E i \in Ids : \A p \in DOMAIN objs : objs[p].id # i
  <2> SUFFICES ASSUME \A i \in Ids : \E p \in DOMAIN objs : objs[p].id = i PROVE FALSE
    OBVIOUS
  <2> DEFINE f == [p \in DOMAIN objs |-> objs[p].id]
  <2>1. \A p \in DOMAIN objs : objs[p].id \in Ids
    BY DEF TypeOK, Objects
  <2>2. f \in Surjection(DOMAIN objs, Ids)
    BY <2>1 DEF Surjection
  <2>3. Cardinality(Ids) <= Cardinality(DOMAIN objs)
    BY <1>8, <2>2, FS_Surjection
  <2>4. Cardinality(DOMAIN objs) \in Nat /\ Cardinality(Pointers) \in Nat
    BY <1>6, <1>8, FS_CardinalityType
  <2> QED BY <1>6, <1>8, <1>9, <1>10, <2>3, <2>4
<1> QED BY <1>11 DEF Fresh

\* A page table counts objects.
LEMMA TableElements ==
  ASSUME NEW t \in Seq(1 .. PageObjs)
  PROVE  DOMAIN t = 1 .. Len(t) /\ Len(t) \in Nat /\ \A k \in DOMAIN t : t[k] \in Int
<1>1. DOMAIN t = 1 .. Len(t) /\ Len(t) \in Nat /\ \A k \in 1 .. Len(t) : t[k] \in 1 .. PageObjs
  BY SizeAssumption, SMTT(60)
<1> QED BY <1>1

\* Bump allocation gives out a place that was not given out before, in its space.
LEMMA PlaceFacts ==
  ASSUME TypeOK, NEW s \in {0, 1}, NEW page \in 0 .. NrPages,
         ~Stale(pages[s], page), Fits(pages[s], page)
  PROVE  /\ Page(pages[s], page) \in 1 .. NrPages
         /\ Placed(pages[s], page) \in Seq(1 .. PageObjs)
         /\ Len(Placed(pages[s], page)) <= NrPages
         /\ Page(pages[s], page) \in DOMAIN Placed(pages[s], page)
         /\ Address(s, pages[s], page) \in Pointers
         /\ Address(s, pages[s], page)[1] = s
         /\ Address(s, pages[s], page)[2] = Page(pages[s], page)
         /\ Address(s, pages[s], page)[3] = Placed(pages[s], page)[Page(pages[s], page)]
         /\ \A k \in DOMAIN pages[s] :
              k \in DOMAIN Placed(pages[s], page) /\ pages[s][k] <= Placed(pages[s], page)[k]
         /\ Page(pages[s], page) \in DOMAIN pages[s] =>
              Placed(pages[s], page)[Page(pages[s], page)] > pages[s][Page(pages[s], page)]
<1> DEFINE t == pages[s]
<1>1. /\ NrPages \in Nat \ {0} /\ PageObjs \in Nat \ {0}
      /\ t \in Seq(1 .. PageObjs) /\ Len(t) <= NrPages /\ Len(t) \in Nat
      /\ DOMAIN t = 1 .. Len(t) /\ \A k \in 1 .. Len(t) : t[k] \in 1 .. PageObjs
  <2>1. pages \in [{0, 1} -> Seq(1 .. PageObjs)] /\ \A i \in {0, 1} : Len(pages[i]) <= NrPages
    BY DEF TypeOK
  <2>2. t \in Seq(1 .. PageObjs) /\ Len(t) <= NrPages
    BY <2>1
  <2> QED BY <2>2, SizeAssumption, SMTT(60)
<1>2. CASE HasRoom(t, page)
  <2>1. page \in 1 .. Len(t) /\ t[page] < PageObjs
    BY <1>1, <1>2 DEF HasRoom, Stale
  <2>2. Page(t, page) = page /\ Placed(t, page) = [t EXCEPT ![page] = t[page] + 1]
    BY <1>2 DEF Page, Placed
  <2>3. t[page] + 1 \in 1 .. PageObjs
    BY <1>1, <2>1, SMTT(60)
  <2>4. Placed(t, page) \in Seq(1 .. PageObjs) /\ Len(Placed(t, page)) = Len(t)
        /\ Placed(t, page)[page] = t[page] + 1
        /\ \A k \in 1 .. Len(t) : k # page => Placed(t, page)[k] = t[k]
    BY <1>1, <2>1, <2>2, <2>3, SMTT(60)
  <2>5. DOMAIN Placed(t, page) = 1 .. Len(t)
    BY <2>4
  <2>6. Address(s, t, page) = <<s, page, t[page] + 1>>
    BY <2>2, <2>4 DEF Address
  <2>7. Address(s, t, page) \in Pointers
    BY <1>1, <2>1, <2>3, <2>6, SMTT(60) DEF Pointers
  <2>8. Address(s, t, page)[1] = s /\ Address(s, t, page)[2] = page /\ Address(s, t, page)[3] = t[page] + 1
    BY <2>6
  <2>9. ASSUME NEW k \in DOMAIN t PROVE k \in DOMAIN Placed(t, page) /\ t[k] <= Placed(t, page)[k]
    <3>1. k \in 1 .. Len(t) /\ t[k] \in Int
      BY <1>1
    <3>2. k # page => Placed(t, page)[k] = t[k]
      BY <2>4, <3>1
    <3>3. k = page => t[k] <= Placed(t, page)[k]
      BY <2>4, <3>1
    <3> QED BY <2>5, <3>1, <3>2, <3>3
  <2>10. t[page] + 1 > t[page]
    BY <1>1, <2>1, SMTT(60)
  <2> QED BY <1>1, <2>1, <2>2, <2>4, <2>5, <2>7, <2>8, <2>9, <2>10
<1>3. CASE ~HasRoom(t, page)
  <2>1. Len(t) < NrPages
    BY <1>3 DEF Fits
  <2>2. Page(t, page) = Len(t) + 1 /\ Placed(t, page) = Append(t, 1)
    BY <1>3 DEF Page, Placed
  <2>3. 1 \in 1 .. PageObjs
    BY <1>1
  <2>4. Placed(t, page) \in Seq(1 .. PageObjs) /\ Len(Placed(t, page)) = Len(t) + 1
        /\ Placed(t, page)[Len(t) + 1] = 1
        /\ \A k \in 1 .. Len(t) : Placed(t, page)[k] = t[k]
    BY <1>1, <2>2, <2>3
  <2>5. DOMAIN Placed(t, page) = 1 .. Len(t) + 1
    BY <2>4
  <2>6. Address(s, t, page) = <<s, Len(t) + 1, 1>>
    BY <2>2, <2>4 DEF Address
  <2>7. Address(s, t, page) \in Pointers
    BY <1>1, <2>1, <2>3, <2>6, SMTT(60) DEF Pointers
  <2>8. Address(s, t, page)[1] = s /\ Address(s, t, page)[2] = Len(t) + 1 /\ Address(s, t, page)[3] = 1
    BY <2>6
  <2>9. ASSUME NEW k \in DOMAIN t PROVE k \in DOMAIN Placed(t, page) /\ t[k] <= Placed(t, page)[k]
    <3>1. k \in 1 .. Len(t) /\ t[k] \in Int /\ k \in 1 .. Len(t) + 1
      BY <1>1, SMTT(60)
    <3>2. Placed(t, page)[k] = t[k]
      BY <2>4, <3>1
    <3> QED BY <2>5, <3>1, <3>2
  <2>10. Len(t) + 1 \notin DOMAIN t
    BY <1>1
  <2> QED BY <1>1, <2>1, <2>2, <2>4, <2>5, <2>7, <2>8, <2>9, <2>10, SMTT(60)
<1> QED BY <1>2, <1>3

-----------------------------------------------------------------------------
(* Types.                                                                  *)

\* An object that is written to keeps its type.
LEMMA ObjectTypes ==
  ASSUME TypeOK
  PROVE  /\ NewObject \in Objects
         /\ \A p \in DOMAIN objs : [objs[p] EXCEPT !.mark = Marked] \in Objects
         /\ \A p \in DOMAIN objs, f \in Fields, v \in Pointers \cup {Null} :
              [objs[p] EXCEPT !.fields[f] = v] \in Objects
         /\ \A p \in DOMAIN objs : Pointees(p) \subseteq DOMAIN records => Copied(p) \in Objects
<1>1. Marked \in {0, 1} /\ \A p \in DOMAIN objs : objs[p] \in Objects
  BY DEF TypeOK, Marked
<1>2. NewObject \in Objects
  BY <1>1, FreshId DEF NewObject, Marked, Objects
<1>3. \A p \in DOMAIN objs : [objs[p] EXCEPT !.mark = Marked] \in Objects
  BY <1>1 DEF Objects
<1>4. \A p \in DOMAIN objs, f \in Fields, v \in Pointers \cup {Null} :
        [objs[p] EXCEPT !.fields[f] = v] \in Objects
  BY <1>1 DEF Objects
<1>5. ASSUME NEW p \in DOMAIN objs, Pointees(p) \subseteq DOMAIN records PROVE Copied(p) \in Objects
  <2>1. \A f \in Fields : Mapped(objs[p].fields[f]) \in Pointers \cup {Null}
    <3> SUFFICES ASSUME NEW f \in Fields PROVE Mapped(objs[p].fields[f]) \in Pointers \cup {Null}
      OBVIOUS
    <3>1. objs[p].fields[f] = Null \/ objs[p].fields[f] \in DOMAIN records
      BY <1>5 DEF Pointees
    <3>2. \A q \in DOMAIN records : records[q] \in Pointers
      BY DEF TypeOK
    <3> QED BY <3>1, <3>2 DEF Mapped
  <2>2. [f \in Fields |-> Mapped(objs[p].fields[f])] \in [Fields -> Pointers \cup {Null}]
    BY <2>1
  <2> QED BY <1>1, <2>2 DEF Copied, Objects
<1> QED BY <1>2, <1>3, <1>4, <1>5

\* What a mutator does keeps the types.
LEMMA MutatorTypes == IInv /\ MutatorStep => TypeOK'
<1> SUFFICES ASSUME IInv, NEW m \in Mutators,
        \/ AllocFromStalePage(m) \/ AllocFails(m) \/ RequestCycle(m) \/ GiveUp(m)
        \/ \E s \in SlotsOf[m] :
             \/ Alloc(m, s) \/ DropRoot(m, s)
             \/ \E f \in Fields, r \in SlotsOf[m] : LoadField(m, s, f, r) \/ StoreField(m, s, f, r)
      PROVE TypeOK'
  BY DEF MutatorStep
<1>1. TypeOK /\ SlotsOf[m] \subseteq Slots /\ MaxTries \in Nat \ {0} /\ MaxCycles \in Nat
  BY SizeAssumption, SlotsAssumption DEF IInv
<1>2. CASE AllocFromStalePage(m)
  BY <1>1, <1>2, ZenonT(60) DEF AllocFromStalePage, TypeOK, mutvars, heapvars, gcvars
<1>3. CASE AllocFails(m)
  BY <1>1, <1>3, SMTT(60) DEF AllocFails, TypeOK, heapvars, gcvars
<1>4. CASE RequestCycle(m)
  BY <1>1, <1>4, SMTT(60) DEF RequestCycle, TypeOK, heapvars, gcvars
<1>5. CASE GiveUp(m)
  BY <1>1, <1>5, SMTT(60) DEF GiveUp, TypeOK, heapvars, gcvars
<1>6. ASSUME NEW s \in Slots, Alloc(m, s) PROVE TypeOK'
  <2>1. mm \in {0, 1} /\ local[m] \in 0 .. NrPages /\ ~Stale(pages[mm], local[m]) /\ Fits(pages[mm], local[m])
    BY <1>1, <1>6 DEF TypeOK, Alloc
  <2> DEFINE p == Address(mm, pages[mm], local[m])
  <2>2. /\ p \in Pointers /\ Page(pages[mm], local[m]) \in 1 .. NrPages
        /\ Placed(pages[mm], local[m]) \in Seq(1 .. PageObjs) /\ Len(Placed(pages[mm], local[m])) <= NrPages
    BY <1>1, <2>1, PlaceFacts
  <2>3. DOMAIN objs' \subseteq Pointers /\ objs' \in [DOMAIN objs' -> Objects]
    <3>1. objs' = [q \in DOMAIN objs \cup {p} |-> IF q = p THEN NewObject ELSE objs[q]]
      BY <1>6 DEF Alloc
    <3> HIDE DEF p
    <3> QED BY <1>1, <2>2, <3>1, ObjectTypes DEF TypeOK
  <2>4. roots' \in [Mutators -> [Slots -> Pointers \cup {Null}]]
    <3>1. roots' = [roots EXCEPT ![m][s] = p]
      BY <1>6 DEF Alloc
    <3> HIDE DEF p
    <3> QED BY <1>1, <2>2, <3>1 DEF TypeOK
  <2>5. local' \in [Mutators -> 0 .. NrPages] /\ mpc' \in [Mutators -> {"run", "slow", "wait"}]
        /\ tries' \in [Mutators -> 0 .. MaxTries]
    BY <1>1, <1>6, <2>2, SMTT(60) DEF Alloc, TypeOK
  <2>6. pages' \in [{0, 1} -> Seq(1 .. PageObjs)] /\ \A i \in {0, 1} : Len(pages'[i]) <= NrPages
    BY <1>1, <1>6, <2>1, <2>2 DEF Alloc, TypeOK
  <2>7. UNCHANGED <<mm, mark_true_bit, requested, gpc, gcvars, cycles, failure>>
    BY <1>6 DEF Alloc
  <2> QED BY <1>1, <2>3, <2>4, <2>5, <2>6, <2>7, ZenonT(60) DEF TypeOK, gcvars
<1>7. ASSUME NEW s \in Slots, DropRoot(m, s) PROVE TypeOK'
  BY <1>1, <1>7, SMTT(60) DEF DropRoot, TypeOK, heapvars, gcvars
<1>8. ASSUME NEW s \in Slots, NEW f \in Fields, NEW r \in Slots, LoadField(m, s, f, r) PROVE TypeOK'
  <2>1. objs[roots[m][s]].fields[f] \in Pointers \cup {Null}
    BY <1>1, <1>8 DEF LoadField, Accessible, TypeOK, Objects
  <2> QED BY <1>1, <1>8, <2>1, SMTT(60) DEF LoadField, TypeOK, heapvars, gcvars
<1>9. ASSUME NEW s \in Slots, NEW f \in Fields, NEW r \in Slots, StoreField(m, s, f, r) PROVE TypeOK'
  <2>1. roots[m][s] \in DOMAIN objs /\ roots[m][r] \in Pointers \cup {Null}
    BY <1>1, <1>9 DEF StoreField, Accessible, TypeOK
  <2>2. objs' = [objs EXCEPT ![roots[m][s]] = [objs[roots[m][s]] EXCEPT !.fields[f] = roots[m][r]]]
    BY <1>1, <1>9, <2>1 DEF StoreField, TypeOK
  <2>3. DOMAIN objs' = DOMAIN objs /\ objs' \in [DOMAIN objs' -> Objects]
    BY <1>1, <2>1, <2>2, ObjectTypes DEF TypeOK
  <2> QED BY <1>1, <1>9, <2>3, SMTT(60) DEF StoreField, TypeOK, mutvars, gcvars
<1> QED BY <1>1, <1>2, <1>3, <1>4, <1>5, <1>6, <1>7, <1>8, <1>9

\* What the collector does keeps the types.
LEMMA CollectorTypes == IInv /\ CollectorStep => TypeOK'
<1> SUFFICES ASSUME IInv, CollectorStep PROVE TypeOK'
  OBVIOUS
<1>1. TypeOK /\ Other \in {0, 1} /\ Other # mm /\ mm \in {0, 1} /\ NrPages \in Nat \ {0} /\ MaxCycles \in Nat
  BY SizeAssumption, SMTT(60) DEF IInv, TypeOK, Other
<1>2. CASE StartCycle
  BY <1>1, <1>2 DEF StartCycle, TypeOK, mutvars, heapvars, gcvars
<1>3. CASE Flush
  BY <1>1, <1>3 DEF Flush, TypeOK, heapvars, gcvars
<1>4. CASE Step1
  <2>1. pages' \in [{0, 1} -> Seq(1 .. PageObjs)] /\ \A i \in {0, 1} : Len(pages'[i]) <= NrPages
    BY <1>1, <1>4 DEF Step1, TypeOK
  <2>2. worklist' \subseteq Pointers
    BY <1>1, <1>4 DEF Step1, TypeOK, Rooted
  <2>3. used_end' \in 0 .. NrPages /\ mark_true_bit' \in {0, 1} /\ move_page' \in 0 .. NrPages
    BY <1>1, <1>4 DEF Step1, TypeOK
  <2> QED BY <1>1, <1>4, <2>1, <2>2, <2>3 DEF Step1, TypeOK, mutvars
<1>5. ASSUME NEW p \in Pointers, MarkObject(p) PROVE TypeOK'
  <2>1. p \in DOMAIN objs /\ move_page \in 0 .. NrPages /\ ~Stale(pages[Other], move_page)
        /\ Fits(pages[Other], move_page)
    BY <1>5 DEF MarkObject, IInv, Recorded, TypeOK
  <2> DEFINE d == Address(Other, pages[Other], move_page)
  <2>2. /\ d \in Pointers /\ Page(pages[Other], move_page) \in 1 .. NrPages
        /\ Placed(pages[Other], move_page) \in Seq(1 .. PageObjs) /\ Len(Placed(pages[Other], move_page)) <= NrPages
    BY <1>1, <2>1, PlaceFacts
  <2>3. DOMAIN objs' = DOMAIN objs /\ objs' \in [DOMAIN objs' -> Objects]
    <3>1. objs' = [objs EXCEPT ![p] = [objs[p] EXCEPT !.mark = Marked]]
      BY <1>1, <1>5, <2>1 DEF MarkObject, TypeOK
    <3> QED BY <1>1, <2>1, <3>1, ObjectTypes DEF TypeOK
  <2>4. DOMAIN records' \subseteq Pointers /\ records' \in [DOMAIN records' -> Pointers]
    <3>1. records' = [q \in DOMAIN records \cup {p} |-> IF q = p THEN d ELSE records[q]]
      BY <1>5 DEF MarkObject
    <3> HIDE DEF d
    <3> QED BY <1>1, <2>2, <3>1 DEF TypeOK
  <2>5. pages' \in [{0, 1} -> Seq(1 .. PageObjs)] /\ \A i \in {0, 1} : Len(pages'[i]) <= NrPages
    BY <1>1, <1>5, <2>2 DEF MarkObject, TypeOK
  <2>6. scan' \in {Idle} \cup (Pointers \X ((SUBSET Fields) \ {{}}))
    <3>1. Fields \in SUBSET Fields
      OBVIOUS
    <3>2. Scanning(p, Fields) \in {Idle} \cup (Pointers \X ((SUBSET Fields) \ {{}}))
      <4>1. CASE Fields = {}
        BY <4>1 DEF Scanning
      <4>2. CASE Fields # {}
        <5>1. Fields \in (SUBSET Fields) \ {{}} /\ Scanning(p, Fields) = <<p, Fields>>
          BY <4>2 DEF Scanning
        <5> QED BY <5>1
      <4> QED BY <4>1, <4>2
    <3> QED BY <1>5, <3>2 DEF MarkObject
  <2>7. worklist' \subseteq Pointers /\ move_page' \in 0 .. NrPages
    BY <1>1, <1>5, <2>2 DEF MarkObject, TypeOK
  <2>8. UNCHANGED <<mutvars, mm, mark_true_bit, requested, gpc, used_end, uncopied, cycles, failure>>
    BY <1>5 DEF MarkObject
  <2> QED BY <1>1, <2>3, <2>4, <2>5, <2>6, <2>7, <2>8, ZenonT(60) DEF TypeOK, mutvars
<1>6. ASSUME NEW p \in Pointers, SkipMarked(p) PROVE TypeOK'
  BY <1>1, <1>6 DEF SkipMarked, TypeOK, mutvars, heapvars
<1>7. ASSUME NEW f \in Fields, ScanField(f) PROVE TypeOK'
  <2>1. scan # Idle /\ scan[1] \in DOMAIN objs /\ scan \in Pointers \X ((SUBSET Fields) \ {{}})
    BY <1>1, <1>7 DEF ScanField, Idle, IInv, Recorded, TypeOK
  <2>2. objs[scan[1]].fields[f] \in Pointers \cup {Null}
    BY <1>1, <2>1 DEF TypeOK, Objects
  <2>3. scan' \in {Idle} \cup (Pointers \X ((SUBSET Fields) \ {{}}))
    BY <1>7, <2>1 DEF ScanField, Scanning
  <2>4. worklist' \subseteq Pointers
    BY <1>1, <1>7, <2>2 DEF ScanField, TypeOK
  <2> QED BY <1>1, <1>7, <2>3, <2>4 DEF ScanField, TypeOK, mutvars, heapvars
<1>8. CASE MarkDone
  BY <1>1, <1>8, SMTT(60) DEF MarkDone, TypeOK, mutvars, heapvars
<1>9. CASE Step3
  <2>1. \A p \in Rooted : Mapped(p) \in Pointers
    BY <1>1, <1>9, SMTT(60) DEF Step3, Step3Failure, Mapped, TypeOK, Rooted
  <2>2. \A m \in Mutators, s \in Slots : Mapped(roots[m][s]) \in Pointers \cup {Null}
    BY <2>1 DEF Rooted, Mapped
  <2>3. roots' \in [Mutators -> [Slots -> Pointers \cup {Null}]]
    BY <1>9, <2>2 DEF Step3
  <2>4. uncopied' \subseteq 1 .. NrPages
    BY <1>1, <1>9 DEF Step3, TypeOK
  <2> QED BY <1>1, <1>9, <2>3, <2>4, SMTT(60) DEF Step3, TypeOK
<1>10. CASE Step3Panics
  BY <1>1, <1>10 DEF Step3Panics, Step3Failure, TypeOK, mutvars, heapvars, gcvars
<1>11. ASSUME NEW k \in 1 .. NrPages, CopyPage(k) PROVE TypeOK'
  <2>1. \A q \in {records[p] : p \in Sources(k)} :
          Copied(CHOOSE p \in Sources(k) : records[p] = q) \in Objects
    <3> SUFFICES ASSUME NEW p0 \in Sources(k), NEW q, q = records[p0]
                 PROVE  Copied(CHOOSE p \in Sources(k) : records[p] = q) \in Objects
      OBVIOUS
    <3> DEFINE p1 == CHOOSE p \in Sources(k) : records[p] = q
    <3>1. p1 \in Sources(k)
      OBVIOUS
    <3>2. p1 \in DOMAIN objs /\ Pointees(p1) \subseteq DOMAIN records
      BY <1>11, <3>1 DEF CopyPage, Sources, IInv, Recorded
    <3> QED BY <1>1, <3>2, ObjectTypes
  <2>2. \A p \in Sources(k) : records[p] \in Pointers
    BY <1>1 DEF Sources, TypeOK
  <2>3. DOMAIN objs' = DOMAIN objs \cup {records[p] : p \in Sources(k)}
        /\ \A q \in DOMAIN objs' : objs'[q] \in Objects
    <3>1. objs' = [q \in DOMAIN objs \cup {records[p] : p \in Sources(k)} |->
             IF q \in DOMAIN objs THEN objs[q] ELSE Copied(CHOOSE p \in Sources(k) : records[p] = q)]
      BY <1>11 DEF CopyPage
    <3>2. \A q \in DOMAIN objs : objs[q] \in Objects
      BY <1>1 DEF TypeOK
    <3> QED BY <2>1, <3>1, <3>2
  <2>4. DOMAIN objs' \subseteq Pointers /\ objs' \in [DOMAIN objs' -> Objects]
    <3>1. objs' = [q \in DOMAIN objs' |-> objs'[q]]
      BY <1>11 DEF CopyPage
    <3> QED BY <1>1, <2>2, <2>3, <3>1 DEF TypeOK
  <2> QED BY <1>1, <1>11, <2>4 DEF CopyPage, TypeOK, mutvars
<1>12. ASSUME NEW k \in 1 .. NrPages, CopyPagePanics(k) PROVE TypeOK'
  BY <1>1, <1>12 DEF CopyPagePanics, TypeOK, mutvars, heapvars, gcvars
<1>13. CASE Step4
  BY <1>1, <1>13 DEF Step4, TypeOK, mutvars, Empty
<1>14. CASE Step5
  <2>1. cycles' \in 0 .. MaxCycles + 1
    BY <1>1, <1>14 DEF Step5, IInv, Requests, TypeOK
  <2> QED BY <1>1, <1>14, <2>1 DEF Step5, TypeOK, heapvars, gcvars
<1> QED
  BY <1>2, <1>3, <1>4, <1>5, <1>6, <1>7, <1>8, <1>9, <1>10, <1>11, <1>12, <1>13, <1>14 DEF CollectorStep

-----------------------------------------------------------------------------
(* Steps that leave the memory alone.                                      *)

\* The heap is empty at first.
LEMMA InitIInv == Init => IInv
<1> SUFFICES ASSUME Init PROVE IInv
  OBVIOUS
<1>1. NrPages \in Nat \ {0} /\ PageObjs \in Nat \ {0} /\ MaxTries \in Nat \ {0} /\ MaxCycles \in Nat
  BY SizeAssumption
<1>2. DOMAIN objs = {} /\ DOMAIN records = {} /\ Rooted = {}
  BY DEF Init, Empty, Rooted
<1>3. TypeOK
  <2>1. objs \in [DOMAIN objs -> Objects] /\ records \in [DOMAIN records -> Pointers]
    BY <1>2 DEF Init, Empty
  <2>2. pages \in [{0, 1} -> Seq(1 .. PageObjs)] /\ \A s \in {0, 1} : Len(pages[s]) <= NrPages
    <3>1. <<>> \in Seq(1 .. PageObjs) /\ Len(<<>>) = 0
      OBVIOUS
    <3> QED BY <1>1, <3>1 DEF Init
  <2>3. /\ roots \in [Mutators -> [Slots -> Pointers \cup {Null}]]
        /\ local \in [Mutators -> 0 .. NrPages] /\ tries \in [Mutators -> 0 .. MaxTries]
        /\ mpc \in [Mutators -> {"run", "slow", "wait"}]
    BY <1>1 DEF Init
  <2>4. /\ mm \in {0, 1} /\ mark_true_bit \in {0, 1} /\ requested \in BOOLEAN
        /\ used_end \in 0 .. NrPages /\ move_page \in 0 .. NrPages /\ cycles \in 0 .. MaxCycles + 1
    <3>1. mm = 0 /\ mark_true_bit = 1 /\ requested = FALSE /\ used_end = 0 /\ move_page = 0 /\ cycles = 0
      BY DEF Init
    <3>2. cycles \in 0 .. MaxCycles + 1 /\ used_end \in 0 .. NrPages /\ move_page \in 0 .. NrPages
      BY <1>1, <3>1
    <3> QED BY <3>1, <3>2
  <2> QED BY <1>2, <2>1, <2>2, <2>3, <2>4 DEF Init, TypeOK
<1>4. Phases /\ Recorded /\ Requests /\ Tracing
  BY <1>1, <1>2 DEF Init, Phases, Recorded, Requests, Tracing
<1>5. Below /\ Copies /\ NoDangling /\ MarkUniform /\ RecordsSound
  BY <1>2 DEF Init, Below, Copies, NoDangling, MarkUniform, RecordsSound, InCurrent, Destinations
<1> QED BY <1>3, <1>4, <1>5 DEF IInv

\* What is shown of memory and of the records by every step.
Memory == Phases /\ Recorded /\ Below /\ Copies /\ NoDangling /\ MarkUniform /\ RecordsSound

\* A slot that is assigned adds to the roots at most what it is given.
LEMMA RootsAssigned ==
  ASSUME TypeOK, NEW m \in Mutators, NEW s \in Slots, NEW v, roots' = [roots EXCEPT ![m][s] = v]
  PROVE  Rooted' \subseteq Rooted \cup ({v} \ {Null})
<1> SUFFICES ASSUME NEW n \in Mutators, NEW r \in Slots, roots'[n][r] # Null
             PROVE  roots'[n][r] \in Rooted \cup ({v} \ {Null})
  BY DEF Rooted
<1>1. roots'[n][r] = IF n = m /\ r = s THEN v ELSE roots[n][r]
  BY DEF TypeOK
<1> QED BY <1>1 DEF Rooted

\* Steps that change neither memory nor the records.
LEMMA QuietStep ==
  ASSUME IInv, UNCHANGED <<heapvars, gcvars>>,
         Rooted' \subseteq Rooted \cup UNION {Pointees(q) : q \in InCurrent},
         gpc' = gpc \/ {gpc, gpc'} \subseteq {"idle", "flush", "step1", "step5"}
  PROVE  Memory'
<1>1. UNCHANGED <<objs, pages, mm, mark_true_bit, worklist, scan, move_page, records, uncopied>>
  BY DEF heapvars, gcvars
<1>2. Phases /\ Recorded /\ Below /\ Copies /\ NoDangling /\ MarkUniform /\ RecordsSound
  BY DEF IInv
<1>3. /\ Other' = Other /\ Marked' = Marked /\ From' = From
      /\ InCurrent' = InCurrent /\ Destinations' = Destinations
      /\ \A p : Pointees(p)' = Pointees(p)
      /\ \A p : Inside(p)' = Inside(p)
  BY <1>1 DEF Other, Marked, From, InCurrent, Destinations, Pointees, Inside
<1>4. Phases' /\ Recorded' /\ Below' /\ Copies' /\ MarkUniform' /\ RecordsSound'
  <2>1. Phases' /\ Copies' /\ MarkUniform' /\ RecordsSound'
    BY <1>1, <1>2, <1>3 DEF Phases, Copies, MarkUniform, RecordsSound
  <2>2. Recorded' /\ Below'
    BY <1>1, <1>2, <1>3 DEF Recorded, Below, Stale, Idle
  <2> QED BY <2>1, <2>2
<1>5. NoDangling'
  <2>1. Rooted' \cup UNION {Pointees(q)' : q \in InCurrent'}
          \subseteq Rooted \cup UNION {Pointees(q) : q \in InCurrent}
    BY <1>3
  <2> QED BY <1>1, <1>2, <1>3, <2>1 DEF NoDangling
<1> QED BY <1>4, <1>5 DEF Memory

\* Outside memory a mutator changes its roots and what it waits for.
LEMMA MutatorQuiet ==
  ASSUME IInv, NEW m \in Mutators,
         \/ AllocFromStalePage(m) \/ AllocFails(m) \/ RequestCycle(m) \/ GiveUp(m)
         \/ \E s \in Slots : \/ DropRoot(m, s)
                             \/ \E f \in Fields, r \in Slots : LoadField(m, s, f, r)
  PROVE  Memory' /\ Requests'
<1>1. TypeOK /\ Requests /\ NoDangling /\ MaxCycles \in Nat
  BY SizeAssumption DEF IInv
<1>2. CASE AllocFromStalePage(m)
  <2>1. UNCHANGED <<roots, heapvars, gcvars, gpc, requested, cycles>>
    BY <1>2 DEF AllocFromStalePage, mutvars
  <2>2. Rooted' = Rooted
    BY <2>1 DEF Rooted
  <2> QED BY <1>1, <2>1, <2>2, QuietStep DEF Requests
<1>3. CASE AllocFails(m) \/ RequestCycle(m) \/ GiveUp(m)
  <2>1. UNCHANGED <<roots, heapvars, gcvars, gpc, cycles>> /\ (requested' = requested \/ cycles < MaxCycles)
    BY <1>3 DEF AllocFails, RequestCycle, GiveUp
  <2>2. Rooted' = Rooted
    BY <2>1 DEF Rooted
  <2>3. Memory'
    BY <2>1, <2>2, QuietStep
  <2>4. cycles \in Nat
    BY <1>1 DEF TypeOK
  <2> QED BY <1>1, <2>1, <2>3, <2>4 DEF Requests
<1>4. ASSUME NEW s \in Slots, DropRoot(m, s) PROVE Memory' /\ Requests'
  <2>1. UNCHANGED <<heapvars, gcvars, gpc, cycles, requested>> /\ roots' = [roots EXCEPT ![m][s] = Null]
    BY <1>4 DEF DropRoot
  <2>2. Rooted' \subseteq Rooted
    BY <1>1, <2>1, RootsAssigned
  <2> QED BY <1>1, <2>1, <2>2, QuietStep DEF Requests
<1>5. ASSUME NEW s \in Slots, NEW f \in Fields, NEW r \in Slots, LoadField(m, s, f, r)
      PROVE  Memory' /\ Requests'
  <2> DEFINE v == objs[roots[m][s]].fields[f]
  <2>1. UNCHANGED <<heapvars, gcvars, gpc, cycles, requested>> /\ roots' = [roots EXCEPT ![m][r] = v]
    BY <1>5 DEF LoadField
  <2>2. roots[m][s] \in InCurrent
    BY <1>1, <1>5 DEF LoadField, Accessible, NoDangling, Rooted, InCurrent
  <2>3. {v} \ {Null} \subseteq UNION {Pointees(q) : q \in InCurrent}
    BY <2>2 DEF Pointees
  <2>4. Rooted' \subseteq Rooted \cup ({v} \ {Null})
    BY <1>1, <2>1, RootsAssigned
  <2>5. Rooted' \subseteq Rooted \cup UNION {Pointees(q) : q \in InCurrent}
    BY <2>3, <2>4
  <2> QED BY <1>1, <2>1, <2>5, QuietStep DEF Requests
<1> QED BY <1>2, <1>3, <1>4, <1>5

\* Outside memory the collector changes the step it is in.
LEMMA CollectorQuiet ==
  ASSUME IInv, StartCycle \/ Flush \/ Step5 \/ Step3Panics \/ \E k \in 1 .. NrPages : CopyPagePanics(k)
  PROVE  Memory' /\ Requests'
<1>1. TypeOK /\ Requests /\ MaxCycles \in Nat
  BY SizeAssumption DEF IInv
<1>2. CASE Step3Panics \/ \E k \in 1 .. NrPages : CopyPagePanics(k)
  <2>1. UNCHANGED <<roots, heapvars, gcvars, gpc, requested, cycles>>
    BY <1>2 DEF Step3Panics, CopyPagePanics, mutvars
  <2>2. Rooted' = Rooted
    BY <2>1 DEF Rooted
  <2> QED BY <1>1, <2>1, <2>2, QuietStep DEF Requests
<1>3. CASE StartCycle \/ Flush
  <2>1. UNCHANGED <<roots, heapvars, gcvars, cycles>> /\ {gpc, gpc'} \subseteq {"idle", "flush", "step1", "step5"}
    BY <1>3 DEF StartCycle, Flush, mutvars
  <2>2. Rooted' = Rooted
    BY <2>1 DEF Rooted
  <2>3. Requests'
    BY <1>1, <1>3 DEF StartCycle, Flush, Requests
  <2> QED BY <2>1, <2>2, <2>3, QuietStep
<1>4. CASE Step5
  <2>1. UNCHANGED <<roots, heapvars, gcvars>> /\ {gpc, gpc'} \subseteq {"idle", "flush", "step1", "step5"}
    BY <1>4 DEF Step5
  <2>2. Rooted' = Rooted
    BY <2>1 DEF Rooted
  <2>3. Requests'
    BY <1>1, <1>4 DEF Step5, Requests, TypeOK
  <2> QED BY <2>1, <2>2, <2>3, QuietStep
<1> QED BY <1>2, <1>3, <1>4

-----------------------------------------------------------------------------
(* Mutators in memory.                                                     *)

\* A new object is where nothing was: memory and the records keep their shape.
LEMMA AllocStep ==
  ASSUME IInv, NEW m \in Mutators, NEW s \in Slots, Alloc(m, s)
  PROVE  Memory' /\ Requests'
<1>a. PICK t : t = pages[mm]
  OBVIOUS
<1>b. PICK pg : pg = Page(t, local[m])
  OBVIOUS
<1>c. PICK new : new = Placed(t, local[m])
  OBVIOUS
<1>d. PICK p : p = Address(mm, t, local[m])
  OBVIOUS
<1>1. TypeOK /\ Phases /\ Recorded /\ Below /\ Copies /\ Requests /\ NoDangling /\ MarkUniform /\ RecordsSound
  BY DEF IInv
<1>2. mm \in {0, 1} /\ local[m] \in 0 .. NrPages /\ ~Stale(t, local[m]) /\ Fits(t, local[m])
      /\ pages \in [{0, 1} -> Seq(1 .. PageObjs)] /\ t \in Seq(1 .. PageObjs)
  BY <1>1, <1>a DEF TypeOK, Alloc
<1>3. /\ p \in Pointers /\ p[1] = mm /\ p[2] = pg /\ p[3] = new[pg]
      /\ pg \in DOMAIN new
      /\ \A k \in DOMAIN t : k \in DOMAIN new /\ t[k] <= new[k]
      /\ pg \in DOMAIN t => new[pg] > t[pg]
      /\ new \in Seq(1 .. PageObjs)
  BY <1>1, <1>2, <1>a, <1>b, <1>c, <1>d, PlaceFacts
<1>e. (\A k \in DOMAIN t : t[k] \in Int) /\ (\A k \in DOMAIN new : new[k] \in Int)
  BY <1>2, <1>3, TableElements
<1>4. pages' = [pages EXCEPT ![mm] = new] /\ pg \notin uncopied
      /\ UNCHANGED <<mm, mark_true_bit, requested, gpc, used_end, worklist, scan, move_page, records,
                     uncopied, cycles>>
  BY <1>a, <1>b, <1>c DEF Alloc, gcvars
<1>5. objs' = [q \in DOMAIN objs \cup {p} |-> IF q = p THEN NewObject ELSE objs[q]]
      /\ roots' = [roots EXCEPT ![m][s] = p]
  BY <1>a, <1>d DEF Alloc
<1>6. /\ Other' = Other /\ Marked' = Marked /\ From' = From /\ Destinations' = Destinations
  BY <1>4 DEF Other, Marked, From, Destinations
<1>7. \A q \in Pointers : Inside(q) => Inside(q)'
  <2> SUFFICES ASSUME NEW q \in Pointers, Inside(q) PROVE Inside(q)'
    OBVIOUS
  <2>1. q[1] \in {0, 1}
    BY DEF Pointers
  <2>2. CASE q[1] = mm
    <3>1. pages'[q[1]] = new /\ q[2] \in DOMAIN t /\ q[3] <= t[q[2]]
      BY <1>2, <1>4, <1>a, <2>2 DEF Inside
    <3>2. t[q[2]] <= new[q[2]] /\ q[2] \in DOMAIN new
      BY <1>3, <3>1
    <3>3. t[q[2]] \in Int /\ new[q[2]] \in Int /\ q[3] \in Int
      BY <1>e, <3>1, <3>2 DEF Pointers
    <3> QED BY <3>1, <3>2, <3>3 DEF Inside
  <2>3. CASE q[1] # mm
    BY <1>2, <1>4, <2>1, <2>3 DEF Inside
  <2> QED BY <2>2, <2>3
<1>8. Inside(p)' /\ ~Inside(p)
  <2>1. pages'[mm] = new
    BY <1>2, <1>4
  <2>2. p[3] \in Int
    BY <1>3 DEF Pointers
  <2>3. pg \in DOMAIN t => t[pg] \in Int
    BY <1>e
  <2> QED BY <1>3, <1>a, <2>1, <2>2, <2>3 DEF Inside
<1>9. p \notin DOMAIN objs /\ p \notin Destinations
  BY <1>1, <1>8 DEF Below
<1>10. DOMAIN objs' = DOMAIN objs \cup {p} /\ objs'[p] = NewObject /\ \A q \in DOMAIN objs : objs'[q] = objs[q]
  BY <1>5, <1>9
<1>11. InCurrent' = InCurrent \cup {p}
  BY <1>3, <1>4, <1>10 DEF InCurrent
<1>12. Pointees(p)' = {} /\ \A q \in DOMAIN objs : Pointees(q)' = Pointees(q)
  BY <1>10 DEF Pointees, NewObject
<1>13. NewObject.mark = Marked
  BY DEF NewObject, Marked
<1>14. Phases'
  BY <1>1, <1>3, <1>4, <1>10 DEF Phases, Idle
<1>15. Recorded'
  <2>1. pages'[Other] = pages[Other]
    BY <1>2, <1>4 DEF Other
  <2> QED BY <1>1, <1>4, <1>6, <1>10, <2>1 DEF Recorded, Idle, Stale
<1>16. Below'
  <2>1. DOMAIN objs \cup Destinations \subseteq Pointers
    BY <1>1 DEF TypeOK, Destinations
  <2> QED BY <1>1, <1>6, <1>7, <1>8, <1>10, <2>1 DEF Below
<1>17. Copies'
  <2>1. DOMAIN pages[mm] \subseteq DOMAIN pages'[mm]
    BY <1>2, <1>3, <1>4, <1>a
  <2>2. p[2] \notin uncopied
    BY <1>3, <1>4
  <2> QED BY <1>1, <1>4, <1>10, <1>11, <2>1, <2>2 DEF Copies
<1>18. NoDangling'
  <2>1. Rooted' \subseteq Rooted \cup ({p} \ {Null})
    BY <1>1, <1>5, RootsAssigned
  <2>2. UNION {Pointees(q)' : q \in InCurrent'} = UNION {Pointees(q) : q \in InCurrent}
    BY <1>11, <1>12 DEF InCurrent
  <2> QED BY <1>1, <1>3, <1>4, <1>6, <1>10, <2>1, <2>2 DEF NoDangling
<1>19. MarkUniform'
  BY <1>1, <1>4, <1>6, <1>10, <1>11, <1>13 DEF MarkUniform, InCurrent
<1>20. RecordsSound'
  <2>1. \A d \in Destinations : d[2] <= Len(pages'[d[1]]) /\ d[3] <= pages'[d[1]][d[2]]
    <3> SUFFICES ASSUME NEW d \in Destinations PROVE d[2] <= Len(pages'[d[1]]) /\ d[3] <= pages'[d[1]][d[2]]
      OBVIOUS
    <3>1. d \in Pointers /\ Inside(d)'
      BY <1>1, <1>7 DEF Below, TypeOK, Destinations
    <3>2. pages'[d[1]] \in Seq(1 .. PageObjs)
      BY <1>2, <1>3, <1>4, <1>a, <3>1 DEF Pointers
    <3> QED BY <3>1, <3>2 DEF Inside, Pointers
  <2>2. \A q \in DOMAIN records : records[q] \in DOMAIN objs' => records[q] \in DOMAIN objs
    BY <1>9, <1>10 DEF Destinations
  <2>3. \A q \in DOMAIN records : q \in DOMAIN objs
    BY <1>1 DEF Recorded
  <2> QED BY <1>1, <1>4, <1>6, <1>10, <2>1, <2>2, <2>3 DEF RecordsSound
<1> QED BY <1>1, <1>4, <1>14, <1>15, <1>16, <1>17, <1>18, <1>19, <1>20 DEF Memory, Requests

\* A store is into an object of the current space, of a pointer to the current space.
LEMMA StoreStep ==
  ASSUME IInv, NEW m \in Mutators, NEW s \in Slots, NEW f \in Fields, NEW r \in Slots,
         StoreField(m, s, f, r)
  PROVE  Memory' /\ Requests'
<1> DEFINE p == roots[m][s]
           v == roots[m][r]
<1>1. TypeOK /\ Phases /\ Recorded /\ Below /\ Copies /\ Requests /\ NoDangling /\ MarkUniform /\ RecordsSound
  BY DEF IInv
<1>2. p \in DOMAIN objs /\ p \in InCurrent /\ ({v} \ {Null}) \subseteq Rooted
  BY <1>1 DEF StoreField, Accessible, NoDangling, Rooted, InCurrent
<1>3. objs' = [objs EXCEPT ![p] = [objs[p] EXCEPT !.fields[f] = v]] /\ objs[p] \in Objects
  BY <1>1, <1>2 DEF StoreField, TypeOK
<1>4. UNCHANGED <<roots, pages, mm, mark_true_bit, requested, gpc, used_end, worklist, scan, move_page, records,
                  uncopied, cycles>>
  BY DEF StoreField, mutvars, gcvars
<1> HIDE DEF p, v
<1>5. /\ DOMAIN objs' = DOMAIN objs
      /\ \A q \in DOMAIN objs : objs'[q].id = objs[q].id /\ objs'[q].mark = objs[q].mark
      /\ \A q \in DOMAIN objs : q # p => objs'[q] = objs[q]
      /\ objs'[p].fields = [objs[p].fields EXCEPT ![f] = v]
  BY <1>1, <1>2, <1>3 DEF TypeOK, Objects
<1>6. /\ Other' = Other /\ Marked' = Marked /\ From' = From /\ Destinations' = Destinations
      /\ InCurrent' = InCurrent /\ Rooted' = Rooted
  BY <1>4, <1>5 DEF Other, Marked, From, Destinations, InCurrent, Rooted
<1>7. \A q \in DOMAIN objs : Pointees(q)' \subseteq Pointees(q) \cup Rooted
  <2>1. objs[p].fields \in [Fields -> Pointers \cup {Null}]
    BY <1>3 DEF Objects
  <2> SUFFICES ASSUME NEW q \in DOMAIN objs, NEW g \in Fields, objs'[q].fields[g] # Null
               PROVE  objs'[q].fields[g] \in Pointees(q) \cup Rooted
    BY DEF Pointees
  <2>2. objs'[q].fields[g] = objs[q].fields[g] \/ objs'[q].fields[g] = v
    BY <1>5, <2>1
  <2> QED BY <1>2, <2>2 DEF Pointees
<1>8. Phases' /\ Recorded' /\ Copies'
  <2>1. Phases' /\ Copies'
    BY <1>1, <1>4, <1>5, <1>6 DEF Phases, Copies, Idle
  <2>2. Recorded'
    BY <1>1, <1>4, <1>5, <1>6 DEF Recorded, Idle, Stale
  <2> QED BY <2>1, <2>2
<1>9. Below'
  BY <1>1, <1>4, <1>5, <1>6 DEF Below, Inside
<1>10. MarkUniform'
  BY <1>1, <1>4, <1>5, <1>6 DEF MarkUniform, InCurrent
<1>11. RecordsSound'
  BY <1>1, <1>4, <1>5, <1>6 DEF RecordsSound, Recorded
<1>12. NoDangling'
  <2>1. Rooted' \cup UNION {Pointees(q)' : q \in InCurrent'} \subseteq Rooted \cup UNION {Pointees(q) : q \in InCurrent}
    BY <1>6, <1>7 DEF InCurrent
  <2> QED BY <1>1, <1>4, <1>5, <1>6, <2>1 DEF NoDangling
<1> QED BY <1>1, <1>4, <1>8, <1>9, <1>10, <1>11, <1>12 DEF Memory, Requests

-----------------------------------------------------------------------------
(* The collector in memory.                                                *)

\* Step 1 starts with the roots, no records and an empty table of to-space.
LEMMA Step1Step == IInv /\ Step1 => Memory' /\ Requests'
<1> SUFFICES ASSUME IInv, Step1 PROVE Memory' /\ Requests'
  OBVIOUS
<1>1. TypeOK /\ Phases /\ Recorded /\ Below /\ Copies /\ Requests /\ NoDangling /\ MarkUniform /\ RecordsSound
  BY DEF IInv
<1>2. /\ gpc = "step1" /\ gpc' = "mark" /\ requested' = FALSE /\ worklist' = Rooted /\ move_page' = 0
      /\ pages' = [pages EXCEPT ![Other] = <<>>]
      /\ UNCHANGED <<roots, objs, mm, scan, records, uncopied, cycles>>
  BY DEF Step1, mutvars
<1>3. mm \in {0, 1} /\ Other \in {0, 1} /\ Other # mm /\ Other' = Other
      /\ pages'[mm] = pages[mm] /\ pages'[Other] = <<>>
  BY <1>1, <1>2 DEF TypeOK, Other
<1>4. DOMAIN records = {} /\ Destinations = {} /\ Destinations' = {} /\ uncopied = {}
      /\ \A p \in DOMAIN objs : p[1] = mm
  BY <1>1, <1>2 DEF Phases, Destinations
<1>5. InCurrent' = InCurrent /\ Rooted' = Rooted /\ \A q : Pointees(q)' = Pointees(q)
  BY <1>2 DEF InCurrent, Rooted, Pointees
<1>6. Rooted \subseteq DOMAIN objs
  BY <1>1, <1>4 DEF NoDangling
<1>7. Phases'
  BY <1>1, <1>2, <1>4 DEF Phases, Idle
<1>8. Recorded'
  <2>1. ~Stale(pages[Other], move_page)'
    <3>1. Len(<<>>) = 0 /\ ~(0 > 0)
      OBVIOUS
    <3> QED BY <1>2, <1>3, <3>1 DEF Stale
  <2> QED BY <1>1, <1>2, <1>4, <1>6, <2>1 DEF Recorded, Idle
<1>9. Below'
  BY <1>1, <1>2, <1>3, <1>4 DEF Below, Inside
<1>10. Copies'
  BY <1>2, <1>4 DEF Copies
<1>11. NoDangling'
  BY <1>1, <1>2, <1>4, <1>5 DEF NoDangling
<1>12. MarkUniform' /\ RecordsSound'
  BY <1>2, <1>4 DEF MarkUniform, RecordsSound
<1>13. Requests'
  BY <1>1, <1>2 DEF Requests
<1> QED BY <1>7, <1>8, <1>9, <1>10, <1>11, <1>12, <1>13 DEF Memory

\* The marker takes what it marks from its stack and gives it a place in to-space
\* that no other object has.
LEMMA MarkObjectStep ==
  ASSUME IInv, NEW p \in Pointers, MarkObject(p)
  PROVE  Memory' /\ Requests'
<1>a. PICK t : t = pages[Other]
  OBVIOUS
<1>b. PICK new : new = Placed(t, move_page)
  OBVIOUS
<1>c. PICK d : d = Address(Other, t, move_page)
  OBVIOUS
<1>1. TypeOK /\ Phases /\ Recorded /\ Below /\ Copies /\ Requests /\ NoDangling /\ MarkUniform /\ RecordsSound
  BY DEF IInv
<1>2. gpc = "mark" /\ scan = Idle /\ p \in worklist /\ objs[p].mark # Marked /\ Fits(t, move_page)
  BY <1>a DEF MarkObject
<1>3. /\ worklist' = worklist \ {p} /\ objs' = [objs EXCEPT ![p].mark = Marked]
      /\ records' = [q \in DOMAIN records \cup {p} |-> IF q = p THEN d ELSE records[q]]
      /\ move_page' = Page(t, move_page) /\ pages' = [pages EXCEPT ![Other] = new]
      /\ scan' = Scanning(p, Fields)
      /\ UNCHANGED <<roots, mm, mark_true_bit, requested, gpc, uncopied, cycles>>
  BY <1>a, <1>b, <1>c DEF MarkObject, mutvars
<1>4. /\ mm \in {0, 1} /\ Other \in {0, 1} /\ Other # mm /\ move_page \in 0 .. NrPages
      /\ ~Stale(t, move_page) /\ t \in Seq(1 .. PageObjs) /\ pages \in [{0, 1} -> Seq(1 .. PageObjs)]
  BY <1>1, <1>2, <1>a DEF TypeOK, Other, Recorded
<1>5. /\ d \in Pointers /\ d[1] = Other /\ d[2] = Page(t, move_page) /\ d[3] = new[d[2]]
      /\ d[2] \in DOMAIN new
      /\ \A k \in DOMAIN t : k \in DOMAIN new /\ t[k] <= new[k]
      /\ d[2] \in DOMAIN t => new[d[2]] > t[d[2]]
      /\ new \in Seq(1 .. PageObjs)
  BY <1>1, <1>2, <1>4, <1>a, <1>b, <1>c, PlaceFacts
<1>6. /\ \A k \in DOMAIN t : t[k] \in Int
      /\ \A k \in DOMAIN new : new[k] \in Int
      /\ DOMAIN new = 1 .. Len(new) /\ Len(new) \in Nat
  BY <1>4, <1>5, TableElements
<1>7. p \in DOMAIN objs /\ p \notin DOMAIN records
  BY <1>1, <1>2 DEF Recorded
<1>8. /\ DOMAIN objs' = DOMAIN objs
      /\ \A q \in DOMAIN objs : objs'[q].id = objs[q].id /\ objs'[q].fields = objs[q].fields
      /\ \A q \in DOMAIN objs : objs'[q].mark = IF q = p THEN Marked ELSE objs[q].mark
  <2>1. \A q \in DOMAIN objs : objs[q] \in Objects
    BY <1>1 DEF TypeOK
  <2> QED BY <1>3, <1>7, <2>1 DEF Objects
<1>9. /\ Other' = Other /\ Marked' = Marked /\ From' = From /\ InCurrent' = InCurrent /\ Rooted' = Rooted
      /\ \A q \in DOMAIN objs : Pointees(q)' = Pointees(q)
      /\ From = mm /\ mm = 1 - Other
  BY <1>2, <1>3, <1>4, <1>8 DEF Other, Marked, From, InCurrent, Rooted, Pointees
<1>10. /\ DOMAIN records' = DOMAIN records \cup {p} /\ records'[p] = d
       /\ \A q \in DOMAIN records : records'[q] = records[q]
       /\ Destinations' = Destinations \cup {d}
  BY <1>3, <1>7 DEF Destinations
<1>11. \A q \in Pointers : Inside(q) => Inside(q)'
  <2> SUFFICES ASSUME NEW q \in Pointers, Inside(q) PROVE Inside(q)'
    OBVIOUS
  <2>1. q[1] \in {0, 1}
    BY DEF Pointers
  <2>2. CASE q[1] = Other
    <3>1. pages'[q[1]] = new /\ q[2] \in DOMAIN t /\ q[3] <= t[q[2]]
      BY <1>3, <1>4, <1>a, <2>2 DEF Inside
    <3>2. t[q[2]] <= new[q[2]] /\ q[2] \in DOMAIN new
      BY <1>5, <3>1
    <3>3. t[q[2]] \in Int /\ new[q[2]] \in Int /\ q[3] \in Int
      BY <1>6, <3>1, <3>2 DEF Pointers
    <3> QED BY <3>1, <3>2, <3>3 DEF Inside
  <2>3. CASE q[1] # Other
    BY <1>3, <1>4, <2>1, <2>3 DEF Inside
  <2> QED BY <2>2, <2>3
<1>12. Inside(d)' /\ ~Inside(d)
  <2>1. pages'[Other] = new
    BY <1>3, <1>4
  <2>2. d[3] \in Int
    BY <1>5 DEF Pointers
  <2>3. d[2] \in DOMAIN t => t[d[2]] \in Int
    BY <1>6
  <2> QED BY <1>5, <1>a, <2>1, <2>2, <2>3 DEF Inside
<1>13. d \notin DOMAIN objs /\ d \notin Destinations
  BY <1>1, <1>12 DEF Below
<1>14. Phases'
  BY <1>1, <1>2, <1>3, <1>8 DEF Phases
<1>15. Recorded'
  <2>1. ~Stale(pages[Other], move_page)'
    <3>1. pages'[Other'] = new /\ move_page' \in DOMAIN new
      BY <1>3, <1>4, <1>5, <1>9
    <3> QED BY <1>6, <3>1 DEF Stale
  <2>2. scan' # Idle => scan'[1] = p
    BY <1>3 DEF Scanning
  <2>3. worklist' \subseteq DOMAIN objs'
    BY <1>1, <1>3, <1>8 DEF Recorded
  <2>4. \A q \in DOMAIN records' :
          q \in DOMAIN objs' /\ q[1] = From' /\ records'[q][1] = 1 - From' /\ objs'[q].mark = Marked'
    <3>1. p[1] = mm
      BY <1>1, <1>2, <1>7 DEF Phases
    <3>2. ASSUME NEW q \in DOMAIN records
          PROVE  q \in DOMAIN objs' /\ q[1] = From' /\ records'[q][1] = 1 - From' /\ objs'[q].mark = Marked'
      <4>1. q \in DOMAIN objs /\ q[1] = From /\ records[q][1] = 1 - From /\ objs[q].mark = Marked
        BY <1>1 DEF Recorded
      <4> QED BY <1>8, <1>9, <1>10, <4>1
    <3>3. p \in DOMAIN objs' /\ p[1] = From' /\ records'[p][1] = 1 - From' /\ objs'[p].mark = Marked'
      BY <1>4, <1>5, <1>7, <1>8, <1>9, <1>10, <3>1
    <3> QED BY <1>10, <3>2, <3>3
  <2> QED BY <1>10, <2>1, <2>2, <2>3, <2>4 DEF Recorded, Idle
<1>16. Below'
  <2>1. DOMAIN objs \cup Destinations \subseteq Pointers
    BY <1>1 DEF TypeOK, Destinations
  <2> QED BY <1>1, <1>8, <1>10, <1>11, <1>12, <2>1 DEF Below
<1>17. Copies'
  <2>1. uncopied = {} /\ uncopied' = {} /\ gpc' # "copy"
    BY <1>1, <1>2, <1>3 DEF Phases
  <2> QED BY <2>1 DEF Copies
<1>18. NoDangling'
  <2>1. UNION {Pointees(q)' : q \in InCurrent'} = UNION {Pointees(q) : q \in InCurrent}
    BY <1>9 DEF InCurrent
  <2> QED BY <1>1, <1>3, <1>8, <1>9, <1>10, <2>1 DEF NoDangling
<1>19. MarkUniform'
  BY <1>2, <1>3 DEF MarkUniform
<1>20. RecordsSound'
  <2>1. \A e \in Destinations' : e[2] <= Len(pages'[e[1]]) /\ e[3] <= pages'[e[1]][e[2]]
    <3> SUFFICES ASSUME NEW e \in Destinations' PROVE e[2] <= Len(pages'[e[1]]) /\ e[3] <= pages'[e[1]][e[2]]
      OBVIOUS
    <3>1. e \in Pointers /\ Inside(e)'
      BY <1>1, <1>5, <1>10, <1>11, <1>12 DEF Below, TypeOK, Destinations
    <3>2. pages'[e[1]] \in Seq(1 .. PageObjs)
      BY <1>3, <1>4, <1>5, <3>1 DEF Pointers
    <3> QED BY <3>1, <3>2 DEF Inside, Pointers
  <2>2. \A q \in DOMAIN records' : records'[q] \in DOMAIN objs' => q \in DOMAIN records
    BY <1>8, <1>10, <1>13
  <2>3. \A q, r \in DOMAIN records' : records'[q] = records'[r] => q = r
    BY <1>1, <1>10, <1>13 DEF RecordsSound, Destinations
  <2>4. \A q \in DOMAIN records : q \in DOMAIN objs
    BY <1>1 DEF Recorded
  <2> QED BY <1>1, <1>8, <1>10, <2>1, <2>2, <2>3, <2>4 DEF RecordsSound
<1>21. Requests'
  BY <1>1, <1>3 DEF Requests
<1> QED BY <1>14, <1>15, <1>16, <1>17, <1>18, <1>19, <1>20, <1>21 DEF Memory

\* The rest of marking only moves pointers to objects between the stack and the
\* records.
LEMMA TraceStep ==
  ASSUME IInv, (\E p \in Pointers : SkipMarked(p)) \/ (\E f \in Fields : ScanField(f)) \/ MarkDone
  PROVE  Memory' /\ Requests'
<1>1. TypeOK /\ Phases /\ Recorded /\ Below /\ Copies /\ Requests /\ NoDangling /\ MarkUniform /\ RecordsSound
  BY DEF IInv
<1>2. /\ gpc = "mark" /\ gpc' \in {"mark", "step3"}
      /\ UNCHANGED <<roots, objs, pages, mm, mark_true_bit, requested, records, uncopied, cycles>>
  BY DEF SkipMarked, ScanField, MarkDone, mutvars, heapvars
<1>3. /\ Other' = Other /\ Marked' = Marked /\ From' = From /\ From = mm
      /\ InCurrent' = InCurrent /\ Destinations' = Destinations /\ Rooted' = Rooted
      /\ \A p : Pointees(p)' = Pointees(p)
      /\ \A p : Inside(p)' = Inside(p)
  BY <1>2 DEF Other, Marked, From, InCurrent, Destinations, Pointees, Inside, Rooted
<1>4. /\ worklist' \subseteq DOMAIN objs
      /\ scan' # Idle => scan'[1] \in DOMAIN records
      /\ gpc' = "mark" => move_page' = move_page
      /\ gpc' # "mark" => worklist' = {} /\ scan' = Idle
  <2>1. CASE \E p \in Pointers : SkipMarked(p)
    BY <1>1, <2>1 DEF SkipMarked, Recorded
  <2>2. ASSUME NEW f \in Fields, ScanField(f)
        PROVE  /\ worklist' \subseteq DOMAIN objs /\ gpc' = "mark" /\ move_page' = move_page
               /\ scan' # Idle => scan'[1] \in DOMAIN records
    <3>1. scan # Idle /\ scan[1] \in DOMAIN records /\ scan[1] \in DOMAIN objs
      BY <1>1, <2>2 DEF ScanField, Idle, Recorded
    <3>2. scan[1] \in InCurrent
      BY <1>1, <1>2, <3>1 DEF Phases, InCurrent
    <3>3. {objs[scan[1]].fields[f]} \ {Null} \subseteq Pointees(scan[1])
      BY DEF Pointees
    <3>4. {objs[scan[1]].fields[f]} \ {Null} \subseteq DOMAIN objs
      <4>1. \A p \in Destinations : p[1] = 1 - mm /\ mm \in {0, 1}
        BY <1>1, <1>3 DEF Destinations, Recorded, TypeOK
      <4>2. \A p \in Pointees(scan[1]) : p[1] = mm /\ (p \in DOMAIN objs \/ p \in Destinations)
        BY <1>1, <3>2 DEF NoDangling
      <4> QED BY <3>3, <4>1, <4>2
    <3>5. scan' # Idle => scan'[1] = scan[1]
      BY <2>2 DEF ScanField, Scanning
    <3> QED BY <1>1, <2>2, <3>1, <3>4, <3>5 DEF ScanField, Recorded
  <2>3. CASE MarkDone
    BY <1>1, <2>3 DEF MarkDone, Recorded, Idle
  <2> QED BY <2>1, <2>2, <2>3
<1>5. Phases'
  BY <1>1, <1>2, <1>4 DEF Phases, Idle
<1>6. Recorded'
  BY <1>1, <1>2, <1>3, <1>4 DEF Recorded, Idle, Stale
<1>7. Below' /\ Copies' /\ MarkUniform' /\ RecordsSound'
  <2>1. Below' /\ RecordsSound'
    BY <1>1, <1>2, <1>3 DEF Below, RecordsSound
  <2> QED BY <1>1, <1>2, <1>3, <2>1 DEF Copies, MarkUniform
<1>8. NoDangling'
  <2>1. UNION {Pointees(q)' : q \in InCurrent'} = UNION {Pointees(q) : q \in InCurrent}
    BY <1>3
  <2> QED BY <1>1, <1>2, <1>3, <2>1 DEF NoDangling
<1>9. Requests'
  BY <1>1, <1>2 DEF Requests
<1> QED BY <1>5, <1>6, <1>7, <1>8, <1>9 DEF Memory

\* Step 3 turns every root into the place its object will have; nothing is in the
\* new space yet.
LEMMA Step3Step == IInv /\ Step3 => Memory' /\ Requests'
<1> SUFFICES ASSUME IInv, Step3 PROVE Memory' /\ Requests'
  OBVIOUS
<1>1. TypeOK /\ Phases /\ Recorded /\ Below /\ Copies /\ Requests /\ NoDangling /\ MarkUniform /\ RecordsSound
  BY DEF IInv
<1>2. /\ gpc = "step3" /\ gpc' = "copy" /\ mm' = Other /\ uncopied' = DOMAIN pages[Other]
      /\ Rooted \subseteq DOMAIN records
      /\ roots' = [m \in Mutators |-> [s \in Slots |-> Mapped(roots[m][s])]]
      /\ UNCHANGED <<objs, pages, mark_true_bit, requested, worklist, scan, records, cycles>>
  BY DEF Step3, Step3Failure
<1>3. mm \in {0, 1} /\ Other # mm /\ Other = 1 - mm /\ Other' = mm /\ From = mm /\ From' = mm
  BY <1>1, <1>2 DEF TypeOK, Other, From
<1>4. Marked' = Marked /\ Destinations' = Destinations /\ \A p : Inside(p)' = Inside(p)
  BY <1>2 DEF Marked, Destinations, Inside
<1>5. InCurrent' = {}
  BY <1>1, <1>2, <1>3 DEF Phases, InCurrent
<1>6. Rooted' \subseteq Destinations
  <2> SUFFICES ASSUME NEW m \in Mutators, NEW s \in Slots, roots'[m][s] # Null PROVE roots'[m][s] \in Destinations
    BY DEF Rooted
  <2>1. roots'[m][s] = Mapped(roots[m][s])
    BY <1>2
  <2>2. roots[m][s] \in Rooted
    BY <2>1 DEF Mapped, Rooted
  <2>3. roots'[m][s] = records[roots[m][s]] /\ roots[m][s] \in DOMAIN records
    BY <1>2, <2>1, <2>2 DEF Mapped, Rooted
  <2> QED BY <2>3 DEF Destinations
<1>7. \A p \in DOMAIN records : records[p][1] = Other /\ records[p][2] \in uncopied'
  BY <1>1, <1>2, <1>3 DEF Recorded, Below, Destinations, Inside
<1>8. Phases'
  BY <1>1, <1>2 DEF Phases, Idle
<1>9. Recorded'
  BY <1>1, <1>2, <1>3, <1>4 DEF Recorded, Idle
<1>10. Below' /\ RecordsSound'
  BY <1>1, <1>2, <1>4 DEF Below, RecordsSound
<1>11. Copies'
  BY <1>2, <1>5, <1>7 DEF Copies
<1>12. NoDangling' /\ MarkUniform'
  BY <1>2, <1>4, <1>5, <1>6, <1>7 DEF NoDangling, MarkUniform, Destinations
<1>13. Requests'
  BY <1>1, <1>2 DEF Requests
<1> QED BY <1>8, <1>9, <1>10, <1>11, <1>12, <1>13 DEF Memory

\* What the copier puts into a page: for every object with a place there a copy of
\* it, with the fields it has there.
LEMMA CopyEffect ==
  ASSUME IInv, NEW k, CopyPage(k)
  PROVE  /\ DOMAIN objs' = DOMAIN objs \cup {records[p] : p \in Sources(k)}
         /\ \A q \in DOMAIN objs : objs'[q] = objs[q]
         /\ \A p \in Sources(k) :
              /\ records[p] \notin DOMAIN objs /\ p \in DOMAIN objs /\ Pointees(p) \subseteq DOMAIN records
              /\ objs'[records[p]].id = objs[p].id /\ objs'[records[p]].mark = objs[p].mark
              /\ objs'[records[p]].fields = [f \in Fields |-> Mapped(objs[p].fields[f])]
<1>1. TypeOK /\ Recorded /\ Copies /\ RecordsSound
  BY DEF IInv
<1>2. /\ gpc = "copy" /\ k \in uncopied /\ \A p \in Sources(k) : Pointees(p) \subseteq DOMAIN records
      /\ objs' = [q \in DOMAIN objs \cup {records[p] : p \in Sources(k)} |->
           IF q \in DOMAIN objs THEN objs[q] ELSE Copied(CHOOSE p \in Sources(k) : records[p] = q)]
  BY DEF CopyPage
<1>3. ASSUME NEW p \in Sources(k)
      PROVE  /\ records[p] \notin DOMAIN objs /\ p \in DOMAIN objs
             /\ (CHOOSE r \in Sources(k) : records[r] = records[p]) = p
  <2>1. p \in DOMAIN records /\ records[p][2] = k
    BY DEF Sources
  <2>2. records[p][1] = mm /\ p \in DOMAIN objs
    BY <1>1, <1>2, <2>1 DEF Recorded, From, Other, TypeOK
  <2>3. records[p] \notin DOMAIN objs
    BY <1>1, <1>2, <2>1, <2>2 DEF Copies, InCurrent
  <2>4. \A r \in Sources(k) : records[r] = records[p] => r = p
    BY <1>1, <2>1 DEF RecordsSound, Sources
  <2> QED BY <2>2, <2>3, <2>4
<1>4. \A p \in Sources(k) : objs'[records[p]] = Copied(p)
  <2> SUFFICES ASSUME NEW p \in Sources(k) PROVE objs'[records[p]] = Copied(p)
    OBVIOUS
  <2>1. objs'[records[p]] = Copied(CHOOSE r \in Sources(k) : records[r] = records[p])
    BY <1>2, <1>3
  <2> QED BY <1>3, <2>1
<1>5. \A p \in Sources(k) : /\ Copied(p).id = objs[p].id /\ Copied(p).mark = objs[p].mark
                            /\ Copied(p).fields = [f \in Fields |-> Mapped(objs[p].fields[f])]
  <2> SUFFICES ASSUME NEW p \in Sources(k)
               PROVE  /\ Copied(p).id = objs[p].id /\ Copied(p).mark = objs[p].mark
                      /\ Copied(p).fields = [f \in Fields |-> Mapped(objs[p].fields[f])]
    OBVIOUS
  <2>1. objs[p] \in Objects
    BY <1>1, <1>3 DEF TypeOK
  <2> QED BY <2>1 DEF Copied, Objects
<1>6. DOMAIN objs' = DOMAIN objs \cup {records[p] : p \in Sources(k)} /\ \A q \in DOMAIN objs : objs'[q] = objs[q]
  BY <1>2
<1> QED BY <1>2, <1>3, <1>4, <1>5, <1>6, SMTT(60)

\* Filling a page puts objects where the records say, and their fields refer to
\* the current space.
LEMMA CopyStep ==
  ASSUME IInv, NEW k \in 1 .. NrPages, CopyPage(k)
  PROVE  Memory' /\ Requests'
<1>1. TypeOK /\ Phases /\ Recorded /\ Below /\ Copies /\ Requests /\ NoDangling /\ MarkUniform /\ RecordsSound
  BY DEF IInv
<1>2. /\ gpc = "copy" /\ k \in uncopied /\ uncopied' = uncopied \ {k}
      /\ UNCHANGED <<roots, pages, mm, mark_true_bit, requested, gpc, worklist, scan, records, cycles>>
  BY DEF CopyPage, mutvars
<1>3. /\ Other' = Other /\ Marked' = Marked /\ From' = From /\ Destinations' = Destinations
      /\ Rooted' = Rooted /\ \A p : Inside(p)' = Inside(p)
  BY <1>2 DEF Other, Marked, From, Destinations, Rooted, Inside
<1>4. mm \in {0, 1} /\ From = Other /\ Other # mm /\ \A p \in DOMAIN records : p[1] # mm /\ records[p][1] = mm
  BY <1>1, <1>2 DEF TypeOK, From, Other, Recorded
<1>5. /\ DOMAIN objs' = DOMAIN objs \cup {records[p] : p \in Sources(k)}
      /\ \A q \in DOMAIN objs : objs'[q] = objs[q]
      /\ \A p \in Sources(k) :
           /\ records[p] \notin DOMAIN objs /\ p \in DOMAIN objs /\ Pointees(p) \subseteq DOMAIN records
           /\ objs'[records[p]].id = objs[p].id /\ objs'[records[p]].mark = objs[p].mark
           /\ objs'[records[p]].fields = [f \in Fields |-> Mapped(objs[p].fields[f])]
  BY CopyEffect, Zenon
<1>6. \A p \in Sources(k) : p \in DOMAIN records /\ records[p][2] = k
  BY DEF Sources
<1>7. InCurrent' = InCurrent \cup {records[p] : p \in Sources(k)}
  BY <1>2, <1>4, <1>5, <1>6 DEF InCurrent
<1>8. UNION {Pointees(q)' : q \in InCurrent'} \subseteq (UNION {Pointees(q) : q \in InCurrent}) \cup Destinations
  <2> SUFFICES ASSUME NEW q \in InCurrent' PROVE Pointees(q)' \subseteq (UNION {Pointees(r) : r \in InCurrent}) \cup Destinations
    OBVIOUS
  <2> SUFFICES ASSUME NEW f \in Fields, objs'[q].fields[f] # Null
               PROVE  objs'[q].fields[f] \in (UNION {Pointees(r) : r \in InCurrent}) \cup Destinations
    BY DEF Pointees
  <2>1. CASE q \in InCurrent
    <3>1. objs'[q].fields[f] \in Pointees(q)
      BY <1>5, <2>1 DEF Pointees, InCurrent
    <3> QED BY <2>1, <3>1
  <2>2. ASSUME NEW p \in Sources(k), q = records[p] PROVE objs'[q].fields[f] \in Destinations
    <3>1. objs'[q].fields[f] = Mapped(objs[p].fields[f])
      <4>1. objs'[q].fields = [g \in Fields |-> Mapped(objs[p].fields[g])]
        BY <1>5, <2>2, Zenon
      <4> QED BY <4>1
    <3>2. objs[p].fields[f] # Null
      BY <3>1 DEF Mapped
    <3>3. objs[p].fields[f] \in DOMAIN records
      <4>1. Pointees(p) \subseteq DOMAIN records
        BY <1>5, Zenon
      <4> QED BY <3>2, <4>1 DEF Pointees
    <3>4. objs'[q].fields[f] = records[objs[p].fields[f]]
      BY <3>1, <3>2 DEF Mapped
    <3> QED BY <3>3, <3>4 DEF Destinations
  <2> QED BY <1>7, <2>1, <2>2
<1>9. Phases'
  BY <1>1, <1>2 DEF Phases, Idle
<1>10. Recorded'
  <2>1. \A p \in DOMAIN records : p \in DOMAIN objs /\ p[1] = From /\ records[p][1] = 1 - From /\ objs[p].mark = Marked
    BY <1>1 DEF Recorded
  <2>2. worklist = {} /\ scan = Idle /\ scan' = Idle /\ Idle' = Idle
    BY <1>1, <1>2 DEF Phases, Idle
  <2> QED BY <1>2, <1>3, <1>5, <2>1, <2>2 DEF Recorded
<1>11. Below'
  BY <1>1, <1>3, <1>5, <1>6 DEF Below, Destinations
<1>12. Copies'
  <2>1. \A p \in InCurrent' : p[2] \notin uncopied'
    BY <1>1, <1>2, <1>6, <1>7 DEF Copies
  <2>2. \A p \in DOMAIN records : records[p][2] \in uncopied' \/ records[p] \in DOMAIN objs'
    BY <1>1, <1>2, <1>5 DEF Copies, Sources
  <2> QED BY <1>1, <1>2, <2>1, <2>2 DEF Copies
<1>13. NoDangling'
  <2>1. \A d \in Destinations : d[1] = mm
    BY <1>4 DEF Destinations
  <2>2. \A p \in Rooted' \cup UNION {Pointees(q)' : q \in InCurrent'} :
          p \in Rooted \cup UNION {Pointees(q) : q \in InCurrent} \/ p \in Destinations
    BY <1>3, <1>8
  <2>3. DOMAIN objs \subseteq DOMAIN objs'
    BY <1>5
  <2> QED BY <1>1, <1>2, <1>3, <2>1, <2>2, <2>3 DEF NoDangling
<1>14. MarkUniform'
  <2>1. \A p \in InCurrent' : objs'[p].mark = Marked
    <3>1. \A p \in InCurrent : objs'[p].mark = Marked
      BY <1>1, <1>2, <1>5 DEF MarkUniform, InCurrent
    <3>2. \A p \in Sources(k) : objs'[records[p]].mark = Marked
      BY <1>1, <1>5, <1>6, ZenonT(60) DEF Recorded
    <3> QED BY <1>7, <3>1, <3>2
  <2> QED BY <1>3, <2>1 DEF MarkUniform
<1>15. RecordsSound'
  <2>1. \A p \in DOMAIN records : records[p] \in DOMAIN objs' => objs'[records[p]].id = objs'[p].id
    <3> SUFFICES ASSUME NEW p \in DOMAIN records, records[p] \in DOMAIN objs'
                 PROVE  objs'[records[p]].id = objs'[p].id
      OBVIOUS
    <3>1. p \in DOMAIN objs
      BY <1>1 DEF Recorded
    <3>2. CASE records[p] \in DOMAIN objs
      BY <1>1, <1>5, <3>1, <3>2 DEF RecordsSound
    <3>3. CASE records[p] \notin DOMAIN objs
      <4>1. PICK r \in Sources(k) : records[p] = records[r]
        BY <1>5, <3>3
      <4>2. p = r
        BY <1>1, <1>6, <4>1 DEF RecordsSound
      <4> QED BY <1>5, <3>1, <4>2
    <3> QED BY <3>2, <3>3
  <2> QED BY <1>1, <1>2, <1>3, <2>1 DEF RecordsSound
<1>16. Requests'
  BY <1>1, <1>2 DEF Requests
<1> QED BY <1>9, <1>10, <1>11, <1>12, <1>13, <1>14, <1>15, <1>16 DEF Memory

\* When every page is filled nothing refers to from-space, which step 4 empties.
LEMMA Step4Step == IInv /\ Step4 => Memory' /\ Requests'
<1> SUFFICES ASSUME IInv, Step4 PROVE Memory' /\ Requests'
  OBVIOUS
<1>1. TypeOK /\ Phases /\ Recorded /\ Below /\ Copies /\ Requests /\ NoDangling /\ MarkUniform /\ RecordsSound
  BY DEF IInv
<1>2. /\ gpc = "copy" /\ gpc' = "step5" /\ uncopied = {} /\ DOMAIN records' = {}
      /\ objs' = [p \in {q \in DOMAIN objs : q[1] = mm} |-> objs[p]]
      /\ UNCHANGED <<roots, pages, mm, mark_true_bit, requested, worklist, scan, uncopied, cycles>>
  BY DEF Step4, mutvars, Empty
<1>3. /\ DOMAIN objs' = InCurrent /\ InCurrent' = InCurrent /\ \A p \in InCurrent : objs'[p] = objs[p]
      /\ Marked' = Marked /\ Destinations' = {} /\ Rooted' = Rooted
      /\ \A p : Inside(p)' = Inside(p)
      /\ \A p \in InCurrent : Pointees(p)' = Pointees(p)
  BY <1>2 DEF InCurrent, Marked, Destinations, Rooted, Inside, Pointees
<1>4. Destinations \subseteq DOMAIN objs
  BY <1>1, <1>2 DEF Copies, Destinations
<1>5. Phases' /\ Recorded' /\ Copies'
  BY <1>1, <1>2, <1>3 DEF Phases, Recorded, Copies, Idle, InCurrent
<1>6. Below' /\ RecordsSound'
  BY <1>1, <1>2, <1>3 DEF Below, RecordsSound, InCurrent
<1>7. NoDangling'
  <2>1. UNION {Pointees(q)' : q \in InCurrent'} = UNION {Pointees(q) : q \in InCurrent}
    BY <1>3
  <2> QED BY <1>1, <1>2, <1>3, <1>4, <2>1 DEF NoDangling, InCurrent
<1>8. MarkUniform' /\ Requests'
  BY <1>1, <1>2, <1>3 DEF MarkUniform, Requests
<1> QED BY <1>5, <1>6, <1>7, <1>8 DEF Memory

-----------------------------------------------------------------------------
(* Marking while nobody interferes.                                        *)

\* A mutator that does something does not wait, or asks for another cycle.
LEMMA MutatorDisturbs == IInv /\ MutatorStep => ~Undisturbed'
<1> SUFFICES ASSUME IInv, NEW m \in Mutators,
        \/ AllocFromStalePage(m) \/ AllocFails(m) \/ RequestCycle(m) \/ GiveUp(m)
        \/ \E s \in SlotsOf[m] :
             \/ Alloc(m, s) \/ DropRoot(m, s)
             \/ \E f \in Fields, r \in SlotsOf[m] : LoadField(m, s, f, r) \/ StoreField(m, s, f, r)
      PROVE ~Undisturbed'
  BY DEF MutatorStep
<1>1. mpc \in [Mutators -> {"run", "slow", "wait"}]
  BY DEF IInv, TypeOK
<1>2. mpc'[m] # "wait" \/ requested'
  <2>1. CASE AllocFromStalePage(m)
    BY <2>1 DEF AllocFromStalePage, Allocating, mutvars
  <2>2. CASE AllocFails(m) \/ RequestCycle(m) \/ GiveUp(m)
    BY <1>1, <2>2 DEF AllocFails, RequestCycle, GiveUp
  <2>3. ASSUME NEW s, Alloc(m, s) PROVE mpc'[m] # "wait"
    BY <1>1, <2>3 DEF Alloc
  <2>4. ASSUME NEW s, DropRoot(m, s) PROVE mpc'[m] # "wait"
    BY <2>4, SMTT(60) DEF DropRoot
  <2>5. ASSUME NEW s, NEW f, NEW r, LoadField(m, s, f, r) \/ StoreField(m, s, f, r) PROVE mpc'[m] # "wait"
    BY <2>5 DEF LoadField, StoreField, Accessible, mutvars
  <2> QED BY <2>1, <2>2, <2>3, <2>4, <2>5
<1> QED BY <1>2 DEF Undisturbed

\* The marker keeps what it knows: its stack holds what it has yet to look at, and
\* nothing that is not reachable.
LEMMA MarkingTraces ==
  ASSUME IInv, gpc = "mark", Undisturbed,
         (\E p \in Pointers : MarkObject(p) \/ SkipMarked(p)) \/ (\E f \in Fields : ScanField(f)) \/ MarkDone
  PROVE  Tracing'
<1>1. TypeOK /\ Phases /\ Recorded
  BY DEF IInv
<1>2. /\ \A p \in DOMAIN objs : objs[p].mark = Marked => p \in DOMAIN records
      /\ Rooted \subseteq DOMAIN records \cup worklist
      /\ \A p \in DOMAIN records, f \in Fields :
           \/ objs[p].fields[f] \in DOMAIN records \cup worklist \cup {Null}
           \/ (scan[1] = p /\ f \in scan[2])
      /\ \A S \in SUBSET Pointers : Closed(S) => DOMAIN records \cup worklist \subseteq S
  BY DEF IInv, Tracing
<1> SUFFICES /\ \A p \in DOMAIN objs' : objs'[p].mark = Marked' => p \in DOMAIN records'
             /\ Rooted' \subseteq DOMAIN records' \cup worklist'
             /\ \A p \in DOMAIN records', f \in Fields :
                  \/ objs'[p].fields[f] \in DOMAIN records' \cup worklist' \cup {Null}
                  \/ (scan'[1] = p /\ f \in scan'[2])
             /\ \A S \in SUBSET Pointers : Closed(S)' => DOMAIN records' \cup worklist' \subseteq S
  BY DEF Tracing
<1>3. ASSUME NEW p \in Pointers, MarkObject(p)
      PROVE  /\ \A q \in DOMAIN objs' : objs'[q].mark = Marked' => q \in DOMAIN records'
             /\ Rooted' \subseteq DOMAIN records' \cup worklist'
             /\ \A q \in DOMAIN records', f \in Fields :
                  \/ objs'[q].fields[f] \in DOMAIN records' \cup worklist' \cup {Null}
                  \/ (scan'[1] = q /\ f \in scan'[2])
             /\ \A S \in SUBSET Pointers : Closed(S)' => DOMAIN records' \cup worklist' \subseteq S
  <2>1. p \in worklist /\ p \in DOMAIN objs /\ scan = Idle /\ mark_true_bit' = mark_true_bit /\ roots' = roots
        /\ worklist' = worklist \ {p} /\ DOMAIN records' = DOMAIN records \cup {p}
        /\ objs' = [objs EXCEPT ![p].mark = Marked] /\ scan' = Scanning(p, Fields)
    BY <1>1, <1>3 DEF MarkObject, Recorded, mutvars
  <2>2. /\ DOMAIN objs' = DOMAIN objs
        /\ \A q \in DOMAIN objs : objs'[q].fields = objs[q].fields
        /\ \A q \in DOMAIN objs : q # p => objs'[q].mark = objs[q].mark
    <3>1. \A q \in DOMAIN objs : objs[q] \in Objects
      BY <1>1 DEF TypeOK
    <3> QED BY <2>1, <3>1 DEF Objects
  <2>3. DOMAIN records' \cup worklist' = DOMAIN records \cup worklist
    BY <2>1
  <2>4. Rooted' = Rooted /\ Marked' = Marked /\ \A q \in DOMAIN objs : Pointees(q)' = Pointees(q)
    BY <2>1, <2>2 DEF Rooted, Marked, Pointees
  <2>5. \A S \in SUBSET Pointers : Closed(S)' => Closed(S)
    BY <2>2, <2>4 DEF Closed
  <2>6. ASSUME NEW q \in DOMAIN records', NEW f \in Fields
        PROVE  \/ objs'[q].fields[f] \in DOMAIN records' \cup worklist' \cup {Null}
               \/ (scan'[1] = q /\ f \in scan'[2])
    <3>1. CASE q = p
      <4>1. scan' = <<p, Fields>>
        BY <2>1 DEF Scanning
      <4> QED BY <3>1, <4>1
    <3>2. CASE q # p
      <4>1. q \in DOMAIN records /\ q \in DOMAIN objs
        BY <1>1, <2>1, <3>2 DEF Recorded
      <4>2. f \notin scan[2]
        BY <2>1 DEF Idle
      <4> QED BY <1>2, <2>2, <2>3, <4>1, <4>2
    <3> QED BY <3>1, <3>2
  <2> QED BY <1>2, <2>1, <2>2, <2>3, <2>4, <2>5, <2>6
<1>4. CASE (\E p \in Pointers : SkipMarked(p)) \/ (\E f \in Fields : ScanField(f)) \/ MarkDone
  <2>1. UNCHANGED <<roots, objs, mark_true_bit, records>>
    BY <1>4 DEF SkipMarked, ScanField, MarkDone, mutvars, heapvars
  <2>2. Rooted' = Rooted /\ Marked' = Marked /\ \A S : Closed(S)' = Closed(S)
    BY <2>1 DEF Rooted, Marked, Closed, Pointees
  <2>3. ASSUME NEW p \in Pointers, SkipMarked(p)
        PROVE  DOMAIN records' \cup worklist' = DOMAIN records \cup worklist /\ scan' = scan
    BY <1>1, <1>2, <2>3 DEF SkipMarked, Recorded
  <2>4. CASE MarkDone
    BY <1>2, <2>1, <2>2, <2>4 DEF MarkDone
  <2>5. ASSUME NEW g \in Fields, ScanField(g)
        PROVE  /\ DOMAIN records \cup worklist \subseteq DOMAIN records' \cup worklist'
               /\ \A p \in DOMAIN records, f \in Fields :
                    \/ objs[p].fields[f] \in DOMAIN records' \cup worklist' \cup {Null}
                    \/ (scan'[1] = p /\ f \in scan'[2])
               /\ \A S \in SUBSET Pointers : Closed(S) => DOMAIN records' \cup worklist' \subseteq S
    <3>1. scan[1] \in DOMAIN records /\ scan[1] \in DOMAIN objs /\ g \in scan[2]
      BY <1>1, <2>5 DEF ScanField, Idle, Recorded
    <3>2. /\ worklist' = worklist \cup ({objs[scan[1]].fields[g]} \ {Null}) /\ records' = records
          /\ scan' = Scanning(scan[1], scan[2] \ {g})
      BY <2>1, <2>5 DEF ScanField
    <3>3. ASSUME NEW p \in DOMAIN records, NEW f \in Fields
          PROVE  \/ objs[p].fields[f] \in DOMAIN records' \cup worklist' \cup {Null}
                 \/ (scan'[1] = p /\ f \in scan'[2])
      <4>1. CASE objs[p].fields[f] \in DOMAIN records \cup worklist \cup {Null}
        BY <3>2, <4>1
      <4>2. CASE scan[1] = p /\ f = g
        BY <3>2, <4>2
      <4>3. CASE scan[1] = p /\ f \in scan[2] /\ f # g
        <5>1. scan' = <<scan[1], scan[2] \ {g}>>
          BY <3>2, <4>3 DEF Scanning
        <5> QED BY <4>3, <5>1
      <4> QED BY <1>2, <4>1, <4>2, <4>3
    <3>4. ASSUME NEW S \in SUBSET Pointers, Closed(S) PROVE DOMAIN records' \cup worklist' \subseteq S
      <4>1. DOMAIN records \cup worklist \subseteq S
        BY <1>2, <3>4
      <4>2. Pointees(scan[1]) \subseteq S
        BY <3>1, <3>4, <4>1 DEF Closed
      <4>3. {objs[scan[1]].fields[g]} \ {Null} \subseteq S
        BY <4>2 DEF Pointees
      <4> QED BY <3>2, <4>1, <4>3
    <3> QED BY <3>2, <3>3, <3>4
  <2> QED BY <1>2, <1>4, <2>1, <2>2, <2>3, <2>4, <2>5
<1> QED BY <1>3, <1>4

\* Marking begins with the roots on the stack and every object unmarked.
LEMMA Step1Traces == IInv /\ Step1 => Tracing'
<1> SUFFICES ASSUME IInv, Step1 PROVE Tracing'
  OBVIOUS
<1>1. TypeOK /\ Phases /\ MarkUniform
  BY DEF IInv
<1>2. /\ gpc = "step1" /\ worklist' = Rooted /\ mark_true_bit' = 1 - mark_true_bit
      /\ UNCHANGED <<roots, objs, mm, records>>
  BY DEF Step1, mutvars
<1>3. DOMAIN records' = {} /\ Rooted' = Rooted
  BY <1>1, <1>2 DEF Phases, Rooted
<1>4. \A p \in DOMAIN objs : objs[p].mark # Marked'
  <2>1. \A p \in DOMAIN objs : p \in InCurrent
    BY <1>1, <1>2 DEF Phases, InCurrent
  <2>2. Marked' # Marked
    BY <1>1, <1>2 DEF Marked, TypeOK
  <2> QED BY <1>1, <1>2, <2>1, <2>2 DEF MarkUniform
<1>5. \A S \in SUBSET Pointers : Closed(S)' => Rooted \subseteq S
  BY <1>3 DEF Closed
<1> QED BY <1>2, <1>3, <1>4, <1>5 DEF Tracing

\* Every step keeps what the marker knows.
LEMMA StepTraces == IInv /\ (MutatorStep \/ CollectorStep) => Tracing'
<1> SUFFICES ASSUME IInv, MutatorStep \/ CollectorStep PROVE Tracing'
  OBVIOUS
<1>1. CASE MutatorStep
  BY <1>1, MutatorDisturbs DEF Tracing
<1>2. CASE Step1
  BY <1>2, Step1Traces
<1>3. CASE StartCycle \/ Flush \/ Step3 \/ Step4 \/ Step5 \/ \E k \in 1 .. NrPages : CopyPage(k) \/ CopyPagePanics(k)
  <2>1. gpc' \notin {"mark", "step3"}
    BY <1>3 DEF StartCycle, Flush, Step3, Step4, Step5, CopyPage, CopyPagePanics
  <2> QED BY <2>1 DEF Tracing
<1>4. CASE Step3Panics
  <2>1. UNCHANGED <<roots, mpc, objs, mark_true_bit, requested, gpc, worklist, scan, records>>
    BY <1>4 DEF Step3Panics, mutvars, heapvars, gcvars
  <2>2. Rooted' = Rooted /\ Marked' = Marked /\ Undisturbed' = Undisturbed /\ \A S : Closed(S)' = Closed(S)
    BY <2>1 DEF Rooted, Marked, Undisturbed, Closed, Pointees
  <2> QED BY <2>1, <2>2 DEF IInv, Tracing
<1>5. CASE (\E p \in Pointers : MarkObject(p) \/ SkipMarked(p)) \/ (\E f \in Fields : ScanField(f)) \/ MarkDone
  <2>1. gpc = "mark" /\ mpc' = mpc /\ requested' = requested
    BY <1>5 DEF MarkObject, SkipMarked, ScanField, MarkDone, mutvars
  <2>2. Undisturbed' = Undisturbed
    BY <2>1 DEF Undisturbed
  <2>3. CASE Undisturbed
    BY <1>5, <2>1, <2>3, MarkingTraces
  <2> QED BY <2>2, <2>3 DEF Tracing
<1> QED BY <1>1, <1>2, <1>3, <1>4, <1>5 DEF CollectorStep

-----------------------------------------------------------------------------
(* The theorems.                                                           *)

\* The invariant is inductive.
LEMMA StepIInv == IInv /\ [Next]_vars => IInv'
<1> SUFFICES ASSUME IInv, [Next]_vars PROVE IInv'
  OBVIOUS
<1>1. CASE UNCHANGED vars
  <2>1. UNCHANGED <<roots, local, mpc, tries, objs, pages, mm, mark_true_bit, requested, gpc, used_end,
                    worklist, scan, move_page, records, uncopied, cycles, failure>>
    BY <1>1 DEF vars, mutvars, heapvars, gcvars
  <2>2. TypeOK'
    BY <2>1 DEF IInv, TypeOK
  <2>3. Memory'
    <3>1. Rooted' = Rooted
      BY <2>1 DEF Rooted
    <3> QED BY <2>1, <3>1, QuietStep DEF heapvars, gcvars
  <2>4. Requests'
    BY <2>1 DEF IInv, Requests
  <2>5. Tracing'
    <3>1. Rooted' = Rooted /\ Marked' = Marked /\ Undisturbed' = Undisturbed /\ \A S : Closed(S)' = Closed(S)
      BY <2>1 DEF Rooted, Marked, Undisturbed, Closed, Pointees
    <3> QED BY <2>1, <3>1 DEF IInv, Tracing
  <2> QED BY <2>2, <2>3, <2>4, <2>5 DEF IInv, Memory
<1>2. CASE MutatorStep
  <2>1. Memory' /\ Requests'
    <3> SUFFICES ASSUME NEW m \in Mutators,
            \/ AllocFromStalePage(m) \/ AllocFails(m) \/ RequestCycle(m) \/ GiveUp(m)
            \/ \E s \in SlotsOf[m] :
                 \/ Alloc(m, s) \/ DropRoot(m, s)
                 \/ \E f \in Fields, r \in SlotsOf[m] : LoadField(m, s, f, r) \/ StoreField(m, s, f, r)
          PROVE Memory' /\ Requests'
      BY <1>2 DEF MutatorStep
    <3>1. SlotsOf[m] \subseteq Slots
      BY SlotsAssumption
    <3> QED BY <3>1, MutatorQuiet, AllocStep, StoreStep
  <2> QED BY <1>2, <2>1, MutatorTypes, StepTraces DEF IInv, Memory
<1>3. CASE CollectorStep
  <2>1. Memory' /\ Requests'
    <3>1. CASE StartCycle \/ Flush \/ Step5 \/ Step3Panics \/ \E k \in 1 .. NrPages : CopyPagePanics(k)
      BY <3>1, CollectorQuiet
    <3>2. CASE Step1 \/ Step3 \/ Step4
      BY <3>2, Step1Step, Step3Step, Step4Step
    <3>3. CASE (\E p \in Pointers : MarkObject(p) \/ SkipMarked(p)) \/ (\E f \in Fields : ScanField(f)) \/ MarkDone
      BY <3>3, MarkObjectStep, TraceStep
    <3>4. CASE \E k \in 1 .. NrPages : CopyPage(k)
      BY <3>4, CopyStep
    <3> QED BY <1>3, <3>1, <3>2, <3>3, <3>4 DEF CollectorStep
  <2> QED BY <1>3, <2>1, CollectorTypes, StepTraces DEF IInv, Memory
<1> QED BY <1>1, <1>2, <1>3 DEF Next

\* The invariant of the cycle holds in every state (gc.rs, marker.rs, copier.rs).
THEOREM InductiveInvariant == Spec => []IInv
BY InitIInv, StepIInv, PTL DEF Spec

\* Every variable keeps its type (gc.rs, state.rs).
THEOREM TypeCorrect == Spec => []TypeOK
<1>1. IInv => TypeOK
  BY DEF IInv
<1> QED BY <1>1, InductiveInvariant, PTL

\* No pointer that a mutator can follow is left on the space that step 4 gives
\* back: it leads to an object of the current space or to where the copier will
\* put one (gc.rs:199-214, 263; copier.rs:157-171).
THEOREM NothingDangles == Spec => []NoDangling
<1>1. IInv => NoDangling
  BY DEF IInv
<1> QED BY <1>1, InductiveInvariant, PTL

\* Between cycles and while the copier works, all objects of the current space have
\* the mark that the next flip takes away, those born meanwhile too (gc.rs:90-93,
\* state/context.rs:124).
THEOREM MarksUniform == Spec => []MarkUniform
<1>1. IInv => MarkUniform
  BY DEF IInv
<1> QED BY <1>1, InductiveInvariant, PTL

\* No two objects are moved to one place, and no mutator is given a place that a
\* record reserves (marker.rs:73-83, gc.rs:228-238).
THEOREM RecordsAreSound == Spec => []RecordsSound
<1>1. IInv => RecordsSound
  BY DEF IInv
<1> QED BY <1>1, InductiveInvariant, PTL

\* While every mutator waits the marker loses sight of no field of an object it has
\* marked (marker.rs:54-90).
THEOREM TriColourHolds == Spec => []TriColour
<1>1. IInv => TriColour
  BY DEF IInv, Tracing, TriColour
<1> QED BY <1>1, InductiveInvariant, PTL

\* And then it moves what can be reached from the roots, and nothing else
\* (marker.rs:43-96).
THEOREM ExactlyTheLiveMove == Spec => []LiveExactly
<1>1. IInv => LiveExactly
  <2> SUFFICES ASSUME IInv, gpc = "step3", Undisturbed PROVE DOMAIN records = ReachableObjects
    BY DEF LiveExactly
  <2>1. worklist = {} /\ scan[2] = {} /\ DOMAIN records \in SUBSET Pointers
    BY DEF IInv, Phases, Idle, TypeOK
  <2>2. /\ Rooted \subseteq DOMAIN records
        /\ \A p \in DOMAIN records, f \in Fields : objs[p].fields[f] \in DOMAIN records \cup {Null}
        /\ \A S \in SUBSET Pointers : Closed(S) => DOMAIN records \subseteq S
    BY <2>1 DEF IInv, Tracing
  <2>3. Closed(DOMAIN records)
    BY <2>2 DEF Closed, Pointees
  <2> QED BY <2>1, <2>2, <2>3 DEF ReachableObjects
<1> QED BY <1>1, InductiveInvariant, PTL

-----------------------------------------------------------------------------
(* The abstract heap.                                                      *)

\* An identity is that of one object and, while it is moved, of its copy.
Named ==
  \A p, q \in DOMAIN objs :
    objs[p].id = objs[q].id =>
      p = q \/ (p \in DOMAIN records /\ records[p] = q) \/ (q \in DOMAIN records /\ records[q] = p)

\* Fields refer to objects, also those of from-space that nobody sees any more.
Known == \A p \in DOMAIN objs : Pointees(p) \subseteq DOMAIN objs \cup Destinations

HInv == IInv /\ Named /\ Known

\* A place that a record reserves stands for the record's object.
LEMMA IdFacts ==
  IInv => /\ \A p \in DOMAIN objs : IdOf(p) = objs[p].id
          /\ \A q \in DOMAIN records : IdOf(records[q]) = objs[q].id
<1> SUFFICES ASSUME IInv
             PROVE  /\ \A p \in DOMAIN objs : IdOf(p) = objs[p].id
                    /\ \A q \in DOMAIN records : IdOf(records[q]) = objs[q].id
  OBVIOUS
<1>1. \A p \in DOMAIN objs : IdOf(p) = objs[p].id
  BY DEF IdOf
<1>2. ASSUME NEW q \in DOMAIN records PROVE IdOf(records[q]) = objs[q].id
  <2>1. RecordsSound
    BY DEF IInv
  <2>2. CASE records[q] \in DOMAIN objs
    BY <2>1, <2>2 DEF IdOf, RecordsSound
  <2>3. CASE records[q] \notin DOMAIN objs
    <3>1. (CHOOSE p \in DOMAIN records : records[p] = records[q]) = q
      BY <2>1 DEF RecordsSound
    <3> QED BY <2>3, <3>1 DEF IdOf
  <2> QED BY <2>2, <2>3
<1> QED BY <1>1, <1>2

\* While objects and records only become more, what is named keeps its name.
LEMMA IdKept ==
  ASSUME IInv, IInv',
         DOMAIN objs \subseteq DOMAIN objs', \A p \in DOMAIN objs : objs'[p].id = objs[p].id,
         DOMAIN records \subseteq DOMAIN records', \A p \in DOMAIN records : records'[p] = records[p]
  PROVE  \A v \in DOMAIN objs \cup Destinations : IdOf(v)' = IdOf(v)
<1>1. /\ \A p \in DOMAIN objs : IdOf(p) = objs[p].id
      /\ \A q \in DOMAIN records : IdOf(records[q]) = objs[q].id
  BY IdFacts
<1>2. (/\ \A p \in DOMAIN objs : IdOf(p) = objs[p].id
       /\ \A q \in DOMAIN records : IdOf(records[q]) = objs[q].id)'
  BY IdFacts, PTL
<1>3. \A q \in DOMAIN records : q \in DOMAIN objs
  BY DEF IInv, Recorded
<1>4. \A p \in DOMAIN objs : IdOf(p)' = IdOf(p)
  BY <1>1, <1>2
<1>6. ASSUME NEW v \in Destinations PROVE IdOf(v)' = IdOf(v)
  <2>1. PICK q \in DOMAIN records : v = records[q]
    BY DEF Destinations
  <2>2. q \in DOMAIN records' /\ v = records'[q]
    BY <2>1
  <2>3. IdOf(v)' = objs'[q].id
    BY <1>2, <2>2
  <2> QED BY <1>1, <1>3, <2>1, <2>3
<1> QED BY <1>4, <1>6

\* An allocation puts an object where none is and none will be.
LEMMA AllocEffect ==
  ASSUME IInv, NEW m \in Mutators, NEW s \in Slots, Alloc(m, s)
  PROVE  \E p \in Pointers :
           /\ p \notin DOMAIN objs /\ p \notin Destinations /\ p # Null
           /\ DOMAIN objs' = DOMAIN objs \cup {p} /\ objs'[p] = NewObject
           /\ \A q \in DOMAIN objs : objs'[q] = objs[q]
           /\ roots' = [roots EXCEPT ![m][s] = p] /\ roots[m][s] = Null /\ records' = records
<1>1. PICK p : p = Address(mm, pages[mm], local[m])
  OBVIOUS
<1>2. TypeOK /\ Below
  BY DEF IInv
<1>3. mm \in {0, 1} /\ local[m] \in 0 .. NrPages /\ ~Stale(pages[mm], local[m]) /\ Fits(pages[mm], local[m])
      /\ pages[mm] \in Seq(1 .. PageObjs)
  BY <1>2 DEF TypeOK, Alloc
<1>4. /\ p \in Pointers /\ p[1] = mm
      /\ p[2] \in DOMAIN pages[mm] => p[3] > pages[mm][p[2]]
  BY <1>1, <1>2, <1>3, PlaceFacts
<1>5. ~Inside(p)
  <2>1. p[2] \in DOMAIN pages[mm] => pages[mm][p[2]] \in Int
    BY <1>3, TableElements
  <2>2. p[3] \in Int
    BY <1>4 DEF Pointers
  <2> QED BY <1>4, <2>1, <2>2 DEF Inside
<1>6. p \notin DOMAIN objs /\ p \notin Destinations /\ p # Null
  BY <1>2, <1>4, <1>5, NullAssumption DEF Below
<1>7. /\ objs' = [q \in DOMAIN objs \cup {p} |-> IF q = p THEN NewObject ELSE objs[q]]
      /\ roots' = [roots EXCEPT ![m][s] = p] /\ roots[m][s] = Null /\ records' = records
  BY <1>1 DEF Alloc, gcvars
<1> QED BY <1>4, <1>6, <1>7

\* A store changes one field of an object of the current space.
LEMMA StoreEffect ==
  ASSUME IInv, NEW m \in Mutators, NEW s \in Slots, NEW f \in Fields, NEW r \in Slots,
         StoreField(m, s, f, r)
  PROVE  /\ roots[m][s] \in InCurrent /\ roots[m][s] \in DOMAIN objs /\ roots[m][s] # Null
         /\ roots' = roots /\ records' = records /\ DOMAIN objs' = DOMAIN objs
         /\ \A q \in DOMAIN objs : objs'[q].id = objs[q].id
         /\ \A q \in DOMAIN objs, g \in Fields :
              objs'[q].fields[g] = IF q = roots[m][s] /\ g = f THEN roots[m][r] ELSE objs[q].fields[g]
<1>1. TypeOK /\ NoDangling
  BY DEF IInv
<1>2. PICK p : p = roots[m][s]
  OBVIOUS
<1>3. PICK v : v = roots[m][r]
  OBVIOUS
<1>4. p \in DOMAIN objs /\ p # Null /\ p \in InCurrent
  BY <1>1, <1>2 DEF StoreField, Accessible, NoDangling, Rooted, InCurrent
<1>5. objs' = [objs EXCEPT ![p] = [objs[p] EXCEPT !.fields[f] = v]] /\ roots' = roots /\ records' = records
  BY <1>1, <1>2, <1>3, <1>4 DEF StoreField, mutvars, gcvars, TypeOK
<1>6. objs[p] \in Objects
  BY <1>1, <1>4 DEF TypeOK
<1>7. objs'[p].id = objs[p].id /\ objs'[p].fields = [objs[p].fields EXCEPT ![f] = v]
  BY <1>4, <1>5, <1>6 DEF Objects
<1>8. \A g \in Fields : objs'[p].fields[g] = IF g = f THEN v ELSE objs[p].fields[g]
  BY <1>6, <1>7 DEF Objects
<1>9. DOMAIN objs' = DOMAIN objs /\ \A q \in DOMAIN objs : q # p => objs'[q] = objs[q]
  BY <1>5
<1> QED BY <1>2, <1>3, <1>4, <1>5, <1>7, <1>8, <1>9, ZenonT(60)

\* Marking reserves a place where no object is.
LEMMA MarkEffect ==
  ASSUME IInv, NEW p \in Pointers, MarkObject(p)
  PROVE  /\ roots' = roots /\ p \notin DOMAIN records /\ p \in DOMAIN objs
         /\ DOMAIN records' = DOMAIN records \cup {p} /\ records'[p] \notin DOMAIN objs
         /\ \A q \in DOMAIN records : records'[q] = records[q]
         /\ DOMAIN objs' = DOMAIN objs
         /\ \A q \in DOMAIN objs : objs'[q].id = objs[q].id /\ objs'[q].fields = objs[q].fields
<1>1. TypeOK /\ Phases /\ Recorded
  BY DEF IInv
<1>2. /\ gpc = "mark" /\ p \in worklist /\ objs[p].mark # Marked /\ Fits(pages[Other], move_page)
      /\ objs' = [objs EXCEPT ![p].mark = Marked] /\ roots' = roots
      /\ records' = [q \in DOMAIN records \cup {p} |->
                      IF q = p THEN Address(Other, pages[Other], move_page) ELSE records[q]]
  BY DEF MarkObject, mutvars
<1>3. p \in DOMAIN objs /\ p \notin DOMAIN records
  BY <1>1, <1>2 DEF Recorded
<1>4. Other \in {0, 1} /\ Other # mm /\ move_page \in 0 .. NrPages /\ ~Stale(pages[Other], move_page)
  BY <1>1, <1>2 DEF TypeOK, Other, Recorded
<1>5. Address(Other, pages[Other], move_page)[1] = Other
  BY <1>1, <1>2, <1>4, PlaceFacts
<1>6. records'[p] \notin DOMAIN objs
  BY <1>1, <1>2, <1>4, <1>5 DEF Phases
<1>7. /\ DOMAIN objs' = DOMAIN objs
      /\ \A q \in DOMAIN objs : objs'[q].id = objs[q].id /\ objs'[q].fields = objs[q].fields
  <2>1. \A q \in DOMAIN objs : objs[q] \in Objects
    BY <1>1 DEF TypeOK
  <2> QED BY <1>2, <1>3, <2>1 DEF Objects
<1> QED BY <1>2, <1>3, <1>6, <1>7

\* The steps that touch neither objects nor records.
LEMMA UnmovedSteps ==
  ASSUME \/ UNCHANGED vars \/ StartCycle \/ Flush \/ Step1 \/ MarkDone \/ Step3 \/ Step3Panics \/ Step5
         \/ \E p \in Pointers : SkipMarked(p)
         \/ \E f \in Fields : ScanField(f)
         \/ \E k \in 1 .. NrPages : CopyPagePanics(k)
         \/ \E m \in Mutators :
              \/ AllocFromStalePage(m) \/ AllocFails(m) \/ RequestCycle(m) \/ GiveUp(m)
              \/ \E s \in SlotsOf[m] : \/ DropRoot(m, s)
                                       \/ \E f \in Fields, r \in SlotsOf[m] : LoadField(m, s, f, r)
  PROVE  UNCHANGED <<objs, records>>
<1>1. CASE UNCHANGED vars \/ StartCycle \/ Flush \/ Step1 \/ MarkDone \/ Step3 \/ Step3Panics \/ Step5
  BY <1>1 DEF vars, StartCycle, Flush, Step1, MarkDone, Step3, Step3Panics, Step5, heapvars, gcvars
<1>2. CASE \/ \E p \in Pointers : SkipMarked(p)
           \/ \E f \in Fields : ScanField(f)
           \/ \E k \in 1 .. NrPages : CopyPagePanics(k)
  BY <1>2 DEF SkipMarked, ScanField, CopyPagePanics, heapvars, gcvars
<1>3. CASE \E m \in Mutators :
              \/ AllocFromStalePage(m) \/ AllocFails(m) \/ RequestCycle(m) \/ GiveUp(m)
              \/ \E s \in SlotsOf[m] : \/ DropRoot(m, s)
                                       \/ \E f \in Fields, r \in SlotsOf[m] : LoadField(m, s, f, r)
  BY <1>3 DEF AllocFromStalePage, AllocFails, RequestCycle, GiveUp, DropRoot, LoadField, heapvars, gcvars
<1> QED BY <1>1, <1>2, <1>3

\* Names stay unique, and fields refer to objects.
LEMMA StepHInv == HInv /\ IInv' /\ [Next]_vars => HInv'
<1> SUFFICES ASSUME HInv, IInv', [Next]_vars PROVE Named' /\ Known'
  BY DEF HInv
<1>1. IInv /\ Named /\ Known /\ TypeOK /\ Recorded /\ NoDangling /\ Copies
  BY DEF HInv, IInv
<1>2. CASE UNCHANGED <<objs, records>>
  BY <1>1, <1>2 DEF Named, Known, Pointees, Destinations
<1>3. ASSUME NEW m \in Mutators, NEW s \in Slots, Alloc(m, s) PROVE Named' /\ Known'
  <2>1. PICK p \in Pointers :
           /\ p \notin DOMAIN objs /\ p \notin Destinations
           /\ DOMAIN objs' = DOMAIN objs \cup {p} /\ objs'[p] = NewObject
           /\ \A q \in DOMAIN objs : objs'[q] = objs[q]
           /\ records' = records
    BY <1>1, <1>3, AllocEffect
  <2>2. NewObject.id = Fresh /\ \A q \in DOMAIN objs : objs[q].id # Fresh
    BY <1>1, FreshId DEF NewObject
  <2>3. Named'
    BY <1>1, <2>1, <2>2 DEF Named
  <2>4. Pointees(p)' = {} /\ Destinations' = Destinations /\ \A q \in DOMAIN objs : Pointees(q)' = Pointees(q)
    BY <2>1 DEF Pointees, NewObject, Destinations
  <2> QED BY <1>1, <2>1, <2>3, <2>4 DEF Known
<1>4. ASSUME NEW m \in Mutators, NEW s \in Slots, NEW f \in Fields, NEW r \in Slots, StoreField(m, s, f, r)
      PROVE  Named' /\ Known'
  <2>1. /\ records' = records /\ DOMAIN objs' = DOMAIN objs
        /\ \A q \in DOMAIN objs : objs'[q].id = objs[q].id
        /\ \A q \in DOMAIN objs, g \in Fields :
             objs'[q].fields[g] = roots[m][r] \/ objs'[q].fields[g] = objs[q].fields[g]
    BY <1>1, <1>4, StoreEffect
  <2>2. roots[m][r] # Null => roots[m][r] \in DOMAIN objs \cup Destinations
    BY <1>1 DEF NoDangling, Rooted
  <2>3. \A q \in DOMAIN objs : Pointees(q)' \subseteq Pointees(q) \cup ({roots[m][r]} \ {Null})
    BY <2>1 DEF Pointees
  <2>4. Destinations' = Destinations
    BY <2>1 DEF Destinations
  <2> QED BY <1>1, <2>1, <2>2, <2>3, <2>4 DEF Named, Known
<1>5. ASSUME NEW p \in Pointers, MarkObject(p) PROVE Named' /\ Known'
  <2>1. /\ DOMAIN records' = DOMAIN records \cup {p} /\ p \notin DOMAIN records
        /\ \A q \in DOMAIN records : records'[q] = records[q]
        /\ DOMAIN objs' = DOMAIN objs
        /\ \A q \in DOMAIN objs : objs'[q].id = objs[q].id /\ objs'[q].fields = objs[q].fields
    BY <1>1, <1>5, MarkEffect
  <2>2. Destinations \subseteq Destinations' /\ \A q \in DOMAIN objs : Pointees(q)' = Pointees(q)
    BY <2>1 DEF Destinations, Pointees
  <2> QED BY <1>1, <2>1, <2>2 DEF Named, Known
<1>6. ASSUME NEW k \in 1 .. NrPages, CopyPage(k) PROVE Named' /\ Known'
  <2>1. /\ DOMAIN objs' = DOMAIN objs \cup {records[p] : p \in Sources(k)}
        /\ \A q \in DOMAIN objs : objs'[q] = objs[q]
        /\ \A p \in Sources(k) :
             /\ records[p] \notin DOMAIN objs /\ p \in DOMAIN objs /\ Pointees(p) \subseteq DOMAIN records
             /\ objs'[records[p]].id = objs[p].id /\ objs'[records[p]].mark = objs[p].mark
             /\ objs'[records[p]].fields = [f \in Fields |-> Mapped(objs[p].fields[f])]
    BY <1>1, <1>6, CopyEffect, Zenon
  <2>2. records' = records /\ Destinations' = Destinations /\ \A p \in Sources(k) : p \in DOMAIN records
    BY <1>6 DEF CopyPage, Destinations, Sources
  <2>3. \A p \in DOMAIN records : p[1] = From /\ records[p][1] = 1 - From /\ From \in {0, 1}
    BY <1>1 DEF Recorded, From, Other, TypeOK
  <2>4. ASSUME NEW x \in DOMAIN objs, NEW p \in Sources(k), objs[x].id = objs[p].id PROVE x = p
    <3>1. p \in DOMAIN objs /\ p \in DOMAIN records /\ records[p] \notin DOMAIN objs
      BY <2>1, <2>2, Zenon
    <3>2. ~(x \in DOMAIN records /\ records[x] = p)
      BY <2>3, <3>1
    <3> QED BY <1>1, <2>4, <3>1, <3>2 DEF Named
  <2>5. Named'
    <3> SUFFICES ASSUME NEW x \in DOMAIN objs', NEW y \in DOMAIN objs', objs'[x].id = objs'[y].id
                 PROVE  x = y \/ (x \in DOMAIN records /\ records[x] = y) \/ (y \in DOMAIN records /\ records[y] = x)
      BY <2>2 DEF Named
    <3>1. CASE x \in DOMAIN objs /\ y \in DOMAIN objs
      BY <1>1, <2>1, <3>1 DEF Named
    <3>2. ASSUME NEW p \in Sources(k), x = records[p], y \in DOMAIN objs PROVE y = p
      BY <2>1, <2>4, <3>2
    <3>3. ASSUME NEW p \in Sources(k), y = records[p], x \in DOMAIN objs PROVE x = p
      BY <2>1, <2>4, <3>3, ZenonT(60)
    <3>4. ASSUME NEW p \in Sources(k), NEW q \in Sources(k), x = records[p], y = records[q] PROVE p = q
      <4>1. p \in DOMAIN objs /\ objs'[x].id = objs[p].id /\ objs'[y].id = objs[q].id
        BY <2>1, <3>4
      <4>2. objs[p].id = objs[q].id
        BY <4>1
      <4> QED BY <2>4, <4>1, <4>2
    <3> QED BY <2>1, <2>2, <3>1, <3>2, <3>3, <3>4
  <2>6. Known'
    <3>1. \A p \in DOMAIN objs : Pointees(p)' = Pointees(p)
      BY <2>1 DEF Pointees
    <3>2. ASSUME NEW p \in Sources(k), NEW q, q = records[p] PROVE Pointees(q)' \subseteq Destinations
      <4> SUFFICES ASSUME NEW f \in Fields, objs'[q].fields[f] # Null PROVE objs'[q].fields[f] \in Destinations
        BY DEF Pointees
      <4>1. objs'[q].fields = [g \in Fields |-> Mapped(objs[p].fields[g])] /\ Pointees(p) \subseteq DOMAIN records
        BY <2>1, <3>2, Zenon
      <4>2. objs'[q].fields[f] = Mapped(objs[p].fields[f])
        BY <4>1
      <4>3. objs[p].fields[f] # Null
        BY <4>2 DEF Mapped
      <4>4. objs[p].fields[f] \in DOMAIN records
        BY <4>1, <4>3 DEF Pointees
      <4>5. objs'[q].fields[f] = records[objs[p].fields[f]]
        BY <4>2, <4>3 DEF Mapped
      <4> QED BY <4>4, <4>5 DEF Destinations
    <3> QED BY <1>1, <2>1, <2>2, <3>1, <3>2 DEF Known
  <2> QED BY <2>5, <2>6
<1>7. CASE Step4
  <2>1. /\ objs' = [p \in {q \in DOMAIN objs : q[1] = mm} |-> objs[p]] /\ DOMAIN records' = {}
        /\ gpc = "copy" /\ uncopied = {}
    BY <1>7 DEF Step4, Empty
  <2>2. DOMAIN objs' = InCurrent /\ \A p \in InCurrent : objs'[p] = objs[p] /\ Pointees(p)' = Pointees(p)
    BY <2>1 DEF InCurrent, Pointees
  <2>3. \A p \in DOMAIN records : p \notin InCurrent
    BY <1>1, <2>1 DEF Recorded, From, Other, TypeOK, InCurrent
  <2>4. Destinations \subseteq DOMAIN objs
    BY <1>1, <2>1 DEF Copies, Destinations
  <2>5. \A p \in InCurrent : Pointees(p) \subseteq InCurrent
    BY <1>1, <2>4 DEF NoDangling, InCurrent
  <2>6. Named'
    BY <1>1, <2>1, <2>2, <2>3 DEF Named, InCurrent
  <2> QED BY <2>2, <2>5, <2>6 DEF Known
<1> QED
  <2>1. \A m \in Mutators : SlotsOf[m] \subseteq Slots
    BY SlotsAssumption
  <2> QED BY <1>2, <1>3, <1>4, <1>5, <1>6, <1>7, <2>1, UnmovedSteps
       DEF Next, MutatorStep, CollectorStep

-----------------------------------------------------------------------------
(* The refinement.                                                         *)

\* What the heap is made of: a triple for every slot in use, and one for every
\* field that is not null of every object where it is now.
Members ==
  /\ HeapNow = [roots |-> HeapNow.roots, edges |-> HeapNow.edges]
  /\ \A t : t \in HeapNow.roots <=>
       \E m \in Mutators, s \in Slots : \E v :
         v = roots[m][s] /\ v # Null /\ t = <<m, s, IdOf(v)>>
  /\ \A t : t \in HeapNow.edges <=>
       \E p \in Places, f \in Fields : \E v :
         v = objs[p].fields[f] /\ v # Null /\ t = <<objs[p].id, f, IdOf(v)>>

\* The heap has these members, by its definition.
LEMMA HeapMembers == Members
<1>1. HeapNow = [roots |-> HeapNow.roots, edges |-> HeapNow.edges]
  BY DEF HeapNow
<1>2. ASSUME NEW t
      PROVE  t \in HeapNow.roots <=>
               \E m \in Mutators, s \in Slots : \E v :
                 v = roots[m][s] /\ v # Null /\ t = <<m, s, IdOf(v)>>
  <2>1. t \in HeapNow.roots <=>
          \E x \in Mutators \X Slots : roots[x[1]][x[2]] # Null /\ t = <<x[1], x[2], IdOf(roots[x[1]][x[2]])>>
    BY DEF HeapNow
  <2>2. ASSUME NEW x \in Mutators \X Slots, roots[x[1]][x[2]] # Null,
               t = <<x[1], x[2], IdOf(roots[x[1]][x[2]])>>
        PROVE  \E m \in Mutators, s \in Slots : \E v :
                 v = roots[m][s] /\ v # Null /\ t = <<m, s, IdOf(v)>>
    <3>1. x[1] \in Mutators /\ x[2] \in Slots
      OBVIOUS
    <3> QED BY <2>2, <3>1, Zenon
  <2>3. ASSUME NEW m \in Mutators, NEW s \in Slots, roots[m][s] # Null, t = <<m, s, IdOf(roots[m][s])>>
        PROVE  \E x \in Mutators \X Slots : roots[x[1]][x[2]] # Null /\ t = <<x[1], x[2], IdOf(roots[x[1]][x[2]])>>
    <3>1. <<m, s>> \in Mutators \X Slots /\ <<m, s>>[1] = m /\ <<m, s>>[2] = s
      OBVIOUS
    <3> QED BY <2>3, <3>1, Zenon
  <2> QED BY <2>1, <2>2, <2>3, Zenon
<1>3. ASSUME NEW t
      PROVE  t \in HeapNow.edges <=>
               \E p \in Places, f \in Fields : \E v :
                 v = objs[p].fields[f] /\ v # Null /\ t = <<objs[p].id, f, IdOf(v)>>
  <2>1. t \in HeapNow.edges <=>
          \E x \in Places \X Fields :
            objs[x[1]].fields[x[2]] # Null /\ t = <<objs[x[1]].id, x[2], IdOf(objs[x[1]].fields[x[2]])>>
    BY DEF HeapNow
  <2>2. ASSUME NEW x \in Places \X Fields, objs[x[1]].fields[x[2]] # Null,
               t = <<objs[x[1]].id, x[2], IdOf(objs[x[1]].fields[x[2]])>>
        PROVE  \E p \in Places, f \in Fields : \E v :
                 v = objs[p].fields[f] /\ v # Null /\ t = <<objs[p].id, f, IdOf(v)>>
    <3>1. x[1] \in Places /\ x[2] \in Fields
      OBVIOUS
    <3> QED BY <2>2, <3>1, Zenon
  <2>3. ASSUME NEW p \in Places, NEW f \in Fields, objs[p].fields[f] # Null,
               t = <<objs[p].id, f, IdOf(objs[p].fields[f])>>
        PROVE  \E x \in Places \X Fields :
                 objs[x[1]].fields[x[2]] # Null /\ t = <<objs[x[1]].id, x[2], IdOf(objs[x[1]].fields[x[2]])>>
    <3>1. <<p, f>> \in Places \X Fields /\ <<p, f>>[1] = p /\ <<p, f>>[2] = f
      OBVIOUS
    <3> QED BY <2>3, <3>1, Zenon
  <2> QED BY <2>1, <2>2, <2>3, Zenon
<1> QED BY <1>1, <1>2, <1>3 DEF Members

\* The same after a step.
LEMMA HeapMembersNext ==
  /\ HeapNow' = [roots |-> HeapNow'.roots, edges |-> HeapNow'.edges]
  /\ \A t : t \in HeapNow'.roots <=>
       \E m \in Mutators, s \in Slots : \E v :
         v = roots'[m][s] /\ v # Null /\ t = <<m, s, IdOf(v)'>>
  /\ \A t : t \in HeapNow'.edges <=>
       \E p \in Places', f \in Fields : \E v :
         v = objs'[p].fields[f] /\ v # Null /\ t = <<objs'[p].id, f, IdOf(v)'>>
<1>1. Members'
  BY HeapMembers, PTL
<1> QED BY <1>1 DEF Members

\* What slots and fields may hold keeps its name in a step.
Kept == \A v \in DOMAIN objs \cup Destinations : IdOf(v)' = IdOf(v)

\* A step that moves nothing and changes no field keeps the edges.
LEMMA EdgesKept ==
  ASSUME HInv, Kept,
         \A q \in Places : q \in Places' /\ objs'[q].id = objs[q].id /\ objs'[q].fields = objs[q].fields,
         \A q \in Places' : q \notin Places => \A f \in Fields : objs'[q].fields[f] = Null
  PROVE  HeapNow'.edges = HeapNow.edges
<1>1. \A q \in Places, f \in Fields : \A v :
        v = objs[q].fields[f] /\ v # Null => IdOf(v)' = IdOf(v)
  <2> SUFFICES ASSUME NEW q \in Places, NEW f \in Fields, NEW v, v = objs[q].fields[f], v # Null
               PROVE  IdOf(v)' = IdOf(v)
    OBVIOUS
  <2>1. v \in Pointees(q) /\ q \in DOMAIN objs
    BY DEF Pointees, Places
  <2> QED BY <2>1 DEF HInv, Known, Kept
<1>2. ASSUME NEW t PROVE t \in HeapNow'.edges <=> t \in HeapNow.edges
  BY <1>1, HeapMembers, HeapMembersNext, SMTT(60) DEF Members
<1> QED BY <1>2

\* A step that assigns no slot keeps the roots.
LEMMA RootsKept ==
  ASSUME HInv, Kept, roots' = roots
  PROVE  HeapNow'.roots = HeapNow.roots
<1>1. \A m \in Mutators, s \in Slots : \A v : v = roots[m][s] /\ v # Null => IdOf(v)' = IdOf(v)
  BY DEF HInv, IInv, NoDangling, Rooted, Kept
<1>2. ASSUME NEW t PROVE t \in HeapNow'.roots <=> t \in HeapNow.roots
  BY <1>1, HeapMembers, HeapMembersNext DEF Members
<1> QED BY <1>2

\* A step that assigns one slot changes what that slot refers to.
LEMMA RootReferred ==
  ASSUME HInv, Kept, NEW m \in Mutators, NEW s \in Slots, NEW v, roots' = [roots EXCEPT ![m][s] = v],
         NEW X, X = IF v = Null THEN {} ELSE {IdOf(v)'}
  PROVE  HeapNow'.roots = Heap!Refer(HeapNow.roots, m, s, X)
<1>1. \A n \in Mutators, r \in Slots : \A w : w = roots[n][r] /\ w # Null => IdOf(w)' = IdOf(w)
  BY DEF HInv, IInv, NoDangling, Rooted, Kept
<1>2. \A n \in Mutators, r \in Slots : roots'[n][r] = IF n = m /\ r = s THEN v ELSE roots[n][r]
  BY DEF HInv, IInv, TypeOK
<1>3. ASSUME NEW t
      PROVE  t \in HeapNow'.roots <=>
               \/ t \in HeapNow.roots /\ <<t[1], t[2]>> # <<m, s>>
               \/ v # Null /\ t = <<m, s, IdOf(v)'>>
  <2>1. ASSUME t \in HeapNow'.roots
        PROVE  \/ t \in HeapNow.roots /\ <<t[1], t[2]>> # <<m, s>>
               \/ v # Null /\ t = <<m, s, IdOf(v)'>>
    <3>1. PICK n \in Mutators, r \in Slots : \E w : w = roots'[n][r] /\ w # Null /\ t = <<n, r, IdOf(w)'>>
      BY <2>1, HeapMembersNext
    <3>2. PICK w : w = roots'[n][r] /\ w # Null /\ t = <<n, r, IdOf(w)'>>
      BY <3>1
    <3>3. CASE n = m /\ r = s
      BY <1>2, <3>2, <3>3
    <3>4. CASE ~(n = m /\ r = s)
      <4>1. w = roots[n][r] /\ t = <<n, r, IdOf(w)>>
        BY <1>1, <1>2, <3>2, <3>4
      <4>2. t \in HeapNow.roots
        BY <3>2, <4>1, HeapMembers DEF Members
      <4> QED BY <3>4, <4>1, <4>2
    <3> QED BY <3>3, <3>4
  <2>2. ASSUME t \in HeapNow.roots, <<t[1], t[2]>> # <<m, s>> PROVE t \in HeapNow'.roots
    <3>1. PICK n \in Mutators, r \in Slots : \E w : w = roots[n][r] /\ w # Null /\ t = <<n, r, IdOf(w)>>
      BY <2>2, HeapMembers DEF Members
    <3>2. PICK w : w = roots[n][r] /\ w # Null /\ t = <<n, r, IdOf(w)>>
      BY <3>1
    <3>3. w = roots'[n][r] /\ t = <<n, r, IdOf(w)'>>
      BY <1>1, <1>2, <2>2, <3>2
    <3> QED BY <3>2, <3>3, HeapMembersNext
  <2>3. ASSUME v # Null, t = <<m, s, IdOf(v)'>> PROVE t \in HeapNow'.roots
    BY <1>2, <2>3, HeapMembersNext
  <2> QED BY <2>1, <2>2, <2>3
<1> QED BY <1>3 DEF Heap!Refer

\* A slot in use refers to one object, an empty one to none.
LEMMA SlotRefers ==
  ASSUME NEW m \in Mutators, NEW s \in Slots, NEW v, v = roots[m][s]
  PROVE  Heap!In(HeapNow.roots, m, s) = IF v = Null THEN {} ELSE {IdOf(v)}
<1>1. ASSUME NEW t PROVE t \in HeapNow.roots /\ t[1] = m /\ t[2] = s <=> v # Null /\ t = <<m, s, IdOf(v)>>
  <2>1. ASSUME t \in HeapNow.roots, t[1] = m, t[2] = s PROVE v # Null /\ t = <<m, s, IdOf(v)>>
    <3>1. PICK n \in Mutators, r \in Slots : \E w : w = roots[n][r] /\ w # Null /\ t = <<n, r, IdOf(w)>>
      BY <2>1, HeapMembers DEF Members
    <3>2. PICK w : w = roots[n][r] /\ w # Null /\ t = <<n, r, IdOf(w)>>
      BY <3>1
    <3>3. n = m /\ r = s
      BY <2>1, <3>2
    <3> QED BY <3>2, <3>3
  <2>2. ASSUME v # Null, t = <<m, s, IdOf(v)>> PROVE t \in HeapNow.roots /\ t[1] = m /\ t[2] = s
    BY <2>2, HeapMembers DEF Members
  <2> QED BY <2>1, <2>2
<1> DEFINE U == {u \in HeapNow.roots : u[1] = m /\ u[2] = s}
<1>2. U = IF v = Null THEN {} ELSE {<<m, s, IdOf(v)>>}
  BY <1>1
<1>3. Heap!In(HeapNow.roots, m, s) = {t[3] : t \in U}
  BY DEF Heap!In
<1> HIDE DEF U
<1>4. CASE v = Null
  <2>1. U = {}
    BY <1>2, <1>4
  <2> QED BY <1>3, <1>4, <2>1
<1>5. CASE v # Null
  <2>1. U = {<<m, s, IdOf(v)>>}
    BY <1>2, <1>5
  <2>2. PICK i : i = IdOf(v)
    OBVIOUS
  <2>3. <<m, s, i>>[3] = i
    OBVIOUS
  <2>4. {t[3] : t \in U} = {i}
    BY <2>1, <2>2, <2>3
  <2> QED BY <1>3, <1>5, <2>2, <2>4
<1> QED BY <1>4, <1>5

\* So does a field of an object that mutators see.
LEMMA FieldRefers ==
  ASSUME HInv, NEW p \in InCurrent, NEW f \in Fields, NEW v, v = objs[p].fields[f]
  PROVE  /\ p \in Places
         /\ \A q \in Places : objs[q].id = objs[p].id => q = p
         /\ Heap!In(HeapNow.edges, objs[p].id, f) = IF v = Null THEN {} ELSE {IdOf(v)}
<1>1. p \in DOMAIN objs /\ p[1] = mm
  BY DEF InCurrent
<1>2. p \in Places
  <2>1. mm \in {0, 1} /\ Phases /\ Recorded
    BY DEF HInv, IInv, TypeOK
  <2>2. CASE gpc = "copy"
    BY <1>1, <2>1, <2>2 DEF Recorded, From, Other, Places
  <2>3. CASE gpc # "copy"
    BY <1>1, <2>1, <2>3 DEF Recorded, From, Phases, Places
  <2> QED BY <2>2, <2>3
<1>3. \A q \in Places : objs[q].id = objs[p].id => q = p
  BY <1>1, <1>2 DEF HInv, Named, Places
<1>4. ASSUME NEW t
      PROVE  t \in HeapNow.edges /\ t[1] = objs[p].id /\ t[2] = f <=> v # Null /\ t = <<objs[p].id, f, IdOf(v)>>
  <2>1. ASSUME t \in HeapNow.edges, t[1] = objs[p].id, t[2] = f PROVE v # Null /\ t = <<objs[p].id, f, IdOf(v)>>
    <3>1. PICK q \in Places, g \in Fields :
            \E w : w = objs[q].fields[g] /\ w # Null /\ t = <<objs[q].id, g, IdOf(w)>>
      BY <2>1, HeapMembers DEF Members
    <3>2. PICK w : w = objs[q].fields[g] /\ w # Null /\ t = <<objs[q].id, g, IdOf(w)>>
      BY <3>1
    <3>3. q = p /\ g = f
      BY <1>3, <2>1, <3>2
    <3> QED BY <3>2, <3>3
  <2>2. ASSUME v # Null, t = <<objs[p].id, f, IdOf(v)>>
        PROVE  t \in HeapNow.edges /\ t[1] = objs[p].id /\ t[2] = f
    BY <1>2, <2>2, HeapMembers DEF Members
  <2> QED BY <2>1, <2>2
<1>5. Heap!In(HeapNow.edges, objs[p].id, f) = IF v = Null THEN {} ELSE {IdOf(v)}
  <2> DEFINE U == {u \in HeapNow.edges : u[1] = objs[p].id /\ u[2] = f}
  <2>1. U = IF v = Null THEN {} ELSE {<<objs[p].id, f, IdOf(v)>>}
    BY <1>4
  <2>2. Heap!In(HeapNow.edges, objs[p].id, f) = {t[3] : t \in U}
    BY DEF Heap!In
  <2> HIDE DEF U
  <2>3. CASE v = Null
    <3>1. U = {}
      BY <2>1, <2>3
    <3> QED BY <2>2, <2>3, <3>1
  <2>4. CASE v # Null
    <3>1. U = {<<objs[p].id, f, IdOf(v)>>}
      BY <2>1, <2>4
    <3>2. PICK i, j : i = IdOf(v) /\ j = objs[p].id
      OBVIOUS
    <3>3. <<j, f, i>>[3] = i
      OBVIOUS
    <3>4. {t[3] : t \in U} = {i}
      BY <3>1, <3>2, <3>3
    <3> QED BY <2>2, <2>4, <3>2, <3>4
  <2> QED BY <2>3, <2>4
<1> QED BY <1>2, <1>3, <1>5

\* What is reached is within any set of objects closed under following fields.
LEMMA ReachWithin ==
  ASSUME NEW h, NEW S \in SUBSET Ids, Heap!Closed(h, S)
  PROVE  Heap!Reach(h) \subseteq S
BY DEF Heap!Reach

\* A step from one heap to another is a step of the abstract specification.
LEMMA HeapStep ==
  ASSUME \/ HeapNow' = HeapNow
         \/ Heap!Forget(HeapNow, HeapNow')
         \/ \E m \in Mutators, s \in Slots :
              \/ Heap!New(HeapNow, HeapNow', m, s) \/ Heap!Drop(HeapNow, HeapNow', m, s)
              \/ Heap!Load(HeapNow, HeapNow', m, s) \/ Heap!Store(HeapNow, HeapNow', m, s)
  PROVE  [Heap!Next]_HeapNow
BY Zenon DEF Heap!Next

\* Assigning a slot of the abstract heap.
LEMMA SlotSet ==
  ASSUME NEW m, NEW s, NEW X, HeapNow'.roots = Heap!Refer(HeapNow.roots, m, s, X),
         HeapNow'.edges = HeapNow.edges
  PROVE  HeapNow' = Heap!Set(HeapNow, m, s, X)
<1>1. PICK h, g : h = HeapNow /\ g = HeapNow'
  OBVIOUS
<1>2. h = [roots |-> h.roots, edges |-> h.edges] /\ g = [roots |-> g.roots, edges |-> g.edges]
  BY <1>1, HeapMembers, HeapMembersNext, Zenon DEF Members
<1>3. g.roots = Heap!Refer(h.roots, m, s, X) /\ g.edges = h.edges
  BY <1>1
<1>4. g = [h EXCEPT !.roots = Heap!Refer(h.roots, m, s, X)]
  BY <1>2, <1>3
<1> QED BY <1>1, <1>4 DEF Heap!Set

\* Every name is that of an object in memory.
LEMMA NamesWithin ==
  ASSUME HInv, NEW v \in DOMAIN objs \cup Destinations
  PROVE  \E p \in DOMAIN objs : IdOf(v) = objs[p].id
<1>1. /\ \A p \in DOMAIN objs : IdOf(p) = objs[p].id
      /\ \A q \in DOMAIN records : IdOf(records[q]) = objs[q].id
  BY IdFacts DEF HInv
<1>2. \A q \in DOMAIN records : q \in DOMAIN objs
  BY DEF HInv, IInv, Recorded
<1>3. CASE v \in DOMAIN objs
  BY <1>1, <1>3
<1>4. CASE v \in Destinations
  <2>1. PICK q \in DOMAIN records : v = records[q]
    BY <1>4 DEF Destinations
  <2> QED BY <1>1, <1>2, <2>1
<1> QED BY <1>3, <1>4

\* Nothing the abstract heap refers to is without an object.
LEMMA ReachIsNamed ==
  ASSUME HInv, NEW i \in Heap!Reach(HeapNow) \cup {e[1] : e \in HeapNow.edges}
  PROVE  \E p \in DOMAIN objs : i = objs[p].id
<1>1. PICK S : S = {objs[p].id : p \in DOMAIN objs}
  OBVIOUS
<1>2. S \in SUBSET Ids
  BY <1>1 DEF HInv, IInv, TypeOK, Objects
<1>3. ASSUME NEW r \in HeapNow.roots PROVE r[3] \in S
  <2>1. PICK m \in Mutators, s \in Slots : \E w : w = roots[m][s] /\ w # Null /\ r = <<m, s, IdOf(w)>>
    BY HeapMembers DEF Members
  <2>2. PICK w : w = roots[m][s] /\ w # Null /\ r = <<m, s, IdOf(w)>>
    BY <2>1
  <2>3. w \in DOMAIN objs \cup Destinations
    BY <2>2 DEF HInv, IInv, NoDangling, Rooted
  <2> QED BY <1>1, <2>2, <2>3, NamesWithin
<1>4. ASSUME NEW e \in HeapNow.edges PROVE e[1] \in S /\ e[3] \in S
  <2>1. PICK p \in Places, f \in Fields : \E w : w = objs[p].fields[f] /\ w # Null /\ e = <<objs[p].id, f, IdOf(w)>>
    BY HeapMembers DEF Members
  <2>2. PICK w : w = objs[p].fields[f] /\ w # Null /\ e = <<objs[p].id, f, IdOf(w)>>
    BY <2>1
  <2>3. w \in DOMAIN objs \cup Destinations /\ p \in DOMAIN objs
    BY <2>2 DEF HInv, Known, Pointees, Places
  <2>4. IdOf(w) \in S
    BY <1>1, <2>3, NamesWithin
  <2> QED BY <1>1, <2>2, <2>3, <2>4
<1>5. Heap!Closed(HeapNow, S)
  BY <1>3, <1>4 DEF Heap!Closed
<1>6. Heap!Reach(HeapNow) \subseteq S
  BY <1>2, <1>5, ReachWithin
<1>7. i \in S
  BY <1>4, <1>6
<1> QED BY <1>1, <1>7

\* An allocation is New: its object has a name that nothing refers to.
LEMMA AllocRefines ==
  ASSUME HInv, IInv', NEW m \in Mutators, NEW s \in Slots, Alloc(m, s)
  PROVE  Heap!New(HeapNow, HeapNow', m, s)
<1>1. PICK p \in Pointers :
         /\ p \notin DOMAIN objs /\ p \notin Destinations /\ p # Null
         /\ DOMAIN objs' = DOMAIN objs \cup {p} /\ objs'[p] = NewObject
         /\ \A q \in DOMAIN objs : objs'[q] = objs[q]
         /\ roots' = [roots EXCEPT ![m][s] = p] /\ records' = records
  BY AllocEffect DEF HInv
<1>2. NewObject.id = Fresh /\ NewObject.fields = [f \in Fields |-> Null]
  BY DEF NewObject
<1>3. Kept
  BY <1>1, IdKept DEF HInv, Kept
<1>4. IdOf(p)' = Fresh
  <2>1. (\A q \in DOMAIN objs : IdOf(q) = objs[q].id)'
    BY DEF IdOf
  <2> QED BY <1>1, <1>2, <2>1
<1>5. HeapNow'.edges = HeapNow.edges
  <2>1. \A q \in Places : q \in Places' /\ objs'[q].id = objs[q].id /\ objs'[q].fields = objs[q].fields
    BY <1>1 DEF Places, Destinations
  <2>2. \A q \in Places' : q \notin Places => \A f \in Fields : objs'[q].fields[f] = Null
    BY <1>1, <1>2 DEF Places
  <2> QED BY <1>3, <2>1, <2>2, EdgesKept
<1>6. HeapNow'.roots = Heap!Refer(HeapNow.roots, m, s, {Fresh})
  BY <1>1, <1>3, <1>4, RootReferred
<1>7. Fresh \in Ids \ (Heap!Reach(HeapNow) \cup {e[1] : e \in HeapNow.edges})
  BY FreshId, ReachIsNamed DEF HInv, IInv
<1>8. HeapNow' = Heap!Set(HeapNow, m, s, {Fresh})
  BY <1>5, <1>6, SlotSet
<1> QED BY <1>7, <1>8, Zenon DEF Heap!New

\* While neither objects nor records change, names and edges stay.
LEMMA NamesStill ==
  ASSUME HInv, UNCHANGED <<objs, records>>
  PROVE  Kept /\ HeapNow'.edges = HeapNow.edges
<1>1. \A v : IdOf(v)' = IdOf(v)
  BY DEF IdOf
<1>2. Kept
  BY <1>1 DEF Kept
<1>3. Places' = Places
  BY DEF Places
<1> QED BY <1>2, <1>3, EdgesKept

\* A slot that is emptied is Drop.
LEMMA DropRefines ==
  ASSUME HInv, UNCHANGED <<objs, records>>, NEW m \in Mutators, NEW s \in Slots, DropRoot(m, s)
  PROVE  Heap!Drop(HeapNow, HeapNow', m, s)
<1>1. Kept /\ HeapNow'.edges = HeapNow.edges
  BY NamesStill
<1>2. roots' = [roots EXCEPT ![m][s] = Null]
  BY DEF DropRoot
<1>3. HeapNow'.roots = Heap!Refer(HeapNow.roots, m, s, {})
  BY <1>1, <1>2, RootReferred
<1> QED BY <1>1, <1>3, SlotSet, Zenon DEF Heap!Drop

\* What a mutator has access to is an object of the current space.
LEMMA AccessibleObject ==
  ASSUME HInv, NEW m \in Mutators, NEW s \in Slots, Accessible(m, s)
  PROVE  roots[m][s] \in InCurrent /\ Heap!In(HeapNow.roots, m, s) = {objs[roots[m][s]].id}
<1>1. PICK p : p = roots[m][s]
  OBVIOUS
<1>2. p \in DOMAIN objs /\ p # Null /\ p \in InCurrent
  BY <1>1 DEF HInv, IInv, Accessible, NoDangling, Rooted, InCurrent
<1>3. IdOf(p) = objs[p].id
  BY <1>2 DEF IdOf
<1>4. Heap!In(HeapNow.roots, m, s) = {IdOf(p)}
  BY <1>1, <1>2, SlotRefers
<1> QED BY <1>1, <1>2, <1>3, <1>4

\* A field that is read into a slot is Load.
LEMMA LoadRefines ==
  ASSUME HInv, UNCHANGED <<objs, records>>, NEW m \in Mutators, NEW s \in Slots, NEW f \in Fields,
         NEW r \in Slots, LoadField(m, s, f, r)
  PROVE  Heap!Load(HeapNow, HeapNow', m, s)
<1>1. PICK p : p = roots[m][s]
  OBVIOUS
<1>2. PICK v : v = objs[p].fields[f]
  OBVIOUS
<1>3. p \in InCurrent /\ Heap!In(HeapNow.roots, m, s) = {objs[p].id}
  BY <1>1, AccessibleObject DEF LoadField
<1>4. Kept /\ HeapNow'.edges = HeapNow.edges
  BY NamesStill
<1>5. roots' = [roots EXCEPT ![m][r] = v]
  BY <1>1, <1>2 DEF LoadField
<1>6. PICK X : X = IF v = Null THEN {} ELSE {IdOf(v)'}
  OBVIOUS
<1>7. X = Heap!In(HeapNow.edges, objs[p].id, f)
  <2>1. v # Null => v \in DOMAIN objs \cup Destinations
    BY <1>2, <1>3 DEF HInv, Known, Pointees, InCurrent
  <2>2. v # Null => IdOf(v)' = IdOf(v)
    BY <1>4, <2>1 DEF Kept
  <2>3. Heap!In(HeapNow.edges, objs[p].id, f) = IF v = Null THEN {} ELSE {IdOf(v)}
    BY <1>2, <1>3, FieldRefers
  <2> QED BY <1>6, <2>2, <2>3
<1>8. HeapNow'.roots = Heap!Refer(HeapNow.roots, m, r, X)
  BY <1>4, <1>5, <1>6, RootReferred
<1>9. HeapNow' = Heap!Set(HeapNow, m, r, Heap!In(HeapNow.edges, objs[p].id, f))
  BY <1>4, <1>7, <1>8, SlotSet
<1>10. objs[p].id \in Heap!In(HeapNow.roots, m, s)
  BY <1>3
<1> QED BY <1>9, <1>10, Zenon DEF Heap!Load

\* A field that is written is Store.
LEMMA StoreRefines ==
  ASSUME HInv, IInv', NEW m \in Mutators, NEW s \in Slots, NEW f \in Fields, NEW r \in Slots,
         StoreField(m, s, f, r)
  PROVE  Heap!Store(HeapNow, HeapNow', m, s)
<1>1. PICK p : p = roots[m][s]
  OBVIOUS
<1>2. PICK v : v = roots[m][r]
  OBVIOUS
<1>3. /\ roots' = roots /\ records' = records /\ DOMAIN objs' = DOMAIN objs
      /\ \A q \in DOMAIN objs : objs'[q].id = objs[q].id
      /\ \A q \in DOMAIN objs, g \in Fields :
           objs'[q].fields[g] = IF q = p /\ g = f THEN v ELSE objs[q].fields[g]
  BY <1>1, <1>2, StoreEffect DEF HInv
<1>4. p \in InCurrent /\ p \in DOMAIN objs /\ Heap!In(HeapNow.roots, m, s) = {objs[p].id}
  BY <1>1, AccessibleObject DEF StoreField, InCurrent
<1>5. Kept
  BY <1>3, IdKept DEF HInv, Kept
<1>6. HeapNow'.roots = HeapNow.roots
  BY <1>3, <1>5, RootsKept
<1>7. p \in Places /\ \A q \in Places : objs[q].id = objs[p].id => q = p
  BY <1>4, FieldRefers, ZenonT(60)
<1>8. Places' = Places /\ \A q \in Places : q \in DOMAIN objs
  BY <1>3 DEF Places
<1>9. \A q \in Places, g \in Fields : \A w :
        w = objs[q].fields[g] /\ w # Null => IdOf(w)' = IdOf(w)
  <2> SUFFICES ASSUME NEW q \in Places, NEW g \in Fields, NEW w, w = objs[q].fields[g], w # Null
               PROVE  IdOf(w)' = IdOf(w)
    OBVIOUS
  <2>1. w \in Pointees(q)
    BY DEF Pointees
  <2> QED BY <1>5, <1>8, <2>1 DEF HInv, Known, Kept
<1>10. v # Null => IdOf(v)' = IdOf(v)
  BY <1>2, <1>5 DEF Kept, HInv, IInv, NoDangling, Rooted
<1>11. PICK X : X = IF v = Null THEN {} ELSE {IdOf(v)}
  OBVIOUS
<1>12. ASSUME NEW t
       PROVE  t \in HeapNow'.edges <=>
                \/ t \in HeapNow.edges /\ <<t[1], t[2]>> # <<objs[p].id, f>>
                \/ v # Null /\ t = <<objs[p].id, f, IdOf(v)>>
  <2>1. ASSUME t \in HeapNow'.edges
        PROVE  \/ t \in HeapNow.edges /\ <<t[1], t[2]>> # <<objs[p].id, f>>
               \/ v # Null /\ t = <<objs[p].id, f, IdOf(v)>>
    <3>1. PICK q \in Places, g \in Fields :
            \E w : w = objs'[q].fields[g] /\ w # Null /\ t = <<objs'[q].id, g, IdOf(w)'>>
      BY <1>8, <2>1, HeapMembersNext
    <3>2. PICK w : w = objs'[q].fields[g] /\ w # Null /\ t = <<objs'[q].id, g, IdOf(w)'>>
      BY <3>1
    <3>3. CASE q = p /\ g = f
      BY <1>3, <1>4, <1>10, <3>2, <3>3
    <3>4. CASE ~(q = p /\ g = f)
      <4>1. w = objs[q].fields[g] /\ t = <<objs[q].id, g, IdOf(w)>>
        BY <1>3, <1>8, <1>9, <3>2, <3>4
      <4>2. t \in HeapNow.edges
        BY <3>2, <4>1, HeapMembers DEF Members
      <4> QED BY <1>7, <3>4, <4>1, <4>2
    <3> QED BY <3>3, <3>4
  <2>2. ASSUME t \in HeapNow.edges, <<t[1], t[2]>> # <<objs[p].id, f>> PROVE t \in HeapNow'.edges
    <3>1. PICK q \in Places, g \in Fields :
            \E w : w = objs[q].fields[g] /\ w # Null /\ t = <<objs[q].id, g, IdOf(w)>>
      BY <2>2, HeapMembers DEF Members
    <3>2. PICK w : w = objs[q].fields[g] /\ w # Null /\ t = <<objs[q].id, g, IdOf(w)>>
      BY <3>1
    <3>3. ~(q = p /\ g = f)
      BY <2>2, <3>2
    <3>4. w = objs'[q].fields[g] /\ t = <<objs'[q].id, g, IdOf(w)'>>
      BY <1>3, <1>8, <1>9, <3>2, <3>3
    <3> QED BY <1>8, <3>2, <3>4, HeapMembersNext
  <2>3. ASSUME v # Null, t = <<objs[p].id, f, IdOf(v)>> PROVE t \in HeapNow'.edges
    <3>1. v = objs'[p].fields[f] /\ t = <<objs'[p].id, f, IdOf(v)'>>
      BY <1>3, <1>4, <1>10, <2>3
    <3> QED BY <1>7, <1>8, <2>3, <3>1, HeapMembersNext
  <2> QED BY <2>1, <2>2, <2>3
<1>13. HeapNow'.edges = Heap!Refer(HeapNow.edges, objs[p].id, f, X)
  BY <1>11, <1>12 DEF Heap!Refer
<1>14. X = Heap!In(HeapNow.roots, m, r)
  BY <1>2, <1>11, SlotRefers
<1>15. PICK h, g : h = HeapNow /\ g = HeapNow'
  OBVIOUS
<1>16. h = [roots |-> h.roots, edges |-> h.edges] /\ g = [roots |-> g.roots, edges |-> g.edges]
  BY <1>15, HeapMembers, HeapMembersNext, Zenon DEF Members
<1>17. g.roots = h.roots /\ g.edges = Heap!Refer(h.edges, objs[p].id, f, X)
  BY <1>6, <1>13, <1>15
<1>18. g = [h EXCEPT !.edges = Heap!Refer(h.edges, objs[p].id, f, X)]
  BY <1>16, <1>17
<1>19. objs[p].id \in Heap!In(HeapNow.roots, m, s)
  BY <1>4
<1>20. HeapNow' = [HeapNow EXCEPT !.edges = Heap!Refer(HeapNow.edges, objs[p].id, f, Heap!In(HeapNow.roots, m, r))]
  BY <1>14, <1>15, <1>18
<1> QED BY <1>19, <1>20, Zenon DEF Heap!Store

\* Two heaps with the same slots and the same fields are one.
LEMMA SameHeap ==
  ASSUME HeapNow'.roots = HeapNow.roots, HeapNow'.edges = HeapNow.edges
  PROVE  HeapNow' = HeapNow
<1>1. PICK h, g : h = HeapNow /\ g = HeapNow'
  OBVIOUS
<1>2. h = [roots |-> h.roots, edges |-> h.edges] /\ g = [roots |-> g.roots, edges |-> g.edges]
  BY <1>1, HeapMembers, HeapMembersNext, Zenon DEF Members
<1> QED BY <1>1, <1>2

\* Marking an object and reserving a place for it are not seen.
LEMMA MarkRefines ==
  ASSUME HInv, IInv', NEW p \in Pointers, MarkObject(p)
  PROVE  HeapNow' = HeapNow
<1>1. /\ roots' = roots /\ DOMAIN records' = DOMAIN records \cup {p} /\ records'[p] \notin DOMAIN objs
      /\ \A q \in DOMAIN records : records'[q] = records[q]
      /\ DOMAIN objs' = DOMAIN objs
      /\ \A q \in DOMAIN objs : objs'[q].id = objs[q].id /\ objs'[q].fields = objs[q].fields
      /\ p \notin DOMAIN records
  BY MarkEffect DEF HInv
<1>2. Kept
  BY <1>1, IdKept DEF HInv, Kept
<1>3. Places' = Places
  BY <1>1 DEF Places
<1>4. \A q \in Places : q \in DOMAIN objs
  BY DEF Places
<1>5. HeapNow'.edges = HeapNow.edges
  BY <1>1, <1>2, <1>3, <1>4, EdgesKept
<1>6. HeapNow'.roots = HeapNow.roots
  BY <1>1, <1>2, RootsKept
<1> QED BY <1>5, <1>6, SameHeap

\* Fixing the roots and swapping the spaces are not seen: a slot refers to the
\* same object by the place that object will have.
LEMMA Step3Refines ==
  ASSUME HInv, UNCHANGED <<objs, records>>, Step3
  PROVE  HeapNow' = HeapNow
<1>1. Kept /\ HeapNow'.edges = HeapNow.edges
  BY NamesStill
<1>2. /\ roots' = [m \in Mutators |-> [s \in Slots |-> Mapped(roots[m][s])]]
      /\ \A v \in Rooted : v \in DOMAIN records
  BY DEF Step3, Step3Failure
<1>3. \A m \in Mutators, s \in Slots : roots'[m][s] = Mapped(roots[m][s])
  BY <1>2
<1>4. \A v \in DOMAIN records : records[v] # Null /\ IdOf(records[v])' = IdOf(v)
  <2> SUFFICES ASSUME NEW v \in DOMAIN records PROVE records[v] # Null /\ IdOf(records[v])' = IdOf(v)
    OBVIOUS
  <2>1. records[v] \in Pointers /\ v \in DOMAIN objs
    BY DEF HInv, IInv, TypeOK, Recorded
  <2>2. IdOf(records[v]) = objs[v].id /\ IdOf(v) = objs[v].id
    BY <2>1, IdFacts DEF HInv
  <2>3. IdOf(records[v])' = IdOf(records[v])
    BY <1>1 DEF Kept, Destinations
  <2> QED BY <2>1, <2>2, <2>3, NullAssumption
<1>5. \A m \in Mutators, s \in Slots : \A v :
        v = roots[m][s] => /\ v = Null => roots'[m][s] = Null
                           /\ v # Null => /\ roots'[m][s] # Null
                                          /\ \A w : w = roots'[m][s] => IdOf(w)' = IdOf(v)
  <2> SUFFICES ASSUME NEW m \in Mutators, NEW s \in Slots, NEW v, v = roots[m][s]
               PROVE  /\ v = Null => roots'[m][s] = Null
                      /\ v # Null => /\ roots'[m][s] # Null
                                     /\ \A w : w = roots'[m][s] => IdOf(w)' = IdOf(v)
    OBVIOUS
  <2>1. roots'[m][s] = IF v = Null THEN Null ELSE records[v]
    BY <1>3 DEF Mapped
  <2>2. v # Null => v \in DOMAIN records
    BY <1>2 DEF Rooted
  <2>3. v # Null => roots'[m][s] = records[v] /\ records[v] # Null /\ IdOf(records[v])' = IdOf(v)
    BY <1>4, <2>1, <2>2
  <2> QED BY <2>1, <2>3
<1>6. ASSUME NEW t PROVE t \in HeapNow'.roots <=> t \in HeapNow.roots
  <2>1. ASSUME t \in HeapNow'.roots PROVE t \in HeapNow.roots
    <3>1. PICK m \in Mutators, s \in Slots : \E w : w = roots'[m][s] /\ w # Null /\ t = <<m, s, IdOf(w)'>>
      BY <2>1, HeapMembersNext
    <3>2. PICK w : w = roots'[m][s] /\ w # Null /\ t = <<m, s, IdOf(w)'>>
      BY <3>1
    <3>3. PICK v : v = roots[m][s]
      OBVIOUS
    <3>4. v # Null /\ t = <<m, s, IdOf(v)>>
      BY <1>5, <3>2, <3>3
    <3> QED BY <3>3, <3>4, HeapMembers DEF Members
  <2>2. ASSUME t \in HeapNow.roots PROVE t \in HeapNow'.roots
    <3>1. PICK m \in Mutators, s \in Slots : \E v : v = roots[m][s] /\ v # Null /\ t = <<m, s, IdOf(v)>>
      BY <2>2, HeapMembers DEF Members
    <3>2. PICK v : v = roots[m][s] /\ v # Null /\ t = <<m, s, IdOf(v)>>
      BY <3>1
    <3>3. PICK w : w = roots'[m][s]
      OBVIOUS
    <3>4. w # Null /\ t = <<m, s, IdOf(w)'>>
      BY <1>5, <3>2, <3>3
    <3> QED BY <3>3, <3>4, HeapMembersNext
  <2> QED BY <2>1, <2>2
<1>7. HeapNow'.roots = HeapNow.roots
  BY <1>6
<1> QED BY <1>1, <1>7, SameHeap

\* A page that is moved in is not seen: the copies take the place of the
\* originals, with the same names and fields that refer to the same objects.
LEMMA CopyRefines ==
  ASSUME HInv, IInv', NEW k \in 1 .. NrPages, CopyPage(k)
  PROVE  HeapNow' = HeapNow
<1>1. /\ DOMAIN objs' = DOMAIN objs \cup {records[p] : p \in Sources(k)}
      /\ \A q \in DOMAIN objs : objs'[q] = objs[q]
      /\ \A p \in Sources(k) :
           /\ records[p] \notin DOMAIN objs /\ p \in DOMAIN objs /\ Pointees(p) \subseteq DOMAIN records
           /\ objs'[records[p]].id = objs[p].id /\ objs'[records[p]].mark = objs[p].mark
           /\ objs'[records[p]].fields = [f \in Fields |-> Mapped(objs[p].fields[f])]
  <2>1. IInv
    BY DEF HInv
  <2> QED BY <2>1, CopyEffect, Zenon
<1>2. records' = records /\ roots' = roots /\ \A p \in Sources(k) : p \in DOMAIN records
  BY DEF CopyPage, mutvars, Sources
<1>3. TypeOK /\ Recorded /\ RecordsSound /\ \A p \in DOMAIN records : p[1] # records[p][1] /\ records[p] \notin DOMAIN records
  <2>1. TypeOK /\ Recorded /\ RecordsSound
    BY DEF HInv, IInv
  <2>2. \A p \in DOMAIN records : p[1] = From /\ records[p][1] = 1 - From /\ From \in {0, 1}
    BY <2>1 DEF Recorded, From, Other, TypeOK
  <2> QED BY <2>1, <2>2
<1>4. Kept
  <2>1. DOMAIN objs \subseteq DOMAIN objs' /\ \A p \in DOMAIN objs : objs'[p].id = objs[p].id
    BY <1>1, Zenon
  <2> QED BY <1>2, <2>1, IdKept DEF HInv, Kept
<1>5. HeapNow'.roots = HeapNow.roots
  BY <1>2, <1>4, RootsKept
<1>6. ASSUME NEW x \in DOMAIN records, NEW y, y = records[x]
      PROVE  IdOf(y)' = IdOf(x) /\ y # Null
  <2>1. y \in Pointers /\ x \in DOMAIN objs
    BY <1>3, <1>6 DEF TypeOK, Recorded
  <2>2. IdOf(y) = objs[x].id /\ IdOf(x) = objs[x].id
    BY <1>6, <2>1, IdFacts DEF HInv
  <2>3. IdOf(y)' = IdOf(y)
    BY <1>4, <1>6 DEF Kept, Destinations
  <2> QED BY <2>1, <2>2, <2>3, NullAssumption
<1>7. ASSUME NEW p \in Places, p \notin Sources(k)
      PROVE  p \in Places' /\ objs'[p] = objs[p]
  <2>1. p \in DOMAIN objs /\ (p \notin DOMAIN records \/ records[p] \notin DOMAIN objs)
    BY DEF Places
  <2>2. p \in DOMAIN records => ~\E x \in Sources(k) : records[p] = records[x]
    BY <1>2, <1>3, <1>7 DEF RecordsSound
  <2>3. p \in DOMAIN objs' /\ objs'[p] = objs[p]
    BY <1>1, <2>1, Zenon
  <2>4. p \notin DOMAIN records' \/ records'[p] \notin DOMAIN objs'
    BY <1>1, <1>2, <2>1, <2>2
  <2> QED BY <2>3, <2>4 DEF Places
<1>8. ASSUME NEW p \in Sources(k) PROVE p \in Places /\ records[p] \in Places'
  <2>1. p \in DOMAIN records /\ records[p] \notin DOMAIN records
    BY <1>2, <1>3
  <2>2. records[p] \notin DOMAIN objs /\ p \in DOMAIN objs /\ records[p] \in DOMAIN objs'
    BY <1>1, Zenon
  <2> QED BY <1>2, <2>1, <2>2 DEF Places
<1>9. ASSUME NEW q \in Places'
      PROVE  \/ q \in Places /\ q \notin Sources(k)
             \/ \E p \in Sources(k) : q = records[p]
  <2>1. q \in DOMAIN objs' /\ (q \notin DOMAIN records \/ records[q] \notin DOMAIN objs')
    BY <1>2 DEF Places
  <2>2. CASE q \in DOMAIN objs
    <3>1. records[q] \notin DOMAIN objs' => records[q] \notin DOMAIN objs
      BY <1>1, Zenon
    <3>2. q \in Sources(k) => records[q] \in DOMAIN objs'
      BY <1>1, Zenon
    <3> QED BY <1>2, <2>1, <2>2, <3>1, <3>2 DEF Places
  <2>3. CASE q \notin DOMAIN objs
    BY <1>1, <2>1, <2>3, Zenon
  <2> QED BY <2>2, <2>3
<1>10. ASSUME NEW p \in Sources(k), NEW f \in Fields, NEW v, v = objs[p].fields[f], NEW w,
              w = objs'[records[p]].fields[f]
       PROVE  /\ w = Null <=> v = Null
              /\ v # Null => IdOf(w)' = IdOf(v)
  <2>1. /\ objs'[records[p]].fields = [g \in Fields |-> Mapped(objs[p].fields[g])]
        /\ Pointees(p) \subseteq DOMAIN records
    BY <1>1, Zenon
  <2>2. w = Mapped(v)
    BY <1>10, <2>1
  <2>3. CASE v = Null
    BY <2>2, <2>3 DEF Mapped
  <2>4. CASE v # Null
    <3>1. v \in DOMAIN records /\ w = records[v]
      BY <1>10, <2>1, <2>2, <2>4 DEF Pointees, Mapped
    <3>2. IdOf(w)' = IdOf(v) /\ w # Null
      BY <1>6, <3>1
    <3> QED BY <2>4, <3>2
  <2> QED BY <2>3, <2>4
<1>11. ASSUME NEW q \in Places, NEW f \in Fields, NEW w, w = objs[q].fields[f], w # Null
       PROVE  IdOf(w)' = IdOf(w)
  <2>1. w \in Pointees(q) /\ q \in DOMAIN objs
    BY <1>11 DEF Pointees, Places
  <2> QED BY <1>4, <2>1 DEF HInv, Known, Kept
<1>12. ASSUME NEW t PROVE t \in HeapNow'.edges <=> t \in HeapNow.edges
  <2>1. ASSUME t \in HeapNow'.edges PROVE t \in HeapNow.edges
    <3>1. PICK q \in Places', f \in Fields :
            \E w : w = objs'[q].fields[f] /\ w # Null /\ t = <<objs'[q].id, f, IdOf(w)'>>
      BY <2>1, HeapMembersNext
    <3>2. PICK w : w = objs'[q].fields[f] /\ w # Null /\ t = <<objs'[q].id, f, IdOf(w)'>>
      BY <3>1
    <3>3. CASE q \in Places /\ q \notin Sources(k)
      <4>1. w = objs[q].fields[f] /\ t = <<objs[q].id, f, IdOf(w)>>
        BY <1>7, <1>11, <3>2, <3>3
      <4> QED BY <3>2, <3>3, <4>1, HeapMembers DEF Members
    <3>4. ASSUME NEW p \in Sources(k), q = records[p] PROVE t \in HeapNow.edges
      <4>1. PICK v : v = objs[p].fields[f]
        OBVIOUS
      <4>2. v # Null
        BY <1>10, <3>2, <3>4, <4>1
      <4>3. IdOf(w)' = IdOf(v)
        BY <1>10, <3>2, <3>4, <4>1, <4>2
      <4>4. objs'[q].id = objs[p].id
        BY <1>1, <3>4, Zenon
      <4> QED BY <1>8, <3>2, <4>1, <4>2, <4>3, <4>4, HeapMembers DEF Members
    <3> QED BY <1>9, <3>3, <3>4
  <2>2. ASSUME t \in HeapNow.edges PROVE t \in HeapNow'.edges
    <3>1. PICK p \in Places, f \in Fields :
            \E v : v = objs[p].fields[f] /\ v # Null /\ t = <<objs[p].id, f, IdOf(v)>>
      BY <2>2, HeapMembers DEF Members
    <3>2. PICK v : v = objs[p].fields[f] /\ v # Null /\ t = <<objs[p].id, f, IdOf(v)>>
      BY <3>1
    <3>3. CASE p \notin Sources(k)
      <4>1. p \in Places' /\ v = objs'[p].fields[f] /\ t = <<objs'[p].id, f, IdOf(v)'>>
        BY <1>7, <1>11, <3>2, <3>3
      <4> QED BY <3>2, <4>1, HeapMembersNext
    <3>4. CASE p \in Sources(k)
      <4>1. PICK q : q = records[p]
        OBVIOUS
      <4>2. PICK w : w = objs'[q].fields[f]
        OBVIOUS
      <4>3. w # Null
        BY <1>10, <3>2, <3>4, <4>1, <4>2
      <4>4. IdOf(w)' = IdOf(v)
        BY <1>10, <3>2, <3>4, <4>1, <4>2
      <4>5. objs'[q].id = objs[p].id
        BY <1>1, <3>4, <4>1, Zenon
      <4> QED BY <1>8, <3>2, <3>4, <4>1, <4>2, <4>3, <4>4, <4>5, HeapMembersNext
    <3> QED BY <3>3, <3>4
  <2> QED BY <2>1, <2>2
<1>13. HeapNow'.edges = HeapNow.edges
  BY <1>12
<1> QED BY <1>5, <1>13, SameHeap

\* Clearing from-space is Forget: what has no copy is not reached from any slot.
LEMMA Step4Refines ==
  ASSUME HInv, IInv', Step4
  PROVE  Heap!Forget(HeapNow, HeapNow')
<1>1. /\ objs' = [p \in {q \in DOMAIN objs : q[1] = mm} |-> objs[p]] /\ DOMAIN records' = {}
      /\ gpc = "copy" /\ uncopied = {} /\ roots' = roots
  BY DEF Step4, Empty, mutvars
<1>2. TypeOK /\ Recorded /\ Copies /\ NoDangling /\ Named
  BY DEF HInv, IInv
<1>3. DOMAIN objs' = InCurrent /\ \A p \in InCurrent : objs'[p] = objs[p] /\ p \in DOMAIN objs
  BY <1>1 DEF InCurrent
<1>4. /\ \A p \in DOMAIN records : p \notin InCurrent /\ records[p] \in DOMAIN objs
      /\ Destinations \subseteq DOMAIN objs
  BY <1>1, <1>2 DEF Recorded, From, Other, TypeOK, InCurrent, Copies, Destinations
<1>5. Places' = InCurrent /\ \A p \in Places : p \in DOMAIN objs /\ p \notin DOMAIN records
  BY <1>1, <1>3, <1>4 DEF Places
<1>6. \A p \in InCurrent : p \in Places
  BY <1>3, <1>4 DEF Places
<1>7. /\ \A m \in Mutators, s \in Slots : \A v : v = roots[m][s] /\ v # Null => v \in InCurrent
      /\ \A p \in InCurrent, f \in Fields : \A v : v = objs[p].fields[f] /\ v # Null => v \in InCurrent
  BY <1>2, <1>4 DEF NoDangling, Rooted, Pointees, InCurrent
<1>8. \A v \in InCurrent : IdOf(v) = objs[v].id /\ IdOf(v)' = objs[v].id
  <2>1. (\A p \in DOMAIN objs : IdOf(p) = objs[p].id)'
    BY DEF IdOf
  <2> QED BY <1>3, <2>1 DEF IdOf
<1>9. HeapNow'.roots = HeapNow.roots
  <2>1. \A m \in Mutators, s \in Slots : \A v : v = roots[m][s] /\ v # Null => IdOf(v)' = IdOf(v)
    BY <1>7, <1>8
  <2>2. ASSUME NEW t PROVE t \in HeapNow'.roots <=> t \in HeapNow.roots
    BY <1>1, <2>1, HeapMembers, HeapMembersNext DEF Members
  <2> QED BY <2>2
<1>10. ASSUME NEW t \in HeapNow'.edges PROVE t \in HeapNow.edges
  <2>1. PICK p \in Places', f \in Fields :
          \E w : w = objs'[p].fields[f] /\ w # Null /\ t = <<objs'[p].id, f, IdOf(w)'>>
    BY HeapMembersNext
  <2>2. PICK w : w = objs'[p].fields[f] /\ w # Null /\ t = <<objs'[p].id, f, IdOf(w)'>>
    BY <2>1
  <2>3. p \in InCurrent /\ w = objs[p].fields[f] /\ t = <<objs[p].id, f, IdOf(w)'>>
    BY <1>3, <1>5, <2>2
  <2>4. IdOf(w)' = IdOf(w)
    BY <1>7, <1>8, <2>2, <2>3
  <2> QED BY <1>6, <2>2, <2>3, <2>4, HeapMembers DEF Members
<1>11. PICK S : S = {objs[p].id : p \in InCurrent}
  OBVIOUS
<1>12. S \in SUBSET Ids
  BY <1>2, <1>3, <1>11 DEF TypeOK, Objects
<1>13. ASSUME NEW p \in Places, objs[p].id \in S PROVE p \in InCurrent
  <2>1. PICK q \in InCurrent : objs[q].id = objs[p].id
    BY <1>11, <1>13
  <2>2. q \in DOMAIN objs /\ p \in DOMAIN objs /\ p \notin DOMAIN records /\ q \notin DOMAIN records
    BY <1>3, <1>4, <1>5
  <2>3. p = q
    BY <1>2, <2>1, <2>2 DEF Named
  <2> QED BY <2>3
<1>14. Heap!Closed(HeapNow, S)
  <2>1. ASSUME NEW r \in HeapNow.roots PROVE r[3] \in S
    <3>1. PICK m \in Mutators, s \in Slots : \E w : w = roots[m][s] /\ w # Null /\ r = <<m, s, IdOf(w)>>
      BY HeapMembers DEF Members
    <3>2. PICK w : w = roots[m][s] /\ w # Null /\ r = <<m, s, IdOf(w)>>
      BY <3>1
    <3>3. w \in InCurrent /\ IdOf(w) = objs[w].id
      BY <1>7, <1>8, <3>2
    <3> QED BY <1>11, <3>2, <3>3
  <2>2. ASSUME NEW e \in HeapNow.edges, e[1] \in S PROVE e[3] \in S
    <3>1. PICK p \in Places, f \in Fields :
            \E w : w = objs[p].fields[f] /\ w # Null /\ e = <<objs[p].id, f, IdOf(w)>>
      BY HeapMembers DEF Members
    <3>2. PICK w : w = objs[p].fields[f] /\ w # Null /\ e = <<objs[p].id, f, IdOf(w)>>
      BY <3>1
    <3>3. p \in InCurrent
      BY <1>13, <2>2, <3>2
    <3>4. w \in InCurrent /\ IdOf(w) = objs[w].id
      BY <1>7, <1>8, <3>2, <3>3
    <3> QED BY <1>11, <3>2, <3>4
  <2> QED BY <2>1, <2>2 DEF Heap!Closed
<1>15. Heap!Reach(HeapNow) \subseteq S
  BY <1>12, <1>14, ReachWithin
<1>16. ASSUME NEW e \in HeapNow.edges, e \notin HeapNow'.edges PROVE e[1] \notin Heap!Reach(HeapNow)
  <2>1. PICK p \in Places, f \in Fields :
          \E w : w = objs[p].fields[f] /\ w # Null /\ e = <<objs[p].id, f, IdOf(w)>>
    BY HeapMembers DEF Members
  <2>2. PICK w : w = objs[p].fields[f] /\ w # Null /\ e = <<objs[p].id, f, IdOf(w)>>
    BY <2>1
  <2>3. p \notin InCurrent
    <3> SUFFICES ASSUME p \in InCurrent PROVE FALSE
      OBVIOUS
    <3>1. p \in Places' /\ w = objs'[p].fields[f] /\ objs'[p].id = objs[p].id
      BY <1>3, <1>5, <2>2
    <3>2. IdOf(w)' = IdOf(w)
      BY <1>7, <1>8, <2>2
    <3>3. e \in HeapNow'.edges
      BY <2>2, <3>1, <3>2, HeapMembersNext
    <3> QED BY <1>16, <3>3
  <2>4. objs[p].id \notin S
    BY <1>13, <2>3
  <2> QED BY <1>15, <2>2, <2>4
<1> QED BY <1>9, <1>10, <1>16 DEF Heap!Forget

\* The steps that only the collector and the controller notice.
LEMMA QuietRefines ==
  ASSUME \/ UNCHANGED vars \/ StartCycle \/ Flush \/ Step1 \/ MarkDone \/ Step3Panics \/ Step5
         \/ \E p \in Pointers : SkipMarked(p)
         \/ \E f \in Fields : ScanField(f)
         \/ \E k \in 1 .. NrPages : CopyPagePanics(k)
         \/ \E m \in Mutators : AllocFromStalePage(m) \/ AllocFails(m) \/ RequestCycle(m) \/ GiveUp(m)
  PROVE  HeapNow' = HeapNow
<1>1. UNCHANGED <<objs, records>>
  BY UnmovedSteps
<1>2. roots' = roots
  <2>1. CASE UNCHANGED vars \/ StartCycle \/ Flush \/ Step1 \/ MarkDone \/ Step3Panics \/ Step5
    BY <2>1 DEF vars, StartCycle, Flush, Step1, MarkDone, Step3Panics, Step5, mutvars
  <2>2. CASE \/ \E p \in Pointers : SkipMarked(p)
             \/ \E f \in Fields : ScanField(f)
             \/ \E k \in 1 .. NrPages : CopyPagePanics(k)
    BY <2>2 DEF SkipMarked, ScanField, CopyPagePanics, mutvars
  <2>3. CASE \E m \in Mutators : AllocFromStalePage(m) \/ AllocFails(m) \/ RequestCycle(m) \/ GiveUp(m)
    BY <2>3 DEF AllocFromStalePage, AllocFails, RequestCycle, GiveUp, mutvars
  <2> QED BY <2>1, <2>2, <2>3
<1> QED BY <1>1, <1>2 DEF HeapNow, IdOf, Places

\* The empty memory is the empty heap.
LEMMA InitRefines == Init => Heap!Init
<1> SUFFICES ASSUME Init PROVE HeapNow = [roots |-> {}, edges |-> {}]
  BY DEF Heap!Init
<1>1. HeapNow.roots = {}
  <2>1. \A m \in Mutators, s \in Slots : roots[m][s] = Null
    BY DEF Init
  <2> QED BY <2>1, HeapMembers DEF Members
<1>2. HeapNow.edges = {}
  <2>1. Places = {}
    BY DEF Init, Places, Empty
  <2> QED BY <2>1, HeapMembers DEF Members
<1> QED BY <1>1, <1>2, HeapMembers DEF Members

\* Names are unique and known at the start.
LEMMA InitHInv == Init => HInv
<1> SUFFICES ASSUME Init PROVE Named /\ Known
  BY InitIInv DEF HInv
<1>1. DOMAIN objs = {}
  BY DEF Init, Empty
<1> QED BY <1>1 DEF Named, Known

\* Every step is a step of the abstract heap, or none.
LEMMA StepRefines == HInv /\ IInv' /\ [Next]_vars => [Heap!Next]_HeapNow
<1> SUFFICES ASSUME HInv, IInv', [Next]_vars PROVE [Heap!Next]_HeapNow
  OBVIOUS
<1>1. ASSUME NEW m \in Mutators, NEW s \in Slots, Alloc(m, s) PROVE [Heap!Next]_HeapNow
  BY <1>1, AllocRefines, HeapStep
<1>2. ASSUME NEW m \in Mutators, NEW s \in SlotsOf[m], s \in Slots, DropRoot(m, s) PROVE [Heap!Next]_HeapNow
  <2>1. UNCHANGED <<objs, records>>
    BY <1>2, UnmovedSteps
  <2> QED BY <1>2, <2>1, DropRefines, HeapStep
<1>3. ASSUME NEW m \in Mutators, NEW s \in SlotsOf[m], s \in Slots, NEW f \in Fields,
             NEW r \in SlotsOf[m], r \in Slots, LoadField(m, s, f, r)
      PROVE  [Heap!Next]_HeapNow
  <2>1. UNCHANGED <<objs, records>>
    BY <1>3, UnmovedSteps
  <2> QED BY <1>3, <2>1, LoadRefines, HeapStep
<1>4. ASSUME NEW m \in Mutators, NEW s \in Slots, NEW f \in Fields, NEW r \in Slots, StoreField(m, s, f, r)
      PROVE  [Heap!Next]_HeapNow
  BY <1>4, StoreRefines, HeapStep
<1>5. ASSUME NEW p \in Pointers, MarkObject(p) PROVE [Heap!Next]_HeapNow
  BY <1>5, MarkRefines
<1>6. CASE Step3
  <2>1. UNCHANGED <<objs, records>>
    BY <1>6, UnmovedSteps
  <2> QED BY <1>6, <2>1, Step3Refines
<1>7. ASSUME NEW k \in 1 .. NrPages, CopyPage(k) PROVE [Heap!Next]_HeapNow
  BY <1>7, CopyRefines
<1>8. CASE Step4
  BY <1>8, Step4Refines, HeapStep
<1>9. CASE \/ UNCHANGED vars \/ StartCycle \/ Flush \/ Step1 \/ MarkDone \/ Step3Panics \/ Step5
           \/ \E p \in Pointers : SkipMarked(p)
           \/ \E f \in Fields : ScanField(f)
           \/ \E k \in 1 .. NrPages : CopyPagePanics(k)
           \/ \E m \in Mutators : AllocFromStalePage(m) \/ AllocFails(m) \/ RequestCycle(m) \/ GiveUp(m)
  BY <1>9, QuietRefines
<1> QED
  <2>1. \A m \in Mutators : \A s \in SlotsOf[m] : s \in Slots
    BY SlotsAssumption
  <2> QED BY <1>1, <1>2, <1>3, <1>4, <1>5, <1>6, <1>7, <1>8, <1>9, <2>1 DEF Next, MutatorStep, CollectorStep

\* Moving is invisible: whatever the mutators and a cycle do, in any order, what
\* the slots and the fields refer to changes as in a heap whose objects never
\* move and are forgotten only when no slot leads to them (gc.rs: do_cycle;
\* marker.rs: start; copier.rs: do_relocate).
THEOREM MovingIsInvisible == Spec => ImplementsHeap
<1>1. Init => HInv /\ Heap!Init
  BY InitHInv, InitRefines
<1>2. HInv /\ [Next]_vars => HInv' /\ [Heap!Next]_HeapNow
  BY StepIInv, StepHInv, StepRefines DEF HInv
<1> QED BY <1>1, <1>2, PTL DEF Spec, ImplementsHeap, Heap!Spec

=============================================================================
