----------------------------- MODULE PageTable ------------------------------
(***************************************************************************)
(* Allocation in a space (uwugc/src/mm): base pages are handed out in      *)
(* order, as flex pages of one kind; small objects are bumped from a page  *)
(* of the context, medium ones from a page of the table, and a huge object *)
(* has a flex page of its own.  Addresses are offsets into the space, and  *)
(* a flex page is named by its first base page.                            *)
(***************************************************************************)
EXTENDS Naturals

CONSTANTS
  NrPages,      (* base pages of a space *)
  PageSize,     (* bytes of a base page (BASE_PAGE_SIZE) *)
  SmallMax,     (* objects of this size are not small (max_object_size) *)
  MediumMax,    (* objects of this size are not medium *)
  MediumPages,  (* base pages of a medium flex page *)
  None

BasePages == 0 .. NrPages - 1
FlexPage == [nr_pages : Nat \ {0}, used : Nat]

ASSUME PageAssumption ==
  /\ {NrPages, PageSize, SmallMax, MediumMax, MediumPages} \subseteq Nat \ {0}
  /\ SmallMax < MediumMax
  /\ SmallMax <= PageSize /\ MediumMax <= MediumPages * PageSize
  /\ None \notin Nat \cup FlexPage

PageTables ==
  [current_base_page : Nat, pages : [BasePages -> FlexPage \cup {None}],
   medium_buffer : BasePages \cup {None}]

EmptyTable ==
  [current_base_page |-> 0, pages |-> [p \in BasePages |-> None], medium_buffer |-> None]

Start(p) == p * PageSize
End(t, p) == Start(p) + t.pages[p].nr_pages * PageSize
Free(t, p) == t.pages[p].nr_pages * PageSize - t.pages[p].used

Small(size) == size < SmallMax
Medium(size) == ~Small(size) /\ size < MediumMax

\* Base pages of a flex page for an object; for a huge one, size.div_ceil.
PagesFor(size) ==
  IF Small(size) THEN 1
  ELSE IF Medium(size) THEN MediumPages
  ELSE (size + PageSize - 1) \div PageSize

\* The page an object is bumped from if there is room in it.
Buffer(t, local, size) ==
  IF Small(size) THEN local ELSE IF Medium(size) THEN t.medium_buffer ELSE None

\* A small object never fills a page to its end.
Full(t, p, size) == IF Small(size) THEN Free(t, p) <= size ELSE Free(t, p) < size

NeedsPage(t, local, size) ==
  LET p == Buffer(t, local, size) IN p = None \/ Full(t, p, size)

\* (mutant) only the first base page of a new flex page has to be in the space.
SucceedsByStart(t, local, size) ==
  NeedsPage(t, local, size) => t.current_base_page < NrPages

\* The allocation does not return None, which would leave everything as it is.
Succeeds(t, local, size) ==
  NeedsPage(t, local, size) => t.current_base_page + PagesFor(size) <= NrPages

PageOf(t, local, size) ==
  IF NeedsPage(t, local, size) THEN t.current_base_page ELSE Buffer(t, local, size)

\* (mutant) a flex page takes one base page, whatever its kind.
WithOnePage(t, n) ==
  [t EXCEPT !.current_base_page = @ + 1,
            !.pages[t.current_base_page] = [nr_pages |-> n, used |-> 0]]

\* alloc_page.
WithPage(t, n) ==
  [t EXCEPT !.current_base_page = @ + n,
            !.pages[t.current_base_page] = [nr_pages |-> n, used |-> 0]]

Prepared(t, local, size) ==
  IF NeedsPage(t, local, size) THEN WithPage(t, PagesFor(size)) ELSE t

Address(t, local, size) ==
  LET p == PageOf(t, local, size) IN Start(p) + Prepared(t, local, size).pages[p].used

\* The page table and the context's page after an allocation that succeeds.
TableAfter(t, local, size) ==
  LET p == PageOf(t, local, size) IN
  [Prepared(t, local, size) EXCEPT
     !.pages[p].used = @ + size,
     !.medium_buffer = IF Medium(size) THEN p ELSE @]

LocalAfter(t, local, size) == IF Small(size) THEN PageOf(t, local, size) ELSE local

\* resolve_to_page: the last flex page that starts at or before the base
\* page of the address, if it reaches as far.
ResolveToPage(t, addr) ==
  LET id == addr \div PageSize
      before == {p \in BasePages : p <= id /\ t.pages[p] # None}
  IN  IF id >= t.current_base_page \/ before = {} THEN None
      ELSE LET p == CHOOSE q \in before : \A r \in before : r <= q
           IN  IF addr < End(t, p) THEN p ELSE None

=============================================================================
