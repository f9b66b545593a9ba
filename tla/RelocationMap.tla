--------------------------- MODULE RelocationMap ----------------------------
(***************************************************************************)
(* The registry of relocation records (uwugc/src/gc/relocation_map.rs):    *)
(* a sequence of records is searched for the ones in a range of source or  *)
(* destination addresses.  by is "src" or "dest".                          *)
(***************************************************************************)
EXTENDS Naturals, Sequences, FiniteSets

Contains(rec, by, a) == rec[by] <= a /\ a < rec[by] + rec.size

\* RegistryBuilder::new.
NoRecords == <<>>

\* insert pushes the record on both vectors, which are equal until freeze; the
\* bounds it keeps beside them (starting_*, latest_free_*) are never read.
Insert(seq, src, dest, size) == Append(seq, [src |-> src, dest |-> dest, size |-> size])

\* The probe of the search: how a record compares with an address.
Compare(rec, by, a) ==
  IF Contains(rec, by, a) THEN "Equal"
  ELSE IF rec[by] + rec.size <= a THEN "Less"
  ELSE "Greater"

\* slice::binary_search_by of the standard library: a window of the sequence is
\* halved until it has one record.
Windows(seq) ==
  {w \in [size : DOMAIN seq, base : DOMAIN seq] : w.base + w.size <= Len(seq) + 1}

Halved(seq, by, a, w) ==
  LET half == w.size \div 2
      mid == w.base + half
  IN  [size |-> w.size - half,
       base |-> IF Compare(seq[mid], by, a) = "Greater" THEN w.base ELSE mid]

Position(seq, by, a) ==
  LET search[w \in Windows(seq)] ==
        IF w.size = 1 THEN w.base ELSE search[Halved(seq, by, a, w)]
  IN  search[[size |-> Len(seq), base |-> 1]]

Found(seq, by, a) == seq # <<>> /\ Compare(seq[Position(seq, by, a)], by, a) = "Equal"

\* (mutant) the last record in the range is left out.
InRangeButLast(seq, by, from, to) ==
  LET pos == Position(seq, by, from)
      last == {i \in pos .. Len(seq) - 1 : \A j \in pos .. i + 1 : seq[j][by] < to}
  IN  IF Found(seq, by, from) THEN {seq[i] : i \in last} ELSE {}

\* iterate_records_in_range_by: from the record with the start of the range on,
\* while records start before its end.
InRange(seq, by, from, to) ==
  LET pos == Position(seq, by, from)
      last == {i \in pos .. Len(seq) : \A j \in pos .. i : seq[j][by] < to}
  IN  IF Found(seq, by, from) THEN {seq[i] : i \in last} ELSE {}

\* Where source address a is moved to, or no address.
MapSrcToDest(seq, a) ==
  {rec.dest + (a - rec.src) : rec \in InRange(seq, "src", a, a + 1)}

\* freeze sorts by source only, and stably: Rank is where a record goes.
Rank(seq, i) ==
  Cardinality({j \in DOMAIN seq :
    seq[j].src < seq[i].src \/ (seq[j].src = seq[i].src /\ j <= i)})

SortedBySrc(seq) == [k \in DOMAIN seq |-> seq[CHOOSE i \in DOMAIN seq : Rank(seq, i) = k]]

=============================================================================
