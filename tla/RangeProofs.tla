---------------------------- MODULE RangeProofs ----------------------------
(***************************************************************************)
(* For address spaces of any size: the mapped ranges stay disjoint, and    *)
(* mmap without MAP_FIXED never replaces a mapping.  add_range is taken    *)
(* apart into its stages; each stage keeps the ranges apart (Apart) and    *)
(* says where its ranges lie.                                              *)
(***************************************************************************)
EXTENDS Pagemap, TLAPS

RangeType ==
  [base : Nat, end : Nat, type : {"ANONYMOUS", "FILE", "DIRECT_VIRTUAL"},
   flags : Prots \cup {"w"}, pages : SUBSET Frames, original_base : Nat, offset : Int]

Apart(R) ==
  /\ R \subseteq RangeType
  /\ \A r \in R : r.base < r.end
  /\ \A r, s \in R : r # s => r.end <= s.base \/ s.end <= r.base

PteOK(pte) ==
  \A v \in Pages : pte[v] # Null =>
    DOMAIN pte[v] = {"frame", "flags"} /\ pte[v].frame \in Frames

IsState(s) == s = [ranges |-> s.ranges, pte |-> s.pte, free |-> s.free]

StateOK(s) == IsState(s) /\ Apart(s.ranges) /\ PteOK(s.pte) /\ s.free \subseteq Frames

\* Every range of S lies where a range of R lies.
Within(S, R) == \A x \in S : \E r \in R : x.base = r.base /\ x.end = r.end

\* What a page table shows are physical pages.
LEMMA MappedFrames ==
  ASSUME NEW s, PteOK(s.pte), NEW lo, NEW hi
  PROVE  Mapped(s, lo, hi) \subseteq Frames
BY Zenon DEF PteOK, Mapped, Span

\* Changing ranges where they are keeps them apart.
LEMMA InPlace ==
  ASSUME NEW R, Apart(R), NEW g \in [R -> RangeType],
         \A r \in R : g[r].base = r.base /\ g[r].end = r.end,
         NEW S, S = {g[r] : r \in R}
  PROVE  Apart(S) /\ Within(S, R)
<1>1. Within(S, R)
  BY DEF Within
<1>2. S \subseteq RangeType
  BY Zenon
<1>3. \A x \in S : x.base < x.end
  BY DEF Apart
<1>4. ASSUME NEW x \in S, NEW y \in S, x # y
      PROVE  x.end <= y.base \/ y.end <= x.base
  <2>1. PICK r \in R : x = g[r]
    BY Zenon
  <2>2. PICK q \in R : y = g[q]
    BY Zenon
  <2>3. r # q
    BY <2>1, <2>2, <1>4, Zenon
  <2> QED
    BY <2>1, <2>2, <2>3 DEF Apart
<1> QED
  BY <1>1, <1>2, <1>3, <1>4, Zenon DEF Apart

\* invalidate_pages with a range.
LEMMA MovePages ==
  ASSUME NEW s, StateOK(s), NEW lo, NEW hi, NEW base,
         NEW t, t = move_pages(s, lo, hi, base)
  PROVE  StateOK(t) /\ Within(t.ranges, s.ranges)
<1> DEFINE F == Mapped(s, lo, hi)
           target == CHOOSE r \in s.ranges : r.base = base
<1>1. F \subseteq Frames
  BY MappedFrames, Zenon DEF StateOK
<1>2. /\ t.ranges = {IF r = target THEN [r EXCEPT !.pages = @ \cup F]
                     ELSE [r EXCEPT !.pages = @ \ F] : r \in s.ranges}
      /\ t.pte = [v \in Pages |-> IF v \in Span(lo, hi) /\ s.pte[v] # Null
                    THEN [s.pte[v] EXCEPT !.flags = target.flags] ELSE s.pte[v]]
      /\ t.free = s.free
      /\ IsState(t)
  BY Zenon DEF move_pages, IsState
<1> HIDE DEF F, target
<1> DEFINE g == [r \in s.ranges |-> IF r = target THEN [r EXCEPT !.pages = @ \cup F]
                                   ELSE [r EXCEPT !.pages = @ \ F]]
<1>a. g \in [s.ranges -> RangeType]
  BY <1>1 DEF StateOK, Apart, RangeType
<1>b. \A r \in s.ranges : g[r].base = r.base /\ g[r].end = r.end
  BY Zenon DEF StateOK, Apart, RangeType
<1>c. t.ranges = {g[r] : r \in s.ranges}
  BY <1>2, Zenon
<1> HIDE DEF g
<1>3. Apart(t.ranges) /\ Within(t.ranges, s.ranges)
  BY <1>a, <1>b, <1>c, InPlace, Zenon DEF StateOK
<1>4. PteOK(t.pte)
  BY <1>2 DEF PteOK, StateOK
<1> QED
  BY <1>2, <1>3, <1>4, Zenon DEF StateOK

\* invalidate_pages without a range.
LEMMA UnmapPages ==
  ASSUME NEW s, StateOK(s), NEW lo, NEW hi,
         NEW t, t = unmap_pages(s, lo, hi)
  PROVE  StateOK(t) /\ Within(t.ranges, s.ranges)
<1> DEFINE F == Mapped(s, lo, hi)
<1>1. F \subseteq Frames
  BY MappedFrames, Zenon DEF StateOK
<1>2. /\ t.ranges = {[r EXCEPT !.pages = @ \ F] : r \in s.ranges}
      /\ t.pte = [v \in Pages |-> IF v \in Span(lo, hi) THEN Null ELSE s.pte[v]]
      /\ t.free = s.free \cup F
      /\ IsState(t)
  BY Zenon DEF unmap_pages, IsState
<1> HIDE DEF F
<1> DEFINE g == [r \in s.ranges |-> [r EXCEPT !.pages = @ \ F]]
<1>3. g \in [s.ranges -> RangeType]
  BY <1>1 DEF StateOK, Apart, RangeType
<1>4. \A r \in s.ranges : g[r].base = r.base /\ g[r].end = r.end
  BY Zenon DEF StateOK, Apart, RangeType
<1>c. t.ranges = {g[r] : r \in s.ranges}
  BY <1>2, Zenon
<1> HIDE DEF g
<1>5. Apart(t.ranges) /\ Within(t.ranges, s.ranges)
  BY <1>3, <1>4, <1>c, InPlace, Zenon DEF StateOK
<1>6. PteOK(t.pte)
  BY <1>2, Zenon DEF PteOK, StateOK
<1> QED
  BY <1>1, <1>2, <1>5, <1>6, Zenon DEF StateOK

\* What is left of a range lies inside it and outside b..e.
LEMMA RemainsInside ==
  ASSUME NEW r \in RangeType, r.base < r.end, NEW b \in Nat, NEW e \in Nat, b < e,
         NEW x \in Remains(r, b, e)
  PROVE  /\ x \in RangeType /\ x.base < x.end
         /\ r.base <= x.base /\ x.end <= r.end
         /\ x.end <= b \/ e <= x.base
<1>1. CASE ~Overlaps(r, b, e)
  BY <1>1 DEF Remains, Overlaps, RangeType
<1>2. CASE Overlaps(r, b, e)
  <2>1. CASE r.base < b /\ x = [r EXCEPT !.end = b]
    BY <1>2, <2>1 DEF Overlaps, RangeType
  <2>2. CASE e < r.end /\ b <= r.base /\ x = [r EXCEPT !.base = e]
    BY <1>2, <2>2 DEF Overlaps, RangeType
  <2>3. CASE /\ e < r.end /\ r.base < b
             /\ x = NewRange(e, r.end, r.flags, r.type, r.offset + (e - r.base))
    BY <1>2, <2>3 DEF Overlaps, RangeType, NewRange
  <2> QED
    BY <1>2, <2>1, <2>2, <2>3 DEF Remains, RangeType
<1> QED
  BY <1>1, <1>2, Zenon

\* The two parts that add_range leaves of one range lie apart.
LEMMA RemainsApart ==
  ASSUME NEW r \in RangeType, r.base < r.end, NEW b \in Nat, NEW e \in Nat, b < e,
         NEW x \in Remains(r, b, e), NEW y \in Remains(r, b, e), x # y
  PROVE  x.end <= y.base \/ y.end <= x.base
<1>1. CASE ~Overlaps(r, b, e)
  BY <1>1, Zenon DEF Remains
<1>2. CASE Overlaps(r, b, e)
  <2> DEFINE low == [r EXCEPT !.end = b]
             high == [r EXCEPT !.base = e]
             new == NewRange(e, r.end, r.flags, r.type, r.offset + (e - r.base))
  <2>1. low.end = b /\ high.base = e /\ new.base = e
    BY Zenon DEF RangeType, NewRange
  <2>2. (x = low /\ y \in {high, new}) \/ (y = low /\ x \in {high, new})
    BY <1>2, Zenon DEF Remains, RangeType
  <2> HIDE DEF low, high, new
  <2> QED
    BY <2>1, <2>2
<1> QED
  BY <1>1, <1>2, Zenon

\* The overlap loop leaves b..e free and the other pages where they were.
LEMMA Cut ==
  ASSUME NEW R, Apart(R), NEW b \in Nat, NEW e \in Nat, b < e,
         NEW S, \A x \in S : \E r \in R : x \in Remains(r, b, e)
  PROVE  /\ Apart(S)
         /\ \A x \in S : x.end <= b \/ e <= x.base
         /\ \A x \in S : \E r \in R : x.end <= r.end
<1>2. ASSUME NEW x \in S
      PROVE  /\ x \in RangeType /\ x.base < x.end
             /\ x.end <= b \/ e <= x.base
             /\ \E r \in R : x.end <= r.end
  <2>1. PICK r \in R : x \in Remains(r, b, e)
    BY Zenon
  <2>2. r \in RangeType /\ r.base < r.end
    BY Zenon DEF Apart
  <2> QED
    BY <2>1, <2>2, RemainsInside, Zenon
<1>3. ASSUME NEW x \in S, NEW y \in S, x # y
      PROVE  x.end <= y.base \/ y.end <= x.base
  <2>1. PICK r \in R : x \in Remains(r, b, e)
    BY Zenon
  <2>2. PICK q \in R : y \in Remains(q, b, e)
    BY Zenon
  <2>3. /\ r \in RangeType /\ r.base < r.end
        /\ q \in RangeType /\ q.base < q.end
    BY Zenon DEF Apart
  <2>4. CASE r = q
    BY <1>3, <2>1, <2>2, <2>3, <2>4, RemainsApart, Zenon
  <2>5. CASE r # q
    <3>1. r.end <= q.base \/ q.end <= r.base
      BY <2>5, Zenon DEF Apart
    <3>2. r.base <= x.base /\ x.end <= r.end /\ x \in RangeType
      BY <2>1, <2>3, RemainsInside, Zenon
    <3>3. q.base <= y.base /\ y.end <= q.end /\ y \in RangeType
      BY <2>2, <2>3, RemainsInside, Zenon
    <3> QED
      BY <2>3, <3>1, <3>2, <3>3 DEF RangeType
  <2> QED
    BY <2>4, <2>5, Zenon
<1> QED
  BY <1>2, <1>3, Zenon DEF Apart

\* The overlap loop with the move of a split range's pages.
LEMMA ResolveOverlap ==
  ASSUME NEW s, StateOK(s), NEW b \in Nat, NEW e \in Nat, b < e,
         NEW t, t = resolve_overlap(s, b, e)
  PROVE  /\ StateOK(t)
         /\ \A x \in t.ranges : x.end <= b \/ e <= x.base
         /\ \A x \in t.ranges : \E r \in s.ranges : x.end <= r.end
<1> DEFINE covered == {r \in s.ranges : Overlaps(r, b, e) /\ Covered(r, b, e)}
           split == {r \in s.ranges : r.base < b /\ e < r.end}
           gone == UNION {Span(r.base, r.end) : r \in covered}
           dead == {s.pte[v].frame : v \in {x \in gone : s.pte[x] # Null}}
                     \cup UNION {r.pages : r \in covered}
           cut == [ranges |-> UNION {Remains(r, b, e) : r \in s.ranges \ covered},
                   pte |-> [v \in Pages |-> IF v \in gone THEN Null ELSE s.pte[v]],
                   free |-> s.free \cup dead]
           top == (CHOOSE x \in split : TRUE).end
<1>1. t = IF split = {} THEN cut ELSE move_pages(cut, e, top, e)
  BY Zenon DEF resolve_overlap
<1>2. IsState(cut) /\ PteOK(cut.pte)
  BY Zenon DEF IsState, PteOK, StateOK
<1>3. \A x \in cut.ranges : \E r \in s.ranges : x \in Remains(r, b, e)
  BY Zenon
<1>8. cut.free \subseteq Frames
  <2>1. \A r \in s.ranges : r.pages \subseteq Frames
    BY Zenon DEF StateOK, Apart, RangeType
  <2>2. \A v \in gone : s.pte[v] # Null => s.pte[v].frame \in Frames
    BY Zenon DEF StateOK, PteOK, Span
  <2>3. dead \subseteq Frames
    BY <2>1, <2>2, Zenon
  <2> QED
    BY <2>3, Zenon DEF StateOK
<1> HIDE DEF covered, split, gone, dead, cut, top
<1>4. /\ Apart(cut.ranges)
      /\ \A x \in cut.ranges : x.end <= b \/ e <= x.base
      /\ \A x \in cut.ranges : \E r \in s.ranges : x.end <= r.end
  BY <1>3, Cut, Zenon DEF StateOK
<1>5. StateOK(cut)
  BY <1>2, <1>4, <1>8, Zenon DEF StateOK
<1>6. CASE t = cut
  BY <1>4, <1>5, <1>6, Zenon
<1>7. CASE t = move_pages(cut, e, top, e)
  <2>1. StateOK(t) /\ Within(t.ranges, cut.ranges)
    BY <1>5, <1>7, MovePages, Zenon
  <2> QED
    BY <2>1, <1>4, Zenon DEF Within
<1> QED
  BY <1>1, <1>6, <1>7, Zenon

\* A range that keeps clear of all others takes the place of some of them.
LEMMA PutRange ==
  ASSUME NEW s, StateOK(s), NEW old, NEW new \in RangeType, new.base < new.end,
         \A x \in s.ranges \ old : x.end <= new.base \/ new.end <= x.base,
         NEW b, NEW e, NEW h, NEW t, t = put_range(s, old, new, b, e, h)
  PROVE  /\ StateOK(t)
         /\ \A x \in t.ranges : x.end = new.end \/ \E r \in s.ranges : x.end = r.end
<1> DEFINE with == [s EXCEPT !.ranges = (s.ranges \ old) \cup {new}]
<1>1. t = IF h THEN move_pages(with, b, e, new.base) ELSE with
  BY Zenon DEF put_range
<1>2. with = [ranges |-> (s.ranges \ old) \cup {new}, pte |-> s.pte, free |-> s.free]
  BY DEF StateOK, IsState
<1>3. /\ with.ranges = (s.ranges \ old) \cup {new} /\ with.pte = s.pte
      /\ with.free = s.free /\ IsState(with)
  BY <1>2, Zenon DEF IsState
<1> HIDE DEF with
<1>4. Apart(with.ranges)
  BY <1>3, Zenon DEF Apart, StateOK
<1>5. StateOK(with)
  BY <1>3, <1>4, Zenon DEF StateOK
<1>6. \A x \in with.ranges : x.end = new.end \/ \E r \in s.ranges : x.end = r.end
  BY <1>3, Zenon
<1>7. CASE t = with
  BY <1>5, <1>6, <1>7, Zenon
<1>8. CASE t = move_pages(with, b, e, new.base)
  <2>1. StateOK(t) /\ Within(t.ranges, with.ranges)
    BY <1>5, <1>8, MovePages, Zenon
  <2> QED
    BY <2>1, <1>6 DEF Within
<1> QED
  BY <1>1, <1>7, <1>8, Zenon

\* The range that add_range merges into is one of the neighbours.
LEMMA FirstIsNear ==
  ASSUME NEW near, near # {}, NEW b, NEW prefer
  PROVE  First(near, b, prefer) \in near
BY Zenon DEF First

\* add_range keeps the ranges apart, ends no range beyond the old ones and e, and
\* with type NONE leaves b..e free.
LEMMA AddRange ==
  ASSUME NEW s, StateOK(s), NEW b \in Nat, NEW e \in Nat, b < e,
         NEW type \in {"ANONYMOUS", "FILE", "DIRECT_VIRTUAL", "NONE"},
         NEW flags, type # "NONE" => flags \in Prots \cup {"w"},
         NEW offset \in Int, NEW merge, NEW keep, type = "NONE" => ~keep, NEW prefer,
         NEW t, t = add_range(s, b, e, flags, type, offset, merge, keep, prefer)
  PROVE  /\ StateOK(t)
         /\ \A x \in t.ranges :
              (type # "NONE" /\ x.end <= e) \/ \E r \in s.ranges : x.end <= r.end
         /\ type = "NONE" => \A x \in t.ranges : x.end <= b \/ e <= x.base
<1> DEFINE same == {r \in s.ranges : r.base = b /\ r.end = e /\ r.type = type}
           u == resolve_overlap(s, b, e)
           near == Neighbours(u, b, e, flags)
           r1 == First(near, b, prefer)
           h == \E r \in s.ranges : Overlaps(r, b, e)
           x1 == CHOOSE x \in same : TRUE
<1>1. /\ StateOK(u)
      /\ \A x \in u.ranges : x.end <= b \/ e <= x.base
      /\ \A x \in u.ranges : \E r \in s.ranges : x.end <= r.end
  BY ResolveOverlap, Zenon
<1>2. t = IF keep /\ same # {} THEN set_flags(s, x1, flags)
          ELSE IF type = "NONE" THEN unmap_pages(u, b, e)
          ELSE IF merge /\ type = "ANONYMOUS" /\ near # {}
          THEN put_range(u, {r1}, grow(r1, b, e), b, e, h)
          ELSE put_range(u, {}, NewRange(b, e, flags, type, offset), b, e, h)
  BY Zenon DEF add_range
<1>3. near # {} => /\ r1 \in u.ranges
                   /\ r1.end = b \/ r1.base = e
  <2> HIDE DEF u
  <2>1. \A r \in near : r \in u.ranges /\ (r.end = b \/ r.base = e)
    BY Zenon DEF Neighbours
  <2> HIDE DEF near
  <2>2. near # {} => r1 \in near
    BY FirstIsNear, Zenon
  <2> QED BY <2>1, <2>2, Zenon
<1>4. same # {} => x1 \in s.ranges /\ x1.end = e
  BY Zenon
<1> HIDE DEF same, u, near, r1, h, x1
<1>5. CASE keep /\ same # {}
  <2> DEFINE new == [x1 EXCEPT !.flags = flags]
             old == {x1}
             yes == TRUE
  <2>1. x1 \in RangeType /\ x1 \in s.ranges
    BY <1>4, <1>5, Zenon DEF StateOK, Apart
  <2>2. new \in RangeType /\ new.base = x1.base /\ new.end = x1.end
    BY <1>5, <2>1, Zenon DEF RangeType
  <2>3. \A x \in s.ranges \ old : x.end <= new.base \/ new.end <= x.base
    BY <2>1, <2>2, Zenon DEF StateOK, Apart
  <2>4. t = put_range(s, old, new, x1.base, x1.end, yes)
    BY <1>2, <1>5, Zenon DEF set_flags
  <2>5. new.base < new.end
    BY <2>1, <2>2, Zenon DEF StateOK, Apart
  <2> HIDE DEF new, old, yes
  <2>6. /\ StateOK(t)
        /\ \A x \in t.ranges : x.end = new.end \/ \E r \in s.ranges : x.end = r.end
    BY ONLY StateOK(s), <2>2, <2>3, <2>4, <2>5, PutRange
  <2>7. \A x \in t.ranges : x.end \in Nat
    BY <2>6, Zenon DEF StateOK, Apart, RangeType
  <2>8. type # "NONE"
    BY <1>5, Zenon
  <2>9. x1.end = e
    BY <1>4, <1>5, Zenon
  <2>10. \A x \in t.ranges : x.end <= e \/ \E r \in s.ranges : x.end <= r.end
    BY <2>2, <2>6, <2>7, <2>9
  <2> QED
    BY <2>6, <2>8, <2>10, Zenon
<1>6. CASE ~(keep /\ same # {}) /\ type = "NONE"
  <2>1. StateOK(t) /\ Within(t.ranges, u.ranges)
    BY <1>1, <1>2, <1>6, UnmapPages, Zenon
  <2> QED
    BY <1>1, <1>6, <2>1, Zenon DEF Within
<1>7. CASE /\ ~(keep /\ same # {}) /\ type # "NONE"
           /\ merge /\ type = "ANONYMOUS" /\ near # {}
  <2> DEFINE new == grow(r1, b, e)
             old == {r1}
  <2>1. r1 \in RangeType /\ r1 \in u.ranges /\ r1.base < r1.end
    BY <1>1, <1>3, <1>7, Zenon DEF StateOK, Apart
  <2>2. /\ new \in RangeType
        /\ new.base = IF r1.end = b THEN r1.base ELSE b
        /\ new.end = IF r1.end = b THEN e ELSE r1.end
    BY <2>1, Zenon DEF grow, RangeType
  <2>3. ASSUME NEW x \in u.ranges \ old
        PROVE  x.end <= new.base \/ new.end <= x.base
    <3>1. /\ x.end <= b \/ e <= x.base
          /\ x.end <= r1.base \/ r1.end <= x.base
          /\ x.base < x.end /\ x \in RangeType
      BY <1>1, <2>1, Zenon DEF StateOK, Apart
    <3>2. r1.end = b \/ r1.base = e
      BY <1>3, <1>7, Zenon
    <3> HIDE DEF new
    <3> QED
      BY <2>1, <2>2, <3>1, <3>2 DEF RangeType
  <2>4. t = put_range(u, old, new, b, e, h)
    BY <1>2, <1>7, Zenon
  <2>5. r1.end = b \/ r1.base = e
    BY <1>3, <1>7, Zenon
  <2> HIDE DEF new, old
  <2>6. new.base < new.end
    BY <2>1, <2>2, <2>5 DEF RangeType
  <2>7. /\ StateOK(t)
        /\ \A x \in t.ranges : x.end = new.end \/ \E r \in u.ranges : x.end = r.end
    <3>1. StateOK(u) /\ new \in RangeType
      BY <1>1, <2>2, Zenon
    <3>2. \A x \in u.ranges \ old : x.end <= new.base \/ new.end <= x.base
      BY <2>3, Zenon
    <3> QED
      BY ONLY <2>4, <2>6, <3>1, <3>2, PutRange
  <2>8. \A x \in t.ranges : x.end <= e \/ \E r \in u.ranges : x.end = r.end
    BY <2>1, <2>2, <2>7
  <2> QED
    BY <1>1, <1>7, <2>7, <2>8, Zenon
<1>8. CASE /\ ~(keep /\ same # {}) /\ type # "NONE"
           /\ ~(merge /\ type = "ANONYMOUS" /\ near # {})
  <2> DEFINE new == NewRange(b, e, flags, type, offset)
  <2>1. new \in RangeType /\ new.base = b /\ new.end = e
    BY <1>8 DEF NewRange, RangeType
  <2>2. t = put_range(u, {}, new, b, e, h)
    BY <1>2, <1>8, Zenon
  <2> HIDE DEF new
  <2>3. /\ StateOK(t)
        /\ \A x \in t.ranges : x.end = new.end \/ \E r \in u.ranges : x.end = r.end
    <3>1. StateOK(u) /\ new.base < new.end
      BY <1>1, <2>1, Zenon
    <3>2. \A x \in u.ranges \ {} : x.end <= new.base \/ new.end <= x.base
      BY <1>1, <2>1, Zenon
    <3> QED
      BY ONLY <2>1, <2>2, <3>1, <3>2, PutRange
  <2>4. \A x \in t.ranges : x.end <= e \/ \E r \in u.ranges : x.end = r.end
    BY <2>1, <2>3
  <2> QED
    BY <1>1, <1>8, <2>3, <2>4, Zenon
<1> QED
  BY <1>5, <1>6, <1>7, <1>8, Zenon

-----------------------------------------------------------------------------
\* The inductive invariant.
Inv ==
  /\ StateOK(m)
  /\ FreshMmapIsFree
  /\ anon_base \in Nat /\ MmapBase <= anon_base
  /\ brk \in 0..MmapBase
  /\ prot # Null => prot \in [cur : Nat, end : Nat, flags : Prots] /\ prot.cur < prot.end

\* A new pagemap has no ranges.
LEMMA InitInv == Init => Inv
<1> SUFFICES ASSUME Init PROVE Inv
  BY Zenon
<1>1. /\ m.ranges = {} /\ m.pte = [v \in Pages |-> Null]
      /\ IsState(m) /\ m.free \subseteq Frames
  BY Zenon DEF Init, IsState
<1>2. StateOK(m)
  BY <1>1, Zenon DEF StateOK, Apart, PteOK
<1>3. FreshMmapIsFree
  BY <1>1, Zenon DEF FreshMmapIsFree
<1> QED
  BY <1>2, <1>3, PagemapAssumption DEF Init, Inv

\* syscall_mmap keeps the invariant: mmap_anon_base is raised past the new range.
LEMMA MmapInv ==
  ASSUME Inv, NEW type \in Types, NEW fixed \in BOOLEAN, NEW base \in Pages,
         NEW len \in 1..NumPages, NEW offset \in Offsets, NEW flags \in Prots, NEW prefer,
         Mmap(type, fixed, base, len, offset, flags, prefer)
  PROVE  Inv'
<1> DEFINE b == IF fixed THEN base ELSE anon_base
           e == b + len
           merge == type = "ANONYMOUS"
           keep == type = "ANONYMOUS" /\ ~fixed
<1>1. b \in Nat /\ e \in Nat /\ b < e /\ offset \in Int
  BY PagemapAssumption DEF Inv, Pages
<1>2. type \in {"ANONYMOUS", "FILE", "DIRECT_VIRTUAL", "NONE"} /\ type # "NONE"
  BY PagemapAssumption, Zenon
<1>3. /\ m' = add_range(m, b, e, flags, type, offset, merge, keep, prefer)
      /\ anon_base' = IF e > anon_base THEN e ELSE anon_base
      /\ brk' = brk /\ prot' = prot
  BY Zenon DEF Mmap
<1> HIDE DEF b, e, merge, keep
<1>4. /\ StateOK(m')
      /\ \A x \in m'.ranges : x.end <= e \/ \E r \in m.ranges : x.end <= r.end
  BY <1>1, <1>2, <1>3, AddRange DEF Inv
<1>5. anon_base' \in Nat /\ e <= anon_base' /\ anon_base <= anon_base'
  BY <1>1, <1>3 DEF Inv
<1>6. \A x \in m'.ranges : x.end \in Nat
  BY <1>4, Zenon DEF StateOK, Apart, RangeType
<1>7. \A r \in m.ranges : r.end \in Nat
  BY Zenon DEF Inv, StateOK, Apart, RangeType
<1>8. FreshMmapIsFree'
  BY <1>1, <1>4, <1>5, <1>6, <1>7 DEF FreshMmapIsFree, Inv
<1> QED
  BY <1>3, <1>4, <1>5, <1>8, PagemapAssumption DEF Inv

\* syscall_munmap keeps the invariant: mmap_anon_base is lowered to a place that
\* the call itself has cleared.
LEMMA MunmapInv ==
  ASSUME Inv, NEW base \in Pages, NEW len \in 1..NumPages, Munmap(base, len)
  PROVE  Inv'
<1> DEFINE e == base + len
           no == FALSE
           none == "NONE"
           zero == 0
<1>1. base \in Nat /\ e \in Nat /\ base < e
  BY PagemapAssumption DEF Pages
<1>2. /\ m' = add_range(m, base, e, zero, none, zero, no, no, "below")
      /\ anon_base' = IF anon_base = e THEN base ELSE anon_base
      /\ brk' = brk /\ prot' = prot /\ MmapBase <= base
      /\ ~no /\ none = "NONE" /\ zero \in Int
  BY PagemapAssumption DEF Munmap, Lowered, Pages
<1> HIDE DEF e, no, none, zero
<1>3. /\ StateOK(m')
      /\ \A x \in m'.ranges : \E r \in m.ranges : x.end <= r.end
      /\ \A x \in m'.ranges : x.end <= base \/ e <= x.base
  <2>1. StateOK(m)
    BY Zenon DEF Inv
  <2>2. none \in {"ANONYMOUS", "FILE", "DIRECT_VIRTUAL", "NONE"}
    BY <1>2, Zenon
  <2>3. PICK prefer : m' = add_range(m, base, e, zero, none, zero, no, no, prefer)
    BY <1>2, Zenon
  <2> QED BY ONLY <1>1, <1>2, <2>1, <2>2, <2>3, AddRange, Zenon
<1>4. \A x \in m'.ranges : x.end \in Nat /\ x.base \in Nat /\ x.base < x.end
  BY <1>3, Zenon DEF StateOK, Apart, RangeType
<1>5. \A r \in m.ranges : r.end \in Nat
  BY Zenon DEF Inv, StateOK, Apart, RangeType
<1>6. \A x \in m'.ranges : x.end <= anon_base
  BY <1>3, <1>4, <1>5 DEF Inv, FreshMmapIsFree
<1>7. FreshMmapIsFree'
  BY <1>1, <1>2, <1>3, <1>4, <1>6 DEF FreshMmapIsFree, Inv
<1>8. anon_base' \in Nat /\ MmapBase <= anon_base'
  BY <1>1, <1>2, Zenon DEF Inv
<1> QED
  BY <1>2, <1>3, <1>7, <1>8, Zenon DEF Inv

\* A turn of the mprotect loop stays inside one existing range.
LEMMA MprotectStepInv ==
  ASSUME Inv, NEW prefer, MprotectStep(prefer)
  PROVE  Inv'
<1>0. /\ prot \in [cur : Nat, end : Nat, flags : Prots] /\ prot.cur < prot.end
      /\ anon_base' = anon_base /\ brk' = brk
  BY Zenon DEF Inv, MprotectStep
<1>1. CASE m' = m /\ prot' = Null
  BY <1>0, <1>1, Zenon DEF Inv, FreshMmapIsFree
<1>2. CASE \E r \in RangeAt(prot.cur) :
             LET e == IF r.end > prot.end THEN prot.end ELSE r.end IN
             /\ m' = add_range(m, prot.cur, e, prot.flags, r.type,
                               r.offset + (prot.cur - r.base), TRUE, TRUE, prefer)
             /\ prot' = IF e = prot.end THEN Null ELSE [prot EXCEPT !.cur = e]
  <2>1. PICK r \in RangeAt(prot.cur) :
             LET e == IF r.end > prot.end THEN prot.end ELSE r.end IN
             /\ m' = add_range(m, prot.cur, e, prot.flags, r.type,
                               r.offset + (prot.cur - r.base), TRUE, TRUE, prefer)
             /\ prot' = IF e = prot.end THEN Null ELSE [prot EXCEPT !.cur = e]
    BY <1>2, Zenon
  <2> DEFINE b == prot.cur
             e == IF r.end > prot.end THEN prot.end ELSE r.end
             flags == prot.flags
             type == r.type
             offset == r.offset + (prot.cur - r.base)
             yes == TRUE
  <2>2. r \in m.ranges /\ r \in RangeType /\ r.base <= prot.cur /\ prot.cur < r.end
    BY Zenon DEF RangeAt, Inv, StateOK, Apart
  <2>3. b \in Nat /\ e \in Nat /\ b < e /\ e <= r.end /\ e <= prot.end /\ offset \in Int
    BY <1>0, <2>2 DEF RangeType
  <2>4. /\ type \in {"ANONYMOUS", "FILE", "DIRECT_VIRTUAL", "NONE"} /\ type # "NONE"
        /\ flags \in Prots \cup {"w"}
    BY <1>0, <2>2, Zenon DEF RangeType
  <2>5. /\ m' = add_range(m, b, e, flags, type, offset, yes, yes, prefer)
        /\ prot' = IF e = prot.end THEN Null ELSE [prot EXCEPT !.cur = e]
    BY <2>1, Zenon
  <2> HIDE DEF b, e, flags, type, offset, yes
  <2>6. /\ StateOK(m')
        /\ \A x \in m'.ranges : x.end <= e \/ \E q \in m.ranges : x.end <= q.end
    <3>1. StateOK(m)
      BY Zenon DEF Inv
    <3> QED
      BY <2>3, <2>4, <2>5, <3>1, AddRange
  <2>7. \A x \in m'.ranges : x.end \in Nat
    BY <2>6, Zenon DEF StateOK, Apart, RangeType
  <2>8. \A q \in m.ranges : q.end \in Nat /\ q.end <= anon_base
    BY Zenon DEF Inv, StateOK, Apart, RangeType, FreshMmapIsFree
  <2>9. FreshMmapIsFree'
    BY <1>0, <2>2, <2>3, <2>6, <2>7, <2>8 DEF FreshMmapIsFree, Inv
  <2>10. prot' # Null => prot' \in [cur : Nat, end : Nat, flags : Prots] /\ prot'.cur < prot'.end
    <3>1. CASE e = prot.end
      BY <2>5, <3>1, Zenon
    <3>2. CASE e # prot.end
      BY <1>0, <2>3, <2>5, <3>2
    <3> QED
      BY <3>1, <3>2, Zenon
  <2> QED
    BY <1>0, <2>6, <2>9, <2>10, Zenon DEF Inv
<1> QED
  BY <1>1, <1>2, Zenon DEF MprotectStep

\* syscall_brk stays below MmapBase.
LEMMA BrkInv ==
  ASSUME Inv, NEW new \in 0..MmapBase, NEW prefer, Brk(new, "w", prefer)
  PROVE  Inv'
<1>0. /\ anon_base' = anon_base /\ prot' = prot /\ brk' = new
      /\ new \in Nat /\ brk \in Nat /\ MmapBase \in Nat /\ anon_base \in Nat
      /\ new <= anon_base
  BY PagemapAssumption DEF Brk, Inv
<1>1. CASE new > brk
  <2> DEFINE type == "ANONYMOUS"
             flags == "w"
             offset == 0
             yes == TRUE
  <2>1. /\ m' = add_range(m, brk, new, flags, type, offset, yes, yes, prefer)
        /\ type \in {"ANONYMOUS", "FILE", "DIRECT_VIRTUAL", "NONE"} /\ type # "NONE"
        /\ flags \in Prots \cup {"w"} /\ offset \in Int /\ brk < new
    BY <1>0, <1>1 DEF Brk
  <2> HIDE DEF type, flags, offset, yes
  <2>2. /\ StateOK(m')
        /\ \A x \in m'.ranges : x.end <= new \/ \E q \in m.ranges : x.end <= q.end
    <3>1. StateOK(m)
      BY Zenon DEF Inv
    <3> QED BY ONLY <1>0, <2>1, <3>1, AddRange
  <2>3. \A x \in m'.ranges : x.end \in Nat
    BY <2>2, Zenon DEF StateOK, Apart, RangeType
  <2>4. \A q \in m.ranges : q.end \in Nat /\ q.end <= anon_base
    BY Zenon DEF Inv, StateOK, Apart, RangeType, FreshMmapIsFree
  <2>5. FreshMmapIsFree'
    BY <1>0, <2>2, <2>3, <2>4 DEF FreshMmapIsFree
  <2> QED
    BY <1>0, <2>2, <2>5, Zenon DEF Inv
<1>2. CASE new < brk
  <2> DEFINE none == "NONE"
             zero == 0
             no == FALSE
  <2>0. ~ (new > brk)
    BY <1>0, <1>2
  <2>1. /\ m' = add_range(m, new, brk, zero, none, zero, no, no, prefer)
        /\ none = "NONE" /\ zero \in Int /\ ~no
    BY <2>0, <1>2 DEF Brk
  <2> HIDE DEF none, zero, no
  <2>2. /\ StateOK(m')
        /\ \A x \in m'.ranges : \E q \in m.ranges : x.end <= q.end
    <3>1. StateOK(m) /\ new \in Nat /\ brk \in Nat
      BY <1>0, Zenon DEF Inv
    <3> DEFINE top == brk
    <3>2. top \in Nat /\ new < top /\ m' = add_range(m, new, top, zero, none, zero, no, no, prefer)
      BY <1>2, <2>1, <3>1, Zenon
    <3> HIDE DEF top
    <3>3. none \in {"ANONYMOUS", "FILE", "DIRECT_VIRTUAL", "NONE"} /\ none = "NONE" /\ ~no
      BY <2>1, Zenon
    <3> QED
      BY <2>1, <3>1, <3>2, <3>3, AddRange, Zenon
  <2>3. \A x \in m'.ranges : x.end \in Nat
    BY <2>2, Zenon DEF StateOK, Apart, RangeType
  <2>4. \A q \in m.ranges : q.end \in Nat /\ q.end <= anon_base
    BY DEF Inv, StateOK, Apart, RangeType, FreshMmapIsFree
  <2>5. FreshMmapIsFree'
    BY <1>0, <2>2, <2>3, <2>4 DEF FreshMmapIsFree
  <2> QED
    BY <1>0, <2>2, <2>5, Zenon DEF Inv
<1>3. CASE new = brk
  <2>1. ~ (new > brk) /\ ~ (new < brk)
    BY <1>0, <1>3
  <2>2. m' = m
    BY <2>1, Zenon DEF Brk
  <2> QED
    BY <1>0, <1>3, <2>2, Zenon DEF Inv, FreshMmapIsFree
<1> QED
  BY <1>0, <1>1, <1>2, <1>3

\* MADV_DONTNEED leaves every range where it is.
LEMMA MadviseInv ==
  ASSUME Inv, NEW base \in Pages, NEW len \in 1..NumPages, Madvise(base, len)
  PROVE  Inv'
<1> DEFINE e == base + len
<1>1. /\ m' = unmap_pages(m, base, e)
      /\ anon_base' = anon_base /\ brk' = brk /\ prot' = prot
  BY Zenon DEF Madvise
<1> HIDE DEF e
<1>2. StateOK(m') /\ Within(m'.ranges, m.ranges)
  BY <1>1, UnmapPages, Zenon DEF Inv
<1>3. FreshMmapIsFree'
  BY <1>1, <1>2, Zenon DEF Within, FreshMmapIsFree, Inv
<1> QED
  BY <1>1, <1>2, <1>3, Zenon DEF Inv

\* A page fault leaves every range where it is.
LEMMA FaultInv ==
  ASSUME Inv, NEW v \in Pages, Fault(v)
  PROVE  Inv'
<1>0. /\ IsState(m) /\ Apart(m.ranges) /\ PteOK(m.pte) /\ m.free \subseteq Frames
      /\ anon_base' = anon_base /\ brk' = brk /\ prot' = prot
  BY Zenon DEF Fault, Inv, StateOK
<1>1. PICK r \in RangeAt(v) :
        IF r.type = "DIRECT_VIRTUAL"
        THEN LET n == v - r.original_base + r.offset IN
             /\ n \in DOMAIN MemfdFrames
             /\ m' = [m EXCEPT !.pte[v] = [frame |-> MemfdFrames[n], flags |-> r.flags]]
        ELSE \E f \in m.free :
             m' = [m EXCEPT
                   !.pte[v] = [frame |-> f, flags |-> r.flags], !.free = @ \ {f},
                   !.ranges = (@ \ {r}) \cup {[r EXCEPT !.pages = @ \cup {f}]}]
  BY Zenon DEF Fault
<1>2. r \in m.ranges /\ r \in RangeType
  BY <1>0, Zenon DEF RangeAt, Apart
<1>3. \E f \in Frames :
        /\ IsState(m') /\ m'.pte = [m.pte EXCEPT ![v] = [frame |-> f, flags |-> r.flags]]
        /\ m'.free \subseteq Frames
        /\ \/ m'.ranges = m.ranges
           \/ m'.ranges = (m.ranges \ {r}) \cup {[r EXCEPT !.pages = @ \cup {f}]}
  <2>1. CASE r.type = "DIRECT_VIRTUAL"
    <3> DEFINE n == v - r.original_base + r.offset
    <3>1. /\ MemfdFrames[n] \in Frames
          /\ m' = [m EXCEPT !.pte[v] = [frame |-> MemfdFrames[n], flags |-> r.flags]]
      BY <1>1, <2>1, PagemapAssumption, Zenon
    <3> HIDE DEF n
    <3>2. /\ IsState(m') /\ m'.ranges = m.ranges /\ m'.free = m.free
          /\ m'.pte = [m.pte EXCEPT ![v] = [frame |-> MemfdFrames[n], flags |-> r.flags]]
      BY <1>0, <3>1, Zenon DEF IsState
    <3> QED
      BY <1>0, <3>1, <3>2, Zenon
  <2>2. CASE r.type # "DIRECT_VIRTUAL"
    <3>1. PICK f \in m.free :
             m' = [m EXCEPT
                   !.pte[v] = [frame |-> f, flags |-> r.flags], !.free = @ \ {f},
                   !.ranges = (@ \ {r}) \cup {[r EXCEPT !.pages = @ \cup {f}]}]
      BY <1>1, <2>2, Zenon
    <3>2. f \in Frames
      BY <1>0, Zenon
    <3> QED
      BY <1>0, <3>1, <3>2, Zenon DEF IsState
  <2> QED
    BY <2>1, <2>2, Zenon
<1>4. PICK f \in Frames :
        /\ IsState(m') /\ m'.pte = [m.pte EXCEPT ![v] = [frame |-> f, flags |-> r.flags]]
        /\ m'.free \subseteq Frames
        /\ \/ m'.ranges = m.ranges
           \/ m'.ranges = (m.ranges \ {r}) \cup {[r EXCEPT !.pages = @ \cup {f}]}
  BY <1>3, Zenon
<1>5. PteOK(m'.pte)
  BY <1>0, <1>4 DEF PteOK
<1> DEFINE g == [x \in m.ranges |-> IF x = r THEN [r EXCEPT !.pages = @ \cup {f}] ELSE x]
<1>6. g \in [m.ranges -> RangeType]
  BY <1>0, <1>2 DEF Apart, RangeType
<1>7. \A x \in m.ranges : g[x].base = x.base /\ g[x].end = x.end
  BY <1>2, Zenon DEF RangeType
<1>8. {g[x] : x \in m.ranges} = (m.ranges \ {r}) \cup {[r EXCEPT !.pages = @ \cup {f}]}
  BY <1>2, Zenon
<1> HIDE DEF g
<1>9. Apart(m'.ranges) /\ \A x \in m'.ranges : \E q \in m.ranges : x.end = q.end
  <2>1. CASE m'.ranges = m.ranges
    BY <1>0, <2>1, Zenon
  <2>2. CASE m'.ranges = {g[x] : x \in m.ranges}
    BY <1>0, <1>6, <1>7, <2>2, InPlace DEF Within
  <2> QED
    BY <1>4, <1>8, <2>1, <2>2, Zenon
<1>10. FreshMmapIsFree'
  BY <1>0, <1>9, Zenon DEF FreshMmapIsFree, Inv
<1> QED
  BY <1>0, <1>4, <1>5, <1>9, <1>10, Zenon DEF Inv, StateOK

\* Every step keeps the invariant.
LEMMA NextInv == Inv /\ [Next]_vars => Inv'
<1> SUFFICES ASSUME Inv, [Next]_vars PROVE Inv'
  BY Zenon
<1>1. ASSUME NEW len \in 1..NumPages, NEW flags \in Prots, NEW prefer \in {"below", "above"},
             NEW base \in Pages, NEW offset \in Offsets, NEW type \in Types,
             NEW fixed \in BOOLEAN, Mmap(type, fixed, base, len, offset, flags, prefer)
      PROVE  Inv'
  BY <1>1, MmapInv, Zenon
<1>2. ASSUME NEW len \in 1..NumPages, MmapFails(len)
      PROVE  Inv'
  <2>1. /\ m' = m /\ brk' = brk /\ prot' = prot
        /\ anon_base' = anon_base + len /\ anon_base \in Nat /\ MmapBase <= anon_base
    BY <1>2, Zenon DEF MmapFails, Inv
  <2>2. anon_base' \in Nat /\ MmapBase <= anon_base' /\ anon_base <= anon_base'
    BY <2>1, PagemapAssumption
  <2>3. \A r \in m.ranges : r.end \in Nat /\ r.end <= anon_base
    BY Zenon DEF Inv, FreshMmapIsFree, StateOK, Apart, RangeType
  <2>4. FreshMmapIsFree'
    BY <2>1, <2>2, <2>3 DEF FreshMmapIsFree
  <2> QED
    BY <2>1, <2>2, <2>4, Zenon DEF Inv
<1>3. ASSUME NEW len \in 1..NumPages, NEW base \in Pages, Munmap(base, len)
      PROVE  Inv'
  BY <1>3, MunmapInv, Zenon
<1>4. ASSUME NEW len \in 1..NumPages, NEW base \in Pages, Madvise(base, len)
      PROVE  Inv'
  BY <1>4, MadviseInv
<1>5. ASSUME NEW len \in 1..NumPages, NEW base \in Pages, NEW flags \in Prots,
             Mprotect(base, len, flags)
      PROVE  Inv'
  BY <1>5, PagemapAssumption DEF Mprotect, Inv, FreshMmapIsFree, Pages
<1>6. ASSUME NEW prefer, MprotectStep(prefer)
      PROVE  Inv'
  BY <1>6, MprotectStepInv, Zenon
<1>7. ASSUME NEW new \in 0..MmapBase, NEW prefer, Brk(new, "w", prefer)
      PROVE  Inv'
  BY <1>7, BrkInv, Zenon
<1>8. ASSUME NEW v \in Pages, Fault(v)
      PROVE  Inv'
  BY <1>8, FaultInv, Zenon
<1>9. ASSUME NEW v \in Pages, Write(v)
      PROVE  Inv'
  BY <1>9, Zenon DEF Write, Inv, FreshMmapIsFree
<1>10. CASE UNCHANGED vars
  BY <1>10, Zenon DEF vars, Inv, FreshMmapIsFree
<1> QED
  BY <1>1, <1>2, <1>3, <1>4, <1>5, <1>6, <1>7, <1>8, <1>9, <1>10, Zenon DEF Next

\* In an address space of any size, whatever mmap, munmap, mprotect, brk, madvise
\* and page faults do, the ranges of a pagemap never overlap.
THEOREM RangesStayDisjoint == Spec => []Disjoint
<1>1. Inv => Disjoint
  BY Zenon DEF Inv, StateOK, Apart, Disjoint
<1> QED
  BY <1>1, InitInv, NextInv, PTL DEF Spec

\* mmap without MAP_FIXED never takes an address that is mapped, although munmap
\* and fixed mappings move mmap_anon_base.
THEOREM FreshMmapNeverReplaces == Spec => []FreshMmapIsFree
<1>1. Inv => FreshMmapIsFree
  BY Zenon DEF Inv
<1> QED
  BY <1>1, InitInv, NextInv, PTL DEF Spec
=============================================================================
