--------------------------- MODULE PagemapProofs ---------------------------
(***************************************************************************)
(* For address spaces of any size: every physical page is free, listed by  *)
(* one range or kept by the memfd, and no page that is mapped is free.     *)
(* RangeProofs has the lemmas on where the ranges lie.                     *)
(***************************************************************************)
EXTENDS RangeProofs

-----------------------------------------------------------------------------
(* Where the physical pages are, as long as no memfd is mapped shared. *)

Pte == [frame : Frames, flags : Prots \cup {"w"}]

Listed(s, f) == \E r \in s.ranges : f \in r.pages
InTable(s, f) == \E v \in Pages : s.pte[v] # Null /\ s.pte[v].frame = f

\* A page is on one range's list, at one place of the page table, or free, or the
\* memfd's.  All of this holds between the stages of add_range, too.
Held(s) ==
  /\ s.pte \in [Pages -> Pte \cup {Null}]
  /\ \A v, x \in Pages : s.pte[v] # Null /\ s.pte[x] # Null /\ s.pte[v].frame = s.pte[x].frame
                           => v = x
  /\ \A r \in s.ranges : r.type # "DIRECT_VIRTUAL"
  /\ \A r, q \in s.ranges : \A f \in Frames : f \in r.pages /\ f \in q.pages => r = q
  /\ \A f \in Frames : /\ Listed(s, f) <=> InTable(s, f)
                       /\ Listed(s, f) <=> f \notin s.free /\ f \notin Memfd
                       /\ f \in s.free => f \notin Memfd

\* What the page table shows in V is what the ranges say.
Shown(s, V) ==
  \A v \in Pages \cap V : s.pte[v] # Null =>
    \E r \in s.ranges : /\ r.base <= v /\ v < r.end
                        /\ s.pte[v].flags = r.flags /\ s.pte[v].frame \in r.pages

\* The pages that a part of the page table shows.
LEMMA MappedIs ==
  ASSUME NEW s, Held(s), NEW lo, NEW hi
  PROVE  /\ Mapped(s, lo, hi) \subseteq Frames
         /\ \A f \in Mapped(s, lo, hi) : InTable(s, f) /\ Listed(s, f)
         /\ \A v \in Pages : s.pte[v] # Null =>
              (s.pte[v].frame \in Mapped(s, lo, hi) <=> v \in Span(lo, hi))
<1>1. ASSUME NEW f \in Mapped(s, lo, hi) PROVE f \in Frames /\ InTable(s, f)
  <2>1. PICK v \in Span(lo, hi) : s.pte[v] # Null /\ f = s.pte[v].frame
    BY Zenon DEF Mapped
  <2>2. v \in Pages /\ s.pte[v] \in Pte
    BY <2>1, Zenon DEF Held, Span
  <2> QED BY <2>1, <2>2, Zenon DEF InTable, Pte
<1>2. ASSUME NEW v \in Pages, s.pte[v] # Null, s.pte[v].frame \in Mapped(s, lo, hi)
      PROVE  v \in Span(lo, hi)
  <2>1. PICK x \in Span(lo, hi) : s.pte[x] # Null /\ s.pte[v].frame = s.pte[x].frame
    BY <1>2, Zenon DEF Mapped
  <2> QED BY <1>2, <2>1, Zenon DEF Held, Span
<1>3. ASSUME NEW v \in Span(lo, hi), s.pte[v] # Null PROVE s.pte[v].frame \in Mapped(s, lo, hi)
  BY <1>3, Zenon DEF Mapped
<1> QED BY <1>1, <1>2, <1>3, Zenon DEF Held

\* invalidate_pages without a range frees exactly what it unlinks.
LEMMA UnmapHeld ==
  ASSUME NEW s, StateOK(s), Held(s), NEW V, Shown(s, V), NEW lo, NEW hi,
         NEW t, t = unmap_pages(s, lo, hi)
  PROVE  Held(t) /\ Shown(t, V \cup Span(lo, hi))
<1>1. PICK F : F = Mapped(s, lo, hi)
  BY Zenon
<1>2. /\ F \subseteq Frames /\ \A f \in F : InTable(s, f) /\ Listed(s, f)
      /\ \A v \in Pages : s.pte[v] # Null => (s.pte[v].frame \in F <=> v \in Span(lo, hi))
  BY <1>1, MappedIs, Zenon
<1>3. PICK g : g = [r \in s.ranges |-> [r EXCEPT !.pages = @ \ F]]
  BY Zenon
<1>4. /\ t.ranges = {g[r] : r \in s.ranges} /\ t.free = s.free \cup F
      /\ t.pte = [v \in Pages |-> IF v \in Span(lo, hi) THEN Null ELSE s.pte[v]]
  BY <1>1, <1>3, Zenon DEF unmap_pages
<1>5. \A r \in s.ranges : /\ g[r].base = r.base /\ g[r].end = r.end /\ g[r].flags = r.flags
                          /\ g[r].type = r.type /\ g[r].pages = r.pages \ F
  BY <1>3, Zenon DEF StateOK, Apart, RangeType
<1>6. t.pte \in [Pages -> Pte \cup {Null}]
  BY <1>4, Zenon DEF Held
<1>7. \A v \in Pages : t.pte[v] # Null => v \notin Span(lo, hi) /\ t.pte[v] = s.pte[v]
  BY <1>4, Zenon
<1>8. \A f : Listed(t, f) <=> Listed(s, f) /\ f \notin F
  BY <1>4, <1>5 DEF Listed
<1>9. ASSUME NEW f PROVE InTable(t, f) <=> InTable(s, f) /\ f \notin F
  <2>1. ASSUME InTable(t, f) PROVE InTable(s, f) /\ f \notin F
    BY <1>2, <1>7, <2>1, Zenon DEF InTable
  <2>2. ASSUME InTable(s, f), f \notin F PROVE InTable(t, f)
    <3>1. PICK v \in Pages : s.pte[v] # Null /\ s.pte[v].frame = f
      BY <2>2, Zenon DEF InTable
    <3>2. t.pte[v] = s.pte[v]
      BY <1>2, <1>4, <2>2, <3>1, Zenon
    <3> QED BY <3>1, <3>2, Zenon DEF InTable
  <2> QED BY <2>1, <2>2, Zenon
<1>10. \A v, x \in Pages : t.pte[v] # Null /\ t.pte[x] # Null /\ t.pte[v].frame = t.pte[x].frame
                             => v = x
  BY <1>7 DEF Held
<1>11. \A x, y \in t.ranges : \A f \in Frames : f \in x.pages /\ f \in y.pages => x = y
  BY <1>4, <1>5 DEF Held
<1>12. \A x \in t.ranges : x.type # "DIRECT_VIRTUAL"
  BY <1>4, <1>5 DEF Held
<1>13. \A f \in Frames : /\ Listed(t, f) <=> InTable(t, f)
                         /\ Listed(t, f) <=> f \notin t.free /\ f \notin Memfd
                         /\ f \in t.free => f \notin Memfd
  <2> TAKE f \in Frames
  <2>1. /\ Listed(s, f) <=> InTable(s, f)
        /\ Listed(s, f) <=> f \notin s.free /\ f \notin Memfd
        /\ f \in s.free => f \notin Memfd
        /\ f \in F => Listed(s, f)
        /\ f \in t.free <=> f \in s.free \/ f \in F
    BY <1>2, <1>4, Zenon DEF Held
  <2> QED BY <1>8, <1>9, <2>1, Zenon
<1>14. ASSUME NEW v \in Pages \cap (V \cup Span(lo, hi)), t.pte[v] # Null
       PROVE  \E x \in t.ranges : /\ x.base <= v /\ v < x.end
                                  /\ t.pte[v].flags = x.flags /\ t.pte[v].frame \in x.pages
  <2>1. v \in V /\ s.pte[v] # Null /\ t.pte[v] = s.pte[v] /\ s.pte[v].frame \notin F
    BY <1>2, <1>7, <1>14, Zenon
  <2>2. PICK r \in s.ranges : /\ r.base <= v /\ v < r.end
                              /\ s.pte[v].flags = r.flags /\ s.pte[v].frame \in r.pages
    BY <2>1, Zenon DEF Shown
  <2>3. g[r] \in t.ranges
    BY <1>4, Zenon
  <2> QED BY <1>5, <2>1, <2>2, <2>3, Zenon
<1> QED BY <1>6, <1>10, <1>11, <1>12, <1>13, <1>14, Zenon DEF Held, Shown

\* invalidate_pages with a range gives the pages to it and to nobody else.
LEMMA MoveHeld ==
  ASSUME NEW s, StateOK(s), Held(s), NEW V, Shown(s, V), NEW lo, NEW hi, NEW base,
         NEW q \in s.ranges, q.base = base,
         \A v \in Span(lo, hi) : q.base <= v /\ v < q.end,
         NEW t, t = move_pages(s, lo, hi, base)
  PROVE  Held(t) /\ Shown(t, V \cup Span(lo, hi))
<1>1. PICK F : F = Mapped(s, lo, hi)
  BY Zenon
<1>2. /\ F \subseteq Frames /\ \A f \in F : InTable(s, f) /\ Listed(s, f)
      /\ \A v \in Pages : s.pte[v] # Null => (s.pte[v].frame \in F <=> v \in Span(lo, hi))
  BY <1>1, MappedIs, Zenon
<1>3. \A r \in s.ranges : r.base = base => r = q
  <2> SUFFICES ASSUME NEW r \in s.ranges, r.base = base, r # q PROVE FALSE
    BY Zenon
  <2>1. /\ r \in RangeType /\ q \in RangeType /\ r.base < r.end /\ q.base < q.end
        /\ r.end <= q.base \/ q.end <= r.base
    BY Zenon DEF StateOK, Apart
  <2> QED BY <2>1 DEF RangeType
<1>4. (CHOOSE r \in s.ranges : r.base = base) = q
  BY <1>3, Zenon
<1>5. PICK g : g = [r \in s.ranges |-> IF r = q THEN [r EXCEPT !.pages = @ \cup F]
                                       ELSE [r EXCEPT !.pages = @ \ F]]
  BY Zenon
<1>6. /\ t.ranges = {g[r] : r \in s.ranges} /\ t.free = s.free
      /\ t.pte = [v \in Pages |-> IF v \in Span(lo, hi) /\ s.pte[v] # Null
                    THEN [s.pte[v] EXCEPT !.flags = q.flags] ELSE s.pte[v]]
  BY <1>1, <1>4, <1>5, Zenon DEF move_pages
<1>7. \A r \in s.ranges : /\ g[r].base = r.base /\ g[r].end = r.end /\ g[r].flags = r.flags
                          /\ g[r].type = r.type
                          /\ g[r].pages = IF r = q THEN r.pages \cup F ELSE r.pages \ F
  BY <1>5, Zenon DEF StateOK, Apart, RangeType
<1>8. q.flags \in Prots \cup {"w"}
  BY Zenon DEF StateOK, Apart, RangeType
<1>9. ASSUME NEW v \in Pages
      PROVE  /\ t.pte[v] \in Pte \cup {Null} /\ (t.pte[v] # Null <=> s.pte[v] # Null)
             /\ t.pte[v] # Null => /\ t.pte[v].frame = s.pte[v].frame
                                   /\ t.pte[v].flags = IF v \in Span(lo, hi) THEN q.flags
                                                       ELSE s.pte[v].flags
  <2>1. CASE v \in Span(lo, hi) /\ s.pte[v] # Null
    <3>1. PICK f \in Frames, x \in Prots \cup {"w"} : s.pte[v] = [frame |-> f, flags |-> x]
      BY <2>1, Zenon DEF Held, Pte
    <3>2. t.pte[v] = [frame |-> f, flags |-> q.flags]
      BY <1>6, <2>1, <3>1
    <3>3. [frame |-> f, flags |-> q.flags] # Null
      BY <1>8, PagemapAssumption, Zenon
    <3>4. t.pte[v] \in Pte
      BY <1>8, <3>2 DEF Pte
    <3>5. t.pte[v] # Null /\ t.pte[v].frame = s.pte[v].frame /\ t.pte[v].flags = q.flags
      BY <3>1, <3>2, <3>3
    <3> QED BY <2>1, <3>4, <3>5, Zenon
  <2>2. CASE ~(v \in Span(lo, hi) /\ s.pte[v] # Null)
    <3>1. t.pte[v] = s.pte[v]
      BY <1>6, <2>2, Zenon
    <3> QED BY <2>2, <3>1, Zenon DEF Held
  <2> QED BY <2>1, <2>2, Zenon
<1>10. t.pte \in [Pages -> Pte \cup {Null}]
  BY <1>6, <1>9, Zenon
<1>11. \A v, x \in Pages : t.pte[v] # Null /\ t.pte[x] # Null /\ t.pte[v].frame = t.pte[x].frame
                             => v = x
  <2>1. \A v \in Pages : t.pte[v] # Null => s.pte[v] # Null /\ t.pte[v].frame = s.pte[v].frame
    BY <1>9, Zenon
  <2> QED BY <2>1 DEF Held
<1>12. \A f : InTable(t, f) <=> InTable(s, f)
  BY <1>9, Zenon DEF InTable
<1>13. ASSUME NEW f \in Frames PROVE Listed(t, f) <=> Listed(s, f)
  <2>1. CASE f \in F
    <3>1. g[q] \in t.ranges /\ f \in g[q].pages
      BY <1>6, <1>7, <2>1, Zenon
    <3> QED BY <1>2, <2>1, <3>1, Zenon DEF Listed
  <2>2. CASE f \notin F
    <3>1. \A r \in s.ranges : f \in g[r].pages <=> f \in r.pages
      BY <1>7, <2>2, Zenon
    <3> QED BY <1>6, <3>1 DEF Listed
  <2> QED BY <2>1, <2>2, Zenon
<1>14. ASSUME NEW x \in t.ranges, NEW y \in t.ranges, NEW f \in Frames, f \in x.pages, f \in y.pages
       PROVE  x = y
  <2>1. PICK r \in s.ranges : x = g[r]
    BY <1>6, Zenon
  <2>2. PICK p \in s.ranges : y = g[p]
    BY <1>6, Zenon
  <2>3. CASE f \in F
    BY <1>7, <1>14, <2>1, <2>2, <2>3, Zenon
  <2>4. CASE f \notin F
    <3>1. f \in r.pages /\ f \in p.pages
      BY <1>7, <1>14, <2>1, <2>2, <2>4, Zenon
    <3> QED BY <2>1, <2>2, <3>1, Zenon DEF Held
  <2> QED BY <2>3, <2>4, Zenon
<1>15. ASSUME NEW x \in t.ranges PROVE x.type # "DIRECT_VIRTUAL"
  <2>1. PICK r \in s.ranges : x = g[r]
    BY <1>6, Zenon
  <2> QED BY <1>7, <2>1, ZenonT(30) DEF Held
<1>16. Held(t)
  <2>1. \A f \in Frames : /\ Listed(t, f) <=> InTable(t, f)
                          /\ Listed(t, f) <=> f \notin t.free /\ f \notin Memfd
                          /\ f \in t.free => f \notin Memfd
    BY <1>6, <1>12, <1>13, Zenon DEF Held
  <2> QED BY <1>10, <1>11, <1>14, <1>15, <2>1 DEF Held
<1>17. ASSUME NEW v \in Pages \cap (V \cup Span(lo, hi)), t.pte[v] # Null
       PROVE  \E x \in t.ranges : /\ x.base <= v /\ v < x.end
                                  /\ t.pte[v].flags = x.flags /\ t.pte[v].frame \in x.pages
  <2>1. s.pte[v] # Null /\ t.pte[v].frame = s.pte[v].frame
    BY <1>9, <1>17, Zenon
  <2>2. CASE v \in Span(lo, hi)
    <3>1. g[q] \in t.ranges /\ t.pte[v].flags = q.flags
      BY <1>6, <1>9, <1>17, <2>2, Zenon
    <3>2. s.pte[v].frame \in F
      BY <1>2, <2>1, <2>2, Zenon
    <3> QED BY <1>7, <2>1, <2>2, <3>1, <3>2, Zenon
  <2>3. CASE v \notin Span(lo, hi)
    <3>1. PICK r \in s.ranges : /\ r.base <= v /\ v < r.end
                                /\ s.pte[v].flags = r.flags /\ s.pte[v].frame \in r.pages
      BY <2>1, <2>3, Zenon DEF Shown
    <3>2. g[r] \in t.ranges /\ s.pte[v].frame \notin F /\ t.pte[v].flags = s.pte[v].flags
      BY <1>2, <1>6, <1>9, <1>17, <2>1, <2>3, Zenon
    <3> QED BY <1>7, <2>1, <3>1, <3>2, Zenon
  <2> QED BY <2>2, <2>3, Zenon
<1> QED BY <1>16, <1>17, Zenon DEF Shown

\* addr_to_range finds at most one range.
LEMMA OneRangeAt ==
  ASSUME NEW R, Apart(R), NEW r \in R, NEW q \in R, NEW v \in Int,
         r.base <= v, v < r.end, q.base <= v, v < q.end
  PROVE  r = q
<1> SUFFICES ASSUME r # q PROVE FALSE
  BY Zenon
<1>1. r \in RangeType /\ q \in RangeType /\ (r.end <= q.base \/ q.end <= r.base)
  BY Zenon DEF Apart
<1> QED BY <1>1 DEF RangeType

\* What is left of a range that is not covered: one object keeps the pages.
LEMMA RemainsKeeps ==
  ASSUME NEW r \in RangeType, r.base < r.end, NEW b \in Nat, NEW e \in Nat, b < e,
         ~(Overlaps(r, b, e) /\ Covered(r, b, e))
  PROVE  /\ \A x \in Remains(r, b, e) : /\ x.pages \subseteq r.pages
                                        /\ x.flags = r.flags /\ x.type = r.type
         /\ \A x, y \in Remains(r, b, e) : x.pages # {} /\ y.pages # {} => x = y
         /\ \E x \in Remains(r, b, e) : /\ x.pages = r.pages
                                        /\ x.base = IF r.base < b \/ e <= r.base THEN r.base ELSE e
                                        /\ x.end = IF r.base < b /\ b < r.end THEN b ELSE r.end
<1>0. /\ r.base \in Nat /\ r.end \in Nat
      /\ DOMAIN r = {"base", "end", "type", "flags", "pages", "original_base", "offset"}
  BY Zenon DEF RangeType
<1>1. CASE ~Overlaps(r, b, e)
  <2>1. Remains(r, b, e) = {r}
    BY <1>1, Zenon DEF Remains
  <2>2. b >= r.end \/ e <= r.base
    BY <1>1, Zenon DEF Overlaps
  <2> QED BY <1>0, <2>1, <2>2
<1>2. CASE Overlaps(r, b, e) /\ r.base < b
  <2>1. PICK low : low = [r EXCEPT !.end = b]
    BY Zenon
  <2>2. PICK new : new = NewRange(e, r.end, r.flags, r.type, r.offset + (e - r.base))
    BY Zenon
  <2>3. Remains(r, b, e) = {low} \/ Remains(r, b, e) = {low, new}
    <3>1. ~(b <= r.base)
      BY <1>0, <1>2
    <3> QED BY <1>2, <2>1, <2>2, <3>1, Zenon DEF Remains
  <2>4. /\ low.pages = r.pages /\ low.flags = r.flags /\ low.type = r.type
        /\ low.base = r.base /\ low.end = b
    BY <1>0, <2>1, Zenon
  <2>5. new.pages = {} /\ new.flags = r.flags /\ new.type = r.type
    BY <2>2, Zenon DEF NewRange
  <2>6. b < r.end
    BY <1>0, <1>2 DEF Overlaps
  <2> QED BY <1>0, <1>2, <2>3, <2>4, <2>5, <2>6, Zenon
<1>3. CASE Overlaps(r, b, e) /\ ~(r.base < b)
  <2>1. PICK high : high = [r EXCEPT !.base = e]
    BY Zenon
  <2>2. b <= r.base /\ e < r.end /\ ~(e <= r.base)
    BY <1>0, <1>3 DEF Covered, Overlaps
  <2>3. Remains(r, b, e) = {high}
    <3>1. ~(e >= r.end)
      BY <1>0, <2>2
    <3> QED BY <1>3, <2>1, <2>2, <3>1, Zenon DEF Remains
  <2>4. /\ high.pages = r.pages /\ high.flags = r.flags /\ high.type = r.type
        /\ high.base = e /\ high.end = r.end
    BY <1>0, <2>1, Zenon
  <2> QED BY <1>0, <1>3, <2>2, <2>3, <2>4, Zenon
<1> QED BY <1>1, <1>2, <1>3, Zenon

\* The pages that are neither in b..e nor in the upper part of a range around it.
Aside(s, b, e) ==
  {v \in Pages : /\ v < b \/ e <= v
                 /\ \A r \in s.ranges : ~(r.base < b /\ e <= v /\ v < r.end)}

\* The overlap loop of resolve_overlap, before the move.
IsCut(s, b, e, covered, gone, dead, t) ==
  /\ covered = {r \in s.ranges : Overlaps(r, b, e) /\ Covered(r, b, e)}
  /\ gone = UNION {Span(r.base, r.end) : r \in covered}
  /\ dead = {s.pte[v].frame : v \in {x \in gone : s.pte[x] # Null}}
              \cup UNION {r.pages : r \in covered}
  /\ t.ranges = UNION {Remains(r, b, e) : r \in s.ranges \ covered}
  /\ t.pte = [v \in Pages |-> IF v \in gone THEN Null ELSE s.pte[v]]
  /\ t.free = s.free \cup dead

\* The overlap loop frees exactly the pages of the ranges that it covers.
LEMMA CutHeld ==
  ASSUME NEW s, StateOK(s), Held(s), Shown(s, Pages), NEW b \in Nat, NEW e \in Nat, b < e,
         NEW covered, NEW gone, NEW dead, NEW t, IsCut(s, b, e, covered, gone, dead, t)
  PROVE  Held(t) /\ Shown(t, Aside(s, b, e))
<1>1. \A r \in s.ranges : /\ r \in RangeType /\ r.base \in Nat /\ r.end \in Nat
                          /\ r.base < r.end /\ r.pages \subseteq Frames
  BY Zenon DEF StateOK, Apart, RangeType
<1>2. ASSUME NEW v \in Pages
      PROVE  v \in gone <=> \E r \in covered : r.base <= v /\ v < r.end
  <2>1. v \in Int
    BY DEF Pages
  <2>2. \A r \in covered : v \in Span(r.base, r.end) <=> r.base <= v /\ v < r.end
    BY <1>1, <2>1 DEF IsCut, Span
  <2> QED BY <2>2 DEF IsCut
<1>3. ASSUME NEW v \in Pages, s.pte[v] # Null
      PROVE  /\ s.pte[v].frame \in Frames
             /\ \E r \in s.ranges : /\ r.base <= v /\ v < r.end /\ s.pte[v].flags = r.flags
                                    /\ s.pte[v].frame \in r.pages
                                    /\ v \in gone <=> r \in covered
                                    /\ \A q \in s.ranges : s.pte[v].frame \in q.pages => q = r
  <2>1. PICK r \in s.ranges : /\ r.base <= v /\ v < r.end
                              /\ s.pte[v].flags = r.flags /\ s.pte[v].frame \in r.pages
    BY <1>3, Zenon DEF Shown
  <2>2. s.pte[v].frame \in Frames
    BY <1>1, <2>1, Zenon
  <2>3. \A q \in s.ranges : s.pte[v].frame \in q.pages => q = r
    BY <2>1, <2>2, Zenon DEF Held
  <2>4. v \in Int
    BY DEF Pages
  <2>5. \A q \in s.ranges : q.base <= v /\ v < q.end => q = r
    BY <2>1, <2>4, OneRangeAt, Zenon DEF StateOK
  <2>6. v \in gone <=> r \in covered
    <3>1. covered \subseteq s.ranges
      BY Zenon DEF IsCut
    <3> QED BY <1>2, <2>1, <2>5, <3>1, Zenon
  <2> QED BY <2>1, <2>2, <2>3, <2>6, Zenon
<1>4. ASSUME NEW f \in Frames
      PROVE  f \in dead <=> \E r \in covered : f \in r.pages
  <2>1. gone \subseteq Pages
    BY DEF IsCut, Span
  <2>2. ASSUME NEW v \in gone, s.pte[v] # Null, f = s.pte[v].frame
        PROVE  \E r \in covered : f \in r.pages
    BY <1>3, <2>1, <2>2, Zenon
  <2> QED BY <2>2 DEF IsCut
<1>5. ASSUME NEW v \in Pages, s.pte[v] # Null PROVE v \in gone <=> s.pte[v].frame \in dead
  <2>1. covered \subseteq s.ranges
    BY Zenon DEF IsCut
  <2> QED BY <1>3, <1>4, <1>5, <2>1, Zenon
<1>6. \A f \in dead : f \in Frames /\ Listed(s, f)
  <2>1. gone \subseteq Pages
    BY DEF IsCut, Span
  <2>2. \A v \in gone : s.pte[v] # Null => s.pte[v].frame \in Frames
    BY <1>3, <2>1, Zenon
  <2>3. covered \subseteq s.ranges
    BY Zenon DEF IsCut
  <2>4. \A r \in covered : r.pages \subseteq Frames
    BY <1>1, <2>3, Zenon
  <2>5. dead \subseteq Frames
    BY <2>2, <2>4 DEF IsCut
  <2> QED BY <1>4, <2>3, <2>5, Zenon DEF Listed
<1>7. ASSUME NEW r \in s.ranges \ covered
      PROVE  /\ \A x \in Remains(r, b, e) : /\ x.pages \subseteq r.pages
                                            /\ x.flags = r.flags /\ x.type = r.type
             /\ \A x, y \in Remains(r, b, e) : x.pages # {} /\ y.pages # {} => x = y
             /\ \E x \in Remains(r, b, e) :
                   /\ x.pages = r.pages
                   /\ x.base = IF r.base < b \/ e <= r.base THEN r.base ELSE e
                   /\ x.end = IF r.base < b /\ b < r.end THEN b ELSE r.end
  <2>1. r \in RangeType /\ r.base < r.end /\ ~(Overlaps(r, b, e) /\ Covered(r, b, e))
    BY <1>1, Zenon DEF IsCut
  <2> QED BY <2>1, RemainsKeeps
<1>8. \A x \in t.ranges : \E r \in s.ranges \ covered : x \in Remains(r, b, e)
  BY DEF IsCut
<1>9. \A r \in s.ranges \ covered : \A x \in Remains(r, b, e) : x \in t.ranges
  BY DEF IsCut
<1>10. ASSUME NEW f \in Frames PROVE Listed(t, f) <=> Listed(s, f) /\ f \notin dead
  <2>1. ASSUME NEW x \in t.ranges, f \in x.pages PROVE Listed(s, f) /\ f \notin dead
    <3>1. PICK r \in s.ranges \ covered : x \in Remains(r, b, e)
      BY <1>8, Zenon
    <3>2. f \in r.pages
      BY <1>7, <2>1, <3>1, Zenon
    <3>3. \A q \in covered : f \notin q.pages
      BY <3>2, Zenon DEF Held, IsCut
    <3> QED BY <1>4, <3>2, <3>3, Zenon DEF Listed
  <2>2. ASSUME NEW r \in s.ranges, f \in r.pages, f \notin dead PROVE Listed(t, f)
    <3>1. r \in s.ranges \ covered
      BY <1>4, <2>2, Zenon
    <3>2. PICK x \in Remains(r, b, e) : x.pages = r.pages
      BY <1>7, <3>1, Zenon
    <3> QED BY <1>9, <2>2, <3>1, <3>2, Zenon DEF Listed
  <2> QED BY <2>1, <2>2, Zenon DEF Listed
<1>11. \A v \in Pages : t.pte[v] # Null <=> s.pte[v] # Null /\ v \notin gone
  BY Zenon DEF IsCut
<1>12. \A v \in Pages : t.pte[v] # Null => t.pte[v] = s.pte[v]
  BY Zenon DEF IsCut
<1>13. ASSUME NEW f \in Frames PROVE InTable(t, f) <=> InTable(s, f) /\ f \notin dead
  <2>1. \A v \in Pages : t.pte[v] # Null /\ t.pte[v].frame = f
                            <=> s.pte[v] # Null /\ s.pte[v].frame = f /\ f \notin dead
    BY <1>5, <1>11, <1>12, Zenon
  <2> QED BY <2>1, Zenon DEF InTable
<1>14. t.pte \in [Pages -> Pte \cup {Null}]
  BY Zenon DEF Held, IsCut
<1>15. \A v, x \in Pages : t.pte[v] # Null /\ t.pte[x] # Null /\ t.pte[v].frame = t.pte[x].frame
                             => v = x
  BY <1>11, <1>12, Zenon DEF Held
<1>16. ASSUME NEW x \in t.ranges, NEW y \in t.ranges, NEW f \in Frames, f \in x.pages, f \in y.pages
       PROVE  x = y
  <2>1. PICK r \in s.ranges \ covered : x \in Remains(r, b, e)
    BY <1>8, Zenon
  <2>2. PICK q \in s.ranges \ covered : y \in Remains(q, b, e)
    BY <1>8, Zenon
  <2>3. f \in r.pages /\ f \in q.pages
    BY <1>7, <1>16, <2>1, <2>2, Zenon
  <2>4. r = q
    BY <2>3, Zenon DEF Held
  <2>5. x.pages # {} /\ y.pages # {}
    BY <1>16, Zenon
  <2> QED BY <1>7, <2>1, <2>2, <2>4, <2>5, Zenon
<1>17. ASSUME NEW x \in t.ranges PROVE x.type # "DIRECT_VIRTUAL"
  <2>1. PICK r \in s.ranges \ covered : x \in Remains(r, b, e)
    BY <1>8, Zenon
  <2>2. x.type = r.type
    BY <1>7, <2>1, Zenon
  <2> QED BY <2>2, Zenon DEF Held
<1>18. \A f \in Frames : /\ Listed(t, f) <=> InTable(t, f)
                         /\ Listed(t, f) <=> f \notin t.free /\ f \notin Memfd
                         /\ f \in t.free => f \notin Memfd
  <2> TAKE f \in Frames
  <2>1. /\ Listed(s, f) <=> InTable(s, f)
        /\ Listed(s, f) <=> f \notin s.free /\ f \notin Memfd
        /\ f \in s.free => f \notin Memfd
    BY Zenon DEF Held
  <2>2. /\ f \in dead => Listed(s, f)
        /\ f \in t.free <=> f \in s.free \/ f \in dead
    BY <1>6, Zenon DEF IsCut
  <2> QED BY <1>10, <1>13, <2>1, <2>2, Zenon
<1>19. ASSUME NEW v \in Pages \cap Aside(s, b, e), t.pte[v] # Null
       PROVE  \E x \in t.ranges : /\ x.base <= v /\ v < x.end
                                  /\ t.pte[v].flags = x.flags /\ t.pte[v].frame \in x.pages
  <2>1. s.pte[v] # Null /\ v \notin gone /\ t.pte[v] = s.pte[v] /\ v \in Int
    BY <1>11, <1>12, <1>19 DEF Pages
  <2>2. PICK r \in s.ranges \ covered : /\ r.base <= v /\ v < r.end
                                        /\ s.pte[v].flags = r.flags /\ s.pte[v].frame \in r.pages
    BY <1>3, <2>1, Zenon
  <2>3. PICK x \in Remains(r, b, e) :
                   /\ x.pages = r.pages
                   /\ x.base = IF r.base < b \/ e <= r.base THEN r.base ELSE e
                   /\ x.end = IF r.base < b /\ b < r.end THEN b ELSE r.end
    BY <1>7, Zenon
  <2>4. x \in t.ranges /\ x.flags = r.flags
    BY <1>7, <1>9, <2>3, Zenon
  <2>5. x.base <= v /\ v < x.end
    <3>1. (v < b \/ e <= v) /\ ~(r.base < b /\ e <= v /\ v < r.end)
      BY Zenon DEF Aside
    <3> QED BY <1>1, <2>1, <2>2, <2>3, <3>1
  <2> QED BY <2>1, <2>2, <2>3, <2>4, <2>5, Zenon
<1> QED BY <1>14, <1>15, <1>16, <1>17, <1>18, <1>19, Zenon DEF Held, Shown

\* A move changes no place of the page table from present to absent or back.
LEMMA MoveKeepsPresent ==
  ASSUME NEW s, NEW lo, NEW hi, NEW base, NEW t, t = move_pages(s, lo, hi, base),
         NEW v \in Pages, t.pte[v] # Null
  PROVE  s.pte[v] # Null
BY Zenon DEF move_pages

\* The overlap loop with the move of a split range's pages: outside b..e the page
\* table again shows what the ranges say, and nothing new.
LEMMA ResolveHeld ==
  ASSUME NEW s, StateOK(s), Held(s), Shown(s, Pages), NEW b \in Nat, NEW e \in Nat, b < e,
         NEW t, t = resolve_overlap(s, b, e)
  PROVE  /\ Held(t) /\ Shown(t, {v \in Pages : v < b \/ e <= v})
         /\ \A v \in Pages : t.pte[v] # Null => s.pte[v] # Null
<1> DEFINE covered == {r \in s.ranges : Overlaps(r, b, e) /\ Covered(r, b, e)}
           split == {r \in s.ranges : r.base < b /\ e < r.end}
           gone == UNION {Span(r.base, r.end) : r \in covered}
           dead == {s.pte[v].frame : v \in {x \in gone : s.pte[x] # Null}}
                     \cup UNION {r.pages : r \in covered}
           cut == [ranges |-> UNION {Remains(r, b, e) : r \in s.ranges \ covered},
                   pte |-> [v \in Pages |-> IF v \in gone THEN Null ELSE s.pte[v]],
                   free |-> s.free \cup dead]
           around == CHOOSE x \in split : TRUE
<1>1. t = IF split = {} THEN cut ELSE move_pages(cut, e, around.end, e)
  BY Zenon DEF resolve_overlap
<1>2. split # {} => around \in split
  BY Zenon
<1>3. Held(cut) /\ Shown(cut, Aside(s, b, e))
  <2>1. IsCut(s, b, e, covered, gone, dead, cut)
    BY Zenon DEF IsCut
  <2> HIDE DEF covered, gone, dead, cut
  <2> QED BY <2>1, CutHeld, Zenon
<1>4. /\ IsState(cut) /\ PteOK(cut.pte)
      /\ \A v \in Pages : cut.pte[v] # Null => s.pte[v] # Null
  BY Zenon DEF IsState, PteOK, StateOK
<1>5. \A x \in cut.ranges : \E r \in s.ranges : x \in Remains(r, b, e)
  BY Zenon
<1>6. \A r \in s.ranges : r \notin covered => Remains(r, b, e) \subseteq cut.ranges
  BY Zenon
<1>7. cut.free \subseteq Frames
  <2>1. \A r \in s.ranges : r.pages \subseteq Frames
    BY Zenon DEF StateOK, Apart, RangeType
  <2>2. \A v \in gone : s.pte[v] # Null => s.pte[v].frame \in Frames
    BY Zenon DEF StateOK, PteOK, Span
  <2>3. dead \subseteq Frames
    BY <2>1, <2>2, Zenon
  <2> QED BY <2>3, Zenon DEF StateOK
<1>8. \A r \in s.ranges : /\ r \in RangeType /\ r.base \in Nat /\ r.end \in Nat /\ r.base < r.end
  BY Zenon DEF StateOK, Apart, RangeType
<1>9. \A r \in split : r \in s.ranges /\ r.base < b /\ e < r.end
  BY Zenon
<1>10. \A r \in s.ranges : r.base < b /\ e < r.end => r \in split
  BY Zenon
<1>11. \A r \in split : r \notin covered
  BY <1>8 DEF Covered
<1> HIDE DEF covered, split, gone, dead, cut, around
<1>12. StateOK(cut)
  <2>1. Apart(cut.ranges)
    BY <1>5, Cut, Zenon DEF StateOK
  <2> QED BY <1>4, <1>7, <2>1, Zenon DEF StateOK
<1>13. CASE split = {}
  <2>1. \A v \in Pages : v < b \/ e <= v => v \in Aside(s, b, e)
    <3> SUFFICES ASSUME NEW v \in Pages, v < b \/ e <= v, NEW r \in s.ranges,
                        r.base < b, e <= v, v < r.end
                 PROVE  FALSE
      BY Zenon DEF Aside
    <3>1. v \in Int
      BY DEF Pages
    <3>2. e < r.end
      BY <1>8, <3>1
    <3> QED BY <1>10, <1>13, <3>2, Zenon
  <2> QED BY <1>1, <1>3, <1>4, <1>13, <2>1, Zenon DEF Shown
<1>14. CASE split # {}
  <2>1. PICK r \in split : r = around
    BY <1>2, <1>14, Zenon
  <2>2. /\ r \in s.ranges /\ r.base < b /\ e < r.end /\ r \in RangeType
        /\ r.base \in Nat /\ r.end \in Nat /\ r \notin covered
    BY <1>8, <1>9, <1>11, Zenon
  <2>3. PICK q : q = NewRange(e, r.end, r.flags, r.type, r.offset + (e - r.base))
    BY Zenon
  <2>4. q.base = e /\ q.end = r.end
    BY <2>3, Zenon DEF NewRange
  <2>5. q \in Remains(r, b, e)
    <3>1. Overlaps(r, b, e) /\ ~(e >= r.end) /\ ~(b <= r.base)
      BY <2>2 DEF Overlaps
    <3> QED BY <2>3, <3>1, Zenon DEF Remains
  <2>6. q \in cut.ranges
    BY <1>6, <2>2, <2>5, Zenon
  <2>7. PICK top : top = r.end
    BY Zenon
  <2>8. t = move_pages(cut, e, top, e)
    BY <1>1, <1>14, <2>1, <2>7, Zenon
  <2>9. \A v \in Span(e, top) : q.base <= v /\ v < q.end
    BY <2>2, <2>4, <2>7 DEF Span, Pages
  <2>10. Held(t) /\ Shown(t, Aside(s, b, e) \cup Span(e, top))
    BY <1>3, <1>12, <2>4, <2>6, <2>8, <2>9, MoveHeld, Zenon
  <2>11. ASSUME NEW v \in Pages, v < b \/ e <= v
         PROVE  v \in Aside(s, b, e) \cup Span(e, top)
    <3> SUFFICES ASSUME NEW p \in s.ranges, p.base < b, e <= v, v < p.end
                 PROVE  v \in Span(e, top)
      BY <2>11, Zenon DEF Aside
    <3>1. v \in Int
      BY DEF Pages
    <3>2. p = r
      <4>1. p.base <= e /\ e < p.end /\ r.base <= e /\ e < r.end /\ e \in Int
        BY <1>8, <2>2, <3>1
      <4> QED BY <2>2, <4>1, OneRangeAt, Zenon DEF StateOK
    <3> QED BY <2>2, <2>7, <3>1, <3>2 DEF Span
  <2>12. \A v \in Pages : t.pte[v] # Null => s.pte[v] # Null
    BY <1>4, <2>8, MoveKeepsPresent
  <2> QED BY <2>10, <2>11, <2>12, Zenon DEF Shown
<1> QED BY <1>13, <1>14, Zenon

\* Neither does the new range.
LEMMA PutKeepsPresent ==
  ASSUME NEW s, StateOK(s), NEW old, NEW new, NEW b, NEW e, NEW h,
         NEW t, t = put_range(s, old, new, b, e, h), NEW v \in Pages, t.pte[v] # Null
  PROVE  s.pte[v] # Null
<1>1. PICK u : u = [s EXCEPT !.ranges = (s.ranges \ old) \cup {new}]
  BY Zenon
<1>2. u.pte = s.pte
  BY <1>1, Zenon DEF StateOK, IsState
<1>3. PICK base : base = new.base
  BY Zenon
<1>4. t = u \/ t = move_pages(u, b, e, base)
  BY <1>1, <1>3, Zenon DEF put_range
<1> QED BY <1>2, <1>4, MoveKeepsPresent

\* A range without pages, or a range object with another extent or other flags.
Replaces(s, old, new, V) ==
  \/ old = {} /\ new.pages = {}
  \/ \E r \in s.ranges : /\ old = {r} /\ new.pages = r.pages
                         /\ \A v \in V : r.base <= v /\ v < r.end =>
                              new.base <= v /\ v < new.end /\ new.flags = r.flags

\* The new or changed range gets the pages that were left in b..e.
LEMMA PutHeld ==
  ASSUME NEW s, StateOK(s), Held(s), NEW V, Shown(s, V), NEW old,
         NEW new \in RangeType, new.base < new.end, new.type # "DIRECT_VIRTUAL",
         \A x \in s.ranges \ old : x.end <= new.base \/ new.end <= x.base,
         Replaces(s, old, new, V), NEW b \in Nat, NEW e \in Nat, new.base <= b, e <= new.end,
         NEW h, NEW t, t = put_range(s, old, new, b, e, h)
  PROVE  /\ Held(t) /\ Shown(t, V)
         /\ h => Shown(t, V \cup Span(b, e))
<1>1. PICK u : u = [s EXCEPT !.ranges = (s.ranges \ old) \cup {new}]
  BY Zenon
<1>2. t = IF h THEN move_pages(u, b, e, new.base) ELSE u
  BY <1>1, Zenon DEF put_range
<1>3. /\ u.ranges = (s.ranges \ old) \cup {new} /\ u.pte = s.pte /\ u.free = s.free
  BY <1>1, Zenon DEF StateOK, IsState
<1>4. StateOK(u)
  <2>1. IsState(u)
    BY <1>1, Zenon DEF StateOK, IsState
  <2>2. Apart(u.ranges)
    BY <1>3, Zenon DEF Apart, StateOK
  <2> QED BY <1>3, <2>1, <2>2, Zenon DEF StateOK
<1>5. \A f : InTable(u, f) <=> InTable(s, f)
  BY <1>3, Zenon DEF InTable
<1>6. ASSUME old = {}, new.pages = {} PROVE Held(u) /\ Shown(u, V)
  <2>1. \A f : Listed(u, f) <=> Listed(s, f)
    BY <1>3, <1>6, Zenon DEF Listed
  <2>2. \A x, y \in u.ranges : \A f \in Frames : f \in x.pages /\ f \in y.pages => x = y
    BY <1>3, <1>6, Zenon DEF Held
  <2>3. Held(u)
    BY <1>3, <1>5, <2>1, <2>2 DEF Held
  <2>4. Shown(u, V)
    BY <1>3, <1>6, Zenon DEF Shown
  <2> QED BY <2>3, <2>4, Zenon
<1>7. ASSUME NEW r \in s.ranges, old = {r}, new.pages = r.pages,
             \A v \in V : r.base <= v /\ v < r.end =>
                new.base <= v /\ v < new.end /\ new.flags = r.flags
      PROVE  Held(u) /\ Shown(u, V)
  <2>1. \A f : Listed(u, f) <=> Listed(s, f)
    BY <1>3, <1>7, Zenon DEF Listed
  <2>2. \A x, y \in u.ranges : \A f \in Frames : f \in x.pages /\ f \in y.pages => x = y
    BY <1>3, <1>7, Zenon DEF Held
  <2>3. Held(u)
    BY <1>3, <1>5, <2>1, <2>2 DEF Held
  <2>4. ASSUME NEW v \in Pages \cap V, u.pte[v] # Null
        PROVE  \E x \in u.ranges : /\ x.base <= v /\ v < x.end
                                   /\ u.pte[v].flags = x.flags /\ u.pte[v].frame \in x.pages
    <3>1. PICK p \in s.ranges : /\ p.base <= v /\ v < p.end
                                /\ s.pte[v].flags = p.flags /\ s.pte[v].frame \in p.pages
      BY <1>3, <2>4, Zenon DEF Shown
    <3>2. CASE p = r
      BY <1>3, <1>7, <3>1, <3>2, Zenon
    <3>3. CASE p # r
      BY <1>3, <1>7, <3>1, <3>3, Zenon
    <3> QED BY <3>2, <3>3, Zenon
  <2> QED BY <2>3, <2>4, Zenon DEF Shown
<1>8. Held(u) /\ Shown(u, V)
  <2>1. CASE ~(old = {} /\ new.pages = {})
    <3>1. PICK r \in s.ranges : /\ old = {r} /\ new.pages = r.pages
                                /\ \A v \in V : r.base <= v /\ v < r.end =>
                                     new.base <= v /\ v < new.end /\ new.flags = r.flags
      BY <2>1, Zenon DEF Replaces
    <3> QED BY <1>7, <3>1, Zenon
  <2> QED BY <1>6, <2>1, Zenon
<1>9. CASE ~h
  BY <1>2, <1>3, <1>8, <1>9, Zenon
<1>10. CASE h
  <2>1. PICK base : base = new.base
    BY Zenon
  <2>2. t = move_pages(u, b, e, base)
    BY <1>2, <1>10, <2>1, Zenon
  <2>3. new \in u.ranges
    BY <1>3, Zenon
  <2>4. \A v \in Span(b, e) : new.base <= v /\ v < new.end
    BY DEF Span, Pages, RangeType
  <2>5. Held(t) /\ Shown(t, V \cup Span(b, e))
    BY <1>4, <1>8, <2>1, <2>2, <2>3, <2>4, MoveHeld, Zenon
  <2> QED BY <2>5, Zenon DEF Shown
<1> QED BY <1>9, <1>10, Zenon

\* add_range leaves every page accounted for.
LEMMA AddHeld ==
  ASSUME NEW s, StateOK(s), Held(s), Shown(s, Pages), NEW b \in Nat, NEW e \in Nat, b < e,
         NEW type \in {"ANONYMOUS", "FILE", "NONE"},
         NEW flags, type # "NONE" => flags \in Prots \cup {"w"},
         NEW offset \in Int, NEW merge, NEW keep, type = "NONE" => ~keep, NEW prefer,
         NEW t, t = add_range(s, b, e, flags, type, offset, merge, keep, prefer)
  PROVE  Held(t) /\ Shown(t, Pages)
<1> DEFINE same == {r \in s.ranges : r.base = b /\ r.end = e /\ r.type = type}
           u == resolve_overlap(s, b, e)
           near == Neighbours(u, b, e, flags)
           r1 == First(near, b, prefer)
           h == \E r \in s.ranges : Overlaps(r, b, e)
           x1 == CHOOSE x \in same : TRUE
           V == {v \in Pages : v < b \/ e <= v}
<1>1. /\ StateOK(u)
      /\ \A x \in u.ranges : x.end <= b \/ e <= x.base
  BY ResolveOverlap, Zenon
<1>2. t = IF keep /\ same # {} THEN set_flags(s, x1, flags)
          ELSE IF type = "NONE" THEN unmap_pages(u, b, e)
          ELSE IF merge /\ type = "ANONYMOUS" /\ near # {}
          THEN put_range(u, {r1}, grow(r1, b, e), b, e, h)
          ELSE put_range(u, {}, NewRange(b, e, flags, type, offset), b, e, h)
  BY Zenon DEF add_range
<1>3. near # {} => /\ r1 \in u.ranges
                   /\ r1.end = b \/ r1.base = e
                   /\ r1.flags = flags
  <2> HIDE DEF u
  <2>1. \A r \in near : r \in u.ranges /\ (r.end = b \/ r.base = e) /\ r.flags = flags
    BY Zenon DEF Neighbours
  <2> HIDE DEF near
  <2>2. near # {} => r1 \in near
    BY FirstIsNear, Zenon
  <2> QED BY <2>1, <2>2, Zenon
<1>4. same # {} => x1 \in s.ranges /\ x1.base = b /\ x1.end = e
  BY Zenon
<1>5. /\ Held(u) /\ Shown(u, V)
      /\ \A v \in Pages : u.pte[v] # Null => s.pte[v] # Null
  BY ResolveHeld
<1>6. \A v \in Pages : v \in V \/ v \in Span(b, e)
  BY DEF Span, Pages
<1>7. ASSUME ~h, NEW v \in Pages, s.pte[v] # Null PROVE v \in V
  <2>1. PICK r \in s.ranges : r.base <= v /\ v < r.end
    BY <1>7, Zenon DEF Shown
  <2>2. b >= r.end \/ e <= r.base
    BY <1>7, Zenon DEF Overlaps
  <2>3. r.base \in Nat /\ r.end \in Nat
    BY Zenon DEF StateOK, Apart, RangeType
  <2> QED BY <2>1, <2>2, <2>3 DEF Pages
<1>8. Shown(s, V)
  BY Zenon DEF Shown
<1>9. \A v \in V : v \in Int /\ (v < b \/ e <= v)
  BY DEF Pages
<1> HIDE DEF same, u, near, r1, h, x1, V
<1>10. CASE keep /\ same # {}
  <2> DEFINE new == [x1 EXCEPT !.flags = flags]
             old == {x1}
             yes == TRUE
  <2>1. /\ x1 \in RangeType /\ x1 \in s.ranges /\ x1.type # "DIRECT_VIRTUAL"
        /\ x1.base = b /\ x1.end = e
    BY <1>4, <1>10, Zenon DEF StateOK, Apart, Held
  <2>2. /\ new \in RangeType /\ new.base = b /\ new.end = e
        /\ new.type # "DIRECT_VIRTUAL" /\ new.pages = x1.pages
    BY <1>10, <2>1, Zenon DEF RangeType
  <2>3. \A x \in s.ranges \ old : x.end <= new.base \/ new.end <= x.base
    BY <2>1, <2>2, Zenon DEF StateOK, Apart
  <2>4. t = put_range(s, old, new, b, e, yes)
    BY <1>2, <1>10, <2>1, Zenon DEF set_flags
  <2>5. Replaces(s, old, new, V)
    <3> HIDE DEF new
    <3>1. \A v \in V : ~(x1.base <= v /\ v < x1.end)
      BY <1>9, <2>1
    <3> QED BY <2>1, <2>2, <3>1, Zenon DEF Replaces
  <2>6. yes
    BY Zenon
  <2> HIDE DEF new, old, yes
  <2>7. new.base < new.end /\ new.base <= b /\ e <= new.end
    BY <2>2
  <2>8. StateOK(s) /\ Held(s) /\ b \in Nat /\ e \in Nat
    BY Zenon
  <2>9. Held(t) /\ (yes => Shown(t, V \cup Span(b, e)))
    BY ONLY <1>8, <2>2, <2>3, <2>4, <2>5, <2>7, <2>8, PutHeld, Zenon
  <2> QED BY <1>6, <2>6, <2>9, Zenon DEF Shown
<1>11. CASE ~(keep /\ same # {}) /\ type = "NONE"
  <2>1. Held(t) /\ Shown(t, V \cup Span(b, e))
    BY <1>1, <1>2, <1>5, <1>11, UnmapHeld, Zenon
  <2> QED BY <1>6, <2>1, Zenon DEF Shown
<1>12. CASE /\ ~(keep /\ same # {}) /\ type # "NONE"
            /\ merge /\ type = "ANONYMOUS" /\ near # {}
  <2> DEFINE new == grow(r1, b, e)
             old == {r1}
  <2>1. /\ r1 \in RangeType /\ r1 \in u.ranges /\ r1.base < r1.end
        /\ r1.type # "DIRECT_VIRTUAL" /\ (r1.end = b \/ r1.base = e)
    BY <1>1, <1>3, <1>5, <1>12, Zenon DEF StateOK, Apart, Held
  <2>2. /\ new \in RangeType /\ new.type # "DIRECT_VIRTUAL"
        /\ new.pages = r1.pages /\ new.flags = r1.flags
        /\ new.base = IF r1.end = b THEN r1.base ELSE b
        /\ new.end = IF r1.end = b THEN e ELSE r1.end
    BY <2>1, Zenon DEF grow, RangeType
  <2> HIDE DEF new
  <2>3. ASSUME NEW x \in u.ranges \ old
        PROVE  x.end <= new.base \/ new.end <= x.base
    <3>1. /\ x.end <= b \/ e <= x.base
          /\ x.end <= r1.base \/ r1.end <= x.base
          /\ x.base < x.end /\ x \in RangeType
      BY <1>1, <2>1, Zenon DEF StateOK, Apart
    <3> QED BY <2>1, <2>2, <3>1 DEF RangeType
  <2>4. t = put_range(u, old, new, b, e, h)
    BY <1>2, <1>12, Zenon DEF new
  <2>5. Replaces(u, old, new, V)
    <3>1. \A v \in V : r1.base <= v /\ v < r1.end =>
             new.base <= v /\ v < new.end /\ new.flags = r1.flags
      BY <1>9, <2>1, <2>2 DEF RangeType
    <3> QED BY <2>1, <2>2, <3>1, Zenon DEF Replaces
  <2>6. new.base < new.end /\ new.base <= b /\ e <= new.end
    BY <2>1, <2>2 DEF RangeType
  <2> HIDE DEF old
  <2>7. StateOK(u) /\ Held(u) /\ Shown(u, V) /\ b \in Nat /\ e \in Nat
    BY <1>1, <1>5, Zenon
  <2>8. /\ Held(t) /\ Shown(t, V)
        /\ h => Shown(t, V \cup Span(b, e))
    <3>1. new \in RangeType /\ new.type # "DIRECT_VIRTUAL"
      BY <2>2, Zenon
    <3>2. \A x \in u.ranges \ old : x.end <= new.base \/ new.end <= x.base
      BY <2>3, Zenon
    <3> QED BY ONLY <2>4, <2>5, <2>6, <2>7, <3>1, <3>2, PutHeld, Zenon
  <2>9. \A v \in Pages : t.pte[v] # Null => u.pte[v] # Null
    BY ONLY <2>4, <2>7, PutKeepsPresent
  <2> QED BY <1>5, <1>6, <1>7, <2>8, <2>9, Zenon DEF Shown
<1>13. CASE /\ ~(keep /\ same # {}) /\ type # "NONE"
            /\ ~(merge /\ type = "ANONYMOUS" /\ near # {})
  <2> DEFINE new == NewRange(b, e, flags, type, offset)
             old == {}
  <2>1. /\ new \in RangeType /\ new.base = b /\ new.end = e /\ new.pages = {}
        /\ new.type # "DIRECT_VIRTUAL"
    BY <1>13 DEF NewRange, RangeType
  <2>2. t = put_range(u, old, new, b, e, h)
    BY <1>2, <1>13, Zenon
  <2> HIDE DEF new
  <2>3. Replaces(u, old, new, V)
    BY <2>1, Zenon DEF Replaces
  <2>4. \A x \in u.ranges \ old : x.end <= new.base \/ new.end <= x.base
    BY <1>1, <2>1, Zenon
  <2> HIDE DEF old
  <2>5. new.base < new.end /\ new.base <= b /\ e <= new.end
    BY <2>1
  <2>6. StateOK(u) /\ Held(u) /\ Shown(u, V) /\ b \in Nat /\ e \in Nat
    BY <1>1, <1>5
  <2>7. /\ Held(t) /\ Shown(t, V)
        /\ h => Shown(t, V \cup Span(b, e))
    BY ONLY <2>1, <2>2, <2>3, <2>4, <2>5, <2>6, PutHeld, Zenon
  <2>8. \A v \in Pages : t.pte[v] # Null => u.pte[v] # Null
    BY ONLY <2>2, <2>6, PutKeepsPresent
  <2> QED BY <1>5, <1>6, <1>7, <2>7, <2>8 DEF Shown
<1> QED BY <1>10, <1>11, <1>12, <1>13, Zenon

\* The inductive invariant of the accounting.
Accounted == Held(m) /\ Shown(m, Pages)

\* At first every page is free, or the memfd's.
LEMMA InitAccounted == Init => Accounted
<1> SUFFICES ASSUME Init PROVE Accounted
  BY Zenon
<1>1. m.ranges = {} /\ m.pte = [v \in Pages |-> Null] /\ m.free = Frames \ Memfd
  BY Zenon DEF Init
<1>2. \A v \in Pages : m.pte[v] = Null
  BY <1>1, Zenon
<1>3. \A f : ~Listed(m, f) /\ ~InTable(m, f)
  BY <1>1, <1>2, Zenon DEF Listed, InTable
<1> QED BY <1>1, <1>2, <1>3, Zenon DEF Accounted, Held, Shown

\* A page fault takes a page from the free list and puts it into one place.
LEMMA FaultAccounted ==
  ASSUME Inv, Accounted, NEW v \in Pages, Fault(v)
  PROVE  Accounted'
<1>1. PICK r \in RangeAt(v) : \E f \in m.free :
        m' = [m EXCEPT !.pte[v] = [frame |-> f, flags |-> r.flags], !.free = @ \ {f},
                       !.ranges = (@ \ {r}) \cup {[r EXCEPT !.pages = @ \cup {f}]}]
  <2>1. \A q \in RangeAt(v) : q.type # "DIRECT_VIRTUAL"
    BY Zenon DEF RangeAt, Accounted, Held
  <2> QED BY <2>1, Zenon DEF Fault
<1>2. PICK f \in m.free :
        m' = [m EXCEPT !.pte[v] = [frame |-> f, flags |-> r.flags], !.free = @ \ {f},
                       !.ranges = (@ \ {r}) \cup {[r EXCEPT !.pages = @ \cup {f}]}]
  BY <1>1, Zenon
<1>3. PICK x : x = [r EXCEPT !.pages = r.pages \cup {f}]
  BY Zenon
<1>4. PICK new : new = [frame |-> f, flags |-> r.flags]
  BY Zenon
<1>5. /\ m'.ranges = (m.ranges \ {r}) \cup {x} /\ m'.free = m.free \ {f}
      /\ m'.pte = [m.pte EXCEPT ![v] = new]
  BY <1>2, <1>3, <1>4, Zenon DEF Inv, StateOK, IsState
<1>6. /\ r \in m.ranges /\ r.base <= v /\ v < r.end /\ f \in Frames
      /\ r \in RangeType /\ r.flags \in Prots \cup {"w"}
  BY Zenon DEF RangeAt, Inv, StateOK, Apart, RangeType
<1>7. /\ x.base = r.base /\ x.end = r.end /\ x.flags = r.flags /\ x.type = r.type
      /\ x.pages = r.pages \cup {f}
  BY <1>3, <1>6, Zenon DEF RangeType
<1>8. new \in Pte /\ new # Null /\ new.frame = f /\ new.flags = r.flags
  BY <1>4, <1>6, PagemapAssumption, Zenon DEF Pte
<1>9. m.pte[v] = Null
  BY Zenon DEF Fault
<1>10. /\ m'.pte \in [Pages -> Pte \cup {Null}] /\ m'.pte[v] = new
       /\ \A y \in Pages : y # v => m'.pte[y] = m.pte[y]
  BY <1>5, <1>8 DEF Accounted, Held
<1>11. f \notin Memfd /\ ~Listed(m, f) /\ ~InTable(m, f)
  BY <1>6, Zenon DEF Accounted, Held
<1>12. \A g : Listed(m', g) <=> Listed(m, g) \/ g = f
  BY <1>5, <1>6, <1>7, Zenon DEF Listed
<1>13. \A g : InTable(m', g) <=> InTable(m, g) \/ g = f
  <2>1. \A g : (\E y \in Pages : m'.pte[y] # Null /\ m'.pte[y].frame = g)
               <=> InTable(m, g) \/ g = f
    BY <1>8, <1>9, <1>10, Zenon DEF InTable
  <2> QED BY <2>1, Zenon DEF InTable
<1>14. \A y \in Pages : m.pte[y] # Null => m.pte[y].frame # f
  BY <1>11, Zenon DEF InTable
<1>15. \A y, z \in Pages : m'.pte[y] # Null /\ m'.pte[z] # Null /\ m'.pte[y].frame = m'.pte[z].frame
                             => y = z
  BY <1>8, <1>10, <1>14 DEF Accounted, Held
<1>16. \A q \in m.ranges : f \notin q.pages
  BY <1>11, Zenon DEF Listed
<1>17. \A p, q \in m'.ranges : \A g \in Frames : g \in p.pages /\ g \in q.pages => p = q
  <2>1. \A p, q \in m.ranges : \A g \in Frames : g \in p.pages /\ g \in q.pages => p = q
    BY Zenon DEF Accounted, Held
  <2>2. ASSUME NEW q \in m.ranges \ {r}, NEW g \in Frames, g \in q.pages
        PROVE  g \notin x.pages
    <3>1. g # f /\ g \notin r.pages
      BY <1>6, <1>16, <2>1, <2>2, Zenon
    <3> QED BY <1>7, <3>1, Zenon
  <2> QED BY <1>5, <2>1, <2>2, Zenon
<1>18. \A q \in m'.ranges : q.type # "DIRECT_VIRTUAL"
  BY <1>5, <1>6, <1>7, Zenon DEF Accounted, Held
<1>19. \A g \in Frames : /\ Listed(m', g) <=> InTable(m', g)
                         /\ Listed(m', g) <=> g \notin m'.free /\ g \notin Memfd
                         /\ g \in m'.free => g \notin Memfd
  BY <1>5, <1>11, <1>12, <1>13, Zenon DEF Accounted, Held
<1>20. Held(m')
  BY <1>10, <1>15, <1>17, <1>18, <1>19, Zenon DEF Held
<1>21. ASSUME NEW y \in Pages, m'.pte[y] # Null
       PROVE  \E q \in m'.ranges : /\ q.base <= y /\ y < q.end
                                   /\ m'.pte[y].flags = q.flags /\ m'.pte[y].frame \in q.pages
  <2>1. CASE y = v
    BY <1>5, <1>6, <1>7, <1>8, <1>10, <2>1, Zenon
  <2>2. CASE y # v
    <3>1. PICK p \in m.ranges : /\ p.base <= y /\ y < p.end
                                /\ m.pte[y].flags = p.flags /\ m.pte[y].frame \in p.pages
      BY <1>10, <1>21, <2>2, Zenon DEF Accounted, Shown
    <3>2. m'.pte[y] = m.pte[y]
      BY <1>10, <2>2, Zenon
    <3> QED BY <1>5, <1>7, <3>1, <3>2
  <2> QED BY <2>1, <2>2, Zenon
<1>22. Shown(m', Pages)
  BY <1>21, Zenon DEF Shown
<1> QED BY <1>20, <1>22, Zenon DEF Accounted

\* mprotect gives add_range the type of the range it found.
LEMMA MprotectStepAccounted ==
  ASSUME Inv, Accounted, NEW prefer, MprotectStep(prefer)
  PROVE  Accounted'
<1>0. prot \in [cur : Nat, end : Nat, flags : Prots] /\ prot.cur < prot.end
  BY Zenon DEF Inv, MprotectStep
<1>1. CASE m' = m
  BY <1>1, Zenon DEF Accounted
<1>2. CASE \E r \in RangeAt(prot.cur) :
             LET e == IF r.end > prot.end THEN prot.end ELSE r.end IN
             m' = add_range(m, prot.cur, e, prot.flags, r.type,
                            r.offset + (prot.cur - r.base), TRUE, TRUE, prefer)
  <2>1. PICK r \in RangeAt(prot.cur) :
             LET e == IF r.end > prot.end THEN prot.end ELSE r.end IN
             m' = add_range(m, prot.cur, e, prot.flags, r.type,
                            r.offset + (prot.cur - r.base), TRUE, TRUE, prefer)
    BY <1>2, Zenon
  <2> DEFINE b == prot.cur
             e == IF r.end > prot.end THEN prot.end ELSE r.end
             flags == prot.flags
             type == r.type
             offset == r.offset + (prot.cur - r.base)
             yes == TRUE
  <2>2. /\ r \in m.ranges /\ r \in RangeType /\ r.base <= prot.cur /\ prot.cur < r.end
        /\ r.type # "DIRECT_VIRTUAL"
    BY Zenon DEF RangeAt, Inv, StateOK, Apart, Accounted, Held
  <2>3. b \in Nat /\ e \in Nat /\ b < e /\ offset \in Int
    BY <1>0, <2>2 DEF RangeType
  <2>4. /\ type \in {"ANONYMOUS", "FILE", "NONE"} /\ type # "NONE"
        /\ flags \in Prots \cup {"w"}
    BY <1>0, <2>2, Zenon DEF RangeType
  <2>5. m' = add_range(m, b, e, flags, type, offset, yes, yes, prefer)
    BY <2>1, Zenon
  <2> HIDE DEF b, e, flags, type, offset, yes
  <2>6. StateOK(m) /\ Held(m) /\ Shown(m, Pages)
    BY Zenon DEF Inv, Accounted
  <2>7. Held(m') /\ Shown(m', Pages)
    BY <2>3, <2>4, <2>5, <2>6, AddHeld, Zenon
  <2> QED BY <2>7, Zenon DEF Accounted
<1> QED BY <1>1, <1>2, Zenon DEF MprotectStep

\* brk adds and removes anonymous memory.
LEMMA BrkAccounted ==
  ASSUME Inv, Accounted, NEW new \in 0..MmapBase, NEW prefer, Brk(new, "w", prefer)
  PROVE  Accounted'
<1>0. /\ new \in Nat /\ brk \in Nat
      /\ StateOK(m) /\ Held(m) /\ Shown(m, Pages)
  BY PagemapAssumption DEF Inv, Accounted
<1>1. CASE new > brk
  <2> DEFINE type == "ANONYMOUS"
             flags == "w"
             offset == 0
             yes == TRUE
  <2>1. /\ m' = add_range(m, brk, new, flags, type, offset, yes, yes, prefer)
        /\ type \in {"ANONYMOUS", "FILE", "NONE"} /\ type # "NONE"
        /\ flags \in Prots \cup {"w"} /\ offset \in Int /\ brk < new
    BY <1>0, <1>1 DEF Brk
  <2> HIDE DEF type, flags, offset, yes
  <2>2. Held(m') /\ Shown(m', Pages)
    BY <1>0, <2>1, AddHeld, Zenon
  <2> QED BY <2>2, Zenon DEF Accounted
<1>2. CASE new < brk
  <2> DEFINE none == "NONE"
             zero == 0
             no == FALSE
             top == brk
  <2>1. ~ (new > brk)
    BY <1>0, <1>2
  <2>2. /\ m' = add_range(m, new, top, zero, none, zero, no, no, prefer)
        /\ top \in Nat /\ new < top /\ none = "NONE" /\ zero \in Int /\ ~no
        /\ none \in {"ANONYMOUS", "FILE", "NONE"}
    BY <1>0, <1>2, <2>1 DEF Brk
  <2> HIDE DEF none, zero, no, top
  <2>3. Held(m') /\ Shown(m', Pages)
    BY <1>0, <2>2, AddHeld, Zenon
  <2> QED BY <2>3 DEF Accounted
<1>3. CASE new = brk
  <2>1. ~ (new > brk) /\ ~ (new < brk)
    BY <1>0, <1>3
  <2>2. m' = m
    BY <2>1, Zenon DEF Brk
  <2> QED BY <2>2, Zenon DEF Accounted
<1> QED BY <1>0, <1>1, <1>2, <1>3

\* mmap and munmap call add_range once.
LEMMA MmapAccounted ==
  ASSUME Inv, Accounted, "DIRECT_VIRTUAL" \notin Types,
         NEW type \in Types, NEW fixed \in BOOLEAN, NEW base \in Pages,
         NEW len \in 1..NumPages, NEW offset \in Offsets, NEW flags \in Prots, NEW prefer,
         Mmap(type, fixed, base, len, offset, flags, prefer)
  PROVE  Accounted'
<1> DEFINE b == IF fixed THEN base ELSE anon_base
           e == b + len
           merge == type = "ANONYMOUS"
           keep == type = "ANONYMOUS" /\ ~fixed
<1>1. b \in Nat /\ e \in Nat /\ b < e /\ offset \in Int
  BY PagemapAssumption DEF Inv, Pages
<1>2. type \in {"ANONYMOUS", "FILE", "NONE"} /\ type # "NONE"
  BY PagemapAssumption, Zenon
<1>3. m' = add_range(m, b, e, flags, type, offset, merge, keep, prefer)
  BY Zenon DEF Mmap
<1> HIDE DEF b, e, merge, keep
<1>4. StateOK(m) /\ Held(m) /\ Shown(m, Pages) /\ flags \in Prots \cup {"w"}
  BY Zenon DEF Inv, Accounted
<1>5. Held(m') /\ Shown(m', Pages)
  BY <1>1, <1>2, <1>3, <1>4, AddHeld, Zenon
<1> QED BY <1>5, Zenon DEF Accounted

LEMMA MunmapAccounted ==
  ASSUME Inv, Accounted, NEW base \in Pages, NEW len \in 1..NumPages, Munmap(base, len)
  PROVE  Accounted'
<1> DEFINE e == base + len
           none == "NONE"
           zero == 0
           no == FALSE
           below == "below"
<1>1. base \in Nat /\ e \in Nat /\ base < e
  BY PagemapAssumption DEF Pages
<1>2. /\ m' = add_range(m, base, e, zero, none, zero, no, no, below)
      /\ none = "NONE" /\ none \in {"ANONYMOUS", "FILE", "NONE"} /\ zero \in Int /\ ~no
  BY DEF Munmap
<1> HIDE DEF e, none, zero, no, below
<1>3. StateOK(m) /\ Held(m) /\ Shown(m, Pages)
  BY Zenon DEF Inv, Accounted
<1>4. Held(m') /\ Shown(m', Pages)
  BY <1>1, <1>2, <1>3, AddHeld, Zenon
<1> QED BY <1>4, Zenon DEF Accounted

\* Every step keeps the accounting.
LEMMA NextAccounted ==
  ASSUME Inv, Accounted, "DIRECT_VIRTUAL" \notin Types, [Next]_vars
  PROVE  Accounted'
<1>1. ASSUME NEW len \in 1..NumPages, NEW flags \in Prots, NEW prefer \in {"below", "above"},
             NEW base \in Pages, NEW offset \in Offsets, NEW type \in Types,
             NEW fixed \in BOOLEAN, Mmap(type, fixed, base, len, offset, flags, prefer)
      PROVE  Accounted'
  BY <1>1, MmapAccounted, Zenon
<1>2. ASSUME NEW len \in 1..NumPages, NEW base \in Pages, Munmap(base, len)
      PROVE  Accounted'
  BY <1>2, MunmapAccounted, Zenon
<1>3. ASSUME NEW len \in 1..NumPages, NEW base \in Pages, Madvise(base, len)
      PROVE  Accounted'
  <2>1. PICK e : e = base + len
    BY Zenon
  <2>2. m' = unmap_pages(m, base, e)
    BY <1>3, <2>1, Zenon DEF Madvise
  <2>3. Held(m') /\ Shown(m', Pages \cup Span(base, e))
    BY <2>2, UnmapHeld, Zenon DEF Inv, Accounted
  <2> QED BY <2>3, Zenon DEF Accounted, Shown
<1>4. ASSUME NEW prefer, MprotectStep(prefer)
      PROVE  Accounted'
  BY <1>4, MprotectStepAccounted, Zenon
<1>5. ASSUME NEW new \in 0..MmapBase, NEW prefer, Brk(new, "w", prefer)
      PROVE  Accounted'
  BY <1>5, BrkAccounted, Zenon
<1>6. ASSUME NEW v \in Pages, Fault(v)
      PROVE  Accounted'
  BY <1>6, FaultAccounted, Zenon
<1>7. CASE UNCHANGED m
  BY <1>7, Zenon DEF Accounted
<1>8. ASSUME NEW len \in 1..NumPages, MmapFails(len)
      PROVE  Accounted'
  BY <1>7, <1>8, Zenon DEF MmapFails
<1>9. ASSUME NEW len \in 1..NumPages, NEW base \in Pages, NEW flags \in Prots,
             Mprotect(base, len, flags)
      PROVE  Accounted'
  BY <1>7, <1>9, Zenon DEF Mprotect
<1>10. ASSUME NEW v \in Pages, Write(v)
       PROVE  Accounted'
  BY <1>7, <1>10, Zenon DEF Write
<1>11. CASE UNCHANGED vars
  BY <1>7, <1>11, Zenon DEF vars
<1> QED
  BY <1>1, <1>2, <1>3, <1>4, <1>5, <1>6, <1>8, <1>9, <1>10, <1>11 DEF Next

\* However private mappings are laid over each other, split, merged, protected,
\* discarded and faulted in, the page table shows what the ranges say, and every
\* physical page is free, the memfd's, or on the list of exactly one range that
\* shows it at one place: nothing leaks and nothing is freed twice.  A shared memfd
\* mapping is the exception: its pages are freed with the mapping (NoFreePageInUse).
THEOREM EveryPageIsAccountedFor ==
  ASSUME "DIRECT_VIRTUAL" \notin Types
  PROVE  Spec => []PagesAccounted
<1>1. Inv /\ Accounted => PagesAccounted
  <2> SUFFICES ASSUME Inv, Accounted PROVE PagesAccounted
    BY Zenon
  <2>1. \A r \in m.ranges : r.pages \subseteq Frames
    BY Zenon DEF Inv, StateOK, Apart, RangeType
  <2>2. \A v \in Pages : m.pte[v] # Null =>
           \E r \in m.ranges : /\ r.base <= v /\ v < r.end
                               /\ m.pte[v].flags = r.flags
                               /\ r.type # "DIRECT_VIRTUAL" => m.pte[v].frame \in r.pages
    BY Zenon DEF Accounted, Shown
  <2>3. \A f \in Frames : \/ f \in m.free
                          \/ f \in Memfd
                          \/ \E r \in m.ranges : f \in r.pages
    BY Zenon DEF Accounted, Held, Listed
  <2>4. \A r \in m.ranges : r.pages \cap (m.free \cup Memfd) = {}
    BY <2>1, Zenon DEF Accounted, Held, Listed
  <2>5. \A r, s \in m.ranges : r # s => r.pages \cap s.pages = {}
    BY <2>1, Zenon DEF Accounted, Held
  <2>6. \A r \in m.ranges : \A f \in r.pages :
           \E v \in Pages : m.pte[v] # Null /\ m.pte[v].frame = f
    BY <2>1, Zenon DEF Accounted, Held, Listed, InTable
  <2> QED BY <2>2, <2>3, <2>4, <2>5, <2>6, Zenon DEF PagesAccounted
<1>2. Init => Inv /\ Accounted
  BY InitInv, InitAccounted, Zenon
<1>3. Inv /\ Accounted /\ [Next]_vars => (Inv /\ Accounted)'
  BY NextInv, NextAccounted, Zenon
<1> QED BY <1>1, <1>2, <1>3, PTL DEF Spec

\* The assertions of invalidate_page and free_page hold for private mappings: a page
\* that a page table or the memfd's own mapping shows is not free.
THEOREM MappedPagesAreNotFree ==
  ASSUME "DIRECT_VIRTUAL" \notin Types
  PROVE  Spec => []NoFreePageInUse
<1>1. Inv /\ Accounted => NoFreePageInUse
  <2> SUFFICES ASSUME Inv, Accounted PROVE NoFreePageInUse
    OBVIOUS
  <2>1. Memfd \cap m.free = {}
    BY Zenon DEF Inv, StateOK, Accounted, Held
  <2>2. ASSUME NEW v \in Pages, m.pte[v] # Null PROVE m.pte[v].frame \notin m.free
    <3>1. m.pte[v].frame \in Frames /\ InTable(m, m.pte[v].frame)
      BY <2>2, Zenon DEF Accounted, Held, Pte, InTable
    <3> QED BY <3>1, Zenon DEF Accounted, Held
  <2> QED BY <2>1, <2>2, Zenon DEF NoFreePageInUse
<1>2. Init => Inv /\ Accounted
  BY InitInv, InitAccounted
<1>3. Inv /\ Accounted /\ [Next]_vars => (Inv /\ Accounted)'
  BY NextInv, NextAccounted
<1> QED BY <1>1, <1>2, <1>3, PTL DEF Spec
=============================================================================
