------------------------------ MODULE Pagemap ------------------------------
(***************************************************************************)
(* A process's mem::Pagemap (mem/vmm.cpp): the mapped ranges, the page     *)
(* table that page faults fill in, and the physical pages of both.         *)
(* Addresses are page numbers.  A range's page_list is its field pages.    *)
(* The kernel's own mapping of a memfd stands for the pages that a shared  *)
(* memfd mapping (DIRECT_VIRTUAL) mirrors.  The operators work on a state  *)
(* m with the fields ranges, pte and free; interrupts are off in every     *)
(* system call, and mprotect's loop is one step per range.                 *)
(***************************************************************************)
EXTENDS Integers, FiniteSets

CONSTANTS
  NumPages,       \* the address space is 0..NumPages-1
  MmapBase,       \* pages below it belong to brk
  Frames,         \* physical pages
  MemfdFrames,    \* [0..n-1 -> Frames], the memfd's pages
  Prots, Offsets, Types,
  Fixed,          \* whether MAP_FIXED is used
  Null

ASSUME PagemapAssumption ==
  /\ NumPages \in Nat /\ MmapBase \in 0..NumPages
  /\ Offsets \subseteq Nat
  /\ Types \subseteq {"ANONYMOUS", "FILE", "DIRECT_VIRTUAL"}
  /\ \A i \in DOMAIN MemfdFrames : MemfdFrames[i] \in Frames
  /\ Fixed \in BOOLEAN
  /\ \A f \in Frames, x \in Prots \cup {"w"} : [frame |-> f, flags |-> x] # Null

Pages == 0..(NumPages - 1)
Memfd == {MemfdFrames[i] : i \in DOMAIN MemfdFrames}

VARIABLES
  m,            \* [ranges, pte, free]
  holds,        \* [Frames -> what is in the page]
  anon_base,    \* mmap_anon_base
  brk,
  prot          \* an mprotect in progress: [cur, end, flags] or Null

vars == <<m, holds, anon_base, brk, prot>>

Zeros == <<"zero", 0>>
FilePage(n) == <<"file", n>>
MemfdPage(n) == <<"memfd", n>>
Written == <<"written", 0>>

Init ==
  /\ m = [ranges |-> {}, pte |-> [v \in Pages |-> Null], free |-> Frames \ Memfd]
  /\ holds = [f \in Frames |-> Zeros]
  /\ anon_base = MmapBase
  /\ brk = 0
  /\ prot = Null

-----------------------------------------------------------------------------
Span(lo, hi) == Pages \cap (lo..(hi - 1))
Mapped(s, lo, hi) == {s.pte[v].frame : v \in {x \in Span(lo, hi) : s.pte[x] # Null}}

\* Bugs: the pages are unlinked but not freed, or freed but not unlinked.
unmap_pages_Leaks(s, lo, hi) ==
  [ranges |-> {[r EXCEPT !.pages = @ \ Mapped(s, lo, hi)] : r \in s.ranges},
   pte |-> [v \in Pages |-> IF v \in Span(lo, hi) THEN Null ELSE s.pte[v]],
   free |-> s.free]
unmap_pages_KeepsPte(s, lo, hi) ==
  [ranges |-> {[r EXCEPT !.pages = @ \ Mapped(s, lo, hi)] : r \in s.ranges},
   pte |-> s.pte,
   free |-> s.free \cup Mapped(s, lo, hi)]

\* invalidate_pages(lo..hi, nullptr): the pages are unlinked and freed.
unmap_pages(s, lo, hi) ==
  [ranges |-> {[r EXCEPT !.pages = @ \ Mapped(s, lo, hi)] : r \in s.ranges},
   pte |-> [v \in Pages |-> IF v \in Span(lo, hi) THEN Null ELSE s.pte[v]],
   free |-> s.free \cup Mapped(s, lo, hi)]

\* invalidate_pages(lo..hi, range): the pages move to the range that starts at
\* base and get its flags.
move_pages(s, lo, hi, base) ==
  LET F == Mapped(s, lo, hi)
      target == CHOOSE r \in s.ranges : r.base = base
  IN  [ranges |-> {IF r = target THEN [r EXCEPT !.pages = @ \cup F]
                   ELSE [r EXCEPT !.pages = @ \ F] : r \in s.ranges},
       pte |-> [v \in Pages |-> IF v \in Span(lo, hi) /\ s.pte[v] # Null
                  THEN [s.pte[v] EXCEPT !.flags = target.flags] ELSE s.pte[v]],
       free |-> s.free]

\* An anonymous range's original_base and offset are never read: they stay 0.
NewRange(b, e, flags, type, offset) ==
  [base |-> b, end |-> e, type |-> type, flags |-> flags, pages |-> {},
   original_base |-> IF type = "ANONYMOUS" THEN 0 ELSE b,
   offset |-> IF type = "ANONYMOUS" THEN 0 ELSE offset]

Overlaps(r, b, e) == ~ (b >= r.end \/ e <= r.base)
Covered(r, b, e) == b <= r.base /\ r.end <= e

\* A bug: a range that is overlapped at its front is left as it is.
Remains_Front(r, b, e) ==
  IF ~Overlaps(r, b, e) THEN {r}
  ELSE (IF r.base < b THEN {[r EXCEPT !.end = b]} ELSE {}) \cup
       (IF e >= r.end THEN {}
        ELSE IF b <= r.base THEN {r}
        ELSE {NewRange(e, r.end, r.flags, r.type, r.offset + (e - r.base))})

\* What add_range leaves of an existing range r outside b..e: the object itself,
\* with its length or its base changed, and a new object when r is split.
Remains(r, b, e) ==
  IF ~Overlaps(r, b, e) THEN {r}
  ELSE (IF r.base < b THEN {[r EXCEPT !.end = b]} ELSE {}) \cup
       (IF e >= r.end THEN {}
        ELSE IF b <= r.base THEN {[r EXCEPT !.base = e]}
        ELSE {NewRange(e, r.end, r.flags, r.type, r.offset + (e - r.base))})

\* The overlap loop of add_range, with the pages of a split's upper part.
resolve_overlap(s, b, e) ==
  LET covered == {r \in s.ranges : Overlaps(r, b, e) /\ Covered(r, b, e)}
      split == {r \in s.ranges : r.base < b /\ e < r.end}
      gone == UNION {Span(r.base, r.end) : r \in covered}
      dead == {s.pte[v].frame : v \in {x \in gone : s.pte[x] # Null}}
                \cup UNION {r.pages : r \in covered}
      cut == [ranges |-> UNION {Remains(r, b, e) : r \in s.ranges \ covered},
              pte |-> [v \in Pages |-> IF v \in gone THEN Null ELSE s.pte[v]],
              free |-> s.free \cup dead]
  IN  IF split = {} THEN cut
      ELSE LET r == CHOOSE x \in split : TRUE IN move_pages(cut, e, r.end, e)

\* The ranges that an anonymous range can be merged into; prefer says which of
\* two comes first on the list of ranges.
Neighbours(s, b, e, flags) ==
  {r \in s.ranges : r.type = "ANONYMOUS" /\ r.flags = flags /\ (r.end = b \/ r.base = e)}

First(near, b, prefer) ==
  IF \E r \in near : (r.end = b) = (prefer = "below")
  THEN CHOOSE r \in near : (r.end = b) = (prefer = "below")
  ELSE CHOOSE r \in near : TRUE

grow(r, b, e) ==
  [r EXCEPT !.base = IF r.end = b THEN @ ELSE b, !.end = IF r.end = b THEN e ELSE @]

\* Puts a range in the place of the ranges old.  The pages that an overlapped
\* range left in b..e go to it.
put_range(s, old, new, b, e, had_overlap) ==
  LET with == [s EXCEPT !.ranges = (@ \ old) \cup {new}] IN
  IF had_overlap THEN move_pages(with, b, e, new.base) ELSE with

set_flags(s, r, flags) ==
  put_range(s, {r}, [r EXCEPT !.flags = flags], r.base, r.end, TRUE)

\* add_range with resolve_overlap.
add_range(s, b, e, flags, type, offset, merge, keep, prefer) ==
  LET same == {r \in s.ranges : r.base = b /\ r.end = e /\ r.type = type}
      had_overlap == \E r \in s.ranges : Overlaps(r, b, e)
      t == resolve_overlap(s, b, e)
      near == Neighbours(t, b, e, flags)
      r == First(near, b, prefer)
  IN  IF keep /\ same # {} THEN set_flags(s, CHOOSE x \in same : TRUE, flags)
      ELSE IF type = "NONE" THEN unmap_pages(t, b, e)
      ELSE IF merge /\ type = "ANONYMOUS" /\ near # {}
      THEN put_range(t, {r}, grow(r, b, e), b, e, had_overlap)
      ELSE put_range(t, {}, NewRange(b, e, flags, type, offset), b, e, had_overlap)

-----------------------------------------------------------------------------
Idle == prot = Null

\* syscall_mmap.  A mapping of a file can fail after the address is taken.
Mmap(type, fixed, base, len, offset, flags, prefer) ==
  /\ Idle /\ type \in Types /\ (fixed => Fixed /\ base >= MmapBase)
  /\ LET b == IF fixed THEN base ELSE anon_base
         e == b + len
     IN  /\ e <= NumPages
         /\ anon_base' = IF e > anon_base THEN e ELSE anon_base
         /\ m' = add_range(m, b, e, flags, type, offset, type = "ANONYMOUS",
                           type = "ANONYMOUS" /\ ~fixed, prefer)
  /\ UNCHANGED <<holds, brk, prot>>

MmapFails(len) ==
  /\ Idle /\ anon_base + len <= NumPages
  /\ anon_base' = anon_base + len
  /\ UNCHANGED <<m, holds, brk, prot>>

\* A bug: mmap_anon_base goes down although there is a mapping above.
Lowered_Any(base, len) == IF anon_base >= base + len THEN base ELSE anon_base
Lowered(base, len) == IF anon_base = base + len THEN base ELSE anon_base

Munmap(base, len) ==
  /\ Idle /\ base >= MmapBase /\ base + len <= NumPages
  /\ m' = add_range(m, base, base + len, 0, "NONE", 0, FALSE, FALSE, "below")
  /\ anon_base' = Lowered(base, len)
  /\ UNCHANGED <<holds, brk, prot>>

\* syscall_mprotect and one turn of its loop; a hole ends it with ENOMEM.
Mprotect(base, len, flags) ==
  /\ Idle /\ base + len <= NumPages
  /\ prot' = [cur |-> base, end |-> base + len, flags |-> flags]
  /\ UNCHANGED <<m, holds, anon_base, brk>>

RangeAt(v) == {r \in m.ranges : r.base <= v /\ v < r.end}

MprotectStep(prefer) ==
  /\ prot # Null
  /\ \/ /\ RangeAt(prot.cur) = {}
        /\ prot' = Null /\ UNCHANGED m
     \/ \E r \in RangeAt(prot.cur) :
          LET e == IF r.end > prot.end THEN prot.end ELSE r.end IN
          /\ m' = add_range(m, prot.cur, e, prot.flags, r.type,
                            r.offset + (prot.cur - r.base), TRUE, TRUE, prefer)
          /\ prot' = IF e = prot.end THEN Null ELSE [prot EXCEPT !.cur = e]
  /\ UNCHANGED <<holds, anon_base, brk>>

Brk(new, flags, prefer) ==
  /\ Idle /\ new <= MmapBase
  /\ brk' = new
  /\ m' = IF new > brk THEN add_range(m, brk, new, flags, "ANONYMOUS", 0, TRUE, TRUE, prefer)
          ELSE IF new < brk THEN add_range(m, new, brk, 0, "NONE", 0, FALSE, FALSE, prefer)
          ELSE m
  /\ UNCHANGED <<holds, anon_base, prot>>

\* madvise(MADV_DONTNEED)
Madvise(base, len) ==
  /\ Idle /\ base + len <= NumPages
  /\ m' = unmap_pages(m, base, base + len)
  /\ UNCHANGED <<holds, anon_base, brk, prot>>

\* What a page fault at v in range r puts into the page, by the range's fields.
Source(r, v) ==
  LET n == v - r.original_base + r.offset IN
  CASE r.type = "ANONYMOUS" -> Zeros
    [] r.type = "FILE" -> FilePage(n)
    [] OTHER -> MemfdPage(n)

\* handle_page_fault; alloc_page takes any free page.
Fault(v) ==
  /\ Idle /\ m.pte[v] = Null
  /\ \E r \in RangeAt(v) :
       IF r.type = "DIRECT_VIRTUAL"
       THEN LET n == v - r.original_base + r.offset IN
            /\ n \in DOMAIN MemfdFrames
            /\ m' = [m EXCEPT !.pte[v] = [frame |-> MemfdFrames[n], flags |-> r.flags]]
            /\ UNCHANGED holds
       ELSE \E f \in m.free :
            /\ m' = [m EXCEPT
                  !.pte[v] = [frame |-> f, flags |-> r.flags], !.free = @ \ {f},
                  !.ranges = (@ \ {r}) \cup {[r EXCEPT !.pages = @ \cup {f}]}]
            /\ holds' = [holds EXCEPT ![f] = Source(r, v)]
  /\ UNCHANGED <<anon_base, brk, prot>>

\* The process stores to a private page that is present and writable.
Write(v) ==
  /\ Idle /\ m.pte[v] # Null /\ m.pte[v].flags = "w" /\ m.pte[v].frame \notin Memfd
  /\ holds' = [holds EXCEPT ![m.pte[v].frame] = Written]
  /\ UNCHANGED <<m, anon_base, brk, prot>>

Next ==
  \/ \E len \in 1..NumPages :
       \/ \E flags \in Prots, prefer \in {"below", "above"}, base \in Pages,
             offset \in Offsets, type \in Types, fixed \in BOOLEAN :
            Mmap(type, fixed, base, len, offset, flags, prefer)
       \/ MmapFails(len)
       \/ \E base \in Pages :
            \/ Munmap(base, len) \/ Madvise(base, len)
            \/ \E flags \in Prots : Mprotect(base, len, flags)
  \/ \E prefer \in {"below", "above"} :
       \/ MprotectStep(prefer)
       \/ \E new \in 0..MmapBase : Brk(new, "w", prefer)
  \/ \E v \in Pages : Fault(v) \/ Write(v)

Spec == Init /\ [][Next]_vars

-----------------------------------------------------------------------------
\* However mappings are laid over each other, split and merged, no two ranges
\* share a page and none is empty: addr_to_range finds the one that counts
\* (vmm.cpp 397-443).
Disjoint ==
  /\ \A r \in m.ranges : r.base < r.end
  /\ \A r, s \in m.ranges : r # s => r.end <= s.base \/ s.end <= r.base

\* mmap without MAP_FIXED never replaces a mapping: nothing lies at or above
\* mmap_anon_base, although munmap lowers it (vmm.cpp 570-573, 605-606).
FreshMmapIsFree == \A r \in m.ranges : r.end <= anon_base

\* The page table never shows more than the ranges say: a present page lies in a
\* range, has that range's protection, and its frame is on the range's list.
\* And every physical page is in exactly one place: free, in the memfd, or on the
\* list of one range.  Nothing leaks and nothing is freed twice (vmm.cpp 400-530).
PagesAccounted ==
  /\ \A v \in Pages : m.pte[v] # Null =>
       \E r \in m.ranges :
        /\ r.base <= v /\ v < r.end
        /\ m.pte[v].flags = r.flags
        /\ r.type # "DIRECT_VIRTUAL" => m.pte[v].frame \in r.pages
  /\ \A f \in Frames :
       \/ f \in m.free
       \/ f \in Memfd
       \/ \E r \in m.ranges : f \in r.pages
  /\ \A r \in m.ranges : r.pages \cap (m.free \cup Memfd) = {}
  /\ \A r, s \in m.ranges : r # s => r.pages \cap s.pages = {}
  /\ \A r \in m.ranges : \A f \in r.pages : \E v \in Pages : m.pte[v] # Null /\ m.pte[v].frame = f

\* ASSERT(!page->free) in invalidate_page and free_page (vmm.cpp 513, pmm.cpp 126):
\* a page that a page table or the memfd's own mapping shows is not free.
NoFreePageInUse ==
  /\ Memfd \cap m.free = {}
  /\ \A v \in Pages : m.pte[v] # Null => m.pte[v].frame \notin m.free

\* What the process would see at page v.
Visible(v) ==
  IF RangeAt(v) = {} THEN Null
  ELSE LET r == CHOOSE x \in RangeAt(v) : TRUE IN
       [source |-> Source(r, v), prot |-> r.flags,
        data |-> IF m.pte[v] = Null THEN Source(r, v) ELSE holds[m.pte[v].frame]]

A == INSTANCE AddressSpace WITH mem <- [v \in Pages |-> Visible(v)]

\* The process sees what it asked for: every system call and page fault changes
\* what is visible as the abstract address space says.
ImplementsAddressSpace == A!Spec
=============================================================================
