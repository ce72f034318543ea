---------------------------- MODULE AddressSpace ----------------------------
(***************************************************************************)
(* What a process sees of mmap, munmap, mprotect, madvise and brk: each    *)
(* page is unmapped, or has contents and a protection.  A page starts with *)
(* the contents of the mapping's source and keeps what is written to it.   *)
(***************************************************************************)
EXTENDS Integers

CONSTANTS NumPages, Prots, Offsets, Null

Pages == 0..(NumPages - 1)

VARIABLE mem     \* [Pages -> [source, data, prot] or Null]

Zeros == <<"zero", 0>>
FilePage(n) == <<"file", n>>
Written == <<"written", 0>>

Init == mem = [v \in Pages |-> Null]

Put(V, new(_)) == mem' = [v \in Pages |-> IF v \in V THEN new(v) ELSE mem[v]]

Backed(source, prot) == [source |-> source, data |-> source, prot |-> prot]

MapZero(V, prot) == Put(V, LAMBDA v : Backed(Zeros, prot))

MapFile(V, lo, off, prot) == Put(V, LAMBDA v : Backed(FilePage(v - lo + off), prot))

Unmap(V) == Put(V, LAMBDA v : Null)

Protect(V, prot) ==
  /\ \A v \in V : mem[v] # Null
  /\ Put(V, LAMBDA v : [mem[v] EXCEPT !.prot = prot])

Write(v) == mem[v] # Null /\ Put({v}, LAMBDA u : [mem[u] EXCEPT !.data = Written])

\* MADV_DONTNEED: back to what the mapping started with.
Discard(V) ==
  Put({v \in V : mem[v] # Null}, LAMBDA v : [mem[v] EXCEPT !.data = mem[v].source])

Next ==
  \/ \E lo, hi \in 0..NumPages :
       \/ Unmap(lo..(hi - 1)) \/ Discard(lo..(hi - 1))
       \/ \E prot \in Prots :
            \/ Protect(lo..(hi - 1), prot)
            \/ MapZero(lo..(hi - 1), prot)
            \/ \E off \in Offsets : MapFile(lo..(hi - 1), lo, off, prot)
  \/ \E v \in Pages : Write(v)

Spec == Init /\ [][Next]_mem
=============================================================================
