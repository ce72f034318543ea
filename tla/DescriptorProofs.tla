-------------------------- MODULE DescriptorProofs --------------------------
(***************************************************************************)
(* The ring buffer, the descriptor table, and pipes.                       *)
(*                                                                         *)
(* IsFifo for the ring buffer that carries the bytes of pipes, terminals,  *)
(* sockets and input devices, for any size that divides 2^Width.  The      *)
(* inductive invariant says that the indices are at most size apart.       *)
(*                                                                         *)
(* For any number of processes, descriptions and table slots: the hint     *)
(* first_free_fdnum is valid, free slots carry no close-on-exec flag, and  *)
(* therefore open and dup return the lowest free descriptor.               *)
(*                                                                         *)
(* NoLostWakeup for pipes, for any number of threads, any capacity and any *)
(* counts.  The inductive invariant adds to it that all the sleepers are   *)
(* listed: a step that takes a sleeper's reason away triggers the one      *)
(* event on whose list the sleeper is.                                     *)
(***************************************************************************)
EXTENDS RingBuffer, FdTable, Pipe, WaitOpsProofs

-----------------------------------------------------------------------------
(* The ring buffer.  First, facts on sequences.                            *)

\* Sequences with the same elements are the same.
LEMMA SameElements ==
  ASSUME NEW S, NEW s \in Seq(S), NEW t \in Seq(S),
         Len(s) = Len(t), \A i \in 1..Len(s) : s[i] = t[i]
  PROVE  s = t
OBVIOUS

\* The elements of a concatenation.
LEMMA ConcatFacts ==
  ASSUME NEW S, NEW s \in Seq(S), NEW t \in Seq(S)
  PROVE  /\ s \o t \in Seq(S)
         /\ Len(s \o t) = Len(s) + Len(t)
         /\ \A i \in 1..(Len(s) + Len(t)) :
              (s \o t)[i] = IF i <= Len(s) THEN s[i] ELSE t[i - Len(s)]
OBVIOUS

\* All of a sequence.
LEMMA WholeSeq ==
  ASSUME NEW S, NEW s \in Seq(S)
  PROVE  SubSeq(s, 1, Len(s)) = s
OBVIOUS

-----------------------------------------------------------------------------
(* The arithmetic of indices that wrap.                                    *)

\* An integer is a multiple of n and a remainder.
LEMMA Quotient ==
  ASSUME NEW a \in Int, NEW n \in Nat \ {0}
  PROVE  a % n \in 0..(n - 1) /\ \E q \in Int : a = n * q + (a % n)
<1>1. a \div n \in Int /\ a % n \in 0..(n - 1) /\ a = n * (a \div n) + (a % n)
  OBVIOUS
<1> QED BY <1>1, Zenon

\* Where a remainder lies.
LEMMA RemainderRange ==
  ASSUME NEW a \in Int, NEW n \in Nat \ {0}
  PROVE  a % n \in 0..(n - 1) /\ a % n \in Int
BY Quotient

\* The remainder is the only one.
LEMMA Remainder ==
  ASSUME NEW n \in Nat \ {0}, NEW q \in Int, NEW r \in 0..(n - 1)
  PROVE  (n * q + r) % n = r
OBVIOUS

\* Products of the indices' laps, which the provers do not multiply out themselves.
LEMMA Distributes ==
  ASSUME NEW n \in Int, NEW x \in Int, NEW y \in Int
  PROVE  n * (x + y) = n * x + n * y /\ n * (x - y) = n * x - n * y /\ n * x \in Int /\ n * y \in Int
OBVIOUS

\* A multiple of n does not change the remainder.
LEMMA SameRemainder ==
  ASSUME NEW n \in Nat \ {0}, NEW a \in Int, NEW z \in Int
  PROVE  (a + n * z) % n = a % n
<1>1. PICK q \in Int : a = n * q + (a % n)
  BY Quotient, Zenon
<1>2. PICK r \in 0..(n - 1) : r = a % n
  BY Quotient, Zenon
<1>3. n * (q + z) = n * q + n * z /\ n * q \in Int /\ n * z \in Int /\ q + z \in Int
  BY Distributes
<1>4. a + n * z = n * (q + z) + r
  BY <1>1, <1>2, <1>3
<1>5. (n * (q + z) + r) % n = r
  BY ONLY <1>3, Remainder, n \in Nat \ {0}, r \in 0..(n - 1), Zenon
<1> QED BY <1>2, <1>4, <1>5, Zenon

\* ... and n itself does not.
LEMMA SameNextLap ==
  ASSUME NEW n \in Nat \ {0}, NEW a \in Int
  PROVE  (a + n) % n = a % n
<1>1. PICK z \in Int : z = 1
  OBVIOUS
<1>2. n * z = n
  BY <1>1
<1> QED BY <1>2, SameRemainder, ZenonT(30)

\* The place of element i, counted from 0 at index a, is after the place of a, or at
\* the beginning of the array once the end is passed.
LEMMA Position ==
  ASSUME NEW n \in Nat \ {0}, NEW a \in Int, NEW i \in 0..(n - 1)
  PROVE  (a + i) % n = IF (a % n) + i < n THEN (a % n) + i ELSE (a % n) + i - n
<1>1. PICK q \in Int : a = n * q + (a % n)
  BY Quotient, Zenon
<1>2. PICK r \in 0..(n - 1) : r = a % n
  BY Quotient, Zenon
<1>3. CASE r + i < n
  <2>1. r + i \in 0..(n - 1)
    BY <1>3
  <2>2. (n * q + (r + i)) % n = r + i
    BY <2>1, Remainder, Zenon
  <2>3. a + i = n * q + (r + i)
    BY <1>1, <1>2, Distributes
  <2> QED BY <1>2, <1>3, <2>2, <2>3, Zenon
<1>4. CASE ~(r + i < n)
  <2>1. r + i - n \in 0..(n - 1) /\ q + 1 \in Int
    BY <1>4
  <2>2. (n * (q + 1) + (r + i - n)) % n = r + i - n
    BY ONLY <2>1, Remainder, n \in Nat \ {0}, Zenon
  <2>3. PICK x \in Int, y \in Int : x = n * q /\ y = n * (q + 1) /\ y = x + n
    BY Distributes
  <2>4. a + i = y + (r + i - n)
    <3>1. a = x + r
      BY <1>1, <1>2, <2>3, Zenon
    <3> QED BY ONLY <2>3, <3>1, a \in Int, i \in 0..(n - 1), n \in Nat \ {0}, r \in 0..(n - 1)
  <2> QED BY <1>2, <1>4, <2>2, <2>3, <2>4, Zenon
<1> QED BY <1>3, <1>4, Zenon

\* A read index that moves on by c elements leaves c elements less between the indices.
LEMMA LessBetween ==
  ASSUME NEW m \in Nat \ {0}, NEW r \in 0..(m - 1), NEW v \in 0..(m - 1), NEW c \in 0..((v - r) % m)
  PROVE  (v - ((r + c) % m)) % m = ((v - r) % m) - c
<1>1. PICK x \in Int : x = v - r
  OBVIOUS
<1>2. PICK n \in 0..(m - 1) : n = x % m
  BY Quotient, Zenon
<1>3. PICK p \in Int : x = m * p + n
  BY <1>2, Quotient, Zenon
<1>4. PICK y \in Int : y = r + c
  BY <1>1, <1>2
<1>5. PICK d \in 0..(m - 1) : d = y % m
  BY Quotient, Zenon
<1>6. PICK q \in Int : y = m * q + d
  BY <1>5, Quotient, Zenon
<1>7. m * (p + q) = m * p + m * q /\ p + q \in Int /\ m * p \in Int /\ m * q \in Int
  BY Distributes
<1>8. n - c \in 0..(m - 1)
  BY <1>1, <1>2
<1>9. v - d = m * (p + q) + (n - c)
  BY <1>1, <1>2, <1>3, <1>4, <1>6, <1>7
<1>10. (m * (p + q) + (n - c)) % m = n - c
  BY ONLY <1>7, <1>8, Remainder, m \in Nat \ {0}, Zenon
<1> QED BY <1>1, <1>2, <1>4, <1>5, <1>9, <1>10, Zenon

\* A write index that moves on by c elements leaves c elements more between them.
LEMMA MoreBetween ==
  ASSUME NEW m \in Nat \ {0}, NEW r \in 0..(m - 1), NEW v \in 0..(m - 1), NEW c \in Nat,
         ((v - r) % m) + c < m
  PROVE  (((v + c) % m) - r) % m = ((v - r) % m) + c
<1>1. PICK x \in Int : x = v - r
  OBVIOUS
<1>2. PICK n \in 0..(m - 1) : n = x % m
  BY Quotient, Zenon
<1>3. PICK p \in Int : x = m * p + n
  BY <1>2, Quotient, Zenon
<1>4. PICK y \in Int : y = v + c
  BY <1>1, <1>2
<1>5. PICK d \in 0..(m - 1) : d = y % m
  BY Quotient, Zenon
<1>6. PICK q \in Int : y = m * q + d
  BY <1>5, Quotient, Zenon
<1>7. m * (p - q) = m * p - m * q /\ p - q \in Int /\ m * p \in Int /\ m * q \in Int
  BY Distributes
<1>8. n + c \in 0..(m - 1)
  BY <1>1, <1>2
<1>9. d - r = m * (p - q) + (n + c)
  BY <1>1, <1>2, <1>3, <1>4, <1>6, <1>7
<1>10. (m * (p - q) + (n + c)) % m = n + c
  BY ONLY <1>7, <1>8, Remainder, m \in Nat \ {0}, Zenon
<1> QED BY <1>1, <1>2, <1>4, <1>5, <1>9, <1>10, Zenon

\* The elements between the indices lead from one to the other.
LEMMA Reaches ==
  ASSUME NEW m \in Nat \ {0}, NEW r \in 0..(m - 1), NEW v \in 0..(m - 1)
  PROVE  (r + ((v - r) % m)) % m = v
<1>1. PICK x \in Int : x = v - r
  OBVIOUS
<1>2. PICK n \in 0..(m - 1) : n = x % m
  BY Quotient, Zenon
<1>3. PICK q \in Int : x = m * q + n
  BY <1>2, Quotient, Zenon
<1>4. PICK y \in Int, z \in Int : y = m * q /\ z = -q
  OBVIOUS
<1>5. m * z = - y
  BY <1>4
<1>6. r + n = m * z + v
  BY <1>1, <1>3, <1>4, <1>5
<1>7. (m * z + v) % m = v
  BY Remainder, Zenon
<1> QED BY <1>1, <1>2, <1>6, <1>7, Zenon

-----------------------------------------------------------------------------
\* What the indices wrap at.
M == 2^Width

\* The buffer is smaller than the range of an index: full and empty are different.
LEMMA Sizes == size \in Nat \ {0} /\ M \in Nat \ {0} /\ size < M
<1>1. PICK k \in 2..2^Width : 2^Width = k * size
  BY RingAssumption, Zenon
<1>2. size \in Nat \ {0} /\ k \in Nat /\ k >= 2
  BY <1>1, RingAssumption
<1>3. size < k * size /\ k * size \in Nat
  BY <1>2
<1> QED BY <1>1, <1>2, <1>3 DEF M

\* Positions do not notice that an index has wrapped.
LEMMA Wraps ==
  ASSUME NEW a \in Int, NEW i \in Int
  PROVE  ((a % M) + i) % size = (a + i) % size
<1>1. PICK k \in 2..2^Width : 2^Width = k * size
  BY RingAssumption, Zenon
<1>2. size \in Nat \ {0} /\ M \in Nat \ {0} /\ M = size * k
  BY <1>1, Sizes DEF M
<1>3. PICK r \in Int : r = a % M
  BY RemainderRange, Sizes, Zenon
<1>4. PICK q \in Int : a = M * q + r
  BY <1>2, <1>3, Quotient, Zenon
<1>5. PICK z \in Int : z = k * q
  BY <1>1
<1>6. M * q = size * z
  BY <1>2, <1>5
<1>7. a + i = (r + i) + size * z /\ r + i \in Int
  BY <1>2, <1>4, <1>6
<1>8. ((r + i) + size * z) % size = (r + i) % size
  BY <1>2, <1>7, SameRemainder, Zenon
<1> QED BY <1>3, <1>7, <1>8, Zenon

\* The inductive invariant: the indices are at most size apart.
RingInv ==
  /\ read_index \in 0..(M - 1) /\ write_index \in 0..(M - 1)
  /\ DataCount(read_index, write_index) \in 0..size
  /\ data \in [0..(size - 1) -> Values]

\* What is between the indices r and v of the array d.
Held(d, r, v) == [i \in 1..DataCount(r, v) |-> d[(r + i - 1) % size]]

\* The two passes of read copy what is there, in order.
LEMMA CopyOut ==
  ASSUME NEW r \in 0..(M - 1), NEW c \in 0..size
  PROVE  copy_out(r, c) = [i \in 1..c |-> data[(r + i - 1) % size]]
<1> DEFINE o == r % size
           first == min(c, size - o)
<1>0. r \in Int /\ size \in Nat \ {0}
  BY Sizes
<1>1. o \in 0..(size - 1)
  BY <1>0, Quotient, Zenon
<1> HIDE DEF o
<1>2. ASSUME NEW i \in 1..c
      PROVE  (IF i <= first THEN data[o + i - 1] ELSE data[i - first - 1]) = data[(r + i - 1) % size]
  <2>1. i - 1 \in 0..(size - 1) /\ r + (i - 1) = r + i - 1
    BY <1>0
  <2>2. PICK x : x = (r + i - 1) % size
    BY Zenon
  <2>3. x = IF o + (i - 1) < size THEN o + (i - 1) ELSE o + (i - 1) - size
    BY <1>0, <2>1, <2>2, Position, Zenon DEF o
  <2>4. CASE o + (i - 1) < size
    <3>1. i <= first /\ o + i - 1 = x
      BY <1>0, <1>1, <2>3, <2>4 DEF min
    <3> QED BY <2>2, <3>1, Zenon
  <2>5. CASE ~(o + (i - 1) < size)
    <3>1. ~(i <= first) /\ i - first - 1 = x
      BY <1>0, <1>1, <2>3, <2>5 DEF min
    <3> QED BY <2>2, <3>1, Zenon
  <2> QED BY <2>4, <2>5, Zenon
<1> QED BY <1>2, Zenon DEF copy_out, o

\* The buffer e is d with the first c elements of s from position v on.
Written(d, e, v, s, c) ==
  /\ \A j \in 0..(c - 1) : e[(v + j) % size] = s[j + 1]
  /\ \A j \in c..(size - 1) : e[(v + j) % size] = d[(v + j) % size]

\* The two passes of write fill the places from v on, and no other.
LEMMA CopyIn ==
  ASSUME NEW v \in 0..(M - 1), NEW s \in Seq(Values), NEW c \in 0..size, c <= Len(s),
         data \in [0..(size - 1) -> Values]
  PROVE  /\ copy_in(v, s, c) \in [0..(size - 1) -> Values]
         /\ Written(data, copy_in(v, s, c), v, s, c)
<1> DEFINE o == v % size
           first == min(c, size - o)
           new == copy_in(v, s, c)
<1>0. v \in Int /\ size \in Nat \ {0}
  BY Sizes
<1>1. o \in 0..(size - 1) /\ v \in Int /\ size \in Nat \ {0}
  BY <1>0, Quotient, Zenon
<1>2. first \in 0..c /\ first <= size - o /\ (first = c \/ first = size - o)
  BY <1>1 DEF min
<1>3. new = [i \in 0..(size - 1) |->
               IF i \in o..(o + first - 1) THEN s[i - o + 1]
               ELSE IF first < c /\ i < c - first THEN s[first + i + 1]
               ELSE data[i]]
  BY Zenon DEF copy_in
<1> HIDE DEF new, first, o
<1>4. ASSUME NEW j \in 0..(size - 1)
      PROVE  /\ (v + j) % size \in 0..(size - 1)
             /\ (v + j) % size = IF o + j < size THEN o + j ELSE o + j - size
  <2>1. (v + j) % size = IF o + j < size THEN o + j ELSE o + j - size
    BY <1>1, Position, Zenon DEF o
  <2> QED BY <1>1, <2>1
<1>5. ASSUME NEW j \in 0..(c - 1) PROVE new[(v + j) % size] = s[j + 1]
  <2>1. j \in 0..(size - 1)
    BY <1>1
  <2>2. CASE o + j < size
    <3>1. (v + j) % size = o + j /\ o + j \in o..(o + first - 1) /\ o + j \in 0..(size - 1)
      BY <1>1, <1>2, <1>4, <2>1, <2>2
    <3>2. (o + j) - o + 1 = j + 1
      BY <1>1
    <3> QED BY <1>3, <3>1, <3>2, Zenon
  <2>3. CASE ~(o + j < size)
    <3>1. PICK x \in 0..(size - 1) : x = (v + j) % size
      BY <1>4, <2>1, Zenon
    <3>2. x = o + j - size
      BY <1>4, <2>1, <2>3, <3>1, Zenon
    <3>3. /\ x \notin o..(o + first - 1)
          /\ first < c /\ x < c - first /\ first + x + 1 = j + 1
      BY ONLY <1>1, <1>2, <2>1, <2>3, <3>2, c \in 0..size, j \in 0..(c - 1)
    <3> QED BY <1>3, <3>1, <3>3, Zenon
  <2> QED BY <2>2, <2>3, Zenon
<1>6. ASSUME NEW j \in c..(size - 1) PROVE new[(v + j) % size] = data[(v + j) % size]
  <2>1. j \in 0..(size - 1)
    BY <1>1
  <2>2. CASE o + j < size
    <3>1. /\ (v + j) % size = o + j /\ o + j \notin o..(o + first - 1) /\ o + j \in 0..(size - 1)
          /\ ~(first < c /\ o + j < c - first)
      BY <1>1, <1>2, <1>4, <2>1, <2>2
    <3> QED BY <1>3, <3>1, Zenon
  <2>3. CASE ~(o + j < size)
    <3>1. PICK x \in 0..(size - 1) : x = (v + j) % size
      BY <1>4, <2>1, Zenon
    <3>2. x = o + j - size
      BY <1>4, <2>1, <2>3, <3>1, Zenon
    <3>3. /\ x \notin o..(o + first - 1)
          /\ ~(first < c /\ x < c - first)
      BY ONLY <1>1, <1>2, <2>1, <2>3, <3>2, c \in 0..size, j \in c..(size - 1)
    <3> QED BY <1>3, <3>1, <3>3, Zenon
  <2> QED BY <2>2, <2>3, Zenon
<1>7. new \in [0..(size - 1) -> Values]
  <2>1. \A i \in 1..Len(s) : s[i] \in Values
    OBVIOUS
  <2>2. Len(s) \in Nat
    OBVIOUS
  <2>3. ASSUME NEW i \in 0..(size - 1) PROVE new[i] \in Values
    <3>1. CASE i \in o..(o + first - 1)
      <4>1. i - o + 1 \in 1..Len(s)
        BY <1>1, <1>2, <2>2, <3>1
      <4> QED BY <1>3, <2>1, <3>1, <4>1, Zenon
    <3>2. CASE i \notin o..(o + first - 1) /\ first < c /\ i < c - first
      <4>1. first + i + 1 \in 1..Len(s)
        BY <1>1, <1>2, <2>2, <3>2
      <4> QED BY <1>3, <2>1, <3>2, <4>1, Zenon
    <3>3. CASE i \notin o..(o + first - 1) /\ ~(first < c /\ i < c - first)
      BY <1>3, <3>3, Zenon
    <3> QED BY <3>1, <3>2, <3>3, Zenon
  <2> QED BY <1>3, <2>3, Zenon
<1> QED BY <1>5, <1>6, <1>7, Zenon DEF new, Written

-----------------------------------------------------------------------------
\* Moving the read index on by c elements takes the first c of them away.
LEMMA HeldAfterRead ==
  ASSUME NEW d \in [0..(size - 1) -> Values], NEW r \in 0..(M - 1), NEW v \in 0..(M - 1),
         NEW c \in 0..DataCount(r, v)
  PROVE  /\ (r + c) % M \in 0..(M - 1)
         /\ DataCount((r + c) % M, v) = DataCount(r, v) - c
         /\ Held(d, (r + c) % M, v) = [i \in 1..(DataCount(r, v) - c) |-> Held(d, r, v)[c + i]]
<1>0. M \in Nat \ {0} /\ DataCount(r, v) = (v - r) % M /\ v - r \in Int
  BY Sizes DEF DataCount, M
<1>1. M \in Nat \ {0} /\ DataCount(r, v) = (v - r) % M /\ DataCount(r, v) \in 0..(M - 1)
  BY <1>0, Quotient, Zenon
<1>2. r + c \in Int /\ c \in 0..((v - r) % M)
  BY <1>1
<1>3. PICK x \in 0..(M - 1) : x = (r + c) % M
  BY <1>1, <1>2, Quotient, Zenon
<1>4. DataCount(x, v) = DataCount(r, v) - c
  <2>1. (v - ((r + c) % M)) % M = ((v - r) % M) - c
    BY <1>1, <1>2, LessBetween, Zenon
  <2> QED BY <1>1, <1>3, <2>1, Zenon DEF DataCount, M
<1>5. ASSUME NEW i \in 1..(DataCount(r, v) - c)
      PROVE  (x + i - 1) % size = (r + (c + i) - 1) % size
  <2>1. i - 1 \in Int /\ x + i - 1 = x + (i - 1) /\ r + (c + i) - 1 = (r + c) + (i - 1)
    BY <1>1, <1>2
  <2> QED BY <1>2, <1>3, <2>1, Wraps
<1>6. ASSUME NEW i \in 1..(DataCount(r, v) - c)
      PROVE  Held(d, r, v)[c + i] = d[(x + i - 1) % size]
  <2>1. c + i \in 1..DataCount(r, v)
    BY <1>1
  <2> QED BY <1>5, <2>1, Zenon DEF Held
<1> QED BY <1>3, <1>4, <1>6, Zenon DEF Held

\* Writing c elements at the write index appends them.
LEMMA HeldAfterWrite ==
  ASSUME NEW d \in [0..(size - 1) -> Values], NEW e \in [0..(size - 1) -> Values],
         NEW r \in 0..(M - 1), NEW v \in 0..(M - 1), DataCount(r, v) \in 0..size,
         NEW s, NEW c \in 0..(size - DataCount(r, v)),
         Written(d, e, v, s, c)
  PROVE  /\ (v + c) % M \in 0..(M - 1)
         /\ DataCount(r, (v + c) % M) = DataCount(r, v) + c
         /\ \A i \in 1..(DataCount(r, v) + c) :
              Held(e, r, (v + c) % M)[i] =
                IF i <= DataCount(r, v) THEN Held(d, r, v)[i] ELSE s[i - DataCount(r, v)]
<1>0. size \in Nat
  BY Sizes, Zenon
<1>1. M \in Nat \ {0} /\ DataCount(r, v) = (v - r) % M /\ size < M /\ size \in Nat \ {0}
  BY Sizes, Zenon DEF DataCount, M
<1>2. PICK n \in 0..size : n = DataCount(r, v)
  BY Zenon
<1>3. v + c \in Int /\ c \in Nat /\ n + c < M /\ c \in 0..(size - n)
  BY <1>1, <1>2
<1>4. PICK x \in 0..(M - 1) : x = (v + c) % M
  BY <1>1, <1>3, Quotient, Zenon
<1>5. DataCount(r, x) = n + c
  <2>1. (((v + c) % M) - r) % M = ((v - r) % M) + c
    BY <1>1, <1>2, <1>3, MoreBetween, Zenon
  <2> QED BY <1>1, <1>2, <1>4, <2>1, Zenon DEF DataCount, M
<1>6. ASSUME NEW j \in Int PROVE (r + n + j) % size = (v + j) % size
  <2>1. PICK y \in Int : y = r + n
    BY <1>2
  <2>2. y % M = v
    BY <1>1, <1>2, <2>1, Reaches, Zenon
  <2>3. ((y % M) + j) % size = (y + j) % size
    BY Wraps, Zenon
  <2> QED BY <2>1, <2>2, <2>3, Zenon
<1>7. ASSUME NEW i \in 1..n PROVE e[(r + i - 1) % size] = d[(r + i - 1) % size]
  <2>1. PICK j \in c..(size - 1) : j = (i - 1 - n) + size
    BY <1>1, <1>3
  <2>2. PICK k \in Int : k = i - 1 - n
    BY <1>2
  <2>3. (r + n + k) % size = (v + k) % size
    BY <1>6, Zenon
  <2>4. PICK y \in Int : y = v + k
    OBVIOUS
  <2>5. (y + size) % size = y % size
    BY ONLY <1>1, SameNextLap, y \in Int, Zenon
  <2>6. r + n + k = r + i - 1 /\ y + size = v + j
    BY <1>0, <2>1, <2>2, <2>4
  <2>7. e[(v + j) % size] = d[(v + j) % size]
    BY <2>1, Zenon DEF Written
  <2> QED BY <2>3, <2>4, <2>5, <2>6, <2>7, Zenon
<1>8. ASSUME NEW i \in (n + 1)..(n + c) PROVE e[(r + i - 1) % size] = s[i - n]
  <2>1. PICK j \in 0..(c - 1) : j = i - 1 - n
    BY <1>2, <1>3
  <2>2. (r + n + j) % size = (v + j) % size
    <3>1. j \in Int
      BY <1>3
    <3> QED BY ONLY <1>6, <3>1, Zenon
  <2>3. r + n + j = r + i - 1 /\ j + 1 = i - n
    BY <1>2, <2>1
  <2>4. e[(v + j) % size] = s[j + 1]
    BY <2>1, Zenon DEF Written
  <2> QED BY <2>2, <2>3, <2>4, Zenon
<1>9. ASSUME NEW i \in 1..(n + c)
      PROVE  e[(r + i - 1) % size] = IF i <= n THEN Held(d, r, v)[i] ELSE s[i - n]
  <2>1. CASE i <= n
    BY <1>2, <1>7, <2>1 DEF Held
  <2>2. CASE ~(i <= n)
    <3>1. i \in (n + 1)..(n + c)
      BY <1>2, <1>3, <2>2
    <3> QED BY <1>8, <2>2, <3>1, Zenon
  <2> QED BY <2>1, <2>2, Zenon
<1> QED BY <1>2, <1>4, <1>5, <1>9, Zenon DEF Held

-----------------------------------------------------------------------------
\* It is a sequence as long as data_count says.
LEMMA HeldSeq ==
  ASSUME NEW d \in [0..(size - 1) -> Values], NEW r \in 0..(M - 1), NEW v \in 0..(M - 1)
  PROVE  Held(d, r, v) \in Seq(Values) /\ Len(Held(d, r, v)) = DataCount(r, v)
         /\ DataCount(r, v) \in Nat
<1>1. PICK n \in Nat : n = DataCount(r, v)
  <2>1. PICK x \in Int : x = v - r
    BY Sizes
  <2>2. x % M \in Nat
    BY Sizes, RemainderRange
  <2> QED BY <2>1, <2>2, Zenon DEF DataCount, M
<1>2. ASSUME NEW i \in 1..n PROVE d[(r + i - 1) % size] \in Values
  <2>1. r + i - 1 \in Int
    BY <1>1
  <2> QED BY <2>1, Sizes, RemainderRange, Zenon
<1>3. Held(d, r, v) = [i \in 1..n |-> d[(r + i - 1) % size]]
  BY <1>1, Zenon DEF Held
<1> QED BY <1>1, <1>2, <1>3

\* The beginning and the end of a sequence, element by element.
LEMMA Parts ==
  ASSUME NEW V, NEW s \in Seq(V), NEW c \in 0..Len(s)
  PROVE  /\ SubSeq(s, 1, c) = [i \in 1..c |-> s[i]]
         /\ SubSeq(s, c + 1, Len(s)) = [i \in 1..(Len(s) - c) |-> s[c + i]]
         /\ SubSeq(s, 1, c) \in Seq(V) /\ SubSeq(s, c + 1, Len(s)) \in Seq(V)
         /\ Len(SubSeq(s, 1, c)) = c /\ Len(SubSeq(s, c + 1, Len(s))) = Len(s) - c
OBVIOUS

\* Facts about the state that every step starts from.
LEMMA Now ==
  ASSUME RingInv
  PROVE  /\ Contents = Held(data, read_index, write_index)
         /\ Contents \in Seq(Values) /\ Len(Contents) = DataCount(read_index, write_index)
         /\ Len(Contents) \in 0..size
<1>1. Contents = Held(data, read_index, write_index)
  BY Zenon DEF Contents, Held
<1> QED BY <1>1, HeldSeq, Zenon DEF RingInv

\* The read index after at most n elements more: truncate, and read.
LEMMA Drops ==
  ASSUME RingInv, NEW n \in Nat
  PROVE  /\ min(n, DataCount(read_index, write_index)) = Queue!Least(n, Len(Contents))
         /\ min(n, DataCount(read_index, write_index)) \in 0..Len(Contents)
         /\ truncated(n) \in 0..(M - 1)
         /\ Held(data, truncated(n), write_index) = Queue!Rest(Contents, n)
         /\ DataCount(truncated(n), write_index) = Len(Queue!Rest(Contents, n))
         /\ Len(Queue!Rest(Contents, n)) = Len(Contents) - Queue!Least(n, Len(Contents))
         /\ Queue!Rest(Contents, n) \in Seq(Values)
<1> DEFINE c == min(n, DataCount(read_index, write_index))
<1>1. Len(Contents) = DataCount(read_index, write_index) /\ Len(Contents) \in 0..size /\ size \in Nat
  BY Now, Sizes, Zenon
<1>2. c = Queue!Least(n, Len(Contents)) /\ c \in 0..Len(Contents)
  BY <1>1 DEF min, Queue!Least
<1>3. truncated(n) = (read_index + c) % M
  BY Zenon DEF truncated, M
<1> HIDE DEF c
<1>4. /\ truncated(n) \in 0..(M - 1)
      /\ DataCount(truncated(n), write_index) = Len(Contents) - c
      /\ Held(data, truncated(n), write_index) = [i \in 1..(Len(Contents) - c) |-> Contents[c + i]]
  <2>1. /\ data \in [0..(size - 1) -> Values] /\ read_index \in 0..(M - 1)
        /\ write_index \in 0..(M - 1) /\ c \in 0..DataCount(read_index, write_index)
    BY <1>1, <1>2, Zenon DEF RingInv
  <2>2. /\ (read_index + c) % M \in 0..(M - 1)
        /\ DataCount((read_index + c) % M, write_index) = DataCount(read_index, write_index) - c
        /\ Held(data, (read_index + c) % M, write_index)
             = [i \in 1..(DataCount(read_index, write_index) - c) |->
                  Held(data, read_index, write_index)[c + i]]
    BY ONLY <2>1, HeldAfterRead
  <2> QED BY ONLY <1>1, <1>3, <2>2, RingInv, Now, Zenon
<1>5. /\ SubSeq(Contents, c + 1, Len(Contents)) = [i \in 1..(Len(Contents) - c) |-> Contents[c + i]]
      /\ SubSeq(Contents, c + 1, Len(Contents)) \in Seq(Values)
      /\ Len(SubSeq(Contents, c + 1, Len(Contents))) = Len(Contents) - c
  BY <1>2, Now, Parts
<1>6. Queue!Rest(Contents, n) = SubSeq(Contents, c + 1, Len(Contents))
  BY <1>2, Zenon DEF Queue!Rest
<1> QED BY <1>2, <1>4, <1>5, <1>6, Zenon DEF c

\* truncate and read, as steps.
LEMMA DropsTo ==
  ASSUME RingInv, NEW n \in Nat, read_index' = truncated(n), UNCHANGED <<write_index, data>>
  PROVE  RingInv' /\ Contents' = Queue!Rest(Contents, n)
<1>1. /\ truncated(n) \in 0..(M - 1)
      /\ Held(data, truncated(n), write_index) = Queue!Rest(Contents, n)
      /\ DataCount(truncated(n), write_index) = Len(Queue!Rest(Contents, n))
      /\ Len(Queue!Rest(Contents, n)) = Len(Contents) - Queue!Least(n, Len(Contents))
  BY Drops, Zenon
<1>2. Len(Contents) \in 0..size /\ size \in Nat
  BY Now, Sizes, Zenon
<1>3. Len(Contents) - Queue!Least(n, Len(Contents)) \in 0..size
  BY <1>2 DEF Queue!Least
<1>4. Contents' = Held(data, truncated(n), write_index)
  BY Zenon DEF Contents, Held
<1> QED BY <1>1, <1>3, <1>4, Zenon DEF RingInv

\* read takes the oldest elements (ring_buffer.hpp 24-39).
LEMMA ReadStep ==
  ASSUME RingInv, NEW n \in Nat, RingRead(n)
  PROVE  RingInv' /\ Queue!Pop(n)
<1> DEFINE c == min(n, DataCount(read_index, write_index))
<1>0. Len(Contents) = DataCount(read_index, write_index) /\ Len(Contents) \in 0..size /\ size \in Nat
  BY Now, Sizes, Zenon
<1>1. c = Queue!Least(n, Len(Contents)) /\ c \in 0..Len(Contents) /\ c \in 0..size
  BY <1>0 DEF min, Queue!Least
<1>2. read_index' = truncated(n) /\ UNCHANGED <<write_index, data>> /\ out' = copy_out(read_index, c)
  BY Zenon DEF RingRead, truncated
<1> HIDE DEF c
<1>3. RingInv' /\ Contents' = Queue!Rest(Contents, n)
  BY <1>2, DropsTo, Zenon
<1>4. out' = SubSeq(Contents, 1, c)
  <2>1. copy_out(read_index, c) = [i \in 1..c |-> data[(read_index + i - 1) % size]]
    BY <1>1, CopyOut, Zenon DEF RingInv
  <2>2. SubSeq(Contents, 1, c) = [i \in 1..c |-> Contents[i]]
    BY <1>1, Now, Parts
  <2>3. ASSUME NEW i \in 1..c PROVE Contents[i] = data[(read_index + i - 1) % size]
    <3>1. i \in 1..DataCount(read_index, write_index)
      BY <1>0, <1>1
    <3> QED BY <3>1, Zenon DEF Contents
  <2> QED BY <1>2, <2>1, <2>2, <2>3, Zenon
<1> QED BY <1>1, <1>3, <1>4, Zenon DEF Queue!Pop, Queue!Prefix

\* write, with the read index at r, appends what fits to the elements from r on.
LEMMA WriteStep ==
  ASSUME RingInv, NEW s \in Seq(Values), NEW r \in 0..(M - 1),
         DataCount(r, write_index) \in 0..size, write_at(r, s),
         NEW kept, kept = Held(data, r, write_index)
  PROVE  RingInv' /\ Contents' = kept \o Queue!Prefix(s, size - Len(kept))
<1>1. kept \in Seq(Values) /\ Len(kept) = DataCount(r, write_index) /\ Len(kept) \in 0..size
      /\ size \in Nat /\ Len(s) \in Nat
  BY HeldSeq, Sizes DEF RingInv
<1> DEFINE c == min(Len(s), FreeCount(r, write_index))
<1>2. c = Queue!Least(size - Len(kept), Len(s)) /\ c \in 0..(size - Len(kept)) /\ c \in 0..Len(s)
      /\ c \in 0..size
  BY <1>1 DEF min, FreeCount, Queue!Least
<1>3. /\ read_index' = r /\ data' = copy_in(write_index, s, c)
      /\ write_index' = (write_index + c) % M /\ out' = out
  BY Zenon DEF write_at, M
<1> HIDE DEF c
<1>4. data' \in [0..(size - 1) -> Values] /\ Written(data, data', write_index, s, c)
  <2>1. /\ write_index \in 0..(M - 1) /\ c <= Len(s) /\ c \in 0..size
        /\ data \in [0..(size - 1) -> Values]
    BY <1>1, <1>2 DEF RingInv
  <2> QED BY ONLY <1>3, <2>1, CopyIn, s \in Seq(Values), Zenon
<1>5. /\ write_index' \in 0..(M - 1)
      /\ DataCount(r, write_index') = Len(kept) + c
      /\ \A i \in 1..(Len(kept) + c) :
           Held(data', r, write_index')[i] = IF i <= Len(kept) THEN kept[i] ELSE s[i - Len(kept)]
  <2>1. /\ data \in [0..(size - 1) -> Values] /\ write_index \in 0..(M - 1)
        /\ c \in 0..(size - DataCount(r, write_index))
    BY <1>1, <1>2, Zenon DEF RingInv
  <2>2. PICK e \in [0..(size - 1) -> Values] :
          e = data' /\ Written(data, e, write_index, s, c)
    BY <1>4, Zenon
  <2>3. /\ (write_index + c) % M \in 0..(M - 1)
        /\ DataCount(r, (write_index + c) % M) = DataCount(r, write_index) + c
        /\ \A i \in 1..(DataCount(r, write_index) + c) :
             Held(e, r, (write_index + c) % M)[i] =
               IF i <= DataCount(r, write_index) THEN Held(data, r, write_index)[i]
               ELSE s[i - DataCount(r, write_index)]
    BY ONLY <2>1, <2>2, HeldAfterWrite, r \in 0..(M - 1), DataCount(r, write_index) \in 0..size
  <2> QED BY ONLY <1>1, <1>3, <2>2, <2>3, kept = Held(data, r, write_index), Zenon
<1>6. PICK t \in Seq(Values) :
        /\ t = Queue!Prefix(s, size - Len(kept)) /\ Len(t) = c
        /\ \A i \in 1..c : t[i] = s[i]
  <2>1. Queue!Prefix(s, size - Len(kept)) = SubSeq(s, 1, c)
    BY <1>2, Zenon DEF Queue!Prefix
  <2>2. /\ SubSeq(s, 1, c) = [i \in 1..c |-> s[i]] /\ SubSeq(s, 1, c) \in Seq(Values)
        /\ Len(SubSeq(s, 1, c)) = c
    BY ONLY <1>2, Parts, s \in Seq(Values)
  <2> QED BY <2>1, <2>2, Zenon
<1>7. /\ kept \o t \in Seq(Values) /\ Len(kept \o t) = Len(kept) + c
      /\ \A i \in 1..(Len(kept) + c) : (kept \o t)[i] = IF i <= Len(kept) THEN kept[i] ELSE t[i - Len(kept)]
  BY ONLY <1>1, <1>6, ConcatFacts, ZenonT(30)
<1>8. ASSUME NEW i \in 1..(Len(kept) + c), ~(i <= Len(kept))
      PROVE  t[i - Len(kept)] = s[i - Len(kept)]
  <2>1. i - Len(kept) \in 1..c
    BY <1>1, <1>2, <1>8
  <2> QED BY <1>6, <2>1, Zenon
<1>9. RingInv'
  <2>1. Len(kept) + c \in 0..size
    BY ONLY <1>1, <1>2
  <2> QED BY <1>1, <1>3, <1>4, <1>5, <2>1, Zenon DEF RingInv
<1>10. PICK h : h = Contents' /\ h = Held(data', r, write_index')
  BY <1>3, Zenon DEF Contents, Held
<1>11. h \in Seq(Values) /\ Len(h) = Len(kept) + c
  BY <1>4, <1>5, <1>10, HeldSeq, Zenon
<1>12. \A i \in 1..(Len(kept) + c) : h[i] = (kept \o t)[i]
  BY <1>5, <1>7, <1>8, <1>10
<1>13. h = kept \o t
  BY ONLY <1>7, <1>11, <1>12, SameElements, Zenon
<1> QED BY <1>6, <1>9, <1>10, <1>13, Zenon

\* write (ring_buffer.hpp 41-57).
LEMMA PushStep ==
  ASSUME RingInv, NEW s \in Seq(Values), RingWrite(s)
  PROVE  RingInv' /\ Queue!Push(s)
<1>1. /\ read_index \in 0..(M - 1) /\ DataCount(read_index, write_index) \in 0..size
      /\ write_at(read_index, s) /\ Contents = Held(data, read_index, write_index)
  BY Now, Zenon DEF RingInv, RingWrite
<1>2. RingInv' /\ Contents' = Contents \o Queue!Prefix(s, size - Len(Contents))
  BY ONLY <1>1, WriteStep, RingInv, s \in Seq(Values), Zenon
<1>3. out' = out
  BY Zenon DEF RingWrite, write_at
<1> QED BY <1>2, <1>3, Zenon DEF Queue!Push

\* write_truncate makes room, and then writes all it was given if that fits at all.
LEMMA EvictStep ==
  ASSUME RingInv, NEW s \in Seq(Values), RingWriteTruncate(s)
  PROVE  /\ RingInv' /\ Queue!PushEvict(s)
         /\ Len(s) <= size =>
              /\ Len(Contents') >= Len(s)
              /\ SubSeq(Contents', Len(Contents') - Len(s) + 1, Len(Contents')) = s
<1> DEFINE evicts == FreeCount(read_index, write_index) < Len(s)
           r == IF evicts THEN truncated(Len(s)) ELSE read_index
           kept == IF size - Len(Contents) < Len(s) THEN Queue!Rest(Contents, Len(s)) ELSE Contents
<1>1. /\ Contents = Held(data, read_index, write_index) /\ Contents \in Seq(Values)
      /\ Len(Contents) = DataCount(read_index, write_index)
      /\ Len(Contents) \in 0..size /\ size \in Nat /\ Len(s) \in Nat
  BY Now, Sizes
<1>2. evicts <=> size - Len(Contents) < Len(s)
  BY <1>1, Zenon DEF FreeCount
<1>3. /\ r \in 0..(M - 1) /\ DataCount(r, write_index) = Len(kept)
      /\ kept = Held(data, r, write_index) /\ kept \in Seq(Values)
      /\ Len(kept) = IF evicts THEN Len(Contents) - Queue!Least(Len(s), Len(Contents)) ELSE Len(Contents)
  <2>1. CASE evicts
    BY <1>1, <1>2, <2>1, Drops, Zenon
  <2>2. CASE ~evicts
    BY <1>1, <1>2, <2>2, Zenon DEF RingInv
  <2> QED BY <2>1, <2>2, Zenon
<1>4. Len(kept) \in 0..size /\ (Len(s) <= size => Len(s) <= size - Len(kept))
  BY <1>1, <1>2, <1>3 DEF Queue!Least
<1>5. write_at(r, s) /\ out' = out
  BY Zenon DEF RingWriteTruncate, write_at
<1> HIDE DEF r, evicts
<1>6. PICK k \in Seq(Values) : k = kept
  BY <1>3, Zenon
<1> HIDE DEF kept
<1>7. RingInv' /\ Contents' = k \o Queue!Prefix(s, size - Len(k))
  BY ONLY <1>3, <1>4, <1>5, <1>6, WriteStep, RingInv, s \in Seq(Values), Zenon
<1>8. Queue!PushEvict(s)
  BY <1>5, <1>6, <1>7, Zenon DEF Queue!PushEvict, kept
<1>9. ASSUME Len(s) <= size
      PROVE  /\ Len(Contents') >= Len(s)
             /\ SubSeq(Contents', Len(Contents') - Len(s) + 1, Len(Contents')) = s
  <2>1. Queue!Least(size - Len(k), Len(s)) = Len(s)
    BY <1>1, <1>4, <1>6, <1>9 DEF Queue!Least
  <2>2. Queue!Prefix(s, size - Len(k)) = s
    <3>1. Queue!Prefix(s, size - Len(k)) = SubSeq(s, 1, Len(s))
      BY <2>1, Zenon DEF Queue!Prefix
    <3> QED BY <3>1, WholeSeq, Zenon
  <2>3. Contents' = k \o s
    BY <1>7, <2>2, Zenon
  <2>4. Len(k \o s) = Len(k) + Len(s) /\ Len(k) \in Nat
    BY ConcatFacts
  <2>5. SubSeq(k \o s, Len(k) + 1, Len(k) + Len(s)) = s
    BY <1>1, <2>4
  <2>6. Len(k \o s) - Len(s) + 1 = Len(k) + 1 /\ Len(k \o s) >= Len(s)
    BY <1>1, <2>4
  <2> QED BY <2>3, <2>4, <2>5, <2>6, Zenon
<1> QED BY <1>7, <1>8, <1>9, Zenon

\* peek gives the oldest element, if there is one.
LEMMA PeekStep ==
  ASSUME RingInv, RingPeek
  PROVE  RingInv' /\ Queue!Peek
<1>1. /\ Contents \in Seq(Values) /\ Len(Contents) = DataCount(read_index, write_index)
      /\ Len(Contents) \in Nat
  BY Now
<1>2. UNCHANGED <<read_index, write_index, data>>
  BY Zenon DEF RingPeek
<1>3. RingInv' /\ Contents' = Contents
  BY <1>2, Zenon DEF RingInv, Contents, DataCount
<1>4. out' = Queue!Prefix(Contents, 1)
  <2>1. CASE Len(Contents) = 0
    <3>1. Queue!Prefix(Contents, 1) = SubSeq(Contents, 1, 0)
      BY <2>1 DEF Queue!Prefix, Queue!Least
    <3> QED BY <1>1, <2>1, <3>1 DEF RingPeek
  <2>2. CASE Len(Contents) # 0
    <3>1. Queue!Prefix(Contents, 1) = SubSeq(Contents, 1, 1)
      BY <1>1, <2>2 DEF Queue!Prefix, Queue!Least
    <3>2. SubSeq(Contents, 1, 1) = <<Contents[1]>>
      <4>0. PICK c \in 0..Len(Contents) : c = 1
        BY <1>1, <2>2
      <4>1. PICK h \in Seq(Values) : h = SubSeq(Contents, 1, 1) /\ Len(h) = 1 /\ h[1] = Contents[1]
        <5>1. /\ SubSeq(Contents, 1, c) = [i \in 1..c |-> Contents[i]]
              /\ SubSeq(Contents, 1, c) \in Seq(Values) /\ Len(SubSeq(Contents, 1, c)) = c
          BY ONLY <1>1, Parts, c \in 0..Len(Contents)
        <5>2. SubSeq(Contents, 1, c)[c] = Contents[c]
          BY <4>0, <5>1
        <5>3. SubSeq(Contents, 1, c) = SubSeq(Contents, 1, 1)
          BY <4>0, Zenon
        <5> QED BY <4>0, <5>1, <5>2, <5>3, Zenon
      <4>2. PICK x \in Values : x = Contents[1]
        BY <1>1, <2>2
      <4>3. <<x>> \in Seq(Values) /\ Len(<<x>>) = 1 /\ <<x>>[1] = x
        OBVIOUS
      <4>4. \A i \in 1..1 : h[i] = <<x>>[i]
        BY <4>1, <4>2, <4>3
      <4>5. h = <<x>>
        BY ONLY <4>1, <4>3, <4>4, SameElements, Zenon
      <4> QED BY <4>1, <4>2, <4>5, Zenon
    <3>3. Contents[1] = data[read_index % size]
      BY <1>1, <2>2 DEF Contents, RingInv
    <3> QED BY <1>1, <2>2, <3>1, <3>2, <3>3, Zenon DEF RingPeek
  <2> QED BY <2>1, <2>2, Zenon
<1> QED BY <1>3, <1>4, Zenon DEF Queue!Peek

\* The ring buffer is a bounded FIFO queue for every size that divides the range of an
\* index: the two copies of read and write, split at the end of the array, and indices
\* that wrap do not show; and write_truncate gives up older elements only
\* (ring_buffer.hpp 24-73).
THEOREM RingBufferIsFifo == RingSpec => IsFifo
<1>1. RingInit => RingInv /\ Queue!Init
  <2> SUFFICES ASSUME RingInit PROVE RingInv /\ Queue!Init
    BY Zenon
  <2>1. DataCount(0, 0) = 0
    BY Sizes DEF DataCount, M
  <2>2. Contents = <<>>
    BY <2>1 DEF RingInit, Contents
  <2> QED BY <2>1, <2>2, Sizes DEF RingInit, RingInv, Queue!Init
<1>2. ASSUME RingInv, [RingNext]_ring_vars
      PROVE  /\ RingInv' /\ [Queue!Next]_<<Contents, out>>
             /\ \A s \in Inputs : RingWriteTruncate(s) /\ Len(s) <= size =>
                  LET n == Len(Contents') IN
                  n >= Len(s) /\ SubSeq(Contents', n - Len(s) + 1, n) = s
  <2>0. Inputs \subseteq Seq(Values) /\ 0..MaxCount \subseteq Nat
    BY RingAssumption
  <2>1. ASSUME NEW s \in Inputs, RingWrite(s) PROVE RingInv' /\ Queue!Next
    BY <2>0, <2>1, <1>2, PushStep, Zenon DEF Queue!Next
  <2>2. ASSUME NEW s \in Inputs, RingWriteTruncate(s) PROVE RingInv' /\ Queue!Next
    BY <2>0, <2>2, <1>2, EvictStep, Zenon DEF Queue!Next
  <2>3. ASSUME NEW n \in 0..MaxCount, RingRead(n) PROVE RingInv' /\ Queue!Next
    BY <2>0, <2>3, <1>2, ReadStep, Zenon DEF Queue!Next
  <2>4. ASSUME NEW n \in 0..MaxCount, RingTruncate(n) PROVE RingInv' /\ Queue!Next
    BY <2>0, <2>4, <1>2, DropsTo, Zenon DEF Queue!Next, RingTruncate, Queue!Drop
  <2>5. ASSUME RingPeek PROVE RingInv' /\ Queue!Next
    BY <1>2, <2>5, PeekStep, Zenon DEF Queue!Next
  <2>6. ASSUME UNCHANGED ring_vars PROVE RingInv' /\ UNCHANGED <<Contents, out>>
    BY <1>2, <2>6, Zenon DEF ring_vars, RingInv, Contents, DataCount
  <2>7. RingInv' /\ [Queue!Next]_<<Contents, out>>
    BY <1>2, <2>1, <2>2, <2>3, <2>4, <2>5, <2>6, Zenon DEF RingNext
  <2>8. \A s \in Inputs : RingWriteTruncate(s) /\ Len(s) <= size =>
          LET n == Len(Contents') IN n >= Len(s) /\ SubSeq(Contents', n - Len(s) + 1, n) = s
    BY <1>2, <2>0, EvictStep, Zenon
  <2> QED BY <2>7, <2>8, Zenon
<1> QED BY <1>1, <1>2, PTL DEF RingSpec, IsFifo, Queue!Spec, KeepsNewest

-----------------------------------------------------------------------------
(* Descriptors.                                                            *)

\* The part of the tables that the invariants are about.
FdTypes ==
  /\ alive \subseteq Procs
  /\ desc \in [Procs -> [Fds -> Descs \cup {NoDesc}]]
  /\ cloexec \in [Procs -> [Fds -> BOOLEAN]]
  /\ slots \in [Procs -> 0..MaxFds]
  /\ first_free \in [Procs -> 0..MaxFds]
  /\ unused \subseteq Descs

Hints ==
  \A p \in Procs : /\ first_free[p] <= slots[p]
                   /\ \A fd \in Fds : fd < first_free[p] => Used(p, fd)
                   /\ \A fd \in Fds : fd >= slots[p] => ~Used(p, fd)

FdInv == FdTypes /\ Hints /\ FlagsOnlyOnUsed

\* The tables of create_init_process satisfy the invariant.
LEMMA InitFd == FdTableInit => FdInv
<1> SUFFICES ASSUME FdTableInit PROVE FdInv
  BY Zenon
<1>1. FdTypes
  <2>1. desc \in [Procs -> [Fds -> Descs \cup {NoDesc}]]
    <3>1. \A fd \in Fds : fd < NumStdio => Stdio[fd] \in Descs
      BY FdAssumption DEF Fds
    <3> QED BY <3>1, Zenon DEF FdTableInit
  <2> QED BY <2>1, FdAssumption DEF FdTableInit, FdTypes
<1>2. Hints
  <2> SUFFICES ASSUME NEW p \in Procs
               PROVE  /\ first_free[p] <= slots[p]
                      /\ \A fd \in Fds : fd < first_free[p] => Used(p, fd)
                      /\ \A fd \in Fds : fd >= slots[p] => ~Used(p, fd)
    BY Zenon DEF Hints
  <2>1. first_free[p] = slots[p] /\ slots[p] = (IF p = InitProc THEN NumStdio ELSE 0)
    BY Zenon DEF FdTableInit
  <2>2. \A fd \in Fds : desc[p][fd] = IF p = InitProc /\ fd < NumStdio THEN Stdio[fd] ELSE NoDesc
    BY Zenon DEF FdTableInit
  <2>3. \A fd \in Fds : fd < NumStdio => Stdio[fd] # NoDesc
    BY FdAssumption DEF Fds
  <2> QED BY <2>1, <2>2, <2>3, FdAssumption DEF Used, Fds
<1>3. FlagsOnlyOnUsed
  BY Zenon DEF FdTableInit, FlagsOnlyOnUsed
<1> QED BY <1>1, <1>2, <1>3, Zenon DEF FdInv

\* What a step may do to the table of the one process it works on.
TableOK(f, c, sz, ff) ==
  /\ f \in [Fds -> Descs \cup {NoDesc}] /\ c \in [Fds -> BOOLEAN]
  /\ sz \in 0..MaxFds /\ ff \in 0..MaxFds /\ ff <= sz
  /\ \A fd \in Fds : fd < ff => f[fd] # NoDesc
  /\ \A fd \in Fds : fd >= sz => f[fd] = NoDesc
  /\ \A fd \in Fds : c[fd] => f[fd] # NoDesc

\* A step that changes one process's table, and leaves it a good one, keeps the
\* invariant.
LEMMA OneTable ==
  ASSUME FdInv, NEW p \in Procs, NEW f, NEW c, NEW sz, NEW ff, TableOK(f, c, sz, ff),
         desc' = [desc EXCEPT ![p] = f], cloexec' = [cloexec EXCEPT ![p] = c],
         slots' = [slots EXCEPT ![p] = sz], first_free' = [first_free EXCEPT ![p] = ff],
         alive' \subseteq Procs, unused' \subseteq Descs
  PROVE  FdInv'
<1>1. FdTypes'
  BY Zenon DEF FdInv, FdTypes, TableOK
<1>2. \A q \in Procs :
        /\ desc'[q] = IF q = p THEN f ELSE desc[q]
        /\ cloexec'[q] = IF q = p THEN c ELSE cloexec[q]
        /\ slots'[q] = IF q = p THEN sz ELSE slots[q]
        /\ first_free'[q] = IF q = p THEN ff ELSE first_free[q]
  BY Zenon DEF FdInv, FdTypes
<1>3. Hints'
  BY <1>2 DEF FdInv, Hints, Used, TableOK
<1>4. FlagsOnlyOnUsed'
  BY <1>2 DEF FdInv, FlagsOnlyOnUsed, Used, TableOK
<1> QED BY <1>1, <1>3, <1>4, Zenon DEF FdInv

\* What the invariant says of one process's table.
LEMMA OldTable ==
  ASSUME FdInv, NEW p \in Procs
  PROVE  TableOK(desc[p], cloexec[p], slots[p], first_free[p])
BY Zenon DEF FdInv, FdTypes, Hints, FlagsOnlyOnUsed, Used, TableOK

\* FileDescriptor::close of any set of slots keeps the invariant: it lowers the
\* hint to the least slot it frees.
LEMMA CloseOK ==
  ASSUME FdInv, NEW p \in Procs, NEW S \in SUBSET Fds, close(p, S),
         alive' \subseteq Procs, UNCHANGED unused
  PROVE  FdInv'
<1> DEFINE f == [fd \in Fds |-> IF fd \in S THEN NoDesc ELSE desc[p][fd]]
           c == [fd \in Fds |-> cloexec[p][fd] /\ fd \notin S]
<1>0. TableOK(desc[p], cloexec[p], slots[p], first_free[p])
  BY OldTable, Zenon
<1>1. PICK ff \in {first_free[p]} \cup S :
        /\ \A fd \in {first_free[p]} \cup S : ff <= fd
        /\ first_free' = [first_free EXCEPT ![p] = ff]
  BY Zenon DEF close, LowersHint
<1>2. ff \in 0..MaxFds /\ ff <= first_free[p]
  BY <1>0, <1>1, FdAssumption DEF Fds, TableOK
<1>3. TableOK(f, c, slots[p], ff)
  <2>1. f \in [Fds -> Descs \cup {NoDesc}] /\ c \in [Fds -> BOOLEAN]
    BY <1>0, Zenon DEF TableOK
  <2>2. \A fd \in Fds : /\ f[fd] = IF fd \in S THEN NoDesc ELSE desc[p][fd]
                        /\ c[fd] => cloexec[p][fd] /\ fd \notin S
    BY <1>0, Zenon DEF TableOK
  <2>3. \A fd \in Fds : fd < ff => fd \notin S /\ fd < first_free[p]
    BY <1>0, <1>1, <1>2 DEF TableOK, Fds
  <2> HIDE DEF f, c
  <2>4. ff <= slots[p]
    BY <1>0, <1>2 DEF TableOK
  <2>5. /\ \A fd \in Fds : fd < ff => f[fd] # NoDesc
        /\ \A fd \in Fds : fd >= slots[p] => f[fd] = NoDesc
        /\ \A fd \in Fds : c[fd] => f[fd] # NoDesc
    BY <1>0, <2>2, <2>3, Zenon DEF TableOK
  <2> QED BY <1>0, <1>2, <2>1, <2>4, <2>5, Zenon DEF TableOK
<1>4. /\ desc' = [desc EXCEPT ![p] = f] /\ cloexec' = [cloexec EXCEPT ![p] = c]
      /\ slots' = [slots EXCEPT ![p] = slots[p]]
  <2>1. desc' = [desc EXCEPT ![p] = f]
    BY Zenon DEF close
  <2>2. cloexec' = [cloexec EXCEPT ![p] = c]
    BY Zenon DEF close, ResetFlags
  <2>3. slots' = [slots EXCEPT ![p] = slots[p]]
    BY Zenon DEF close, FdInv, FdTypes
  <2> QED BY <2>1, <2>2, <2>3, Zenon
<1> HIDE DEF f, c
<1> QED BY <1>1, <1>3, <1>4, OneTable, Zenon DEF FdInv, FdTypes

\* A descriptor at the number that allocate_fdnum chooses keeps the invariant.
LEMMA InstallOK ==
  ASSUME FdInv, NEW p \in Procs, NEW least \in Nat, NEW d \in Descs, NEW flag \in BOOLEAN,
         Install(p, least, d, flag), UNCHANGED alive, unused' \subseteq Descs
  PROVE  FdInv'
<1>0. TableOK(desc[p], cloexec[p], slots[p], first_free[p])
  BY OldTable, Zenon
<1>1. PICK fd \in Fds :
        /\ Allocates(p, least, fd)
        /\ desc' = [desc EXCEPT ![p][fd] = d]
        /\ cloexec' = [cloexec EXCEPT ![p][fd] = flag]
        /\ slots' = [slots EXCEPT ![p] = IF fd < @ THEN @ ELSE fd + 1]
        /\ first_free' = [first_free EXCEPT ![p] = FirstFreeAfter(p, least, fd)]
  BY Zenon DEF Install, Grow
<1> DEFINE f == [desc[p] EXCEPT ![fd] = d]
           c == [cloexec[p] EXCEPT ![fd] = flag]
           sz == IF fd < slots[p] THEN slots[p] ELSE fd + 1
           ff == FirstFreeAfter(p, least, fd)
<1>2. /\ f \in [Fds -> Descs \cup {NoDesc}] /\ c \in [Fds -> BOOLEAN]
      /\ f[fd] = d /\ c[fd] = flag
      /\ \A i \in Fds \ {fd} : f[i] = desc[p][i] /\ c[i] = cloexec[p][i]
  BY <1>0, Zenon DEF TableOK
<1>3. sz \in 0..MaxFds /\ fd < sz /\ slots[p] <= sz
  BY <1>0, FdAssumption DEF TableOK, Fds
<1>4. fd = slots[p] \/ (fd < slots[p] /\ fd >= Begin(p, least))
  BY <1>1, Zenon DEF Allocates
<1>5. ff \in 0..MaxFds /\ ff <= sz
  BY <1>0, <1>3, FdAssumption DEF TableOK, FirstFreeAfter, Fds
<1>6. \A i \in Fds : i < ff => f[i] # NoDesc
  <2> SUFFICES ASSUME NEW i \in Fds, i < ff, i # fd PROVE desc[p][i] # NoDesc
    BY <1>2, FdAssumption, Zenon
  <2>1. CASE least < first_free[p]
    <3>1. i < slots[p] /\ (fd < slots[p] => i < fd)
      BY <1>0, <1>4, <2>1 DEF FirstFreeAfter, TableOK, Fds
    <3>2. i < first_free[p] \/ i \in Begin(p, least)..(slots[p] - 1)
      BY <1>0, <2>1, <3>1 DEF Begin, TableOK, Fds
    <3>3. i < fd
      BY <1>4, <3>1, Zenon
    <3> QED BY <1>0, <1>1, <3>2, <3>3, ZenonT(30) DEF Allocates, Used, TableOK
  <2>2. CASE ~(least < first_free[p])
    BY <1>0, <2>2, ZenonT(30) DEF FirstFreeAfter, TableOK
  <2> QED BY <2>1, <2>2, Zenon
<1>7. \A i \in Fds : i >= sz => f[i] = NoDesc
  BY <1>0, <1>2, <1>3 DEF TableOK, Fds
<1>8. \A i \in Fds : c[i] => f[i] # NoDesc
  BY <1>0, <1>2, FdAssumption, Zenon DEF TableOK
<1>9. TableOK(f, c, sz, ff)
  <2> HIDE DEF f, c, sz, ff
  <2> QED BY <1>2, <1>3, <1>5, <1>6, <1>7, <1>8, Zenon DEF TableOK
<1>10. /\ desc' = [desc EXCEPT ![p] = f] /\ cloexec' = [cloexec EXCEPT ![p] = c]
       /\ slots' = [slots EXCEPT ![p] = sz] /\ first_free' = [first_free EXCEPT ![p] = ff]
  BY <1>1, Zenon DEF FdInv, FdTypes
<1> HIDE DEF f, c, sz, ff
<1> QED BY <1>9, <1>10, OneTable, Zenon DEF FdInv, FdTypes

\* dup3 keeps the invariant: it takes a slot without allocate_fdnum.
LEMMA Dup3OK ==
  ASSUME FdInv, NEW p \in Procs, NEW old \in Fds, NEW new \in Fds, NEW flag \in BOOLEAN,
         Dup3(p, old, new, flag)
  PROVE  FdInv'
<1> DEFINE d == desc[p][old]
           S == IF Used(p, new) THEN {new} ELSE {}
           f == [desc[p] EXCEPT ![new] = d]
           c == [cloexec[p] EXCEPT ![new] = flag]
           sz == IF new < slots[p] THEN slots[p] ELSE new + 1
<1>0. TableOK(desc[p], cloexec[p], slots[p], first_free[p])
  BY OldTable, Zenon
<1>1. PICK ff \in {first_free[p]} \cup S :
        /\ \A fd \in {first_free[p]} \cup S : ff <= fd
        /\ first_free' = [first_free EXCEPT ![p] = ff]
  BY Zenon DEF Dup3, LowersHint
<1>2. d \in Descs /\ d # NoDesc
  BY <1>0, FdAssumption, Zenon DEF Dup3, Used, TableOK
<1>3. ff \in 0..MaxFds /\ ff <= first_free[p]
  BY <1>0, <1>1, FdAssumption DEF Fds, TableOK
<1>4. sz \in 0..MaxFds /\ new < sz /\ slots[p] <= sz
  BY <1>0, FdAssumption DEF TableOK, Fds
<1>5. /\ f \in [Fds -> Descs \cup {NoDesc}] /\ c \in [Fds -> BOOLEAN]
      /\ f[new] = d /\ c[new] = flag
      /\ \A i \in Fds \ {new} : f[i] = desc[p][i] /\ c[i] = cloexec[p][i]
  BY <1>0, <1>2, Zenon DEF TableOK
<1>6. /\ desc' = [desc EXCEPT ![p] = f] /\ cloexec' = [cloexec EXCEPT ![p] = c]
      /\ slots' = [slots EXCEPT ![p] = sz]
  BY Zenon DEF Dup3, Grow, FdInv, FdTypes
<1>7. alive' = alive /\ unused' = unused
  BY Zenon DEF Dup3, Grow
<1> HIDE DEF d, S, f, c, sz
<1>8. TableOK(f, c, sz, ff)
  BY <1>0, <1>2, <1>3, <1>4, <1>5 DEF TableOK, Fds
<1> QED BY <1>1, <1>6, <1>7, <1>8, OneTable, Zenon DEF FdInv, FdTypes

\* Every system call keeps the invariant.
LEMMA StepFd == FdInv /\ [FdTableNext]_fdvars => FdInv'
<1> SUFFICES ASSUME FdInv, [FdTableNext]_fdvars PROVE FdInv'
  BY Zenon
<1>a. alive \subseteq Procs /\ unused \subseteq Descs /\ Mins \subseteq Nat
  BY FdAssumption, Zenon DEF FdInv, FdTypes
<1>1. ASSUME NEW p \in alive, NEW flag \in BOOLEAN, Open(p, flag) PROVE FdInv'
  <2>1. PICK d \in unused : Install(p, 0, d, flag) /\ unused' = unused \ {d} /\ alive' = alive
    BY <1>1, Zenon DEF Open
  <2> QED BY <1>a, <2>1, InstallOK, Zenon
<1>2. ASSUME NEW p \in alive, NEW flag \in BOOLEAN, NEW fd \in Fds,
             SetFd(p, fd, flag) PROVE FdInv'
  <2> DEFINE c == [cloexec[p] EXCEPT ![fd] = flag]
  <2>1. TableOK(desc[p], c, slots[p], first_free[p])
    BY <1>a, <1>2, OldTable, Zenon DEF TableOK, SetFd, Used
  <2>2. /\ desc' = [desc EXCEPT ![p] = desc[p]] /\ cloexec' = [cloexec EXCEPT ![p] = c]
        /\ slots' = [slots EXCEPT ![p] = slots[p]]
        /\ first_free' = [first_free EXCEPT ![p] = first_free[p]]
        /\ alive' = alive /\ unused' = unused
    BY <1>2, <1>a, Zenon DEF SetFd, FdInv, FdTypes
  <2> HIDE DEF c
  <2> QED BY <1>a, <2>1, <2>2, OneTable, Zenon
<1>3. ASSUME NEW p \in alive, NEW flag \in BOOLEAN, NEW fd \in Fds, NEW least \in Mins,
             DupFd(p, fd, least, flag) PROVE FdInv'
  <2>1. desc[p][fd] \in Descs
    BY <1>a, <1>3 DEF DupFd, Used, FdInv, FdTypes
  <2> QED BY <1>a, <1>3, <2>1, InstallOK, Zenon DEF DupFd
<1>4. ASSUME NEW p \in alive, NEW flag \in BOOLEAN, NEW old \in Fds, NEW new \in Fds,
             Dup3(p, old, new, flag) PROVE FdInv'
  BY <1>a, <1>4, Dup3OK, Zenon
<1>5. ASSUME NEW p \in alive, NEW fd \in Fds, Close(p, fd) PROVE FdInv'
  BY <1>a, <1>5, CloseOK, Zenon DEF Close
<1>6. ASSUME NEW p \in alive, NEW first \in Fds, NEW last \in Fds,
             CloseRange(p, first, last) PROVE FdInv'
  <2>1. InRange(p, first, last) \in SUBSET Fds
    BY Zenon DEF InRange
  <2> QED BY <1>a, <1>6, <2>1, CloseOK, Zenon DEF CloseRange
<1>7. ASSUME NEW p \in alive, NEW first \in Fds, NEW last \in Fds,
             CloseRangeCloexec(p, first, last) PROVE FdInv'
  <2> DEFINE c == [fd \in Fds |-> cloexec[p][fd] \/ fd \in InRange(p, first, last)]
  <2>1. \A fd \in Fds : c[fd] => desc[p][fd] # NoDesc
    BY <1>a, Zenon DEF FdInv, FlagsOnlyOnUsed, InRange, Used
  <2>2. TableOK(desc[p], c, slots[p], first_free[p])
    <3>1. c \in [Fds -> BOOLEAN]
      BY <1>a, Zenon DEF FdInv, FdTypes
    <3> HIDE DEF c
    <3> QED BY <1>a, <2>1, <3>1, OldTable, Zenon DEF TableOK
  <2>3. /\ desc' = [desc EXCEPT ![p] = desc[p]] /\ cloexec' = [cloexec EXCEPT ![p] = c]
        /\ slots' = [slots EXCEPT ![p] = slots[p]]
        /\ first_free' = [first_free EXCEPT ![p] = first_free[p]]
        /\ alive' = alive /\ unused' = unused
    BY <1>7, <1>a, Zenon DEF CloseRangeCloexec, FdInv, FdTypes
  <2> HIDE DEF c
  <2> QED BY <1>a, <2>2, <2>3, OneTable, Zenon
<1>8. ASSUME NEW p \in alive, NEW q \in Procs, Fork(p, q) PROVE FdInv'
  <2>1. TableOK(desc[p], cloexec[p], slots[p], first_free[p])
    BY <1>a, OldTable, Zenon
  <2>2. alive' \subseteq Procs /\ unused' = unused
    BY <1>a, <1>8, Zenon DEF Fork
  <2>3. /\ desc' = [desc EXCEPT ![q] = desc[p]] /\ cloexec' = [cloexec EXCEPT ![q] = cloexec[p]]
        /\ slots' = [slots EXCEPT ![q] = slots[p]]
        /\ first_free' = [first_free EXCEPT ![q] = first_free[p]]
    BY <1>8, Zenon DEF Fork
  <2> QED BY <1>a, <2>1, <2>2, <2>3, OneTable, Zenon
<1>9. ASSUME NEW p \in alive, Exec(p) PROVE FdInv'
  BY <1>a, <1>9, CloseOK, Zenon DEF Exec
<1>10. ASSUME NEW p \in alive, Exit(p) PROVE FdInv'
  <2>1. {fd \in Fds : Used(p, fd)} \in SUBSET Fds
    BY Zenon
  <2> QED BY <1>a, <1>10, <2>1, CloseOK, Zenon DEF Exit
<1>11. CASE UNCHANGED fdvars
  BY <1>11, Zenon DEF fdvars, FdInv, FdTypes, Hints, FlagsOnlyOnUsed, Used
<1> QED
  BY <1>1, <1>2, <1>3, <1>4, <1>5, <1>6, <1>7, <1>8, <1>9, <1>10, <1>11, Zenon DEF FdTableNext, Step

\* The hint is valid in every reachable state: no free descriptor is below it.
THEOREM HintIsValid == FdTableSpec => []NoFreeBelowHint
<1>1. FdInv => NoFreeBelowHint
  BY Zenon DEF FdInv, FdTypes, Hints, NoFreeBelowHint
<1> QED BY <1>1, InitFd, StepFd, PTL DEF FdTableSpec

\* execve never closes a slot without a description.
THEOREM ExecClosesOnlyUsed == FdTableSpec => []FlagsOnlyOnUsed
<1>1. FdInv => FlagsOnlyOnUsed
  BY Zenon DEF FdInv
<1> QED BY <1>1, InitFd, StepFd, PTL DEF FdTableSpec

\* open and dup return the lowest free descriptor after any sequence of calls.
THEOREM OpenTakesLowest == FdTableSpec => TakesLowest
<1>1. ASSUME FdInv, [FdTableNext]_fdvars
      PROVE  [\A p \in alive, fd \in Fds :
                ~Used(p, fd) /\ desc'[p][fd] # NoDesc =>
                  \/ \A i \in Fds : i < fd => Used(p, i)
                  \/ ~ \E flag \in BOOLEAN : Open(p, flag) \/ \E old \in Fds : DupFd(p, old, 0, flag)]_fdvars
  <2> SUFFICES ASSUME NEW p \in alive, NEW fd \in Fds, ~Used(p, fd), desc'[p][fd] # NoDesc,
                      NEW flag \in BOOLEAN, NEW i \in Fds, i < fd,
                      Open(p, flag) \/ \E old \in Fds : DupFd(p, old, 0, flag)
               PROVE  Used(p, i)
    BY Zenon
  <2>0. p \in Procs /\ TableOK(desc[p], cloexec[p], slots[p], first_free[p])
    BY <1>1, OldTable, Zenon DEF FdInv, FdTypes
  <2>1. PICK d : Install(p, 0, d, flag)
    BY Zenon DEF Open, DupFd
  <2>2. PICK n \in Fds : Allocates(p, 0, n) /\ desc' = [desc EXCEPT ![p][n] = d]
    BY <2>1, Zenon DEF Install
  <2>3. n = fd
    BY <1>1, <2>0, <2>2, Zenon DEF FdInv, FdTypes, Used
  <2>4. i < first_free[p] \/ i \in Begin(p, 0)..(slots[p] - 1)
    BY <2>0, <2>2, <2>3 DEF Allocates, Begin, TableOK, Fds
  <2> QED BY <2>0, <2>2, <2>3, <2>4, Zenon DEF Allocates, Used, TableOK
<1> QED BY <1>1, InitFd, StepFd, PTL DEF FdTableSpec, TakesLowest

-----------------------------------------------------------------------------
(* Pipe.                                                                   *)

PipeRest ==
  /\ readers \in Nat /\ writers \in Nat
  /\ data_count \in 0..Capacity
  /\ call \in [Threads -> {"none", "read", "write"}]
  /\ arg \in [Threads -> Nat]
  /\ written \in Nat

\* NoLostWakeup, and: who sleeps is on the list.
PipeInv ==
  /\ IsWait(w, Threads, {pipe_event})
  /\ PipeRest
  /\ \A t \in Threads : w.state[t] = "BLOCKED" => t \in Listening(w, pipe_event)
  /\ NoLostWakeup

\* A new pipe satisfies the invariant.
LEMMA PipeStarts == Init => PipeInv
<1> SUFFICES ASSUME Init PROVE PipeInv
  OBVIOUS
<1>1. w = WaitState(Threads, {pipe_event})
  BY Zenon DEF Init
<1>2. IsWait(w, Threads, {pipe_event}) /\ \A t \in Threads : w.state[t] = "active"
  <2>1. Fresh(w, Threads, {pipe_event})
    BY <1>1, NewWait, Zenon
  <2> QED BY <2>1, Zenon DEF Fresh
<1>3. PipeRest
  BY PipeAssumption DEF Init, PipeRest
<1> QED BY <1>2, <1>3, Zenon DEF PipeInv, NoLostWakeup

\* A step that wakes every sleeper may change the buffer and the ends at will.
LEMMA PipeTriggers ==
  ASSUME NEW s, IsWait(s, Threads, {pipe_event}),
         \A u \in Threads : s.state[u] = "BLOCKED" => u \in Listening(s, pipe_event),
         w' = trigger(s, pipe_event, FALSE), PipeRest'
  PROVE  PipeInv'
<1>1. PICK drop \in BOOLEAN : w' = trigger(s, pipe_event, drop)
  BY Zenon
<1>2. Triggered(s, w', pipe_event, Threads, {pipe_event})
  BY <1>1, TriggerFacts, Zenon
<1>3. \A u \in Threads : w'.state[u] # "BLOCKED"
  BY <1>2, Zenon DEF Triggered
<1> QED BY <1>2, <1>3, Zenon DEF PipeInv, NoLostWakeup, Triggered

\* t runs in the event state s, and everybody else is as in w.
PipeRuns(s, t) ==
  /\ IsWait(s, Threads, {pipe_event}) /\ s.state[t] = "active"
  /\ \A u \in Threads \ {t} : /\ s.state[u] = w.state[u]
                              /\ u \in Listening(w, pipe_event) => u \in Listening(s, pipe_event)

\* A call that returns and changes nothing.
LEMMA PipeReturns ==
  ASSUME PipeInv, NEW t \in Threads, NEW s, PipeRuns(s, t), Unchanged(t, s)
  PROVE  PipeInv'
<1>1. /\ w' = s /\ call' = [call EXCEPT ![t] = "none"] /\ arg' = [arg EXCEPT ![t] = 0]
      /\ UNCHANGED <<readers, writers, data_count, written>>
  BY Zenon DEF Unchanged, Return
<1>2. PipeRest' /\ \A u \in Threads \ {t} : call'[u] = call[u]
  BY <1>1, Zenon DEF PipeRest, PipeInv
<1>3. \A u \in Threads : w'.state[u] = "BLOCKED" => u # t /\ w.state[u] = "BLOCKED"
  BY <1>1, Zenon DEF PipeRuns
<1>4. NoLostWakeup'
  BY <1>1, <1>2, <1>3, Zenon DEF NoLostWakeup, PipeInv
<1> QED BY <1>1, <1>2, <1>3, <1>4, Zenon DEF PipeInv, PipeRuns

\* A call that goes to sleep because its condition does not hold.
LEMMA PipeSleeps ==
  ASSUME PipeInv, NEW t \in Threads, NEW s, PipeRuns(s, t), NEW count \in Nat,
         NEW name \in {"read", "write"}, Wait(t, s, name, count),
         \/ name = "read" /\ data_count = 0 /\ writers > 0
         \/ name = "write" /\ data_count = Capacity /\ readers > 0
  PROVE  PipeInv'
<1>1. /\ w' = sleep(drain(s, pipe_event), t, <<pipe_event>>)
      /\ call' = [call EXCEPT ![t] = name] /\ arg' = [arg EXCEPT ![t] = count]
      /\ UNCHANGED <<readers, writers, data_count, written>>
  BY Zenon DEF Wait
<1>2. Slept(s, w', t, pipe_event, Threads, {pipe_event})
  BY <1>1, DrainedSleepFacts, Zenon DEF PipeRuns
<1>3. PipeRest' /\ call'[t] = name /\ \A u \in Threads \ {t} : call'[u] = call[u]
  BY <1>1, Zenon DEF PipeRest, PipeInv
<1>4. \A u \in Threads : w'.state[u] = "BLOCKED" => u = t \/ w.state[u] = "BLOCKED"
  BY <1>2, Zenon DEF PipeRuns, Slept
<1>5. NoLostWakeup'
  BY <1>1, <1>3, <1>4, Zenon DEF NoLostWakeup, PipeInv
<1> QED BY <1>2, <1>3, <1>5, Zenon DEF PipeInv, PipeRuns, Slept

\* The loops of read and write, entered by an awake thread.
LEMMA PipeLoop ==
  ASSUME PipeInv, NEW t \in Threads, NEW s, PipeRuns(s, t),
         NEW count \in Nat, NEW nb \in BOOLEAN,
         read(t, s, count, nb) \/ write(t, s, count, nb)
  PROVE  PipeInv'
<1>1. ASSUME w' = trigger(s, pipe_event, FALSE), PipeRest' PROVE PipeInv'
  BY <1>1, PipeTriggers, ZenonT(30) DEF PipeInv, PipeRuns
<1>2. Return(t) => /\ call' \in [Threads -> {"none", "read", "write"}]
                   /\ arg' \in [Threads -> Nat]
  BY DEF Return, PipeInv, PipeRest
<1>3. CASE read(t, s, count, nb)
  <2>1. CASE Wait(t, s, "read", count) /\ data_count = 0 /\ writers > 0
    <3>1. PICK name \in {"read", "write"} : name = "read" /\ Wait(t, s, name, count)
      BY <2>1, Zenon
    <3> QED BY <2>1, <3>1, PipeSleeps, Zenon
  <2>2. CASE Unchanged(t, s)
    BY <2>2, PipeReturns, Zenon
  <2>3. CASE /\ data_count > 0 /\ data_count' = data_count - Smaller(count, data_count)
             /\ w' = trigger(s, pipe_event, FALSE) /\ Return(t)
             /\ UNCHANGED <<readers, writers, written>>
    <3>1. data_count' \in 0..Capacity
      BY <2>3, PipeAssumption DEF Smaller, PipeInv, PipeRest
    <3>2. PipeRest'
      BY <1>2, <2>3, <3>1, Zenon DEF PipeRest, PipeInv
    <3> QED BY <1>1, <2>3, <3>2, ZenonT(30)
  <2> QED BY <1>3, <2>1, <2>2, <2>3, Zenon DEF read
<1>4. CASE write(t, s, count, nb)
  <2>1. CASE Wait(t, s, "write", count) /\ data_count = Capacity /\ readers > 0
    <3>1. PICK name \in {"read", "write"} : name = "write" /\ Wait(t, s, name, count)
      BY <2>1, Zenon
    <3> QED BY <2>1, <3>1, PipeSleeps, Zenon
  <2>2. CASE Unchanged(t, s)
    BY <2>2, PipeReturns
  <2>3. CASE /\ data_count < Capacity
             /\ data_count' = data_count + Smaller(count, Capacity - data_count)
             /\ written' = written + Smaller(count, Capacity - data_count)
             /\ w' = trigger(s, pipe_event, FALSE) /\ Return(t)
             /\ UNCHANGED <<readers, writers>>
    <3>1. data_count' \in 0..Capacity /\ written' \in Nat
      BY <2>3, PipeAssumption DEF Smaller, PipeInv, PipeRest
    <3>2. PipeRest'
      BY <1>2, <2>3, <3>1, Zenon DEF PipeRest, PipeInv
    <3> QED BY <1>1, <2>3, <3>2, ZenonT(30)
  <2> QED BY <1>4, <2>1, <2>2, <2>3, Zenon DEF write
<1> QED BY <1>3, <1>4, Zenon

\* A step that only makes sleepers awake or dead, or takes the dead off the list.
LEMMA PipeOnlyWakes ==
  ASSUME PipeInv, IsWait(w', Threads, {pipe_event}),
         \A u \in Threads : w'.state[u] = "BLOCKED" =>
           w.state[u] = "BLOCKED" /\ (u \in Listening(w, pipe_event) => u \in Listening(w', pipe_event)),
         UNCHANGED <<readers, writers, data_count, call, arg, written>>
  PROVE  PipeInv'
<1>1. PipeRest'
  BY Zenon DEF PipeInv, PipeRest
<1>2. NoLostWakeup'
  BY Zenon DEF PipeInv, NoLostWakeup
<1> QED BY <1>1, <1>2, Zenon DEF PipeInv

\* Every call, close, signal and exit keeps the invariant.
LEMMA PipeStep == PipeInv /\ [Next]_vars => PipeInv'
<1> SUFFICES ASSUME PipeInv, [Next]_vars PROVE PipeInv'
  OBVIOUS
<1>0. IsWait(w, Threads, {pipe_event}) /\ PipeRest
  BY Zenon DEF PipeInv
<1>1. ASSUME NEW t \in Threads, NEW count \in Counts, NEW nb \in BOOLEAN,
             Read(t, count, nb) \/ Write(t, count, nb)
      PROVE  PipeInv'
  <2>1. PipeRuns(w, t) /\ count \in Nat
    BY <1>0, <1>1, PipeAssumption, Zenon DEF Read, Write, PipeRuns
  <2>2. read(t, w, count, nb) \/ write(t, w, count, nb)
    BY <1>1, Zenon DEF Read, Write
  <2> QED BY <2>1, <2>2, PipeLoop, Zenon
<1>2. ASSUME NEW t \in Threads, Resume(t) PROVE PipeInv'
  <2> DEFINE s == settled(resume(w, t), t)
  <2>1. Returned(w, s, t, Threads, {pipe_event})
    BY <1>0, ReturnFacts, Zenon
  <2>2. \/ Unchanged(t, s)
        \/ \E nb \in BOOLEAN : read(t, s, arg[t], nb) \/ write(t, s, arg[t], nb)
    BY <1>2, Zenon DEF Resume
  <2> HIDE DEF s
  <2>3. PipeRuns(s, t) /\ arg[t] \in Nat
    BY <1>0, <2>1, Zenon DEF Returned, PipeRuns, PipeRest
  <2>4. CASE Unchanged(t, s)
    BY <2>3, <2>4, PipeReturns, Zenon
  <2>5. ASSUME NEW nb \in BOOLEAN, read(t, s, arg[t], nb) \/ write(t, s, arg[t], nb)
        PROVE  PipeInv'
    BY <2>3, <2>5, PipeLoop, Zenon
  <2> QED BY <2>2, <2>4, <2>5, Zenon
<1>3. CASE CloseRead \/ CloseWrite
  <2>1. w' = trigger(w, pipe_event, FALSE) /\ UNCHANGED <<data_count, call, arg, written>>
    BY <1>3, Zenon DEF CloseRead, CloseWrite
  <2>2. readers \in Nat /\ writers \in Nat
    BY <1>0, Zenon DEF PipeRest
  <2>3. readers' \in Nat /\ writers' \in Nat
    <3>1. CASE CloseRead
      BY ONLY <2>2, <3>1 DEF CloseRead
    <3>2. CASE CloseWrite
      BY ONLY <2>2, <3>2 DEF CloseWrite
    <3> QED BY <1>3, <3>1, <3>2, Zenon
  <2>4. PipeRest'
    BY <1>0, <2>1, <2>3, Zenon DEF PipeRest
  <2> QED BY <2>1, <2>4, PipeTriggers, Zenon DEF PipeInv
<1>4. ASSUME NEW t \in Threads, NEW masked \in BOOLEAN, SendSignal(t, masked) PROVE PipeInv'
  <2>1. Signalled(w, w', t, Threads, {pipe_event})
    BY <1>0, <1>4, SignalFacts, Zenon DEF SendSignal
  <2> QED BY <1>4, <2>1, PipeOnlyWakes, Zenon DEF SendSignal, Signalled
<1>5. ASSUME NEW t \in Threads, DispatchSignal(t) PROVE PipeInv'
  <2>1. Dispatched(w, w', t, Threads, {pipe_event})
    BY <1>0, <1>5, DispatchFacts, Zenon DEF DispatchSignal
  <2> QED BY <1>5, <2>1, PipeOnlyWakes, Zenon DEF DispatchSignal, Dispatched
<1>6. ASSUME NEW t \in Threads, Terminate(t) PROVE PipeInv'
  <2>1. Terminated(w, w', t, Threads, {pipe_event})
    BY <1>0, <1>6, TerminateFacts, Zenon DEF Terminate
  <2> QED BY <1>6, <2>1, PipeOnlyWakes, Zenon DEF Terminate, Terminated
<1>7. ASSUME NEW t \in Threads, DeleteThread(t) PROVE PipeInv'
  <2>1. /\ IsWait(w', Threads, {pipe_event}) /\ w'.state = w.state
        /\ Listening(w', pipe_event) = Listening(w, pipe_event) \ {t}
    BY <1>0, <1>7, ClearFacts DEF DeleteThread
  <2> QED BY <1>7, <2>1, PipeOnlyWakes, ZenonT(30) DEF DeleteThread
<1>8. CASE UNCHANGED vars
  BY <1>0, <1>8, PipeOnlyWakes, Zenon DEF vars, Listening, IsWait
<1> QED
  BY <1>1, <1>2, <1>3, <1>4, <1>5, <1>6, <1>7, <1>8, Zenon DEF Next, ThreadStep

\* In every behaviour of the pipe no thread sleeps for a condition that holds
\* already, whatever the number of threads, the capacity and the counts.
THEOREM PipeNeverLosesAWakeup == Spec => []NoLostWakeup
<1>1. PipeInv => NoLostWakeup
  BY ZenonT(30) DEF PipeInv
<1> QED BY <1>1, PipeStarts, PipeStep, PTL DEF Spec

\* Every variable of the pipe keeps its type, and data_count stays in 0..Capacity.
THEOREM PipeTypeCorrect == Spec => []TypeOK
<1>1. PipeInv => TypeOK
  BY DEF PipeInv, TypeOK, PipeRest, IsWait, ThreadStates, WaitTypes
<1> QED BY <1>1, PipeStarts, PipeStep, PTL DEF Spec

\* A reader and a writer never sleep at the same time: with one event for both
\* sides, neither can end up waiting for the other.
THEOREM PipeNoDeadlock ==
  Spec => [](\A r, t \in Threads :
               w.state[r] = "BLOCKED" /\ w.state[t] = "BLOCKED" => call[r] = call[t])
<1>1. PipeInv => \A r, t \in Threads :
               w.state[r] = "BLOCKED" /\ w.state[t] = "BLOCKED" => call[r] = call[t]
  BY PipeAssumption, Zenon DEF PipeInv, NoLostWakeup
<1> QED BY <1>1, PipeStarts, PipeStep, PTL DEF Spec
=============================================================================
