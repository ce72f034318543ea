------------------------------- MODULE Tmpfs -------------------------------
(***************************************************************************)
(* The contents of a regular file of tmpfs, and the read, write and seek   *)
(* calls on the descriptions it is open under, each with its own cursor.   *)
(* contents is what a file is to its users: a sequence of bytes.           *)
(***************************************************************************)
EXTENDS Integers, Sequences, SequencesExt, FiniteSetsExt

CONSTANTS
  Descriptions,
  Append_,   \* the descriptions with O_APPEND
  Data,      \* what a call writes: sequences of buffers, which are sequences of bytes
  MaxSize,   \* bound on the size of the file
  Junk       \* a byte of memory that was never written

VARIABLES
  storage,   \* NodeData::storage, a sequence of capacity bytes
  size,
  cursor,    \* [description -> FileDescription::cursor]
  got,       \* what a read has just returned, and what it should have
  contents

vars == <<storage, size, cursor, got, contents>>

capacity == Len(storage)
Nothing == <<<<>>, <<>>>>

Init ==
  /\ storage = <<>>
  /\ size = 0
  /\ cursor = [d \in Descriptions |-> 0]
  /\ got = Nothing
  /\ contents = <<>>

Grown == {0, 1, 4, 16, 64}

\* Node::grow_to: the capacity is multiplied by 4 until it is enough.
grow_to(s, length) ==
  IF Len(s) >= length THEN s
  ELSE s \o [i \in 1..(Min({c \in Grown : c >= length}) - Len(s)) |-> Junk]

\* Node::write at an offset, in the file f = [storage, size]; memcpy writes what
\* there is room for.
write(f, buf, offset) ==
  LET n == Len(buf)
      s == IF offset + n > f.size THEN grow_to(f.storage, offset + n) ELSE f.storage
  IN
  IF n = 0 THEN f
  ELSE [storage |-> [i \in DOMAIN s |-> IF i > offset /\ i <= offset + n THEN buf[i - offset]
                                        ELSE s[i]],
        size |-> Max({f.size, offset + n})]

\* VNode::writev: the buffers one after the other
writev(f, iovs, offset) ==
  FoldLeft(LAMBDA a, buf : [f |-> write(a.f, buf, a.offset), offset |-> a.offset + Len(buf)],
           [f |-> f, offset |-> offset], iovs)

\* Node::read at an offset
read(count, offset) ==
  IF offset >= size THEN <<>>
  ELSE SubSeq(storage, offset + 1, Min({offset + count, size}))

-----------------------------------------------------------------------------
(* The file as a sequence of bytes.  What was never written is Junk, which   *)
(* stands for any byte.                                                      *)

Bytes(iovs) == FlattenSeq(iovs)
Overlaid(c, bytes, offset) ==
  [i \in 1..Max({Len(c), IF bytes = <<>> THEN 0 ELSE offset + Len(bytes)}) |->
     IF i > offset /\ i <= offset + Len(bytes) THEN bytes[i - offset]
     ELSE IF i <= Len(c) THEN c[i] ELSE Junk]
Cut(c, length) == [i \in 1..length |-> IF i <= Len(c) THEN c[i] ELSE Junk]
Agree(s, c) == Len(s) = Len(c) /\ \A i \in DOMAIN c : c[i] # Junk => s[i] = c[i]

-----------------------------------------------------------------------------
(* The system calls                                                          *)

Written(f) ==
  /\ f.size <= MaxSize
  /\ storage' = f.storage /\ size' = f.size

\* A bug: a description that appends writes where it is.
At_Cursor(d) == cursor[d]

\* seek_to_end_if_append
At(d) == IF d \in Append_ THEN size ELSE cursor[d]

\* write and writev move the cursor
Write(d, iovs) ==
  LET a == writev([storage |-> storage, size |-> size], iovs, At(d)) IN
  /\ Written(a.f)
  /\ cursor' = [cursor EXCEPT ![d] = a.offset]
  /\ contents' = Overlaid(contents, Bytes(iovs), IF d \in Append_ THEN Len(contents) ELSE cursor[d])
  /\ got' = Nothing

\* pwrite64 and pwritev do not, and do not append either
Pwrite(d, iovs, offset) ==
  /\ Written(writev([storage |-> storage, size |-> size], iovs, offset).f)
  /\ contents' = Overlaid(contents, Bytes(iovs), offset)
  /\ got' = Nothing
  /\ UNCHANGED cursor

\* read and readv; pread64 and preadv leave the cursor
Read(d, count, offset, moves) ==
  /\ moves => offset = cursor[d]
  /\ got' = <<read(count, offset),
               SubSeq(contents, offset + 1, Min({offset + count, Len(contents)}))>>
  /\ cursor' = [cursor EXCEPT ![d] = IF moves THEN @ + Len(read(count, offset)) ELSE @]
  /\ UNCHANGED <<storage, size, contents>>

\* Node::seek: a negative result is an error
seek(position, offset, whence) ==
  CASE whence = "SEEK_SET" -> offset
    [] whence = "SEEK_CUR" -> position + offset
    [] whence = "SEEK_END" -> size + offset
    [] whence = "SEEK_DATA" -> IF offset >= size THEN -1 ELSE offset
    [] whence = "SEEK_HOLE" -> IF offset >= size THEN -1 ELSE size

Lseek(d, offset, whence) ==
  LET to == seek(cursor[d], offset, whence) IN
  /\ to <= MaxSize
  /\ cursor' = [cursor EXCEPT ![d] = IF to >= 0 THEN to ELSE @]
  /\ got' = Nothing
  /\ UNCHANGED <<storage, size, contents>>

\* Node::truncate: size is already length when the rest is to be cleared, so nothing
\* is.
truncate(f, length) ==
  [storage |-> IF length > f.size THEN grow_to(f.storage, length) ELSE f.storage, size |-> length]

\* truncate, ftruncate, and open with O_TRUNC
Truncate(length) ==
  /\ Written(truncate([storage |-> storage, size |-> size], length))
  /\ contents' = Cut(contents, length)
  /\ got' = Nothing
  /\ UNCHANGED cursor

Next ==
  \/ \E d \in Descriptions :
       \/ \E iovs \in Data : Write(d, iovs) \/ \E o \in 0..MaxSize : Pwrite(d, iovs, o)
       \/ \E n \in 1..2, o \in 0..MaxSize, moves \in BOOLEAN : Read(d, n, o, moves)
       \/ \E o \in -1..1, whence \in {"SEEK_SET", "SEEK_CUR", "SEEK_END"} : Lseek(d, o, whence)
       \/ \E o \in 0..1, whence \in {"SEEK_DATA", "SEEK_HOLE"} : Lseek(d, o, whence)
  \/ \E n \in 0..MaxSize : Truncate(n)

Spec == Init /\ [][Next]_vars

\* The file is the sequence of bytes that its writers made of it: writes through
\* O_APPEND descriptions all end up one after the other, whatever other cursors do,
\* the others where their cursor or their offset says; every byte is in the storage,
\* and a read returns what is there.  Nothing is said of bytes that were never
\* written, nor after a truncate.
FileIsSequence ==
  /\ size <= capacity
  /\ Agree(SubSeq(storage, 1, size), contents)
  /\ Agree(got[1], got[2])
=============================================================================
