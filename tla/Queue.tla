------------------------------- MODULE Queue --------------------------------
(***************************************************************************)
(* The ring-buffer queue of rpc/stream/queue.go: a buffer whose length is  *)
(* a power of two, doubled when it is full and halved when only a quarter  *)
(* of it is used.  Indices are those of the code, from 0.                  *)
(***************************************************************************)
EXTENDS Integers

CONSTANTS MinQueueLen,  \* minQueueLen
          Unset         \* what a place of the buffer holds before it is used

New == [buf |-> [i \in 0 .. MinQueueLen - 1 |-> Unset], len |-> MinQueueLen,
        head |-> 0, tail |-> 0, count |-> 0]

(* The bitwise modulus x & (len(buf) - 1) of a length that is a power of 2.*)
Masked(q, x) == x % q.len

Length(q) == q.count

(* GetP: a negative index counts from the end.                             *)
Position(q, i) == Masked(q, q.head + (IF i < 0 THEN i + q.count ELSE i))

Get(q, i) == q.buf[Position(q, i)]

(* *q.GetP(i) = e                                                          *)
SetAt(q, i, e) == [q EXCEPT !.buf[Position(q, i)] = e]

(* The used places, one after the other, in a buffer of twice their number.*)
resize(q) ==
  LET first == IF q.tail > q.head THEN q.tail - q.head ELSE q.len - q.head
  IN  [buf |-> [i \in 0 .. 2 * q.count - 1 |->
                  IF i >= q.count THEN Unset
                  ELSE IF i < first THEN q.buf[q.head + i] ELSE q.buf[i - first]],
       len |-> 2 * q.count, head |-> 0, tail |-> q.count, count |-> q.count]

Push(q, e) ==
  LET r == IF q.count = q.len THEN resize(q) ELSE q
  IN  [r EXCEPT !.buf[r.tail] = e, !.tail = Masked(r, @ + 1), !.count = @ + 1]

(* Remove without its result, which is Get(q, 0).                          *)
Remove(q) ==
  LET r == [q EXCEPT !.head = Masked(q, @ + 1), !.count = @ - 1]
  IN  IF r.len > MinQueueLen /\ 4 * r.count = r.len THEN resize(r) ELSE r
=============================================================================
