------------------------------- MODULE Stream -------------------------------
(***************************************************************************)
(* A data stream of the JSON-RPC server (rpc/stream/stream.go): items in   *)
(* segments of a fixed size, the oldest segment thrown away when a new one *)
(* is needed and too many are kept.  The operators are the sections of     *)
(* code that hold the mutex.  The item with id n is the number n.          *)
(***************************************************************************)
EXTENDS Queue, Sequences

CONSTANTS SegmentSize,  \* segmentSize
          Capacity      \* the capacity given to NewStream

ASSUME StreamSizes == SegmentSize \in Nat \ {0} /\ Capacity \in Nat \ {0}

maxSegments == (Capacity + SegmentSize - 1) \div SegmentSize

NewStream == [segments |-> New, segmentOffset |-> 0]

lastID(s) ==
  IF Length(s.segments) = 0 THEN 0
  ELSE (s.segmentOffset + Length(s.segments) - 1) * SegmentSize + Len(Get(s.segments, -1))

(* Mutant: the position of the first segment does not follow the removal.  *)
MutGrow(s) ==
  IF Length(s.segments) > maxSegments
  THEN [segments |-> Push(Remove(s.segments), << >>), segmentOffset |-> s.segmentOffset]
  ELSE [s EXCEPT !.segments = Push(@, << >>)]

(* A new last segment, made of the oldest one when there are enough.       *)
Grow(s) ==
  IF Length(s.segments) > maxSegments
  THEN [segments |-> Push(Remove(s.segments), << >>), segmentOffset |-> s.segmentOffset + 1]
  ELSE [s EXCEPT !.segments = Push(@, << >>)]

(* One item of Add.                                                        *)
AddItem(s, v) ==
  LET t == IF Length(s.segments) = 0 \/ Len(Get(s.segments, -1)) = SegmentSize
           THEN Grow(s) ELSE s
  IN  [t EXCEPT !.segments = SetAt(@, -1, Append(Get(@, -1), v))]

(* The segment doRead looks into; a pruned one is replaced by the earliest.*)
Target(s, offset) ==
  LET segment == offset \div SegmentSize
  IN  IF segment >= s.segmentOffset THEN segment - s.segmentOffset ELSE 0

Nothing(s) == [items |-> << >>, offset |-> lastID(s)]

(* Mutant: the returned offset is that of the segment that was asked for.  *)
MutdoRead(s, offset) ==
  IF Length(s.segments) = 0 \/ offset < 0 \/ Target(s, offset) >= Length(s.segments)
  THEN Nothing(s)
  ELSE LET seg   == Get(s.segments, Target(s, offset))
           items == SubSeq(seg, (offset % SegmentSize) + 1, Len(seg))
       IN  IF items = << >> THEN Nothing(s)
           ELSE [items |-> items,
                 offset |-> (offset \div SegmentSize) * SegmentSize + Len(seg)]

doRead(s, offset) ==
  IF Length(s.segments) = 0 \/ offset < 0 \/ Target(s, offset) >= Length(s.segments)
  THEN Nothing(s)
  ELSE LET seg   == Get(s.segments, Target(s, offset))
           items == SubSeq(seg, (offset % SegmentSize) + 1, Len(seg))
       IN  IF items = << >> THEN Nothing(s)
           ELSE [items |-> items,
                 offset |-> (s.segmentOffset + Target(s, offset)) * SegmentSize + Len(seg)]

(* ReadAllNonBlocking: chunk after chunk under one lock.                   *)
ReadAll(s, offset) ==
  LET all[o \in offset .. lastID(s)] ==
        LET r == doRead(s, o)
        IN  IF r.items = << >> THEN r
            ELSE [all[r.offset] EXCEPT !.items = r.items \o @]
  IN  all[offset]

(* seg[offset%segmentSize:] panics beyond the length of seg.               *)
Readable(s, offset) ==
  Length(s.segments) = 0 \/ offset < 0 \/ Target(s, offset) >= Length(s.segments)
    \/ offset % SegmentSize <= Len(Get(s.segments, Target(s, offset)))
=============================================================================
