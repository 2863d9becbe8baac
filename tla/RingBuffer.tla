----------------------------- MODULE RingBuffer -----------------------------
(***************************************************************************)
(* lnRingBuffer (esprit_mini/include/lnRingBuffer.h): one producer that    *)
(* calls put, one consumer that calls get, no lock.  _head and _tail are   *)
(* volatile, so every read and write of them in the source is an access    *)
(* of its own, and every action below makes at most one access to the      *)
(* index that the other side owns.  Indices are moved in two writes,       *)
(* "+= n" and "&= _mask": between them an index may be equal to the size.  *)
(*                                                                         *)
(* There is one core, and one of the two sides may be an interrupt         *)
(* handler: it can come between any two accesses of a call of the other    *)
(* side, and returns before that call goes on.  A put of several bytes     *)
(* reads _tail twice in getWritePointer and goes wrong when a get moves    *)
(* _tail past the end in between (README).  Next has these interruptions;  *)
(* MaskedSpec is the use of the buffer that is checked and proved, by      *)
(* callers that keep gets out of their puts of several bytes.              *)
(***************************************************************************)
EXTENDS Integers, Sequences, SequencesExt

CONSTANTS Size,      \* the argument of the constructor
          Byte,      \* the values of a byte
          MaxPut,    \* bound: bytes handed to one put
          MaxGet     \* bound: bytes asked of one get

ASSUME SizeAssumption == Size \in Nat \ {0}
ASSUME BoundAssumption == MaxPut \in Nat /\ MaxGet \in Nat

VARIABLES head, tail,  \* _head, _tail
          buffer,      \* _buffer
          prod,        \* the put in progress
          cons,        \* the get in progress
          top,         \* the side that entered its call last
          last         \* the bytes the last consume released

vars == <<head, tail, buffer, prod, cons, top, last>>

Slots == 0 .. Size - 1

\* The locals of a call: the bytes still to move, the round, the value of the
\* other side's index that was compared, the chunk length n; for the
\* properties, what the call owes its caller (the room or the bytes there were
\* when it looked), what it has moved, and whether the last call was complete.
NoPut == [pc |-> "idle", data |-> <<>>, round |-> 1, seen |-> 0, n |-> 0,
          due |-> 0, done |-> 0, complete |-> TRUE]
NoGet == [pc |-> "idle", left |-> 0, round |-> 1, seen |-> 0, n |-> 0,
          out |-> <<>>, due |-> 0, done |-> 0, complete |-> TRUE]

PutReturns == [NoPut EXCEPT !.complete = prod.done >= prod.due]
GetReturns == [NoGet EXCEPT !.complete = cons.done = cons.due]

ProdPcs == {"idle", "compare", "measure", "copy", "add", "mask"}
ConsPcs == {"idle", "count", "compare", "measure", "copy", "consume", "mask"}

Masked_Off(x) == x
\* "& _mask" for a size that is a power of two
Masked(x) == x % Size

Count == Masked(Size + head - tail)
Free == Size - Count - 1

\* What memcpy finds: beyond the end of the buffer lies other memory.
ByteAt(i) == IF i \in Slots THEN buffer[i] ELSE "foreign"

\* A difference of uint32_t that is below zero is a huge number, and every
\* caller cuts the number down to what it wants.
Clip(n, want) == IF n < 0 \/ n > want THEN want ELSE n

\* getWritePointer, given the value of _tail it compared and the one it read
\* afterwards
WriteRoom_NoGap(seen, t) ==
    IF head < seen THEN t - head - 1 ELSE Size - head
WriteRoom(seen, t) ==
    IF head < seen THEN t - head - 1
    ELSE Size - head - (IF t = 0 THEN 1 ELSE 0)

\* getReadPointer, given the value of _head it compared and the one it read
\* afterwards
ReadRoom(seen, h) == IF seen < tail THEN Size - tail ELSE h - tail

-----------------------------------------------------------------------------
Init ==
    /\ head = 0 /\ tail = 0
    /\ buffer \in [Slots -> Byte]
    /\ prod = NoPut
    /\ cons = NoGet
    /\ top = "put"
    /\ last = <<>>

PutStart ==
    /\ prod.pc = "idle"
    /\ \E s \in BoundedSeq(Byte, MaxPut) :
          prod' = [NoPut EXCEPT !.pc = "compare", !.data = s,
                                !.due = Clip(Free, Len(s))]
    /\ top' = "put"
    /\ UNCHANGED <<head, tail, buffer, cons, last>>

PutCompare ==
    /\ prod.pc = "compare"
    /\ prod' = [prod EXCEPT !.pc = "measure", !.seen = tail]
    /\ UNCHANGED <<head, tail, buffer, cons, top, last>>

PutMeasure ==
    /\ prod.pc = "measure"
    /\ LET n == WriteRoom(prod.seen, tail)
       IN prod' = IF n = 0 THEN PutReturns
                  ELSE [prod EXCEPT !.pc = "copy", !.seen = 0,
                                    !.n = Clip(n, Len(prod.data))]
    /\ UNCHANGED <<head, tail, buffer, cons, top, last>>

PutCopy ==
    /\ prod.pc = "copy"
    /\ buffer' = [i \in Slots |-> IF i \in head .. head + prod.n - 1
                                  THEN prod.data[i - head + 1] ELSE buffer[i]]
    /\ prod' = [prod EXCEPT !.pc = "add"]
    /\ UNCHANGED <<head, tail, cons, top, last>>

PutAdd ==
    /\ prod.pc = "add"
    /\ head' = head + prod.n
    /\ prod' = [prod EXCEPT !.pc = "mask", !.done = @ + prod.n, !.n = 0,
                            !.data = SubSeq(@, prod.n + 1, Len(@))]
    /\ UNCHANGED <<tail, buffer, cons, top, last>>

\* put makes a second round when the buffer wrapped, and never a third
PutMask_OneRound ==
    /\ prod.pc = "mask"
    /\ head' = Masked(head)
    /\ prod' = PutReturns
    /\ UNCHANGED <<tail, buffer, cons, top, last>>
PutMask ==
    /\ prod.pc = "mask"
    /\ head' = Masked(head)
    /\ prod' = IF prod.data = <<>> \/ prod.round = 2 THEN PutReturns
               ELSE [prod EXCEPT !.pc = "compare", !.round = 2]
    /\ UNCHANGED <<tail, buffer, cons, top, last>>

PutStep == PutCompare \/ PutMeasure \/ PutCopy \/ PutAdd \/ PutMask

-----------------------------------------------------------------------------
GetStart ==
    /\ cons.pc = "idle"
    /\ \E n \in 0 .. MaxGet :
          cons' = [NoGet EXCEPT !.pc = "count", !.left = n]
    /\ top' = "get"
    /\ UNCHANGED <<head, tail, buffer, prod, last>>

\* size = CMIN(size, count())
GetCount_Unbounded ==
    /\ cons.pc = "count"
    /\ cons' = [cons EXCEPT !.pc = "compare", !.due = Clip(Count, cons.left)]
    /\ UNCHANGED <<head, tail, buffer, prod, top, last>>
GetCount ==
    /\ cons.pc = "count"
    /\ LET n == Clip(Count, cons.left)
       IN cons' = [cons EXCEPT !.pc = "compare", !.left = n, !.due = n]
    /\ UNCHANGED <<head, tail, buffer, prod, top, last>>

GetCompare ==
    /\ cons.pc = "compare"
    /\ cons' = [cons EXCEPT !.pc = "measure", !.seen = head]
    /\ UNCHANGED <<head, tail, buffer, prod, top, last>>

GetMeasure ==
    /\ cons.pc = "measure"
    /\ LET n == ReadRoom(cons.seen, head)
       IN cons' = IF n = 0 THEN GetReturns
                  ELSE [cons EXCEPT !.pc = "copy", !.seen = 0, !.n = Clip(n, cons.left)]
    /\ UNCHANGED <<head, tail, buffer, prod, top, last>>

GetCopy ==
    /\ cons.pc = "copy"
    /\ cons' = [cons EXCEPT !.pc = "consume",
                  !.out = [i \in 1 .. cons.n |-> ByteAt(tail + i - 1)]]
    /\ UNCHANGED <<head, tail, buffer, prod, top, last>>

GetConsume ==
    /\ cons.pc = "consume"
    /\ tail' = tail + cons.n
    /\ last' = IF cons.n = 0 THEN last ELSE cons.out
    /\ cons' = [cons EXCEPT !.pc = "mask", !.left = @ - cons.n, !.n = 0,
                            !.done = @ + cons.n, !.out = <<>>]
    /\ UNCHANGED <<head, buffer, prod, top>>

GetMask ==
    /\ cons.pc = "mask"
    /\ tail' = Masked(tail)
    /\ cons' = IF cons.left = 0 \/ cons.round = 2 THEN GetReturns
               ELSE [cons EXCEPT !.pc = "compare", !.round = 2]
    /\ UNCHANGED <<head, buffer, prod, top, last>>

GetStep ==
    GetCount \/ GetCompare \/ GetMeasure \/ GetCopy \/ GetConsume \/ GetMask

\* flush, by whoever knows that neither side is in a call
FlushAll ==
    /\ prod.pc = "idle" /\ cons.pc = "idle"
    /\ head' = 0 /\ tail' = 0
    /\ UNCHANGED <<buffer, prod, cons, top, last>>

\* A call that was entered last comes to its end before the other goes on.
PutRuns == prod.pc # "idle" /\ (cons.pc = "idle" \/ top = "put")
GetRuns == cons.pc # "idle" /\ (prod.pc = "idle" \/ top = "get")

\* Everything but the beginning of a get.
Steps ==
    \/ PutStart
    \/ PutRuns /\ PutStep
    \/ GetRuns /\ GetStep
    \/ FlushAll

Next == Steps \/ GetStart

Spec == Init /\ [][Next]_vars

\* Assumed of the callers, for the code does not see to it: no get begins
\* while a put of several bytes is in progress.
LongPut == prod.pc # "idle" /\ prod.done + Len(prod.data) > 1
MaskedNext == Steps \/ (~LongPut /\ GetStart)
MaskedSpec == Init /\ [][MaskedNext]_vars

-----------------------------------------------------------------------------
\* Types.  An index is a slot, except between the two writes that move it.
RingTypeOK ==
    /\ head \in (IF prod.pc = "mask" THEN 0 .. Size ELSE Slots)
    /\ tail \in (IF cons.pc = "mask" THEN 0 .. Size ELSE Slots)
    /\ buffer \in [Slots -> Byte]
    /\ prod.pc \in ProdPcs /\ prod.data \in Seq(Byte) /\ prod.round \in 1 .. 2
    /\ top \in {"put", "get"}
    /\ cons.pc \in ConsPcs /\ cons.left \in Nat /\ cons.round \in 1 .. 2

\* memcpy of put (lnRingBuffer.h:164, 179) stays inside the buffer and only
\* touches slots that hold nothing the consumer has still to read, whatever
\* value of _tail, old, new or not yet masked, the producer has seen.
CopiesIntoFreeSlots ==
    prod.pc \in {"copy", "add"} =>
        /\ head + prod.n <= Size
        /\ prod.n <= Free

\* memcpy of get (lnRingBuffer.h:205, 218) stays inside the buffer and only
\* reads bytes that have been put, whatever value of _head it has seen.
ReadsPublishedBytes ==
    cons.pc \in {"copy", "consume"} =>
        /\ tail + cons.n <= Size
        /\ cons.n <= Count

\* Two rounds are enough: a put that returns has stored everything it was
\* handed, or filled all the room there was when it was called, and a get has
\* handed out what was there when it counted, or what it was asked for.
CallsAreComplete == prod.complete /\ cons.complete

\* The buffer is a queue: nothing is lost, invented, doubled or reordered.  A
\* byte is in the queue from the write of _head that follows its copy to the
\* write of _tail that follows its reading.
Waiting == [i \in 1 .. Count |-> buffer[Masked(tail + i - 1)]]
F == INSTANCE Fifo WITH queue <- Waiting, last <- last, Capacity <- Size - 1
ImplementsFifo == F!Spec
=============================================================================
