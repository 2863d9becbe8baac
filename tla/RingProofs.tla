----------------------------- MODULE RingProofs -----------------------------
(***************************************************************************)
(* Proofs about RingBuffer for every size, every set of bytes and calls of *)
(* every length, provided no get interrupts a put of several bytes         *)
(* (MaskedSpec): whatever index of the other side a call has seen, it      *)
(* copies into free slots and reads bytes that have been put; two rounds   *)
(* are enough; and the buffer is a queue, it implements Fifo.              *)
(***************************************************************************)
EXTENDS RingBuffer, TLAPS

-----------------------------------------------------------------------------
(* Indices.                                                                  *)

(* "& _mask" of a number below twice the size, and of twice the size.        *)
LEMMA MaskedIs ==
  ASSUME NEW x \in 0 .. (2 * Size)
  PROVE  Masked(x) = IF x < Size THEN x ELSE IF x < 2 * Size THEN x - Size ELSE 0
<1>1. Size \in Nat /\ Size > 0
  BY SizeAssumption
<1> DEFINE q == x \div Size
           r == x % Size
<1>2. \A o, s \in Nat : s > 0 => /\ o \div s \in Nat /\ o % s \in 0 .. (s - 1)
                                 /\ o = s * (o \div s) + (o % s)
  BY SMTT(30)
<1>3. q \in Nat /\ r \in 0 .. (Size - 1) /\ x = Size * q + r
  BY <1>1, <1>2
<1>4. Masked(x) = r
  BY DEF Masked
<1> HIDE DEF q, r
<1>5. q < 3
  <2>1. CASE q >= 3
    <3>1. Size * q >= Size * 3
      BY <1>1, <1>3, <2>1
    <3> QED
      BY <1>1, <1>3, <3>1
  <2> QED
    BY <1>3, <2>1
<1>6. CASE q = 0
  BY <1>1, <1>3, <1>4, <1>6
<1>7. CASE q = 1
  BY <1>1, <1>3, <1>4, <1>7
<1>8. CASE q = 2
  BY <1>1, <1>3, <1>4, <1>8
<1> QED
  BY <1>3, <1>5, <1>6, <1>7, <1>8

(* The distance from t to h, each a slot or the size.                        *)
Distance(h, t) ==
  IF t <= h THEN (IF h - t = Size THEN 0 ELSE h - t) ELSE Size + h - t

(* How many bytes wait, and how many may be added.                           *)
LEMMA CountIs ==
  ASSUME NEW h \in 0 .. Size, NEW t \in 0 .. Size
  PROVE  /\ Masked(Size + h - t) = Distance(h, t)
         /\ Distance(h, t) \in 0 .. (Size - 1)
<1>1. Size \in Nat /\ Size > 0
  BY SizeAssumption
<1>2. Size + h - t \in 0 .. (2 * Size)
  BY <1>1
<1>3. Masked(Size + h - t) = IF Size + h - t < Size THEN Size + h - t
              ELSE IF Size + h - t < 2 * Size THEN h - t ELSE 0
  BY <1>1, <1>2, MaskedIs
<1> QED
  BY <1>1, <1>3 DEF Distance

(* The same of the two indices, in a form that a step can use of both states. *)
LEMMA CountNow ==
  head \in 0 .. Size /\ tail \in 0 .. Size
    => /\ Count = Distance(head, tail) /\ Count \in 0 .. (Size - 1)
       /\ Free = Size - 1 - Distance(head, tail) /\ Free \in 0 .. (Size - 1)
<1> SUFFICES ASSUME head \in 0 .. Size, tail \in 0 .. Size
             PROVE  /\ Count = Distance(head, tail) /\ Count \in 0 .. (Size - 1)
                    /\ Free = Size - 1 - Distance(head, tail) /\ Free \in 0 .. (Size - 1)
  OBVIOUS
<1>1. Size \in Nat /\ Size > 0
  BY SizeAssumption
<1>2. Count = Distance(head, tail)
  BY CountIs DEF Count
<1>3. Distance(head, tail) \in 0 .. (Size - 1)
  BY CountIs
<1> QED
  BY <1>1, <1>2, <1>3 DEF Free

(* Bytes that are added where there is room for them count at once, also     *)
(* while the index is not yet masked.                                        *)
LEMMA DistanceGrows ==
  ASSUME NEW h \in 0 .. (Size - 1), NEW t \in 0 .. Size, NEW n \in Nat,
         h + n <= Size, n <= Size - 1 - Distance(h, t)
  PROVE  Distance(h + n, t) = Distance(h, t) + n
<1>1. Size \in Nat /\ Size > 0 /\ h \in Int /\ t \in Int
  BY SizeAssumption
<1>2. CASE t <= h
  <2>1. Distance(h, t) = h - t
    BY <1>1, <1>2 DEF Distance
  <2>2. t <= h + n /\ h + n - t # Size
    BY <1>1, <1>2, <2>1
  <2>3. Distance(h + n, t) = h + n - t
    BY <2>2 DEF Distance
  <2> QED
    BY <1>1, <2>1, <2>3
<1>3. CASE h < t
  <2>1. Distance(h, t) = Size + h - t
    BY <1>1, <1>3 DEF Distance
  <2>2. h + n < t
    BY <1>1, <1>3, <2>1
  <2>3. Distance(h + n, t) = Size + (h + n) - t
    BY <1>1, <2>2 DEF Distance
  <2> QED
    BY <1>1, <2>1, <2>3
<1> QED
  BY <1>1, <1>2, <1>3

-----------------------------------------------------------------------------
(* The inductive invariant.                                                  *)

PutType == [pc : ProdPcs, data : Seq(Byte), round : 1 .. 2, seen : 0 .. Size, n : Nat,
            due : Int, done : Nat, complete : BOOLEAN]
GetType == [pc : ConsPcs, left : Nat, round : 1 .. 2, seen : 0 .. Size, n : Nat,
            out : Seq(Byte \cup {"foreign"}), due : Int, done : Nat, complete : BOOLEAN]

Types ==
  /\ prod \in PutType /\ cons \in GetType
  /\ top \in {"put", "get"}
  /\ buffer \in [Slots -> Byte]
  /\ head \in 0 .. Size /\ (prod.pc # "mask" => head < Size)
  /\ tail \in 0 .. Size /\ (cons.pc # "mask" => tail < Size)

(* A get is over before the put that it interrupted goes on, so only a put   *)
(* of one byte can be interrupted.                                           *)
Nested == prod.pc # "idle" /\ cons.pc # "idle" /\ top = "get" => ~LongPut

(* What the producer knows of _tail between its two readings of it.  Unless  *)
(* a get may come in between they give the same value; the consumer moves    *)
(* _tail towards _head, past the end perhaps, and never beyond it.           *)
Undisturbed == LongPut \/ (cons.pc # "idle" /\ top = "put")
TailSeen ==
  prod.pc = "measure" =>
    /\ Undisturbed => prod.seen = tail
    /\ prod.seen = Size => cons.pc # "idle" /\ top = "put"
    /\ prod.seen <= head => prod.seen <= tail /\ tail <= head
    /\ head < prod.seen => prod.seen <= tail \/ tail <= head

(* What a put copies has room, and what a get is to hand out is there.       *)
Room ==
  prod.pc \in {"copy", "add"} =>
    head + prod.n <= Size /\ prod.n <= Free /\ prod.n <= Len(prod.data)
There ==
  /\ cons.pc \notin {"idle", "count"} => cons.left <= Count
  /\ cons.pc = "measure" => (tail <= cons.seen => cons.left <= cons.seen - tail)
  /\ cons.pc \in {"copy", "consume"} => cons.n <= cons.left /\ tail + cons.n <= Size

RingInv == Types /\ Nested /\ TailSeen /\ Room /\ There

(* It holds of an empty buffer (lnRingBuffer.h:101-104).                     *)
LEMMA InitRingInv == Init => RingInv
<1> SUFFICES ASSUME Init PROVE RingInv
  OBVIOUS
<1>1. Size \in Nat /\ Size > 0
  BY SizeAssumption
<1>2. NoPut \in PutType /\ NoGet \in GetType
  BY <1>1 DEF NoPut, NoGet, PutType, GetType, ProdPcs, ConsPcs
<1> QED
  BY <1>1, <1>2 DEF Init, RingInv, Types, Nested, TailSeen, Room, There, NoPut, NoGet

-----------------------------------------------------------------------------
(* The steps of a put.                                                       *)

(* The locals of a put that returns keep their types.                        *)
LEMMA PutReturnsType == PutReturns \in PutType /\ PutReturns.pc = "idle"
<1> DEFINE whole == prod.done >= prod.due
<1>1. whole \in BOOLEAN
  BY SMT
<1> HIDE DEF whole
<1>2. NoPut \in PutType /\ NoPut.pc = "idle"
  BY SizeAssumption DEF NoPut, PutType, ProdPcs
<1>3. [NoPut EXCEPT !.complete = whole] \in PutType
      /\ [NoPut EXCEPT !.complete = whole].pc = "idle"
  BY <1>1, <1>2 DEF PutType
<1> QED
  BY <1>3 DEF PutReturns, whole

(* It is preserved when put is called.                                       *)
LEMMA PutStartInv == RingInv /\ PutStart => RingInv'
<1> SUFFICES ASSUME RingInv, PutStart PROVE RingInv'
  OBVIOUS
<1>1. PICK s \in BoundedSeq(Byte, MaxPut) :
        prod' = [NoPut EXCEPT !.pc = "compare", !.data = s, !.due = Clip(Free, Len(s))]
  BY DEF PutStart
<1>2. s \in Seq(Byte) /\ Len(s) \in Nat
  <2>1. PICK m \in 0 .. MaxPut : s \in [1 .. m -> Byte]
    BY DEF BoundedSeq, SeqOf
  <2> QED
    BY <2>1, BoundAssumption
<1>3. Free \in Int
  BY CountNow, SizeAssumption DEF RingInv, Types
<1> DEFINE due == Clip(Free, Len(s))
<1>4. due \in Int
  BY <1>2, <1>3 DEF Clip
<1> HIDE DEF due
<1>5. prod' = [NoPut EXCEPT !.pc = "compare", !.data = s, !.due = due]
  BY <1>1 DEF due
<1>6. NoPut \in PutType
  BY SizeAssumption DEF NoPut, PutType, ProdPcs
<1>7. prod' \in PutType /\ prod'.pc = "compare"
  BY <1>2, <1>4, <1>5, <1>6 DEF PutType, ProdPcs
<1> QED
  BY <1>7 DEF PutStart, RingInv, Types, Nested, TailSeen, Room, There, Count

(* It is preserved by the comparison of _head with _tail.                    *)
LEMMA PutCompareInv == RingInv /\ PutRuns /\ PutCompare => RingInv'
<1> SUFFICES ASSUME RingInv, PutRuns, PutCompare PROVE RingInv'
  OBVIOUS
<1>1. prod' \in PutType /\ prod'.pc = "measure" /\ prod'.seen = tail
      /\ prod'.done = prod.done /\ prod'.data = prod.data
  BY DEF PutCompare, RingInv, Types, PutType, ProdPcs
<1>2. head \in 0 .. (Size - 1) /\ tail \in 0 .. Size /\ Size \in Nat
  BY SizeAssumption DEF PutCompare, RingInv, Types
<1>3. tail = Size => cons.pc = "mask" /\ top = "put"
  BY <1>2 DEF RingInv, Types, PutRuns
<1> QED
  BY <1>1, <1>2, <1>3 DEF PutCompare, RingInv, Types, Nested, TailSeen, Room, There, Count,
     LongPut, Undisturbed

(* Whatever it has seen of _tail, the producer finds no more room than there *)
(* is (lnRingBuffer.h:135-145).                                              *)
LEMMA RoomIsFree ==
  ASSUME RingInv, PutRuns, prod.pc = "measure", WriteRoom(prod.seen, tail) # 0
  PROVE  LET n == Clip(WriteRoom(prod.seen, tail), Len(prod.data))
         IN  n \in Nat /\ head + n <= Size /\ n <= Free /\ n <= Len(prod.data)
<1> DEFINE room == WriteRoom(prod.seen, tail)
           n == Clip(room, Len(prod.data))
<1>1. Size \in Nat /\ Size > 0 /\ head \in 0 .. (Size - 1) /\ tail \in 0 .. Size
  BY SizeAssumption DEF RingInv, Types
<1>2. /\ Len(prod.data) \in Nat /\ prod.seen \in 0 .. Size /\ prod.done \in Nat
  BY DEF RingInv, Types, PutType
<1>3. Count = Distance(head, tail) /\ Free = Size - 1 - Distance(head, tail)
  BY <1>1, CountNow
<1>4. CASE prod.seen <= head
  <2>1. prod.seen <= tail /\ tail <= head
    BY <1>4 DEF RingInv, TailSeen
  <2>2. room = Size - head - (IF tail = 0 THEN 1 ELSE 0)
    BY <1>1, <1>2, <1>4 DEF WriteRoom
  <2>3. Free = Size - 1 - (head - tail)
    BY <1>1, <1>3, <2>1 DEF Distance
  <2>4. room \in Nat /\ room <= Free /\ head + room <= Size
    BY <1>1, <2>1, <2>2, <2>3
  <2> QED
    BY <1>1, <1>2, <2>3, <2>4 DEF Clip
<1>5. CASE head < prod.seen /\ head < tail
  <2>1. room = tail - head - 1
    BY <1>5 DEF WriteRoom
  <2>2. Free = tail - head - 1
    BY <1>1, <1>3, <1>5 DEF Distance
  <2> QED
    BY <1>1, <1>2, <1>5, <2>1, <2>2 DEF Clip
<1>6. CASE head < prod.seen /\ tail <= head
  <2>1. prod.seen # tail
    BY <1>1, <1>2, <1>6
  <2>2. ~LongPut /\ ~(cons.pc # "idle" /\ top = "put")
    BY <2>1 DEF RingInv, TailSeen, Undisturbed
  <2>3. prod.done + Len(prod.data) <= 1 /\ prod.seen < Size
    BY <1>1, <1>2, <2>2 DEF LongPut, RingInv, TailSeen
  <2>4. room = tail - head - 1 /\ room < 0
    BY <1>1, <1>6 DEF WriteRoom
  <2>5. n = Len(prod.data) /\ n <= 1
    BY <1>2, <2>3, <2>4 DEF Clip
  <2>6. head + 1 < Size
    BY <1>1, <1>2, <1>6, <2>3
  <2>7. Free = Size - 1 - (head - tail) /\ Free >= 1
    BY <1>1, <1>3, <1>6, <2>6 DEF Distance
  <2> QED
    BY <1>1, <1>2, <2>5, <2>6, <2>7
<1> QED
  BY <1>1, <1>2, <1>4, <1>5, <1>6

(* So the invariant survives the second reading of _tail.                    *)
LEMMA PutMeasureInv == RingInv /\ PutRuns /\ PutMeasure => RingInv'
<1> SUFFICES ASSUME RingInv, PutRuns, PutMeasure PROVE RingInv'
  OBVIOUS
<1> DEFINE room == WriteRoom(prod.seen, tail)
           n == Clip(room, Len(prod.data))
<1>1. CASE room = 0
  <2>1. prod' = PutReturns
    BY <1>1 DEF PutMeasure
  <2>2. prod' \in PutType /\ prod'.pc = "idle"
    BY <2>1, PutReturnsType
  <2> QED
    BY <2>2 DEF PutMeasure, RingInv, Types, Nested, TailSeen, Room, There, Count
<1>2. CASE room # 0
  <2>1. n \in Nat /\ head + n <= Size /\ n <= Free /\ n <= Len(prod.data)
    BY <1>2, RoomIsFree DEF PutMeasure
  <2>2. prod' = [prod EXCEPT !.pc = "copy", !.seen = 0, !.n = n]
    BY <1>2 DEF PutMeasure
  <2> HIDE DEF n
  <2>3. prod' \in PutType /\ prod'.pc = "copy" /\ prod'.n = n /\ prod'.data = prod.data
        /\ prod'.done = prod.done
    <3>1. prod \in PutType /\ 0 \in 0 .. Size /\ n \in Nat
      BY <2>1, SizeAssumption DEF RingInv, Types
    <3> QED
      BY <2>2, <3>1 DEF PutType, ProdPcs
  <2>4. head' = head /\ tail' = tail /\ cons' = cons /\ top' = top /\ buffer' = buffer
    BY DEF PutMeasure
  <2> QED
    BY <2>1, <2>3, <2>4 DEF PutMeasure, RingInv, Types, Nested, TailSeen, Room, There, Count,
       Free, LongPut
<1> QED
  BY <1>1, <1>2

(* And the copy itself, which stays inside the bytes handed over.            *)
LEMMA PutCopyInv == RingInv /\ PutRuns /\ PutCopy => RingInv'
<1> SUFFICES ASSUME RingInv, PutRuns, PutCopy PROVE RingInv'
  OBVIOUS
<1>1. prod' \in PutType /\ prod'.pc = "add" /\ prod'.n = prod.n /\ prod'.data = prod.data
      /\ prod'.done = prod.done
  BY DEF PutCopy, RingInv, Types, PutType, ProdPcs
<1>2. ASSUME NEW i \in Slots, i \in head .. head + prod.n - 1
      PROVE  prod.data[i - head + 1] \in Byte
  <2>1. prod.data \in Seq(Byte) /\ prod.n \in Nat /\ prod.n <= Len(prod.data) /\ head \in Int
    BY SizeAssumption DEF PutCopy, RingInv, Types, PutType, Room
  <2>2. i - head + 1 \in 1 .. Len(prod.data)
    BY <1>2, <2>1
  <2> QED
    BY <2>1, <2>2
<1>3. buffer' \in [Slots -> Byte]
  BY <1>2 DEF PutCopy, RingInv, Types
<1>4. head' = head /\ tail' = tail /\ cons' = cons /\ top' = top /\ prod.pc = "copy"
  BY DEF PutCopy
<1> QED
  BY <1>1, <1>3, <1>4 DEF RingInv, Types, Nested, TailSeen, Room, There, Count, Free, LongPut

(* What a put publishes is what it has copied, and it fills free slots.      *)
LEMMA PutAddInv == RingInv /\ PutRuns /\ PutAdd => RingInv'
<1> SUFFICES ASSUME RingInv, PutRuns, PutAdd PROVE RingInv'
  OBVIOUS
<1>1. Size \in Nat /\ Size > 0 /\ head \in 0 .. (Size - 1) /\ tail \in 0 .. Size
  BY SizeAssumption DEF PutAdd, RingInv, Types
<1>2. prod.n \in Nat /\ head + prod.n <= Size /\ prod.n <= Free /\ prod.n <= Len(prod.data)
      /\ prod.data \in Seq(Byte) /\ prod.done \in Nat
  BY DEF PutAdd, RingInv, Types, Room, PutType
<1> DEFINE rest == SubSeq(prod.data, prod.n + 1, Len(prod.data))
<1>3. rest \in Seq(Byte) /\ Len(rest) = Len(prod.data) - prod.n
  BY <1>2
<1>4. prod' = [prod EXCEPT !.pc = "mask", !.done = prod.done + prod.n, !.n = 0, !.data = rest]
  BY DEF PutAdd
<1> HIDE DEF rest
<1>5. prod' \in PutType /\ prod'.pc = "mask" /\ prod'.data = rest
      /\ prod'.done = prod.done + prod.n
  <2>1. prod \in PutType /\ prod.done + prod.n \in Nat
    BY <1>2 DEF RingInv, Types
  <2> QED
    BY <1>3, <1>4, <2>1 DEF PutType, ProdPcs
<1>6. head' = head + prod.n /\ head' \in 0 .. Size /\ tail' = tail
  BY <1>1, <1>2 DEF PutAdd
<1>7. Count' = Masked(Size + head' - tail')
  BY DEF Count
<1>8. Count = Distance(head, tail) /\ Free = Size - 1 - Distance(head, tail)
  BY <1>1, CountNow
<1>9. Count' = Distance(head', tail)
  BY <1>1, <1>6, <1>7, CountIs
<1>10. Count' = Count + prod.n
  BY <1>1, <1>2, <1>6, <1>8, <1>9, DistanceGrows
<1>11. cons' = cons /\ top' = top /\ buffer' = buffer /\ prod.pc = "add"
  BY DEF PutAdd
<1>12. Count \in Int /\ Count' \in Int /\ cons.left \in Int
  <2>1. head \in 0 .. Size
    BY <1>1
  <2>2. Count \in 0 .. (Size - 1)
    BY <1>1, <2>1, CountNow
  <2>3. Distance(head', tail) \in 0 .. (Size - 1)
    BY <1>1, <1>6, CountIs
  <2>4. cons.left \in Nat
    BY DEF RingInv, Types, GetType
  <2> QED
    BY <1>1, <1>9, <2>2, <2>3, <2>4
<1>13. LongPut' => LongPut
  BY <1>2, <1>3, <1>5, <1>11 DEF LongPut
<1>14. Types' /\ TailSeen' /\ Room'
  BY <1>5, <1>6, <1>11 DEF RingInv, Types, TailSeen, Room
<1>15. Nested'
  BY <1>5, <1>11, <1>13 DEF RingInv, Nested
<1>16. There'
  BY <1>2, <1>6, <1>10, <1>11, <1>12 DEF RingInv, There
<1> QED
  BY <1>14, <1>15, <1>16 DEF RingInv

(* "& _mask" does not change what waits.                                     *)
LEMMA MaskedSame ==
  ASSUME NEW h \in 0 .. Size, NEW t \in 0 .. Size
  PROVE  /\ Masked(h) \in 0 .. (Size - 1)
         /\ Masked(h) = IF h = Size THEN 0 ELSE h
         /\ Distance(Masked(h), t) = Distance(h, t)
         /\ Distance(h, Masked(t)) = Distance(h, t)
<1>1. Size \in Nat /\ Size > 0
  BY SizeAssumption
<1>2. h \in 0 .. (2 * Size) /\ t \in 0 .. (2 * Size)
  BY <1>1
<1>3. Masked(h) = IF h = Size THEN 0 ELSE h
  BY <1>1, <1>2, MaskedIs
<1>4. Masked(t) = IF t = Size THEN 0 ELSE t
  BY <1>1, <1>2, MaskedIs
<1> QED
  BY <1>1, <1>3, <1>4 DEF Distance

(* And the masking of _head, after which put returns or goes round again.    *)
LEMMA PutMaskInv == RingInv /\ PutRuns /\ PutMask => RingInv'
<1> SUFFICES ASSUME RingInv, PutRuns, PutMask PROVE RingInv'
  OBVIOUS
<1>1. Size \in Nat /\ Size > 0 /\ head \in 0 .. Size /\ tail \in 0 .. Size
  BY SizeAssumption DEF RingInv, Types
<1>2. head' = Masked(head) /\ tail' = tail /\ cons' = cons /\ top' = top /\ buffer' = buffer
  BY DEF PutMask
<1>3. head' \in 0 .. (Size - 1)
  BY <1>1, <1>2, MaskedSame
<1>4. Count' = Count
  <2>1. Count' = Masked(Size + head' - tail)
    BY <1>2 DEF Count
  <2>2. head' \in 0 .. Size
    BY <1>1, <1>3
  <2>3. Count' = Distance(head', tail)
    BY <1>1, <2>1, <2>2, CountIs
  <2>4. Distance(head', tail) = Distance(head, tail)
    BY <1>1, <1>2, MaskedSame
  <2> QED
    BY <1>1, <2>3, <2>4, CountNow
<1>5. /\ prod' \in PutType /\ prod'.pc \in {"idle", "compare"}
      /\ prod'.pc # "idle" => prod'.data = prod.data /\ prod'.done = prod.done
  <2>1. CASE prod' = PutReturns
    BY <2>1, PutReturnsType
  <2>2. CASE prod' = [prod EXCEPT !.pc = "compare", !.round = 2]
    <3>1. prod \in PutType /\ 2 \in 1 .. 2 /\ "compare" \in ProdPcs
      BY DEF RingInv, Types, ProdPcs
    <3>2. [prod EXCEPT !.pc = "compare", !.round = 2] \in PutType
      BY <3>1 DEF PutType
    <3> QED
      BY <2>2, <3>1, <3>2 DEF PutType
  <2> QED
    BY <2>1, <2>2 DEF PutMask
<1>6. prod.pc = "mask"
  BY DEF PutMask
<1> QED
  BY <1>1, <1>2, <1>3, <1>4, <1>5, <1>6 DEF RingInv, Types, Nested, TailSeen, Room, There,
     LongPut

-----------------------------------------------------------------------------
(* The steps of a get.                                                       *)

(* The locals of a get that returns keep their types.                        *)
LEMMA GetReturnsType == GetReturns \in GetType /\ GetReturns.pc = "idle"
<1> DEFINE whole == cons.done = cons.due
<1>1. whole \in BOOLEAN
  BY SMT
<1> HIDE DEF whole
<1>2. NoGet \in GetType /\ NoGet.pc = "idle"
  BY SizeAssumption DEF NoGet, GetType, ConsPcs
<1>3. [NoGet EXCEPT !.complete = whole] \in GetType
      /\ [NoGet EXCEPT !.complete = whole].pc = "idle"
  BY <1>1, <1>2 DEF GetType
<1> QED
  BY <1>3 DEF GetReturns, whole

(* It is preserved when get is called.                                       *)
LEMMA GetStartInv == RingInv /\ ~LongPut /\ GetStart => RingInv'
<1> SUFFICES ASSUME RingInv, ~LongPut, GetStart PROVE RingInv'
  OBVIOUS
<1>1. PICK n \in 0 .. MaxGet : cons' = [NoGet EXCEPT !.pc = "count", !.left = n]
  BY DEF GetStart
<1>2. NoGet \in GetType /\ n \in Nat
  BY SizeAssumption, BoundAssumption DEF NoGet, GetType, ConsPcs
<1>3. cons' \in GetType /\ cons'.pc = "count"
  BY <1>1, <1>2 DEF GetType, ConsPcs
<1>4. head' = head /\ tail' = tail /\ buffer' = buffer /\ prod' = prod /\ top' = "get"
      /\ cons.pc = "idle"
  BY DEF GetStart
<1> QED
  BY <1>3, <1>4 DEF RingInv, Types, Nested, TailSeen, Undisturbed, Room, There, LongPut, Count, Free

(* The steps that move the call of get on without moving _tail.              *)
LEMMA GetLocalStep ==
  ASSUME RingInv, GetRuns, UNCHANGED <<head, tail, buffer, prod, top>>,
         cons' \in GetType, cons.pc # "mask", cons'.pc # "mask", There'
  PROVE  RingInv'
<1>1. head' = head /\ tail' = tail /\ buffer' = buffer /\ prod' = prod /\ top' = top
  OBVIOUS
<1>2. Count' = Count /\ Free' = Free
  BY <1>1 DEF Count, Free
<1>3. cons.pc # "idle" /\ (prod.pc = "idle" \/ top = "get")
  BY DEF GetRuns
<1>4. TailSeen'
  BY <1>1, <1>3 DEF RingInv, TailSeen, Undisturbed, LongPut, Nested
<1> QED
  BY <1>1, <1>2, <1>3, <1>4 DEF RingInv, Types, Nested, Room, LongPut

(* Such as the cut of the size to what is there.                             *)
LEMMA GetCountInv == RingInv /\ GetRuns /\ GetCount => RingInv'
<1> SUFFICES ASSUME RingInv, GetRuns, GetCount PROVE RingInv'
  OBVIOUS
<1> DEFINE n == Clip(Count, cons.left)
<1>1. Count \in Nat /\ cons.left \in Nat
  <2>1. Count \in 0 .. (Size - 1)
    BY CountNow DEF RingInv, Types
  <2> QED
    BY <2>1, SizeAssumption DEF RingInv, Types, GetType
<1>2. n \in Nat /\ n <= Count
  BY <1>1 DEF Clip
<1>3. cons' = [cons EXCEPT !.pc = "compare", !.left = n, !.due = n]
  BY DEF GetCount
<1> HIDE DEF n
<1>4. cons' \in GetType /\ cons'.pc = "compare" /\ cons'.left = n
  <2>1. cons \in GetType /\ n \in Int /\ "compare" \in ConsPcs
    BY <1>2 DEF RingInv, Types, ConsPcs
  <2>2. [cons EXCEPT !.pc = "compare", !.left = n, !.due = n] \in GetType
    BY <1>2, <2>1 DEF GetType
  <2> QED
    BY <1>3, <2>1, <2>2 DEF GetType
<1>5. Count' = Count /\ UNCHANGED <<head, tail, buffer, prod, top>> /\ cons.pc = "count"
  BY DEF GetCount, Count
<1>6. There'
  BY <1>2, <1>4, <1>5 DEF There
<1> QED
  BY <1>4, <1>5, <1>6, GetLocalStep

(* The comparison of _tail with _head.                                       *)
LEMMA GetCompareInv == RingInv /\ GetRuns /\ GetCompare => RingInv'
<1> SUFFICES ASSUME RingInv, GetRuns, GetCompare PROVE RingInv'
  OBVIOUS
<1>1. cons' = [cons EXCEPT !.pc = "measure", !.seen = head] /\ cons.pc = "compare"
  BY DEF GetCompare
<1>2. cons \in GetType /\ head \in 0 .. Size /\ tail \in 0 .. Size /\ Size \in Nat
  BY SizeAssumption DEF RingInv, Types
<1>3. cons' \in GetType /\ cons'.pc = "measure" /\ cons'.left = cons.left /\ cons'.seen = head
  BY <1>1, <1>2 DEF GetType, ConsPcs
<1>4. Count' = Count /\ UNCHANGED <<head, tail, buffer, prod, top>>
  BY DEF GetCompare, Count
<1>5. cons.left <= Count /\ Count = Distance(head, tail) /\ cons.left \in Nat
  BY <1>1, <1>2, CountNow DEF RingInv, There, GetType
<1>6. tail <= head => cons.left <= head - tail
  BY <1>2, <1>5 DEF Distance
<1>7. There'
  BY <1>3, <1>4, <1>5, <1>6 DEF There
<1> QED
  BY <1>1, <1>3, <1>4, <1>7, GetLocalStep

(* Whatever it has seen of _head, the consumer stays inside the buffer       *)
(* (lnRingBuffer.h:127-134).                                                 *)
LEMMA BytesAreThere ==
  ASSUME RingInv, cons.pc = "measure"
  PROVE  LET n == Clip(ReadRoom(cons.seen, head), cons.left)
         IN  n \in Nat /\ n <= cons.left /\ tail + n <= Size
<1> DEFINE room == ReadRoom(cons.seen, head)
<1>1. /\ Size \in Nat /\ head \in 0 .. Size /\ tail \in 0 .. (Size - 1)
      /\ cons.left \in Nat /\ cons.seen \in 0 .. Size
  BY SizeAssumption DEF RingInv, Types, GetType
<1>2. CASE cons.seen < tail
  <2>1. room = Size - tail
    BY <1>2 DEF ReadRoom
  <2> QED
    BY <1>1, <2>1 DEF Clip
<1>3. CASE tail <= cons.seen
  <2>1. room = head - tail
    BY <1>1, <1>3 DEF ReadRoom
  <2>2. cons.left <= cons.seen - tail
    BY <1>3 DEF RingInv, There
  <2> QED
    BY <1>1, <2>1, <2>2 DEF Clip
<1> QED
  BY <1>1, <1>2, <1>3

(* The second reading of _head.                                              *)
LEMMA GetMeasureInv == RingInv /\ GetRuns /\ GetMeasure => RingInv'
<1> SUFFICES ASSUME RingInv, GetRuns, GetMeasure PROVE RingInv'
  OBVIOUS
<1> DEFINE n == Clip(ReadRoom(cons.seen, head), cons.left)
<1>1. Count' = Count /\ UNCHANGED <<head, tail, buffer, prod, top>> /\ cons.pc = "measure"
  BY DEF GetMeasure, Count
<1>2. n \in Nat /\ n <= cons.left /\ tail + n <= Size
  BY <1>1, BytesAreThere
<1>3. cons' = GetReturns \/ cons' = [cons EXCEPT !.pc = "copy", !.seen = 0, !.n = n]
  BY DEF GetMeasure
<1> HIDE DEF n
<1>4. CASE cons' = GetReturns
  <2>1. cons' \in GetType /\ cons'.pc = "idle"
    BY <1>4, GetReturnsType
  <2>2. There'
    BY <2>1 DEF There
  <2> QED
    BY <1>1, <2>1, <2>2, GetLocalStep
<1>5. CASE cons' = [cons EXCEPT !.pc = "copy", !.seen = 0, !.n = n]
  <2>1. cons \in GetType /\ 0 \in 0 .. Size
    BY SizeAssumption DEF RingInv, Types
  <2>2. cons' \in GetType /\ cons'.pc = "copy" /\ cons'.left = cons.left /\ cons'.n = n
    BY <1>2, <1>5, <2>1 DEF GetType, ConsPcs
  <2>3. There'
    BY <1>1, <1>2, <2>2 DEF RingInv, There
  <2> QED
    BY <1>1, <2>2, <2>3, GetLocalStep
<1> QED
  BY <1>3, <1>4, <1>5

(* And the copy to the caller.                                               *)
LEMMA GetCopyInv == RingInv /\ GetRuns /\ GetCopy => RingInv'
<1> SUFFICES ASSUME RingInv, GetRuns, GetCopy PROVE RingInv'
  OBVIOUS
<1> DEFINE bytes == [i \in 1 .. cons.n |-> ByteAt(tail + i - 1)]
<1>1. Count' = Count /\ UNCHANGED <<head, tail, buffer, prod, top>> /\ cons.pc = "copy"
  BY DEF GetCopy, Count
<1>2. cons \in GetType /\ buffer \in [Slots -> Byte] /\ cons.n \in Nat
  BY DEF RingInv, Types, GetType
<1>3. bytes \in Seq(Byte \cup {"foreign"})
  BY <1>2 DEF ByteAt
<1>4. cons' = [cons EXCEPT !.pc = "consume", !.out = bytes]
  BY DEF GetCopy
<1> HIDE DEF bytes
<1>5. cons' \in GetType /\ cons'.pc = "consume" /\ cons'.left = cons.left /\ cons'.n = cons.n
  BY <1>2, <1>3, <1>4 DEF GetType, ConsPcs
<1>6. There'
  BY <1>1, <1>5 DEF RingInv, There
<1> QED
  BY <1>1, <1>5, <1>6, GetLocalStep

(* The consumer moves _tail towards _head and not beyond it.                 *)
LEMMA GetConsumeInv == RingInv /\ GetRuns /\ GetConsume => RingInv'
<1> SUFFICES ASSUME RingInv, GetRuns, GetConsume PROVE RingInv'
  OBVIOUS
<1>1. Size \in Nat /\ Size > 0 /\ head \in 0 .. Size /\ tail \in 0 .. (Size - 1)
  BY SizeAssumption DEF GetConsume, RingInv, Types
<1>2. cons \in GetType /\ cons.n \in Nat /\ cons.left \in Nat /\ cons.done \in Nat
  BY DEF RingInv, Types, GetType
<1>3. cons.n <= cons.left /\ cons.left <= Count /\ tail + cons.n <= Size
  BY DEF GetConsume, RingInv, There
<1>4. cons' = [cons EXCEPT !.pc = "mask", !.left = cons.left - cons.n, !.n = 0,
                           !.done = cons.done + cons.n, !.out = <<>>]
  BY DEF GetConsume
<1>5. cons.left - cons.n \in Nat /\ cons.done + cons.n \in Nat
      /\ <<>> \in Seq(Byte \cup {"foreign"})
  BY <1>2, <1>3
<1>6. cons' \in GetType /\ cons'.pc = "mask" /\ cons'.left = cons.left - cons.n
  BY <1>2, <1>4, <1>5 DEF GetType, ConsPcs
<1>7. head' = head /\ tail' = tail + cons.n /\ buffer' = buffer /\ prod' = prod /\ top' = top
      /\ cons.pc = "consume"
  BY DEF GetConsume
<1>8. tail \in 0 .. Size /\ tail' \in 0 .. Size
  BY <1>1, <1>2, <1>3, <1>7
<1>9. Count = Distance(head, tail) /\ Free = Size - 1 - Distance(head, tail)
  BY <1>1, <1>8, CountNow
<1>10. Count' = Distance(head, tail')
  <2>1. Count' = Masked(Size + head - tail')
    BY <1>7 DEF Count
  <2> QED
    BY <1>1, <1>8, <2>1, CountIs
<1>11. Count' = Count - cons.n /\ Free' = Free + cons.n
  <2>1. Distance(head, tail') = Distance(head, tail) - cons.n
    BY <1>1, <1>2, <1>3, <1>7, <1>9 DEF Distance
  <2>2. Free' = Size - Count' - 1
    BY DEF Free
  <2>3. Distance(head, tail) \in 0 .. (Size - 1)
    BY <1>1, <1>8, CountIs
  <2> QED
    BY <1>1, <1>2, <1>9, <1>10, <2>1, <2>2, <2>3
<1>12. Count \in Int /\ Free \in Int
  BY <1>1, <1>8, CountNow
<1>13. cons.pc # "idle" /\ (prod.pc = "idle" \/ top = "get")
  BY DEF GetRuns
<1>14. TailSeen'
  <2> SUFFICES ASSUME prod.pc = "measure" PROVE TailSeen'
    BY <1>7 DEF TailSeen
  <2>1. head < Size /\ prod.seen \in 0 .. Size
    BY DEF RingInv, Types, PutType
  <2>2. ~LongPut /\ top = "get"
    BY <1>13 DEF RingInv, Nested
  <2>3. ~Undisturbed' /\ prod.seen # Size
    BY <1>7, <2>2 DEF Undisturbed, LongPut, RingInv, TailSeen
  <2>4. CASE prod.seen <= head
    <3>1. prod.seen <= tail /\ tail <= head
      BY <2>4 DEF RingInv, TailSeen
    <3>2. Count = head - tail
      BY <1>1, <1>9, <2>1, <3>1 DEF Distance
    <3> QED
      BY <1>1, <1>2, <1>3, <1>7, <2>1, <2>3, <2>4, <3>1, <3>2 DEF TailSeen
  <2>5. CASE head < prod.seen
    <3>1. prod.seen <= tail \/ tail <= head
      BY <2>5 DEF RingInv, TailSeen
    <3>2. tail <= head => Count = head - tail
      BY <1>1, <1>9, <2>1 DEF Distance
    <3> QED
      BY <1>1, <1>2, <1>3, <1>7, <2>1, <2>3, <2>5, <3>1, <3>2 DEF TailSeen
  <2> QED
    BY <1>1, <2>1, <2>4, <2>5
<1>15. Room'
  <2> SUFFICES ASSUME prod.pc \in {"copy", "add"} PROVE Room'
    BY <1>7 DEF Room
  <2>1. head + prod.n <= Size /\ prod.n <= Free /\ prod.n <= Len(prod.data) /\ prod.n \in Nat
    BY DEF RingInv, Room, Types, PutType
  <2>2. prod.n <= Free'
    BY <1>2, <1>11, <1>12, <2>1
  <2> QED
    BY <1>7, <2>1, <2>2 DEF Room
<1>16. There'
  BY <1>2, <1>3, <1>6, <1>11, <1>12 DEF There
<1> QED
  BY <1>6, <1>7, <1>8, <1>14, <1>15, <1>16 DEF RingInv, Types, Nested, LongPut

(* The masking of _tail, after which get returns or goes round again.        *)
LEMMA GetMaskInv == RingInv /\ GetRuns /\ GetMask => RingInv'
<1> SUFFICES ASSUME RingInv, GetRuns, GetMask PROVE RingInv'
  OBVIOUS
<1>1. Size \in Nat /\ Size > 0 /\ head \in 0 .. Size /\ tail \in 0 .. Size
  BY SizeAssumption DEF RingInv, Types
<1>2. head' = head /\ tail' = Masked(tail) /\ buffer' = buffer /\ prod' = prod /\ top' = top
      /\ cons.pc = "mask"
  BY DEF GetMask
<1>3. tail' \in 0 .. (Size - 1) /\ tail' = IF tail = Size THEN 0 ELSE tail
  BY <1>1, <1>2, MaskedSame
<1>4. Count' = Count
  <2>1. Count' = Masked(Size + head - tail')
    BY <1>2 DEF Count
  <2>2. tail' \in 0 .. Size
    BY <1>1, <1>3
  <2>3. Count' = Distance(head, tail')
    BY <1>1, <2>1, <2>2, CountIs
  <2>4. Distance(head, tail') = Distance(head, tail)
    BY <1>1, <1>2, MaskedSame
  <2> QED
    BY <1>1, <2>3, <2>4, CountNow
<1>5. Free' = Free
  BY <1>4 DEF Free
<1>6. cons' \in GetType /\ cons'.pc \in {"idle", "compare"}
      /\ (cons'.pc = "compare" => cons'.left = cons.left)
  <2>1. CASE cons' = GetReturns
    BY <2>1, GetReturnsType
  <2>2. CASE cons' = [cons EXCEPT !.pc = "compare", !.round = 2]
    <3>1. cons \in GetType /\ 2 \in 1 .. 2 /\ "compare" \in ConsPcs
      BY DEF RingInv, Types, ConsPcs
    <3>2. [cons EXCEPT !.pc = "compare", !.round = 2] \in GetType
      BY <3>1 DEF GetType
    <3> QED
      BY <2>2, <3>1, <3>2 DEF GetType
  <2> QED
    BY <2>1, <2>2 DEF GetMask
<1>7. prod.pc = "idle" \/ top = "get"
  BY <1>2 DEF GetRuns
<1>8. TailSeen'
  <2> SUFFICES ASSUME prod.pc = "measure" PROVE TailSeen'
    BY <1>2 DEF TailSeen
  <2>1. head < Size /\ prod.seen \in 0 .. Size
    BY DEF RingInv, Types, PutType
  <2>2. ~LongPut /\ top = "get"
    BY <1>2, <1>7 DEF RingInv, Nested
  <2>3. ~Undisturbed' /\ prod.seen # Size
    BY <1>2, <2>2 DEF Undisturbed, LongPut, RingInv, TailSeen
  <2>4. /\ prod.seen <= head => prod.seen <= tail /\ tail <= head
        /\ head < prod.seen => prod.seen <= tail \/ tail <= head
    BY DEF RingInv, TailSeen
  <2> QED
    BY <1>1, <1>2, <1>3, <2>1, <2>3, <2>4 DEF TailSeen
<1>9. There'
  BY <1>2, <1>4, <1>6 DEF RingInv, There
<1> QED
  BY <1>1, <1>2, <1>3, <1>5, <1>6, <1>8, <1>9 DEF RingInv, Types, Nested, Room, LongPut

(* A flush while neither side is in a call.                                  *)
LEMMA FlushInv == RingInv /\ FlushAll => RingInv'
<1> SUFFICES ASSUME RingInv, FlushAll PROVE RingInv'
  OBVIOUS
<1>1. Size \in Nat /\ Size > 0
  BY SizeAssumption
<1>2. head' = 0 /\ tail' = 0 /\ UNCHANGED <<buffer, prod, cons, top>>
      /\ prod.pc = "idle" /\ cons.pc = "idle"
  BY DEF FlushAll
<1> QED
  BY <1>1, <1>2 DEF RingInv, Types, Nested, TailSeen, Room, There

-----------------------------------------------------------------------------
(* The theorems.                                                             *)

(* Every step of either side preserves the invariant.                        *)
LEMMA NextRingInv == RingInv /\ [MaskedNext]_vars => RingInv'
<1> SUFFICES ASSUME RingInv, [MaskedNext]_vars PROVE RingInv'
  OBVIOUS
<1>1. CASE PutStart  BY <1>1, PutStartInv
<1>2. CASE PutRuns /\ PutStep
  BY <1>2, PutCompareInv, PutMeasureInv, PutCopyInv, PutAddInv, PutMaskInv DEF PutStep
<1>3. CASE ~LongPut /\ GetStart  BY <1>3, GetStartInv
<1>4. CASE GetRuns /\ GetStep
  BY <1>4, GetCountInv, GetCompareInv, GetMeasureInv, GetCopyInv, GetConsumeInv, GetMaskInv
     DEF GetStep
<1>5. CASE FlushAll  BY <1>5, FlushInv
<1>6. CASE UNCHANGED vars
  BY <1>6 DEF vars, RingInv, Types, Nested, TailSeen, Undisturbed, Room, There, LongPut, Count,
     Free
<1> QED
  BY <1>1, <1>2, <1>3, <1>4, <1>5, <1>6 DEF MaskedNext, Steps

(* The invariant holds in every interleaving of the two sides in which no    *)
(* get begins while a put of several bytes is in progress.                   *)
THEOREM RingInvariance == MaskedSpec => []RingInv
BY InitRingInv, NextRingInv, PTL DEF MaskedSpec

(* An index is a slot, except between the two writes that move it            *)
(* (lnRingBuffer.h:116-120, 228-232).                                        *)
THEOREM RingTypeCorrect == MaskedSpec => []RingTypeOK
<1>1. RingInv => RingTypeOK
  BY SizeAssumption DEF RingInv, Types, RingTypeOK, PutType, GetType, Slots
<1> QED
  BY <1>1, RingInvariance, PTL

(* put copies into slots that hold nothing the consumer has still to read,   *)
(* provided no get interrupts a put of several bytes                         *)
(* (lnRingBuffer.h:154-186).                                                 *)
THEOREM CopiesAreSafe == MaskedSpec => []CopiesIntoFreeSlots
<1>1. RingInv => CopiesIntoFreeSlots
  BY DEF RingInv, Room, CopiesIntoFreeSlots
<1> QED
  BY <1>1, RingInvariance, PTL

(* get reads bytes that have been put, inside the buffer, provided no get    *)
(* interrupts a put of several bytes (lnRingBuffer.h:194-225).               *)
THEOREM ReadsAreSafe == MaskedSpec => []ReadsPublishedBytes
<1>1. RingInv => ReadsPublishedBytes
  <2> SUFFICES ASSUME RingInv, cons.pc \in {"copy", "consume"}
               PROVE  tail + cons.n <= Size /\ cons.n <= Count
    BY DEF ReadsPublishedBytes
  <2>1. tail + cons.n <= Size /\ cons.n <= cons.left /\ cons.left <= Count
    BY DEF RingInv, There
  <2>2. cons.n \in Int /\ cons.left \in Int
    BY DEF RingInv, Types, GetType
  <2>3. Count \in Int
    BY CountNow, SizeAssumption DEF RingInv, Types
  <2> QED
    BY <2>1, <2>2, <2>3
<1> QED
  BY <1>1, RingInvariance, PTL

-----------------------------------------------------------------------------
(* What a call owes its caller.                                              *)

(* The indices, what waits and what is free.                                 *)
LEMMA IndexNow ==
  ASSUME RingInv
  PROVE  /\ Size \in Nat /\ Size > 0 /\ head \in 0 .. Size /\ tail \in 0 .. Size
         /\ prod.pc # "mask" => head < Size
         /\ cons.pc # "mask" => tail < Size
         /\ Count = Distance(head, tail) /\ Count \in Nat /\ Count < Size
         /\ Free = Size - 1 - Count /\ Free \in Nat
<1>1. Size \in Nat /\ Size > 0 /\ head \in 0 .. Size /\ tail \in 0 .. Size
      /\ (prod.pc # "mask" => head < Size) /\ (cons.pc # "mask" => tail < Size)
  BY SizeAssumption DEF RingInv, Types
<1>2. Count = Distance(head, tail) /\ Count \in 0 .. (Size - 1)
      /\ Free = Size - 1 - Distance(head, tail) /\ Free \in 0 .. (Size - 1)
  BY <1>1, CountNow
<1>3. Count \in Nat /\ Count < Size /\ Free = Size - 1 - Count /\ Free \in Nat
  BY <1>1, <1>2
<1> QED
  BY <1>1, <1>2, <1>3

(* The locals of the put in progress.                                        *)
LEMMA PutNow ==
  ASSUME RingInv
  PROVE  /\ prod.n \in Nat /\ prod.done \in Nat /\ prod.due \in Int
         /\ prod.round = 1 \/ prod.round = 2
         /\ prod.seen \in Nat /\ prod.data \in Seq(Byte) /\ Len(prod.data) \in Nat
<1>1. /\ prod.n \in Nat /\ prod.done \in Nat /\ prod.due \in Int /\ prod.round \in 1 .. 2
      /\ prod.seen \in 0 .. Size /\ prod.data \in Seq(Byte) /\ Size \in Nat
  BY SizeAssumption DEF RingInv, Types, PutType
<1> QED
  BY <1>1

(* The locals of the get in progress.                                        *)
LEMMA GetNow ==
  ASSUME RingInv
  PROVE  /\ cons.n \in Nat /\ cons.done \in Nat /\ cons.due \in Int
         /\ cons.round = 1 \/ cons.round = 2
         /\ cons.seen \in Nat /\ cons.left \in Nat
<1>1. /\ cons.n \in Nat /\ cons.done \in Nat /\ cons.due \in Int /\ cons.round \in 1 .. 2
      /\ cons.seen \in 0 .. Size /\ cons.left \in Nat /\ Size \in Nat
  BY SizeAssumption DEF RingInv, Types, GetType
<1> QED
  BY <1>1

(* What the writes of the indices do to what waits and what is free.         *)
LEMMA AddMoves ==
  ASSUME RingInv, PutAdd
  PROVE  Count' = Count + prod.n /\ Free' = Free - prod.n
<1>1. head' = head + prod.n /\ tail' = tail /\ prod.pc = "add"
  BY DEF PutAdd
<1>2. head + prod.n <= Size /\ prod.n <= Free
  BY <1>1 DEF RingInv, Room
<1>3. head \in 0 .. (Size - 1) /\ head' \in 0 .. Size
  BY <1>1, <1>2, IndexNow, PutNow
<1>4. Count' = Distance(head', tail)
  BY <1>1, <1>3, IndexNow, PutNow, CountIs DEF Count
<1>5. Distance(head', tail) = Distance(head, tail) + prod.n
  BY <1>1, <1>2, <1>3, IndexNow, PutNow, DistanceGrows
<1>6. Free' = Size - Count' - 1
  BY DEF Free
<1>7. Count = Distance(head, tail) /\ Count \in Nat /\ Free = Size - 1 - Count
      /\ prod.n \in Nat /\ Size \in Nat
  BY IndexNow, PutNow
<1> QED
  BY <1>4, <1>5, <1>6, <1>7

(* The consumer moves them the other way.                                    *)
LEMMA ConsumeMoves ==
  ASSUME RingInv, GetConsume
  PROVE  Count' = Count - cons.n /\ Free' = Free + cons.n
<1>1. tail' = tail + cons.n /\ head' = head /\ cons.pc = "consume"
  BY DEF GetConsume
<1>2. tail + cons.n <= Size /\ cons.n <= cons.left /\ cons.left <= Count
  BY <1>1 DEF RingInv, There
<1>3. tail < Size /\ tail' \in 0 .. Size
  BY <1>1, <1>2, IndexNow, GetNow
<1>4. Count' = Distance(head, tail')
  BY <1>1, <1>3, IndexNow, GetNow, CountIs DEF Count
<1>5. /\ Count = Distance(head, tail) /\ Count \in Nat /\ Free = Size - 1 - Count
      /\ cons.n \in Nat /\ cons.left \in Nat /\ Size \in Nat /\ head \in 0 .. Size
      /\ tail \in Nat
  BY IndexNow, GetNow
<1>6. Distance(head, tail') = Distance(head, tail) - cons.n
  BY <1>1, <1>2, <1>3, <1>5 DEF Distance
<1>7. Free' = Size - Count' - 1
  BY DEF Free
<1> QED
  BY <1>4, <1>5, <1>6, <1>7

(* And the masking of either index leaves them.                              *)
LEMMA MaskMoves ==
  ASSUME RingInv, PutMask \/ GetMask
  PROVE  Count' = Count /\ Free' = Free
<1>1. Count' = Count
  <2>1. head' \in {head, Masked(head)} /\ tail' \in {tail, Masked(tail)}
        /\ (head' = head \/ tail' = tail)
    BY DEF PutMask, GetMask
  <2>2. head' \in 0 .. Size /\ tail' \in 0 .. Size
    BY <2>1, IndexNow, MaskedSame
  <2>3. Count' = Distance(head', tail')
    BY <2>2, CountIs DEF Count
  <2>4. Distance(head', tail') = Distance(head, tail)
    BY <2>1, IndexNow, MaskedSame
  <2> QED
    BY <2>3, <2>4, IndexNow
<1> QED
  BY <1>1 DEF Free

(* A put owes no more than it has stored and still holds, and no more than   *)
(* it has stored and there is room for: a get only adds room.                *)
PutOwes ==
  prod.pc # "idle" =>
    prod.due <= prod.done + Len(prod.data) /\ prod.due <= prod.done + Free

(* What a round leaves: nothing to store, no room, or an index at the end of *)
(* the buffer, which the second round finds at its beginning.                *)
PutRounds ==
  /\ prod.pc \in {"compare", "measure"} /\ prod.round = 2 => LongPut /\ (Free = 0 \/ head = 0)
  /\ prod.pc \in {"copy", "add"} =>
       \/ prod.n = Len(prod.data)
       \/ LongPut /\ (prod.n = Free \/ (prod.round = 1 /\ head + prod.n = Size))
  /\ prod.pc = "mask" =>
       \/ prod.data = <<>>
       \/ LongPut /\ (Free = 0 \/ (prod.round = 1 /\ head = Size))

(* The same of a get.                                                        *)
GetOwes ==
  /\ cons.pc = "count" => cons.done = 0 /\ cons.round = 1
  /\ cons.pc \notin {"idle", "count"} => cons.done + cons.left = cons.due
GetRounds ==
  /\ cons.pc \in {"compare", "measure"} /\ cons.round = 2 => tail = 0
  /\ cons.pc \in {"copy", "consume"} =>
       cons.n = cons.left \/ (cons.round = 1 /\ tail + cons.n = Size)
  /\ cons.pc = "mask" => cons.left = 0 \/ (cons.round = 1 /\ tail = Size)

PutPart == PutOwes /\ PutRounds /\ prod.complete
GetPart == GetOwes /\ GetRounds /\ cons.complete

CompleteInv == RingInv /\ PutPart /\ GetPart

(* A step of a get leaves what the producer holds, and lets room only grow;  *)
(* it comes in between two steps of a put of one byte only.                  *)
LEMMA GetLeavesPut ==
  ASSUME RingInv, PutPart, GetRuns, prod' = prod, head' = head,
         Free' \in Nat, Free' >= Free
  PROVE  PutPart'
<1>1. prod.pc = "idle" \/ ~LongPut
  BY DEF GetRuns, RingInv, Nested
<1>2. LongPut' <=> LongPut
  BY DEF LongPut
<1>3. PutOwes'
  <2> SUFFICES ASSUME prod.pc # "idle"
               PROVE  prod.due <= prod.done + Len(prod.data) /\ prod.due <= prod.done + Free'
    BY DEF PutOwes
  <2>1. prod.due <= prod.done + Len(prod.data) /\ prod.due <= prod.done + Free
    BY DEF PutPart, PutOwes
  <2>2. prod.due \in Int /\ prod.done \in Nat /\ Free \in Nat
    BY IndexNow, PutNow
  <2> QED
    BY <2>1, <2>2
<1>4. PutRounds'
  BY <1>1, <1>2 DEF PutPart, PutRounds
<1> QED
  BY <1>3, <1>4 DEF PutPart

(* A step of a put leaves what the consumer knows.                           *)
LEMMA PutLeavesGet == GetPart /\ UNCHANGED <<tail, cons>> => GetPart'
BY DEF GetPart, GetOwes, GetRounds

(* A put that returns is complete if it has stored all it owed.              *)
LEMMA PutReturned ==
  ASSUME prod' = PutReturns, prod.done >= prod.due
  PROVE  PutPart'
<1>1. PutReturns = [NoPut EXCEPT !.complete = TRUE]
  BY DEF PutReturns
<1>2. prod'.pc = "idle" /\ prod'.complete
  BY <1>1 DEF NoPut
<1> QED
  BY <1>2 DEF PutPart, PutOwes, PutRounds

(* So is a get that has handed out just that.                                *)
LEMMA GetReturned ==
  ASSUME cons' = GetReturns, cons.done = cons.due
  PROVE  GetPart'
<1>1. GetReturns = [NoGet EXCEPT !.complete = TRUE]
  BY DEF GetReturns
<1>2. cons'.pc = "idle" /\ cons'.complete
  BY <1>1 DEF NoGet
<1> QED
  BY <1>2 DEF GetPart, GetOwes, GetRounds

(* put is called with room for some of the bytes, or all.                    *)
LEMMA PutStartPart == RingInv /\ PutStart => PutPart'
<1> SUFFICES ASSUME RingInv, PutStart PROVE PutPart'
  OBVIOUS
<1>1. PICK s \in BoundedSeq(Byte, MaxPut) :
        prod' = [NoPut EXCEPT !.pc = "compare", !.data = s, !.due = Clip(Free, Len(s))]
  BY DEF PutStart
<1>2. Len(s) \in Nat
  <2>1. PICK m \in 0 .. MaxPut : s \in [1 .. m -> Byte]
    BY DEF BoundedSeq, SeqOf
  <2> QED
    BY <2>1, BoundAssumption
<1>3. Free' = Free
  BY DEF PutStart, Free, Count
<1>4. Clip(Free, Len(s)) <= Len(s) /\ Clip(Free, Len(s)) <= Free
  BY <1>2, IndexNow, PutNow DEF Clip
<1>5. /\ prod'.pc = "compare" /\ prod'.data = s /\ prod'.due = Clip(Free, Len(s))
      /\ prod'.done = 0 /\ prod'.round = 1 /\ prod'.complete
  BY <1>1 DEF NoPut
<1> HIDE DEF Clip
<1>6. Clip(Free, Len(s)) \in Int
  BY <1>2, IndexNow, PutNow DEF Clip
<1> QED
  BY <1>2, <1>3, <1>4, <1>5, <1>6, IndexNow, PutNow DEF PutPart, PutOwes, PutRounds

(* The comparison with _tail changes nothing of this.                        *)
LEMMA PutComparePart == RingInv /\ PutPart /\ PutCompare => PutPart'
<1> SUFFICES ASSUME RingInv, PutPart, PutCompare PROVE PutPart'
  OBVIOUS
<1>1. /\ prod'.pc = "measure" /\ prod'.data = prod.data /\ prod'.due = prod.due
      /\ prod'.done = prod.done /\ prod'.round = prod.round /\ prod'.complete = prod.complete
      /\ prod.pc = "compare" /\ head' = head
  BY DEF PutCompare, RingInv, Types, PutType
<1>2. Free' = Free
  BY DEF PutCompare, Free, Count
<1>3. LongPut' <=> LongPut
  BY <1>1 DEF LongPut
<1> QED
  BY <1>1, <1>2, <1>3 DEF PutPart, PutOwes, PutRounds

(* No room was found: there is none (lnRingBuffer.h:160, 175).               *)
LEMMA NoRoom ==
  ASSUME RingInv, prod.pc = "measure", WriteRoom(prod.seen, tail) = 0
  PROVE  Free = 0
<1>1. CASE head < prod.seen
  <2>1. tail = head + 1
    BY <1>1, IndexNow, PutNow DEF WriteRoom
  <2> QED
    BY <2>1, IndexNow, PutNow DEF Distance
<1>2. CASE prod.seen <= head
  <2>1. tail <= head
    BY <1>2 DEF RingInv, TailSeen
  <2>2. Size - head - (IF tail = 0 THEN 1 ELSE 0) = 0 /\ head < Size
    BY <1>2, IndexNow, PutNow DEF WriteRoom
  <2>3. tail = 0 /\ head = Size - 1
    BY <2>2, IndexNow, PutNow
  <2> QED
    BY <2>1, <2>3, IndexNow, PutNow DEF Distance
<1> QED
  BY <1>1, <1>2, IndexNow, PutNow

(* A chunk is all that is left to store, all the room there is, or goes to   *)
(* the end of the buffer; the second round starts at its beginning.          *)
LEMMA ChunkFills ==
  ASSUME RingInv, PutPart, PutRuns, prod.pc = "measure", WriteRoom(prod.seen, tail) # 0
  PROVE  LET n == Clip(WriteRoom(prod.seen, tail), Len(prod.data)) IN
         \/ n = Len(prod.data)
         \/ LongPut /\ (n = Free \/ (prod.round = 1 /\ head + n = Size))
<1> DEFINE room == WriteRoom(prod.seen, tail)
           n == Clip(room, Len(prod.data))
<1>1. n \in Nat /\ head + n <= Size /\ n <= Free /\ n <= Len(prod.data)
  BY RoomIsFree
<1>2. head < Size
  BY IndexNow, PutNow
<1>3. CASE ~LongPut
  <2>1. prod.done + Len(prod.data) <= 1
    BY <1>3, IndexNow, PutNow DEF LongPut
  <2>2. Len(prod.data) <= 1
    BY <2>1, IndexNow, PutNow
  <2>3. room \in Int
    BY IndexNow, PutNow DEF WriteRoom
  <2> HIDE DEF room
  <2>4. n = Len(prod.data)
    BY <2>2, <2>3, IndexNow, PutNow DEF Clip, room
  <2> QED
    BY <2>4 DEF room
<1>4. CASE LongPut
  <2>1. prod.seen = tail
    BY <1>4 DEF RingInv, TailSeen, Undisturbed
  <2>2. CASE head < tail
    <3>1. room = tail - head - 1 /\ room = Free /\ room >= 0
      BY <2>1, <2>2, IndexNow, PutNow DEF WriteRoom, Distance
    <3> QED
      BY <1>4, <3>1, IndexNow, PutNow DEF Clip
  <2>3. CASE tail <= head /\ tail = 0
    <3>1. room = Size - head - 1
      BY <2>1, <2>3, IndexNow, PutNow DEF WriteRoom
    <3>2. room = Free /\ room >= 0
      BY <1>2, <2>3, <3>1, IndexNow, PutNow DEF Distance
    <3> QED
      BY <1>4, <3>1, <3>2, IndexNow, PutNow DEF Clip
  <2>4. CASE tail <= head /\ tail # 0
    <3>1. room = Size - head /\ room > 0
      BY <1>2, <2>1, <2>4, IndexNow, PutNow DEF WriteRoom
    <3>2. n = Len(prod.data) \/ head + n = Size
      BY <3>1, IndexNow, PutNow DEF Clip
    <3>3. prod.round = 2 => Free = 0
      <4>1. prod.round = 2 => Free = 0 \/ head = 0
        BY DEF PutPart, PutRounds
      <4> QED
        BY <2>4, <4>1, IndexNow, PutNow
    <3>4. prod.round = 2 => n = Free
      BY <1>1, <3>3, IndexNow, PutNow
    <3>5. prod.round = 1 \/ prod.round = 2
      BY IndexNow, PutNow
    <3> QED
      BY <1>4, <3>2, <3>4, <3>5
  <2> QED
    BY <2>2, <2>3, <2>4, IndexNow, PutNow
<1> QED
  BY <1>3, <1>4

(* The second reading of _tail.                                              *)
LEMMA PutMeasurePart == RingInv /\ PutPart /\ PutRuns /\ PutMeasure => PutPart'
<1> SUFFICES ASSUME RingInv, PutPart, PutRuns, PutMeasure PROVE PutPart'
  OBVIOUS
<1> DEFINE room == WriteRoom(prod.seen, tail)
           n == Clip(room, Len(prod.data))
<1>1. prod.pc = "measure" /\ head' = head /\ Free' = Free
  BY DEF PutMeasure, Free, Count
<1>2. prod.due <= prod.done + Len(prod.data) /\ prod.due <= prod.done + Free /\ prod.complete
  BY <1>1 DEF PutPart, PutOwes
<1>3. CASE room = 0
  <2>1. prod' = PutReturns
    BY <1>3 DEF PutMeasure
  <2>2. Free = 0
    BY <1>1, <1>3, NoRoom
  <2>3. prod.done >= prod.due
    BY <1>2, <2>2, IndexNow, PutNow
  <2> QED
    BY <2>1, <2>3, PutReturned
<1>4. CASE room # 0
  <2>1. \/ n = Len(prod.data)
        \/ LongPut /\ (n = Free \/ (prod.round = 1 /\ head + n = Size))
    BY <1>1, <1>4, ChunkFills
  <2>2. prod' = [prod EXCEPT !.pc = "copy", !.seen = 0, !.n = n]
    BY <1>4 DEF PutMeasure
  <2> HIDE DEF n
  <2>3. /\ prod'.pc = "copy" /\ prod'.data = prod.data /\ prod'.due = prod.due
        /\ prod'.done = prod.done /\ prod'.round = prod.round /\ prod'.n = n
        /\ prod'.complete = prod.complete
    BY <2>2 DEF RingInv, Types, PutType
  <2>4. LongPut' <=> LongPut
    BY <1>1, <2>3 DEF LongPut
  <2> QED
    BY <1>1, <1>2, <2>1, <2>3, <2>4 DEF PutPart, PutOwes, PutRounds
<1> QED
  BY <1>3, <1>4

(* The copy.                                                                 *)
LEMMA PutCopyPart == RingInv /\ PutPart /\ PutCopy => PutPart'
<1> SUFFICES ASSUME RingInv, PutPart, PutCopy PROVE PutPart'
  OBVIOUS
<1>1. /\ prod'.pc = "add" /\ prod'.data = prod.data /\ prod'.due = prod.due
      /\ prod'.done = prod.done /\ prod'.round = prod.round /\ prod'.n = prod.n
      /\ prod'.complete = prod.complete /\ prod.pc = "copy" /\ head' = head
  BY DEF PutCopy, RingInv, Types, PutType
<1>2. Free' = Free
  BY DEF PutCopy, Free, Count
<1>3. LongPut' <=> LongPut
  BY <1>1 DEF LongPut
<1> QED
  BY <1>1, <1>2, <1>3 DEF PutPart, PutOwes, PutRounds

(* The publication: what was held is now stored, and its room is taken.      *)
LEMMA PutAddPart == RingInv /\ PutPart /\ PutAdd => PutPart'
<1> SUFFICES ASSUME RingInv, PutPart, PutAdd PROVE PutPart'
  OBVIOUS
<1> DEFINE rest == SubSeq(prod.data, prod.n + 1, Len(prod.data))
<1>1. prod.pc = "add" /\ head' = head + prod.n
      /\ prod' = [prod EXCEPT !.pc = "mask", !.done = prod.done + prod.n, !.n = 0, !.data = rest]
  BY DEF PutAdd
<1>2. prod.n <= Len(prod.data)
  BY <1>1 DEF RingInv, Room
<1>3. /\ prod.data \in Seq(Byte) /\ Len(prod.data) \in Nat /\ prod.n \in Nat
      /\ prod.done \in Nat /\ prod.due \in Int /\ Free \in Nat
  BY IndexNow, PutNow
<1>4. rest \in Seq(Byte) /\ Len(rest) = Len(prod.data) - prod.n
  BY <1>2, <1>3
<1>5. prod.n = Len(prod.data) => rest = <<>>
  BY <1>3, <1>4
<1> HIDE DEF rest
<1>6. /\ prod'.pc = "mask" /\ prod'.data = rest /\ prod'.due = prod.due
      /\ prod'.done = prod.done + prod.n /\ prod'.round = prod.round
      /\ prod'.complete = prod.complete
  BY <1>1 DEF RingInv, Types, PutType
<1>7. Free' = Free - prod.n
  BY AddMoves
<1>8. LongPut' <=> LongPut
  <2>1. prod.done + prod.n + Len(rest) = prod.done + Len(prod.data)
    BY <1>3, <1>4
  <2> QED
    BY <1>1, <1>6, <2>1 DEF LongPut
<1>9. PutOwes'
  <2>1. prod.due <= prod.done + Len(prod.data) /\ prod.due <= prod.done + Free
    BY <1>1 DEF PutPart, PutOwes
  <2> QED
    BY <1>3, <1>6, <1>7, <1>4, <2>1 DEF PutOwes
<1>10. PutRounds'
  <2>1. \/ prod.n = Len(prod.data)
        \/ LongPut /\ (prod.n = Free \/ (prod.round = 1 /\ head + prod.n = Size))
    BY <1>1 DEF PutPart, PutRounds
  <2>2. prod.n = Free => Free' = 0
    BY <1>7, IndexNow, PutNow
  <2> QED
    BY <1>1, <1>6, <1>8, <1>5, <2>1, <2>2 DEF PutRounds
<1> QED
  BY <1>1, <1>6, <1>9, <1>10 DEF PutPart

(* The masking: put returns with all it owed stored, or goes round again.    *)
LEMMA PutMaskPart == RingInv /\ PutPart /\ PutMask => PutPart'
<1> SUFFICES ASSUME RingInv, PutPart, PutMask PROVE PutPart'
  OBVIOUS
<1>1. prod.pc = "mask" /\ head' = Masked(head)
  BY DEF PutMask
<1>2. prod.due <= prod.done + Len(prod.data) /\ prod.due <= prod.done + Free /\ prod.complete
  BY <1>1 DEF PutPart, PutOwes
<1>3. prod.data = <<>> \/ (LongPut /\ (Free = 0 \/ (prod.round = 1 /\ head = Size)))
  BY <1>1 DEF PutPart, PutRounds
<1>4. Free' = Free
  BY MaskMoves
<1>5. CASE prod.data = <<>> \/ prod.round = 2
  <2>1. prod' = PutReturns
    BY <1>5 DEF PutMask
  <2>2. Len(prod.data) = 0 \/ Free = 0
    BY <1>3, <1>5
  <2>3. prod.done >= prod.due
    BY <1>2, <2>2, IndexNow, PutNow
  <2> QED
    BY <2>1, <2>3, PutReturned
<1>6. CASE ~(prod.data = <<>> \/ prod.round = 2)
  <2>1. prod' = [prod EXCEPT !.pc = "compare", !.round = 2]
    BY <1>6 DEF PutMask
  <2>2. /\ prod'.pc = "compare" /\ prod'.data = prod.data /\ prod'.due = prod.due
        /\ prod'.done = prod.done /\ prod'.complete = prod.complete
    BY <2>1 DEF RingInv, Types, PutType
  <2>3. LongPut' <=> LongPut
    BY <1>1, <2>2 DEF LongPut
  <2>4. LongPut /\ (Free = 0 \/ head' = 0)
    BY <1>1, <1>3, <1>6, IndexNow, PutNow, MaskedSame
  <2> QED
    BY <1>2, <1>4, <2>2, <2>3, <2>4 DEF PutPart, PutOwes, PutRounds
<1> QED
  BY <1>5, <1>6

(* What a get owes is set when it counts.                                    *)
LEMMA GetStartPart == GetStart => GetPart'
<1> SUFFICES ASSUME GetStart PROVE GetPart'
  OBVIOUS
<1>1. PICK n \in 0 .. MaxGet : cons' = [NoGet EXCEPT !.pc = "count", !.left = n]
  BY DEF GetStart
<1>2. cons'.pc = "count" /\ cons'.done = 0 /\ cons'.round = 1 /\ cons'.complete
  BY <1>1 DEF NoGet
<1> QED
  BY <1>2 DEF GetPart, GetOwes, GetRounds

(* What is there is counted, and cut to what was asked for.                  *)
LEMMA GetCountPart == RingInv /\ GetPart /\ GetCount => GetPart'
<1> SUFFICES ASSUME RingInv, GetPart, GetCount PROVE GetPart'
  OBVIOUS
<1> DEFINE n == Clip(Count, cons.left)
<1>1. cons.pc = "count" /\ cons' = [cons EXCEPT !.pc = "compare", !.left = n, !.due = n]
  BY DEF GetCount
<1>2. n \in Nat
  BY IndexNow, GetNow DEF Clip
<1> HIDE DEF n
<1>3. /\ cons'.pc = "compare" /\ cons'.left = n /\ cons'.due = n /\ cons'.done = cons.done
      /\ cons'.round = cons.round /\ cons'.complete = cons.complete
  BY <1>1 DEF RingInv, Types, GetType
<1>4. cons.done = 0 /\ cons.complete
  BY <1>1 DEF GetPart, GetOwes
<1>5. cons.round = 1
  BY <1>1 DEF GetPart, GetOwes
<1> QED
  BY <1>2, <1>3, <1>4, <1>5 DEF GetPart, GetOwes, GetRounds

(* The comparison with _head changes nothing of this.                        *)
LEMMA GetComparePart == RingInv /\ GetPart /\ GetCompare => GetPart'
<1> SUFFICES ASSUME RingInv, GetPart, GetCompare PROVE GetPart'
  OBVIOUS
<1>1. /\ cons'.pc = "measure" /\ cons'.left = cons.left /\ cons'.due = cons.due
      /\ cons'.done = cons.done /\ cons'.round = cons.round /\ cons'.complete = cons.complete
      /\ cons.pc = "compare" /\ tail' = tail
  BY DEF GetCompare, RingInv, Types, GetType
<1> QED
  BY <1>1 DEF GetPart, GetOwes, GetRounds

(* The second reading of _head finds what is left to hand out, unless it     *)
(* goes round the end of the buffer (lnRingBuffer.h:127-134).                *)
LEMMA GetMeasurePart == RingInv /\ GetPart /\ GetMeasure => GetPart'
<1> SUFFICES ASSUME RingInv, GetPart, GetMeasure PROVE GetPart'
  OBVIOUS
<1> DEFINE room == ReadRoom(cons.seen, head)
           n == Clip(room, cons.left)
<1>1. cons.pc = "measure" /\ tail' = tail
  BY DEF GetMeasure
<1>2. cons.done + cons.left = cons.due /\ cons.complete /\ (cons.round = 2 => tail = 0)
  BY <1>1 DEF GetPart, GetOwes, GetRounds
<1>3. cons.left <= Count /\ (tail <= cons.seen => cons.left <= cons.seen - tail) /\ tail < Size
  BY <1>1, IndexNow, GetNow DEF RingInv, There
<1>4. CASE room = 0
  <2>1. cons' = GetReturns
    BY <1>4 DEF GetMeasure
  <2>2. head = tail
    BY <1>3, <1>4, IndexNow, GetNow DEF ReadRoom
  <2>3. Count = 0
    BY <2>2, IndexNow, GetNow DEF Distance
  <2>4. cons.done = cons.due
    BY <1>2, <1>3, <2>3, IndexNow, GetNow
  <2> QED
    BY <2>1, <2>4, GetReturned
<1>5. CASE room # 0
  <2>1. n = cons.left \/ (cons.round = 1 /\ tail + n = Size)
    <3>1. CASE cons.seen < tail
      <4>1. room = Size - tail /\ tail # 0
        BY <3>1, IndexNow, GetNow DEF ReadRoom
      <4>2. cons.round = 1
        BY <1>2, <4>1, IndexNow, GetNow
      <4> QED
        BY <1>3, <4>1, <4>2, IndexNow, GetNow DEF Clip
    <3>2. CASE tail <= cons.seen
      <4>1. room = head - tail
        BY <3>2, IndexNow, GetNow DEF ReadRoom
      <4>2. CASE tail <= head
        <5>1. Count = head - tail \/ head - tail = Size
          BY <4>2, IndexNow, GetNow DEF Distance
        <5>2. room >= cons.left
          BY <1>3, <4>1, <5>1, IndexNow, GetNow
        <5>3. room \in Int /\ cons.left \in Int
          BY <4>1, IndexNow, GetNow
        <5> HIDE DEF room
        <5>4. n = cons.left
          BY <5>2, <5>3 DEF Clip
        <5> QED
          BY <5>4
      <4>3. CASE head < tail
        BY <4>1, <4>3, IndexNow, GetNow DEF Clip
      <4> QED
        BY <4>2, <4>3, IndexNow, GetNow
    <3> QED
      BY <3>1, <3>2, IndexNow, GetNow
  <2>2. cons' = [cons EXCEPT !.pc = "copy", !.seen = 0, !.n = n]
    BY <1>5 DEF GetMeasure
  <2> HIDE DEF n
  <2>3. /\ cons'.pc = "copy" /\ cons'.left = cons.left /\ cons'.due = cons.due
        /\ cons'.done = cons.done /\ cons'.round = cons.round /\ cons'.n = n
        /\ cons'.complete = cons.complete
    BY <2>2 DEF RingInv, Types, GetType
  <2> QED
    BY <1>1, <1>2, <2>1, <2>3 DEF GetPart, GetOwes, GetRounds
<1> QED
  BY <1>4, <1>5

(* The copy to the caller.                                                   *)
LEMMA GetCopyPart == RingInv /\ GetPart /\ GetCopy => GetPart'
<1> SUFFICES ASSUME RingInv, GetPart, GetCopy PROVE GetPart'
  OBVIOUS
<1>1. /\ cons'.pc = "consume" /\ cons'.left = cons.left /\ cons'.due = cons.due
      /\ cons'.done = cons.done /\ cons'.round = cons.round /\ cons'.n = cons.n
      /\ cons'.complete = cons.complete /\ cons.pc = "copy" /\ tail' = tail
  BY DEF GetCopy, RingInv, Types, GetType
<1> QED
  BY <1>1 DEF GetPart, GetOwes, GetRounds

(* The release: what was left is now handed out.                             *)
LEMMA GetConsumePart == RingInv /\ GetPart /\ GetConsume => GetPart'
<1> SUFFICES ASSUME RingInv, GetPart, GetConsume PROVE GetPart'
  OBVIOUS
<1>1. cons.pc = "consume" /\ tail' = tail + cons.n
  BY DEF GetConsume
<1>2. /\ cons'.pc = "mask" /\ cons'.left = cons.left - cons.n /\ cons'.due = cons.due
      /\ cons'.done = cons.done + cons.n /\ cons'.round = cons.round
      /\ cons'.complete = cons.complete
  BY DEF GetConsume, RingInv, Types, GetType
<1>3. cons.done + cons.left = cons.due /\ cons.complete
  BY <1>1 DEF GetPart, GetOwes
<1>4. cons.n = cons.left \/ (cons.round = 1 /\ tail + cons.n = Size)
  BY <1>1 DEF GetPart, GetRounds
<1>5. cons'.done + cons'.left = cons'.due
  BY <1>2, <1>3, IndexNow, GetNow
<1>6. cons.n = cons.left => cons'.left = 0
  BY <1>2, IndexNow, GetNow
<1> QED
  BY <1>1, <1>2, <1>3, <1>4, <1>5, <1>6 DEF GetPart, GetOwes, GetRounds

(* The masking: get returns with all it owed handed out, or goes round again.*)
LEMMA GetMaskPart == RingInv /\ GetPart /\ GetMask => GetPart'
<1> SUFFICES ASSUME RingInv, GetPart, GetMask PROVE GetPart'
  OBVIOUS
<1>1. cons.pc = "mask" /\ tail' = Masked(tail)
  BY DEF GetMask
<1>2. cons.done + cons.left = cons.due /\ cons.complete
  BY <1>1 DEF GetPart, GetOwes
<1>3. cons.left = 0 \/ (cons.round = 1 /\ tail = Size)
  BY <1>1 DEF GetPart, GetRounds
<1>4. CASE cons.left = 0 \/ cons.round = 2
  <2>1. cons' = GetReturns
    BY <1>4 DEF GetMask
  <2>2. cons.done = cons.due
    BY <1>2, <1>3, <1>4, IndexNow, GetNow
  <2> QED
    BY <2>1, <2>2, GetReturned
<1>5. CASE ~(cons.left = 0 \/ cons.round = 2)
  <2>1. cons' = [cons EXCEPT !.pc = "compare", !.round = 2]
    BY <1>5 DEF GetMask
  <2>2. /\ cons'.pc = "compare" /\ cons'.left = cons.left /\ cons'.due = cons.due
        /\ cons'.done = cons.done /\ cons'.complete = cons.complete
    BY <2>1 DEF RingInv, Types, GetType
  <2>3. tail' = 0
    BY <1>1, <1>3, <1>5, IndexNow, GetNow, MaskedSame
  <2> QED
    BY <1>2, <2>2, <2>3 DEF GetPart, GetOwes, GetRounds
<1> QED
  BY <1>4, <1>5

(* It holds of an empty buffer.                                              *)
LEMMA InitCompleteInv == Init => CompleteInv
<1> SUFFICES ASSUME Init PROVE CompleteInv
  OBVIOUS
<1>1. prod.pc = "idle" /\ prod.complete /\ cons.pc = "idle" /\ cons.complete
  BY DEF Init, NoPut, NoGet
<1> QED
  BY <1>1, InitRingInv DEF CompleteInv, PutPart, GetPart, PutOwes, PutRounds, GetOwes, GetRounds

(* And every step of either side preserves it.                               *)
LEMMA NextCompleteInv == CompleteInv /\ [MaskedNext]_vars => CompleteInv'
<1> SUFFICES ASSUME CompleteInv, [MaskedNext]_vars PROVE CompleteInv'
  OBVIOUS
<1>1. RingInv /\ PutPart /\ GetPart /\ RingInv'
  BY NextRingInv DEF CompleteInv
<1>2. ASSUME UNCHANGED <<prod, cons, head, tail>> PROVE PutPart' /\ GetPart'
  <2>1. Free' = Free
    BY <1>2 DEF Free, Count
  <2>2. PutPart'
    BY <1>1, <1>2, <2>1 DEF PutPart, PutOwes, PutRounds, LongPut
  <2> QED
    BY <1>1, <1>2, <2>2, PutLeavesGet
<1>3. CASE PutStart
  BY <1>1, <1>3, PutStartPart, PutLeavesGet DEF CompleteInv, PutStart
<1>4. CASE PutRuns /\ PutStep
  <2>1. UNCHANGED <<tail, cons>>
    BY <1>4 DEF PutStep, PutCompare, PutMeasure, PutCopy, PutAdd, PutMask
  <2>2. PutPart'
    BY <1>1, <1>4, PutComparePart, PutMeasurePart, PutCopyPart, PutAddPart, PutMaskPart
       DEF PutStep
  <2> QED
    BY <1>1, <2>1, <2>2, PutLeavesGet DEF CompleteInv
<1>5. CASE ~LongPut /\ GetStart
  <2>1. prod' = prod /\ head' = head /\ Free' = Free
    BY <1>5 DEF GetStart, Free, Count
  <2>2. PutPart'
    BY <1>1, <2>1 DEF PutPart, PutOwes, PutRounds, LongPut
  <2> QED
    BY <1>1, <1>5, <2>2, GetStartPart DEF CompleteInv
<1>6. CASE GetRuns /\ GetStep
  <2>1. prod' = prod /\ head' = head
    BY <1>6 DEF GetStep, GetCount, GetCompare, GetMeasure, GetCopy, GetConsume, GetMask
  <2>2. Free' \in Nat /\ Free' >= Free
    <3>1. CASE GetConsume
      <4>1. Free' = Free + cons.n
        BY <1>1, <3>1, ConsumeMoves
      <4>2. Free \in Nat /\ cons.n \in Nat
        BY <1>1, IndexNow, GetNow
      <4> QED
        BY <4>1, <4>2
    <3>2. CASE GetMask
      BY <1>1, <3>2, MaskMoves, IndexNow, GetNow
    <3>3. CASE ~GetConsume /\ ~GetMask
      <4>1. Free' = Free
        BY <1>6, <3>3 DEF GetStep, GetCount, GetCompare, GetMeasure, GetCopy, Free, Count
      <4> QED
        BY <1>1, <4>1, IndexNow, GetNow
    <3> QED
      BY <3>1, <3>2, <3>3
  <2>3. PutPart'
    BY <1>1, <1>6, <2>1, <2>2, GetLeavesPut
  <2>4. GetPart'
    BY <1>1, <1>6, GetCountPart, GetComparePart, GetMeasurePart, GetCopyPart, GetConsumePart,
       GetMaskPart DEF GetStep
  <2> QED
    BY <1>1, <2>3, <2>4 DEF CompleteInv
<1>7. CASE FlushAll
  <2>1. prod' = prod /\ cons' = cons /\ prod.pc = "idle" /\ cons.pc = "idle"
    BY <1>7 DEF FlushAll
  <2> QED
    BY <1>1, <2>1 DEF CompleteInv, PutPart, GetPart, PutOwes, PutRounds, GetOwes, GetRounds
<1>8. CASE UNCHANGED vars
  BY <1>1, <1>2, <1>8 DEF CompleteInv, vars
<1> QED
  BY <1>3, <1>4, <1>5, <1>6, <1>7, <1>8 DEF MaskedNext, Steps

(* What is owed and what each round leaves, in every step of MaskedSpec.     *)
THEOREM CompleteInvariance == MaskedSpec => []CompleteInv
BY InitCompleteInv, NextCompleteInv, PTL DEF MaskedSpec

(* Two rounds are enough: a put stores all it was handed or fills all the    *)
(* room there was, a get hands out all there was or all it was asked for,    *)
(* provided no get interrupts a put of several bytes                         *)
(* (lnRingBuffer.h:154-225).                                                 *)
THEOREM CallsComplete == MaskedSpec => []CallsAreComplete
<1>1. CompleteInv => CallsAreComplete
  BY DEF CompleteInv, PutPart, GetPart, CallsAreComplete
<1> QED
  BY <1>1, CompleteInvariance, PTL

-----------------------------------------------------------------------------
(* The buffer is a queue.                                                    *)

(* A waiting byte lies in no free slot.                                      *)
LEMMA WaitingApart ==
  ASSUME NEW h \in 0 .. (Size - 1), NEW t \in 0 .. Size, NEW n \in Nat,
         h + n <= Size, n <= Size - 1 - Distance(h, t),
         NEW i \in 1 .. Distance(h, t)
  PROVE  Masked(t + i - 1) \in Slots /\ Masked(t + i - 1) \notin h .. (h + n - 1)
<1>1. Size \in Nat /\ Size > 0 /\ Distance(h, t) \in 0 .. (Size - 1)
  BY SizeAssumption, CountIs
<1> DEFINE x == t + i - 1
<1>2. x \in 0 .. (2 * Size) /\ x < 2 * Size
  BY <1>1
<1>3. Masked(x) = IF x < Size THEN x ELSE x - Size
  BY <1>2, MaskedIs
<1>4. CASE t <= h
  <2>1. x < h /\ x < Size
    BY <1>1, <1>4 DEF Distance
  <2> QED
    BY <1>1, <1>2, <1>3, <2>1 DEF Slots
<1>5. CASE h < t
  <2>1. Distance(h, t) = Size + h - t
    BY <1>1, <1>5 DEF Distance
  <2>2. h + n < t /\ x - Size < h /\ x >= t
    BY <1>1, <1>5, <2>1
  <2> HIDE DEF x
  <2> DEFINE m == Masked(x)
  <2> HIDE DEF m
  <2>3. m \in 0 .. (Size - 1) /\ (m < h \/ h + n < m + 1)
    <3>1. m = IF x < Size THEN x ELSE x - Size
      BY <1>3 DEF m
    <3> QED
      BY <1>1, <1>2, <2>2, <3>1
  <2>4. m \in Slots /\ m \notin h .. (h + n - 1)
    BY <1>1, <2>3 DEF Slots
  <2> QED
    BY <2>4 DEF m, x
<1> QED
  BY <1>1, <1>4, <1>5

(* The free slots follow those that wait.                                    *)
LEMMA FreeFollows ==
  ASSUME NEW h \in 0 .. (Size - 1), NEW t \in 0 .. Size, NEW n \in Nat,
         h + n <= Size, NEW k \in 1 .. n
  PROVE  Masked(t + (Distance(h, t) + k) - 1) = h + k - 1
<1>1. Size \in Nat /\ Size > 0
  BY SizeAssumption
<1> DEFINE x == t + (Distance(h, t) + k) - 1
<1>2. CASE t <= h
  <2>1. x = h + k - 1 /\ x < Size /\ x \in 0 .. (2 * Size)
    BY <1>1, <1>2 DEF Distance
  <2> QED
    BY <1>1, <2>1, MaskedIs
<1>3. CASE h < t
  <2>1. x = Size + (h + k - 1) /\ x >= Size /\ x < 2 * Size /\ x \in 0 .. (2 * Size)
    BY <1>1, <1>3 DEF Distance
  <2> QED
    BY <1>1, <2>1, MaskedIs
<1> QED
  BY <1>1, <1>2, <1>3

(* A put that is about to publish has copied its bytes, a get that is about  *)
(* to release has copied those that wait longest.                            *)
Copied == prod.pc = "add" => \A k \in 1 .. prod.n : buffer[head + k - 1] = prod.data[k]
CopiedOut ==
  cons.pc = "consume" => cons.out = [i \in 1 .. cons.n |-> buffer[tail + i - 1]]

QueueInv == RingInv /\ Copied /\ CopiedOut

(* The indices of what waits, whole or masked, name the same slots.          *)
LEMMA SameSlots ==
  ASSUME NEW t \in 0 .. Size, NEW i \in 1 .. (Size - 1)
  PROVE  Masked(Masked(t) + i - 1) = Masked(t + i - 1)
<1>1. Size \in Nat /\ Size > 0
  BY SizeAssumption
<1>2. CASE t < Size
  <2>1. Masked(t) = t
    BY <1>1, <1>2, MaskedSame
  <2> QED
    BY <2>1
<1>3. CASE t = Size
  <2>1. Masked(t) = 0 /\ Size \in Nat
    BY <1>1, <1>3, MaskedSame
  <2>2. Masked(0 + i - 1) = i - 1
    <3>1. 0 + i - 1 \in 0 .. (2 * Size) /\ 0 + i - 1 < Size
      BY <1>1
    <3> QED
      BY <3>1, MaskedIs
  <2>3. Masked(t + i - 1) = i - 1
    <3>1. t + i - 1 \in 0 .. (2 * Size) /\ ~(t + i - 1 < Size) /\ t + i - 1 < 2 * Size
      BY <1>1, <1>3
    <3>2. Masked(t + i - 1) = (t + i - 1) - Size
      BY <3>1, MaskedIs
    <3> QED
      BY <1>1, <1>3, <3>2
  <2> QED
    BY <2>1, <2>2, <2>3
<1> QED
  BY <1>1, <1>2, <1>3

(* What a queue of the bytes that wait is.                                   *)
LEMMA WaitingIs ==
  ASSUME RingInv
  PROVE  /\ Waiting \in Seq(Byte) /\ Len(Waiting) = Count
         /\ \A i \in 1 .. Count : Masked(tail + i - 1) \in Slots
<1>1. ASSUME NEW i \in 1 .. Count PROVE Masked(tail + i - 1) \in Slots
  <2>1. Size \in Nat /\ Size > 0 /\ Count \in Nat /\ Count < Size /\ tail \in 0 .. Size
    BY IndexNow
  <2>2. tail + i - 1 \in 0 .. (2 * Size) /\ tail + i - 1 < 2 * Size
    BY <2>1
  <2> DEFINE x == tail + i - 1
  <2> HIDE DEF x
  <2>3. x \in 0 .. (2 * Size) /\ x < 2 * Size
    BY <2>2 DEF x
  <2>4. Masked(x) = IF x < Size THEN x ELSE IF x < 2 * Size THEN x - Size ELSE 0
    BY <2>3, MaskedIs
  <2>5. Masked(x) \in Slots
    BY <2>1, <2>3, <2>4 DEF Slots
  <2> QED
    BY <2>5 DEF x
<1>2. buffer \in [Slots -> Byte] /\ Count \in Nat
  BY IndexNow DEF RingInv, Types
<1> DEFINE slot(i) == Masked(tail + i - 1)
<1> HIDE DEF slot
<1>3. Waiting = [i \in 1 .. Count |-> buffer[slot(i)]]
  BY DEF Waiting, slot
<1>4. \A i \in 1 .. Count : buffer[slot(i)] \in Byte
  BY <1>1, <1>2 DEF slot
<1> HIDE DEF Waiting
<1>5. Waiting \in [1 .. Count -> Byte]
  BY <1>3, <1>4
<1>6. Waiting \in Seq(Byte) /\ Len(Waiting) = Count
  BY <1>2, <1>5
<1> QED
  BY <1>1, <1>6

(* It is the same when the same slots hold the same bytes.                   *)
LEMMA WaitingSame ==
  ASSUME RingInv, Count' = Count,
         \A i \in 1 .. Count : buffer'[Masked(tail' + i - 1)] = buffer[Masked(tail + i - 1)]
  PROVE  Waiting' = Waiting
BY DEF Waiting

(* The copy of a put fills slots that neither wait nor are being read.       *)
LEMMA PutCopyQueue ==
  ASSUME QueueInv, PutCopy
  PROVE  Waiting' = Waiting /\ last' = last /\ Copied' /\ CopiedOut'
<1>1. /\ prod.pc = "copy" /\ head' = head /\ tail' = tail /\ cons' = cons /\ last' = last
      /\ buffer' = [i \in Slots |-> IF i \in head .. head + prod.n - 1
                                    THEN prod.data[i - head + 1] ELSE buffer[i]]
  BY DEF PutCopy
<1>2. prod'.n = prod.n /\ prod'.data = prod.data
  BY DEF PutCopy, QueueInv, RingInv, Types, PutType
<1>3. head + prod.n <= Size /\ prod.n <= Free /\ head < Size /\ RingInv
  BY <1>1, IndexNow, PutNow DEF QueueInv, RingInv, Room
<1>4. ASSUME NEW i \in 1 .. Count
      PROVE  buffer'[Masked(tail + i - 1)] = buffer[Masked(tail + i - 1)]
  <2>1. i \in 1 .. Distance(head, tail) /\ head \in 0 .. (Size - 1) /\ tail \in 0 .. Size
        /\ prod.n \in Nat /\ prod.n <= Size - 1 - Distance(head, tail)
    BY <1>3, IndexNow, PutNow
  <2>2. Masked(tail + i - 1) \in Slots
        /\ Masked(tail + i - 1) \notin head .. (head + prod.n - 1)
    BY <1>3, <2>1, WaitingApart
  <2> QED
    BY <1>1, <2>2
<1>5. Waiting' = Waiting
  BY <1>1, <1>3, <1>4, WaitingSame DEF Count
<1>6. Copied'
  <2> SUFFICES ASSUME NEW k \in 1 .. prod.n
               PROVE  buffer'[head + k - 1] = prod.data[k]
    BY <1>1, <1>2 DEF Copied
  <2>1. head \in Nat /\ Size \in Nat /\ prod.n \in Nat
    BY <1>3, IndexNow, PutNow
  <2>2. head + k - 1 \in Slots /\ head + k - 1 \in head .. head + prod.n - 1
        /\ (head + k - 1) - head + 1 = k
    BY <1>3, <2>1 DEF Slots
  <2> QED
    BY <1>1, <2>2
<1>7. CopiedOut'
  <2> SUFFICES ASSUME cons.pc = "consume"
               PROVE  \A i \in 1 .. cons.n : buffer'[tail + i - 1] = buffer[tail + i - 1]
    BY <1>1 DEF QueueInv, CopiedOut
  <2> TAKE i \in 1 .. cons.n
  <2>1. tail + cons.n <= Size /\ cons.n <= cons.left /\ cons.left <= Count
    BY <1>3 DEF RingInv, There
  <2>2. cons.n \in Nat /\ cons.left \in Nat /\ Count \in Nat /\ tail \in Nat /\ Size \in Nat
    BY <1>3, IndexNow, GetNow
  <2>3. i \in 1 .. Count /\ tail + i - 1 \in 0 .. (2 * Size) /\ tail + i - 1 < Size
    BY <2>1, <2>2
  <2>4. Masked(tail + i - 1) = tail + i - 1
    BY <2>3, MaskedIs
  <2> QED
    BY <1>4, <2>3, <2>4
<1> QED
  BY <1>1, <1>5, <1>6, <1>7

(* The publication puts them behind those that wait.                         *)
LEMMA PutAddQueue ==
  ASSUME QueueInv, PutAdd
  PROVE  F!Put \/ (Waiting' = Waiting /\ last' = last)
<1>1. RingInv /\ prod.pc = "add" /\ tail' = tail /\ buffer' = buffer /\ last' = last
  BY DEF QueueInv, PutAdd
<1>2. head + prod.n <= Size /\ prod.n <= Free /\ prod.n <= Len(prod.data) /\ head < Size
  BY <1>1, IndexNow, PutNow DEF RingInv, Room
<1>3. \A k \in 1 .. prod.n : buffer[head + k - 1] = prod.data[k]
  BY <1>1 DEF QueueInv, Copied
<1>4. Count' = Count + prod.n
  BY <1>1, AddMoves
<1>5. CASE prod.n = 0
  BY <1>1, <1>4, <1>5, IndexNow, PutNow, WaitingSame
<1>6. CASE prod.n # 0
  <2> DEFINE s == [k \in 1 .. prod.n |-> prod.data[k]]
  <2>1. prod.n \in Nat /\ prod.data \in Seq(Byte) /\ Count \in Nat
    BY <1>1, IndexNow, PutNow
  <2>2. s \in [1 .. prod.n -> Byte] /\ s \in Seq(Byte) /\ Len(s) = prod.n
    BY <1>2, <2>1
  <2>3. Waiting \in Seq(Byte) /\ Len(Waiting) = Count
    BY <1>1, WaitingIs
  <2>4. s \in F!BoundedSeq(Byte, (Size - 1) - Len(Waiting)) \ {<<>>}
    <3>1. prod.n \in 0 .. ((Size - 1) - Len(Waiting))
      BY <1>1, <1>2, <2>3, IndexNow, PutNow
    <3>2. s # <<>>
      BY <1>1, <1>6, <2>2, IndexNow, PutNow
    <3> QED
      BY <2>2, <3>1, <3>2 DEF F!BoundedSeq, F!SeqOf
  <2>5. ASSUME NEW i \in 1 .. (Count + prod.n)
        PROVE  buffer[Masked(tail + i - 1)] = (Waiting \o s)[i]
    <3>1. CASE i <= Count
      <4>1. i \in 1 .. Count
        BY <1>1, <3>1, IndexNow, PutNow
      <4>2. Waiting[i] = buffer[Masked(tail + i - 1)]
        BY <4>1 DEF Waiting
      <4>3. (Waiting \o s)[i] = Waiting[i]
        BY <1>1, <2>2, <2>3, <4>1, IndexNow, PutNow
      <4> QED
        BY <4>2, <4>3
    <3>2. CASE i > Count
      <4> DEFINE k == i - Count
      <4>1. k \in 1 .. prod.n /\ i = Count + k /\ Count \in Nat
        BY <2>1, <3>2
      <4> HIDE DEF k
      <4>2. Masked(tail + (Count + k) - 1) = head + k - 1
        <5>1. head \in 0 .. (Size - 1) /\ tail \in 0 .. Size /\ Count = Distance(head, tail)
          BY <1>1, <1>2, IndexNow, PutNow
        <5>2. Masked(tail + (Distance(head, tail) + k) - 1) = head + k - 1
          BY <1>2, <2>1, <4>1, <5>1, FreeFollows
        <5> QED
          BY <5>1, <5>2
      <4>3. (Waiting \o s)[i] = s[k]
        <5> HIDE DEF s, Waiting
        <5> QED
          BY <2>2, <2>3, <2>1, <4>1
      <4>4. s[k] = prod.data[k]
        BY <4>1
      <4> QED
        BY <1>3, <4>1, <4>2, <4>3, <4>4
    <3>3. i <= Count \/ i > Count
      BY <2>1
    <3> QED
      BY <3>1, <3>2, <3>3
  <2>6. Waiting' = [i \in 1 .. (Count + prod.n) |-> buffer[Masked(tail + i - 1)]]
    BY <1>1, <1>4 DEF Waiting
  <2>7. Waiting \o s \in Seq(Byte) /\ Len(Waiting \o s) = Count + prod.n
    <3> HIDE DEF s, Waiting
    <3> QED
      BY <2>2, <2>3, <2>1
  <2> HIDE DEF s
  <2>8. Waiting' = Waiting \o s
    <3> DEFINE both == Waiting \o s
    <3> HIDE DEF both
    <3>1. both \in Seq(Byte) /\ Len(both) = Count + prod.n
      BY <2>7 DEF both
    <3>2. both = [i \in 1 .. (Count + prod.n) |-> both[i]]
      BY <3>1
    <3>3. Waiting \o s = [i \in 1 .. (Count + prod.n) |-> (Waiting \o s)[i]]
      BY <3>2 DEF both
    <3>4. [i \in 1 .. (Count + prod.n) |-> buffer[Masked(tail + i - 1)]]
            = [i \in 1 .. (Count + prod.n) |-> (Waiting \o s)[i]]
      BY <2>5
    <3> QED
      BY <2>6, <3>3, <3>4
  <2> QED
    BY <1>1, <2>4, <2>8 DEF F!Put
<1> QED
  BY <1>5, <1>6

(* What is left of a queue, byte by byte.                                    *)
LEMMA RestOf ==
  ASSUME NEW q \in Seq(Byte), NEW n \in 0 .. Len(q)
  PROVE  SubSeq(q, n + 1, Len(q)) = [i \in 1 .. (Len(q) - n) |-> q[n + i]]
<1>1. Len(q) \in Nat /\ n \in Nat
  OBVIOUS
<1>2. SubSeq(q, n + 1, Len(q)) = [i \in 1 .. (Len(q) - (n + 1) + 1) |-> q[(n + 1) + i - 1]]
  BY <1>1
<1>3. Len(q) - (n + 1) + 1 = Len(q) - n
  BY <1>1
<1>4. \A i \in 1 .. (Len(q) - n) : (n + 1) + i - 1 = n + i
  BY <1>1
<1> QED
  BY <1>2, <1>3, <1>4

(* The release takes those that wait longest from the front.                 *)
LEMMA GetConsumeQueue ==
  ASSUME QueueInv, GetConsume
  PROVE  F!Get \/ (Waiting' = Waiting /\ last' = last)
<1>1. /\ RingInv /\ cons.pc = "consume" /\ tail' = tail + cons.n /\ buffer' = buffer
      /\ last' = IF cons.n = 0 THEN last ELSE cons.out
  BY DEF QueueInv, GetConsume
<1>2. tail + cons.n <= Size /\ cons.n <= cons.left /\ cons.left <= Count /\ cons.n <= Count
      /\ tail < Size /\ cons.n \in Nat /\ Count \in Nat /\ tail \in Nat /\ Size \in Nat
  BY <1>1, IndexNow, GetNow DEF RingInv, There
<1>3. cons.out = [i \in 1 .. cons.n |-> buffer[tail + i - 1]]
  BY <1>1 DEF QueueInv, CopiedOut
<1>4. Count' = Count - cons.n
  BY <1>1, ConsumeMoves
<1>5. CASE cons.n = 0
  <2>1. tail' = tail /\ Count' = Count /\ last' = last
    BY <1>1, <1>2, <1>4, <1>5
  <2> QED
    BY <1>1, <2>1, WaitingSame
<1>6. CASE cons.n # 0
  <2>1. Waiting \in Seq(Byte) /\ Len(Waiting) = Count
    BY <1>1, WaitingIs
  <2>2. \A i \in 1 .. Count : Waiting[i] = buffer[Masked(tail + i - 1)]
    BY DEF Waiting
  <2>3. ASSUME NEW i \in 1 .. cons.n PROVE buffer[tail + i - 1] = Waiting[i]
    <3>1. tail + i - 1 \in 0 .. (2 * Size) /\ tail + i - 1 < Size /\ i \in 1 .. Count
      BY <1>2
    <3>2. Masked(tail + i - 1) = tail + i - 1
      BY <3>1, MaskedIs
    <3> QED
      BY <2>2, <3>1, <3>2
  <2>4. SubSeq(Waiting, 1, cons.n) = [i \in 1 .. cons.n |-> Waiting[i]]
    BY <1>2, <2>1
  <2>5. last' = SubSeq(Waiting, 1, cons.n)
    BY <1>1, <1>3, <1>6, <2>3, <2>4
  <2>6. SubSeq(Waiting, cons.n + 1, Count) = [i \in 1 .. (Count - cons.n) |-> Waiting[cons.n + i]]
    <3>1. cons.n \in 0 .. Len(Waiting)
      BY <1>2, <2>1
    <3> QED
      BY <2>1, <3>1, RestOf
  <2>7. ASSUME NEW i \in 1 .. (Count - cons.n)
        PROVE  buffer[Masked(tail' + i - 1)] = Waiting[cons.n + i]
    <3>1. cons.n + i \in 1 .. Count /\ tail' + i - 1 = tail + (cons.n + i) - 1
      BY <1>1, <1>2
    <3> QED
      BY <2>2, <3>1
  <2>8. Waiting' = [i \in 1 .. (Count - cons.n) |-> buffer[Masked(tail' + i - 1)]]
    BY <1>1, <1>4 DEF Waiting
  <2>9. Waiting' = SubSeq(Waiting, cons.n + 1, Len(Waiting))
    BY <2>1, <2>6, <2>7, <2>8
  <2>10. cons.n \in 1 .. Len(Waiting)
    BY <1>2, <1>6, <2>1
  <2> QED
    BY <2>5, <2>9, <2>10 DEF F!Get
<1> QED
  BY <1>5, <1>6

(* Masking an index changes nothing of what waits.                           *)
LEMMA MaskQueue ==
  ASSUME RingInv, PutMask \/ GetMask
  PROVE  Waiting' = Waiting /\ last' = last
<1>1. buffer' = buffer /\ last' = last /\ tail' \in {tail, Masked(tail)}
  BY DEF PutMask, GetMask
<1>2. Count' = Count
  BY MaskMoves
<1>3. ASSUME NEW i \in 1 .. Count PROVE Masked(tail' + i - 1) = Masked(tail + i - 1)
  <2>1. tail \in 0 .. Size /\ i \in 1 .. (Size - 1)
    BY IndexNow
  <2> QED
    BY <1>1, <2>1, SameSlots
<1> QED
  BY <1>1, <1>2, <1>3, WaitingSame

(* The copy of a get takes the bytes that wait longest.                      *)
LEMMA GetCopyOut == RingInv /\ GetCopy => CopiedOut'
<1> SUFFICES ASSUME RingInv, GetCopy PROVE CopiedOut'
  OBVIOUS
<1>1. cons.pc = "copy" /\ tail' = tail /\ buffer' = buffer
  BY DEF GetCopy
<1>2. cons'.n = cons.n /\ cons'.out = [i \in 1 .. cons.n |-> ByteAt(tail + i - 1)]
  BY DEF GetCopy, RingInv, Types, GetType
<1>3. tail + cons.n <= Size
  BY <1>1 DEF RingInv, There
<1>4. ASSUME NEW i \in 1 .. cons.n PROVE ByteAt(tail + i - 1) = buffer[tail + i - 1]
  <2>1. tail \in Nat /\ Size \in Nat /\ cons.n \in Nat
    BY IndexNow, GetNow
  <2>2. tail + i - 1 \in Slots
    BY <1>3, <2>1 DEF Slots
  <2> QED
    BY <2>2 DEF ByteAt
<1> QED
  BY <1>1, <1>2, <1>4 DEF CopiedOut

(* In an empty buffer nothing waits.                                         *)
LEMMA NothingWaits == Masked(Size + 0 - 0) = 0
<1>1. 0 \in 0 .. Size
  BY SizeAssumption
<1>2. Masked(Size + 0 - 0) = Distance(0, 0)
  BY <1>1, CountIs
<1> QED
  BY <1>2, SizeAssumption DEF Distance

(* The steps of a put that neither copy nor move _head leave the queue.      *)
LEMMA PutQuiet ==
  ASSUME QueueInv, PutStart \/ PutCompare \/ PutMeasure
  PROVE  Waiting' = Waiting /\ last' = last /\ Copied' /\ CopiedOut'
<1>1. UNCHANGED <<head, tail, buffer, cons, last>>
  BY DEF PutStart, PutCompare, PutMeasure
<1>2. Waiting' = Waiting
  BY <1>1 DEF Waiting, Count
<1>3. prod'.pc # "add"
  BY DEF PutStart, PutCompare, PutMeasure, PutReturns, NoPut, QueueInv, RingInv, Types, PutType
<1> QED
  BY <1>1, <1>2, <1>3 DEF Copied, CopiedOut, QueueInv

(* So do those of a get.                                                     *)
LEMMA GetQuiet ==
  ASSUME QueueInv, GetStart \/ GetCount \/ GetCompare \/ GetMeasure
  PROVE  Waiting' = Waiting /\ last' = last /\ Copied' /\ CopiedOut'
<1>1. UNCHANGED <<head, tail, buffer, prod, last>>
  BY DEF GetStart, GetCount, GetCompare, GetMeasure
<1>2. Waiting' = Waiting
  BY <1>1 DEF Waiting, Count
<1>3. cons'.pc # "consume"
  BY DEF GetStart, GetCount, GetCompare, GetMeasure, GetReturns, NoGet, QueueInv, RingInv,
     Types, GetType
<1> QED
  BY <1>1, <1>2, <1>3 DEF Copied, CopiedOut, QueueInv

(* Each step is one of the queue, or leaves it as it is, and what has been   *)
(* copied stays so until it is published or released.                        *)
LEMMA StepOfQueue ==
  ASSUME QueueInv, [MaskedNext]_vars
  PROVE  [F!Next]_F!vars /\ Copied' /\ CopiedOut'
<1>1. RingInv /\ Copied /\ CopiedOut
  BY DEF QueueInv
<1>2. ASSUME Waiting' = Waiting, last' = last PROVE [F!Next]_F!vars
  BY <1>2 DEF F!vars
<1>3. CASE PutStart \/ PutCompare \/ PutMeasure
  BY <1>2, <1>3, PutQuiet
<1>4. CASE GetStart \/ GetCount \/ GetCompare \/ GetMeasure
  BY <1>2, <1>4, GetQuiet
<1>5. CASE PutCopy
  BY <1>2, <1>5, PutCopyQueue
<1>6. CASE PutAdd
  <2>1. prod'.pc = "mask" /\ UNCHANGED <<tail, buffer, cons>>
    BY <1>1, <1>6 DEF PutAdd, RingInv, Types, PutType
  <2>2. Copied' /\ CopiedOut'
    BY <1>1, <2>1 DEF Copied, CopiedOut
  <2> QED
    BY <1>2, <1>6, <2>2, PutAddQueue DEF F!Next
<1>7. CASE PutMask
  <2>1. prod'.pc \in {"idle", "compare"} /\ UNCHANGED <<tail, buffer, cons>>
    BY <1>1, <1>7 DEF PutMask, PutReturns, NoPut, RingInv, Types, PutType
  <2>2. Copied' /\ CopiedOut'
    BY <1>1, <2>1 DEF Copied, CopiedOut
  <2> QED
    BY <1>1, <1>2, <1>7, <2>2, MaskQueue
<1>8. CASE GetCopy
  <2>1. UNCHANGED <<head, tail, buffer, prod, last>>
    BY <1>8 DEF GetCopy
  <2>2. Waiting' = Waiting
    BY <2>1 DEF Waiting, Count
  <2>3. Copied'
    BY <1>1, <2>1 DEF Copied
  <2> QED
    BY <1>1, <1>2, <1>8, <2>1, <2>2, <2>3, GetCopyOut
<1>9. CASE GetConsume
  <2>1. cons'.pc = "mask" /\ UNCHANGED <<head, buffer, prod>>
    BY <1>1, <1>9 DEF GetConsume, RingInv, Types, GetType
  <2>2. Copied' /\ CopiedOut'
    BY <1>1, <2>1 DEF Copied, CopiedOut
  <2> QED
    BY <1>2, <1>9, <2>2, GetConsumeQueue DEF F!Next
<1>10. CASE GetMask
  <2>1. cons'.pc \in {"idle", "compare"} /\ UNCHANGED <<head, buffer, prod>>
    BY <1>1, <1>10 DEF GetMask, GetReturns, NoGet, RingInv, Types, GetType
  <2>2. Copied' /\ CopiedOut'
    BY <1>1, <2>1 DEF Copied, CopiedOut
  <2> QED
    BY <1>1, <1>2, <1>10, <2>2, MaskQueue
<1>11. CASE FlushAll
  <2>1. /\ prod'.pc = "idle" /\ cons'.pc = "idle" /\ last' = last
        /\ head' = 0 /\ tail' = 0
    BY <1>11 DEF FlushAll
  <2>2. Count' = 0
    BY <2>1, NothingWaits DEF Count
  <2>3. Waiting' = <<>>
    BY <2>2 DEF Waiting
  <2> QED
    BY <2>1, <2>3 DEF F!Next, F!Flush, Copied, CopiedOut
<1>12. CASE UNCHANGED vars
  <2>1. UNCHANGED <<head, tail, buffer, prod, cons, last>>
    BY <1>12 DEF vars
  <2>2. Waiting' = Waiting
    BY <2>1 DEF Waiting, Count
  <2> QED
    BY <1>1, <1>2, <2>1, <2>2 DEF Copied, CopiedOut
<1> QED
  BY <1>3, <1>4, <1>5, <1>6, <1>7, <1>8, <1>9, <1>10, <1>11, <1>12
     DEF MaskedNext, Steps, PutStep, GetStep

(* It holds of an empty buffer, which is an empty queue.                     *)
LEMMA InitQueueInv == Init => QueueInv /\ F!Init
<1> SUFFICES ASSUME Init PROVE QueueInv /\ F!Init
  OBVIOUS
<1>1. prod.pc = "idle" /\ cons.pc = "idle" /\ head = 0 /\ tail = 0 /\ last = <<>>
  BY DEF Init, NoPut, NoGet
<1>2. Count = 0
  BY <1>1, NothingWaits DEF Count
<1>3. Waiting = <<>>
  BY <1>2 DEF Waiting
<1> QED
  BY <1>1, <1>3, InitRingInv DEF QueueInv, Copied, CopiedOut, F!Init

(* And every step of either side preserves it.                               *)
LEMMA NextQueueInv == QueueInv /\ [MaskedNext]_vars => QueueInv' /\ [F!Next]_F!vars
BY NextRingInv, StepOfQueue DEF QueueInv

(* The buffer is a queue: bytes come out in the order they went in, each of  *)
(* them once, with either side as the interrupt handler, provided no get     *)
(* interrupts a put of several bytes: the code goes wrong there              *)
(* (lnRingBuffer.h:109-232).                                                 *)
THEOREM RefinesFifo == MaskedSpec => ImplementsFifo
<1>1. MaskedSpec => []QueueInv
  BY InitQueueInv, NextQueueInv, PTL DEF MaskedSpec
<1>2. MaskedSpec => F!Spec
  BY <1>1, InitQueueInv, NextQueueInv, PTL DEF MaskedSpec, F!Spec
<1> QED
  BY <1>2 DEF ImplementsFifo
=============================================================================
