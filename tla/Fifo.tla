-------------------------------- MODULE Fifo --------------------------------
(***************************************************************************)
(* What a byte queue promises its two users: bytes come out in the order   *)
(* they went in, each of them once, and at most Capacity of them wait.     *)
(***************************************************************************)
EXTENDS Naturals, Sequences, SequencesExt

CONSTANTS Byte,      \* the values of a byte
          Capacity   \* how many bytes the queue can hold

VARIABLES queue,     \* the bytes that wait
          last       \* the bytes that the last Get took

vars == <<queue, last>>

Init == queue = <<>> /\ last = <<>>

Put ==
    \E s \in BoundedSeq(Byte, Capacity - Len(queue)) \ {<<>>} :
        /\ queue' = queue \o s
        /\ UNCHANGED last

Get ==
    \E n \in 1 .. Len(queue) :
        /\ last' = SubSeq(queue, 1, n)
        /\ queue' = SubSeq(queue, n + 1, Len(queue))

Flush == queue' = <<>> /\ UNCHANGED last

Next == Put \/ Get \/ Flush

Spec == Init /\ [][Next]_vars
=============================================================================
