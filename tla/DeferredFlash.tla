--------------------------- MODULE DeferredFlash ---------------------------
(***************************************************************************)
(* What the download side of the bootloader promises, told by what the     *)
(* host sees of it: which request was served, and which status stage came  *)
(* to its end.  A download submits the operation that its request names,   *)
(* and replaces the one before.  It is carried out when the host reads the *)
(* status that it asked for next, once, and forgotten when the host        *)
(* abandons the download.  Nothing else submits an operation, drops one or *)
(* changes the memory; a crash may cut one short that was being carried    *)
(* out.                                                                    *)
(***************************************************************************)
CONSTANTS
  Requests,         \* downloads the host may ask for
  Operations,       \* operations that can be submitted
  NoOperation,      \* nothing is pending
  Names(_, _, _),   \* request d names operation op, given the address pointer
  Points(_),        \* the operation only sets the address pointer
  Addresses,        \* addresses of the memory
  Footprint(_, _),  \* addresses an operation may change, given the wipe state
  Contents(_, _),   \* what it may leave at one of them
  Damaged           \* what a crash may leave there

VARIABLES
  event,    \* what the host has seen last, a request with what it asked for
  pending,  \* the operation submitted last and not yet carried out
  pointer,  \* the address pointer
  wiped,    \* whether this session has made its initial wipe
  mem

vars == <<event, pending, pointer, wiped, mem>>

Init == event = <<"start">> /\ pending = NoOperation /\ pointer = 0 /\ ~wiped

Changes(damage) ==
  \A x \in Addresses :
    mem'[x] # mem[x] =>
      /\ x \in Footprint(pending, wiped)
      /\ mem'[x] \in Contents(pending, x) \cup damage

Submit ==
  /\ \E d \in Requests :
       /\ event' = <<"download", d>>
       /\ pending' \in Operations /\ Names(d, pointer, pending')
  /\ UNCHANGED <<pointer, wiped, mem>>

Abandon ==
  /\ event' = <<"abandon">>
  /\ pending' = NoOperation
  /\ UNCHANGED <<pointer, wiped, mem>>

(* The host asks for the status, or for something that does not matter. *)
Ask ==
  /\ event' \in {<<"status asked">>, <<"other">>}
  /\ UNCHANGED <<pending, pointer, wiped, mem>>

(* The host has read the status: what was pending is carried out. *)
Commit ==
  /\ event = <<"status asked">> /\ event' = <<"status read">>
  /\ pending # NoOperation /\ pending' = NoOperation
  /\ pointer' = IF Points(pending) THEN pending.base ELSE pointer
  /\ wiped => wiped'
  /\ Changes({})

NothingToCommit ==
  /\ event = <<"status asked">> /\ event' = <<"status read">>
  /\ pending = NoOperation
  /\ UNCHANGED <<pending, pointer, wiped, mem>>

Crash ==
  /\ event' = <<"start">> /\ pending' = NoOperation /\ pointer' = 0 /\ ~wiped'
  /\ \/ UNCHANGED mem
     \/ event = <<"status asked">> /\ pending # NoOperation /\ Changes({Damaged})

Next == Submit \/ Abandon \/ Ask \/ Commit \/ NothingToCommit \/ Crash

Spec == Init /\ [][Next]_vars
=============================================================================
