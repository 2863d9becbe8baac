------------------------------ MODULE MCUpdate ------------------------------
(***************************************************************************)
(* An update of two chunks.  Flash 8..47 with pages of 8 bytes, words      *)
(* of 2: the application is 16..47, its header the page 16..23.  The       *)
(* programming unit is a half word of 2 bytes, so that a header can be     *)
(* cut between any two of its words.                                       *)
(***************************************************************************)
EXTENDS Update

MCTags == {"H", "B", "cmd"}

(* The bytes after the header: the rest of the first transfer, the second.   *)
NewBody ==
  [i \in 0 .. 23 |-> IF i < 8 THEN Byte("H", i + 8) ELSE Byte("B", i - 8)]
OldBody == [i \in 0 .. 15 |-> Old]

Header(size, sum) == [sp |-> TRUE, size |-> size, sum |-> sum]

HashedHeaders ==
  [p \in {"H", Old} |-> IF p = "H" THEN Header(24, NewBody) ELSE Header(16, OldBody)]

(* New firmware without a hash. *)
PlainHeaders ==
  [p \in {"H", Old} |-> IF p = "H" THEN Header(NoHashSize, NoHashSum) ELSE Header(16, OldBody)]

Command(cmd, addr) == [blocknum |-> 0, len |-> 5, cmd |-> cmd, addr |-> addr, tag |-> "cmd"]
Chunk(n, tag) == [blocknum |-> n, len |-> 16, cmd |-> "other", addr |-> 0, tag |-> tag]

(* The host erases the header's page, then sets the pointer before each chunk.*)
MCPlan ==
  <<Command(CMD_ERASE, 16), Command(CMD_SETADDR, 16), Chunk(2, "H"),
    Command(CMD_SETADDR, 32), Chunk(2, "B")>>
MCDownloads == {MCPlan[i] : i \in DOMAIN MCPlan}
=============================================================================
