------------------------------- MODULE MCBoot -------------------------------
(***************************************************************************)
(* A small instance of Boot: flash 2..15, one bootloader page, two         *)
(* application pages of 4 bytes with words of one byte, so the header is   *)
(* the first application page and the rest of the image the second.        *)
(***************************************************************************)
EXTENDS Boot

MCTags == {"H", "N", "L", "S", "B", "C"}

Body(cell) == [i \in 0 .. 3 |-> cell[i + 1]]
BodyOf(tag) == [i \in 0 .. 3 |-> Byte(tag, i)]

(* H: hashed image with body B; N: image without hash; L: its size exceeds   *)
(* the flash but not the limit; S: no valid stack pointer.                   *)
MCHeaderOf ==
  [p \in {"H", "N", "L", "S", Old} |->
     CASE p = "H" -> [sp |-> TRUE, size |-> 4, sum |-> BodyOf("B")]
       [] p = "N" -> [sp |-> TRUE, size |-> NoHashSize, sum |-> NoHashSum]
       [] p = "L" -> [sp |-> TRUE, size |-> 6, sum |-> BodyOf("B")]
       [] p = "S" -> [sp |-> FALSE, size |-> 4, sum |-> BodyOf("B")]
       [] OTHER   -> [sp |-> TRUE, size |-> 4, sum |-> [i \in 0 .. 3 |-> Old]]]

Page(kind, x, base) ==
  CASE kind \in MCTags -> Byte(kind, x - base)
    [] OTHER           -> kind

Image(header, body) ==
  [x \in FlashAddr |->
     IF x \in BootAddr THEN BootByte
     ELSE IF x < CrcFrom THEN Page(header, x, start_addr) ELSE Page(body, x, CrcFrom)]

(* Images without L, and damaged words of the header. *)
DamagedContents ==
  {Image(h, b) : h \in {"H", "N", "S", Old, Blank}, b \in {"B", "C", Old, Blank}}
    \cup {[Image("H", "B") EXCEPT ![start_addr + k] = Torn] : k \in {0, 2, 3}}

(* Whole images, one of which is too long for the flash. *)
AnyContents == {Image(h, "B") : h \in {"H", "N", "S", "L"}}
=============================================================================
