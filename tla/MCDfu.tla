------------------------------- MODULE MCDfu -------------------------------
(***************************************************************************)
(* Small instances of Dfu for TLC.  The flash keeps the proportions of the *)
(* two chips: a transfer spans two pages of a GD32 and four of an STM32.   *)
(***************************************************************************)
EXTENDS DfuServed

Block(n, len, tag) ==
  [blocknum |-> n, len |-> len, cmd |-> "other", addr |-> 0, tag |-> tag]
Command(cmd, len, addr) ==
  [blocknum |-> 0, len |-> len, cmd |-> cmd, addr |-> addr, tag |-> "cmd"]

MCTags == {"A", "B", "cmd"}

(* Flash 8..23 with pages of 4, the application at 12..23; 28 is close enough *)
(* to the top of the address space for a transfer to wrap.                    *)
GdAddr == {0, 8, 12, 18, 20, 28}

GdDownloads ==
       {Command("SETADDR", 5, a) : a \in {12, 18, 28}}
  \cup {Command("ERASE", 5, a) : a \in {8, 12, 20}}
  \cup {Command("ERASE", 1, 0)}
  \cup {Block(2, 8, "A"), Block(2, 6, "B"), Block(1, 9, "B"), Block(3, 4, "A")}

(* Flash 4..15 with pages of 2, the application at 8..15: 4 pages, the size   *)
(* of one transfer.                                                           *)
StAddr == {0, 4, 8, 12}

StDownloads ==
       {Command("SETADDR", 5, a) : a \in {8, 12}}
  \cup {Command("ERASE", 5, a) : a \in {4, 8}}
  \cup {Command("other", 5, 0)}
  \cup {Block(2, 8, "A"), Block(2, 4, "B"), Block(1, 4, "B")}
=============================================================================
