------------------------------- MODULE Flash -------------------------------
(***************************************************************************)
(* The flash routines of src_stage2/flash.h, as operators on a memory      *)
(* image: a function from byte addresses to cells.  The routines loop over *)
(* pages and program units; the loops are given here in closed form, which *)
(* is exact because no iteration reads a byte that an earlier one changed: *)
(* the page erased at address a ends before the next address tested, and   *)
(* two program units never overlap.                                        *)
(*                                                                         *)
(* Addresses are numbers below AddrSpace, the 2^32 of the C code, and all  *)
(* address arithmetic wraps as uint32_t does.                              *)
(***************************************************************************)
EXTENDS Integers

CONSTANTS
  AddrSpace,     \* number of addresses a uint32_t can hold
  FlashBase,     \* FLASH_BASE_ADDR
  PageSize,      \* get_flash_page_size()
  BootPages,     \* pages reserved for the bootloader, FLASH_BOOTLDR_SIZE_KB
  Pages,         \* pages of the chip, lnCpuID::flashSize()
  TransferSize,  \* DFU_TRANSFER_SIZE
  Gd32,          \* TRUE on a GD32, which programs whole words
  Tags,          \* identities of downloaded payloads
  Blank,         \* the erased byte, 0xFF
  BootByte,      \* a byte of the bootloader itself
  Old,           \* a byte of the application present before the session
  Torn           \* a byte left undefined by an interrupted erase or write

\* A transfer spans at least one page; the flash lies well below the top of
\* the address space, as 0x08000000 does.
ASSUME LayoutAssumption ==
  /\ AddrSpace \in Nat \ {0} /\ PageSize \in Nat \ {0}
  /\ FlashBase \in Nat
  /\ BootPages \in Nat \ {0} /\ Pages \in Nat \ {0} /\ BootPages < Pages
  /\ TransferSize \in Nat /\ PageSize <= TransferSize
  /\ FlashBase + Pages * PageSize + TransferSize <= AddrSpace
  /\ Gd32 \in BOOLEAN

start_addr == FlashBase + BootPages * PageSize
end_addr == FlashBase + Pages * PageSize

FlashAddr == FlashBase .. (end_addr - 1)
BootAddr == FlashBase .. (start_addr - 1)
AppAddr == start_addr .. (end_addr - 1)

(* Byte i of the payload called tag. *)
Byte(tag, i) == <<tag, i>>

(* Cells that are told apart. *)
ASSUME CellAssumption ==
  /\ Old \notin {Blank, Torn}
  /\ \A c \in {Blank, Old, Torn} : c \notin Tags \X (0 .. (TransferSize - 1))

Cell == {Blank, BootByte, Old, Torn} \cup (Tags \X (0 .. (TransferSize - 1)))

Wrap(x) == x % AddrSpace

(* The range test of the DFU code compares uint32_t values, so the sum on    *)
(* the right may have wrapped.                                               *)
InRange_NoLowerBound(base, len) == Wrap(base + len) <= end_addr
InRange(base, len) == base >= start_addr /\ Wrap(base + len) <= end_addr

-----------------------------------------------------------------------------
(* Erasing. *)

(* The bytes of hardware page k, and two addresses of one page: an address   *)
(* written to FLASH_AR selects the page that holds it.                       *)
PageBytes(k) == (FlashBase + k * PageSize) .. (FlashBase + (k + 1) * PageSize - 1)

SamePage(a, b) == \E k \in 0 .. (Pages - 1) : a \in PageBytes(k) /\ b \in PageBytes(k)

(* _flash_page_is_erased found a non-blank word in the PageSize bytes from a *)
(* on.  It starts at a, not at the start of the page.                        *)
NotErased(f, a) ==
  \E x \in FlashAddr : a <= x /\ x < a + PageSize /\ f[x] # Blank

(* It meets no such word and leaves the flash. *)
RunsOff(f, a) == ~NotErased(f, a) /\ a + PageSize > end_addr

(* Addresses visited by "for (page = from; page < to; page += page size)". *)
PageSteps(from, to) == {a \in from .. (to - 1) : ((a - from) % PageSize) = 0}

(* Every page in steps that is not blank is erased. *)
ErasePages(f, steps) ==
  [x \in FlashAddr |->
     IF \E a \in steps : SamePage(a, x) /\ NotErased(f, a)
     THEN Blank ELSE f[x]]

-----------------------------------------------------------------------------
(* Programming. *)

(* Bytes stored by one write: a word on a GD32 when length and address are   *)
(* multiples of 4, a half word otherwise.                                    *)
UnitSize(base, len) == IF Gd32 /\ (len % 4) = 0 /\ (base % 4) = 0 THEN 4 ELSE 2

(* Number of bytes the programming loop stores. *)
ProgrammedLen(base, len) == len - (len % UnitSize(base, len))

(* The controller refuses to program a unit that is not blank. *)
UnitBlank(f, base, x, unit) ==
  \A y \in FlashAddr :
     y >= base /\ ((y - base) \div unit) = ((x - base) \div unit) => f[y] = Blank

(* The flash after n bytes of payload tag have been programmed at base. *)
Program(f, base, n, unit, tag) ==
  [x \in FlashAddr |->
     IF base <= x /\ x < base + n /\ UnitBlank(f, base, x, unit)
     THEN Byte(tag, x - base) ELSE f[x]]

-----------------------------------------------------------------------------
(* A supply failure leaves the page being erased, or the unit being written, *)
(* with undefined contents; what was done before it stays.                   *)

TornErase(f, steps, cut) ==
  [x \in FlashAddr |->
     IF SamePage(cut, x) /\ NotErased(f, cut) THEN Torn
     ELSE ErasePages(f, {a \in steps : a < cut})[x]]

TornProgram(f, base, n, unit, tag) ==
  [x \in FlashAddr |->
     IF base + n <= x /\ x < base + n + unit /\ UnitBlank(f, base, x, unit)
     THEN Torn ELSE Program(f, base, n, unit, tag)[x]]
=============================================================================
