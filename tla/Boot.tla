-------------------------------- MODULE Boot --------------------------------
(***************************************************************************)
(* Stage 1 (src_stage1/main.cpp, after start_c of arm_gd32fx/start.cpp):   *)
(* what happens between a reset and the first instruction of the           *)
(* application or of stage 2.                                              *)
(*                                                                         *)
(* The application carries a header of four words: initial stack pointer,  *)
(* reset vector, image size, checksum.  The checksum is that of the words  *)
(* after the header.  The application itself, the button, the supply and   *)
(* what stage 2 leaves in the flash are the environment.                   *)
(*                                                                         *)
(* An operator named <definition>_<change> is a broken variant of the      *)
(* definition after it, used only to show that a property notices it.      *)
(***************************************************************************)
EXTENDS Flash

CONSTANTS
  WordSize,      \* bytes in a uint32_t
  HeaderOf,      \* what the header words of each known payload say
  SizeLimit,     \* 256 * 1024: sizes from here on are absurd
  NoHashSize,    \* 0x1234, which together with
  NoHashSum,     \* 0x5678 marks an image without hash
  BlankSum,      \* 0xFFFFFFFF, what a blank checksum word reads
  Contents       \* flash images that stage 2 may leave behind

VARIABLES
  flash,      \* the flash image
  ram0,       \* the first 8 bytes of RAM, where "marker" points
  button,     \* PB14 is pulled low
  stage,      \* what runs: see Stages
  requested,  \* history: the application has asked for DFU and not got it yet
  checked     \* history: the application runs because its checksum was right

bootVars == <<flash, ram0, button, stage, requested, checked>>

(* "reset": start_c is about to run; "main": stage 1; "app" and "stage2":    *)
(* what stage 1 chained to; "hang": the fault handler, which never returns.  *)
Stages == {"reset", "main", "app", "stage2", "hang"}

(* The 8 bytes hold the magic value, zero, code or data that a program put   *)
(* there, or what the RAM powers up with.                                    *)
RamContents == {"magic", "zero", "program", "noise"}

HeaderSize == 4 * WordSize

ASSUME BootAssumption ==
  /\ WordSize \in Nat \ {0} /\ HeaderSize <= TransferSize
  /\ HeaderSize <= end_addr - start_addr
  /\ SizeLimit \in Nat /\ NoHashSize \in Nat
  /\ \A p \in DOMAIN HeaderOf : HeaderOf[p].size \in Nat /\ HeaderOf[p].sp \in BOOLEAN
  /\ \A p \in DOMAIN HeaderOf, i \in 0 .. (HeaderSize - 1) : Byte(p, i) \notin {Old, Blank}
  /\ Contents \subseteq [FlashAddr -> Cell]

-----------------------------------------------------------------------------
(* Reading the header. *)

WordAddr(k) == (start_addr + k * WordSize) .. (start_addr + (k + 1) * WordSize - 1)

(* Word k of the header is whole and belongs to payload p. *)
WordOf(f, k, p) ==
  \A x \in WordAddr(k) : f[x] = IF p = Old THEN Old ELSE Byte(p, x - start_addr)

WordBlank(f, k) == \A x \in WordAddr(k) : f[x] = Blank

(* It is neither whole nor blank: cut short, or made of two payloads. *)
WordDamaged(f, k) == ~WordBlank(f, k) /\ \A p \in DOMAIN HeaderOf : ~WordOf(f, k, p)

(* The values that word k can be read as: a damaged one reads as anything.   *)
WordValues(f, k, field, blank, anything) ==
  IF WordDamaged(f, k) THEN anything
  ELSE IF WordBlank(f, k) THEN {blank}
  ELSE {HeaderOf[p][field] : p \in {q \in DOMAIN HeaderOf : WordOf(f, k, q)}}

(* Any size from the limit on is refused alike.  Of the checksums only the   *)
(* known ones, the mark of an image without hash and the blank word can make *)
(* a difference: that a damaged word happens to be the checksum of what the  *)
(* flash holds is left out, as collisions are.                               *)
AnySum == {HeaderOf[p].sum : p \in DOMAIN HeaderOf} \cup {NoHashSum, BlankSum}

SigValues(f) == WordValues(f, 0, "sp", FALSE, BOOLEAN)
SizeValues(f) == WordValues(f, 2, "size", SizeLimit, 0 .. SizeLimit)
SumValues(f) == WordValues(f, 3, "sum", BlankSum, AnySum)

-----------------------------------------------------------------------------
(* The checksum.  ch32_crc is taken to be free of collisions: the checksum   *)
(* of a region is the region's content.  Of no words at all it is what the   *)
(* reset of the CRC unit leaves, the same as a blank word.                   *)

CrcFrom == start_addr + HeaderSize

(* ch32_crc is given whole words only. *)
CrcLen(size) == (size \div WordSize) * WordSize

Crc(f, size) ==
  IF CrcLen(size) = 0 THEN BlankSum
  ELSE [i \in 0 .. (CrcLen(size) - 1) |-> f[CrcFrom + i]]

(* The loop reads on past the end of the flash. *)
CrcFaults(size) == CrcFrom + CrcLen(size) > end_addr

(* The mark of an image that carries no hash. *)
Unhashed(size, sum) == size = NoHashSize /\ sum = NoHashSum

(* The decision of main, given what it reads: DFU, the application, or the   *)
(* fault handler.                                                            *)
Verdict_NoCrc(f, forced, sp, size, sum) ==
  IF forced \/ ~sp \/ size >= SizeLimit THEN "stage2" ELSE "app"

Verdict(f, forced, sp, size, sum) ==
  CASE forced \/ ~sp                                 -> "stage2"
    [] ~forced /\ sp /\ size >= SizeLimit            -> "stage2"
    [] ~forced /\ sp /\ size < SizeLimit ->
         IF Unhashed(size, sum) THEN "app"
         ELSE IF CrcFaults(size) THEN "hang"
         ELSE IF Crc(f, size) = sum THEN "app" ELSE "stage2"

(* DFU is asked for, by the marker or by the button. *)
Forced_MarkerOnly == ram0 = "magic"
Forced == ram0 = "magic" \/ button

-----------------------------------------------------------------------------
(* start_c initialises .data and .bss, which start with the 8 bytes of the   *)
(* marker, and then puts those back.                                         *)
StartC_RestoresHalf ==
  /\ stage = "reset" /\ stage' = "main"
  /\ ram0' = IF ram0 = "magic" THEN "half magic" ELSE ram0
  /\ UNCHANGED <<flash, button, requested, checked>>

StartC ==
  /\ stage = "reset" /\ stage' = "main"
  /\ UNCHANGED <<flash, ram0, button, requested, checked>>

(* chain_to: the image's stack pointer and reset vector decide what runs.    *)
ChainTo(image) == stage' = image

(* The fault handler is deadEnd, and deadEnd calls itself by way of          *)
(* Logger_crash and do_assert: nothing but a reset gets out of it.           *)
DeadEnd == stage' = "hang"

(* What is left in the marker's place: clear_reboot_flags zeroes it, and the *)
(* copy of stage 2 to the start of RAM puts its vector table there.          *)
MarkerAfter_Kept(next) == IF next = "app" THEN "zero" ELSE ram0
MarkerAfter(next) ==
  CASE next = "stage2" -> "program"
    [] next = "app"    -> "zero"
    [] next = "hang"   -> ram0

(* main: decide, clear the marker, and chain. *)
Main ==
  /\ stage = "main"
  /\ \E sp \in SigValues(flash), size \in SizeValues(flash), sum \in SumValues(flash) :
       LET verdict == Verdict(flash, Forced, sp, size, sum)
       IN /\ IF verdict = "hang" THEN DeadEnd ELSE ChainTo(verdict)
          /\ checked' = (verdict = "app" /\ ~Unhashed(size, sum) /\ CrcLen(size) > 0)
  /\ ram0' = MarkerAfter(stage')
  /\ requested' = IF stage' = "stage2" THEN FALSE ELSE requested
  /\ UNCHANGED <<flash, button>>

(* The application writes the magic value and resets the chip. *)
AppRequestsDfu ==
  /\ stage = "app" /\ stage' = "reset"
  /\ ram0' = "magic" /\ requested' = TRUE
  /\ UNCHANGED <<flash, button, checked>>

(* The application is reset for another reason, whatever it used RAM for. *)
AppResets ==
  /\ stage = "app" /\ stage' = "reset"
  /\ ram0' = "program"
  /\ UNCHANGED <<flash, button, requested, checked>>

Button ==
  /\ button' = ~button
  /\ UNCHANGED <<flash, ram0, stage, requested, checked>>

(* The supply has gone away and comes back: the RAM forgets. *)
SupplyReturns ==
  /\ stage' = "reset"
  /\ ram0' = "noise" /\ requested' = FALSE /\ UNCHANGED checked

PowerCycle == SupplyReturns /\ UNCHANGED <<flash, button>>

(* Stage 2 resets the chip; it has left the marker's place alone. *)
LeaveStage2 ==
  /\ stage = "stage2" /\ stage' = "reset"
  /\ UNCHANGED <<ram0, button, requested, checked>>

-----------------------------------------------------------------------------
(* Stage 1 in an environment that leaves any image of Contents in the flash. *)

BootInit ==
  /\ flash \in Contents
  /\ ram0 = "noise" /\ stage = "reset"
  /\ button \in BOOLEAN /\ requested = FALSE /\ checked = FALSE

BootNext ==
  \/ StartC \/ Main \/ AppRequestsDfu \/ AppResets \/ Button \/ PowerCycle
  \/ LeaveStage2 /\ flash' \in Contents

(* The processor keeps executing stage 1. *)
BootSpec == BootInit /\ [][BootNext]_bootVars /\ WF_bootVars(StartC) /\ WF_bootVars(Main)

-----------------------------------------------------------------------------
(* Properties. *)

(* Types of the boot variables. *)
BootTypeOK ==
  /\ flash \in [FlashAddr -> Cell]
  /\ ram0 \in RamContents /\ button \in BOOLEAN
  /\ stage \in Stages /\ requested \in BOOLEAN /\ checked \in BOOLEAN

(* The flash holds payload p's header and, when p carries a hash, the bytes  *)
(* that hash was made from.                                                  *)
Holds(p) ==
  /\ \A k \in 0 .. 3 : WordOf(flash, k, p)
  /\ \/ Unhashed(HeaderOf[p].size, HeaderOf[p].sum)
     \/ /\ CrcFrom + HeaderOf[p].size <= end_addr
        /\ Crc(flash, HeaderOf[p].size) = HeaderOf[p].sum

Bootable == \E p \in DOMAIN HeaderOf :
               HeaderOf[p].sp /\ HeaderOf[p].size < SizeLimit /\ Holds(p)

(* A request for DFU survives the reset that carries it: once the            *)
(* application has written the marker and reset the chip, stage 2 runs,      *)
(* unless the power fails first (start.cpp:79-99, main.cpp:55-64, 123).      *)
RequestServed == requested ~> ~requested

(* Stage 2 is entered without button and without request only when no        *)
(* bootable image is there: neither stage 2's own reset nor noise in RAM     *)
(* keeps a device with a sound application in DFU (main.cpp:140-161).        *)
DfuHasReason ==
  [][(stage = "main" /\ stage' = "stage2" /\ ~button /\ ~requested) => ~Bootable]_bootVars

(* Refuted: main.cpp:155 treats an "absurd size" as a reason for DFU, and    *)
(* main.cpp:100 promises DFU when verification fails; a size between the end *)
(* of the flash and SizeLimit makes the checksum loop fault instead.         *)
BadSizeForcesDfu == stage # "hang"
=============================================================================
