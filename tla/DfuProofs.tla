----------------------------- MODULE DfuProofs -----------------------------
(***************************************************************************)
(* Proofs about Dfu for every layout of the flash, every set of requests   *)
(* and every build option that its assumptions admit.  First its types and *)
(* the bootloader's bytes; then which bytes the deferred operation can     *)
(* change and to what; then that what the host was told is in the flash,   *)
(* and that a SAFEWRITE build never mixes old and new bytes.               *)
(***************************************************************************)
EXTENDS Dfu, TLAPS

-----------------------------------------------------------------------------
(* The layout of the flash. *)

(* The bounds of the flash and of the application area are integers, in      *)
(* order: the bootloader lies below start_addr, everything below end_addr.   *)
LEMMA Bounds ==
  /\ FlashBase \in Nat /\ start_addr \in Nat /\ end_addr \in Nat
  /\ FlashBase <= start_addr
  /\ end_addr + TransferSize <= AddrSpace
  /\ BootAddr \subseteq FlashAddr
  /\ FlashAddr \subseteq Nat
  /\ \A x \in FlashAddr : FlashBase <= x /\ x < end_addr
  /\ \A x \in BootAddr : x < start_addr
<1>1. BootPages * PageSize \in Nat /\ Pages * PageSize \in Nat
  BY LayoutAssumption
<1>2. BootPages * PageSize <= Pages * PageSize
  BY LayoutAssumption
<1>3. start_addr \in Nat /\ end_addr \in Nat /\ FlashBase \in Nat
  BY <1>1, LayoutAssumption DEF start_addr, end_addr
<1>4. FlashBase <= start_addr /\ start_addr <= end_addr
  BY <1>1, <1>2, LayoutAssumption DEF start_addr, end_addr
<1>5. end_addr + TransferSize <= AddrSpace
  BY <1>1, LayoutAssumption DEF end_addr
<1> QED
  BY <1>3, <1>4, <1>5 DEF BootAddr, FlashAddr

(* No hardware page holds both an address of the application area and a byte *)
(* of the bootloader, because start_addr is the first byte of a page.        *)
LEMMA PagesDoNotStraddle ==
  ASSUME NEW a \in Int, a >= start_addr, NEW x \in BootAddr
  PROVE  ~SamePage(a, x)
<1> SUFFICES ASSUME NEW k \in 0 .. (Pages - 1), a \in PageBytes(k), x \in PageBytes(k)
             PROVE  FALSE
  BY DEF SamePage
<1>1. k \in Nat /\ BootPages \in Nat /\ PageSize \in Nat /\ PageSize > 0
  BY LayoutAssumption
<1>2. x < FlashBase + BootPages * PageSize /\ x \in Int
  BY Bounds DEF start_addr, BootAddr
<1>3. FlashBase + k * PageSize <= x /\ FlashBase \in Int
  BY <1>1, LayoutAssumption DEF PageBytes
<1>4. k * PageSize < BootPages * PageSize
  BY <1>1, <1>2, <1>3
<1>5. k < BootPages
  <2>1. CASE BootPages <= k
    <3>1. BootPages * PageSize <= k * PageSize
      BY <1>1, <2>1
    <3> QED  BY <3>1, <1>1, <1>4
  <2> QED  BY <2>1, <1>1
<1>6. (k + 1) * PageSize <= BootPages * PageSize
  BY <1>1, <1>5
<1>7. a < FlashBase + (k + 1) * PageSize
  BY <1>1, <1>3 DEF PageBytes
<1> QED
  BY <1>1, <1>3, <1>6, <1>7 DEF start_addr

-----------------------------------------------------------------------------
(* What the flash routines preserve. *)

Image == [FlashAddr -> Cell]

(* Erasing keeps an image an image. *)
LEMMA ErasePagesType ==
  ASSUME NEW f \in Image, NEW steps
  PROVE  ErasePages(f, steps) \in Image
BY DEF ErasePages, Image, Cell

(* Erasing pages of the application area leaves the bootloader alone. *)
LEMMA ErasePagesKeepsBoot ==
  ASSUME NEW f \in Image, NEW steps \in SUBSET Int,
         \A a \in steps : a >= start_addr, NEW x \in BootAddr
  PROVE  ErasePages(f, steps)[x] = f[x]
<1>1. x \in FlashAddr
  BY Bounds
<1>2. \A a \in steps : ~SamePage(a, x)
  BY PagesDoNotStraddle
<1> QED
  BY <1>1, <1>2 DEF ErasePages

(* Programming stores bytes of the payload and nothing else. *)
LEMMA ProgramType ==
  ASSUME NEW f \in Image, NEW base \in Int, NEW n \in Int, n <= TransferSize,
         NEW unit, NEW tag, n > 0 => tag \in Tags
  PROVE  Program(f, base, n, unit, tag) \in Image
<1>1. ASSUME NEW x \in FlashAddr, base <= x, x < base + n
      PROVE  Byte(tag, x - base) \in Cell
  <2>1. x \in Int /\ n > 0 /\ x - base \in 0 .. (TransferSize - 1)
    BY <1>1, Bounds, LayoutAssumption
  <2> QED
    BY <2>1 DEF Byte, Cell
<1> QED
  BY <1>1 DEF Program, Image

(* Programming above start_addr leaves the bootloader alone. *)
LEMMA ProgramKeepsBoot ==
  ASSUME NEW f \in Image, NEW base \in Int, NEW n \in Int, NEW unit, NEW tag,
         base >= start_addr \/ n <= 0, NEW x \in BootAddr
  PROVE  Program(f, base, n, unit, tag)[x] = f[x]
<1>1. x \in FlashAddr /\ x \in Int /\ x < start_addr /\ start_addr \in Int
  BY Bounds
<1>2. ~(base <= x /\ x < base + n)
  BY <1>1
<1> QED
  BY <1>1, <1>2 DEF Program

(* The same for an interrupted erase and an interrupted write. *)
LEMMA TornEraseType ==
  ASSUME NEW f \in Image, NEW steps, NEW cut
  PROVE  TornErase(f, steps, cut) \in Image
<1>1. ErasePages(f, {a \in steps : a < cut}) \in Image
  BY ErasePagesType
<1> QED
  BY <1>1 DEF TornErase, Image, Cell

LEMMA TornEraseKeepsBoot ==
  ASSUME NEW f \in Image, NEW steps \in SUBSET Int,
         \A a \in steps : a >= start_addr, NEW cut \in steps, NEW x \in BootAddr
  PROVE  TornErase(f, steps, cut)[x] = f[x]
<1>1. x \in FlashAddr
  BY Bounds
<1>2. ~SamePage(cut, x)
  BY PagesDoNotStraddle
<1>3. ErasePages(f, {a \in steps : a < cut})[x] = f[x]
  BY ErasePagesKeepsBoot
<1> QED
  BY <1>1, <1>2, <1>3 DEF TornErase

LEMMA TornProgramType ==
  ASSUME NEW f \in Image, NEW base \in Int, NEW n \in Int, n <= TransferSize,
         NEW unit, NEW tag, n > 0 => tag \in Tags
  PROVE  TornProgram(f, base, n, unit, tag) \in Image
<1>1. Program(f, base, n, unit, tag) \in Image
  BY ProgramType
<1> QED
  BY <1>1 DEF TornProgram, Image, Cell

LEMMA TornProgramKeepsBoot ==
  ASSUME NEW f \in Image, NEW base \in Int, NEW n \in Nat, NEW unit \in Nat, NEW tag,
         base >= start_addr, NEW x \in BootAddr
  PROVE  TornProgram(f, base, n, unit, tag)[x] = f[x]
<1>1. x \in FlashAddr /\ x \in Int /\ x < start_addr /\ start_addr \in Int
  BY Bounds
<1>2. ~(base + n <= x)
  BY <1>1
<1>3. n \in Int
  OBVIOUS
<1>4. Program(f, base, n, unit, tag)[x] = f[x]
  BY <1>3, ProgramKeepsBoot
<1> QED
  BY <1>1, <1>2, <1>4 DEF TornProgram

-----------------------------------------------------------------------------
(* The deferred operation. *)

(* What the deferred operation is made of while its record is well formed.   *)
LEMMA OperationFacts ==
  ASSUME prog \in ProgType, IsWrite => prog.buf.tag \in Tags, flash \in Image
  PROVE  /\ baseaddr \in Int
         /\ WipePages \in SUBSET Int /\ \A a \in WipePages : a >= start_addr
         /\ OpPages \in SUBSET Int /\ \A a \in OpPages : a >= start_addr
         /\ OpUnit \in Nat
         /\ OpProgramLen \in Int /\ OpProgramLen <= TransferSize
         /\ OpProgramLen > 0 => baseaddr >= start_addr /\ prog.buf.tag \in Tags
         /\ Wiped \in Image /\ OpErased \in Image
<1>0. PayloadAddr \subseteq Int
  <2>1. PayloadAddr \subseteq 0 .. (AddrSpace - 1)
    BY HostAssumption
  <2> QED
    BY <2>1, LayoutAssumption
<1>1. baseaddr \in Int
  <2>1. CASE prog.blocknum = 0
    <3>1. prog.buf.addr \in PayloadAddr
      BY DEF ProgType, BufType
    <3> QED
      BY <1>0, <2>1, <3>1 DEF baseaddr
  <2>2. CASE prog.blocknum # 0
    <3>1. prog.addr \in Int /\ prog.blocknum \in Int /\ TransferSize \in Int
      <4>1. prog.addr \in PayloadAddr /\ prog.blocknum \in Nat
        BY DEF ProgType
      <4>2. TransferSize \in Int
        BY LayoutAssumption
      <4>3. prog.addr \in Int
        BY <1>0, <4>1
      <4> QED
        BY <4>1, <4>2, <4>3
    <3>2. (prog.blocknum - 2) * TransferSize \in Int
      BY <3>1
    <3>3. prog.addr + (prog.blocknum - 2) * TransferSize \in Int
      BY <3>1, <3>2
    <3> QED
      BY <2>2, <3>3, LayoutAssumption DEF baseaddr, BlockAddr, Wrap
  <2> QED
    BY <2>1, <2>2
<1>2. start_addr \in Nat /\ end_addr \in Nat
  BY Bounds
<1>3. ASSUME NEW from \in Int, NEW to \in Int
      PROVE  PageSteps(from, to) \in SUBSET Int /\ \A a \in PageSteps(from, to) : a >= from
  BY DEF PageSteps
<1>4. WipePages \in SUBSET Int /\ \A a \in WipePages : a >= start_addr
  BY <1>2, <1>3 DEF WipePages
<1>5. prog.len \in 0 .. TransferSize /\ TransferSize \in Nat
  BY LayoutAssumption DEF ProgType
<1>6. Wrap(baseaddr + prog.len) \in Int
  BY <1>1, <1>5, LayoutAssumption DEF Wrap
<1>7. OpPages \in SUBSET Int /\ \A a \in OpPages : a >= start_addr
  <2>1. CASE IsErase /\ InRange(baseaddr, TransferSize)
    <3>1. OpPages = {baseaddr}
      BY <2>1 DEF OpPages, IsErase, IsWrite
    <3>2. baseaddr >= start_addr
      BY <2>1 DEF InRange
    <3>3. \A a \in OpPages : a = baseaddr
      BY <3>1
    <3> QED
      BY <1>1, <1>2, <3>2, <3>3
  <2>2. CASE ~IsErase /\ IsWrite /\ InRange(baseaddr, prog.len)
    <3>1. OpPages = PageSteps(baseaddr, Wrap(baseaddr + prog.len))
      BY <2>2 DEF OpPages
    <3>2. baseaddr >= start_addr
      BY <2>2 DEF InRange
    <3>3. /\ PageSteps(baseaddr, Wrap(baseaddr + prog.len)) \in SUBSET Int
          /\ \A a \in PageSteps(baseaddr, Wrap(baseaddr + prog.len)) : a >= baseaddr
      BY <1>1, <1>3, <1>6
    <3> QED
      BY <1>1, <1>2, <3>1, <3>2, <3>3
  <2>3. CASE /\ ~(IsErase /\ InRange(baseaddr, TransferSize))
             /\ ~(IsWrite /\ InRange(baseaddr, prog.len))
    BY <2>3 DEF OpPages
  <2> QED
    BY <2>1, <2>2, <2>3 DEF IsErase, IsWrite
<1>8. OpUnit \in {2, 4}
  BY DEF OpUnit, UnitSize
<1>9. prog.len - (prog.len % OpUnit) \in Int /\ prog.len - (prog.len % OpUnit) <= prog.len
  BY <1>5, <1>8
<1>10. OpProgramLen \in Int /\ OpProgramLen <= TransferSize
  <2>1. ProgrammedLen(baseaddr, prog.len) = prog.len - (prog.len % OpUnit)
    BY DEF ProgrammedLen, OpUnit
  <2> QED
    BY <1>5, <1>9, <2>1 DEF OpProgramLen
<1>11. OpProgramLen > 0 => baseaddr >= start_addr /\ prog.buf.tag \in Tags
  BY DEF OpProgramLen, InRange
<1>12. Wiped \in Image
  BY ErasePagesType DEF Wiped
<1>13. OpErased \in Image
  BY <1>12, ErasePagesType DEF OpErased
<1> QED
  BY <1>1, <1>4, <1>7, <1>8, <1>10, <1>11, <1>12, <1>13

-----------------------------------------------------------------------------
(* The inductive invariant.  Types alone are not inductive: a write stores   *)
(* prog.buf.tag, which is a payload only because prog.blocknum is not zero   *)
(* unless a DFU_DNLOAD has filled prog.                                      *)
WriteHasPayload == IsWrite => prog.buf.tag \in Tags

DfuInv == TypeOK /\ WriteHasPayload /\ BootloaderIntact /\ ManifestServesNothing

(* The flash after the deferred operation, run to its end, is an image that  *)
(* holds the bootloader.                                                     *)
LEMMA OperationKeepsBoot ==
  ASSUME DfuInv
  PROVE  /\ OpResult \in Image
         /\ \A x \in BootAddr : OpResult[x] = BootByte
<1>1. prog \in ProgType /\ flash \in Image /\ (IsWrite => prog.buf.tag \in Tags)
  BY DEF DfuInv, TypeOK, WriteHasPayload, Image
<1>2. \A x \in BootAddr : flash[x] = BootByte
  BY DEF DfuInv, BootloaderIntact
<1>3. ASSUME NEW x \in BootAddr  PROVE  Wiped[x] = BootByte
  BY <1>1, <1>2, OperationFacts, ErasePagesKeepsBoot DEF Wiped
<1>4. ASSUME NEW x \in BootAddr  PROVE  OpErased[x] = BootByte
  BY <1>1, <1>3, OperationFacts, ErasePagesKeepsBoot DEF OpErased
<1>5. CASE OpFaults
  BY <1>1, <1>4, <1>5, OperationFacts DEF OpResult
<1>6. CASE ~OpFaults
  <2>1. OpResult = Program(OpErased, baseaddr, OpProgramLen, OpUnit, prog.buf.tag)
    BY <1>6 DEF OpResult
  <2>2. OpResult \in Image
    BY <1>1, <2>1, OperationFacts, ProgramType
  <2>3. ASSUME NEW x \in BootAddr  PROVE  OpResult[x] = BootByte
    <3>1. baseaddr >= start_addr \/ OpProgramLen <= 0
      BY <1>1, OperationFacts
    <3>2. Program(OpErased, baseaddr, OpProgramLen, OpUnit, prog.buf.tag)[x] = OpErased[x]
      BY <1>1, <3>1, OperationFacts, ProgramKeepsBoot
    <3> QED
      BY <1>4, <2>1, <3>2
  <2> QED
    BY <2>2, <2>3
<1> QED
  BY <1>5, <1>6

(* So is the flash after an operation that a power failure cut short. *)
LEMMA CutShortKeepsBoot ==
  ASSUME DfuInv, NEW f \in OpCutShort
  PROVE  /\ f \in Image
         /\ \A x \in BootAddr : f[x] = BootByte
<1>1. prog \in ProgType /\ flash \in Image /\ (IsWrite => prog.buf.tag \in Tags)
  BY DEF DfuInv, TypeOK, WriteHasPayload, Image
<1>2. \A x \in BootAddr : flash[x] = BootByte
  BY DEF DfuInv, BootloaderIntact
<1>3. ASSUME NEW x \in BootAddr  PROVE  Wiped[x] = BootByte
  BY <1>1, <1>2, OperationFacts, ErasePagesKeepsBoot DEF Wiped
<1>4. ASSUME NEW x \in BootAddr  PROVE  OpErased[x] = BootByte
  BY <1>1, <1>3, OperationFacts, ErasePagesKeepsBoot DEF OpErased
<1>5. CASE \E cut \in WipePages : f = TornErase(flash, WipePages, cut)
  <2> PICK cut \in WipePages : f = TornErase(flash, WipePages, cut)
    BY <1>5
  <2>1. f \in Image
    BY <1>1, TornEraseType
  <2>2. ASSUME NEW x \in BootAddr  PROVE  f[x] = BootByte
    BY <1>1, <1>2, OperationFacts, TornEraseKeepsBoot
  <2> QED
    BY <2>1, <2>2
<1>6. CASE \E cut \in OpPages : f = TornErase(Wiped, OpPages, cut)
  <2> PICK cut \in OpPages : f = TornErase(Wiped, OpPages, cut)
    BY <1>6
  <2>1. f \in Image
    BY <1>1, OperationFacts, TornEraseType
  <2>2. ASSUME NEW x \in BootAddr  PROVE  f[x] = BootByte
    BY <1>1, <1>3, OperationFacts, TornEraseKeepsBoot
  <2> QED
    BY <2>1, <2>2
<1>7. CASE \E n \in 0 .. (OpProgramLen - 1) :
             f = TornProgram(OpErased, baseaddr, n, OpUnit, prog.buf.tag)
  <2> PICK n \in 0 .. (OpProgramLen - 1) :
             f = TornProgram(OpErased, baseaddr, n, OpUnit, prog.buf.tag)
    BY <1>7
  <2>1. OpProgramLen \in Int /\ OpProgramLen <= TransferSize /\ TransferSize \in Nat
    BY <1>1, OperationFacts, LayoutAssumption
  <2>2. n \in Nat /\ n \in Int /\ n <= TransferSize /\ OpProgramLen > 0
    BY <2>1
  <2>3. baseaddr \in Int /\ OpUnit \in Nat /\ OpErased \in Image
    BY <1>1, OperationFacts
  <2>4. baseaddr >= start_addr /\ prog.buf.tag \in Tags
    BY <1>1, <2>2, OperationFacts
  <2>5. f \in Image
    BY <2>2, <2>3, <2>4, TornProgramType
  <2>6. ASSUME NEW x \in BootAddr  PROVE  f[x] = BootByte
    BY <1>4, <2>2, <2>3, <2>4, TornProgramKeepsBoot
  <2> QED
    BY <2>5, <2>6
<1> QED
  BY <1>5, <1>6, <1>7 DEF OpCutShort

LEMMA InitInv == Init => DfuInv
<1> SUFFICES ASSUME Init PROVE DfuInv
  OBVIOUS
<1>1. prog \in ProgType
  <2>1. 0 \in PayloadAddr /\ TransferSize \in Nat
    BY HostAssumption, LayoutAssumption
  <2> QED
    BY <2>1 DEF Init, ZeroProg, ProgType, BufType, Commands
<1>2. flash \in [FlashAddr -> Cell]
  BY DEF Init, Cell
<1>3. TypeOK
  BY <1>1, <1>2 DEF TypeOK, Init, DfuStates, Locations
<1>4. WriteHasPayload
  BY DEF WriteHasPayload, IsWrite, Init, ZeroProg
<1>5. BootloaderIntact
  BY Bounds DEF BootloaderIntact, Init
<1>6. ManifestServesNothing
  BY DEF ManifestServesNothing, Init
<1> QED
  BY <1>3, <1>4, <1>5, <1>6 DEF DfuInv

(* The record that DFU_DNLOAD fills is well formed and holds a payload. *)
LEMMA DnloadProg ==
  ASSUME DfuInv, Dnload
  PROVE  prog' \in ProgType /\ prog'.buf.tag \in Tags
<1>1. PICK d \in Downloads : DnloadOf(d)
  BY DEF Dnload
<1>2. PICK a \in AddrAfter(d) :
         prog' = [prog EXCEPT !.blocknum = d.blocknum,
                              !.len = BufferedLen(d.len),
                              !.buf = [cmd |-> d.cmd, addr |-> a, tag |-> d.tag]]
  BY <1>1 DEF DnloadOf
<1>3. d \in [blocknum : Nat, len : Nat \ {0}, cmd : Commands,
             addr : PayloadAddr, tag : Tags]
  BY HostAssumption
<1>4. prog \in ProgType
  BY DEF DfuInv, TypeOK
<1>5. a \in PayloadAddr
  <2>1. prog.buf.addr \in PayloadAddr
    BY <1>4 DEF ProgType, BufType
  <2> QED
    BY <1>3, <2>1 DEF AddrAfter
<1>6. BufferedLen(d.len) \in 0 .. TransferSize
  BY <1>3, LayoutAssumption DEF BufferedLen
<1>7. [cmd |-> d.cmd, addr |-> a, tag |-> d.tag] \in BufType
  BY <1>3, <1>5 DEF BufType
<1> QED
  BY <1>2, <1>3, <1>4, <1>6, <1>7 DEF ProgType

(* A step of the device or of the supply preserves the invariant. *)
LEMMA NextInv == DfuInv /\ [Next]_vars => DfuInv'
<1> SUFFICES ASSUME DfuInv, [Next]_vars PROVE DfuInv'
  OBVIOUS
<1> USE DEF DfuInv
<1>1. CASE Dnload
  <2>1. prog' \in ProgType /\ prog'.buf.tag \in Tags
    BY <1>1, DnloadProg
  <2> QED
    BY <1>1, <2>1 DEF Dnload, DnloadOf, Setup, TypeOK, WriteHasPayload, BootloaderIntact,
       ManifestServesNothing, DfuStates, Locations
<1>2. CASE DnloadZero \/ ClrStatus \/ Abort \/ Detach \/ UploadCommands
           \/ UploadRefused \/ OtherSetup
  <2>1. /\ UNCHANGED <<prog, flash, erased>> /\ loc' = "check"
        /\ usb_complete_cb' = FALSE /\ reply' = NoReply
        /\ usbdfu_state' \in DfuStates
    BY <1>2 DEF DnloadZero, ClrStatus, Abort, Detach, UploadCommands, UploadRefused,
       OtherSetup, Setup, TypeOK, DfuStates
  <2> QED
    BY <2>1 DEF TypeOK, WriteHasPayload, IsWrite, BootloaderIntact,
       ManifestServesNothing, Locations
<1>3. CASE UploadBlock
  <2>1. /\ UNCHANGED <<prog, flash, erased>> /\ loc' \in {"fault", "check"}
        /\ usb_complete_cb' = FALSE /\ reply' = NoReply
        /\ usbdfu_state' \in DfuStates
    BY <1>3 DEF UploadBlock, DfuStates
  <2> QED
    BY <2>1 DEF TypeOK, WriteHasPayload, IsWrite, BootloaderIntact,
       ManifestServesNothing, Locations
<1>4. CASE GetStatus
  <2>1. /\ UNCHANGED <<prog, flash, erased>> /\ loc' = "check" /\ usb_complete_cb' = TRUE
        /\ usbdfu_state' \in DfuStates /\ reply' \in ReplyType
    BY <1>4 DEF GetStatus, StatusState, StatusCode, ReplyType, TypeOK, DfuStates
  <2> QED
    BY <2>1 DEF TypeOK, WriteHasPayload, IsWrite, BootloaderIntact,
       ManifestServesNothing, Locations
<1>5. CASE GetState
  <2>1. /\ UNCHANGED <<usbdfu_state, prog, flash, erased>> /\ loc' = "check"
        /\ usb_complete_cb' = FALSE /\ reply' \in ReplyType
    BY <1>5 DEF GetState, ReplyType, TypeOK
  <2> QED
    BY <2>1 DEF TypeOK, WriteHasPayload, IsWrite, BootloaderIntact,
       ManifestServesNothing, Locations
<1>6. CASE StatusStage /\ RunOperation
  <2>1. OpResult \in Image /\ \A x \in BootAddr : OpResult[x] = BootByte
    BY OperationKeepsBoot
  <2>2. prog' \in ProgType /\ prog'.blocknum = prog.blocknum /\ prog'.buf = prog.buf
    <3>1. prog \in ProgType /\ prog.buf.addr \in PayloadAddr
      BY DEF TypeOK, ProgType, BufType
    <3> QED
      BY <1>6, <3>1 DEF RunOperation, ProgType
  <2>3. /\ flash' = OpResult /\ erased' \in BOOLEAN /\ usb_complete_cb' = FALSE
        /\ reply' = reply /\ loc' \in {"fault", "check"} /\ usbdfu_state' \in DfuStates
    BY <1>6 DEF StatusStage, RunOperation, TypeOK, DfuStates
  <2> QED
    BY <2>1, <2>2, <2>3 DEF TypeOK, WriteHasPayload, IsWrite, BootloaderIntact,
       ManifestServesNothing, Locations, Image
<1>7. CASE StatusStage /\ NothingToRun
  BY <1>7 DEF StatusStage, NothingToRun, TypeOK, WriteHasPayload, IsWrite,
     BootloaderIntact, ManifestServesNothing, Locations
<1>8. CASE MainLoop
  BY <1>8 DEF MainLoop, TypeOK, WriteHasPayload, IsWrite, BootloaderIntact,
     ManifestServesNothing, Locations
<1>9. CASE Restart \/ PowerLoss
  <2>1. flash' \in Image /\ \A x \in BootAddr : flash'[x] = BootByte
    <3>1. CASE flash' = flash
      BY <3>1 DEF TypeOK, Image, BootloaderIntact
    <3>2. CASE flash' \in OpCutShort
      BY <3>2, CutShortKeepsBoot
    <3> QED
      BY <1>9, <3>1, <3>2 DEF Restart, PowerLoss
  <2>2. ZeroProg \in ProgType
    <3>1. 0 \in PayloadAddr /\ TransferSize \in Nat
      BY HostAssumption, LayoutAssumption
    <3> QED
      BY <3>1 DEF ZeroProg, ProgType, BufType, Commands
  <2>3. StartUp
    BY <1>9 DEF Restart, PowerLoss
  <2> QED
    BY <2>1, <2>2, <2>3 DEF StartUp, ZeroProg, TypeOK, WriteHasPayload, IsWrite,
       BootloaderIntact, ManifestServesNothing, Locations, DfuStates, Image
<1>10. CASE UNCHANGED vars
  BY <1>10 DEF vars, TypeOK, WriteHasPayload, IsWrite, BootloaderIntact,
     ManifestServesNothing
<1> QED
  BY <1>1, <1>2, <1>3, <1>4, <1>5, <1>6, <1>7, <1>8, <1>9, <1>10
     DEF Next, Request, StatusStage

(* The conjunction is an invariant of the DFU layer. *)
THEOREM Invariance == Spec => []DfuInv
<1> QED
  BY InitInv, NextInv, PTL DEF Spec

(* Every variable keeps its type (dfu.cpp:49-57, 334). *)
THEOREM TypeCorrect == Spec => []TypeOK
<1>1. DfuInv => TypeOK
  BY DEF DfuInv
<1> QED
  BY <1>1, Invariance, PTL

(* No host and no power failure changes a byte of the bootloader, on a chip  *)
(* of any size with pages of any size (dfu.cpp:236-239).                     *)
THEOREM BootloaderSafe == Spec => []BootloaderIntact
<1>1. DfuInv => BootloaderIntact
  BY DEF DfuInv
<1> QED
  BY <1>1, Invariance, PTL

(* No request is served once the reset has been decided (dfu.cpp:507-512).   *)
THEOREM NoRequestAfterManifest == Spec => []ManifestServesNothing
<1>1. DfuInv => ManifestServesNothing
  BY DEF DfuInv
<1> QED
  BY <1>1, Invariance, PTL

-----------------------------------------------------------------------------
(* Where the operators of Flash can change an image. *)

(* Division with remainder. *)
LEMMA Division ==
  ASSUME NEW o \in Nat, NEW size \in Nat, size > 0
  PROVE  /\ o \div size \in Nat
         /\ o = size * (o \div size) + (o % size)
         /\ o % size \in 0 .. (size - 1)
BY SMTT(30)

(* Every address of the flash lies in a page. *)
LEMMA InOwnPage ==
  ASSUME NEW x \in FlashAddr
  PROVE  SamePage(x, x)
<1>1. PageSize \in Nat /\ PageSize > 0 /\ Pages \in Nat /\ FlashBase \in Nat
  BY LayoutAssumption
<1>2. x \in Int /\ x >= FlashBase /\ x < FlashBase + Pages * PageSize
  BY Bounds DEF end_addr
<1> DEFINE o == x - FlashBase
           k == o \div PageSize
<1>3. o \in Nat /\ o < Pages * PageSize
  BY <1>1, <1>2
<1>4. k \in Nat /\ o = PageSize * k + (o % PageSize) /\ o % PageSize \in 0 .. (PageSize - 1)
  BY <1>1, <1>3, Division
<1> HIDE DEF k
<1>5. /\ k * PageSize = PageSize * k /\ k * PageSize \in Nat
      /\ (k + 1) * PageSize = k * PageSize + PageSize
  BY <1>1, <1>4
<1>6. k * PageSize <= o /\ o < (k + 1) * PageSize
  BY <1>1, <1>3, <1>4, <1>5
<1>7. k < Pages
  <2>1. CASE Pages <= k
    <3>1. Pages * PageSize <= k * PageSize
      BY <1>1, <1>4, <2>1
    <3> QED
      BY <1>1, <1>3, <1>5, <1>6, <3>1
  <2> QED
    BY <1>1, <1>4, <2>1
<1>8. x \in PageBytes(k)
  BY <1>1, <1>2, <1>5, <1>6 DEF PageBytes
<1> QED
  BY <1>1, <1>4, <1>7, <1>8 DEF SamePage

(* An erase changes the pages it is given, also when it is cut short. *)
LEMMA EraseChanges ==
  ASSUME NEW f, NEW steps, NEW x \in FlashAddr, NEW cut \in steps,
         \/ ErasePages(f, steps)[x] # f[x]
         \/ TornErase(f, steps, cut)[x] # f[x]
  PROVE  \E a \in steps : SamePage(a, x)
<1>1. ASSUME NEW s \in SUBSET steps, ErasePages(f, s)[x] # f[x]
      PROVE  \E a \in steps : SamePage(a, x)
  BY <1>1 DEF ErasePages
<1>2. CASE TornErase(f, steps, cut)[x] # f[x]
  <2>1. CASE SamePage(cut, x)
    BY <2>1
  <2>2. CASE ~SamePage(cut, x)
    <3>1. ErasePages(f, {a \in steps : a < cut})[x] # f[x]
      BY <1>2, <2>2 DEF TornErase
    <3> QED
      BY <1>1, <3>1
  <2> QED
    BY <2>1, <2>2
<1> QED
  BY <1>1, <1>2

(* The same for an erase that is not cut (flash.h:69-89).                    *)
LEMMA WholeEraseChanges ==
  ASSUME NEW f, NEW steps, NEW x \in FlashAddr, ErasePages(f, steps)[x] # f[x]
  PROVE  \E a \in steps : SamePage(a, x)
BY DEF ErasePages

-----------------------------------------------------------------------------
(* The footprint of the operation in prog. *)

Kind == OpKind(prog.blocknum, prog.buf.cmd)
PendingFootprint == OpFootprint([kind |-> Kind, base |-> baseaddr, len |-> prog.len], erased)

(* The kinds are those that the program tells apart (dfu.cpp:246-292).       *)
LEMMA KindIs ==
  /\ Kind = "write" <=> IsWrite
  /\ Kind = "erase" <=> IsErase
  /\ Kind = "setaddr" <=> IsSetAddr
  /\ Kind \in OpKinds
BY DEF Kind, OpKind, OpKinds, IsWrite, IsErase, IsSetAddr, CMD_ERASE, CMD_SETADDR

(* A page at or above start_addr holds addresses of the application only. *)
LEMMA PageInApp ==
  ASSUME NEW a \in Int, a >= start_addr, NEW x \in FlashAddr, SamePage(a, x)
  PROVE  x \in AppAddr
<1>1. x \notin BootAddr
  BY PagesDoNotStraddle
<1> QED
  BY <1>1, Bounds DEF BootAddr, AppAddr, FlashAddr

(* The wipe stays inside it. *)
LEMMA WipeInFootprint ==
  ASSUME prog \in ProgType, WriteHasPayload, flash \in Image,
         NEW x \in FlashAddr, NEW a \in WipePages, SamePage(a, x)
  PROVE  x \in PendingFootprint
<1>1. a \in Int /\ a >= start_addr
  BY OperationFacts DEF WriteHasPayload
<1>2. x \in AppAddr
  BY <1>1, PageInApp
<1>3. SafeWrite /\ ~erased /\ (IsErase \/ IsWrite)
  BY DEF WipePages
<1>4. Kind \in {"write", "erase"}
  BY <1>3, KindIs
<1> QED
  BY <1>2, <1>3, <1>4 DEF PendingFootprint, OpFootprint

(* The base of an operation is an address. *)
LEMMA BaseIsAddress ==
  ASSUME prog \in ProgType
  PROVE  baseaddr \in 0 .. (AddrSpace - 1)
<1>1. prog.blocknum \in Nat /\ prog.addr \in PayloadAddr /\ prog.buf.addr \in PayloadAddr
  BY DEF ProgType, BufType
<1>2. prog.addr \in Int /\ prog.buf.addr \in 0 .. (AddrSpace - 1)
  <2>1. PayloadAddr \subseteq 0 .. (AddrSpace - 1)
    BY HostAssumption
  <2>2. AddrSpace \in Int
    BY LayoutAssumption
  <2>3. prog.addr \in 0 .. (AddrSpace - 1) /\ prog.buf.addr \in 0 .. (AddrSpace - 1)
    BY <1>1, <2>1, Zenon
  <2>4. \A y \in 0 .. (AddrSpace - 1) : y \in Int
    BY <2>2
  <2> QED
    BY <2>3, <2>4, Zenon
<1>3. AddrSpace \in Nat /\ AddrSpace > 0 /\ TransferSize \in Int
  BY LayoutAssumption
<1>4. (prog.blocknum - 2) * TransferSize \in Int
  BY <1>1, <1>3
<1> DEFINE sum == prog.addr + (prog.blocknum - 2) * TransferSize
<1>5. sum \in Int
  BY <1>2, <1>4
<1> HIDE DEF sum
<1>6. sum % AddrSpace \in 0 .. (AddrSpace - 1)
  BY <1>3, <1>5, SMTT(30)
<1>7. BlockAddr(prog.addr, prog.blocknum) = sum % AddrSpace
  BY DEF BlockAddr, Wrap, sum
<1> QED
  BY <1>2, <1>6, <1>7 DEF baseaddr

(* A sum that wraps is not larger than the sum. *)
LEMMA WrapBound ==
  ASSUME NEW s \in Nat
  PROVE  Wrap(s) \in Nat /\ Wrap(s) <= s
<1>1. AddrSpace \in Nat /\ AddrSpace > 0
  BY LayoutAssumption
<1> QED
  BY <1>1, SMTT(30) DEF Wrap

(* So do the pages that the operation erases: those of the chunk's bytes. *)
LEMMA PagesInFootprint ==
  ASSUME prog \in ProgType, WriteHasPayload, flash \in Image,
         NEW x \in FlashAddr, NEW a \in OpPages, SamePage(a, x)
  PROVE  x \in PendingFootprint
<1>1. a \in Int /\ a >= start_addr
  BY OperationFacts DEF WriteHasPayload
<1>2. x \in AppAddr
  BY <1>1, PageInApp
<1>3. CASE IsErase /\ InRange(baseaddr, TransferSize)
  <2>1. ~IsWrite /\ a = baseaddr
    BY <1>3 DEF OpPages, IsErase, IsWrite
  <2> QED
    BY <1>2, <1>3, <2>1, KindIs DEF PendingFootprint, OpFootprint
<1>4. CASE ~(IsErase /\ InRange(baseaddr, TransferSize))
  <2>1. IsWrite /\ a \in PageSteps(baseaddr, Wrap(baseaddr + prog.len))
    BY <1>4 DEF OpPages
  <2>2. baseaddr \in Nat /\ prog.len \in Nat
    BY BaseIsAddress, LayoutAssumption DEF ProgType
  <2>3. Wrap(baseaddr + prog.len) \in Nat /\ Wrap(baseaddr + prog.len) <= baseaddr + prog.len
    BY <2>2, WrapBound
  <2>4. a >= baseaddr /\ a < baseaddr + prog.len
    BY <1>1, <2>1, <2>2, <2>3 DEF PageSteps
  <2>5. (a - baseaddr) \in 0 .. (prog.len - 1) /\ baseaddr + (a - baseaddr) = a
    BY <1>1, <2>2, <2>4
  <2>6. \E k \in 0 .. (prog.len - 1) : SamePage(baseaddr + k, x)
    BY <2>5
  <2> QED
    BY <1>2, <2>1, <2>6, KindIs DEF PendingFootprint, OpFootprint
<1> QED
  BY <1>3, <1>4

(* And the bytes that it programs, the unit in which it is cut included. *)
LEMMA BytesInFootprint ==
  ASSUME prog \in ProgType, WriteHasPayload, flash \in Image,
         NEW x \in FlashAddr, x >= baseaddr, x < baseaddr + OpProgramLen
  PROVE  x \in PendingFootprint
<1>1. baseaddr \in Nat /\ prog.len \in Nat /\ OpProgramLen \in Int /\ x \in Int
  BY BaseIsAddress, OperationFacts, LayoutAssumption, Bounds DEF ProgType, WriteHasPayload
<1>2. IsWrite /\ InRange(baseaddr, prog.len)
  BY <1>1 DEF OpProgramLen
<1>3. OpProgramLen <= prog.len
  <2>1. OpUnit \in {2, 4}
    BY DEF OpUnit, UnitSize
  <2>2. prog.len - (prog.len % OpUnit) <= prog.len
    BY <1>1, <2>1
  <2> QED
    BY <1>2, <2>2 DEF OpProgramLen, ProgrammedLen, OpUnit
<1>4. (x - baseaddr) \in 0 .. (prog.len - 1) /\ baseaddr + (x - baseaddr) = x
  BY <1>1, <1>3
<1>5. \E k \in 0 .. (prog.len - 1) : SamePage(baseaddr + k, x)
  BY <1>4, InOwnPage
<1>6. x \in AppAddr
  BY <1>1, <1>2, Bounds DEF InRange, AppAddr, FlashAddr
<1> QED
  BY <1>2, <1>5, <1>6, KindIs DEF PendingFootprint, OpFootprint

(* Units: a unit that is begun ends with the bytes that are programmed. *)
LEMMA UnitsFit ==
  ASSUME prog \in ProgType, NEW n \in 0 .. (OpProgramLen - 1), (n % OpUnit) = 0
  PROVE  n + OpUnit <= OpProgramLen
<1>1. prog.len \in Nat
  BY LayoutAssumption DEF ProgType
<1>2. CASE ~(IsWrite /\ InRange(baseaddr, prog.len))
  BY <1>2 DEF OpProgramLen
<1>3. CASE IsWrite /\ InRange(baseaddr, prog.len)
  <2>1. OpProgramLen = prog.len - (prog.len % OpUnit)
    BY <1>3 DEF OpProgramLen, ProgrammedLen, OpUnit
  <2>2. OpUnit = 2 \/ OpUnit = 4
    BY DEF OpUnit, UnitSize
  <2>3. CASE OpUnit = 2
    BY <1>1, <2>1, <2>3
  <2>4. CASE OpUnit = 4
    BY <1>1, <2>1, <2>4
  <2> QED
    BY <2>2, <2>3, <2>4
<1> QED
  BY <1>2, <1>3

-----------------------------------------------------------------------------
(* What the deferred operation does to the flash stays in its footprint. *)

(* The flash after the SAFEWRITE wipe differs in the footprint only.         *)
LEMMA WipedChanges ==
  ASSUME DfuInv, NEW x \in FlashAddr, Wiped[x] # flash[x]
  PROVE  x \in PendingFootprint
BY WholeEraseChanges, WipeInFootprint DEF Wiped, DfuInv, TypeOK, Image

(* So does the flash once the operation has erased its pages.                *)
LEMMA ErasedChanges ==
  ASSUME DfuInv, NEW x \in FlashAddr, OpErased[x] # flash[x]
  PROVE  x \in PendingFootprint
<1>1. CASE Wiped[x] # flash[x]
  BY <1>1, WipedChanges
<1>2. CASE Wiped[x] = flash[x]
  <2>1. OpErased[x] # Wiped[x]
    BY <1>2
  <2>2. \E a \in OpPages : SamePage(a, x)
    BY <2>1, WholeEraseChanges DEF OpErased
  <2> QED
    BY <2>2, PagesInFootprint DEF DfuInv, TypeOK, Image
<1> QED
  BY <1>1, <1>2

(* So does the flash after the whole operation, or at its bus fault.         *)
LEMMA OperationChanges ==
  ASSUME DfuInv, NEW x \in FlashAddr, OpResult[x] # flash[x]
  PROVE  x \in PendingFootprint
<1>1. CASE OpErased[x] # flash[x]
  BY <1>1, ErasedChanges
<1>2. CASE OpErased[x] = flash[x]
  <2>1. OpResult = Program(OpErased, baseaddr, OpProgramLen, OpUnit, prog.buf.tag)
    BY <1>2 DEF OpResult
  <2>2. baseaddr <= x /\ x < baseaddr + OpProgramLen
    BY <1>2, <2>1 DEF Program
  <2>3. baseaddr \in Int /\ x \in Int
    BY Bounds, OperationFacts DEF DfuInv, TypeOK, Image, WriteHasPayload
  <2>4. x >= baseaddr
    BY <2>2, <2>3
  <2> QED
    BY <2>2, <2>4, BytesInFootprint DEF DfuInv, TypeOK, Image
<1> QED
  BY <1>1, <1>2

(* So does the flash when a power failure cut the operation short.           *)
LEMMA CutShortChanges ==
  ASSUME DfuInv, NEW f \in OpCutShort, NEW x \in FlashAddr, f[x] # flash[x]
  PROVE  x \in PendingFootprint
<1>0. prog \in ProgType /\ WriteHasPayload /\ flash \in Image
  BY DEF DfuInv, TypeOK, Image
<1>1. CASE \E cut \in WipePages : f = TornErase(flash, WipePages, cut)
  BY <1>0, <1>1, EraseChanges, WipeInFootprint
<1>2. CASE \E cut \in OpPages : f = TornErase(Wiped, OpPages, cut)
  <2>1. CASE Wiped[x] # flash[x]
    BY <2>1, WipedChanges
  <2>2. CASE Wiped[x] = flash[x]
    BY <1>0, <1>2, <2>2, EraseChanges, PagesInFootprint
  <2> QED
    BY <2>1, <2>2
<1>3. CASE \E n \in {m \in 0 .. (OpProgramLen - 1) : (m % OpUnit) = 0} :
             f = TornProgram(OpErased, baseaddr, n, OpUnit, prog.buf.tag)
  <2> PICK n \in {m \in 0 .. (OpProgramLen - 1) : (m % OpUnit) = 0} :
             f = TornProgram(OpErased, baseaddr, n, OpUnit, prog.buf.tag)
    BY <1>3
  <2>1. CASE OpErased[x] # flash[x]
    BY <2>1, ErasedChanges
  <2>2. CASE OpErased[x] = flash[x]
    <3>1. baseaddr \in Int /\ OpUnit \in Nat /\ OpProgramLen \in Int /\ x \in Int
      BY <1>0, Bounds, OperationFacts DEF WriteHasPayload
    <3>2. n \in Nat /\ n + OpUnit <= OpProgramLen
      BY <1>0, <3>1, UnitsFit
    <3>3. \/ baseaddr + n <= x /\ x < baseaddr + n + OpUnit
          \/ baseaddr <= x /\ x < baseaddr + n
      BY <2>2 DEF TornProgram, Program
    <3>4. x >= baseaddr /\ x < baseaddr + OpProgramLen
      BY <3>1, <3>2, <3>3
    <3> QED
      BY <1>0, <3>4, BytesInFootprint
  <2> QED
    BY <2>1, <2>2
<1> QED
  BY <1>1, <1>2, <1>3 DEF OpCutShort

-----------------------------------------------------------------------------
(* Pages.                                                                    *)

(* A multiple leaves no remainder.                                           *)
LEMMA MultipleIs ==
  ASSUME NEW q \in Nat, NEW s \in Nat, s > 0
  PROVE  (q * s) % s = 0
<1> DEFINE r == (q * s) % s
           d == (q * s) \div s
<1>1. q * s \in Nat
  OBVIOUS
<1>2. d \in Nat /\ q * s = s * d + r /\ r \in 0 .. (s - 1)
  BY <1>1, Division
<1> HIDE DEF r, d
<1>3. CASE d = q
  <2>1. s * d = q * s
    BY <1>3
  <2> QED
    BY <1>1, <1>2, <2>1 DEF r
<1>4. CASE d < q
  <2>1. (d + 1) * s <= q * s
    BY <1>2, <1>4
  <2>2. (d + 1) * s = s * d + s
    BY <1>2
  <2> QED
    BY <1>1, <1>2, <2>1, <2>2
<1>5. CASE d > q
  <2>1. (q + 1) * s <= d * s
    BY <1>2, <1>5
  <2>2. (q + 1) * s = q * s + s /\ d * s = s * d
    BY <1>2
  <2> QED
    BY <1>1, <1>2, <2>1, <2>2
<1> QED
  BY <1>2, <1>3, <1>4, <1>5

PageStart(k) == FlashBase + k * PageSize

(* A page that is tested from its first byte is blank afterwards: it was, or *)
(* it has been erased (flash.h:69-89).                                       *)
LEMMA PageErased ==
  ASSUME NEW f, NEW steps, NEW k \in 0 .. (Pages - 1), PageStart(k) \in steps,
         NEW x \in FlashAddr, x \in PageBytes(k)
  PROVE  ErasePages(f, steps)[x] = Blank
<1>1. PageSize \in Nat /\ PageSize > 0 /\ FlashBase \in Nat /\ k \in Nat /\ x \in Int
  BY LayoutAssumption, Bounds
<1>2. PageStart(k) <= x /\ x < PageStart(k) + PageSize /\ PageStart(k) \in PageBytes(k)
  <2>1. k * PageSize \in Nat /\ (k + 1) * PageSize = k * PageSize + PageSize
    BY <1>1
  <2> QED
    BY <1>1, <2>1 DEF PageBytes, PageStart
<1>3. SamePage(PageStart(k), x)
  BY <1>2 DEF SamePage
<1>4. CASE NotErased(f, PageStart(k))
  BY <1>3, <1>4 DEF ErasePages
<1>5. CASE ~NotErased(f, PageStart(k))
  <2>1. f[x] = Blank
    BY <1>2, <1>5 DEF NotErased
  <2> QED
    BY <2>1 DEF ErasePages
<1> QED
  BY <1>4, <1>5

(* Every address of the flash lies in a page that has a number.              *)
LEMMA PageOf ==
  ASSUME NEW x \in FlashAddr
  PROVE  \E k \in 0 .. (Pages - 1) : x \in PageBytes(k)
BY InOwnPage DEF SamePage

(* A loop over the pages from the start of one to any address erases every   *)
(* byte between the two.                                                     *)
LEMMA LoopErases ==
  ASSUME NEW f, NEW m \in Nat, NEW to \in Int, NEW x \in FlashAddr,
         PageStart(m) <= x, x < to
  PROVE  ErasePages(f, PageSteps(PageStart(m), to))[x] = Blank
<1>1. PICK k \in 0 .. (Pages - 1) : x \in PageBytes(k)
  BY PageOf
<1>2. PageSize \in Nat /\ PageSize > 0 /\ FlashBase \in Nat /\ k \in Nat /\ x \in Int
  BY LayoutAssumption, Bounds
<1>3. k * PageSize \in Nat /\ m * PageSize \in Nat /\ (k + 1) * PageSize \in Nat
  BY <1>2
<1>4. PageStart(k) <= x /\ x < FlashBase + (k + 1) * PageSize
  BY <1>1, <1>2, <1>3 DEF PageBytes, PageStart
<1>5. m <= k
  <2>1. CASE k + 1 <= m
    <3>1. (k + 1) * PageSize <= m * PageSize
      BY <1>2, <2>1
    <3> QED
      BY <1>2, <1>3, <1>4, <3>1 DEF PageStart
  <2> QED
    BY <1>2, <2>1
<1>6. k - m \in Nat /\ PageStart(k) - PageStart(m) = (k - m) * PageSize
  BY <1>2, <1>3, <1>5 DEF PageStart
<1>7. ((PageStart(k) - PageStart(m)) % PageSize) = 0
  BY <1>2, <1>6, MultipleIs
<1>8. (k - m) * PageSize \in Nat
  BY <1>2, <1>6
<1>9. PageStart(k) \in PageStart(m) .. (to - 1)
  BY <1>2, <1>3, <1>4, <1>6, <1>8 DEF PageStart
<1>10. PageStart(k) \in PageSteps(PageStart(m), to)
  BY <1>7, <1>9 DEF PageSteps
<1> QED
  BY <1>1, <1>10, PageErased

(* The address of a page is that of a page with a number.                    *)
LEMMA WholePageIs ==
  ASSUME NEW a \in Nat, WholePage(a)
  PROVE  \E m \in Nat : a = PageStart(m)
<1>1. PageSize \in Nat /\ PageSize > 0 /\ FlashBase \in Nat
  BY LayoutAssumption
<1>2. a - FlashBase \in Nat /\ ((a - FlashBase) % PageSize) = 0
  BY <1>1, Bounds DEF WholePage, AppAddr
<1> DEFINE m == (a - FlashBase) \div PageSize
<1>3. m \in Nat /\ a - FlashBase = PageSize * m
  BY <1>1, <1>2, Division
<1> HIDE DEF m
<1>4. m * PageSize = PageSize * m
  BY <1>1, <1>3
<1>5. a = PageStart(m)
  BY <1>1, <1>3, <1>4 DEF PageStart
<1> QED
  BY <1>3, <1>5

-----------------------------------------------------------------------------
(* Programming.                                                              *)

(* A chunk of whole units is stored where the flash is blank                 *)
(* (flash.h:91-142).                                                         *)
LEMMA ChunkProgrammed ==
  ASSUME NEW f, NEW base \in Nat, NEW len \in Nat, NEW unit \in {2, 4}, NEW tag,
         len % unit = 0,
         \A y \in FlashAddr : base <= y /\ y < base + len => f[y] = Blank,
         NEW i \in 0 .. (len - 1), base + i \in FlashAddr
  PROVE  Program(f, base, len, unit, tag)[base + i] = Byte(tag, i)
<1> DEFINE x == base + i
<1>1. i \in Nat /\ i < len /\ x - base = i /\ base <= x /\ x < base + len
  OBVIOUS
<1>2. ASSUME NEW y \in FlashAddr, y >= base, ((y - base) \div unit) = ((x - base) \div unit)
      PROVE  f[y] = Blank
  <2>1. y \in Int /\ y - base \in Nat
    BY <1>2, Bounds
  <2>2. ASSUME NEW j \in Nat, (j \div unit) = (i \div unit)
        PROVE  j < len
    <3>1. CASE unit = 2
      BY <1>1, <2>2, <3>1
    <3>2. CASE unit = 4
      BY <1>1, <2>2, <3>2
    <3> QED
      BY <3>1, <3>2
  <2>3. y - base < len
    BY <1>1, <1>2, <2>1, <2>2
  <2> QED
    BY <1>2, <2>1, <2>3
<1>3. UnitBlank(f, base, x, unit)
  BY <1>2 DEF UnitBlank
<1>4. Program(f, base, len, unit, tag)[x] = Byte(tag, x - base)
  BY <1>1, <1>3 DEF Program
<1> QED
  BY <1>1, <1>4

-----------------------------------------------------------------------------
(* What an operation that has run to its end leaves in the flash.            *)

Promised ==
  WholeChunk /\ WholePage(baseaddr) /\ (prog.len % 2) = 0

(* A write command whose chunk starts on a page and has an even length       *)
(* stores it (dfu.cpp:275-289).                                              *)
LEMMA WriteStores ==
  ASSUME DfuInv, IsWrite, Promised, ~OpFaults, NEW i \in 0 .. (prog.len - 1)
  PROVE  OpResult[baseaddr + i] = Byte(prog.buf.tag, i)
<1>1. prog \in ProgType /\ baseaddr \in Nat /\ prog.len \in Nat
  BY BaseIsAddress, LayoutAssumption DEF DfuInv, TypeOK, ProgType
<1>2. /\ start_addr \in Nat /\ end_addr \in Nat /\ TransferSize \in Nat /\ AddrSpace \in Nat
      /\ FlashBase \in Nat /\ end_addr + TransferSize <= AddrSpace /\ FlashBase <= start_addr
      /\ TransferSize > 0
  BY Bounds, LayoutAssumption
<1>3. baseaddr >= start_addr /\ baseaddr + prog.len <= end_addr /\ (prog.len % 2) = 0
  BY DEF Promised, WholeChunk
<1>4. Wrap(baseaddr + prog.len) = baseaddr + prog.len
  <2>1. baseaddr + prog.len \in Nat /\ baseaddr + prog.len < AddrSpace
    BY <1>1, <1>2, <1>3
  <2>2. \A n, a \in Nat : n < a => n % a = n
    BY SMTT(30)
  <2> QED
    BY <1>2, <2>1, <2>2 DEF Wrap
<1>5. InRange(baseaddr, prog.len)
  BY <1>3, <1>4 DEF InRange
<1>6. OpPages = PageSteps(baseaddr, baseaddr + prog.len)
  BY <1>4, <1>5 DEF OpPages, IsErase, IsWrite
<1>7. OpUnit \in {2, 4} /\ prog.len % OpUnit = 0
  BY <1>1, <1>3 DEF OpUnit, UnitSize
<1>8. OpProgramLen = prog.len
  BY <1>1, <1>5, <1>7 DEF OpProgramLen, ProgrammedLen, OpUnit
<1>9. ASSUME NEW y \in FlashAddr, baseaddr <= y, y < baseaddr + prog.len
      PROVE  OpErased[y] = Blank
  <2>1. PICK m \in Nat : baseaddr = PageStart(m)
    BY <1>1, WholePageIs DEF Promised
  <2>2. baseaddr + prog.len \in Int
    BY <1>1
  <2> QED
    BY <1>6, <1>9, <2>1, <2>2, LoopErases DEF OpErased
<1>10. baseaddr + i \in FlashAddr
  BY <1>1, <1>2, <1>3 DEF FlashAddr
<1>11. OpResult = Program(OpErased, baseaddr, prog.len, OpUnit, prog.buf.tag)
  BY <1>8 DEF OpResult
<1> QED
  BY <1>1, <1>7, <1>9, <1>10, <1>11, ChunkProgrammed

(* An erase command for a page with a whole transfer behind it leaves it     *)
(* blank (dfu.cpp:255-260).                                                  *)
LEMMA EraseBlanks ==
  ASSUME DfuInv, IsErase, WholePage(baseaddr), baseaddr + TransferSize <= end_addr, ~OpFaults,
         NEW i \in 0 .. (PageSize - 1)
  PROVE  OpResult[baseaddr + i] = Blank
<1>1. prog \in ProgType /\ baseaddr \in Nat
  BY BaseIsAddress DEF DfuInv, TypeOK
<1>2. /\ start_addr \in Nat /\ end_addr \in Nat /\ TransferSize \in Nat /\ AddrSpace \in Nat
      /\ FlashBase \in Nat /\ end_addr + TransferSize <= AddrSpace /\ FlashBase <= start_addr
      /\ PageSize \in Nat /\ PageSize > 0 /\ PageSize <= TransferSize
  BY Bounds, LayoutAssumption
<1>3. baseaddr >= start_addr
  BY <1>1, <1>2 DEF WholePage, AppAddr
<1>4. Wrap(baseaddr + TransferSize) = baseaddr + TransferSize
  <2>1. baseaddr + TransferSize \in Nat /\ baseaddr + TransferSize < AddrSpace
    BY <1>1, <1>2
  <2>2. \A n, a \in Nat : n < a => n % a = n
    BY SMTT(30)
  <2> QED
    BY <1>2, <2>1, <2>2 DEF Wrap
<1>5. InRange(baseaddr, TransferSize)
  BY <1>3, <1>4 DEF InRange
<1>6. OpPages = {baseaddr} /\ OpProgramLen = 0
  BY <1>5 DEF OpPages, OpProgramLen, IsErase, IsWrite
<1> DEFINE x == baseaddr + i
<1>7. x \in FlashAddr /\ x \in Int
  BY <1>1, <1>2, <1>3 DEF FlashAddr
<1>8. OpErased[x] = Blank
  <2>1. PICK m \in Nat : baseaddr = PageStart(m)
    BY <1>1, WholePageIs
  <2>2. PICK k \in 0 .. (Pages - 1) : x \in PageBytes(k)
    BY <1>7, PageOf
  <2>3. k = m
    <3>1. k \in Nat /\ (k + 1) * PageSize = k * PageSize + PageSize /\ k * PageSize \in Nat
          /\ m * PageSize \in Nat
      BY <1>2, <2>1, <2>2
    <3>2. FlashBase + k * PageSize <= x /\ x < FlashBase + k * PageSize + PageSize
      BY <1>2, <2>2, <3>1 DEF PageBytes
    <3>3. FlashBase + m * PageSize <= x /\ x < FlashBase + m * PageSize + PageSize
      BY <1>1, <1>2, <2>1, <3>1 DEF PageStart
    <3>4. CASE k < m
      <4>1. (k + 1) * PageSize <= m * PageSize
        BY <1>2, <2>1, <3>1, <3>4
      <4> QED
        BY <1>2, <1>7, <3>1, <3>2, <3>3, <4>1
    <3>5. CASE m < k
      <4>1. (m + 1) * PageSize <= k * PageSize /\ (m + 1) * PageSize = m * PageSize + PageSize
        BY <1>2, <2>1, <3>1, <3>5
      <4> QED
        BY <1>2, <1>7, <3>1, <3>2, <3>3, <4>1
    <3> QED
      BY <2>1, <3>1, <3>4, <3>5
  <2>4. PageStart(k) \in OpPages
    BY <1>6, <2>1, <2>3
  <2> QED
    BY <1>7, <2>2, <2>4, PageErased DEF OpErased
<1>9. OpResult = Program(OpErased, baseaddr, 0, OpUnit, prog.buf.tag)
  BY <1>6 DEF OpResult
<1>10. OpResult[x] = OpErased[x]
  <2>1. ~(baseaddr <= x /\ x < baseaddr + 0)
    BY <1>1, <1>7
  <2> QED
    BY <1>7, <1>9, <2>1 DEF Program
<1> QED
  BY <1>8, <1>10

-----------------------------------------------------------------------------
(* The inductive invariant: what the properties say of the moment when the   *)
(* host has been told dfuDNLOAD-IDLE holds in that state, told or not.       *)

Stored == IsWrite /\ Promised => ChunkStored(prog.len)
Cleared == IsErase /\ WholePage(baseaddr) /\ baseaddr + TransferSize <= end_addr => PageBlank

Confirmed ==
  /\ usbdfu_state = "DNLOAD_IDLE" => Stored /\ Cleared
  /\ ToldIdle => usbdfu_state = "DNLOAD_IDLE"

(* A step that leaves the record and the flash alone keeps it, if it does    *)
(* not reach dfuDNLOAD-IDLE.                                                 *)
LEMMA ConfirmedStays ==
  ASSUME Confirmed, UNCHANGED <<prog, flash>>,
         usbdfu_state' = "DNLOAD_IDLE" => usbdfu_state = "DNLOAD_IDLE",
         ToldIdle' => usbdfu_state' = "DNLOAD_IDLE"
  PROVE  Confirmed'
<1>1. prog' = prog /\ flash' = flash
  OBVIOUS
<1>2. Stored' <=> Stored
  BY <1>1, Zenon DEF Stored, Promised, ChunkStored, WholeChunk, WholePage, IsWrite, baseaddr,
     BlockAddr
<1>3. Cleared' <=> Cleared
  BY <1>1, Zenon DEF Cleared, PageBlank, WholePage, IsErase, baseaddr, BlockAddr
<1> QED
  BY <1>2, <1>3, Zenon DEF Confirmed

(* The status stage that runs the operation reaches it (dfu.cpp:231-295).    *)
LEMMA RunConfirms ==
  ASSUME DfuInv, Confirmed, StatusStage, RunOperation
  PROVE  Confirmed'
<1>1. ~ToldIdle'
  <2>1. reply' = reply /\ usbdfu_state = "DNBUSY"
    BY DEF StatusStage, RunOperation
  <2> QED
    BY <2>1 DEF Confirmed, ToldIdle
<1>2. CASE OpFaults
  BY <1>1, <1>2 DEF RunOperation, Confirmed
<1>3. CASE ~OpFaults
  <2>1. flash' = OpResult
    BY DEF RunOperation
  <2>2. CASE IsWrite \/ IsErase
    <3>1. prog' = prog
      BY <2>2 DEF RunOperation, IsSetAddr, IsWrite, IsErase, CMD_SETADDR, CMD_ERASE
    <3>2. baseaddr' = baseaddr
      BY <3>1, Zenon DEF baseaddr, BlockAddr
    <3>3. Stored'
      <4>1. SUFFICES ASSUME (IsWrite /\ Promised)' PROVE ChunkStored(prog.len)'
        BY DEF Stored
      <4>2. IsWrite /\ Promised
        BY <3>1, <3>2, <4>1, Zenon DEF IsWrite, Promised, WholeChunk, WholePage
      <4> QED
        BY <1>3, <2>1, <3>1, <3>2, <4>2, WriteStores DEF ChunkStored
    <3>4. Cleared'
      <4>1. SUFFICES ASSUME (/\ IsErase /\ WholePage(baseaddr)
                             /\ baseaddr + TransferSize <= end_addr)'
                     PROVE  PageBlank'
        BY DEF Cleared
      <4>2. IsErase /\ WholePage(baseaddr) /\ baseaddr + TransferSize <= end_addr
        BY <3>1, <3>2, <4>1, Zenon DEF IsErase, WholePage
      <4> QED
        BY <1>3, <2>1, <3>2, <4>2, EraseBlanks DEF PageBlank
    <3> QED
      BY <1>1, <3>3, <3>4 DEF Confirmed
  <2>3. CASE ~(IsWrite \/ IsErase)
    <3>1. prog'.blocknum = prog.blocknum /\ prog'.buf = prog.buf
      BY DEF RunOperation, DfuInv, TypeOK, ProgType
    <3>2. ~IsWrite' /\ ~IsErase'
      BY <2>3, <3>1, Zenon DEF IsWrite, IsErase
    <3> QED
      BY <1>1, <3>2 DEF Confirmed, Stored, Cleared
  <2> QED
    BY <2>2, <2>3
<1> QED
  BY <1>2, <1>3

(* Every step keeps it.                                                      *)
LEMMA NextConfirmed == DfuInv /\ Confirmed /\ [Next]_vars => Confirmed'
<1> SUFFICES ASSUME DfuInv, Confirmed, [Next]_vars PROVE Confirmed'
  OBVIOUS
<1>1. CASE Dnload
  BY <1>1 DEF Dnload, DnloadOf, Setup, Confirmed, ToldIdle
<1>2. CASE DnloadZero \/ ClrStatus \/ Abort \/ Detach \/ UploadCommands
           \/ UploadRefused \/ UploadBlock \/ OtherSetup
  <2>1. /\ UNCHANGED <<prog, flash>> /\ reply' = NoReply
        /\ usbdfu_state' = "DNLOAD_IDLE" => usbdfu_state = "DNLOAD_IDLE"
    BY <1>2 DEF DnloadZero, ClrStatus, Abort, Detach, UploadCommands, UploadRefused,
       UploadBlock, OtherSetup, Setup
  <2>2. ~ToldIdle'
    BY <2>1 DEF ToldIdle
  <2> QED
    BY <2>1, <2>2, ConfirmedStays
<1>3. CASE GetStatus
  <2>1. /\ UNCHANGED <<prog, flash>> /\ usbdfu_state' = StatusState
        /\ reply'.state = usbdfu_state'
    BY <1>3 DEF GetStatus
  <2>2. usbdfu_state' = "DNLOAD_IDLE" => usbdfu_state = "DNLOAD_IDLE"
    BY <2>1 DEF StatusState
  <2>3. ToldIdle' => usbdfu_state' = "DNLOAD_IDLE"
    BY <2>1 DEF ToldIdle
  <2> QED
    BY <2>1, <2>2, <2>3, ConfirmedStays
<1>4. CASE GetState
  <2>1. UNCHANGED <<prog, flash, usbdfu_state>> /\ reply'.state = usbdfu_state
    BY <1>4 DEF GetState
  <2>2. ToldIdle' => usbdfu_state' = "DNLOAD_IDLE"
    BY <2>1 DEF ToldIdle
  <2> QED
    BY <2>1, <2>2, ConfirmedStays
<1>5. CASE StatusStage
  <2>1. CASE RunOperation
    BY <1>5, <2>1, RunConfirms
  <2>2. CASE NothingToRun
    <3>1. UNCHANGED <<prog, flash, usbdfu_state, reply>>
      BY <1>5, <2>2 DEF StatusStage, NothingToRun
    <3>2. ToldIdle' => usbdfu_state' = "DNLOAD_IDLE"
      BY <3>1 DEF ToldIdle, Confirmed
    <3> QED
      BY <3>1, <3>2, ConfirmedStays
  <2> QED
    BY <1>5, <2>1, <2>2 DEF StatusStage
<1>6. CASE MainLoop \/ UNCHANGED vars
  <2>1. UNCHANGED <<prog, flash, usbdfu_state, reply>>
    BY <1>6 DEF MainLoop, vars
  <2>2. ToldIdle' => usbdfu_state' = "DNLOAD_IDLE"
    BY <2>1 DEF ToldIdle, Confirmed
  <2> QED
    BY <2>1, <2>2, ConfirmedStays
<1>7. CASE PowerLoss \/ Restart
  BY <1>7 DEF PowerLoss, Restart, StartUp, Confirmed, ToldIdle
<1> QED
  BY <1>1, <1>2, <1>3, <1>4, <1>5, <1>6, <1>7 DEF Next, Request

(* What is confirmed stays in the flash until the next request that could    *)
(* change it (dfu.cpp:231-295).                                              *)
THEOREM ConfirmedInvariance == Spec => []Confirmed
<1>1. Init => Confirmed
  BY DEF Init, Confirmed, ToldIdle
<1>2. DfuInv /\ Confirmed /\ [Next]_vars => Confirmed'
  BY NextConfirmed
<1> QED
  BY <1>1, <1>2, Invariance, PTL DEF Spec

(* When the host has been told dfuDNLOAD-IDLE, the block it downloaded last  *)
(* is in the flash, whole (dfu.cpp:275-294).                                 *)
THEOREM BlockIsStored == Spec => []ConfirmedBlockIsStored
<1>1. Confirmed => ConfirmedBlockIsStored
  BY DEF Confirmed, Stored, Promised, ConfirmedBlockIsStored
<1> QED
  BY <1>1, ConfirmedInvariance, PTL

(* When the host has been told dfuDNLOAD-IDLE after an erase command, the    *)
(* page is blank (dfu.cpp:255-260).                                          *)
THEOREM EraseIsDone == Spec => []ConfirmedEraseIsBlank
<1>1. Confirmed => ConfirmedEraseIsBlank
  BY DEF Confirmed, Cleared, ConfirmedEraseIsBlank
<1> QED
  BY <1>1, ConfirmedInvariance, PTL

-----------------------------------------------------------------------------
(* Old and new bytes.                                                        *)

NewByte == Tags \X (0 .. (TransferSize - 1))
NoOld(f) == \A x \in AppAddr : f[x] # Old
NoNew(f) == \A x \in AppAddr : f[x] \notin NewByte

(* Once the wipe of check_do_erase has run no old byte is left; before, no   *)
(* write has run, but an earlier session may have left new bytes behind.     *)
Separated == SafeWrite => (NoOld(flash) \/ NoNew(flash)) /\ (erased => NoOld(flash))

(* The application area is part of the flash, and apart from the bootloader. *)
LEMMA AppBounds ==
  /\ start_addr \in Int /\ end_addr \in Int
  /\ \A x \in AppAddr : /\ x \in FlashAddr /\ x \notin BootAddr /\ x \in Int
                        /\ start_addr <= x /\ x < end_addr
BY Bounds, LayoutAssumption DEF AppAddr, BootAddr, FlashAddr

(* The wipe covers the application area (flash.h:182-186).                   *)
LEMMA WipeCovers ==
  ASSUME DfuInv, Separated, SafeWrite, IsErase \/ IsWrite
  PROVE  NoOld(Wiped)
<1>1. CASE erased
  <2>1. WipePages = {}
    BY <1>1 DEF WipePages
  <2>2. \A x \in FlashAddr : Wiped[x] = flash[x]
    BY <2>1 DEF Wiped, ErasePages
  <2> QED
    BY <1>1, <2>2, AppBounds DEF Separated, NoOld
<1>2. CASE ~erased
  <2>1. WipePages = PageSteps(start_addr, end_addr)
    BY <1>2 DEF WipePages
  <2>2. start_addr = PageStart(BootPages) /\ BootPages \in Nat
    BY LayoutAssumption DEF start_addr, PageStart
  <2>3. ASSUME NEW x \in AppAddr PROVE Wiped[x] = Blank
    <3>1. x \in FlashAddr /\ start_addr <= x /\ x < end_addr /\ end_addr \in Int
      BY AppBounds
    <3> QED
      BY <2>1, <2>2, <3>1, LoopErases DEF Wiped
  <2> QED
    BY <2>3, CellAssumption DEF NoOld
<1> QED
  BY <1>1, <1>2

(* An erase, whole or cut short, brings no old byte back (flash.h:69-89).    *)
LEMMA NoOldStays ==
  ASSUME NEW f, NoOld(f), NEW steps, NEW cut
  PROVE  NoOld(ErasePages(f, steps)) /\ NoOld(TornErase(f, steps, cut))
<1>1. \A x \in AppAddr : x \in FlashAddr
  BY AppBounds
<1>2. ASSUME NEW s PROVE NoOld(ErasePages(f, s))
  BY <1>1, CellAssumption DEF NoOld, ErasePages
<1>3. NoOld(TornErase(f, steps, cut))
  BY <1>1, <1>2, CellAssumption DEF NoOld, TornErase
<1> QED
  BY <1>2, <1>3

(* Nor does a write, whole or cut short (flash.h:91-142).                    *)
LEMMA NoOldProgrammed ==
  ASSUME NEW f, NoOld(f), NEW base \in Int, NEW n \in Int, n <= TransferSize,
         NEW unit, NEW tag, n > 0 => tag \in Tags
  PROVE  NoOld(Program(f, base, n, unit, tag)) /\ NoOld(TornProgram(f, base, n, unit, tag))
<1>1. \A x \in AppAddr : x \in FlashAddr /\ x \in Int
  BY AppBounds
<1>2. ASSUME NEW x \in AppAddr, base <= x, x < base + n
      PROVE  Byte(tag, x - base) # Old
  <2>1. n > 0 /\ x - base \in 0 .. (TransferSize - 1)
    BY <1>1, <1>2, LayoutAssumption
  <2>2. Byte(tag, x - base) \in NewByte
    BY <2>1 DEF Byte, NewByte
  <2> QED
    BY <2>2, CellAssumption DEF NewByte
<1>3. NoOld(Program(f, base, n, unit, tag))
  BY <1>1, <1>2 DEF NoOld, Program
<1>4. NoOld(TornProgram(f, base, n, unit, tag))
  BY <1>1, <1>3, CellAssumption DEF NoOld, TornProgram
<1> QED
  BY <1>3, <1>4

(* A wipe that is cut short brings no new byte (flash.h:184-186).            *)
LEMMA EraseAddsNoNew ==
  ASSUME NEW f, NoNew(f), NEW steps, NEW cut
  PROVE  NoNew(TornErase(f, steps, cut))
<1>1. \A x \in AppAddr : x \in FlashAddr
  BY AppBounds
<1>2. ASSUME NEW s PROVE NoNew(ErasePages(f, s))
  BY <1>1, CellAssumption DEF NoNew, NewByte, ErasePages
<1> QED
  BY <1>1, <1>2, CellAssumption DEF NoNew, NewByte, TornErase

(* A whole erase or write command leaves no old byte (dfu.cpp:249-294).      *)
LEMMA OperationSeparates ==
  ASSUME DfuInv, Separated, SafeWrite, IsErase \/ IsWrite
  PROVE  NoOld(OpErased) /\ NoOld(OpResult)
<1>1. prog \in ProgType /\ flash \in Image /\ (IsWrite => prog.buf.tag \in Tags)
  BY DEF DfuInv, TypeOK, WriteHasPayload, Image
<1>2. NoOld(OpErased)
  BY WipeCovers, NoOldStays DEF OpErased
<1>3. NoOld(Program(OpErased, baseaddr, OpProgramLen, OpUnit, prog.buf.tag))
  BY <1>1, <1>2, OperationFacts, NoOldProgrammed
<1> QED
  BY <1>2, <1>3 DEF OpResult

(* Any other command leaves the flash as it is (dfu.cpp:263-266).            *)
LEMMA OtherKeeps ==
  ASSUME DfuInv, ~IsErase, ~IsWrite
  PROVE  /\ \A x \in FlashAddr : OpResult[x] = flash[x]
         /\ WipePages = {} /\ OpCutShort = {}
<1>1. WipePages = {} /\ OpPages = {} /\ OpProgramLen = 0
  BY DEF WipePages, OpPages, OpProgramLen
<1>2. \A x \in FlashAddr : OpErased[x] = flash[x]
  BY <1>1 DEF OpErased, Wiped, ErasePages
<1>3. ASSUME NEW x \in FlashAddr
      PROVE  Program(OpErased, baseaddr, OpProgramLen, OpUnit, prog.buf.tag)[x] = OpErased[x]
  <2>1. baseaddr \in Int /\ x \in Int
    BY Bounds, BaseIsAddress, LayoutAssumption DEF DfuInv, TypeOK
  <2>2. ~(baseaddr <= x /\ x < baseaddr + OpProgramLen)
    BY <1>1, <2>1
  <2> QED
    BY <2>2 DEF Program
<1>4. 0 .. (OpProgramLen - 1) = {}
  BY <1>1
<1>5. OpCutShort = {}
  BY <1>1, <1>4, Zenon DEF OpCutShort
<1> QED
  BY <1>1, <1>2, <1>3, <1>5 DEF OpResult

(* A power failure in the middle of a command leaves no old byte, or no new  *)
(* one (flash.h:69-189).                                                     *)
LEMMA CutShortSeparates ==
  ASSUME DfuInv, Separated, SafeWrite, NEW f \in OpCutShort
  PROVE  NoOld(f) \/ NoNew(f)
<1>0. prog \in ProgType /\ flash \in Image /\ (IsWrite => prog.buf.tag \in Tags)
  BY DEF DfuInv, TypeOK, WriteHasPayload, Image
<1>1. IsErase \/ IsWrite
  BY OtherKeeps
<1>2. CASE \E cut \in WipePages : f = TornErase(flash, WipePages, cut)
  BY <1>2, NoOldStays, EraseAddsNoNew DEF Separated
<1>3. CASE \E cut \in OpPages : f = TornErase(Wiped, OpPages, cut)
  BY <1>1, <1>3, WipeCovers, NoOldStays
<1>4. CASE \E n \in {m \in 0 .. (OpProgramLen - 1) : (m % OpUnit) = 0} :
             f = TornProgram(OpErased, baseaddr, n, OpUnit, prog.buf.tag)
  <2> PICK n \in {m \in 0 .. (OpProgramLen - 1) : (m % OpUnit) = 0} :
             f = TornProgram(OpErased, baseaddr, n, OpUnit, prog.buf.tag)
    BY <1>4
  <2>1. /\ OpProgramLen \in Int /\ OpProgramLen <= TransferSize /\ baseaddr \in Int
        /\ TransferSize \in Nat
    BY <1>0, OperationFacts, LayoutAssumption
  <2>2. n \in Int /\ n <= TransferSize /\ OpProgramLen > 0
    BY <2>1
  <2>3. prog.buf.tag \in Tags
    BY <1>0, <2>2, OperationFacts
  <2> QED
    BY <1>1, <2>1, <2>2, <2>3, OperationSeparates, NoOldProgrammed
<1> QED
  BY <1>2, <1>3, <1>4 DEF OpCutShort

(* Every step keeps old and new apart.                                       *)
LEMMA NextSeparated == DfuInv /\ Separated /\ [Next]_vars => Separated'
<1> SUFFICES ASSUME DfuInv, Separated, [Next]_vars, SafeWrite
             PROVE  (NoOld(flash') \/ NoNew(flash')) /\ (erased' => NoOld(flash'))
  BY DEF Separated, NoOld, NoNew
<1>1. CASE StatusStage
  <2>1. CASE RunOperation
    <3>1. flash' = OpResult /\ erased' = (erased \/ WipePages # {})
      BY <2>1 DEF RunOperation
    <3>2. CASE IsErase \/ IsWrite
      BY <3>1, <3>2, OperationSeparates
    <3>3. CASE ~(IsErase \/ IsWrite)
      <4>1. (\A x \in FlashAddr : OpResult[x] = flash[x]) /\ erased' = erased
        BY <3>1, <3>3, OtherKeeps DEF DfuInv, TypeOK
      <4>2. \A x \in AppAddr : OpResult[x] = flash[x]
        BY <4>1, AppBounds
      <4> QED
        BY <3>1, <4>1, <4>2 DEF Separated, NoOld, NoNew
    <3> QED
      BY <3>2, <3>3
  <2>2. CASE NothingToRun
    BY <2>2 DEF NothingToRun, Separated
  <2> QED
    BY <1>1, <2>1, <2>2 DEF StatusStage
<1>2. CASE PowerLoss
  BY <1>2, CutShortSeparates DEF PowerLoss, StartUp, Separated
<1>3. CASE Restart
  BY <1>3 DEF Restart, StartUp, Separated
<1>4. CASE Request \/ MainLoop \/ UNCHANGED vars
  <2>1. flash' = flash /\ erased' = erased
    BY <1>4 DEF Request, Dnload, DnloadOf, DnloadZero, ClrStatus, Abort, Detach,
       UploadCommands, UploadRefused, UploadBlock, GetStatus, GetState, OtherSetup,
       MainLoop, vars
  <2> QED
    BY <2>1 DEF Separated
<1> QED
  BY <1>1, <1>2, <1>3, <1>4 DEF Next

(* A SAFEWRITE build never holds a byte of the application that was there    *)
(* and a downloaded byte at once, whatever the host does and however often   *)
(* the power fails (flash.h:172-188).                                        *)
THEOREM NoMixture == Spec => []OldNeverWithNew
<1>1. Init => Separated
  <2> SUFFICES ASSUME Init PROVE Separated
    OBVIOUS
  <2>1. \A x \in AppAddr : x \in FlashAddr /\ x \notin BootAddr
    BY AppBounds
  <2>2. \A x \in AppAddr : flash[x] = Old
    BY <2>1 DEF Init
  <2> QED
    BY <2>2, CellAssumption DEF Init, Separated, NoNew, NewByte
<1>2. DfuInv /\ Separated /\ [Next]_vars => Separated'
  BY NextSeparated
<1>3. Separated => OldNeverWithNew
  BY DEF Separated, NoOld, NoNew, NewByte, OldNeverWithNew
<1> QED
  BY <1>1, <1>2, <1>3, Invariance, PTL DEF Spec
=============================================================================
