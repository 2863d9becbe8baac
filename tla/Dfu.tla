-------------------------------- MODULE Dfu --------------------------------
(***************************************************************************)
(* The DFU application layer of stage 2 (src_stage2/dfu.cpp) with the      *)
(* flash behind it.  The host is unconstrained: it may send any class      *)
(* request of the Host* constants at any time, abandon a control transfer  *)
(* by starting another, or cut the power.                                  *)
(*                                                                         *)
(* One step of the device is one do_usb_poll: it handles one SETUP, one    *)
(* complete data stage or one status stage, and the main loop then looks   *)
(* at usbdfu_state.  An erase or a write is not carried out by DFU_DNLOAD  *)
(* but by the callback that DFU_GETSTATUS registers, when the status stage *)
(* of that GETSTATUS has completed.                                        *)
(*                                                                         *)
(* An operator named <definition>_<change> is a broken variant of the      *)
(* definition after it, used only to show that a property notices it.      *)
(***************************************************************************)
EXTENDS Flash

CONSTANTS
  SafeWrite,      \* ENABLE_SAFEWRITE
  UploadEnabled,  \* ENABLE_DFU_UPLOAD
  Downloads,      \* DFU_DNLOAD requests with data: [blocknum, len, cmd, addr, tag]
  Uploads,        \* wValue of the DFU_UPLOAD requests
  PayloadAddr,    \* values that bytes 1..4 of a payload can spell
  NoTag,          \* the zeroed buffer at start-up
  NoReply         \* the host was told no state since the last SETUP

VARIABLES
  usbdfu_state,     \* enum dfu_state
  prog,             \* the deferred operation, "prog" in dfu.cpp
  flash,            \* the flash image
  erased,           \* "erased" of check_do_erase
  usb_complete_cb,  \* the status-stage callback is registered
  reply,            \* status and state bytes prepared for the host
  loc               \* where the program is: see Locations

vars == <<usbdfu_state, prog, flash, erased, usb_complete_cb, reply, loc>>

CMD_SETADDR == "SETADDR"
CMD_ERASE == "ERASE"
Commands == {CMD_SETADDR, CMD_ERASE, "other"}

(* Bytes of a command payload: the command byte and a 32-bit address.        *)
CmdLen == 5

DfuStates ==
  {"IDLE", "DNLOAD_SYNC", "DNBUSY", "DNLOAD_IDLE", "MANIFEST_SYNC", "MANIFEST",
   "UPLOAD_IDLE", "ERROR"}

(* "poll": about to call do_usb_poll; "check": the main loop is about to     *)
(* test usbdfu_state; "reset": it has asked for a system reset; "fault": the *)
(* processor has taken a bus fault and does not go on.                       *)
Locations == {"poll", "check", "reset", "fault"}

ASSUME HostAssumption ==
  /\ PayloadAddr \subseteq 0 .. (AddrSpace - 1) /\ 0 \in PayloadAddr
  /\ Downloads \subseteq [blocknum : Nat, len : Nat \ {0}, cmd : Commands,
                          addr : PayloadAddr, tag : Tags]
  /\ Uploads \subseteq Nat
  /\ NoTag \notin Tags
  /\ SafeWrite \in BOOLEAN /\ UploadEnabled \in BOOLEAN

-----------------------------------------------------------------------------
(* The deferred operation. *)

BufType == [cmd : Commands, addr : PayloadAddr, tag : Tags \cup {NoTag}]

ProgType == [blocknum : Nat, len : 0 .. TransferSize, addr : PayloadAddr, buf : BufType]

ZeroProg == [blocknum |-> 0, len |-> 0, addr |-> 0,
             buf |-> [cmd |-> "other", addr |-> 0, tag |-> NoTag]]

(* A payload longer than the buffer is cut.  (A request that claims to be a   *)
(* read but carries DFU_DNLOAD gets here without _usb_control_setup_write's   *)
(* test of wLength.)                                                          *)
BufferedLen_NoClamp(len) == len
BufferedLen(len) == IF len > TransferSize THEN TransferSize ELSE len

(* What bytes 1..4 of prog.buf spell after the first d.len bytes of it have  *)
(* been overwritten: a shorter payload leaves older bytes behind.            *)
AddrAfter(d) ==
  CASE d.len >= CmdLen -> {d.addr}
    [] d.len = 1       -> {prog.buf.addr}
    [] OTHER           -> PayloadAddr

(* Address_Pointer + ((wBlockNum - 2) * wTransferSize) *)
BlockAddr_FromOne(pointer, blocknum) == Wrap(pointer + (blocknum - 1) * TransferSize)
BlockAddr(pointer, blocknum) == Wrap(pointer + (blocknum - 2) * TransferSize)

baseaddr == IF prog.blocknum = 0 THEN prog.buf.addr
            ELSE BlockAddr(prog.addr, prog.blocknum)

IsSetAddr == prog.blocknum = 0 /\ prog.buf.cmd = CMD_SETADDR
IsErase == prog.blocknum = 0 /\ prog.buf.cmd = CMD_ERASE
IsWrite == prog.blocknum # 0

(* What an operation does, by block number and command byte. *)
OpKinds == {"write", "erase", "setaddr", "other"}
OpKind(blocknum, cmd) ==
  CASE blocknum # 0                      -> "write"
    [] blocknum = 0 /\ cmd = CMD_ERASE   -> "erase"
    [] blocknum = 0 /\ cmd = CMD_SETADDR -> "setaddr"
    [] OTHER                             -> "other"

(* The pages an operation names, and on the first one the SAFEWRITE wipe. *)
OpFootprint(op, wiped) ==
  {x \in AppAddr :
     \/ SafeWrite /\ ~wiped /\ op.kind \in {"write", "erase"}
     \/ op.kind = "erase" /\ SamePage(op.base, x)
     \/ op.kind = "write" /\ \E k \in 0 .. (op.len - 1) : SamePage(op.base + k, x)}

(* check_do_erase: before its first erase or write command a SAFEWRITE build *)
(* erases every application page.                                            *)
WipePages_EraseOnly == IF SafeWrite /\ ~erased /\ IsErase
                       THEN PageSteps(start_addr, end_addr) ELSE {}
WipePages == IF SafeWrite /\ ~erased /\ (IsErase \/ IsWrite)
             THEN PageSteps(start_addr, end_addr) ELSE {}

Wiped == ErasePages(flash, WipePages)

(* The pages the operation itself erases, tested one after the other. *)
OpPages_EraseAtPointer ==
  CASE IsErase /\ InRange(prog.addr, TransferSize) -> {prog.addr}
    [] IsWrite /\ InRange(baseaddr, prog.len) ->
         PageSteps(baseaddr, Wrap(baseaddr + prog.len))
    [] OTHER -> {}

OpPages_FirstPageOnly ==
  CASE IsErase /\ InRange(baseaddr, TransferSize) -> {baseaddr}
    [] IsWrite /\ InRange(baseaddr, prog.len) -> {baseaddr}
    [] OTHER -> {}

OpPages ==
  CASE IsErase /\ InRange(baseaddr, TransferSize) -> {baseaddr}
    [] IsWrite /\ InRange(baseaddr, prog.len) ->
         PageSteps(baseaddr, Wrap(baseaddr + prog.len))
    [] OTHER -> {}

(* The number of bytes it then programs. *)
OpProgramLen ==
  IF IsWrite /\ InRange(baseaddr, prog.len)
  THEN ProgrammedLen(baseaddr, prog.len) ELSE 0

OpUnit == UnitSize(baseaddr, prog.len)

(* It touches an address where there is no flash. *)
OpFaults ==
  \/ \E a \in OpPages : RunsOff(Wiped, a)
  \/ OpProgramLen > 0 /\ baseaddr + OpProgramLen > end_addr

OpErased == ErasePages(Wiped, OpPages)

(* The flash when the operation has run to its end, or to its bus fault. *)
OpResult ==
  IF OpFaults THEN OpErased
  ELSE Program(OpErased, baseaddr, OpProgramLen, OpUnit, prog.buf.tag)

(* The flash when a power failure cuts the operation short. *)
OpCutShort ==
     {TornErase(flash, WipePages, cut) : cut \in WipePages}
  \cup {TornErase(Wiped, OpPages, cut) : cut \in OpPages}
  \cup {TornProgram(OpErased, baseaddr, n, OpUnit, prog.buf.tag) :
          n \in {m \in 0 .. (OpProgramLen - 1) : (m % OpUnit) = 0}}

-----------------------------------------------------------------------------
(* usbdfu_getstatus *)

StatusState_RunsAgain ==
  CASE usbdfu_state \in {"DNLOAD_SYNC", "DNLOAD_IDLE"} -> "DNBUSY"
    [] usbdfu_state = "MANIFEST_SYNC" -> "MANIFEST"
    [] OTHER                          -> usbdfu_state

StatusState ==
  CASE usbdfu_state = "DNLOAD_SYNC"   -> "DNBUSY"
    [] usbdfu_state = "MANIFEST_SYNC" -> "MANIFEST"
    [] OTHER                          -> usbdfu_state

StatusCode == IF usbdfu_state = "ERROR" THEN "ERR_UNKNOWN" ELSE "OK"

ReplyType == [status : {"OK", "ERR_UNKNOWN"}, state : DfuStates]

-----------------------------------------------------------------------------
Init ==
  /\ usbdfu_state = "IDLE"
  /\ prog = ZeroProg
  /\ flash = [x \in FlashAddr |-> IF x \in BootAddr THEN BootByte ELSE Old]
  /\ erased = FALSE
  /\ usb_complete_cb = FALSE
  /\ reply = NoReply
  /\ loc = "poll"

(* A SETUP packet is handled: whatever callback an earlier transfer left     *)
(* registered is forgotten.                                                  *)
Setup == /\ loc = "poll" /\ loc' = "check"
         /\ usb_complete_cb' = FALSE
         /\ reply' = NoReply

(* DFU_DNLOAD with a data stage: the payload is copied, nothing else. *)
DnloadOf(d) ==
  /\ Setup
  /\ \E a \in AddrAfter(d) :
       prog' = [prog EXCEPT !.blocknum = d.blocknum,
                            !.len = BufferedLen(d.len),
                            !.buf = [cmd |-> d.cmd, addr |-> a, tag |-> d.tag]]
  /\ usbdfu_state' = "DNLOAD_SYNC"
  /\ UNCHANGED <<flash, erased>>

Dnload == \E d \in Downloads : DnloadOf(d)

(* DFU_DNLOAD without data: leave DFU. *)
DnloadZero ==
  /\ Setup
  /\ usbdfu_state' = "MANIFEST_SYNC"
  /\ UNCHANGED <<prog, flash, erased>>

ClrStatus ==
  /\ Setup
  /\ usbdfu_state' = IF usbdfu_state = "ERROR" THEN "IDLE" ELSE usbdfu_state
  /\ UNCHANGED <<prog, flash, erased>>

Abort_KeepsOperation ==
  /\ Setup
  /\ usbdfu_state' = IF usbdfu_state = "DNLOAD_SYNC" THEN usbdfu_state ELSE "IDLE"
  /\ UNCHANGED <<prog, flash, erased>>

Abort ==
  /\ Setup
  /\ usbdfu_state' = "IDLE"
  /\ UNCHANGED <<prog, flash, erased>>

Detach ==
  /\ Setup
  /\ usbdfu_state' = "MANIFEST"
  /\ UNCHANGED <<prog, flash, erased>>

(* DFU_UPLOAD of block 0 lists the commands; of another block it reads the   *)
(* flash, in the builds that allow it.                                       *)
UploadCommands ==
  /\ Setup /\ 0 \in Uploads
  /\ usbdfu_state' = "UPLOAD_IDLE"
  /\ UNCHANGED <<prog, flash, erased>>

UploadRefused ==
  /\ Setup
  /\ \E w \in Uploads \ {0} :
       UploadEnabled => ~InRange(BlockAddr(prog.addr, w), TransferSize)
  /\ usbdfu_state' = "ERROR"
  /\ UNCHANGED <<prog, flash, erased>>

UploadBlock ==
  /\ UploadEnabled /\ loc = "poll"
  /\ \E w \in Uploads \ {0} :
       LET from == BlockAddr(prog.addr, w) IN
       /\ InRange(from, TransferSize)
       /\ loc' = IF from + TransferSize > end_addr THEN "fault" ELSE "check"
  /\ usb_complete_cb' = FALSE /\ reply' = NoReply
  /\ usbdfu_state' = "UPLOAD_IDLE"
  /\ UNCHANGED <<prog, flash, erased>>

(* DFU_GETSTATUS: advance the state, then report it. *)
GetStatus ==
  /\ loc = "poll" /\ loc' = "check"
  /\ usbdfu_state' = StatusState
  /\ reply' = [status |-> StatusCode, state |-> usbdfu_state']
  /\ usb_complete_cb' = TRUE
  /\ UNCHANGED <<prog, flash, erased>>

GetState ==
  /\ loc = "poll" /\ loc' = "check"
  /\ reply' = [status |-> "OK", state |-> usbdfu_state]
  /\ usb_complete_cb' = FALSE
  /\ UNCHANGED <<usbdfu_state, prog, flash, erased>>

(* Any other request, or a DFU_DNLOAD whose data stage never completes. *)
OtherSetup ==
  /\ Setup
  /\ UNCHANGED <<usbdfu_state, prog, flash, erased>>

(* usbdfu_getstatus_complete in dfuDNBUSY. *)
RunOperation ==
  /\ usbdfu_state = "DNBUSY"
  /\ flash' = OpResult
  /\ erased' = (erased \/ WipePages # {})
  /\ prog' = IF IsSetAddr THEN [prog EXCEPT !.addr = prog.buf.addr] ELSE prog
  /\ IF OpFaults
     THEN loc' = "fault" /\ UNCHANGED usbdfu_state
     ELSE loc' = "check" /\ usbdfu_state' = "DNLOAD_IDLE"

NothingToRun ==
  /\ usbdfu_state # "DNBUSY"
  /\ loc' = "check"
  /\ UNCHANGED <<usbdfu_state, prog, flash, erased>>

(* The status stage of the GETSTATUS transfer completes: the host has read   *)
(* the reply, and the callback runs.                                         *)
StatusStage ==
  /\ loc = "poll" /\ usb_complete_cb
  /\ RunOperation \/ NothingToRun
  /\ usb_complete_cb' = FALSE
  /\ UNCHANGED reply

(* The rest of the main loop's body. *)
MainLoop_TestsSync ==
  /\ loc = "check"
  /\ loc' = IF usbdfu_state = "MANIFEST_SYNC" THEN "reset" ELSE "poll"
  /\ UNCHANGED <<usbdfu_state, prog, flash, erased, usb_complete_cb, reply>>

MainLoop ==
  /\ loc = "check"
  /\ loc' = IF usbdfu_state = "MANIFEST" THEN "reset" ELSE "poll"
  /\ UNCHANGED <<usbdfu_state, prog, flash, erased, usb_complete_cb, reply>>

(* Stage 1 has chosen DFU again: stage 2 starts with its RAM initialised. *)
StartUp ==
  /\ loc' = "poll"
  /\ usbdfu_state' = "IDLE" /\ prog' = ZeroProg /\ erased' = FALSE
  /\ usb_complete_cb' = FALSE /\ reply' = NoReply

Restart == loc = "reset" /\ StartUp /\ UNCHANGED flash

(* The supply fails, possibly while an operation is being carried out, and   *)
(* comes back.                                                               *)
PowerLoss ==
  /\ StartUp
  /\ \/ UNCHANGED flash
     \/ /\ loc = "poll" /\ usb_complete_cb /\ usbdfu_state = "DNBUSY"
        /\ flash' \in OpCutShort

Request == \/ Dnload \/ DnloadZero \/ ClrStatus \/ Abort \/ Detach
           \/ UploadCommands \/ UploadRefused \/ UploadBlock
           \/ GetStatus \/ GetState \/ OtherSetup

Next == Request \/ StatusStage \/ MainLoop \/ PowerLoss \/ Restart

Spec == Init /\ [][Next]_vars

-----------------------------------------------------------------------------
(* Properties. *)

(* Every variable keeps its type: in particular the buffered length never    *)
(* exceeds the buffer (dfu.cpp:334) and the flash holds only known cells.    *)
TypeOK ==
  /\ usbdfu_state \in DfuStates
  /\ prog \in ProgType
  /\ flash \in [FlashAddr -> Cell]
  /\ erased \in BOOLEAN
  /\ usb_complete_cb \in BOOLEAN
  /\ reply \in ReplyType \cup {NoReply}
  /\ loc \in Locations

(* No sequence of requests, whatever its addresses and however it is cut     *)
(* short, changes a byte of the bootloader: "Protect the flash by only       *)
(* writing to the valid flash area" (dfu.cpp:236).                           *)
BootloaderIntact == \A x \in BootAddr : flash[x] = BootByte

(* The main loop has left dfuMANIFEST before the next request is looked at:  *)
(* no request is ever served between the decision to reset and the reset     *)
(* (dfu.cpp:507-512).                                                        *)
ManifestServesNothing == loc = "poll" => usbdfu_state # "MANIFEST"

(* The host was told dfuDNLOAD-IDLE by the last request. *)
ToldIdle == reply # NoReply /\ reply.state = "DNLOAD_IDLE"

(* The address of a page of the application area. *)
WholePage(a) == a \in AppAddr /\ ((a - FlashBase) % PageSize) = 0

WholeChunk == baseaddr >= start_addr /\ baseaddr + prog.len <= end_addr

ChunkStored(n) == \A i \in 0 .. (n - 1) : flash[baseaddr + i] = Byte(prog.buf.tag, i)

PageBlank == \A i \in 0 .. (PageSize - 1) : flash[baseaddr + i] = Blank

(* When the host has been told dfuDNLOAD-IDLE, the block it downloaded last  *)
(* is in the flash, complete, provided it starts on a page and has an even   *)
(* length.  It must hold however many GETSTATUS, GETSTATE, CLRSTATUS or      *)
(* abandoned transfers went by in between, and after a power failure.        *)
ConfirmedBlockIsStored ==
  ToldIdle /\ IsWrite /\ WholeChunk /\ WholePage(baseaddr) /\ (prog.len % 2) = 0
    => ChunkStored(prog.len)

(* When the host has been told dfuDNLOAD-IDLE after an erase command, the    *)
(* page is blank, provided a whole transfer fits behind its address.         *)
ConfirmedEraseIsBlank ==
  ToldIdle /\ IsErase /\ WholePage(baseaddr) /\ baseaddr + TransferSize <= end_addr
    => PageBlank

(* SAFEWRITE builds promise that nobody can "extract the data by flashing a  *)
(* stub" (flash.h:172-175): the flash never holds a byte of the application  *)
(* that was there and a downloaded byte at once, even across resets.         *)
OldNeverWithNew ==
  SafeWrite =>
    ~ \E x, y \in AppAddr : flash[x] = Old /\ flash[y] \in Tags \X (0 .. (TransferSize - 1))

-----------------------------------------------------------------------------
(* What a comment says and the code does not do: refuted. *)

(* dfu.cpp:226 "The operation is executed only when the target address falls *)
(* within the valid application area": the processor never faults on it.     *)
OnlyValidAddresses == loc # "fault"
=============================================================================
