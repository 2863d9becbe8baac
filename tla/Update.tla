------------------------------- MODULE Update -------------------------------
(***************************************************************************)
(* The whole device under a firmware update: stage 1 (Boot) and stage 2    *)
(* (Dfu) on one flash, a host that follows the DfuSe protocol, control     *)
(* transfers whose outcome the host may not learn, and power failures.     *)
(*                                                                         *)
(* The host carries out Plan, a sequence of DFU_DNLOAD requests, in order: *)
(* after each it sends DFU_GETSTATUS until it is told dfuDNLOAD-IDLE, then *)
(* it leaves DFU with a DFU_DNLOAD without data and a last DFU_GETSTATUS.  *)
(* It repeats a request whose outcome it does not know and starts over     *)
(* when the device went away before the plan was through.                  *)
(***************************************************************************)
EXTENDS Dfu, Sequences, FiniteSetsExt

CONSTANTS
  WordSize, HeaderOf, SizeLimit, NoHashSize, NoHashSum, BlankSum,  \* of Boot
  Plan,        \* the requests that download the new firmware
  NewHeader,   \* the payload that holds the new firmware's header
  MaxFaults    \* bound on lost outcomes, abandoned transfers and power failures

VARIABLES
  ram0, button, stage, requested, checked,   \* of Boot
  todo,    \* index in Plan of the request the host is at; Len(Plan) + 1: leave
  host,    \* "request": about to send it; "status": about to send DFU_GETSTATUS;
           \* "await": its reply is on the way; "done": the host is through
  faults   \* faults so far

B == INSTANCE Boot WITH Contents <- {}

bootOnly == <<ram0, button, stage, requested, checked>>
dfuOnly == <<usbdfu_state, prog, erased, usb_complete_cb, reply, loc>>
hostVars == <<todo, host, faults>>
updateVars == <<vars, bootOnly, hostVars>>

ASSUME PlanAssumption ==
  /\ Plan \in Seq(Downloads)
  /\ NewHeader \in DOMAIN HeaderOf
  /\ MaxFaults \in Nat

(* What request n of Plan asks for, as DeferredFlash sees it.  The address   *)
(* pointer it finds is the one set last before it; start-up clears it.       *)
IsChunk(n) == Plan[n].blocknum # 0
PointerSetters(n) ==
  {m \in 1 .. (n - 1) : ~IsChunk(m) /\ Plan[m].cmd = CMD_SETADDR}
PointerBefore(n) ==
  IF PointerSetters(n) = {} THEN 0 ELSE Plan[Max(PointerSetters(n))].addr

PlanBase(n) ==
  IF IsChunk(n) THEN PointerBefore(n) + (Plan[n].blocknum - 2) * TransferSize
                ELSE Plan[n].addr

PlanOp(n) ==
  [kind |-> OpKind(Plan[n].blocknum, Plan[n].cmd), base |-> PlanBase(n), len |-> Plan[n].len]

(* The host sends whole commands, and chunks that start on a page, have an   *)
(* even length and lie in the application area; nothing later in the plan    *)
(* touches the pages of an earlier chunk.                                    *)
ASSUME WholePlan ==
  \A n \in 1 .. Len(Plan) :
    /\ Plan[n].len <= TransferSize
    /\ ~IsChunk(n) => Plan[n].len >= CmdLen
    /\ IsChunk(n) =>
         /\ WholePage(PlanBase(n)) /\ (Plan[n].len % 2) = 0
         /\ PlanBase(n) + Plan[n].len <= end_addr
         /\ \A m \in (n + 1) .. Len(Plan), i \in 0 .. (Plan[n].len - 1) :
              PlanBase(n) + i \notin OpFootprint(PlanOp(m), TRUE)

(* What Boot assumes of the header words, and that a checksum is made from   *)
(* the words its header's size covers, one at least: neither a blank word    *)
(* nor the mark of an image without hash is one.                             *)
HasHash(p) == ~B!Unhashed(HeaderOf[p].size, HeaderOf[p].sum)

ASSUME HeaderAssumption ==
  /\ WordSize \in Nat \ {0} /\ SizeLimit \in Nat
  /\ \A p \in DOMAIN HeaderOf :
       /\ HeaderOf[p].size \in Nat /\ HeaderOf[p].size >= WordSize
       /\ HeaderOf[p].sp \in BOOLEAN
       /\ HasHash(p) => /\ DOMAIN HeaderOf[p].sum = 0 .. (B!CrcLen(HeaderOf[p].size) - 1)
                        /\ HeaderOf[p].sum \notin {BlankSum, NoHashSum}
  /\ NoHashSum # BlankSum
  /\ \A n \in 0 .. SizeLimit : {BlankSum, NoHashSum} \cap [0 .. n -> Cell] = {}

Leaving == todo = Len(Plan) + 1

-----------------------------------------------------------------------------
UpdateInit ==
  /\ Init
  /\ ram0 = "noise" /\ button = FALSE /\ stage = "reset"
  /\ requested = FALSE /\ checked = FALSE
  /\ todo = 1 /\ host = "request" /\ faults = 0

InStage2 == stage = "stage2" /\ UNCHANGED bootOnly

(* One fault, as long as MaxFaults allows it. *)
Fault == faults < MaxFaults /\ faults' = faults + 1
NoFault == UNCHANGED faults

(* A DFU_DNLOAD reaches the device; the host learns so, or repeats it.  The  *)
(* user lets go of the button before the host is started.                    *)
HostDnload ==
  /\ InStage2 /\ host = "request" /\ ~button
  /\ IF Leaving THEN DnloadZero ELSE DnloadOf(Plan[todo])
  /\ \/ host' = "status" /\ NoFault
     \/ host' = "request" /\ Fault
  /\ UNCHANGED todo

(* A DFU_GETSTATUS reaches the device. *)
HostGetStatus ==
  /\ InStage2 /\ host = "status" /\ GetStatus
  /\ host' = "await" /\ NoFault
  /\ UNCHANGED todo

(* Its status stage completes; the host acts on the state it was told, or    *)
(* does not learn that the stage completed and asks again.                   *)
HostStatusStage ==
  /\ InStage2 /\ host = "await" /\ StatusStage
  /\ \/ /\ NoFault
        /\ CASE reply.state = "DNLOAD_IDLE" -> host' = "request" /\ todo' = todo + 1
             [] reply.state \in {"DNBUSY", "MANIFEST"} -> host' = "status" /\ UNCHANGED todo
             [] OTHER -> host' = "request" /\ todo' = 1
     \/ Fault /\ host' = "status" /\ UNCHANGED todo

(* The host gives the transfer up before its status stage. *)
HostAbandons ==
  /\ stage = "stage2" /\ host = "await" /\ host' = "status"
  /\ Fault
  /\ UNCHANGED <<vars, bootOnly, todo>>

(* The device leaves the bus.  After its request to leave that is what the   *)
(* host expects; before it, the host starts over.                            *)
HostLosesDevice ==
  IF Leaving /\ host # "request"
  THEN host' = "done" /\ UNCHANGED todo
  ELSE host' = "request" /\ todo' = 1

(* The device's own steps. *)
DeviceLoop == InStage2 /\ MainLoop /\ UNCHANGED hostVars

DeviceReset ==
  /\ B!LeaveStage2 /\ Restart
  /\ HostLosesDevice /\ NoFault

Stage1 == (B!StartC \/ B!Main) /\ UNCHANGED <<dfuOnly, hostVars>>

(* A firmware works when the flash holds all of it.  Of one that was damaged *)
(* nothing is known but that it does not write to the flash.                 *)
AppWorks == \E p \in DOMAIN HeaderOf : B!Holds(p)

(* The application is asked for DFU as long as the update is not through.    *)
UserAsksForDfu ==
  /\ host # "done" /\ B!AppRequestsDfu
  /\ UNCHANGED <<dfuOnly, hostVars>>

(* One that does not work cannot be asked: the user switches the device off  *)
(* and on again with the button held down, until stage 2 runs.               *)
UserHoldsButton ==
  /\ host # "done"
  /\ stage = "hang" \/ (stage = "app" /\ ~AppWorks)
  /\ B!SupplyReturns /\ button' = TRUE
  /\ UNCHANGED <<vars, hostVars>>

UserReleasesButton ==
  /\ stage = "stage2" /\ button /\ button' = FALSE
  /\ UNCHANGED <<vars, ram0, stage, requested, checked, hostVars>>

User == (AppWorks /\ UserAsksForDfu) \/ UserHoldsButton \/ UserReleasesButton

PowerFailure ==
  /\ Fault
  /\ B!SupplyReturns /\ UNCHANGED button
  /\ IF stage = "stage2" THEN PowerLoss /\ HostLosesDevice
                         ELSE UNCHANGED <<vars, todo, host>>

Device == DeviceLoop \/ DeviceReset \/ Stage1
Host == HostDnload \/ HostGetStatus \/ HostStatusStage

UpdateNext ==
  \/ Device \/ Host \/ HostAbandons \/ PowerFailure
  \/ UserAsksForDfu \/ UserHoldsButton \/ UserReleasesButton

(* The device keeps running, the host keeps going, and the user asks a       *)
(* working application for DFU and uses the button otherwise.  Faults are    *)
(* never forced.                                                             *)
UpdateSpec ==
  /\ UpdateInit /\ [][UpdateNext]_updateVars
  /\ WF_updateVars(Device) /\ WF_updateVars(Host) /\ WF_updateVars(User)

-----------------------------------------------------------------------------
(* Properties. *)

(* Types of the host's variables. *)
UpdateTypeOK ==
  /\ TypeOK /\ B!BootTypeOK
  /\ todo \in 1 .. (Len(Plan) + 1)
  /\ host \in {"request", "status", "await", "done"}
  /\ faults \in 0 .. MaxFaults

(* Chunk n of Plan is in the flash, whole. *)
ChunkInFlash(n) ==
  \A i \in 0 .. (Plan[n].len - 1) : flash[PlanBase(n) + i] = Byte(Plan[n].tag, i)

(* Every chunk that the host counts as done is in the flash, and stays there *)
(* until the host starts over: whatever requests were repeated, abandoned or *)
(* cut short by a power failure (dfu.cpp:263-294, 327-339).                  *)
ConfirmedBlocksStay == \A n \in 1 .. (todo - 1) : IsChunk(n) => ChunkInFlash(n)

(* What follows the header is, word for word, what p's checksum was made     *)
(* from.                                                                     *)
BodyOf(p) == HasHash(p) /\ B!Crc(flash, HeaderOf[p].size) = HeaderOf[p].sum

(* An application runs only when its body is the whole of a known firmware's *)
(* and its checksum was found right; unless no checksum was looked at, and   *)
(* then the size word is damaged or that of an image without hash.  The      *)
(* checksum does not cover the stack pointer and the reset vector            *)
(* (main.cpp:140-158).                                                       *)
OnlyWholeBodiesRun ==
  stage = "app" =>
    \/ checked /\ \E p \in DOMAIN HeaderOf : BodyOf(p)
    \/ ~checked /\ \/ B!WordDamaged(flash, 2)
                   \/ \E p \in DOMAIN HeaderOf :
                        HeaderOf[p].size = NoHashSize /\ B!WordOf(flash, 2, p)

(* No word of the header is blank or another firmware's; it may be damaged.  *)
HeaderFits(p) ==
  \A k \in 0 .. 3 :
    /\ ~B!WordBlank(flash, k)
    /\ \A q \in DOMAIN HeaderOf : B!WordOf(flash, k, q) => q = p

(* Under a plan that erases the header first, an update cut short at any     *)
(* byte never runs as a mixture of two firmwares.  What may run is one whole *)
(* body under its own header, of which words that an interrupted erase or    *)
(* write has damaged read as anything; and when the size word is damaged,    *)
(* what reads as an image without hash, or as one of less than a word with a *)
(* blank checksum, runs unchecked (main.cpp:118-120, 140-158).               *)
NoMixtureRuns ==
  stage = "app" =>
    \/ checked /\ \E p \in DOMAIN HeaderOf : BodyOf(p) /\ HeaderFits(p)
    \/ ~checked /\ B!WordDamaged(flash, 2)

(* Refuted for firmware without a hash: README.md:35 "Total wipe on DFU      *)
(* downloads (avoid partial FW updates)".  No application runs that holds    *)
(* some of the blocks of the plan and lacks others.                          *)
PlanChunks == {n \in 1 .. Len(Plan) : IsChunk(n)}
BlocksInFlash == {n \in PlanChunks : ChunkInFlash(n)}
PartialUpdateNeverRuns ==
  stage = "app" => BlocksInFlash \in {{}, PlanChunks}

(* The update succeeds in the end, and the new firmware is the one that      *)
(* runs, when faults stop: also where an interrupted update has left what    *)
(* starts and does not work, or a size that makes stage 1 fault at every     *)
(* boot, because the button is obeyed before the header (main.cpp:123-138).  *)
NewFirmwareRuns == <>[](host = "done" /\ stage = "app" /\ B!Holds(NewHeader))
=============================================================================
