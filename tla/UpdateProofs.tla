---------------------------- MODULE UpdateProofs ----------------------------
(***************************************************************************)
(* Proofs about a whole firmware update, for every plan that meets         *)
(* WholePlan, every layout, build and set of headers, and any number of    *)
(* faults: the composition still is the DFU layer of Dfu, what the host    *)
(* counts as done is in the flash, and what runs has one whole body.       *)
(***************************************************************************)
EXTENDS Update, DfuProofs

-----------------------------------------------------------------------------
(* The pointer that a request of the plan finds.                             *)

(* A request that does not set it leaves it to the next one.                 *)
LEMMA PointerKept ==
  ASSUME NEW n \in Nat, n > 0, IsChunk(n) \/ Plan[n].cmd # CMD_SETADDR
  PROVE  PointerBefore(n + 1) = PointerBefore(n)
<1>1. 1 .. n = (1 .. (n - 1)) \cup {n} /\ (n + 1) - 1 = n
  OBVIOUS
<1>2. PointerSetters(n + 1) = PointerSetters(n)
  BY <1>1 DEF PointerSetters
<1> QED
  BY <1>2 DEF PointerBefore

(* One that does is the last to have done so.                                *)
LEMMA PointerSet ==
  ASSUME NEW n \in Nat, n > 0, ~IsChunk(n), Plan[n].cmd = CMD_SETADDR
  PROVE  PointerBefore(n + 1) = Plan[n].addr
<1>1. n \in PointerSetters(n + 1)
  BY DEF PointerSetters
<1>2. \A m \in PointerSetters(n + 1) : m \in Nat /\ n >= m
  BY DEF PointerSetters
<1>3. Max(PointerSetters(n + 1)) = n
  BY <1>1, <1>2 DEF Max
<1> QED
  BY <1>1, <1>3 DEF PointerBefore

(* The first one finds what start-up leaves.                                 *)
LEMMA PointerAtFirst == PointerBefore(1) = 0
<1>1. PointerSetters(1) = {}
  BY DEF PointerSetters
<1> QED
  BY <1>1 DEF PointerBefore

-----------------------------------------------------------------------------
(* The inductive invariant.                                                  *)

(* The variables of stage 2 as its start-up leaves them.                     *)
Fresh ==
  /\ usbdfu_state = "IDLE" /\ prog = ZeroProg /\ ~erased
  /\ ~usb_complete_cb /\ reply = NoReply /\ loc = "poll"

(* prog holds request todo of the plan. *)
Current ==
  /\ todo \in 1 .. Len(Plan)
  /\ prog.blocknum = Plan[todo].blocknum /\ prog.len = Plan[todo].len
  /\ prog.buf.cmd = Plan[todo].cmd /\ prog.buf.tag = Plan[todo].tag
  /\ ~IsChunk(todo) => prog.buf.addr = Plan[todo].addr

(* What the device is at, seen from the host: it waits for request todo, it  *)
(* has received it, it has carried it out, or it has been told to leave.     *)
Ready ==
  /\ usbdfu_state \in {"IDLE", "DNLOAD_IDLE"}
  /\ prog.addr = PointerBefore(todo)

Received ==
  /\ usbdfu_state \in {"DNLOAD_SYNC", "DNBUSY"}
  /\ Current /\ prog.addr = PointerBefore(todo)

Executed ==
  /\ usbdfu_state = "DNLOAD_IDLE"
  /\ Current /\ prog.addr = PointerBefore(todo + 1)
  /\ SafeWrite /\ IsWrite => erased

Left == usbdfu_state \in {"MANIFEST_SYNC", "MANIFEST"} /\ Leaving

Phase ==
  /\ stage # "stage2" => Fresh /\ (host = "done" \/ (host = "request" /\ todo = 1))
  /\ host = "done" => Leaving /\ usbdfu_state = "IDLE"
  /\ stage = "stage2" /\ host = "request" => Ready \/ Received \/ Left
  /\ stage = "stage2" /\ host \in {"status", "await"} => Received \/ Executed \/ Left
  /\ host = "await" => /\ reply.state = usbdfu_state
                       /\ usbdfu_state \in {"DNBUSY", "DNLOAD_IDLE", "MANIFEST"}

(* Once the host has a chunk confirmed, the wipe of a SAFEWRITE build is     *)
(* over until the next start-up.                                             *)
WipedBefore ==
  \A n \in 1 .. (todo - 1) :
    SafeWrite /\ stage = "stage2" /\ host # "done" /\ IsChunk(n) => erased

HostType ==
  /\ todo \in 1 .. (Len(Plan) + 1)
  /\ host \in {"request", "status", "await", "done"}
  /\ faults \in 0 .. MaxFaults

UpdateInv ==
  DfuInv /\ Confirmed /\ HostType /\ Phase /\ WipedBefore /\ ConfirmedBlocksStay

-----------------------------------------------------------------------------
(* The composition is a stage 2 that some host uses.                         *)

(* A request of the plan is one that the DFU layer knows.                    *)
LEMMA PlanTypes ==
  /\ Len(Plan) \in Nat
  /\ \A n \in 1 .. Len(Plan) :
       /\ Plan[n] \in Downloads
       /\ Plan[n] \in [blocknum : Nat, len : Nat \ {0}, cmd : Commands,
                       addr : PayloadAddr, tag : Tags]
<1>1. Plan \in Seq(Downloads)
  BY PlanAssumption
<1>2. Len(Plan) \in Nat /\ \A n \in 1 .. Len(Plan) : Plan[n] \in Downloads
  BY <1>1
<1> QED
  BY <1>2, HostAssumption

(* Every step of the composition is a step of the DFU layer, or leaves it    *)
(* alone: stage 1 runs while it does not (main.cpp:144-158, dfu.cpp:507).    *)
LEMMA UpdateStepsDfu ==
  ASSUME HostType, [UpdateNext]_updateVars
  PROVE  [Next]_vars
<1>1. CASE DeviceLoop
  BY <1>1 DEF DeviceLoop, Next
<1>2. CASE DeviceReset
  BY <1>2 DEF DeviceReset, Next
<1>3. CASE Stage1
  BY <1>3 DEF Stage1, dfuOnly, vars, B!StartC, B!Main
<1>4. CASE HostDnload
  <2>1. CASE Leaving
    BY <1>4, <2>1 DEF HostDnload, Next, Request
  <2>2. CASE ~Leaving
    <3>1. todo \in 1 .. Len(Plan)
      BY <2>2, PlanTypes DEF HostType, Leaving
    <3>2. Plan[todo] \in Downloads /\ DnloadOf(Plan[todo])
      BY <1>4, <2>2, <3>1, PlanTypes DEF HostDnload
    <3> QED
      BY <3>2 DEF Next, Request, Dnload
  <2> QED
    BY <2>1, <2>2
<1>5. CASE HostGetStatus
  BY <1>5 DEF HostGetStatus, Next, Request
<1>6. CASE HostStatusStage
  BY <1>6 DEF HostStatusStage, Next
<1>7. CASE HostAbandons
  BY <1>7 DEF HostAbandons
<1>8. CASE UserAsksForDfu
  BY <1>8 DEF UserAsksForDfu, dfuOnly, vars, B!AppRequestsDfu
<1>9. CASE PowerFailure
  BY <1>9 DEF PowerFailure, Next
<1>10. CASE UserHoldsButton \/ UserReleasesButton
  BY <1>10 DEF UserHoldsButton, UserReleasesButton
<1>11. CASE UNCHANGED updateVars
  BY <1>11 DEF updateVars
<1> QED
  BY <1>1, <1>2, <1>3, <1>4, <1>5, <1>6, <1>7, <1>8, <1>9, <1>10, <1>11
     DEF UpdateNext, Device, Host, User

-----------------------------------------------------------------------------
(* What a request does to the chunks of earlier ones.                        *)

(* A chunk of the plan lies in the application area, so its address does not *)
(* wrap (dfu.cpp:251-253).                                                   *)
LEMMA ChunkBounds ==
  ASSUME NEW n \in 1 .. Len(Plan), IsChunk(n)
  PROVE  /\ PlanBase(n) \in Nat /\ PlanBase(n) >= start_addr
         /\ WholePage(PlanBase(n)) /\ (Plan[n].len % 2) = 0
         /\ PlanBase(n) + Plan[n].len <= end_addr /\ Plan[n].len \in Nat
         /\ Wrap(PlanBase(n)) = PlanBase(n)
         /\ \A i \in 0 .. (Plan[n].len - 1) : PlanBase(n) + i \in FlashAddr
<1>1. /\ WholePage(PlanBase(n)) /\ (Plan[n].len % 2) = 0
      /\ PlanBase(n) + Plan[n].len <= end_addr
  BY WholePlan
<1>2. /\ start_addr \in Nat /\ end_addr \in Nat /\ FlashBase \in Nat /\ FlashBase <= start_addr
      /\ end_addr < AddrSpace /\ AddrSpace \in Nat /\ Plan[n].len \in Nat
  BY Bounds, LayoutAssumption, PlanTypes
<1>3. PlanBase(n) \in start_addr .. (end_addr - 1)
  BY <1>1 DEF WholePage, AppAddr
<1> DEFINE base == PlanBase(n)
           len == Plan[n].len
<1> HIDE DEF base, len
<1>4. base \in Nat /\ base >= start_addr /\ base < AddrSpace
  BY <1>2, <1>3 DEF base
<1>5. \A k, a \in Nat : k < a => k % a = k
  BY SMTT(30)
<1>6. Wrap(base) = base
  BY <1>2, <1>4, <1>5 DEF Wrap
<1>7. ASSUME NEW i \in 0 .. (len - 1)
      PROVE  base + i \in FlashAddr
  <2>1. len \in Nat /\ base + len <= end_addr
    BY <1>1, <1>2 DEF base, len
  <2> QED
    BY <1>2, <1>4, <2>1 DEF FlashAddr
<1> QED
  BY <1>1, <1>2, <1>4, <1>6, <1>7 DEF base, len

(* The operation in prog is the one that the plan asks for.                  *)
LEMMA OperationIsPlanned ==
  ASSUME Current, prog.addr = PointerBefore(todo)
  PROVE  /\ IsWrite <=> IsChunk(todo)
         /\ IsErase <=> PlanOp(todo).kind = "erase"
         /\ Kind = PlanOp(todo).kind
         /\ baseaddr = PlanBase(todo) /\ prog.len = PlanOp(todo).len
<1>1. prog.blocknum = Plan[todo].blocknum /\ prog.buf.cmd = Plan[todo].cmd
  BY DEF Current
<1>2. IsWrite <=> IsChunk(todo)
  BY <1>1 DEF IsWrite, IsChunk
<1>3. Kind = PlanOp(todo).kind /\ (IsErase <=> PlanOp(todo).kind = "erase")
  BY <1>1, KindIs DEF Kind, PlanOp
<1>4. baseaddr = PlanBase(todo)
  <2>1. CASE IsChunk(todo)
    <3>1. baseaddr = BlockAddr(PointerBefore(todo), Plan[todo].blocknum)
      BY <1>1, <2>1 DEF baseaddr, IsChunk
    <3>2. BlockAddr(PointerBefore(todo), Plan[todo].blocknum) = Wrap(PlanBase(todo))
      BY <2>1 DEF BlockAddr, PlanBase
    <3>3. Wrap(PlanBase(todo)) = PlanBase(todo)
      BY <2>1, ChunkBounds DEF Current
    <3> QED
      BY <3>1, <3>2, <3>3
  <2>2. CASE ~IsChunk(todo)
    BY <1>1, <2>2 DEF baseaddr, IsChunk, PlanBase, Current
  <2> QED
    BY <2>1, <2>2
<1> QED
  BY <1>2, <1>3, <1>4 DEF PlanOp, Current

(* Carrying it out leaves every chunk of an earlier request in the flash     *)
(* (dfu.cpp:231-295).                                                        *)
LEMMA EarlierChunksStay ==
  ASSUME UpdateInv, stage = "stage2", host # "done", Received, flash' = OpResult,
         NEW n \in 1 .. (todo - 1), IsChunk(n)
  PROVE  ChunkInFlash(n)'
<1>1. todo \in 1 .. Len(Plan) /\ Len(Plan) \in Nat /\ n \in 1 .. Len(Plan)
  BY PlanTypes DEF Received, Current
<1>2. ASSUME NEW i \in 0 .. (Plan[n].len - 1)
      PROVE  OpResult[PlanBase(n) + i] = flash[PlanBase(n) + i]
  <2> DEFINE x == PlanBase(n) + i
  <2>1. x \in FlashAddr
    BY <1>1, ChunkBounds
  <2>2. x \notin OpFootprint(PlanOp(todo), TRUE)
    <3>1. todo \in (n + 1) .. Len(Plan)
      BY <1>1
    <3>2. \A m \in (n + 1) .. Len(Plan), j \in 0 .. (Plan[n].len - 1) :
            PlanBase(n) + j \notin OpFootprint(PlanOp(m), TRUE)
      BY <1>1, WholePlan
    <3> QED
      BY <3>1, <3>2
  <2>3. SafeWrite => erased
    BY <1>1 DEF UpdateInv, WipedBefore
  <2>4. PendingFootprint \subseteq OpFootprint(PlanOp(todo), TRUE)
    <3>1. /\ Kind = PlanOp(todo).kind /\ baseaddr = PlanOp(todo).base
          /\ prog.len = PlanOp(todo).len
      BY OperationIsPlanned DEF Received, PlanOp
    <3> QED
      BY <2>3, <3>1 DEF PendingFootprint, OpFootprint
  <2>5. DfuInv
    BY DEF UpdateInv
  <2> HIDE DEF x
  <2>6. OpResult[x] = flash[x]
    BY <2>1, <2>2, <2>4, <2>5, OperationChanges
  <2> QED
    BY <2>6 DEF x
<1>3. ChunkInFlash(n)
  BY DEF UpdateInv, ConfirmedBlocksStay
<1> QED
  BY <1>2, <1>3 DEF ChunkInFlash

(* A chunk that has been carried out is there (dfu.cpp:275-294).             *)
LEMMA ConfirmedChunkIsThere ==
  ASSUME UpdateInv, Executed, IsChunk(todo)
  PROVE  ChunkInFlash(todo)
<1>1. todo \in 1 .. Len(Plan) /\ todo \in Nat /\ todo > 0
  BY PlanTypes DEF Executed, Current
<1>2. prog.addr = PointerBefore(todo)
  BY <1>1, PointerKept DEF Executed
<1>3. Current
  BY DEF Executed
<1>4. IsWrite /\ baseaddr = PlanBase(todo) /\ prog.len = Plan[todo].len
  BY <1>2, <1>3, OperationIsPlanned DEF PlanOp
<1>5. Promised
  <2>1. PlanBase(todo) >= start_addr /\ PlanBase(todo) + Plan[todo].len <= end_addr
        /\ WholePage(PlanBase(todo)) /\ (Plan[todo].len % 2) = 0
    BY <1>1, ChunkBounds
  <2> QED
    BY <1>4, <2>1 DEF Promised, WholeChunk
<1>6. ChunkStored(prog.len)
  BY <1>4, <1>5 DEF UpdateInv, Confirmed, Stored, Executed
<1>7. prog.buf.tag = Plan[todo].tag
  BY DEF Executed, Current
<1> QED
  BY <1>4, <1>6, <1>7 DEF ChunkStored, ChunkInFlash

-----------------------------------------------------------------------------
(* Each step keeps what the invariant says of the host.                      *)

HostInv == HostType /\ Phase /\ WipedBefore /\ ConfirmedBlocksStay

(* What is counted as done stays there while the flash does.                 *)
LEMMA ChunksKept ==
  ASSUME UpdateInv, flash' = flash, todo' = todo \/ todo' = 1
  PROVE  ConfirmedBlocksStay'
<1>1. ASSUME NEW n \in 1 .. (todo' - 1), IsChunk(n)
      PROVE  ChunkInFlash(n)'
  <2>1. n \in 1 .. (todo - 1)
    BY <1>1
  <2>2. ChunkInFlash(n)
    BY <1>1, <2>1 DEF UpdateInv, ConfirmedBlocksStay
  <2> QED
    BY <2>2 DEF ChunkInFlash
<1> QED
  BY <1>1 DEF ConfirmedBlocksStay

(* DFU_DNLOAD (dfu.cpp:327-339).                                             *)
LEMMA DnloadKeeps ==
  ASSUME UpdateInv, HostDnload
  PROVE  HostInv'
<1>1. /\ stage = "stage2" /\ stage' = stage /\ host = "request" /\ todo' = todo
      /\ host' \in {"request", "status"} /\ faults' \in {faults, faults + 1}
      /\ faults' # faults => faults < MaxFaults
  BY DEF HostDnload, InStage2, bootOnly, Fault, NoFault
<1>2. flash' = flash /\ erased' = erased
  BY DEF HostDnload, DnloadZero, DnloadOf
<1>3. HostType'
  BY <1>1, PlanAssumption DEF UpdateInv, HostType
<1>4. ConfirmedBlocksStay' /\ WipedBefore'
  BY <1>1, <1>2, ChunksKept DEF UpdateInv, WipedBefore
<1>5. CASE Leaving
  <2>1. Left'
    BY <1>1, <1>5 DEF HostDnload, DnloadZero, Left, Leaving
  <2> QED
    BY <1>1, <1>3, <1>4, <2>1 DEF HostInv, Phase
<1>6. CASE ~Leaving
  <2>1. todo \in 1 .. Len(Plan) /\ DnloadOf(Plan[todo])
    BY <1>6, PlanTypes DEF UpdateInv, HostType, Leaving, HostDnload
  <2>2. prog.addr = PointerBefore(todo)
    BY <1>1, <1>6 DEF UpdateInv, Phase, Ready, Received, Left
  <2>3. PICK a \in AddrAfter(Plan[todo]) :
          prog' = [prog EXCEPT !.blocknum = Plan[todo].blocknum,
                               !.len = BufferedLen(Plan[todo].len),
                               !.buf = [cmd |-> Plan[todo].cmd, addr |-> a,
                                        tag |-> Plan[todo].tag]]
    BY <2>1 DEF DnloadOf
  <2>4. BufferedLen(Plan[todo].len) = Plan[todo].len
    <3>1. Plan[todo].len \in Nat /\ Plan[todo].len <= TransferSize /\ TransferSize \in Nat
      BY <2>1, WholePlan, PlanTypes, LayoutAssumption
    <3> QED
      BY <3>1 DEF BufferedLen
  <2>5. ~IsChunk(todo) => a = Plan[todo].addr
    <3> SUFFICES ASSUME ~IsChunk(todo) PROVE a = Plan[todo].addr
      OBVIOUS
    <3>1. Plan[todo].len >= CmdLen /\ Plan[todo].len \in Nat
      BY <2>1, WholePlan, PlanTypes
    <3>2. AddrAfter(Plan[todo]) = {Plan[todo].addr}
      BY <3>1 DEF AddrAfter, CmdLen
    <3> QED
      BY <2>3, <3>2
  <2>6. prog \in ProgType
    BY DEF UpdateInv, DfuInv, TypeOK
  <2>7. /\ prog'.blocknum = Plan[todo].blocknum /\ prog'.len = Plan[todo].len
        /\ prog'.buf.cmd = Plan[todo].cmd /\ prog'.buf.tag = Plan[todo].tag
        /\ prog'.buf.addr = a /\ prog'.addr = prog.addr
    BY <2>3, <2>4, <2>6 DEF ProgType
  <2>8. Current'
    BY <1>1, <2>1, <2>5, <2>7 DEF Current
  <2>9. Received'
    BY <1>1, <2>1, <2>2, <2>7, <2>8 DEF Received, DnloadOf
  <2> QED
    BY <1>1, <1>3, <1>4, <2>9 DEF HostInv, Phase
<1> QED
  BY <1>5, <1>6

(* DFU_GETSTATUS (dfu.cpp:195-213, 389-401).                                *)
LEMMA GetStatusKeeps ==
  ASSUME UpdateInv, HostGetStatus
  PROVE  HostInv'
<1>1. /\ stage = "stage2" /\ stage' = stage /\ host = "status" /\ todo' = todo
      /\ host' = "await" /\ faults' = faults
  BY DEF HostGetStatus, InStage2, bootOnly, NoFault
<1>2. /\ flash' = flash /\ erased' = erased /\ prog' = prog
      /\ usbdfu_state' = StatusState /\ reply'.state = usbdfu_state'
  BY DEF HostGetStatus, GetStatus
<1>3. HostType' /\ ConfirmedBlocksStay' /\ WipedBefore'
  BY <1>1, <1>2, ChunksKept DEF UpdateInv, HostType, WipedBefore
<1>4. Current' <=> Current
  BY <1>1, <1>2, Zenon DEF Current
<1>5. CASE Received
  <2>1. Received' /\ usbdfu_state' = "DNBUSY"
    BY <1>1, <1>2, <1>4, <1>5 DEF Received, StatusState
  <2> QED
    BY <1>1, <1>2, <1>3, <2>1 DEF HostInv, Phase
<1>6. CASE Executed
  <2>1. Executed' /\ usbdfu_state' = "DNLOAD_IDLE"
    BY <1>1, <1>2, <1>4, <1>6 DEF Executed, StatusState, IsWrite
  <2> QED
    BY <1>1, <1>2, <1>3, <2>1 DEF HostInv, Phase
<1>7. CASE Left
  <2>1. Left' /\ usbdfu_state' = "MANIFEST"
    BY <1>1, <1>2, <1>7 DEF Left, Leaving, StatusState
  <2> QED
    BY <1>1, <1>2, <1>3, <2>1 DEF HostInv, Phase
<1> QED
  BY <1>1, <1>5, <1>6, <1>7 DEF UpdateInv, Phase

(* The wipe that a first write command of a SAFEWRITE build makes is         *)
(* remembered (dfu.cpp:270-273, flash.h:170-189).                            *)
LEMMA WipeRemembered ==
  ASSUME UpdateInv, RunOperation, SafeWrite, IsWrite
  PROVE  erased'
<1>1. CASE erased
  BY <1>1 DEF RunOperation
<1>2. CASE ~erased
  <2>1. WipePages = PageSteps(start_addr, end_addr)
    BY <1>2 DEF WipePages
  <2>2. start_addr \in start_addr .. (end_addr - 1)
    <3>1. /\ BootPages \in Nat /\ Pages \in Nat /\ PageSize \in Nat /\ PageSize > 0
          /\ BootPages + 1 <= Pages /\ FlashBase \in Nat
      BY LayoutAssumption
    <3>2. (BootPages + 1) * PageSize <= Pages * PageSize
      BY <3>1
    <3>3. (BootPages + 1) * PageSize = BootPages * PageSize + PageSize
      BY <3>1
    <3>4. BootPages * PageSize \in Nat /\ Pages * PageSize \in Nat
      BY <3>1
    <3>5. start_addr < end_addr
      BY <3>1, <3>2, <3>3, <3>4 DEF start_addr, end_addr
    <3> QED
      BY <3>5, Bounds
  <2>3. ((start_addr - start_addr) % PageSize) = 0
    <3>1. start_addr - start_addr = 0 /\ PageSize \in Nat /\ PageSize > 0
      BY Bounds, LayoutAssumption
    <3>2. 0 % PageSize = 0
      BY <3>1, SMTT(30)
    <3> QED
      BY <3>1, <3>2
  <2>4. start_addr \in WipePages
    BY <2>1, <2>2, <2>3 DEF PageSteps
  <2> QED
    BY <2>4 DEF RunOperation
<1> QED
  BY <1>1, <1>2

(* The status stage that carries the operation out.                          *)
LEMMA RunKeeps ==
  ASSUME UpdateInv, HostStatusStage, Received, RunOperation
  PROVE  HostInv'
<1>1. /\ stage = "stage2" /\ stage' = stage /\ host = "await" /\ usbdfu_state = "DNBUSY"
      /\ reply.state = "DNBUSY" /\ reply' = reply
  BY DEF HostStatusStage, InStage2, bootOnly, RunOperation, UpdateInv, Phase, StatusStage
<1>2. todo' = todo /\ host' = "status" /\ faults' \in {faults, faults + 1}
      /\ (faults' # faults => faults < MaxFaults)
  BY <1>1 DEF HostStatusStage, Fault, NoFault
<1>3. flash' = OpResult /\ erased' = (erased \/ WipePages # {})
  BY DEF RunOperation
<1>4. HostType'
  BY <1>2, PlanAssumption DEF UpdateInv, HostType
<1>5. WipedBefore'
  BY <1>1, <1>2, <1>3 DEF UpdateInv, WipedBefore
<1>6. ConfirmedBlocksStay'
  BY <1>1, <1>2, <1>3, EarlierChunksStay DEF ConfirmedBlocksStay
<1>7. todo \in 1 .. Len(Plan) /\ todo \in Nat /\ todo > 0 /\ prog \in ProgType
  BY PlanTypes DEF Received, Current, UpdateInv, DfuInv, TypeOK
<1>8. CASE OpFaults
  <2>1. ~IsSetAddr
    <3>1. IsSetAddr => OpPages = {} /\ OpProgramLen = 0
      BY DEF OpPages, OpProgramLen, IsSetAddr, IsErase, IsWrite, CMD_SETADDR, CMD_ERASE
    <3> QED
      BY <1>8, <3>1 DEF OpFaults
  <2>2. prog' = prog /\ usbdfu_state' = usbdfu_state
    BY <1>8, <2>1 DEF RunOperation
  <2>3. Current' <=> Current
    BY <1>2, <2>2, Zenon DEF Current
  <2>4. Received'
    BY <1>2, <2>2, <2>3 DEF Received
  <2> QED
    BY <1>1, <1>2, <1>4, <1>5, <1>6, <2>4 DEF HostInv, Phase
<1>9. CASE ~OpFaults
  <2>1. /\ usbdfu_state' = "DNLOAD_IDLE"
        /\ prog'.blocknum = prog.blocknum /\ prog'.len = prog.len /\ prog'.buf = prog.buf
        /\ prog'.addr = IF IsSetAddr THEN prog.buf.addr ELSE prog.addr
    BY <1>7, <1>9 DEF RunOperation, ProgType
  <2>2. Current'
    BY <1>2, <2>1, Zenon DEF Current, Received
  <2>3. IsSetAddr <=> ~IsChunk(todo) /\ Plan[todo].cmd = CMD_SETADDR
    BY DEF IsSetAddr, IsChunk, Received, Current
  <2>4. prog'.addr = PointerBefore(todo + 1)
    <3>1. CASE IsSetAddr
      BY <1>7, <2>1, <2>3, <3>1, PointerSet DEF Received, Current
    <3>2. CASE ~IsSetAddr
      BY <1>7, <2>1, <2>3, <3>2, PointerKept DEF Received
    <3> QED
      BY <3>1, <3>2
  <2>5. SafeWrite /\ IsWrite' => erased'
    BY <2>1, WipeRemembered DEF IsWrite
  <2>6. Executed'
    BY <1>2, <2>1, <2>2, <2>4, <2>5 DEF Executed
  <2> QED
    BY <1>1, <1>2, <1>4, <1>5, <1>6, <2>6 DEF HostInv, Phase
<1> QED
  BY <1>8, <1>9

(* The one after which the host goes on to the next request.                 *)
LEMMA ConfirmKeeps ==
  ASSUME UpdateInv, HostStatusStage, Executed
  PROVE  HostInv'
<1>1. /\ stage = "stage2" /\ stage' = stage /\ host = "await"
      /\ usbdfu_state = "DNLOAD_IDLE" /\ reply.state = "DNLOAD_IDLE"
  BY DEF HostStatusStage, InStage2, bootOnly, UpdateInv, Phase, Executed
<1>2. /\ usbdfu_state' = usbdfu_state /\ prog' = prog /\ flash' = flash /\ erased' = erased
  BY <1>1 DEF HostStatusStage, StatusStage, RunOperation, NothingToRun
<1>3. todo \in 1 .. Len(Plan) /\ Len(Plan) \in Nat /\ MaxFaults \in Nat
  BY PlanTypes, PlanAssumption DEF Executed, Current
<1>4. CASE host' = "request" /\ todo' = todo + 1 /\ NoFault
  <2>1. HostType'
    BY <1>3, <1>4 DEF UpdateInv, HostType, NoFault
  <2>2. Ready'
    BY <1>1, <1>2, <1>4 DEF Ready, Executed
  <2>3. ASSUME NEW n \in 1 .. (todo' - 1), IsChunk(n)
        PROVE  (SafeWrite => erased) /\ ChunkInFlash(n)
    <3>1. CASE n = todo
      <4>1. IsWrite
        BY <2>3, <3>1 DEF Executed, Current, IsChunk, IsWrite
      <4> QED
        BY <2>3, <3>1, <4>1, ConfirmedChunkIsThere DEF Executed
    <3>2. CASE n # todo
      <4>1. n \in 1 .. (todo - 1)
        BY <1>3, <1>4, <2>3, <3>2
      <4> QED
        BY <1>1, <2>3, <4>1 DEF UpdateInv, WipedBefore, ConfirmedBlocksStay
    <3> QED
      BY <3>1, <3>2
  <2>4. WipedBefore'
    BY <1>2, <2>3 DEF WipedBefore
  <2>5. ConfirmedBlocksStay'
    BY <1>2, <2>3 DEF ConfirmedBlocksStay, ChunkInFlash
  <2> QED
    BY <1>1, <1>4, <2>1, <2>2, <2>4, <2>5 DEF HostInv, Phase
<1>5. CASE Fault /\ host' = "status" /\ todo' = todo
  <2>1. HostType'
    BY <1>3, <1>5 DEF UpdateInv, HostType, Fault
  <2>2. Current' <=> Current
    BY <1>2, <1>5, Zenon DEF Current
  <2>3. Executed'
    BY <1>2, <1>5, <2>2 DEF Executed, IsWrite
  <2>4. ConfirmedBlocksStay' /\ WipedBefore'
    BY <1>1, <1>2, <1>5, ChunksKept DEF UpdateInv, WipedBefore
  <2> QED
    BY <1>1, <1>5, <2>1, <2>3, <2>4 DEF HostInv, Phase
<1> QED
  BY <1>1, <1>4, <1>5 DEF HostStatusStage

(* The status stage of DFU_GETSTATUS in every phase of the transfer.         *)
LEMMA StatusStageKeeps ==
  ASSUME UpdateInv, HostStatusStage
  PROVE  HostInv'
<1>1. /\ stage = "stage2" /\ stage' = stage /\ host = "await"
      /\ reply.state = usbdfu_state /\ usbdfu_state \in {"DNBUSY", "DNLOAD_IDLE", "MANIFEST"}
  BY DEF HostStatusStage, InStage2, bootOnly, UpdateInv, Phase
<1>2. CASE Received
  <2>1. RunOperation
    BY <1>1, <1>2 DEF HostStatusStage, StatusStage, NothingToRun, Received
  <2> QED
    BY <1>2, <2>1, RunKeeps
<1>3. CASE Executed
  BY <1>3, ConfirmKeeps
<1>4. CASE Left
  <2>1. reply.state = "MANIFEST" /\ usbdfu_state = "MANIFEST"
    BY <1>1, <1>4 DEF Left
  <2>2. /\ usbdfu_state' = usbdfu_state /\ flash' = flash /\ erased' = erased
        /\ todo' = todo /\ host' = "status" /\ faults' \in {faults, faults + 1}
        /\ (faults' # faults => faults < MaxFaults)
    BY <2>1 DEF HostStatusStage, StatusStage, RunOperation, NothingToRun, Fault, NoFault
  <2>3. HostType'
    BY <2>2, PlanAssumption DEF UpdateInv, HostType
  <2>4. Left'
    BY <1>4, <2>2 DEF Left, Leaving
  <2>5. ConfirmedBlocksStay' /\ WipedBefore'
    BY <1>1, <2>2, ChunksKept DEF UpdateInv, WipedBefore
  <2> QED
    BY <1>1, <2>2, <2>3, <2>4, <2>5 DEF HostInv, Phase
<1> QED
  BY <1>1, <1>2, <1>3, <1>4 DEF UpdateInv, Phase

(* A transfer given up, and a turn of the main loop.                         *)
LEMMA IdleKeeps ==
  ASSUME UpdateInv, HostAbandons \/ DeviceLoop
  PROVE  HostInv'
<1>1. /\ stage = "stage2" /\ stage' = stage /\ todo' = todo
      /\ host' = host \/ (host = "await" /\ host' = "status")
      /\ faults' \in {faults, faults + 1} /\ (faults' # faults => faults < MaxFaults)
  BY DEF HostAbandons, DeviceLoop, InStage2, bootOnly, hostVars, Fault
<1>2. /\ usbdfu_state' = usbdfu_state /\ prog' = prog /\ flash' = flash
      /\ erased' = erased /\ reply' = reply
  BY DEF HostAbandons, DeviceLoop, MainLoop, vars
<1>3. HostType'
  BY <1>1, PlanAssumption DEF UpdateInv, HostType
<1>4. ConfirmedBlocksStay' /\ WipedBefore'
  BY <1>1, <1>2, ChunksKept DEF UpdateInv, WipedBefore
<1>5. Current' <=> Current
  BY <1>1, <1>2, Zenon DEF Current
<1>6. /\ Ready' <=> Ready
      /\ Received' <=> Received
      /\ Executed' <=> Executed
      /\ Left' <=> Left
  BY <1>1, <1>2, <1>5 DEF Ready, Received, Executed, Left, IsWrite, Leaving
<1>7. Phase'
  BY <1>1, <1>2, <1>6, Zenon DEF UpdateInv, Phase, Leaving
<1> QED
  BY <1>3, <1>4, <1>7 DEF HostInv

(* The device goes away while stage 2 runs: the host has left, or starts     *)
(* over (dfu.cpp:507-512).                                                   *)
LEMMA LostKeeps ==
  ASSUME UpdateInv, stage = "stage2", stage' = "reset", StartUp, HostLosesDevice,
         flash' = flash \/ usbdfu_state = "DNBUSY",
         faults' \in 0 .. MaxFaults
  PROVE  HostInv'
<1>1. Fresh'
  BY DEF StartUp, Fresh
<1>2. todo \in 1 .. (Len(Plan) + 1) /\ Len(Plan) \in Nat
  BY PlanTypes DEF UpdateInv, HostType
<1>3. CASE Leaving /\ host # "request"
  <2>1. host' = "done" /\ todo' = todo
    BY <1>3 DEF HostLosesDevice
  <2>2. usbdfu_state # "DNBUSY"
    <3>1. CASE host = "done"
      BY <3>1 DEF UpdateInv, Phase
    <3>2. CASE host \in {"status", "await"}
      <4>1. ~Current
        BY <1>2, <1>3 DEF Current, Leaving
      <4> QED
        BY <3>2, <4>1 DEF UpdateInv, Phase, Received, Executed, Left
    <3> QED
      BY <1>3, <3>1, <3>2 DEF UpdateInv, HostType
  <2>3. ConfirmedBlocksStay'
    BY <2>1, <2>2, ChunksKept
  <2>4. WipedBefore'
    BY DEF WipedBefore
  <2>5. Phase'
    BY <1>1, <1>3, <2>1 DEF Phase, Fresh, Leaving
  <2> QED
    BY <1>2, <2>1, <2>3, <2>4, <2>5 DEF HostInv, HostType
<1>4. CASE ~(Leaving /\ host # "request")
  <2>1. host' = "request" /\ todo' = 1
    BY <1>4 DEF HostLosesDevice
  <2>2. 1 .. (todo' - 1) = {}
    BY <2>1
  <2>3. ConfirmedBlocksStay' /\ WipedBefore'
    BY <2>2 DEF ConfirmedBlocksStay, WipedBefore
  <2>4. Phase'
    BY <1>1, <2>1 DEF Phase
  <2> QED
    BY <1>2, <2>1, <2>3, <2>4 DEF HostInv, HostType
<1> QED
  BY <1>3, <1>4

(* A step while stage 2 does not run leaves its variables and the flash      *)
(* alone (main.cpp:114-165).                                                 *)
LEMMA OutsideKeeps ==
  ASSUME UpdateInv, stage # "stage2", UNCHANGED vars, todo' = todo, host' = host,
         faults' \in 0 .. MaxFaults
  PROVE  HostInv'
<1>1. /\ usbdfu_state' = usbdfu_state /\ prog' = prog /\ flash' = flash /\ erased' = erased
      /\ usb_complete_cb' = usb_complete_cb /\ reply' = reply /\ loc' = loc
  BY DEF vars
<1>2. HostType' /\ ConfirmedBlocksStay'
  BY <1>1, ChunksKept DEF UpdateInv, HostType
<1>3. Fresh /\ (host = "done" \/ (host = "request" /\ todo = 1))
  BY DEF UpdateInv, Phase
<1>4. Fresh'
  BY <1>1, <1>3 DEF Fresh
<1>5. host = "request" => Ready'
  <2>1. prog'.addr = 0
    BY <1>4 DEF Fresh, ZeroProg
  <2> QED
    BY <1>3, <1>4, <2>1, PointerAtFirst DEF Ready, Fresh
<1>6. Phase'
  BY <1>3, <1>4, <1>5 DEF UpdateInv, Phase, Fresh, Leaving
<1>7. WipedBefore'
  BY <1>3 DEF WipedBefore
<1> QED
  BY <1>2, <1>6, <1>7 DEF HostInv

(* Every step keeps the invariant.                                           *)
LEMMA NextUpdateInv == UpdateInv /\ [UpdateNext]_updateVars => UpdateInv'
<1> SUFFICES ASSUME UpdateInv, [UpdateNext]_updateVars PROVE UpdateInv'
  OBVIOUS
<1>1. [Next]_vars
  BY UpdateStepsDfu DEF UpdateInv
<1>2. DfuInv' /\ Confirmed'
  BY <1>1, NextInv, NextConfirmed DEF UpdateInv
<1> SUFFICES HostInv'
  BY <1>2 DEF UpdateInv, HostInv
<1>3. faults \in 0 .. MaxFaults /\ MaxFaults \in Nat
  BY PlanAssumption DEF UpdateInv, HostType
<1>4. CASE DeviceLoop \/ HostAbandons
  BY <1>4, IdleKeeps
<1>5. CASE DeviceReset
  <2>1. /\ stage = "stage2" /\ stage' = "reset" /\ StartUp /\ HostLosesDevice
        /\ flash' = flash /\ faults' = faults
    BY <1>5 DEF DeviceReset, B!LeaveStage2, Restart, NoFault
  <2> QED
    BY <1>3, <2>1, LostKeeps
<1>6. CASE Stage1
  <2>1. stage # "stage2" /\ UNCHANGED vars /\ UNCHANGED hostVars
    BY <1>6 DEF Stage1, dfuOnly, vars, B!StartC, B!Main
  <2> QED
    BY <1>3, <2>1, OutsideKeeps DEF hostVars
<1>7. CASE HostDnload
  BY <1>7, DnloadKeeps
<1>8. CASE HostGetStatus
  BY <1>8, GetStatusKeeps
<1>9. CASE HostStatusStage
  BY <1>9, StatusStageKeeps
<1>10. CASE UserAsksForDfu \/ UserHoldsButton
  <2>1. stage # "stage2" /\ UNCHANGED vars /\ UNCHANGED hostVars
    BY <1>10 DEF UserAsksForDfu, UserHoldsButton, dfuOnly, vars, B!AppRequestsDfu
  <2> QED
    BY <1>3, <2>1, OutsideKeeps DEF hostVars
<1>11. CASE PowerFailure
  <2>1. stage' = "reset" /\ faults' \in 0 .. MaxFaults
    BY <1>3, <1>11 DEF PowerFailure, B!SupplyReturns, Fault
  <2>2. CASE stage = "stage2"
    <3>1. /\ StartUp /\ HostLosesDevice
          /\ flash' = flash \/ usbdfu_state = "DNBUSY"
      BY <1>11, <2>2 DEF PowerFailure, PowerLoss
    <3> QED
      BY <2>1, <2>2, <3>1, LostKeeps
  <2>3. CASE stage # "stage2"
    BY <1>11, <2>1, <2>3, OutsideKeeps DEF PowerFailure
  <2> QED
    BY <2>2, <2>3
<1>12. CASE UserReleasesButton \/ UNCHANGED updateVars
  <2>1. /\ UNCHANGED <<usbdfu_state, prog, flash, erased, usb_complete_cb, reply, loc>>
        /\ stage' = stage /\ todo' = todo /\ host' = host /\ faults' = faults
    BY <1>12 DEF UserReleasesButton, updateVars, vars, bootOnly, hostVars
  <2>2. HostType' /\ ConfirmedBlocksStay' /\ WipedBefore'
    BY <2>1, ChunksKept DEF UpdateInv, HostType, WipedBefore
  <2>3. Current' <=> Current
    BY <2>1, Zenon DEF Current
  <2>4. /\ Ready' <=> Ready
        /\ Received' <=> Received
        /\ Executed' <=> Executed
        /\ Left' <=> Left
        /\ Fresh' <=> Fresh
    BY <2>1, <2>3 DEF Ready, Received, Executed, Left, IsWrite, Leaving, Fresh
  <2>5. Phase'
    BY <2>1, <2>4, Zenon DEF UpdateInv, Phase, Leaving
  <2> QED
    BY <2>2, <2>5 DEF HostInv
<1> QED
  BY <1>4, <1>5, <1>6, <1>7, <1>8, <1>9, <1>10, <1>11, <1>12 DEF UpdateNext, Device, Host

(* The update begins with the device in reset and nothing sent.               *)
LEMMA InitUpdateInv == UpdateInit => UpdateInv
<1> SUFFICES ASSUME UpdateInit PROVE UpdateInv
  OBVIOUS
<1>1. Init /\ stage = "reset" /\ todo = 1 /\ host = "request" /\ faults = 0
  BY DEF UpdateInit
<1>2. Confirmed
  BY <1>1 DEF Init, Confirmed, ToldIdle
<1>3. HostType
  BY <1>1, PlanTypes, PlanAssumption DEF HostType
<1>4. Phase
  BY <1>1 DEF Phase, Init, Fresh
<1>5. WipedBefore /\ ConfirmedBlocksStay
  BY <1>1 DEF WipedBefore, ConfirmedBlocksStay
<1> QED
  BY <1>1, <1>2, <1>3, <1>4, <1>5, InitInv DEF UpdateInv

(* The inductive invariant holds throughout the update: what the host has     *)
(* been told agrees with what the device has done (dfu.cpp:232-301, 317-410). *)
THEOREM UpdateInvariance == UpdateSpec => []UpdateInv
BY InitUpdateInv, NextUpdateInv, PTL DEF UpdateSpec

(* The device under an update is a stage 2 that some host uses: whatever     *)
(* Dfu promises of its specification holds here as well.                     *)
THEOREM UpdateImplementsDfu == UpdateSpec => Spec
<1>1. UpdateInit => Init
  BY DEF UpdateInit
<1>2. UpdateInv /\ [UpdateNext]_updateVars => [Next]_vars
  BY UpdateStepsDfu DEF UpdateInv
<1> QED
  BY <1>1, <1>2, UpdateInvariance, PTL DEF UpdateSpec, Spec

(* No update, however it fails, changes a byte of the bootloader             *)
(* (dfu.cpp:236-239).                                                        *)
THEOREM UpdateKeepsBootloader == UpdateSpec => []BootloaderIntact
BY UpdateImplementsDfu, BootloaderSafe, PTL

(* Every chunk that the host counts as done is in the flash, and stays there *)
(* until the host starts over (dfu.cpp:231-295, 327-339).                    *)
THEOREM ConfirmedStaysInFlash == UpdateSpec => []ConfirmedBlocksStay
<1>1. UpdateInv => ConfirmedBlocksStay
  BY DEF UpdateInv
<1> QED
  BY <1>1, UpdateInvariance, PTL

-----------------------------------------------------------------------------
(* Stage 1 in the composition.                                               *)

(* The flash that stage 1 sees is that of stage 2.                           *)
LEMMA OneFlash ==
  B!FlashAddr = FlashAddr /\ B!Cell = Cell
BY DEF B!FlashAddr, FlashAddr, B!end_addr, end_addr, B!Cell, Cell

(* What main reads has the types that its tests expect, and comes from a     *)
(* known header unless the word is blank or damaged (main.cpp:118-120).      *)
LEMMA MainReads ==
  /\ \A sp \in B!SigValues(flash) : sp \in BOOLEAN
  /\ \A size \in B!SizeValues(flash) :
       /\ size \in Nat
       /\ \/ size = SizeLimit
          \/ B!WordDamaged(flash, 2)
          \/ \E p \in DOMAIN HeaderOf : size = HeaderOf[p].size /\ B!WordOf(flash, 2, p)
  /\ \A sum \in B!SumValues(flash) :
       sum \in {BlankSum, NoHashSum} \/ \E p \in DOMAIN HeaderOf : sum = HeaderOf[p].sum
<1>1. \A sp \in B!SigValues(flash) : sp \in BOOLEAN
  BY HeaderAssumption DEF B!SigValues, B!WordValues
<1>2. /\ SizeLimit \in Nat /\ \A n \in 0 .. SizeLimit : n \in Nat
      /\ \A p \in DOMAIN HeaderOf : HeaderOf[p].size \in Nat
  BY HeaderAssumption
<1>3. ASSUME NEW size \in B!SizeValues(flash)
      PROVE  \/ size = SizeLimit
             \/ B!WordDamaged(flash, 2) /\ size \in 0 .. SizeLimit
             \/ \E p \in DOMAIN HeaderOf : size = HeaderOf[p].size /\ B!WordOf(flash, 2, p)
  BY DEF B!SizeValues, B!WordValues
<1>4. \A sum \in B!SumValues(flash) :
        sum \in {BlankSum, NoHashSum} \/ \E p \in DOMAIN HeaderOf : sum = HeaderOf[p].sum
  BY DEF B!SumValues, B!WordValues, B!AnySum
<1> QED
  BY <1>1, <1>2, <1>3, <1>4

(* main goes to the application, to stage 2 or to the fault handler, and to  *)
(* the application only with a checksum that matches or with the mark of an  *)
(* image that has none (main.cpp:140-158).                                   *)
LEMMA MainDecides ==
  ASSUME NEW forced \in BOOLEAN, NEW sp \in BOOLEAN, NEW size \in Nat, NEW sum
  PROVE  /\ B!Verdict(flash, forced, sp, size, sum) \in {"stage2", "app", "hang"}
         /\ B!Verdict(flash, forced, sp, size, sum) = "app" =>
              /\ size < SizeLimit
              /\ \/ B!Unhashed(size, sum)
                 \/ ~B!CrcFaults(size) /\ B!Crc(flash, size) = sum
<1>1. SizeLimit \in Nat
  BY HeaderAssumption
<1>2. CASE forced \/ ~sp
  BY <1>2 DEF B!Verdict
<1>3. CASE ~forced /\ sp /\ size >= SizeLimit
  BY <1>3 DEF B!Verdict
<1>4. CASE ~forced /\ sp /\ size < SizeLimit
  BY <1>1, <1>4 DEF B!Verdict
<1> QED
  BY <1>1, <1>2, <1>3, <1>4

(* What main does with the words that it has read. *)
MainReading(sp, size, sum) ==
  LET verdict == B!Verdict(flash, B!Forced, sp, size, sum)
  IN /\ IF verdict = "hang" THEN B!DeadEnd ELSE B!ChainTo(verdict)
     /\ checked' = (verdict = "app" /\ ~B!Unhashed(size, sum) /\ B!CrcLen(size) > 0)

LEMMA MainReadsSome ==
  ASSUME B!Main
  PROVE  \E sp \in B!SigValues(flash), size \in B!SizeValues(flash),
            sum \in B!SumValues(flash) : MainReading(sp, size, sum)
BY Zenon DEF B!Main, MainReading

(* Types of the variables of stage 1. *)
BootPart ==
  /\ ram0 \in B!RamContents /\ button \in BOOLEAN
  /\ stage \in B!Stages /\ requested \in BOOLEAN /\ checked \in BOOLEAN

LEMMA ForcedType == BootPart => B!Forced \in BOOLEAN
BY DEF BootPart, B!Forced

(* They are kept by every step.                                              *)
LEMMA NextBootPart == BootPart /\ [UpdateNext]_updateVars => BootPart'
<1> SUFFICES ASSUME BootPart, [UpdateNext]_updateVars PROVE BootPart'
  OBVIOUS
<1>1. CASE UNCHANGED bootOnly
  BY <1>1 DEF BootPart, bootOnly
<1>2. CASE Stage1
  <2>1. CASE B!StartC
    BY <2>1 DEF B!StartC, BootPart, B!Stages
  <2>2. CASE B!Main
    <3>1. PICK sp \in B!SigValues(flash), size \in B!SizeValues(flash),
               sum \in B!SumValues(flash) : MainReading(sp, size, sum)
      BY <2>2, MainReadsSome
    <3>2. B!Verdict(flash, B!Forced, sp, size, sum) \in {"stage2", "app", "hang"}
      BY MainReads, MainDecides, ForcedType
    <3>3. stage' \in {"stage2", "app", "hang"} /\ checked' \in BOOLEAN
      BY <3>1, <3>2 DEF MainReading, B!DeadEnd, B!ChainTo
    <3>4. /\ ram0' = CASE stage' = "stage2" -> "program"
                       [] stage' = "app"    -> "zero"
                       [] stage' = "hang"   -> ram0
          /\ requested' = IF stage' = "stage2" THEN FALSE ELSE requested
          /\ button' = button
      BY <2>2 DEF B!Main, B!MarkerAfter
    <3> QED
      BY <3>3, <3>4 DEF BootPart, B!Stages, B!RamContents
  <2> QED
    BY <1>2, <2>1, <2>2 DEF Stage1
<1>3. CASE DeviceReset \/ UserAsksForDfu \/ PowerFailure \/ UserHoldsButton
           \/ UserReleasesButton
  BY <1>3 DEF DeviceReset, UserAsksForDfu, UserHoldsButton, UserReleasesButton, PowerFailure,
     B!LeaveStage2, B!AppRequestsDfu, B!SupplyReturns, BootPart, B!Stages, B!RamContents
<1>4. CASE DeviceLoop \/ HostDnload \/ HostGetStatus \/ HostStatusStage \/ HostAbandons
           \/ UNCHANGED updateVars
  <2>1. UNCHANGED bootOnly
    BY <1>4 DEF DeviceLoop, HostDnload, HostGetStatus, HostStatusStage, HostAbandons, InStage2,
       updateVars
  <2> QED
    BY <1>1, <2>1
<1> QED
  BY <1>2, <1>3, <1>4 DEF UpdateNext, Device, Host

(* Every variable of the composition keeps its type.                         *)
THEOREM UpdateTypeCorrect == UpdateSpec => []UpdateTypeOK
<1>1. UpdateInit => BootPart
  BY DEF UpdateInit, BootPart, B!RamContents, B!Stages
<1>2. UpdateInv /\ BootPart => UpdateTypeOK
  BY OneFlash DEF UpdateInv, DfuInv, TypeOK, HostType, BootPart, UpdateTypeOK, B!BootTypeOK
<1> QED
  BY <1>1, <1>2, NextBootPart, UpdateInvariance, PTL DEF UpdateSpec

-----------------------------------------------------------------------------
(* What runs is one whole body.                                              *)

(* A size of less than a word covers none, any other at least one.           *)
LEMMA WordsCovered ==
  ASSUME NEW size \in Nat
  PROVE  /\ B!CrcLen(size) \in Nat /\ B!CrcLen(size) <= size
         /\ size >= WordSize => B!CrcLen(size) > 0
<1>1. WordSize \in Nat /\ WordSize > 0
  BY HeaderAssumption
<1> DEFINE d == size \div WordSize
<1>2. d \in Nat /\ size = WordSize * d + (size % WordSize) /\ size % WordSize \in 0 .. (WordSize - 1)
  BY <1>1, Division
<1>3. B!CrcLen(size) = d * WordSize
  BY DEF B!CrcLen
<1> HIDE DEF d
<1>4. d * WordSize = WordSize * d /\ d * WordSize \in Nat /\ size % WordSize \in Nat
  BY <1>1, <1>2
<1>5. size >= WordSize => d > 0
  <2>1. CASE d = 0
    <3>1. WordSize * d = 0
      BY <1>1, <2>1
    <3> QED
      BY <1>1, <1>2, <2>1, <3>1
  <2> QED
    BY <1>2, <2>1
<1>6. d > 0 => d * WordSize > 0
  BY <1>1, <1>2
<1> QED
  BY <1>2, <1>3, <1>4, <1>5, <1>6

(* The checksum of some words inside the flash is made from their contents:  *)
(* it is neither what a blank word reads nor the mark of an image without.   *)
LEMMA CrcIsMade ==
  ASSUME NEW size \in Nat, size < SizeLimit, B!CrcLen(size) > 0, ~B!CrcFaults(size),
         flash \in [FlashAddr -> Cell]
  PROVE  /\ DOMAIN B!Crc(flash, size) = 0 .. (B!CrcLen(size) - 1)
         /\ B!Crc(flash, size) \notin {BlankSum, NoHashSum}
<1> DEFINE n == B!CrcLen(size)
<1>1. n \in Nat /\ n > 0 /\ n <= size
  BY WordsCovered
<1>2. B!Crc(flash, size) = [i \in 0 .. (n - 1) |-> flash[B!CrcFrom + i]]
  BY DEF B!Crc
<1>3. B!CrcFrom \in Int /\ B!CrcFrom >= FlashBase
  <2>1. WordSize \in Nat /\ start_addr \in Nat /\ FlashBase <= start_addr /\ FlashBase \in Nat
    BY HeaderAssumption, Bounds
  <2>2. B!CrcFrom = start_addr + 4 * WordSize
    BY DEF B!CrcFrom, B!start_addr, start_addr, B!HeaderSize
  <2> QED
    BY <2>1, <2>2
<1>4. B!CrcFrom + n <= end_addr /\ end_addr \in Nat /\ FlashBase \in Nat
  BY <1>1, <1>3, Bounds DEF B!CrcFaults, B!end_addr, end_addr
<1> HIDE DEF n
<1>5. ASSUME NEW i \in 0 .. (n - 1) PROVE B!CrcFrom + i \in FlashAddr
  BY <1>1, <1>3, <1>4 DEF FlashAddr
<1>6. [i \in 0 .. (n - 1) |-> flash[B!CrcFrom + i]] \in [0 .. (n - 1) -> Cell]
  BY <1>5
<1>7. SizeLimit \in Nat /\ n - 1 \in 0 .. SizeLimit
  BY <1>1, HeaderAssumption
<1>8. {BlankSum, NoHashSum} \cap [0 .. (n - 1) -> Cell] = {}
  BY <1>7, HeaderAssumption
<1> QED
  BY <1>2, <1>6, <1>8 DEF n

(* A checksum tells how many words it was made from.                         *)
LEMMA CrcTellsLength ==
  ASSUME NEW size \in Nat, B!CrcLen(size) > 0, NEW q \in DOMAIN HeaderOf, HasHash(q),
         DOMAIN B!Crc(flash, size) = 0 .. (B!CrcLen(size) - 1),
         B!Crc(flash, size) = HeaderOf[q].sum
  PROVE  BodyOf(q)
<1> DEFINE n == B!CrcLen(size)
           m == B!CrcLen(HeaderOf[q].size)
<1>1. n \in Nat /\ m \in Nat /\ m > 0
  BY WordsCovered, HeaderAssumption
<1>2. 0 .. (n - 1) = 0 .. (m - 1)
  BY HeaderAssumption
<1>3. n = m
  <2>1. n - 1 \in 0 .. (m - 1) /\ m - 1 \in 0 .. (n - 1)
    BY <1>1, <1>2
  <2> QED
    BY <1>1, <2>1
<1>4. B!Crc(flash, HeaderOf[q].size) = B!Crc(flash, size)
  BY <1>3, Zenon DEF B!Crc
<1> QED
  BY <1>4 DEF BodyOf

(* What main chains to has one whole body, or was not looked at because of   *)
(* the size it read (main.cpp:144-158).                                      *)
LEMMA MainChecksBody ==
  ASSUME BootPart, flash \in [FlashAddr -> Cell], B!Main, stage' = "app"
  PROVE  \/ checked' /\ \E p \in DOMAIN HeaderOf : BodyOf(p)
         \/ ~checked' /\ \/ B!WordDamaged(flash, 2)
                         \/ \E p \in DOMAIN HeaderOf :
                              HeaderOf[p].size = NoHashSize /\ B!WordOf(flash, 2, p)
<1>1. PICK sp \in B!SigValues(flash), size \in B!SizeValues(flash), sum \in B!SumValues(flash) :
        MainReading(sp, size, sum)
  BY MainReadsSome
<1>2. sp \in BOOLEAN /\ size \in Nat /\ B!Forced \in BOOLEAN
  BY MainReads, ForcedType
<1>3. /\ B!Verdict(flash, B!Forced, sp, size, sum) = "app"
      /\ checked' = (~B!Unhashed(size, sum) /\ B!CrcLen(size) > 0)
  BY <1>1 DEF MainReading, B!DeadEnd, B!ChainTo
<1>4. /\ size < SizeLimit
      /\ B!Unhashed(size, sum) \/ (~B!CrcFaults(size) /\ B!Crc(flash, size) = sum)
  BY <1>2, <1>3, MainDecides
<1>5. size # SizeLimit /\ SizeLimit \in Nat
  BY <1>2, <1>4, HeaderAssumption
<1>6. CASE checked'
  <2>1. ~B!CrcFaults(size) /\ B!Crc(flash, size) = sum /\ B!CrcLen(size) > 0
    BY <1>3, <1>4, <1>6
  <2>2. DOMAIN sum = 0 .. (B!CrcLen(size) - 1) /\ sum \notin {BlankSum, NoHashSum}
    BY <1>2, <1>4, <2>1, CrcIsMade
  <2>3. PICK q \in DOMAIN HeaderOf : sum = HeaderOf[q].sum
    BY <2>2, MainReads
  <2>4. HasHash(q)
    BY <2>2, <2>3 DEF HasHash, B!Unhashed
  <2>5. BodyOf(q)
    BY <1>2, <2>1, <2>2, <2>3, <2>4, CrcTellsLength
  <2> QED
    BY <1>6, <2>5
<1>7. CASE ~checked'
  <2>1. B!Unhashed(size, sum) \/ ~(B!CrcLen(size) > 0)
    BY <1>3, <1>7
  <2>2. CASE ~B!WordDamaged(flash, 2)
    <3>1. PICK p \in DOMAIN HeaderOf : size = HeaderOf[p].size /\ B!WordOf(flash, 2, p)
      BY <1>5, <2>2, MainReads
    <3>2. B!CrcLen(size) > 0
      BY <1>2, <3>1, WordsCovered, HeaderAssumption
    <3>3. B!Unhashed(size, sum)
      BY <2>1, <3>2
    <3> QED
      BY <1>7, <3>1, <3>3 DEF B!Unhashed
  <2> QED
    BY <1>7, <2>2
<1> QED
  BY <1>6, <1>7

LEMMA NextOnlyWholeBodies ==
  ASSUME UpdateInv, BootPart, OnlyWholeBodiesRun, [UpdateNext]_updateVars
  PROVE  OnlyWholeBodiesRun'
<1>1. CASE stage' # "app"
  BY <1>1 DEF OnlyWholeBodiesRun
<1>2. CASE stage' = "app" /\ stage = "app"
  <2>1. flash' = flash /\ checked' = checked
    BY <1>2 DEF UpdateNext, Device, Host, DeviceLoop, DeviceReset, Stage1, HostDnload,
       HostGetStatus, HostStatusStage, HostAbandons, UserAsksForDfu, UserHoldsButton,
       UserReleasesButton, PowerFailure, InStage2, B!LeaveStage2, B!StartC, B!Main,
       B!AppRequestsDfu, B!SupplyReturns, bootOnly, updateVars, vars
  <2> QED
    BY <1>2, <2>1 DEF OnlyWholeBodiesRun, BodyOf, B!Crc, B!WordDamaged, B!WordBlank, B!WordOf
<1>3. CASE stage' = "app" /\ stage # "app"
  <2>1. B!Main
    BY <1>3 DEF UpdateNext, Device, Host, DeviceLoop, DeviceReset, Stage1, HostDnload,
       HostGetStatus, HostStatusStage, HostAbandons, UserAsksForDfu, UserHoldsButton,
       UserReleasesButton, PowerFailure, InStage2, B!LeaveStage2, B!StartC,
       B!AppRequestsDfu, B!SupplyReturns, updateVars, bootOnly
  <2>2. flash \in [FlashAddr -> Cell] /\ flash' = flash
    BY <2>1 DEF UpdateInv, DfuInv, TypeOK, B!Main
  <2>3. \/ checked' /\ \E p \in DOMAIN HeaderOf : BodyOf(p)
        \/ ~checked' /\ \/ B!WordDamaged(flash, 2)
                        \/ \E p \in DOMAIN HeaderOf :
                             HeaderOf[p].size = NoHashSize /\ B!WordOf(flash, 2, p)
    BY <1>3, <2>1, <2>2, MainChecksBody
  <2> QED
    BY <2>2, <2>3
       DEF OnlyWholeBodiesRun, BodyOf, B!Crc, B!WordDamaged, B!WordBlank, B!WordOf
<1> QED
  BY <1>1, <1>2, <1>3

(* Wherever an update is cut short, an application runs only when what       *)
(* follows the header is, word for word, the whole body of one known         *)
(* firmware with the checksum found right; or when no checksum was looked at *)
(* because the size word is damaged or says NoHashSize.  Nothing is said of  *)
(* the stack pointer and the reset vector, which the checksum leaves out     *)
(* (main.cpp:140-158).                                                       *)
THEOREM OnlyWholeBodies == UpdateSpec => []OnlyWholeBodiesRun
<1>1. UpdateInit => BootPart /\ OnlyWholeBodiesRun
  BY DEF UpdateInit, BootPart, B!RamContents, B!Stages, OnlyWholeBodiesRun
<1>2. UpdateInv /\ BootPart /\ OnlyWholeBodiesRun /\ [UpdateNext]_updateVars
        => BootPart' /\ OnlyWholeBodiesRun'
  BY NextBootPart, NextOnlyWholeBodies
<1> QED
  BY <1>1, <1>2, UpdateInvariance, PTL DEF UpdateSpec
=============================================================================
