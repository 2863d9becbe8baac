-------------------------- MODULE DfuServedProofs --------------------------
(***************************************************************************)
(* Proof that the DFU layer implements DeferredFlash, for every layout of  *)
(* the flash, every set of requests and every build.  Beside the invariant *)
(* of DfuProofs it needs what ties the program to the host's history: the  *)
(* callback is registered only when a GETSTATUS was served last, and that  *)
(* GETSTATUS has taken the state machine out of dfuDNLOAD-SYNC; and while  *)
(* an operation is pending, prog holds a payload that was downloaded.      *)
(***************************************************************************)
EXTENDS DfuServed, DfuProofs

-----------------------------------------------------------------------------
(* The served requests are those of Dfu. *)

(* The history variable changes no behaviour of the program.                 *)
LEMMA ServedNextIsNext == [ServedNext]_servedVars => [Next]_vars
BY DEF ServedNext, servedVars, ServesDownload, ServesAbandon, ServesGetStatus,
   ServesOther, StatusRead, GoesOn, Starts, Next, Request, Dnload

LEMMA ServedIsDfu == ServedSpec => Spec
<1>1. ServedInit => Init
  BY DEF ServedInit
<1> QED
  BY <1>1, ServedNextIsNext, PTL DEF ServedSpec, Spec

-----------------------------------------------------------------------------
(* The invariant. *)

Downloading == usbdfu_state \in {"DNLOAD_SYNC", "DNBUSY"}

CallbackIsAsked ==
  usb_complete_cb => event = <<"status asked">> /\ usbdfu_state # "DNLOAD_SYNC"

PayloadIsDownloaded == Downloading => prog.buf.tag \in Tags

ServedInv == CallbackIsAsked /\ PayloadIsDownloaded

(* Every request keeps it (dfu.cpp:195-213, 317-403).                        *)
LEMMA NextServed == DfuInv /\ ServedInv /\ [ServedNext]_servedVars => ServedInv'
<1> SUFFICES ASSUME DfuInv, ServedInv, [ServedNext]_servedVars  PROVE ServedInv'
  OBVIOUS
<1> USE DEF ServedInv, CallbackIsAsked, PayloadIsDownloaded, Downloading
<1>1. CASE ServesDownload
  <2>1. Dnload /\ usb_complete_cb' = FALSE
    BY <1>1 DEF ServesDownload, Dnload, DnloadOf, Setup
  <2>2. prog'.buf.tag \in Tags
    BY <2>1, DnloadProg
  <2> QED
    BY <2>1, <2>2
<1>2. CASE ServesAbandon
  BY <1>2 DEF ServesAbandon, DnloadZero, Abort, Detach, UploadCommands, UploadRefused,
     UploadBlock, Setup
<1>3. CASE ServesGetStatus
  BY <1>3 DEF ServesGetStatus, GetStatus, StatusState
<1>4. CASE ServesOther
  BY <1>4 DEF ServesOther, ClrStatus, GetState, OtherSetup, Setup
<1>5. CASE StatusRead
  <2>1. usb_complete_cb' = FALSE
    BY <1>5 DEF StatusRead, StatusStage
  <2>2. prog'.buf = prog.buf
    <3>1. prog \in ProgType
      BY DEF DfuInv, TypeOK
    <3> QED
      BY <1>5, <3>1 DEF StatusRead, StatusStage, RunOperation, NothingToRun, ProgType
  <2>3. Downloading' => Downloading
    BY <1>5 DEF StatusRead, StatusStage, RunOperation, NothingToRun
  <2> QED
    BY <2>1, <2>2, <2>3
<1>6. CASE GoesOn
  BY <1>6 DEF GoesOn, MainLoop
<1>7. CASE Starts
  BY <1>7 DEF Starts, PowerLoss, Restart, StartUp
<1>8. CASE UNCHANGED servedVars
  BY <1>8 DEF servedVars, vars
<1> QED
  BY <1>1, <1>2, <1>3, <1>4, <1>5, <1>6, <1>7, <1>8 DEF ServedNext

-----------------------------------------------------------------------------
(* What an operation leaves where it changes the flash. *)

(* Erasing leaves blank bytes (flash.h:69-89).                               *)
LEMMA EraseLeaves ==
  ASSUME NEW f, NEW steps, NEW x \in FlashAddr, ErasePages(f, steps)[x] # f[x]
  PROVE  ErasePages(f, steps)[x] = Blank
BY DEF ErasePages

LEMMA ErasedLeaves ==
  ASSUME NEW x \in FlashAddr, OpErased[x] # flash[x]
  PROVE  OpErased[x] = Blank
<1>1. CASE OpErased[x] # Wiped[x]
  BY <1>1, EraseLeaves DEF OpErased
<1>2. CASE OpErased[x] = Wiped[x]
  BY <1>2, EraseLeaves DEF Wiped
<1> QED
  BY <1>1, <1>2

(* An erase that is cut short leaves a damaged page behind blank ones.       *)
LEMMA TornEraseLeaves ==
  ASSUME NEW f, NEW steps, NEW cut, NEW x \in FlashAddr, TornErase(f, steps, cut)[x] # f[x]
  PROVE  TornErase(f, steps, cut)[x] \in {Blank, Torn}
BY EraseLeaves DEF TornErase

(* Programming stores the byte of the payload that belongs there.            *)
LEMMA ProgramLeaves ==
  ASSUME NEW f, NEW base, NEW n, NEW unit, NEW tag, NEW x \in FlashAddr,
         Program(f, base, n, unit, tag)[x] # f[x]
  PROVE  Program(f, base, n, unit, tag)[x] = Byte(tag, x - base)
BY DEF Program

Written(x) == {Blank} \cup IF IsWrite THEN {Byte(prog.buf.tag, x - baseaddr)} ELSE {}

(* The whole operation leaves erased bytes and those of its payload.         *)
LEMMA OperationLeaves ==
  ASSUME DfuInv, NEW x \in FlashAddr, OpResult[x] # flash[x]
  PROVE  OpResult[x] \in Written(x)
<1>1. CASE OpResult[x] = OpErased[x]
  BY <1>1, ErasedLeaves DEF Written
<1>2. CASE OpResult[x] # OpErased[x]
  <2>1. OpResult = Program(OpErased, baseaddr, OpProgramLen, OpUnit, prog.buf.tag)
    BY <1>2 DEF OpResult
  <2>2. OpResult[x] = Byte(prog.buf.tag, x - baseaddr)
    BY <1>2, <2>1, ProgramLeaves
  <2>3. CASE IsWrite
    BY <2>2, <2>3 DEF Written
  <2>4. CASE ~IsWrite
    <3>1. OpProgramLen = 0
      BY <2>4 DEF OpProgramLen
    <3>2. baseaddr <= x /\ x < baseaddr + 0
      BY <1>2, <2>1, <3>1 DEF Program
    <3> QED
      BY <3>2, Bounds, BaseIsAddress, LayoutAssumption DEF DfuInv, TypeOK
  <2> QED
    BY <2>3, <2>4
<1> QED
  BY <1>1, <1>2

(* One that is cut short may leave damaged bytes as well.                    *)
LEMMA CutShortLeaves ==
  ASSUME NEW f \in OpCutShort, NEW x \in FlashAddr, f[x] # flash[x]
  PROVE  f[x] \in Written(x) \cup {Torn}
<1>1. CASE \E cut \in WipePages : f = TornErase(flash, WipePages, cut)
  BY <1>1, TornEraseLeaves DEF Written
<1>2. CASE \E cut \in OpPages : f = TornErase(Wiped, OpPages, cut)
  <2>1. CASE f[x] = Wiped[x]
    BY <2>1, EraseLeaves DEF Wiped, Written
  <2>2. CASE f[x] # Wiped[x]
    BY <1>2, <2>2, TornEraseLeaves DEF Written
  <2> QED
    BY <2>1, <2>2
<1>3. CASE \E n \in {m \in 0 .. (OpProgramLen - 1) : (m % OpUnit) = 0} :
             f = TornProgram(OpErased, baseaddr, n, OpUnit, prog.buf.tag)
  <2> PICK n \in {m \in 0 .. (OpProgramLen - 1) : (m % OpUnit) = 0} :
             f = TornProgram(OpErased, baseaddr, n, OpUnit, prog.buf.tag)
    BY <1>3
  <2>1. f[x] = Torn \/ f[x] = Program(OpErased, baseaddr, n, OpUnit, prog.buf.tag)[x]
    BY DEF TornProgram
  <2>2. CASE f[x] = OpErased[x]
    BY <2>2, ErasedLeaves DEF Written
  <2>3. CASE f[x] # Torn /\ f[x] # OpErased[x]
    <3>1. f[x] = Byte(prog.buf.tag, x - baseaddr)
      BY <2>1, <2>3, ProgramLeaves
    <3>2. CASE IsWrite
      BY <3>1, <3>2 DEF Written
    <3>3. CASE ~IsWrite
      <4>1. OpProgramLen = 0
        BY <3>3 DEF OpProgramLen
      <4> QED
        BY <4>1
    <3> QED
      BY <3>2, <3>3
  <2> QED
    BY <2>1, <2>2, <2>3
<1> QED
  BY <1>1, <1>2, <1>3 DEF OpCutShort

-----------------------------------------------------------------------------
(* The refinement. *)

(* While an operation is pending it is the one in prog, with its footprint   *)
(* and contents.                                                             *)
LEMMA PendingIsOperation ==
  ASSUME DfuInv, ServedInv, Downloading, loc \in {"poll", "check"}
  PROVE  /\ Pending \in PendingOps
         /\ Pending # NoPending
         /\ Pending.kind = Kind /\ Pending.base = baseaddr
         /\ OpFootprint(Pending, erased) = PendingFootprint
         /\ \A x \in FlashAddr : OpContents(Pending, x) = Written(x)
<1>1. Pending = [kind |-> Kind, base |-> baseaddr, len |-> prog.len, tag |-> prog.buf.tag]
  BY DEF Pending, Kind, Downloading
<1>2. Kind \in OpKinds
  BY KindIs
<1>3. prog \in ProgType
  BY DEF DfuInv, TypeOK
<1>4. baseaddr \in 0 .. (AddrSpace - 1) /\ prog.len \in 0 .. TransferSize
  BY <1>3, BaseIsAddress DEF ProgType
<1>5. Pending \in PendingOps
  BY <1>1, <1>2, <1>4 DEF PendingOps, ServedInv, PayloadIsDownloaded
<1>6. Pending.kind # NoPending.kind
  BY <1>1, <1>2 DEF NoPending, OpKinds
<1>7. OpFootprint(Pending, erased) = PendingFootprint
  BY <1>1 DEF PendingFootprint, OpFootprint
<1>8. \A x \in FlashAddr : OpContents(Pending, x) = Written(x)
  BY <1>1, KindIs DEF OpContents, Written
<1> QED
  BY <1>1, <1>5, <1>6, <1>7, <1>8

(* The same of the state that a DFU_DNLOAD leads to.                         *)
LEMMA SubmittedIsOperation ==
  DfuInv /\ ServedInv /\ Downloading /\ loc \in {"poll", "check"}
    => Pending \in PendingOps
BY PendingIsOperation

(* A DFU_DNLOAD submits the operation that it names (dfu.cpp:332-338).       *)
LEMMA DownloadSubmits ==
  ASSUME DfuInv, DfuInv', ServedInv', ServesDownload
  PROVE  Deferred!Submit
<1>1. PICK d \in Downloads : DnloadOf(d) /\ event' = <<"download", d>>
  BY DEF ServesDownload
<1>2. usbdfu_state' = "DNLOAD_SYNC" /\ loc' = "check" /\ UNCHANGED <<flash, erased>>
  BY <1>1 DEF DnloadOf, Setup
<1>3. Pending' \in PendingOps
  <2>1. (DfuInv /\ ServedInv /\ Downloading /\ loc \in {"poll", "check"}
           => Pending \in PendingOps)'
    BY SubmittedIsOperation, PTL
  <2> QED
    BY <1>2, <2>1 DEF Downloading
<1>4. PICK a \in AddrAfter(d) :
         prog' = [prog EXCEPT !.blocknum = d.blocknum,
                              !.len = BufferedLen(d.len),
                              !.buf = [cmd |-> d.cmd, addr |-> a, tag |-> d.tag]]
  BY <1>1 DEF DnloadOf
<1>5. /\ prog'.blocknum = d.blocknum /\ prog'.len = BufferedLen(d.len)
      /\ prog'.buf = [cmd |-> d.cmd, addr |-> a, tag |-> d.tag]
      /\ prog'.addr = prog.addr
  BY <1>4 DEF DfuInv, TypeOK, ProgType
<1>6. /\ Pending'.kind = OpKind(d.blocknum, d.cmd)
      /\ Pending'.base = IF d.blocknum = 0 THEN a ELSE BlockAddr(prog.addr, d.blocknum)
      /\ Pending'.len = BufferedLen(d.len) /\ Pending'.tag = d.tag
  BY <1>2, <1>5 DEF Pending, baseaddr
<1>7. d.len >= CmdLen => a = d.addr
  <2>1. d.len \in Nat
    BY HostAssumption
  <2> QED
    BY <1>4, <2>1 DEF AddrAfter, CmdLen
<1>8. Pending'.kind = "write" <=> d.blocknum # 0
  BY <1>6 DEF OpKind
<1>9. AsksFor(d, prog.addr, Pending')
  BY <1>6, <1>7, <1>8 DEF AsksFor
<1> QED
  BY <1>1, <1>2, <1>3, <1>5, <1>9 DEF Deferred!Submit

(* ABORT, DETACH, UPLOAD and a DFU_DNLOAD without data forget it             *)
(* (dfu.cpp:323-327, 340-351, 353-384).                                      *)
LEMMA AbandonForgets ==
  ASSUME ServesAbandon
  PROVE  Deferred!Abandon
<1>1. usbdfu_state' \notin {"DNLOAD_SYNC", "DNBUSY"} /\ UNCHANGED <<prog, flash, erased>>
  BY DEF ServesAbandon, DnloadZero, Abort, Detach, UploadCommands, UploadRefused, UploadBlock
<1>2. Pending' = NoPending
  BY <1>1 DEF Pending
<1> QED
  BY <1>1, <1>2 DEF ServesAbandon, Deferred!Abandon

(* The other requests, and the main loop, leave it alone.                    *)
LEMMA OthersKeep ==
  ASSUME ServesGetStatus \/ ServesOther \/ GoesOn
  PROVE  UNCHANGED <<Pending, prog.addr, erased, flash>>
<1>1. UNCHANGED <<prog, flash, erased>>
  BY DEF ServesGetStatus, ServesOther, GoesOn, ClrStatus, OtherSetup, GetStatus, GetState,
     MainLoop
<1>2. \/ /\ usbdfu_state \in {"DNLOAD_SYNC", "DNBUSY"} /\ loc \in {"poll", "check"}
         /\ usbdfu_state' \in {"DNLOAD_SYNC", "DNBUSY"} /\ loc' \in {"poll", "check"}
      \/ /\ usbdfu_state \notin {"DNLOAD_SYNC", "DNBUSY"}
         /\ usbdfu_state' \notin {"DNLOAD_SYNC", "DNBUSY"}
  BY DEF ServesGetStatus, ServesOther, GoesOn, ClrStatus, OtherSetup, GetStatus, GetState,
     MainLoop, Setup, StatusState
<1>3. Pending' = Pending
  BY <1>1, <1>2 DEF Pending, baseaddr
<1> QED
  BY <1>1, <1>3

(* The status stage carries it out (dfu.cpp:224-301).                        *)
LEMMA StatusCommits ==
  ASSUME DfuInv, ServedInv, StatusRead, RunOperation
  PROVE  Deferred!Commit
<1>1. /\ usbdfu_state = "DNBUSY" /\ loc = "poll" /\ flash' = OpResult
      /\ event = <<"status asked">> /\ event' = <<"status read">>
  BY DEF StatusRead, StatusStage, RunOperation, ServedInv, CallbackIsAsked
<1>2. loc' = "fault" \/ usbdfu_state' = "DNLOAD_IDLE"
  BY DEF RunOperation
<1>3. Pending' = NoPending
  BY <1>2 DEF Pending
<1>4. /\ Pending # NoPending /\ Pending.kind = Kind /\ Pending.base = baseaddr
      /\ OpFootprint(Pending, erased) = PendingFootprint
      /\ \A x \in FlashAddr : OpContents(Pending, x) = Written(x)
  BY <1>1, PendingIsOperation DEF Downloading
<1>5. \A x \in FlashAddr : flash'[x] # flash[x] =>
        /\ x \in OpFootprint(Pending, erased)
        /\ flash'[x] \in OpContents(Pending, x) \cup {}
  BY <1>1, <1>4, OperationChanges, OperationLeaves
<1>6. prog'.addr = IF IsPointer(Pending) THEN Pending.base ELSE prog.addr
  <2>1. IsPointer(Pending) <=> IsSetAddr
    BY <1>4, KindIs DEF IsPointer
  <2>2. IsSetAddr => baseaddr = prog.buf.addr
    BY DEF IsSetAddr, baseaddr
  <2>3. prog \in ProgType
    BY DEF DfuInv, TypeOK
  <2> QED
    BY <1>4, <2>1, <2>2, <2>3 DEF RunOperation, ProgType
<1>7. erased => erased'
  BY DEF RunOperation
<1> QED
  BY <1>1, <1>3, <1>4, <1>5, <1>6, <1>7 DEF Deferred!Commit, Deferred!Changes

(* A status stage with nothing pending does nothing (dfu.cpp:237-244).       *)
LEMMA StatusIdles ==
  ASSUME ServedInv, StatusRead, NothingToRun
  PROVE  Deferred!NothingToCommit
<1>1. /\ usbdfu_state \notin {"DNLOAD_SYNC", "DNBUSY"} /\ usbdfu_state' = usbdfu_state
      /\ event = <<"status asked">> /\ event' = <<"status read">>
      /\ UNCHANGED <<prog, flash, erased>>
  BY DEF StatusRead, StatusStage, NothingToRun, ServedInv, CallbackIsAsked
<1>2. Pending = NoPending /\ Pending' = NoPending
  BY <1>1 DEF Pending
<1> QED
  BY <1>1, <1>2 DEF Deferred!NothingToCommit

(* A start loses it, and may cut it short while it is carried out.           *)
LEMMA StartLoses ==
  ASSUME DfuInv, ServedInv, Starts
  PROVE  Deferred!Crash
<1>1. /\ usbdfu_state' = "IDLE" /\ prog' = ZeroProg /\ erased' = FALSE
      /\ event' = <<"start">>
  BY DEF Starts, PowerLoss, Restart, StartUp
<1>2. Pending' = NoPending /\ prog'.addr = 0
  BY <1>1 DEF Pending, ZeroProg
<1>3. CASE UNCHANGED flash
  BY <1>1, <1>2, <1>3 DEF Deferred!Crash
<1>4. CASE loc = "poll" /\ usb_complete_cb /\ usbdfu_state = "DNBUSY" /\ flash' \in OpCutShort
  <2>1. event = <<"status asked">>
    BY <1>4 DEF ServedInv, CallbackIsAsked
  <2>2. /\ Pending # NoPending
        /\ OpFootprint(Pending, erased) = PendingFootprint
        /\ \A x \in FlashAddr : OpContents(Pending, x) = Written(x)
    BY <1>4, PendingIsOperation DEF Downloading
  <2>3. \A x \in FlashAddr : flash'[x] # flash[x] =>
          /\ x \in OpFootprint(Pending, erased)
          /\ flash'[x] \in OpContents(Pending, x) \cup {Torn}
    BY <1>4, <2>2, CutShortChanges, CutShortLeaves
  <2> QED
    BY <1>1, <1>2, <2>1, <2>2, <2>3 DEF Deferred!Crash, Deferred!Changes
<1> QED
  BY <1>3, <1>4 DEF Starts, PowerLoss, Restart

(* At start-up nothing is pending.                                           *)
LEMMA InitRefines == ServedInit => ServedInv /\ Deferred!Init
BY DEF ServedInit, Init, ServedInv, CallbackIsAsked, PayloadIsDownloaded, Downloading,
   Deferred!Init, Pending, ZeroProg

(* Every step of the device is a step of the abstract specification.         *)
LEMMA StepRefines ==
  DfuInv /\ DfuInv' /\ ServedInv /\ ServedInv' /\ [ServedNext]_servedVars
    => [Deferred!Next]_(Deferred!vars)
<1> SUFFICES ASSUME DfuInv, DfuInv', ServedInv, ServedInv', [ServedNext]_servedVars
             PROVE  Deferred!Next \/ UNCHANGED Deferred!vars
  OBVIOUS
<1>1. CASE ServesDownload
  BY <1>1, DownloadSubmits DEF Deferred!Next
<1>2. CASE ServesAbandon
  BY <1>2, AbandonForgets DEF Deferred!Next
<1>3. CASE ServesGetStatus \/ ServesOther
  <2>1. event' \in {<<"status asked">>, <<"other">>}
    BY <1>3 DEF ServesGetStatus, ServesOther
  <2>2. UNCHANGED <<Pending, prog.addr, erased, flash>>
    BY <1>3, OthersKeep
  <2> QED
    BY <2>1, <2>2 DEF Deferred!Next, Deferred!Ask
<1>4. CASE GoesOn
  <2>1. UNCHANGED <<Pending, prog.addr, erased, flash>>
    BY <1>4, OthersKeep
  <2> QED
    BY <1>4, <2>1 DEF GoesOn, Deferred!vars
<1>5. CASE StatusRead
  <2>1. RunOperation \/ NothingToRun
    BY <1>5 DEF StatusRead, StatusStage
  <2> QED
    BY <1>5, <2>1, StatusCommits, StatusIdles DEF Deferred!Next
<1>6. CASE Starts
  BY <1>6, StartLoses DEF Deferred!Next
<1>7. CASE UNCHANGED servedVars
  BY <1>7 DEF servedVars, vars, Deferred!vars, Pending, baseaddr
<1> QED
  BY <1>1, <1>2, <1>3, <1>4, <1>5, <1>6, <1>7 DEF ServedNext

(* Every behaviour of the DFU layer is one of DeferredFlash: an operation is *)
(* submitted only by the DFU_DNLOAD that names it, replaced by the next one, *)
(* forgotten on ABORT, DETACH, UPLOAD and a DFU_DNLOAD without data, carried *)
(* out only by the status stage of the GETSTATUS served last, once, and      *)
(* leaves erased bytes and its own payload inside its own pages, also when   *)
(* the supply fails (dfu.cpp:195-213, 224-301, 317-403).                     *)
THEOREM Refines == ServedSpec => ImplementsDeferred
<1>1. ServedSpec => []DfuInv
  BY ServedIsDfu, Invariance, PTL
<1>2. ServedSpec => []ServedInv
  BY <1>1, InitRefines, NextServed, PTL DEF ServedSpec
<1> QED
  BY <1>1, <1>2, InitRefines, StepRefines, PTL
     DEF ServedSpec, ImplementsDeferred, Deferred!Spec
=============================================================================
