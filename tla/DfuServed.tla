----------------------------- MODULE DfuServed -----------------------------
(***************************************************************************)
(* Dfu with a history variable that names what the host has seen last: the *)
(* request that was served, with what it downloads, or the status stage    *)
(* that came to its end.  With it the deferred operations of Dfu can be    *)
(* compared with what DeferredFlash promises, request by request.          *)
(***************************************************************************)
EXTENDS Dfu

VARIABLE event  \* history: <<what was served>>, a download with its request

servedVars == <<vars, event>>

ServedInit == Init /\ event = <<"start">>

(* DFU_DNLOAD with data. *)
ServesDownload == \E d \in Downloads : DnloadOf(d) /\ event' = <<"download", d>>

(* The requests after which the download before them is not to be carried    *)
(* out any more (dfu.cpp:323-327, 340-351, 353-384).                         *)
ServesAbandon ==
  /\ DnloadZero \/ Abort \/ Detach \/ UploadCommands \/ UploadRefused \/ UploadBlock
  /\ event' = <<"abandon">>

ServesGetStatus == GetStatus /\ event' = <<"status asked">>

(* Requests that leave it alone. *)
ServesOther == (ClrStatus \/ GetState \/ OtherSetup) /\ event' = <<"other">>

(* The host has read the status and completed the transfer. *)
StatusRead == StatusStage /\ event' = <<"status read">>

GoesOn == MainLoop /\ UNCHANGED event

Starts == (PowerLoss \/ Restart) /\ event' = <<"start">>

ServedNext ==
  \/ ServesDownload \/ ServesAbandon \/ ServesGetStatus \/ ServesOther
  \/ StatusRead \/ GoesOn \/ Starts

ServedSpec == ServedInit /\ [][ServedNext]_servedVars

-----------------------------------------------------------------------------
(* The pending operation is the one in prog while the state machine is in    *)
(* dfuDNLOAD-SYNC or dfuDNBUSY.                                              *)
NoPending == [kind |-> "none", base |-> 0, len |-> 0, tag |-> NoTag]

Pending ==
  IF usbdfu_state \in {"DNLOAD_SYNC", "DNBUSY"} /\ loc \in {"poll", "check"}
  THEN [kind |-> OpKind(prog.blocknum, prog.buf.cmd), base |-> baseaddr,
        len |-> prog.len, tag |-> prog.buf.tag]
  ELSE NoPending

PendingOps == [kind : OpKinds, base : 0 .. (AddrSpace - 1), len : 0 .. TransferSize,
               tag : Tags]

(* What a request for a download asks for: a block for the place that its    *)
(* number and the address pointer name, or a command for the address in its  *)
(* payload, when the payload is long enough to hold one.                     *)
AsksFor(d, pointer, op) ==
  /\ op.kind = OpKind(d.blocknum, d.cmd)
  /\ op.len = BufferedLen(d.len) /\ op.tag = d.tag
  /\ op.kind = "write" => op.base = BlockAddr(pointer, d.blocknum)
  /\ op.kind # "write" /\ d.len >= CmdLen => op.base = d.addr

IsPointer(op) == op.kind = "setaddr"

(* Erased bytes, and those of the payload where they belong. *)
OpContents(op, x) == {Blank} \cup IF op.kind = "write" THEN {Byte(op.tag, x - op.base)} ELSE {}

Deferred == INSTANCE DeferredFlash WITH
  Requests <- Downloads, Operations <- PendingOps, NoOperation <- NoPending,
  Names <- AsksFor, Points <- IsPointer, Addresses <- FlashAddr,
  Footprint <- OpFootprint, Contents <- OpContents, Damaged <- Torn,
  event <- event, pending <- Pending, pointer <- prog.addr, wiped <- erased, mem <- flash

(* The download side implements the deferred operations of DeferredFlash: an *)
(* operation is submitted by the DFU_DNLOAD that names it and by nothing     *)
(* else, replaced by the next one, forgotten on ABORT, DETACH, UPLOAD and a  *)
(* DFU_DNLOAD without data, and carried out by the status stage of the       *)
(* GETSTATUS served last, once: never after an ABORT, never again after a    *)
(* repeated or abandoned GETSTATUS (dfu.cpp:195-213, 224-301, 317-403).      *)
ImplementsDeferred == Deferred!Spec
=============================================================================
