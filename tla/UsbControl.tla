----------------------------- MODULE UsbControl -----------------------------
(***************************************************************************)
(* Control transfers on endpoint 0: the polled state machine of            *)
(* src_stage2/usb.cpp, the endpoint register of the USB peripheral, and a  *)
(* host.  Packets cross the bus between two calls of do_usb_poll; one call *)
(* handles one event, and is one step here.                                *)
(*                                                                         *)
(* The peripheral: a SETUP is accepted unless CTR_RX is still set, and     *)
(* puts both directions to NAK; an OUT packet is accepted when RX is VALID *)
(* and an IN packet is sent when TX is VALID, and each puts its direction  *)
(* to NAK and sets its CTR bit.  A direction that is STALL fails the       *)
(* transfer.  ISTR names the receive side when both CTR bits are set.  A   *)
(* bus reset disables the endpoint but keeps its CTR bits.                 *)
(*                                                                         *)
(* The host runs one control transfer after the other, and may give any of *)
(* them up, or reset the bus.  It starts the next transfer, or resets the  *)
(* bus, when the last packet has been polled; what happens otherwise is    *)
(* the subject of Endpoint, which splits a poll into register accesses.    *)
(*                                                                         *)
(* An operator named <definition>_<change> is a broken variant of the      *)
(* definition after it, used only to show that a property notices it.      *)
(***************************************************************************)
EXTENDS StandardRequests

CONSTANTS
  PacketSize,  \* dev_desc.bMaxPacketSize0
  Requests     \* the control requests of the host

VARIABLES
  (* usb.cpp *)
  usb_fsm_state, usb_req, datasize, dataoff, usb_needs_zlp, usb_force_nak,
  usb_complete_cb,
  (* the peripheral *)
  daddr,       \* USB_DADDR_REG: the address, or Off
  received,    \* CTR_RX and SETUP: "none", "setup" or "out"
  ctr_tx,      \* CTR_TX
  stat_rx, stat_tx,
  rx,          \* the OUT packet received last: place in the data stage, length
  tx,          \* the packet to send: offset in the buffer, length
  reset_istr,  \* the RESET bit of ISTR
  (* the host *)
  hstage,      \* stage of its transfer: "idle", "data", "status"
  hreq,        \* the request of its last transfer
  hcount,      \* bytes of the data stage that it has sent or received
  haddr,       \* the address it uses for the device
  outcome,     \* how that transfer ended: "ok", "stall" or "none"
  (* history, of that transfer *)
  sound,       \* every data packet continued the one before
  dispatched,  \* times the request was dispatched with its data
  callbacks    \* times a completion callback ran

fsm == <<usb_fsm_state, datasize, dataoff, usb_needs_zlp>>
device == <<fsm, usb_req, usb_force_nak, usb_complete_cb>>
endpoint == <<received, ctr_tx, stat_rx, stat_tx, rx, tx>>
hostVars == <<hstage, hreq, hcount, haddr, outcome>>
history == <<sound, dispatched, callbacks>>
vars == <<device, daddr, endpoint, reset_istr, hostVars, history>>

FsmStates == {"IDLE", "DATA_IN", "LAST_DATA_IN", "STATUS_IN",
              "DATA_OUT", "LAST_DATA_OUT", "STATUS_OUT"}
Stats == {"DISABLED", "STALL", "NAK", "VALID"}
Off == -1

ASSUME UsbAssumption ==
  /\ PacketSize \in Nat \ {0}
  /\ Requests \subseteq SetupData
  /\ \A r \in Requests : IsSetAddress(r) => r.wValue > 0

(* Halt requests carry no data and name an endpoint that the peripheral has, *)
(* not the IN side of endpoint 0 (16#80), whose data toggle CLEAR_FEATURE    *)
(* resets under the status stage.  The code checks none of this: from 8 on   *)
(* the halt macros write other registers (16 is CNTR, 19 is DADDR).          *)
ASSUME HaltAssumption ==
  \A r \in Requests :
    IsHalt(r, SET_FEATURE) \/ IsHalt(r, CLEAR_FEATURE) =>
      /\ r.wLength = 0
      /\ r.wIndex % 256 # 128 /\ (r.wIndex % 256) % 128 < 8

NoRequest == [type |-> "standard", recipient |-> "device", in |-> FALSE, bRequest |-> 0,
              wValue |-> 0, wIndex |-> 0, wLength |-> 0]

MinOf(a, b) == IF a < b THEN a ELSE b

-----------------------------------------------------------------------------
(* Parts of a poll. *)

(* _usbd_ep_write_packet: nothing happens while the last packet is unsent.   *)
WritePacket(off, len) ==
  IF stat_tx = "VALID" THEN UNCHANGED <<tx, stat_tx>>
  ELSE tx' = [off |-> off, len |-> len] /\ stat_tx' = "VALID"

(* usb_control_send_chunk with n bytes left from offset off; zlp: an empty   *)
(* packet is to follow.                                                      *)
SendChunk_StuckOffset(n, off, zlp) ==
  IF PacketSize < n
  THEN /\ WritePacket(off, PacketSize)
       /\ usb_fsm_state' = "DATA_IN"
       /\ dataoff' = off /\ datasize' = n - PacketSize
       /\ usb_needs_zlp' = zlp
  ELSE /\ WritePacket(off, n)
       /\ usb_fsm_state' = IF zlp THEN "DATA_IN" ELSE "LAST_DATA_IN"
       /\ dataoff' = off /\ datasize' = 0
       /\ usb_needs_zlp' = FALSE

SendChunk(n, off, zlp) ==
  IF PacketSize < n
  THEN /\ WritePacket(off, PacketSize)
       /\ usb_fsm_state' = "DATA_IN"
       /\ dataoff' = off + PacketSize /\ datasize' = n - PacketSize
       /\ usb_needs_zlp' = zlp
  ELSE /\ WritePacket(off, n)
       /\ usb_fsm_state' = IF zlp THEN "DATA_IN" ELSE "LAST_DATA_IN"
       /\ dataoff' = off /\ datasize' = 0
       /\ usb_needs_zlp' = FALSE

(* _needs_zlp *)
NeedsZlp_Never(len, wLength) == FALSE
NeedsZlp(len, wLength) == len < wLength /\ len # 0 /\ (len % PacketSize) = 0

(* _stall_transaction *)
Stall ==
  /\ stat_tx' = "STALL" /\ stat_rx' = "STALL"
  /\ usb_fsm_state' = "IDLE"
  /\ UNCHANGED <<tx, usb_needs_zlp>>

(* RX after the dispatch of r: _ep_stall_set acts on the endpoint that r     *)
(* names, one of the eight there are.  The status packet that follows sets   *)
(* TX.                                                                       *)
RxAfter(r) ==
  CASE IsHalt(r, SET_FEATURE) /\ r.wIndex % 256 = 0 -> "STALL"
    [] IsHalt(r, CLEAR_FEATURE) /\ r.wIndex % 256 = 0 -> "VALID"
    [] OTHER -> "NAK"

(* Every SETUP forgets the callback, and DFU_GETSTATUS registers one.        *)
CallbackAfter_Kept(r) == usb_complete_cb \/ IsGetStatus(r)
CallbackAfter(r) == IsGetStatus(r)

(* _usb_control_setup_read, from the dispatch to the first packet of the     *)
(* data stage, or to the status stage when no data is wanted.                *)
SetupRead(r) ==
  LET d == Dispatch(r, datasize)
      n == MinOf(d.datasize, r.wLength)
  IN /\ usb_force_nak' = TRUE
     /\ usb_complete_cb' = CallbackAfter(r)
     /\ dispatched' = dispatched + 1
     /\ IF ~d.handled THEN Stall /\ dataoff' = 0 /\ datasize' = d.datasize
        ELSE /\ stat_rx' = RxAfter(r)
             /\ IF r.wLength > 0
                THEN SendChunk(n, 0, NeedsZlp(n, r.wLength))
                ELSE /\ WritePacket(0, 0) /\ usb_fsm_state' = "STATUS_IN"
                     /\ dataoff' = 0 /\ datasize' = n /\ UNCHANGED usb_needs_zlp

(* _usb_control_setup_write *)
FitsBuffer_Unchecked(r) == TRUE
FitsBuffer(r) == r.wLength <= BufferSize

SetupWrite(r) ==
  /\ UNCHANGED <<dataoff, dispatched>>
  /\ usb_complete_cb' = CallbackAfter(r)
  /\ IF FitsBuffer(r)
     THEN /\ datasize' = 0
          /\ usb_fsm_state' = IF r.wLength > PacketSize THEN "DATA_OUT" ELSE "LAST_DATA_OUT"
          /\ usb_force_nak' = FALSE /\ stat_rx' = "VALID"
          /\ UNCHANGED <<tx, stat_tx, usb_needs_zlp>>
     ELSE usb_force_nak' = TRUE /\ Stall /\ UNCHANGED datasize

(* usb_control_recv_chunk *)
ExpectedLen == MinOf(PacketSize, usb_req.wLength - datasize)

-----------------------------------------------------------------------------
(* do_usb_poll. *)

Init ==
  /\ usb_fsm_state = "IDLE" /\ usb_req = NoRequest
  /\ datasize = 0 /\ dataoff = 0
  /\ usb_needs_zlp = FALSE /\ usb_force_nak = FALSE /\ usb_complete_cb = FALSE
  /\ daddr = Off /\ received = "none" /\ ctr_tx = FALSE
  /\ stat_rx = "DISABLED" /\ stat_tx = "DISABLED"
  /\ rx = [off |-> 0, len |-> 0] /\ tx = [off |-> 0, len |-> 0]
  /\ reset_istr = FALSE
  /\ hstage = "idle" /\ hreq = NoRequest /\ hcount = 0 /\ haddr = 0
  /\ outcome = "none"
  /\ sound = TRUE /\ dispatched = 0 /\ callbacks = 0

PollReset ==
  /\ reset_istr /\ reset_istr' = FALSE
  /\ stat_tx' = "NAK" /\ stat_rx' = "VALID"
  /\ daddr' = 0
  /\ UNCHANGED <<device, received, ctr_tx, rx, tx, hostVars, history>>

(* _usbd_control_setup.  The packet is the request of the host, which has    *)
(* no other accepted before this one is read.                                *)
PollSetup ==
  /\ ~reset_istr /\ received = "setup"
  /\ received' = "none" /\ usb_req' = hreq
  /\ IF hreq.wLength = 0 \/ hreq.in THEN SetupRead(hreq) ELSE SetupWrite(hreq)
  /\ UNCHANGED <<daddr, ctr_tx, rx, reset_istr, hostVars, sound, callbacks>>

(* _usbd_ep_read_packet re-arms the endpoint, unless NAK is forced; it does  *)
(* nothing when the endpoint is still armed.                                 *)
StillArmed == stat_rx = "VALID"
RxRead ==
  /\ received' = IF StillArmed THEN received ELSE "none"
  /\ stat_rx' = IF usb_force_nak THEN stat_rx ELSE "VALID"

(* The two data states of _usbd_control_out: a chunk; after the last one the *)
(* dispatch and the status packet.                                           *)
IsLastChunk_OneLong(left) == left <= PacketSize + 1
IsLastChunk(left) == left <= PacketSize

OutData ==
  /\ sound' = (sound /\ rx.off = datasize)
  /\ UNCHANGED <<dataoff, usb_complete_cb, callbacks>>
  /\ IF StillArmed \/ MinOf(rx.len, ExpectedLen) # ExpectedLen
     THEN /\ received' = IF StillArmed THEN received ELSE "none"
          /\ Stall /\ UNCHANGED <<datasize, dispatched>>
     ELSE LET got == datasize + ExpectedLen
              d == Dispatch(usb_req, got)
          IN IF usb_fsm_state = "DATA_OUT"
             THEN /\ usb_fsm_state' = IF IsLastChunk(usb_req.wLength - got)
                                      THEN "LAST_DATA_OUT" ELSE "DATA_OUT"
                  /\ datasize' = got
                  /\ RxRead /\ UNCHANGED <<tx, stat_tx, usb_needs_zlp, dispatched>>
             ELSE /\ dispatched' = dispatched + 1 /\ datasize' = d.datasize
                  /\ IF d.handled
                     THEN /\ RxRead /\ WritePacket(0, 0)
                          /\ usb_fsm_state' = "STATUS_IN" /\ UNCHANGED usb_needs_zlp
                     ELSE received' = "none" /\ Stall

OutStatus ==
  /\ RxRead /\ usb_fsm_state' = "IDLE"
  /\ callbacks' = IF usb_complete_cb THEN callbacks + 1 ELSE callbacks
  /\ usb_complete_cb' = FALSE
  /\ UNCHANGED <<datasize, dataoff, usb_needs_zlp, stat_tx, tx, sound, dispatched>>

(* In any other state it stalls, and the packet stays unread. *)
PollOut ==
  /\ ~reset_istr /\ received = "out"
  /\ CASE usb_fsm_state \in {"DATA_OUT", "LAST_DATA_OUT"} -> OutData
       [] usb_fsm_state = "STATUS_OUT" -> OutStatus
       [] OTHER -> Stall /\ UNCHANGED <<datasize, dataoff, usb_complete_cb, received, history>>
  /\ UNCHANGED <<usb_req, usb_force_nak, daddr, ctr_tx, rx, reset_istr, hostVars>>

(* _usbd_control_in, in the state after the packet that was sent. *)
AfterStatusIn_NoLatch ==
  /\ usb_fsm_state' = "IDLE"
  /\ callbacks' = IF usb_complete_cb THEN callbacks + 1 ELSE callbacks
  /\ UNCHANGED <<daddr, usb_force_nak, stat_rx, stat_tx, tx, datasize, dataoff, usb_needs_zlp>>

AfterStatusIn ==
  /\ usb_fsm_state' = "IDLE"
  /\ daddr' = IF IsSetAddress(usb_req) THEN usb_req.wValue % 128 ELSE daddr
  /\ callbacks' = IF usb_complete_cb THEN callbacks + 1 ELSE callbacks
  /\ UNCHANGED <<usb_force_nak, stat_rx, stat_tx, tx, datasize, dataoff, usb_needs_zlp>>

AfterLastData ==
  /\ usb_fsm_state' = "STATUS_OUT"
  /\ usb_force_nak' = FALSE /\ stat_rx' = "VALID"
  /\ UNCHANGED <<daddr, callbacks, stat_tx, tx, datasize, dataoff, usb_needs_zlp>>

PollIn ==
  /\ ~reset_istr /\ received = "none" /\ ctr_tx
  /\ ctr_tx' = FALSE
  /\ CASE usb_fsm_state = "DATA_IN" ->
            /\ SendChunk(datasize, dataoff, usb_needs_zlp)
            /\ UNCHANGED <<usb_force_nak, stat_rx, daddr, callbacks>>
       [] usb_fsm_state = "LAST_DATA_IN" -> AfterLastData
       [] usb_fsm_state = "STATUS_IN" -> AfterStatusIn
       [] OTHER -> Stall /\ UNCHANGED <<datasize, dataoff, usb_force_nak, daddr, callbacks>>
  /\ UNCHANGED <<usb_req, usb_complete_cb, received, rx, reset_istr, hostVars, sound,
                 dispatched>>

Poll == PollReset \/ PollSetup \/ PollOut \/ PollIn

-----------------------------------------------------------------------------
(* The host and the bus. *)

Settled == ~ctr_tx /\ received = "none"

HostSetup ==
  /\ hstage = "idle" /\ Settled
  /\ daddr = haddr /\ stat_rx # "DISABLED"
  /\ received' = "setup" /\ stat_rx' = "NAK" /\ stat_tx' = "NAK"
  /\ hreq' \in Requests
  /\ hstage' = IF hreq'.wLength = 0 THEN "status" ELSE "data"
  /\ hcount' = 0 /\ outcome' = "none"
  /\ sound' = TRUE /\ dispatched' = 0 /\ callbacks' = 0
  /\ UNCHANGED <<device, daddr, ctr_tx, rx, tx, reset_istr, haddr>>

(* The status stage runs against the data stage, or IN when there is none.   *)
WantsIn ==
  \/ hstage = "data" /\ hreq.in
  \/ hstage = "status" /\ (hreq.wLength = 0 \/ ~hreq.in)
WantsOut ==
  \/ hstage = "data" /\ ~hreq.in
  \/ hstage = "status" /\ hreq.wLength > 0 /\ hreq.in

(* The host ends its transfer, or goes on with a data stage of n bytes.      *)
HostEnds == hstage' = "idle" /\ outcome' = "ok" /\ UNCHANGED hcount
HostMoves(n, last) ==
  /\ hcount' = hcount + n /\ UNCHANGED outcome
  /\ hstage' = IF last THEN "status" ELSE "data"

HostIn ==
  /\ WantsIn /\ daddr = haddr /\ stat_tx = "VALID"
  /\ stat_tx' = "NAK" /\ ctr_tx' = TRUE
  /\ sound' = (sound /\ (tx.len > 0 => tx.off = hcount))
  /\ IF hstage = "status"
     THEN HostEnds /\ haddr' = IF IsSetAddress(hreq) THEN hreq.wValue ELSE haddr
     ELSE /\ HostMoves(tx.len, tx.len < PacketSize \/ hcount + tx.len >= hreq.wLength)
          /\ UNCHANGED haddr
  /\ UNCHANGED <<device, daddr, received, stat_rx, rx, tx, reset_istr, hreq, dispatched,
                 callbacks>>

HostOut ==
  /\ WantsOut /\ daddr = haddr /\ stat_rx = "VALID"
  /\ stat_rx' = "NAK" /\ received' = "out"
  /\ LET n == IF hstage = "status" THEN 0 ELSE MinOf(PacketSize, hreq.wLength - hcount) IN
     /\ rx' = [off |-> hcount, len |-> n]
     /\ IF hstage = "status" THEN HostEnds ELSE HostMoves(n, hcount + n = hreq.wLength)
  /\ UNCHANGED <<device, daddr, ctr_tx, stat_tx, tx, reset_istr, hreq, haddr, history>>

HostSeesStall ==
  /\ daddr = haddr
  /\ (WantsIn /\ stat_tx = "STALL") \/ (WantsOut /\ stat_rx = "STALL")
  /\ hstage' = "idle" /\ outcome' = "stall"
  /\ UNCHANGED <<device, daddr, endpoint, reset_istr, hreq, hcount, haddr, history>>

HostAbandons ==
  /\ hstage # "idle" /\ hstage' = "idle"
  /\ UNCHANGED <<device, daddr, endpoint, reset_istr, hreq, hcount, haddr, outcome, history>>

BusReset ==
  /\ Settled
  /\ stat_rx' = "DISABLED" /\ stat_tx' = "DISABLED"
  /\ daddr' = Off /\ reset_istr' = TRUE
  /\ hstage' = "idle" /\ haddr' = 0
  /\ UNCHANGED <<device, received, ctr_tx, rx, tx, hreq, hcount, outcome, history>>

HostProgress == HostIn \/ HostOut \/ HostSeesStall

Next == Poll \/ HostSetup \/ HostProgress \/ HostAbandons \/ BusReset

(* The main loop never stops polling, and the host goes on with a transfer   *)
(* as soon as the device lets it.                                            *)
Spec == Init /\ [][Next]_vars /\ WF_vars(Poll) /\ WF_vars(HostProgress)

-----------------------------------------------------------------------------
(* Properties. *)

(* What the host is entitled to, by request: the descriptors whole, every    *)
(* string, the status and configuration of the device, the status of an      *)
(* endpoint and of an interface, and the DFU requests (usb.cpp:421-430,      *)
(* 477-484, 537, 560-565, dfu.cpp:302-307).  Owed is the length of the reply.*)
Standard(r, recipient, code) ==
  r.type = "standard" /\ r.recipient = recipient /\ r.bRequest = code
Descriptor(r, type, index) ==
  Standard(r, "device", GET_DESCRIPTOR) /\ r.wValue = 256 * type + index
Text(r, i) == Descriptor(r, DT_STRING, i) /\ r.wIndex = ENGLISH_US

Promised(r) ==
  /\ r.in \/ r.wLength <= BufferSize
  /\ \/ \E i \in 0 .. 255 : Descriptor(r, DT_DEVICE, i) \/ Descriptor(r, DT_CONFIGURATION, i)
     \/ Descriptor(r, DT_STRING, 0)
     \/ \E i \in 1 .. 5 : Text(r, i)
     \/ Standard(r, "device", GET_STATUS) \/ Standard(r, "device", GET_CONFIGURATION)
     \/ Standard(r, "device", SET_ADDRESS) /\ ~r.in /\ r.wValue < 128
     \/ Standard(r, "device", SET_CONFIGURATION) /\ r.wValue = 1
     \/ Standard(r, "interface", GET_INTERFACE) \/ Standard(r, "interface", SET_INTERFACE)
     \/ Standard(r, "interface", GET_STATUS) \/ Standard(r, "endpoint", GET_STATUS)
     \/ IsHalt(r, SET_FEATURE) \/ IsHalt(r, CLEAR_FEATURE)
     \/ IsDfu(r) /\ r.bRequest \in 0 .. 6

Owed(r) ==
  CASE r.type = "standard" /\ r.bRequest = GET_STATUS -> 2
    [] \E i \in 0 .. 255 : Descriptor(r, DT_DEVICE, i) -> 18
    [] \E i \in 0 .. 255 : Descriptor(r, DT_CONFIGURATION, i) -> 27
    [] Descriptor(r, DT_STRING, 0) -> 4
    [] \E i \in 1 .. 5 : Text(r, i) -> 2 + 2 * _usb_strings[r.wValue % 256]
    [] IsDfu(r) /\ r.bRequest = DFU_GETSTATUS -> 6
    [] IsDfu(r) /\ r.bRequest = DFU_UPLOAD -> UploadLen(r.wValue)
    [] Standard(r, "interface", SET_INTERFACE) -> 0
    [] OTHER -> 1
ReplyLen(r) == MinOf(Owed(r), r.wLength)

(* A packet that lies in usbd_control_buffer. *)
Packet == {p \in [off : 0 .. BufferSize, len : 0 .. PacketSize] : p.off + p.len <= BufferSize}

(* Requests for a reply that their handlers take for granted: datasize stays *)
(* wLength, or what an earlier transfer has left (usb.cpp:503-515, 629).     *)
Unanswered(r) ==
  /\ r.in /\ r.wLength > 0
  /\ \/ IsDfu(r) /\ r.bRequest \in {DFU_DETACH, DFU_DNLOAD, DFU_CLRSTATUS, DFU_ABORT}
     \/ Standard(r, "device", SET_CONFIGURATION)

(* Types: in particular no packet and no count of a transfer under way       *)
(* leaves usbd_control_buffer (usb.cpp:690-696, 715, 772), unless the host   *)
(* asks for a reply where none is prepared.  Those are cut to wLength only,  *)
(* and packets then are read from beyond the buffer (usb.cpp:678-685).       *)
TypeOK ==
  /\ usb_fsm_state \in FsmStates /\ usb_req \in Requests \cup {NoRequest}
  /\ datasize \in Nat /\ dataoff \in Nat
  /\ ~Unanswered(usb_req) =>
       /\ usb_fsm_state # "IDLE" => datasize <= BufferSize
       /\ usb_fsm_state \in {"DATA_IN", "LAST_DATA_IN"} => dataoff <= BufferSize
       /\ stat_tx = "VALID" => tx \in Packet
  /\ usb_needs_zlp \in BOOLEAN /\ usb_force_nak \in BOOLEAN /\ usb_complete_cb \in BOOLEAN
  /\ daddr \in {Off} \cup 0 .. 127 /\ haddr \in 0 .. 127
  /\ received \in {"none", "setup", "out"} /\ ctr_tx \in BOOLEAN
  /\ stat_rx \in Stats /\ stat_tx \in Stats
  /\ tx.off \in Nat /\ tx.len \in 0 .. PacketSize
  /\ rx.off \in Nat /\ rx.len \in 0 .. PacketSize /\ (rx.len > 0 => rx \in Packet)
  /\ reset_istr \in BOOLEAN
  /\ hstage \in {"idle", "data", "status"} /\ hreq \in Requests \cup {NoRequest}
  /\ hcount \in Nat /\ outcome \in {"ok", "stall", "none"}
  /\ sound \in BOOLEAN /\ dispatched \in Nat /\ callbacks \in Nat

(* When a transfer with a reply succeeds, the host has got the reply, whole, *)
(* in order and cut to what it asked for, whatever transfers were given up   *)
(* and whatever bus resets came before (usb.cpp:376-395, 671-696).  There is *)
(* none to speak of for a request that is Unanswered.                        *)
ReadIsExact ==
  outcome = "ok" /\ hreq.in /\ hreq.wLength > 0 /\ ~Unanswered(hreq) =>
    sound /\ hcount = ReplyLen(hreq)

(* Against the comment, the case of GET_STATUS prepares the two bytes and    *)
(* leaves the switch without saying so: the request is refused               *)
(* (usb.cpp:537, 553-558).                                                   *)
InterfaceStatus(r) == Standard(r, "interface", GET_STATUS)

(* With the exception of InterfaceStatus, which is always refused, a         *)
(* transfer fails only because its request is not one of those promised, and *)
(* succeeds only if it is: nothing that was given up before, no halt feature *)
(* and no bus reset makes the device refuse what it should serve             *)
(* (usb.cpp:313-324, 622-637, 671-747).                                      *)
StallMeansUnsupported ==
  /\ outcome = "stall" => ~Promised(hreq) \/ InterfaceStatus(hreq)
  /\ outcome = "ok" => Promised(hreq) /\ ~InterfaceStatus(hreq)

(* A request is dispatched at most once, and a request with data only when   *)
(* all of it has arrived in order; a transfer succeeds only if its request   *)
(* has been dispatched (usb.cpp:757-784).                                    *)
DispatchedOnce ==
  /\ dispatched <= 1
  /\ dispatched = 1 /\ received # "setup" /\ ~hreq.in => sound /\ hcount = hreq.wLength
  /\ outcome = "ok" => dispatched = 1

(* A completion callback, which in the DFU layer erases and writes the       *)
(* flash, runs at most once, only for the request that registered it and     *)
(* only when the host has read the reply and completed the status stage      *)
(* (usb.cpp:734, 785-791, 818-819).                                          *)
CallbackAfterReply ==
  callbacks > 0 => callbacks = 1 /\ IsGetStatus(hreq) /\ outcome = "ok"

(* Host and device agree on the address whenever the device has nothing left *)
(* to poll, although SET_ADDRESS must be obeyed only after its status stage, *)
(* for hosts that halt no endpoint above 7 (HaltAssumption): the register of *)
(* "endpoint 19" is the address register (usb.cpp:313-336, 496, 821-826).    *)
AddressAgrees ==
  (~ctr_tx /\ received = "none" /\ ~reset_istr) => daddr \in {haddr, Off}

(* No transfer hangs: it succeeds, is refused, or the host gives it up.      *)
TransferEnds == hstage # "idle" ~> hstage = "idle"
=============================================================================
