----------------------------- MODULE UsbProofs -----------------------------
(***************************************************************************)
(* Proofs about UsbControl for every packet size, every buffer and every   *)
(* set of requests that its assumptions admit, in two layers.  UsbInv is   *)
(* about the order of events: a request is dispatched once and with all    *)
(* its data, the completion callback runs after the reply, and the two     *)
(* sides agree on the address.  ReplyInv is about the data on top of that: *)
(* every reply arrives whole and in order, and the device refuses exactly  *)
(* the requests that it does not promise to serve.                         *)
(***************************************************************************)
EXTENDS UsbControl, TLAPS

-----------------------------------------------------------------------------
(* Requests.                                                                 *)

(* The fields of a request, and of what stands for none.                     *)
LEMMA RequestTypes ==
  ASSUME NEW r \in Requests \cup {NoRequest}
  PROVE  r.in \in BOOLEAN /\ r.wLength \in Nat /\ r.wValue \in Nat
<1>1. \A x \in uint16_t : x \in Nat
  <2>1. \A n \in Nat : \A x \in 0 .. n : x \in Nat
    OBVIOUS
  <2> DEFINE top == 65535
  <2>2. top \in Nat
    OBVIOUS
  <2>3. uint16_t = 0 .. top
    BY DEF uint16_t
  <2> HIDE DEF top
  <2> QED
    BY <2>1, <2>2, <2>3
<1>2. ASSUME r \in SetupData
      PROVE  r.in \in BOOLEAN /\ r.wLength \in uint16_t /\ r.wValue \in uint16_t
  BY <1>2 DEF SetupData
<1>3. Requests \subseteq SetupData
  BY UsbAssumption, Zenon
<1>4. CASE r \in Requests
  <2>1. r \in SetupData
    BY <1>3, <1>4
  <2> QED
    BY <1>1, <1>2, <2>1
<1>5. CASE r = NoRequest
  BY <1>5 DEF NoRequest
<1> QED
  BY <1>4, <1>5

(* Of the assumption on the constants, the part that counts with packets.    *)
LEMMA PacketSizeIs == PacketSize \in Nat /\ PacketSize > 0
<1>1. PacketSize \in Nat \ {0}
  BY UsbAssumption, Zenon
<1> QED
  BY <1>1

(* SET_ADDRESS is served only for an address of seven bits                   *)
(* (usb.cpp:488-499).                                                        *)
LEMMA ServedAddress ==
  ASSUME NEW r \in Requests \cup {NoRequest}, IsSetAddress(r), NEW s, Dispatch(r, s).handled
  PROVE  r.wValue < 128
<1>1. r.type = "standard" /\ r.recipient = "device" /\ r.bRequest = 5
  BY DEF IsSetAddress, SET_ADDRESS
<1>2. Dispatch(r, s) = DeviceRequest(r, s)
  BY <1>1 DEF Dispatch, IsDfu, StandardRequest
<1>3. CASE ~(r.wValue < 128)
  <2>1. DeviceRequest(r, s) = NotSupported(s)
    BY <1>1, <1>3 DEF DeviceRequest, SET_ADDRESS, SET_CONFIGURATION, GET_CONFIGURATION,
       GET_DESCRIPTOR, GET_STATUS
  <2> QED
    BY <1>2, <2>1 DEF NotSupported
<1> QED
  BY <1>3

-----------------------------------------------------------------------------
(* The inductive invariant.  Where a SETUP waits to be read, the state       *)
(* machine still belongs to the transfer before and says nothing.            *)

Types ==
  /\ usb_fsm_state \in FsmStates
  /\ hreq \in Requests \cup {NoRequest} /\ usb_req \in Requests \cup {NoRequest}
  /\ usb_complete_cb \in BOOLEAN /\ reset_istr \in BOOLEAN
  /\ received \in {"none", "setup", "out"} /\ ctr_tx \in BOOLEAN
  /\ stat_rx \in Stats /\ stat_tx \in Stats
  /\ hstage \in {"idle", "data", "status"} /\ outcome \in {"ok", "stall", "none"}
  /\ sound \in BOOLEAN /\ dispatched \in 0 .. 1 /\ callbacks \in 0 .. 1

(* A SETUP that waits to be read has found the endpoint quiet; one that has  *)
(* been read is the request the device works on.                             *)
Fresh ==
  /\ received = "setup" =>
       /\ ~ctr_tx /\ ~reset_istr /\ stat_rx = "NAK" /\ stat_tx = "NAK"
       /\ outcome = "none" /\ sound /\ dispatched = 0 /\ callbacks = 0 /\ hcount = 0
  /\ received # "setup" => usb_req = hreq

(* A packet received is answered before the next is accepted, and a packet   *)
(* sent is polled before the next is armed.  The host never has more bytes   *)
(* to send than the request says.                                            *)
Bus ==
  /\ received = "out" => stat_rx # "VALID"
  /\ ctr_tx => stat_tx # "VALID"
  /\ reset_istr => Settled /\ stat_rx = "DISABLED" /\ stat_tx = "DISABLED" /\ hstage = "idle"
  /\ hstage = "data" => hreq.wLength > 0
  /\ hstage = "data" /\ ~hreq.in => hcount \in Nat /\ hcount < hreq.wLength

(* A reply is sent for a request that asks for one, dispatched when its      *)
(* SETUP was read; an OUT packet then is the status stage.                   *)
Reading ==
  received # "setup" =>
    /\ usb_fsm_state \in {"DATA_IN", "LAST_DATA_IN", "STATUS_OUT"} =>
         hreq.in /\ hreq.wLength > 0
    /\ hreq.in => dispatched = 1
    /\ received = "out" /\ hreq.in => outcome = "ok" /\ hstage = "idle"

(* While data is collected nothing has been dispatched, and what the host    *)
(* has sent is what the device has, or that and the packet to be read.       *)
Writing ==
  received # "setup" /\ usb_fsm_state \in {"DATA_OUT", "LAST_DATA_OUT"} =>
    /\ ~hreq.in /\ ~ctr_tx /\ stat_tx # "VALID"
    /\ sound /\ dispatched = 0
    /\ datasize \in Nat /\ datasize < hreq.wLength
    /\ usb_fsm_state = "LAST_DATA_OUT" <=> hreq.wLength - datasize <= PacketSize
    /\ received = "none" => hcount = datasize
    /\ received = "out" =>
         /\ rx = [off |-> datasize, len |-> MinOf(PacketSize, hreq.wLength - datasize)]
         /\ hcount = datasize + rx.len

(* The status packet confirms a request that has been dispatched, with all   *)
(* its data.                                                                 *)
Answered ==
  received # "setup" =>
    /\ usb_fsm_state = "STATUS_IN" =>
         /\ received = "none" /\ dispatched = 1
         /\ hreq.wLength = 0 \/ ~hreq.in
         /\ ctr_tx => outcome = "ok" /\ hstage = "idle"
    /\ stat_tx = "VALID" => dispatched = 1
    /\ stat_tx = "VALID" /\ ~hreq.in => usb_fsm_state = "STATUS_IN" /\ tx.len = 0
    /\ dispatched = 1 /\ ~hreq.in => sound /\ hcount = hreq.wLength
    /\ outcome = "ok" => dispatched = 1

(* The callback belongs to the request in hand, and has run only if that is  *)
(* over.                                                                     *)
Called ==
  /\ usb_complete_cb /\ received # "setup" => IsGetStatus(hreq)
  /\ callbacks > 0 =>
       /\ usb_fsm_state = "IDLE" /\ hstage = "idle" /\ outcome = "ok"
       /\ IsGetStatus(hreq)

(* Between the status stage of SET_ADDRESS and its poll the host uses the    *)
(* new address already; at any other time both use the same.                 *)
Readdressing == ctr_tx /\ usb_fsm_state = "STATUS_IN" /\ IsSetAddress(hreq)
Addressed ==
  /\ Readdressing => haddr = hreq.wValue
  /\ ~Readdressing => daddr = Off \/ daddr = haddr
  /\ reset_istr => haddr = 0
  /\ received # "setup" /\ IsSetAddress(hreq) /\ (stat_tx = "VALID" \/ Readdressing) =>
       hreq.wValue < 128

UsbInv ==
  Types /\ Fresh /\ Bus /\ Reading /\ Writing /\ Answered /\ Called /\ Addressed

(* It holds of a device without power and a host that has not begun.         *)
LEMMA InitUsbInv == Init => UsbInv
<1> SUFFICES ASSUME Init PROVE UsbInv
  OBVIOUS
<1>1. ~NoRequest.in /\ ~IsSetAddress(NoRequest)
  BY DEF NoRequest, IsSetAddress, SET_ADDRESS
<1>2. hreq = NoRequest /\ usb_req = NoRequest
  BY DEF Init
<1>3. Types
  <2>1. hreq \in Requests \cup {NoRequest} /\ usb_req \in Requests \cup {NoRequest}
    BY <1>2
  <2>2. /\ usb_complete_cb \in BOOLEAN /\ reset_istr \in BOOLEAN /\ ctr_tx \in BOOLEAN
        /\ sound \in BOOLEAN
    BY DEF Init
  <2>3. dispatched \in 0 .. 1 /\ callbacks \in 0 .. 1
    BY DEF Init
  <2>4. /\ usb_fsm_state \in FsmStates /\ stat_rx \in Stats /\ stat_tx \in Stats
        /\ received \in {"none", "setup", "out"}
        /\ hstage \in {"idle", "data", "status"} /\ outcome \in {"ok", "stall", "none"}
    BY DEF Init, FsmStates, Stats
  <2> QED
    BY <2>1, <2>2, <2>3, <2>4, Zenon DEF Types
<1> QED
  BY <1>1, <1>2, <1>3 DEF Init, UsbInv, Fresh, Bus, Reading, Writing, Answered, Called, Addressed,
     Readdressing

-----------------------------------------------------------------------------
(* The device.                                                               *)

(* A bus reset is answered with the address 0 and an armed endpoint          *)
(* (usb.cpp:924-934).                                                        *)
LEMMA PollResetInv == UsbInv /\ PollReset => UsbInv'
<1> SUFFICES ASSUME UsbInv, PollReset PROVE UsbInv'
  OBVIOUS
<1> USE DEF PollReset, UsbInv, Types, Bus, Settled, device, fsm, hostVars, history
<1>1. Types'
  BY DEF Stats
<1>2. Fresh' /\ Bus'
  BY DEF Fresh
<1>3. Reading' /\ Writing' /\ Called'
  BY DEF Reading, Writing, Called
<1>4. Answered'
  BY DEF Answered
<1>5. Addressed'
  BY DEF Addressed, Readdressing
<1> QED
  BY <1>1, <1>2, <1>3, <1>4, <1>5

(* What is left of a SETUP once it has been read: a request served at once,  *)
(* with the first packet of its data or the status packet; one refused; or   *)
(* one that waits for its data (usb.cpp:671-747).                            *)
Replies ==
  /\ hreq.in /\ hreq.wLength > 0 /\ dispatched' = dispatched + 1
  /\ usb_fsm_state' \in {"DATA_IN", "LAST_DATA_IN"}
  /\ stat_tx' = "VALID" /\ stat_rx' \in Stats
Confirms ==
  /\ hreq.wLength = 0 /\ dispatched' = dispatched + 1
  /\ usb_fsm_state' = "STATUS_IN" /\ stat_tx' = "VALID" /\ stat_rx' \in Stats
  /\ tx'.len = 0
  /\ IsSetAddress(hreq) => hreq.wValue < 128
Refuses ==
  /\ hreq.in \/ hreq.wLength = 0 => dispatched' = dispatched + 1
  /\ ~hreq.in /\ hreq.wLength > 0 => dispatched' = dispatched
  /\ usb_fsm_state' = "IDLE" /\ stat_tx' = "STALL" /\ stat_rx' = "STALL"
Expects ==
  /\ ~hreq.in /\ hreq.wLength > 0 /\ dispatched' = dispatched
  /\ usb_fsm_state' = IF hreq.wLength > PacketSize THEN "DATA_OUT" ELSE "LAST_DATA_OUT"
  /\ datasize' = 0 /\ stat_tx' = stat_tx /\ stat_rx' = "VALID"

(* Reading a SETUP has one of these outcomes (usb.cpp:671-747).              *)
LEMMA SetupOutcome ==
  ASSUME UsbInv, PollSetup
  PROVE  /\ Replies \/ Confirms \/ Refuses \/ Expects
         /\ usb_complete_cb' = IsGetStatus(hreq)
<1>1. hreq \in Requests \cup {NoRequest} /\ stat_tx = "NAK" /\ received = "setup"
  BY DEF UsbInv, Types, Fresh, PollSetup
<1>2. hreq.in \in BOOLEAN /\ hreq.wLength \in Nat
  BY <1>1, RequestTypes
<1>3. usb_complete_cb' = IsGetStatus(hreq)
  BY DEF PollSetup, SetupRead, SetupWrite, CallbackAfter
<1>4. CASE hreq.wLength = 0 \/ hreq.in
  <2>1. SetupRead(hreq)
    BY <1>4 DEF PollSetup
  <2> DEFINE d == Dispatch(hreq, datasize)
             n == MinOf(d.datasize, hreq.wLength)
  <2>2. dispatched' = dispatched + 1
    BY <2>1 DEF SetupRead
  <2>3. CASE ~d.handled
    <3>1. Stall
      BY <2>1, <2>3 DEF SetupRead
    <3> QED
      BY <1>2, <1>3, <1>4, <2>2, <3>1 DEF Stall, Refuses
  <2>4. CASE d.handled /\ hreq.wLength > 0
    <3>1. SendChunk(n, 0, NeedsZlp(n, hreq.wLength)) /\ stat_rx' = RxAfter(hreq)
      BY <2>1, <2>4 DEF SetupRead
    <3>2. stat_tx' = "VALID"
      BY <1>1, <3>1 DEF SendChunk, WritePacket
    <3>3. usb_fsm_state' \in {"DATA_IN", "LAST_DATA_IN"}
      BY <3>1 DEF SendChunk
    <3>4. stat_rx' \in Stats
      BY <3>1 DEF RxAfter, Stats
    <3> QED
      BY <1>2, <1>3, <1>4, <2>2, <2>4, <3>2, <3>3, <3>4 DEF Replies
  <2>5. CASE d.handled /\ ~(hreq.wLength > 0)
    <3>1. WritePacket(0, 0) /\ usb_fsm_state' = "STATUS_IN" /\ stat_rx' = RxAfter(hreq)
      BY <2>1, <2>5 DEF SetupRead
    <3>2. stat_tx' = "VALID" /\ tx' = [off |-> 0, len |-> 0]
      BY <1>1, <3>1 DEF WritePacket
    <3>3. stat_rx' \in Stats
      BY <3>1 DEF RxAfter, Stats
    <3>4. IsSetAddress(hreq) => hreq.wValue < 128
      BY <1>1, <2>5, ServedAddress
    <3> QED
      BY <1>2, <1>3, <2>2, <2>5, <3>1, <3>2, <3>3, <3>4 DEF Confirms
  <2> QED
    BY <2>3, <2>4, <2>5
<1>5. CASE ~(hreq.wLength = 0 \/ hreq.in)
  <2>1. SetupWrite(hreq)
    BY <1>5 DEF PollSetup
  <2>2. CASE FitsBuffer(hreq)
    BY <1>2, <1>3, <1>5, <2>1, <2>2 DEF SetupWrite, Expects
  <2>3. CASE ~FitsBuffer(hreq)
    BY <1>2, <1>3, <1>5, <2>1, <2>3 DEF SetupWrite, Stall, Refuses
  <2> QED
    BY <2>2, <2>3
<1> QED
  BY <1>4, <1>5

(* Each keeps the invariant.                                                 *)
LEMMA PollSetupInv == UsbInv /\ PollSetup => UsbInv'
<1> SUFFICES ASSUME UsbInv, PollSetup PROVE UsbInv'
  OBVIOUS
<1>1. /\ received' = "none" /\ usb_req' = hreq /\ hreq' = hreq
      /\ ctr_tx' = FALSE /\ reset_istr' = FALSE /\ outcome' = outcome /\ hstage' = hstage
      /\ hcount' = hcount /\ sound' = sound /\ callbacks' = callbacks /\ haddr' = haddr
      /\ daddr' = daddr
  BY DEF PollSetup, hostVars, UsbInv, Types, Fresh
<1>2. /\ ~ctr_tx /\ ~reset_istr /\ stat_tx = "NAK" /\ received = "setup"
      /\ outcome = "none" /\ sound /\ dispatched = 0 /\ callbacks = 0 /\ hcount = 0
  BY DEF PollSetup, UsbInv, Fresh
<1>3. hreq.in \in BOOLEAN /\ hreq.wLength \in Nat /\ IsGetStatus(hreq) \in BOOLEAN
      /\ PacketSize \in Nat /\ hreq \in Requests \cup {NoRequest}
  <2>1. hreq \in Requests \cup {NoRequest}
    BY DEF UsbInv, Types
  <2>2. hreq.in \in BOOLEAN /\ hreq.wLength \in Nat
    BY <2>1, RequestTypes
  <2>4. IsGetStatus(hreq) \in BOOLEAN
    BY Zenon DEF IsGetStatus
  <2>3. PacketSize \in Nat
    BY PacketSizeIs
  <2> QED
    BY <2>1, <2>2, <2>3, <2>4
<1>4. usb_complete_cb' = IsGetStatus(hreq) /\ (Replies \/ Confirms \/ Refuses \/ Expects)
  BY SetupOutcome
<1> USE DEF Replies, Confirms, Refuses, Expects
<1>5. Types'
  <2>1. usb_fsm_state' \in FsmStates /\ dispatched' \in 0 .. 1
    BY <1>2, <1>3, <1>4 DEF FsmStates
  <2>2. stat_tx' \in Stats /\ stat_rx' \in Stats
    BY <1>2, <1>4 DEF Stats
  <2> QED
    BY <1>1, <1>3, <1>4, <2>1, <2>2 DEF UsbInv, Types
<1>6. Fresh' /\ Bus'
  BY <1>1 DEF Fresh, Bus, UsbInv
<1>7. Reading'
  BY <1>1, <1>2, <1>3, <1>4 DEF Reading
<1>8. Writing'
  BY <1>1, <1>2, <1>3, <1>4 DEF Writing
<1>9. Answered'
  BY <1>1, <1>2, <1>3, <1>4 DEF Answered
<1>10. Called'
  BY <1>1, <1>2, <1>4 DEF Called
<1>11. Addressed'
  <2>1. ~Readdressing /\ ~Readdressing'
    BY <1>1, <1>2 DEF Readdressing
  <2>2. IsSetAddress(hreq) => ~hreq.in
    BY DEF IsSetAddress
  <2>3. IsSetAddress(hreq) /\ stat_tx' = "VALID" => hreq.wValue < 128
    BY <1>2, <1>4, <2>2
  <2>4. IsSetAddress(hreq') <=> IsSetAddress(hreq)
    BY <1>1, Zenon
  <2> QED
    BY <1>1, <1>2, <2>1, <2>3, <2>4 DEF UsbInv, Addressed
<1> QED
  BY <1>5, <1>6, <1>7, <1>8, <1>9, <1>10, <1>11 DEF UsbInv

(* A chunk in turn continues the data before it and is never refused for its *)
(* length; after the last one the request is dispatched (usb.cpp:757-784).   *)
Collects ==
  /\ usb_fsm_state = "DATA_OUT" /\ dispatched' = dispatched
  /\ datasize' = hcount /\ hcount < hreq.wLength
  /\ usb_fsm_state' = IF hreq.wLength - hcount <= PacketSize THEN "LAST_DATA_OUT" ELSE "DATA_OUT"
  /\ stat_tx' = stat_tx /\ stat_rx' \in Stats
Completes ==
  /\ usb_fsm_state = "LAST_DATA_OUT" /\ dispatched' = 1
  /\ hcount = hreq.wLength
  /\ \/ /\ usb_fsm_state' = "STATUS_IN" /\ stat_tx' = "VALID" /\ tx'.len = 0
        /\ stat_rx' \in Stats /\ (IsSetAddress(hreq) => hreq.wValue < 128)
     \/ usb_fsm_state' = "IDLE" /\ stat_tx' = "STALL" /\ stat_rx' = "STALL"

(* Reading a data packet has one of these outcomes (usb.cpp:757-784).        *)
LEMMA OutDataOutcome ==
  ASSUME UsbInv, received = "out", usb_fsm_state \in {"DATA_OUT", "LAST_DATA_OUT"}, OutData
  PROVE  /\ Collects \/ Completes
         /\ received' = "none" /\ sound' = TRUE
         /\ hcount > datasize /\ hcount <= hreq.wLength /\ datasize \in Nat /\ hcount \in Nat
<1>1. /\ usb_req = hreq /\ hreq \in Requests \cup {NoRequest} /\ stat_rx # "VALID"
      /\ stat_rx \in Stats
  BY DEF UsbInv, Types, Fresh, Bus
<1>2. hreq.wLength \in Nat /\ PacketSize \in Nat /\ PacketSize > 0
  BY <1>1, RequestTypes, PacketSizeIs
<1> DEFINE len == MinOf(PacketSize, hreq.wLength - datasize)
<1>3. /\ ~hreq.in /\ stat_tx # "VALID" /\ sound /\ dispatched = 0
      /\ datasize \in Nat /\ datasize < hreq.wLength
      /\ usb_fsm_state = "LAST_DATA_OUT" <=> hreq.wLength - datasize <= PacketSize
      /\ rx = [off |-> datasize, len |-> len] /\ hcount = datasize + rx.len
  BY DEF UsbInv, Writing
<1>4. /\ len \in Nat /\ len > 0 /\ len <= PacketSize /\ datasize + len <= hreq.wLength
      /\ len = PacketSize \/ datasize + len = hreq.wLength
      /\ hreq.wLength - datasize <= PacketSize => datasize + len = hreq.wLength
      /\ ~(hreq.wLength - datasize <= PacketSize) => datasize + len < hreq.wLength
  BY <1>2, <1>3 DEF MinOf
<1>5. ExpectedLen = len /\ MinOf(rx.len, ExpectedLen) = ExpectedLen /\ rx.off = datasize
  BY <1>1, <1>3, <1>4 DEF ExpectedLen, MinOf
<1> HIDE DEF len
<1>6. hcount = datasize + len
  BY <1>3
<1>7. sound' = TRUE
  BY <1>3, <1>5 DEF OutData
<1>8. ~StillArmed
  BY <1>1 DEF StillArmed
<1>9. RxRead => received' = "none" /\ stat_rx' \in Stats
  BY <1>1, <1>8 DEF RxRead, Stats
<1>10. CASE usb_fsm_state = "DATA_OUT"
  <2>1. /\ usb_fsm_state' = IF IsLastChunk(usb_req.wLength - (datasize + ExpectedLen))
                            THEN "LAST_DATA_OUT" ELSE "DATA_OUT"
        /\ datasize' = datasize + ExpectedLen
        /\ RxRead /\ stat_tx' = stat_tx /\ dispatched' = dispatched
    BY <1>5, <1>8, <1>10 DEF OutData
  <2> QED
    BY <1>1, <1>2, <1>3, <1>4, <1>5, <1>6, <1>7, <1>9, <1>10, <2>1 DEF Collects, IsLastChunk
<1>11. CASE usb_fsm_state = "LAST_DATA_OUT"
  <2> DEFINE d == Dispatch(usb_req, datasize + ExpectedLen)
  <2>1. /\ dispatched' = dispatched + 1
        /\ IF d.handled
           THEN RxRead /\ WritePacket(0, 0) /\ usb_fsm_state' = "STATUS_IN"
           ELSE received' = "none" /\ Stall
    BY <1>5, <1>8, <1>11 DEF OutData
  <2>2. dispatched' = 1 /\ hcount = hreq.wLength
    BY <1>3, <1>4, <1>6, <1>11, <2>1
  <2>3. CASE d.handled
    <3>1. IsSetAddress(hreq) => hreq.wValue < 128
      BY <1>1, <2>3, ServedAddress
    <3>2. stat_tx' = "VALID" /\ tx' = [off |-> 0, len |-> 0]
      BY <1>3, <2>1, <2>3 DEF WritePacket
    <3>3. RxRead /\ usb_fsm_state' = "STATUS_IN"
      BY <2>1, <2>3
    <3> QED
      BY <1>2, <1>3, <1>4, <1>6, <1>7, <1>9, <1>11, <2>2, <3>1, <3>2, <3>3 DEF Completes
  <2>4. CASE ~d.handled
    <3>1. received' = "none" /\ Stall
      BY <2>1, <2>4
    <3> QED
      BY <1>2, <1>3, <1>4, <1>6, <1>7, <1>11, <2>2, <3>1 DEF Completes, Stall
  <2> QED
    BY <2>3, <2>4
<1> QED
  BY <1>10, <1>11

(* Each keeps the invariant.                                                 *)
LEMMA OutDataInv ==
  UsbInv /\ PollOut /\ usb_fsm_state \in {"DATA_OUT", "LAST_DATA_OUT"} => UsbInv'
<1> SUFFICES ASSUME UsbInv, PollOut, usb_fsm_state \in {"DATA_OUT", "LAST_DATA_OUT"}
             PROVE  UsbInv'
  OBVIOUS
<1>1. OutData /\ received = "out" /\ ~reset_istr
  BY DEF PollOut
<1>2. /\ Collects \/ Completes
      /\ received' = "none" /\ sound' = TRUE
      /\ hcount > datasize /\ hcount <= hreq.wLength /\ datasize \in Nat /\ hcount \in Nat
  BY <1>1, OutDataOutcome
<1>3. /\ usb_req' = usb_req /\ hreq' = hreq /\ ctr_tx' = ctr_tx /\ reset_istr' = reset_istr
      /\ outcome' = outcome /\ hstage' = hstage /\ hcount' = hcount /\ callbacks' = callbacks
      /\ haddr' = haddr /\ daddr' = daddr /\ usb_complete_cb' = usb_complete_cb
  BY <1>1 DEF PollOut, OutData, hostVars
<1>4. /\ ~hreq.in /\ ~ctr_tx /\ stat_tx # "VALID" /\ sound /\ dispatched = 0
      /\ callbacks = 0 /\ outcome # "ok" /\ usb_req = hreq
  BY <1>1 DEF UsbInv, Types, Fresh, Writing, Answered, Called
<1>5. hreq.wLength \in Nat /\ PacketSize \in Nat
  BY RequestTypes, PacketSizeIs DEF UsbInv, Types
<1> USE DEF Collects, Completes
<1>6. Types'
  <2>1. usb_fsm_state' \in FsmStates /\ dispatched' \in 0 .. 1
    BY <1>2, <1>4 DEF FsmStates
  <2>2. stat_tx' \in Stats /\ stat_rx' \in Stats
    BY <1>2 DEF Stats, UsbInv, Types
  <2> QED
    BY <1>2, <1>3, <2>1, <2>2 DEF UsbInv, Types
<1>7. Fresh' /\ Bus'
  BY <1>1, <1>2, <1>3, <1>4 DEF Fresh, Bus, UsbInv
<1>8. Reading'
  BY <1>2, <1>3, <1>4 DEF Reading
<1>9. Writing'
  <2>1. CASE Collects
    BY <1>2, <1>3, <1>4, <1>5, <2>1 DEF Writing
  <2>2. CASE Completes
    BY <2>2 DEF Writing
  <2> QED
    BY <1>2, <2>1, <2>2
<1>10. Answered'
  BY <1>2, <1>3, <1>4 DEF Answered
<1>11. Called'
  BY <1>1, <1>2, <1>3, <1>4 DEF UsbInv, Called
<1>12. Addressed'
  <2>1. ~Readdressing /\ ~Readdressing'
    BY <1>3, <1>4 DEF Readdressing
  <2>2. IsSetAddress(hreq') <=> IsSetAddress(hreq)
    BY <1>3, Zenon
  <2> QED
    BY <1>2, <1>3, <1>4, <2>1, <2>2 DEF UsbInv, Addressed
<1> QED
  BY <1>6, <1>7, <1>8, <1>9, <1>10, <1>11, <1>12 DEF UsbInv

(* Elsewhere a packet ends the status stage of a read, or is refused         *)
(* (usb.cpp:785-799).                                                        *)
LEMMA OutOtherInv ==
  UsbInv /\ PollOut /\ usb_fsm_state \notin {"DATA_OUT", "LAST_DATA_OUT"} => UsbInv'
<1> SUFFICES ASSUME UsbInv, PollOut, usb_fsm_state \notin {"DATA_OUT", "LAST_DATA_OUT"}
             PROVE  UsbInv'
  OBVIOUS
<1>1. received = "out" /\ ~reset_istr
  BY DEF PollOut
<1>2. \/ usb_fsm_state = "STATUS_OUT" /\ OutStatus
      \/ Stall /\ UNCHANGED <<datasize, dataoff, usb_complete_cb, received, history>>
  BY DEF PollOut
<1>3. /\ usb_req' = usb_req /\ hreq' = hreq /\ ctr_tx' = ctr_tx /\ reset_istr' = reset_istr
      /\ outcome' = outcome /\ hstage' = hstage /\ hcount' = hcount
      /\ haddr' = haddr /\ daddr' = daddr
  BY DEF PollOut, hostVars
<1>4. /\ sound' = sound /\ dispatched' = dispatched /\ usb_fsm_state' = "IDLE"
      /\ received' \in {"out", "none"}
  BY <1>1, <1>2 DEF OutStatus, RxRead, Stall, history
<1>5. usb_req = hreq /\ stat_rx # "VALID" /\ usb_fsm_state # "STATUS_IN"
  BY <1>1 DEF UsbInv, Fresh, Bus, Answered
<1>6. /\ stat_tx' = "STALL" \/ (stat_tx' = stat_tx /\ usb_fsm_state = "STATUS_OUT")
      /\ received' = "out" => stat_rx' = "STALL"
      /\ stat_rx' \in Stats
  BY <1>2, <1>5 DEF OutStatus, RxRead, Stall, StillArmed, Stats, UsbInv, Types
<1>7. \/ callbacks' = callbacks /\ usb_complete_cb' = usb_complete_cb
      \/ callbacks' = callbacks /\ usb_complete_cb' = FALSE
      \/ /\ callbacks' = callbacks + 1 /\ usb_fsm_state = "STATUS_OUT" /\ usb_complete_cb
         /\ usb_complete_cb' = FALSE
  <2>1. CASE usb_fsm_state = "STATUS_OUT" /\ OutStatus
    <3>1. /\ callbacks' = IF usb_complete_cb THEN callbacks + 1 ELSE callbacks
          /\ usb_complete_cb' = FALSE
      BY <2>1 DEF OutStatus
    <3> QED
      BY <2>1, <3>1
  <2>2. CASE Stall /\ UNCHANGED <<datasize, dataoff, usb_complete_cb, received, history>>
    <3>1. usb_complete_cb' = usb_complete_cb /\ callbacks' = callbacks
      BY <2>2 DEF history
    <3> QED
      BY <3>1, Zenon
  <2> QED
    BY <1>2, <2>1, <2>2
<1>8. Types'
  <2>1. callbacks' \in 0 .. 1
    BY <1>7 DEF UsbInv, Types, Called
  <2>2. usb_complete_cb' \in BOOLEAN
    BY <1>7, Zenon DEF UsbInv, Types
  <2>3. usb_fsm_state' \in FsmStates /\ stat_tx' \in Stats
    BY <1>4, <1>6 DEF FsmStates, Stats, UsbInv, Types
  <2> QED
    BY <1>3, <1>4, <1>6, <2>1, <2>2, <2>3 DEF UsbInv, Types
<1>9. Fresh' /\ Bus'
  BY <1>1, <1>3, <1>4, <1>5, <1>6 DEF UsbInv, Fresh, Bus, Settled
<1>10. Reading' /\ Writing'
  BY <1>1, <1>3, <1>4 DEF UsbInv, Reading, Writing
<1>11. Answered'
  BY <1>1, <1>3, <1>4, <1>5, <1>6 DEF UsbInv, Reading, Answered
<1>12. Called'
  BY <1>1, <1>3, <1>4, <1>5, <1>7 DEF UsbInv, Reading, Called
<1>13. Addressed'
  <2>1. ~Readdressing /\ ~Readdressing'
    BY <1>4, <1>5 DEF Readdressing
  <2>2. IsSetAddress(hreq') <=> IsSetAddress(hreq)
    BY <1>3, Zenon
  <2> QED
    BY <1>1, <1>3, <1>4, <1>6, <2>1, <2>2 DEF UsbInv, Addressed
<1> QED
  BY <1>8, <1>9, <1>10, <1>11, <1>12, <1>13 DEF UsbInv

(* A number below 128 has seven bits.                                        *)
LEMMA SevenBits ==
  ASSUME NEW n \in Nat, n < 128
  PROVE  n % 128 = n
BY SMTT(30)

(* A packet that the host has fetched is followed by the next chunk, by the  *)
(* status stage, or ends the transfer; only then is a new address obeyed     *)
(* (usb.cpp:806-832).                                                        *)
LEMMA PollInInv == UsbInv /\ PollIn => UsbInv'
<1> SUFFICES ASSUME UsbInv, PollIn PROVE UsbInv'
  OBVIOUS
<1>1. /\ ~reset_istr /\ received = "none" /\ ctr_tx /\ ctr_tx' = FALSE /\ received' = received
      /\ usb_req' = usb_req /\ hreq' = hreq /\ reset_istr' = reset_istr
      /\ outcome' = outcome /\ hstage' = hstage /\ hcount' = hcount /\ haddr' = haddr
      /\ sound' = sound /\ dispatched' = dispatched /\ usb_complete_cb' = usb_complete_cb
  BY DEF PollIn, hostVars
<1>2. usb_req = hreq /\ stat_tx # "VALID" /\ usb_fsm_state \notin {"DATA_OUT", "LAST_DATA_OUT"}
  BY <1>1 DEF UsbInv, Fresh, Bus, Writing
<1>3. CASE usb_fsm_state = "DATA_IN"
  <2>1. SendChunk(datasize, dataoff, usb_needs_zlp)
        /\ stat_rx' = stat_rx /\ daddr' = daddr /\ callbacks' = callbacks
    BY <1>3 DEF PollIn
  <2>2. usb_fsm_state' \in {"DATA_IN", "LAST_DATA_IN"}
    BY <2>1 DEF SendChunk
  <2>3. stat_tx' = "VALID"
    BY <1>2, <2>1 DEF SendChunk, WritePacket
  <2>4. hreq.in /\ hreq.wLength > 0 /\ dispatched = 1 /\ callbacks = 0
    BY <1>1, <1>3 DEF UsbInv, Types, Reading, Called
  <2>5. Types'
    BY <1>1, <2>1, <2>2, <2>3 DEF UsbInv, Types, FsmStates, Stats
  <2>6. Fresh' /\ Bus'
    BY <1>1, <2>1 DEF UsbInv, Fresh, Bus, Settled
  <2>7. Reading' /\ Writing' /\ Answered'
    BY <1>1, <2>2, <2>4 DEF UsbInv, Reading, Writing, Answered
  <2>8. Called'
    BY <1>1, <2>1, <2>4 DEF UsbInv, Called
  <2>9. Addressed'
    <3>1. ~Readdressing /\ ~Readdressing' /\ ~IsSetAddress(hreq)
      BY <1>1, <1>3, <2>4 DEF Readdressing, IsSetAddress
    <3>2. ~IsSetAddress(hreq')
      BY <1>1, <3>1, Zenon
    <3> QED
      BY <1>1, <2>1, <3>1, <3>2 DEF UsbInv, Addressed
  <2> QED
    BY <2>5, <2>6, <2>7, <2>8, <2>9 DEF UsbInv
<1>4. CASE usb_fsm_state = "LAST_DATA_IN"
  <2>1. /\ usb_fsm_state' = "STATUS_OUT" /\ stat_rx' = "VALID" /\ stat_tx' = stat_tx
        /\ daddr' = daddr /\ callbacks' = callbacks
    BY <1>4 DEF PollIn, AfterLastData
  <2>2. hreq.in /\ hreq.wLength > 0 /\ dispatched = 1 /\ callbacks = 0
    BY <1>1, <1>4 DEF UsbInv, Types, Reading, Called
  <2>3. Types'
    BY <1>1, <2>1 DEF UsbInv, Types, FsmStates, Stats
  <2>4. Fresh' /\ Bus'
    BY <1>1, <2>1 DEF UsbInv, Fresh, Bus, Settled
  <2>5. Reading' /\ Writing' /\ Answered'
    BY <1>1, <2>1, <2>2 DEF UsbInv, Reading, Writing, Answered
  <2>6. Called'
    BY <1>1, <2>1, <2>2 DEF UsbInv, Called
  <2>7. Addressed'
    <3>1. ~Readdressing /\ ~Readdressing' /\ ~IsSetAddress(hreq)
      BY <1>1, <1>4, <2>2 DEF Readdressing, IsSetAddress
    <3>2. ~IsSetAddress(hreq')
      BY <1>1, <3>1, Zenon
    <3> QED
      BY <1>1, <2>1, <3>1, <3>2 DEF UsbInv, Addressed
  <2> QED
    BY <2>3, <2>4, <2>5, <2>6, <2>7 DEF UsbInv
<1>5. CASE usb_fsm_state = "STATUS_IN"
  <2>1. /\ usb_fsm_state' = "IDLE" /\ stat_rx' = stat_rx /\ stat_tx' = stat_tx
        /\ daddr' = IF IsSetAddress(hreq) THEN hreq.wValue % 128 ELSE daddr
        /\ callbacks' = IF usb_complete_cb THEN callbacks + 1 ELSE callbacks
    BY <1>2, <1>5 DEF PollIn, AfterStatusIn
  <2>2. outcome = "ok" /\ hstage = "idle" /\ dispatched = 1 /\ callbacks = 0
    BY <1>1, <1>5 DEF UsbInv, Types, Answered, Called
  <2>3. Types'
    <3>1. callbacks' \in 0 .. 1
      BY <2>1, <2>2
    <3> QED
      BY <1>1, <2>1, <3>1 DEF UsbInv, Types, FsmStates
  <2>4. Fresh' /\ Bus'
    BY <1>1, <2>1 DEF UsbInv, Fresh, Bus, Settled
  <2>5. Reading' /\ Writing' /\ Answered'
    BY <1>1, <1>2, <2>1, <2>2 DEF UsbInv, Reading, Writing, Answered
  <2>6. Called'
    BY <1>1, <2>1, <2>2 DEF UsbInv, Called
  <2>7. Addressed'
    <3>1. ~Readdressing'
      BY <1>1 DEF Readdressing
    <3>2. CASE IsSetAddress(hreq)
      <4>1. Readdressing
        BY <1>1, <1>5, <3>2 DEF Readdressing
      <4>2. haddr = hreq.wValue /\ hreq.wValue < 128
        BY <1>1, <3>2, <4>1 DEF UsbInv, Addressed
      <4>3. hreq.wValue \in Nat
        BY RequestTypes DEF UsbInv, Types
      <4>4. daddr' = haddr
        BY <2>1, <3>2, <4>2, <4>3, SevenBits
      <4> QED
        BY <1>1, <1>2, <2>1, <3>1, <4>4 DEF UsbInv, Addressed
    <3>3. CASE ~IsSetAddress(hreq)
      <4>1. ~Readdressing /\ daddr' = daddr
        BY <2>1, <3>3 DEF Readdressing
      <4>2. ~IsSetAddress(hreq')
        BY <1>1, <3>3, Zenon
      <4> QED
        BY <1>1, <3>1, <4>1, <4>2 DEF UsbInv, Addressed
    <3> QED
      BY <3>2, <3>3
  <2> QED
    BY <2>3, <2>4, <2>5, <2>6, <2>7 DEF UsbInv
<1>6. CASE usb_fsm_state \notin {"DATA_IN", "LAST_DATA_IN", "STATUS_IN"}
  <2>1. /\ usb_fsm_state' = "IDLE" /\ stat_rx' = "STALL" /\ stat_tx' = "STALL"
        /\ daddr' = daddr /\ callbacks' = callbacks
    BY <1>6 DEF PollIn, Stall
  <2>2. Types'
    BY <1>1, <2>1 DEF UsbInv, Types, FsmStates, Stats
  <2>3. Fresh' /\ Bus'
    BY <1>1, <2>1 DEF UsbInv, Fresh, Bus, Settled
  <2>4. Reading' /\ Writing' /\ Answered' /\ Called'
    BY <1>1, <2>1 DEF UsbInv, Reading, Writing, Answered, Called
  <2>5. Addressed'
    <3>1. ~Readdressing /\ ~Readdressing'
      BY <1>1, <1>6 DEF Readdressing
    <3> QED
      BY <1>1, <2>1, <3>1 DEF UsbInv, Addressed
  <2> QED
    BY <2>2, <2>3, <2>4, <2>5 DEF UsbInv
<1> QED
  BY <1>3, <1>4, <1>5, <1>6

-----------------------------------------------------------------------------
(* The host and the bus.                                                     *)

(* A SETUP is accepted when nothing is left to poll, and begins a transfer.  *)
LEMMA HostSetupInv == UsbInv /\ HostSetup => UsbInv'
<1> SUFFICES ASSUME UsbInv, HostSetup PROVE UsbInv'
  OBVIOUS
<1>1. /\ received' = "setup" /\ stat_rx' = "NAK" /\ stat_tx' = "NAK" /\ hcount' = 0
      /\ outcome' = "none" /\ sound' = TRUE /\ dispatched' = 0 /\ callbacks' = 0
      /\ hreq' \in Requests /\ hstage' = IF hreq'.wLength = 0 THEN "status" ELSE "data"
      /\ usb_fsm_state' = usb_fsm_state /\ usb_req' = usb_req
      /\ usb_complete_cb' = usb_complete_cb /\ reset_istr' = reset_istr
      /\ ctr_tx' = ctr_tx /\ haddr' = haddr /\ daddr' = daddr /\ daddr = haddr
  BY DEF HostSetup, device, fsm
<1>2. ctr_tx = FALSE /\ stat_rx # "DISABLED" /\ reset_istr = FALSE
  BY DEF HostSetup, Settled, UsbInv, Types, Bus
<1>3. hreq'.in \in BOOLEAN /\ hreq'.wLength \in Nat
  BY <1>1, RequestTypes
<1>4. Types'
  <2>1. hstage' \in {"idle", "data", "status"} /\ stat_rx' \in Stats /\ stat_tx' \in Stats
    BY <1>1 DEF Stats
  <2>2. dispatched' \in 0 .. 1 /\ callbacks' \in 0 .. 1 /\ sound' \in BOOLEAN
    BY <1>1
  <2> QED
    BY <1>1, <1>2, <2>1, <2>2 DEF UsbInv, Types
<1>5. Fresh' /\ Bus'
  BY <1>1, <1>2, <1>3 DEF Fresh, Bus
<1>6. Reading' /\ Writing' /\ Answered' /\ Called'
  BY <1>1 DEF Reading, Writing, Answered, Called
<1>7. Addressed'
  BY <1>1, <1>2 DEF Addressed, Readdressing
<1> QED
  BY <1>4, <1>5, <1>6, <1>7 DEF UsbInv

(* An IN packet is a chunk of the reply, or ends the transfer.               *)
LEMMA HostInInv == UsbInv /\ HostIn => UsbInv'
<1> SUFFICES ASSUME UsbInv, HostIn PROVE UsbInv'
  OBVIOUS
<1>1. /\ WantsIn /\ stat_tx = "VALID" /\ stat_tx' = "NAK" /\ ctr_tx' = TRUE
      /\ usb_fsm_state' = usb_fsm_state /\ usb_req' = usb_req /\ datasize' = datasize
      /\ usb_complete_cb' = usb_complete_cb /\ reset_istr' = reset_istr
      /\ received' = received /\ stat_rx' = stat_rx /\ rx' = rx /\ tx' = tx /\ daddr' = daddr
      /\ hreq' = hreq /\ dispatched' = dispatched /\ callbacks' = callbacks
      /\ sound' = (sound /\ (tx.len > 0 => tx.off = hcount))
  BY DEF HostIn, device, fsm
<1>2. /\ hstage # "idle" /\ received # "setup" /\ usb_req = hreq /\ ~ctr_tx /\ ~reset_istr
      /\ callbacks = 0 /\ dispatched = 1
      /\ usb_fsm_state \notin {"DATA_OUT", "LAST_DATA_OUT"}
      /\ received # "out" \/ ~hreq.in
  BY <1>1 DEF WantsIn, UsbInv, Types, Fresh, Bus, Reading, Writing, Answered, Called
<1>3. hreq.in \in BOOLEAN /\ hreq.wLength \in Nat /\ hreq.wValue \in Nat
  BY RequestTypes DEF UsbInv, Types
<1>4. ~hreq.in => sound' /\ sound /\ usb_fsm_state = "STATUS_IN"
  <2>1. ~hreq.in => ~(tx.len > 0) /\ sound /\ usb_fsm_state = "STATUS_IN"
    BY <1>1, <1>2 DEF UsbInv, Answered
  <2> QED
    BY <1>1, <2>1, Zenon
<1>5. sound' \in BOOLEAN
  BY <1>1, Zenon DEF UsbInv, Types
<1>6. CASE hstage = "status"
  <2>1. /\ hstage' = "idle" /\ outcome' = "ok" /\ hcount' = hcount
        /\ haddr' = IF IsSetAddress(hreq) THEN hreq.wValue ELSE haddr
    BY <1>6 DEF HostIn, HostEnds
  <2>2. Types'
    BY <1>1, <1>5, <2>1 DEF UsbInv, Types, Stats
  <2>3. Fresh' /\ Bus'
    BY <1>1, <1>2, <2>1 DEF UsbInv, Fresh, Bus
  <2>4. Reading' /\ Writing'
    BY <1>1, <1>2, <2>1 DEF UsbInv, Reading, Writing
  <2>5. Answered'
    BY <1>1, <1>2, <1>3, <1>4, <2>1 DEF UsbInv, Answered
  <2>6. Called'
    BY <1>1, <1>2, <2>1 DEF UsbInv, Called
  <2>7. Addressed'
    <3>1. ~Readdressing /\ (daddr = Off \/ daddr = haddr)
      BY <1>2 DEF UsbInv, Addressed, Readdressing
    <3>2. CASE IsSetAddress(hreq)
      <4>1. ~hreq.in
        BY <3>2 DEF IsSetAddress
      <4>2. hreq.wValue < 128 /\ usb_fsm_state = "STATUS_IN"
        BY <1>1, <1>2, <1>4, <3>2, <4>1 DEF UsbInv, Addressed
      <4>3. IsSetAddress(hreq')
        BY <1>1, <3>2, Zenon
      <4>4. Readdressing'
        BY <1>1, <4>2, <4>3 DEF Readdressing
      <4>5. haddr' = hreq'.wValue /\ hreq'.wValue < 128 /\ ~reset_istr'
        BY <1>1, <1>2, <2>1, <3>2, <4>2
      <4> QED
        BY <4>4, <4>5 DEF Addressed
    <3>3. CASE ~IsSetAddress(hreq)
      <4>1. ~IsSetAddress(hreq')
        BY <1>1, <3>3, Zenon
      <4>2. ~Readdressing'
        BY <4>1 DEF Readdressing
      <4>3. haddr' = haddr
        BY <2>1, <3>3
      <4> QED
        BY <1>1, <1>2, <3>1, <4>1, <4>2, <4>3 DEF Addressed
    <3> QED
      BY <3>2, <3>3
  <2> QED
    BY <2>2, <2>3, <2>4, <2>5, <2>6, <2>7 DEF UsbInv
<1>7. CASE hstage # "status"
  <2>1. hstage = "data" /\ hreq.in /\ hreq.wLength > 0
    BY <1>1, <1>3, <1>7 DEF WantsIn, UsbInv, Bus
  <2>2. /\ hstage' \in {"data", "status"} /\ outcome' = outcome /\ haddr' = haddr
    BY <1>7 DEF HostIn, HostMoves
  <2>3. usb_fsm_state # "STATUS_IN"
    BY <1>2, <2>1 DEF UsbInv, Answered
  <2>4. Types'
    BY <1>1, <1>5, <2>2 DEF UsbInv, Types, Stats
  <2>5. Fresh' /\ Bus'
    BY <1>1, <1>2, <2>1, <2>2 DEF UsbInv, Fresh, Bus
  <2>6. Reading' /\ Writing'
    BY <1>1, <1>2, <2>1, <2>2 DEF UsbInv, Reading, Writing
  <2>7. Answered'
    BY <1>1, <1>2, <2>1, <2>2, <2>3 DEF UsbInv, Answered
  <2>8. Called'
    BY <1>1, <1>2, <2>2 DEF UsbInv, Called
  <2>9. Addressed'
    <3>1. ~Readdressing /\ ~Readdressing' /\ ~IsSetAddress(hreq)
      BY <1>1, <2>1, <2>3 DEF Readdressing, IsSetAddress
    <3>2. ~IsSetAddress(hreq')
      BY <1>1, <3>1, Zenon
    <3> QED
      BY <1>1, <1>2, <2>2, <3>1, <3>2 DEF UsbInv, Addressed
  <2> QED
    BY <2>4, <2>5, <2>6, <2>7, <2>8, <2>9 DEF UsbInv
<1> QED
  BY <1>6, <1>7

(* An OUT packet is the next chunk of the data, or the end of a read.        *)
LEMMA HostOutInv == UsbInv /\ HostOut => UsbInv'
<1> SUFFICES ASSUME UsbInv, HostOut PROVE UsbInv'
  OBVIOUS
<1> DEFINE n == IF hstage = "status" THEN 0 ELSE MinOf(PacketSize, hreq.wLength - hcount)
<1>1. /\ WantsOut /\ stat_rx = "VALID" /\ stat_rx' = "NAK" /\ received' = "out"
      /\ usb_fsm_state' = usb_fsm_state /\ usb_req' = usb_req /\ datasize' = datasize
      /\ usb_complete_cb' = usb_complete_cb /\ reset_istr' = reset_istr
      /\ ctr_tx' = ctr_tx /\ stat_tx' = stat_tx /\ tx' = tx /\ daddr' = daddr /\ haddr' = haddr
      /\ hreq' = hreq /\ dispatched' = dispatched /\ callbacks' = callbacks /\ sound' = sound
      /\ rx' = [off |-> hcount, len |-> n]
      /\ IF hstage = "status" THEN HostEnds ELSE HostMoves(n, hcount + n = hreq.wLength)
  BY DEF HostOut, device, fsm, history
<1>2. /\ hstage # "idle" /\ received = "none" /\ usb_req = hreq /\ ~reset_istr
      /\ callbacks = 0
  BY <1>1 DEF WantsOut, UsbInv, Types, Fresh, Bus, Called
<1>3. hreq.in \in BOOLEAN /\ hreq.wLength \in Nat /\ PacketSize \in Nat /\ PacketSize > 0
  BY RequestTypes, PacketSizeIs DEF UsbInv, Types
<1>4. Addressed'
  <2>1. Readdressing' <=> Readdressing
    BY <1>1, Zenon DEF Readdressing
  <2>2. IsSetAddress(hreq') <=> IsSetAddress(hreq)
    BY <1>1, Zenon
  <2> QED
    BY <1>1, <1>2, <2>1, <2>2 DEF UsbInv, Addressed
<1>5. Called'
  BY <1>1, <1>2 DEF UsbInv, Called
<1>6. CASE hstage = "status"
  <2>1. /\ hstage' = "idle" /\ outcome' = "ok" /\ hcount' = hcount
        /\ hreq.in /\ hreq.wLength > 0
    BY <1>1, <1>6 DEF HostEnds, WantsOut
  <2>2. Types'
    BY <1>1, <2>1 DEF UsbInv, Types, Stats
  <2>3. Fresh' /\ Bus'
    BY <1>1, <1>2, <2>1 DEF UsbInv, Fresh, Bus
  <2>4. Reading' /\ Writing' /\ Answered'
    BY <1>1, <1>2, <2>1 DEF UsbInv, Reading, Writing, Answered
  <2> QED
    BY <1>4, <1>5, <2>2, <2>3, <2>4 DEF UsbInv
<1>7. CASE hstage # "status"
  <2>1. /\ hstage = "data" /\ ~hreq.in /\ hcount \in Nat /\ hcount < hreq.wLength
    BY <1>1, <1>7 DEF WantsOut, UsbInv, Bus
  <2>2. /\ n = MinOf(PacketSize, hreq.wLength - hcount) /\ n \in Nat
        /\ hcount + n <= hreq.wLength
    BY <1>3, <1>7, <2>1 DEF MinOf
  <2>3. /\ hcount' = hcount + n /\ outcome' = outcome
        /\ hstage' = IF hcount + n = hreq.wLength THEN "status" ELSE "data"
    BY <1>1, <1>7 DEF HostMoves
  <2>4. /\ dispatched # 1 /\ usb_fsm_state # "STATUS_IN"
    BY <1>2, <1>3, <2>1 DEF UsbInv, Answered
  <2> HIDE DEF n
  <2>5. Types'
    BY <1>1, <2>3 DEF UsbInv, Types, Stats
  <2>6. Fresh' /\ Bus'
    BY <1>1, <1>2, <1>3, <2>1, <2>2, <2>3 DEF UsbInv, Fresh, Bus
  <2>7. Reading'
    BY <1>1, <1>2, <2>1 DEF UsbInv, Reading
  <2>8. Writing'
    <3>1. CASE usb_fsm_state \in {"DATA_OUT", "LAST_DATA_OUT"}
      <4>1. /\ ~hreq.in /\ ~ctr_tx /\ stat_tx # "VALID" /\ sound /\ dispatched = 0
            /\ datasize \in Nat /\ datasize < hreq.wLength /\ hcount = datasize
            /\ usb_fsm_state = "LAST_DATA_OUT" <=> hreq.wLength - datasize <= PacketSize
        BY <1>2, <3>1 DEF UsbInv, Writing
      <4>2. /\ rx' = [off |-> datasize, len |-> MinOf(PacketSize, hreq.wLength - datasize)]
            /\ hcount' = datasize + rx'.len
        BY <1>1, <2>2, <2>3, <4>1
      <4>3. (hreq.wLength - datasize)' = hreq.wLength - datasize
        BY <1>1
      <4> QED
        BY <1>1, <4>1, <4>2, <4>3 DEF Writing
    <3>2. CASE usb_fsm_state \notin {"DATA_OUT", "LAST_DATA_OUT"}
      BY <1>1, <3>2 DEF Writing
    <3> QED
      BY <3>1, <3>2
  <2>9. Answered'
    BY <1>1, <1>2, <2>1, <2>3, <2>4 DEF UsbInv, Answered
  <2> QED
    BY <1>4, <1>5, <2>5, <2>6, <2>7, <2>8, <2>9 DEF UsbInv
<1> QED
  BY <1>6, <1>7

(* A refused transfer is over, and so is one that the host gives up: nothing *)
(* else changes; or nothing changes at all.                                  *)
LEMMA HostStopsInv ==
  ASSUME UsbInv, hstage' \in {"idle", hstage}, hstage # "idle" \/ outcome' = outcome,
         outcome' \in {outcome, "stall"}, received # "setup" \/ outcome' = outcome,
         UNCHANGED <<device, daddr, endpoint, reset_istr, hreq, hcount, haddr, history>>
  PROVE  UsbInv'
<1>1. /\ usb_fsm_state' = usb_fsm_state /\ usb_req' = usb_req /\ datasize' = datasize
      /\ usb_complete_cb' = usb_complete_cb /\ reset_istr' = reset_istr
      /\ received' = received /\ stat_rx' = stat_rx /\ rx' = rx /\ tx' = tx /\ daddr' = daddr
      /\ ctr_tx' = ctr_tx /\ stat_tx' = stat_tx /\ haddr' = haddr /\ hcount' = hcount
      /\ hreq' = hreq /\ dispatched' = dispatched /\ callbacks' = callbacks /\ sound' = sound
  BY DEF device, fsm, endpoint, history
<1>2. callbacks > 0 => outcome' = outcome
  BY DEF UsbInv, Called
<1>3. /\ received = "out" /\ hreq.in => outcome' = outcome
      /\ received # "setup" /\ usb_fsm_state = "STATUS_IN" /\ ctr_tx => outcome' = outcome
  BY DEF UsbInv, Reading, Answered
<1>4. Types'
  BY <1>1 DEF UsbInv, Types
<1>5. Fresh' /\ Bus'
  BY <1>1 DEF UsbInv, Fresh, Bus, Settled
<1>6. Reading' /\ Answered'
  BY <1>1, <1>3 DEF UsbInv, Reading, Answered
<1>7. Writing'
  BY <1>1 DEF UsbInv, Writing
<1>8. Called'
  BY <1>1, <1>2 DEF UsbInv, Called
<1>9. Addressed'
  <2>1. Readdressing' <=> Readdressing
    BY <1>1, Zenon DEF Readdressing
  <2>2. IsSetAddress(hreq') <=> IsSetAddress(hreq)
    BY <1>1, Zenon
  <2> QED
    BY <1>1, <2>1, <2>2 DEF UsbInv, Addressed
<1> QED
  BY <1>4, <1>5, <1>6, <1>7, <1>8, <1>9 DEF UsbInv

(* A bus reset finds nothing left to poll, and ends the transfer.            *)
LEMMA BusResetInv == UsbInv /\ BusReset => UsbInv'
<1> SUFFICES ASSUME UsbInv, BusReset PROVE UsbInv'
  OBVIOUS
<1>1. /\ stat_rx' = "DISABLED" /\ stat_tx' = "DISABLED" /\ daddr' = Off /\ reset_istr' = TRUE
      /\ hstage' = "idle" /\ haddr' = 0
      /\ usb_fsm_state' = usb_fsm_state /\ usb_req' = usb_req /\ datasize' = datasize
      /\ usb_complete_cb' = usb_complete_cb /\ ctr_tx' = ctr_tx
      /\ received' = received /\ rx' = rx /\ tx' = tx /\ hcount' = hcount
      /\ outcome' = outcome
      /\ hreq' = hreq /\ dispatched' = dispatched /\ callbacks' = callbacks /\ sound' = sound
      /\ ctr_tx = FALSE /\ received = "none"
  BY DEF BusReset, Settled, device, fsm, history, UsbInv, Types
<1>2. Types'
  BY <1>1 DEF UsbInv, Types, Stats
<1>3. Fresh' /\ Bus'
  BY <1>1 DEF UsbInv, Fresh, Bus, Settled
<1>4. Reading' /\ Answered'
  BY <1>1 DEF UsbInv, Reading, Answered
<1>5. Writing'
  BY <1>1 DEF UsbInv, Writing
<1>6. Called'
  BY <1>1 DEF UsbInv, Called
<1>7. Addressed'
  BY <1>1 DEF Addressed, Readdressing
<1> QED
  BY <1>2, <1>3, <1>4, <1>5, <1>6, <1>7 DEF UsbInv

-----------------------------------------------------------------------------
(* The theorems.                                                             *)

(* Every step keeps the invariant.                                           *)
LEMMA NextUsbInv == UsbInv /\ [Next]_vars => UsbInv'
<1> SUFFICES ASSUME UsbInv, [Next]_vars PROVE UsbInv'
  OBVIOUS
<1>1. CASE PollReset  BY <1>1, PollResetInv
<1>2. CASE PollSetup  BY <1>2, PollSetupInv
<1>3. CASE PollOut  BY <1>3, OutDataInv, OutOtherInv
<1>4. CASE PollIn  BY <1>4, PollInInv
<1>5. CASE HostSetup  BY <1>5, HostSetupInv
<1>6. CASE HostIn  BY <1>6, HostInInv
<1>7. CASE HostOut  BY <1>7, HostOutInv
<1>8. CASE HostSeesStall
  <2>1. hstage # "idle" /\ received # "setup"
    BY <1>8 DEF HostSeesStall, WantsIn, WantsOut, UsbInv, Fresh
  <2> QED
    BY <1>8, <2>1, HostStopsInv DEF HostSeesStall
<1>9. CASE HostAbandons
  BY <1>9, HostStopsInv DEF HostAbandons
<1>10. CASE BusReset  BY <1>10, BusResetInv
<1>11. CASE UNCHANGED vars
  BY <1>11, HostStopsInv DEF vars, hostVars
<1> QED
  BY <1>1, <1>2, <1>3, <1>4, <1>5, <1>6, <1>7, <1>8, <1>9, <1>10, <1>11
     DEF Next, Poll, HostProgress

(* The invariant holds of every behaviour of device and host                 *)
(* (usb.cpp:671-832).                                                        *)
THEOREM UsbInvariance == Spec => []UsbInv
BY InitUsbInv, NextUsbInv, PTL DEF Spec

(* A request is dispatched at most once, a request with data only when all   *)
(* of it has arrived in order, and a transfer succeeds only if its request   *)
(* has been dispatched (usb.cpp:757-784).                                    *)
THEOREM DispatchIsSafe == Spec => []DispatchedOnce
<1>1. UsbInv => DispatchedOnce
  BY DEF UsbInv, Types, Fresh, Answered, DispatchedOnce
<1> QED
  BY <1>1, UsbInvariance, PTL

(* The completion callback runs at most once, for the request that           *)
(* registered it, after the status stage (usb.cpp:734, 785-791, 818-819).    *)
THEOREM CallbackIsSafe == Spec => []CallbackAfterReply
<1>1. UsbInv => CallbackAfterReply
  BY DEF UsbInv, Types, Called, CallbackAfterReply
<1> QED
  BY <1>1, UsbInvariance, PTL

(* Device and host agree on the address whenever nothing is left to poll,    *)
(* for hosts whose halt requests name endpoints 0 to 7 (HaltAssumption);     *)
(* beyond them usb.cpp:313-336 writes other registers, the address one among *)
(* them (usb.cpp:496, 821-826).                                              *)
THEOREM AddressIsAgreed == Spec => []AddressAgrees
<1>1. UsbInv => AddressAgrees
  BY DEF UsbInv, Addressed, Readdressing, AddressAgrees
<1> QED
  BY <1>1, UsbInvariance, PTL

-----------------------------------------------------------------------------
(* What is served, and with what reply.                                      *)

(* The type and the index of a descriptor are the two bytes of wValue.       *)
LEMMA TwoBytes ==
  ASSUME NEW v \in Nat
  PROVE  v = 256 * (v \div 256) + (v % 256) /\ v % 256 \in 0 .. 255 /\ v \div 256 \in Nat
BY SMTT(30)

(* The fields of a request that a handler looks at.                          *)
LEMMA RequestFields ==
  ASSUME NEW r \in Requests
  PROVE  /\ r.type \in {"standard", "class", "vendor"} /\ r.bRequest \in Nat
         /\ r.recipient \in {"device", "interface", "endpoint", "other"}
         /\ r.in \in BOOLEAN /\ r.wLength \in Nat /\ r.wValue \in Nat
<1>1. r.in \in BOOLEAN /\ r.wLength \in Nat /\ r.wValue \in Nat
  BY RequestTypes
<1>2. Requests \subseteq SetupData
  BY UsbAssumption, Zenon
<1>3. /\ r.type \in {"standard", "class", "vendor"} /\ r.bRequest \in uint8_t
      /\ r.recipient \in {"device", "interface", "endpoint", "other"}
  BY <1>2 DEF SetupData
<1>4. r.bRequest \in Nat
  BY <1>3 DEF uint8_t
<1> QED
  BY <1>1, <1>3, <1>4

(* The layout string has at most 47 characters, whatever the chip: with it   *)
(* every string fits the buffer and the byte of its length (usb.cpp:472-473).*)
LEMMA StringsFit ==
  /\ Len(_usb_strings) = 5
  /\ \A i \in 1 .. 5 : /\ _usb_strings[i] \in Nat
                       /\ StringDescriptor(_usb_strings[i]) = 2 + 2 * _usb_strings[i]
                       /\ 2 + 2 * _usb_strings[i] <= BufferSize
<1>1. BufferSize \in Nat /\ BufferSize >= 96 /\ PageKb \in {1, 2}
  BY DeviceAssumption
<1>2. ASSUME NEW n PROVE Digits(n) \in 1 .. 5
  BY DEF Digits
<1>3. BOOTLDR_SIZE_KB \div PageKb \in {4, 8}
  BY <1>1 DEF BOOTLDR_SIZE_KB
<1>4. Digits(BOOTLDR_SIZE_KB \div PageKb) = 1
  BY <1>3 DEF Digits
<1> DEFINE k == Digits((FlashKb - BOOTLDR_SIZE_KB) \div PageKb)
<1>5. k \in 1 .. 5
  BY <1>2
<1>6. MemoryLayout = 28 + (1 + 7) + (k + 6)
  BY <1>4 DEF MemoryLayout, xstrcat
<1> HIDE DEF k
<1>7. MemoryLayout \in 0 .. 47
  BY <1>5, <1>6
<1>8. ASSUME NEW n \in 0 .. 47
      PROVE  n \in Nat /\ StringDescriptor(n) = 2 + 2 * n /\ 2 + 2 * n <= BufferSize
  <2>1. 2 * n + 2 \in 0 .. 255 /\ n \in Nat /\ 2 + 2 * n = 2 * n + 2 /\ 2 + 2 * n <= 96
    OBVIOUS
  <2>2. \A m \in 0 .. 255 : m % 256 = m
    BY SMTT(30)
  <2>3. StringDescriptor(n) = 2 + 2 * n
    BY <2>1, <2>2 DEF StringDescriptor
  <2>4. \A a \in Nat : a <= 96 => a <= BufferSize
    BY <1>1
  <2> QED
    BY <2>1, <2>3, <2>4
<1> HIDE DEF MemoryLayout
<1>9. ASSUME NEW i \in 1 .. 5 PROVE _usb_strings[i] \in 0 .. 47
  BY <1>7 DEF _usb_strings, SerialNumber
<1>10. Len(_usb_strings) = 5
  BY DEF _usb_strings
<1> QED
  BY <1>8, <1>9, <1>10

(* The descriptors that are served are those promised, and each is sent      *)
(* whole (usb.cpp:430-481).                                                  *)
Described(r) ==
  \/ \E i \in 0 .. 255 : Descriptor(r, DT_DEVICE, i) \/ Descriptor(r, DT_CONFIGURATION, i)
  \/ Descriptor(r, DT_STRING, 0)
  \/ \E i \in 1 .. 5 : Text(r, i)

(* The handler of GET_DESCRIPTOR serves just these (usb.cpp:430-481).         *)
LEMMA DescriptorReply ==
  ASSUME NEW r \in Requests, Standard(r, "device", GET_DESCRIPTOR), NEW s
  PROVE  /\ GetDescriptor(r, s).handled <=> Described(r)
         /\ Described(r) => /\ GetDescriptor(r, s).datasize = Owed(r)
                            /\ Owed(r) \in Nat /\ Owed(r) <= BufferSize
         /\ ~Described(r) => GetDescriptor(r, s).datasize = s
<1> DEFINE type == r.wValue \div 256
           index == r.wValue % 256
           d == GetDescriptor(r, s)
<1>1. r.wValue \in Nat /\ BufferSize \in Nat /\ BufferSize >= 96
  BY RequestTypes, DeviceAssumption
<1>2. r.type = "standard" /\ r.recipient = "device" /\ r.bRequest = 6
  BY DEF Standard, GET_DESCRIPTOR
<1>3. /\ r.wValue = 256 * type + index
      /\ type \in Nat /\ index \in 0 .. 255 /\ index \in Nat
  <2>1. /\ r.wValue = 256 * (r.wValue \div 256) + (r.wValue % 256)
        /\ r.wValue % 256 \in 0 .. 255 /\ r.wValue \div 256 \in Nat
    BY <1>1, TwoBytes
  <2>2. \A i \in 0 .. 255 : i \in Nat
    OBVIOUS
  <2> QED
    BY <2>1, <2>2
<1> HIDE DEF type, index
<1>4. ASSUME NEW t \in Nat
      PROVE  /\ (\E i \in 0 .. 255 : Descriptor(r, t, i)) <=> type = t
             /\ \A i \in 0 .. 255 : Descriptor(r, t, i) <=> type = t /\ index = i
  <2>1. ASSUME NEW i \in 0 .. 255 PROVE r.wValue = 256 * t + i <=> type = t /\ index = i
    BY <1>3
  <2>2. ASSUME NEW i PROVE Descriptor(r, t, i) <=> r.wValue = 256 * t + i
    BY DEF Descriptor
  <2>3. ASSUME NEW i \in 0 .. 255 PROVE Descriptor(r, t, i) <=> type = t /\ index = i
    BY <2>1, <2>2
  <2>4. type = t => Descriptor(r, t, index)
    BY <1>3, <2>3
  <2> QED
    BY <1>3, <2>3, <2>4
<1>5. /\ (\E i \in 0 .. 255 : Descriptor(r, DT_DEVICE, i)) <=> type = 1
      /\ (\E i \in 0 .. 255 : Descriptor(r, DT_CONFIGURATION, i)) <=> type = 2
      /\ \A i \in 0 .. 255 : Descriptor(r, DT_STRING, i) <=> type = 3 /\ index = i
  BY <1>4 DEF DT_DEVICE, DT_CONFIGURATION, DT_STRING
<1>6. Descriptor(r, DT_STRING, 0) <=> type = 3 /\ index = 0
  BY <1>5
<1>7. /\ (\E i \in 1 .. 5 : Text(r, i)) <=> type = 3 /\ index \in 1 .. 5 /\ r.wIndex = ENGLISH_US
      /\ \A i \in 1 .. 5 : Text(r, i) => index = i
  BY <1>3, <1>5 DEF Text
<1>8. Described(r) <=> (\/ type = 1
                        \/ type = 2
                        \/ type = 3 /\ index = 0
                        \/ type = 3 /\ index \in 1 .. 5 /\ r.wIndex = ENGLISH_US)
  <2>1. Described(r) <=> (\/ \E i \in 0 .. 255 : Descriptor(r, DT_DEVICE, i)
                          \/ \E i \in 0 .. 255 : Descriptor(r, DT_CONFIGURATION, i)
                          \/ Descriptor(r, DT_STRING, 0)
                          \/ \E i \in 1 .. 5 : Text(r, i))
    BY DEF Described
  <2> QED
    BY <1>5, <1>6, <1>7, <2>1
<1>9. d = CASE type = DT_DEVICE -> Handled(DeviceDescriptor)
            [] type = DT_CONFIGURATION -> Handled(ConfigDescriptor)
            [] type = DT_STRING /\ index = 0 -> Handled(4)
            [] type = DT_STRING /\ StringKnown(index) /\ r.wIndex = ENGLISH_US ->
                 Handled(StringDescriptor(_usb_strings[index]))
            [] OTHER -> NotSupported(s)
  BY DEF GetDescriptor, type, index
<1>10. StringKnown(index) <=> index \in 1 .. 5
  BY StringsFit DEF StringKnown
<1>11. Owed(r) = CASE type = 1 -> 18 [] type = 2 -> 27 [] type = 3 /\ index = 0 -> 4
                   [] type = 3 /\ index \in 1 .. 5 /\ r.wIndex = ENGLISH_US ->
                        2 + 2 * _usb_strings[index]
                   [] OTHER -> 1
  BY <1>2, <1>5, <1>6, <1>7 DEF Owed, GET_STATUS, IsDfu, Standard, SET_INTERFACE, index
<1> HIDE DEF d
<1>12. CASE type = 1
  <2>1. d = Handled(DeviceDescriptor)
    BY <1>9, <1>12 DEF DT_DEVICE, DT_CONFIGURATION, DT_STRING
  <2>2. Owed(r) = 18
    BY <1>11, <1>12
  <2>3. Described(r)
    BY <1>8, <1>12
  <2> QED
    BY <1>1, <2>1, <2>2, <2>3 DEF Handled, d, DeviceDescriptor, USB_DT_DEVICE_SIZE
<1>13. CASE type = 2
  <2>1. d = Handled(ConfigDescriptor)
    BY <1>9, <1>13 DEF DT_DEVICE, DT_CONFIGURATION, DT_STRING
  <2>2. Owed(r) = 27
    BY <1>11, <1>13
  <2>3. Described(r)
    BY <1>8, <1>13
  <2> QED
    BY <1>1, <2>1, <2>2, <2>3 DEF Handled, d, ConfigDescriptor, UsbConfigDescriptor,
       UsbInterfaceDescriptor, UsbDfuDescriptor
<1>14. CASE type = 3 /\ index = 0
  <2>1. d = Handled(4)
    BY <1>9, <1>10, <1>14 DEF DT_DEVICE, DT_CONFIGURATION, DT_STRING
  <2>2. Owed(r) = 4
    BY <1>11, <1>14
  <2>3. Described(r)
    BY <1>8, <1>14
  <2> QED
    BY <1>1, <2>1, <2>2, <2>3 DEF Handled, d
<1>15. CASE type = 3 /\ index \in 1 .. 5 /\ r.wIndex = ENGLISH_US
  <2>1. d = Handled(StringDescriptor(_usb_strings[index]))
    BY <1>9, <1>10, <1>15 DEF DT_DEVICE, DT_CONFIGURATION, DT_STRING
  <2>2. Owed(r) = 2 + 2 * _usb_strings[index]
    BY <1>11, <1>15
  <2>3. /\ StringDescriptor(_usb_strings[index]) = 2 + 2 * _usb_strings[index]
        /\ _usb_strings[index] \in Nat /\ 2 + 2 * _usb_strings[index] <= BufferSize
    BY <1>15, StringsFit
  <2> QED
    BY <1>8, <1>15, <2>1, <2>2, <2>3 DEF Handled, d
<1>16. CASE ~Described(r)
  <2>1. d = NotSupported(s)
    BY <1>8, <1>9, <1>10, <1>16 DEF DT_DEVICE, DT_CONFIGURATION, DT_STRING
  <2> QED
    BY <1>16, <2>1 DEF NotSupported, d
<1> QED
  BY <1>8, <1>12, <1>13, <1>14, <1>15, <1>16

(* Promised requests that are served, their data apart.                      *)
Listed(r) ==
  \/ Described(r)
  \/ Standard(r, "device", GET_STATUS) \/ Standard(r, "device", GET_CONFIGURATION)
  \/ Standard(r, "device", SET_ADDRESS) /\ ~r.in /\ r.wValue < 128
  \/ Standard(r, "device", SET_CONFIGURATION) /\ r.wValue = 1
  \/ Standard(r, "interface", GET_INTERFACE) \/ Standard(r, "interface", SET_INTERFACE)
  \/ Standard(r, "endpoint", GET_STATUS)
  \/ IsHalt(r, SET_FEATURE) \/ IsHalt(r, CLEAR_FEATURE)
  \/ IsDfu(r) /\ r.bRequest \in 0 .. 6

(* The promises that are kept are those listed, when a payload fits.         *)
Kept(r) == Promised(r) /\ ~InterfaceStatus(r)

LEMMA KeptIs ==
  ASSUME NEW r
  PROVE  Kept(r) <=> (r.in \/ r.wLength <= BufferSize) /\ Listed(r)
<1>1. Promised(r) <=> (r.in \/ r.wLength <= BufferSize) /\ (Listed(r) \/ InterfaceStatus(r))
  BY DEF Promised, Listed, Described, InterfaceStatus
<1>2. InterfaceStatus(r) => ~Listed(r)
  <2> SUFFICES ASSUME InterfaceStatus(r) PROVE ~Listed(r)
    OBVIOUS
  <2>1. r.type = "standard" /\ r.recipient = "interface" /\ r.bRequest = 0
    BY DEF InterfaceStatus, Standard, GET_STATUS
  <2>2. ~Described(r)
    BY <2>1 DEF Described, Text, Descriptor, Standard
  <2> QED
    BY <2>1, <2>2 DEF Listed, Standard, IsHalt, IsDfu, GET_INTERFACE, SET_INTERFACE
<1> QED
  BY <1>1, <1>2 DEF Kept

(* What is left are requests for a reply that some handler prepares.         *)
LEMMA ReplyIsPrepared ==
  ASSUME NEW r \in Requests, r.in, r.wLength > 0
  PROVE  /\ ~IsHalt(r, SET_FEATURE) /\ ~IsHalt(r, CLEAR_FEATURE)
         /\ ~Unanswered(r) => ~Standard(r, "device", SET_CONFIGURATION)
         /\ ~Unanswered(r) /\ IsDfu(r) => r.bRequest \notin {0, 1, 4, 6}
<1>1. IsHalt(r, SET_FEATURE) \/ IsHalt(r, CLEAR_FEATURE) => r.wLength = 0
  BY HaltAssumption
<1>2. r.wLength # 0
  OBVIOUS
<1> QED
  BY <1>1, <1>2 DEF Unanswered, DFU_DETACH, DFU_DNLOAD, DFU_CLRSTATUS, DFU_ABORT

(* A request is served exactly if it is listed; what it leaves in datasize   *)
(* fits the buffer, and is the reply that is owed if one is asked for and    *)
(* prepared (usb.cpp:430-637, dfu.cpp:317-410).                              *)
Reply(r, s, d) ==
  /\ d.handled <=> Listed(r)
  /\ d.datasize \in Nat
  /\ d.handled /\ s <= BufferSize /\ r.wLength <= BufferSize => d.datasize <= BufferSize
  /\ d.handled /\ r.in /\ r.wLength > 0 /\ ~Unanswered(r) =>
       d.datasize = Owed(r) /\ d.datasize <= BufferSize

(* The seven requests of the DFU class (dfu.cpp:317-410).                     *)
LEMMA DfuDispatch ==
  ASSUME NEW r \in Requests, NEW s \in Nat, IsDfu(r)
  PROVE  Reply(r, s, Dispatch(r, s))
<1>1. /\ r.type = "class" /\ r.recipient = "interface"
      /\ r.bRequest \in Nat /\ r.wLength \in Nat /\ r.wValue \in Nat
  BY RequestFields DEF IsDfu
<1>2. BufferSize \in Nat /\ BufferSize >= 96
  BY DeviceAssumption
<1>3. Listed(r) <=> r.bRequest \in 0 .. 6
  BY <1>1 DEF Listed, Described, Descriptor, Text, Standard, IsHalt, IsDfu
<1>4. DfuRequests = 0 .. 6
  BY DEF DfuRequests, DFU_DETACH, DFU_DNLOAD, DFU_UPLOAD, DFU_GETSTATUS, DFU_CLRSTATUS,
     DFU_GETSTATE, DFU_ABORT
<1>5. CASE r.bRequest \in 0 .. 6
  <2>1. Dispatch(r, s) = Handled(DfuReply(r))
    BY <1>4, <1>5 DEF Dispatch
  <2>2. UploadLen(r.wValue) \in Nat /\ UploadLen(r.wValue) <= BufferSize
    BY <1>2 DEF UploadLen
  <2>3. DfuReply(r) = IF r.bRequest = 2 THEN UploadLen(r.wValue)
                      ELSE IF r.bRequest = 3 THEN 6 ELSE IF r.bRequest = 5 THEN 1
                      ELSE r.wLength
    BY DEF DfuReply, DFU_UPLOAD, DFU_GETSTATUS, DFU_GETSTATE
  <2>4. Owed(r) = IF r.bRequest = 2 THEN UploadLen(r.wValue)
                  ELSE IF r.bRequest = 3 THEN 6 ELSE 1
    BY <1>1 DEF Owed, Descriptor, Text, Standard, IsDfu, DFU_UPLOAD, DFU_GETSTATUS
  <2>5. r.in /\ r.wLength > 0 /\ ~Unanswered(r) => r.bRequest \notin {0, 1, 4, 6}
    BY ReplyIsPrepared
  <2>6. r.in /\ r.wLength > 0 /\ ~Unanswered(r) => r.bRequest \in {2, 3, 5}
    BY <1>5, <2>5
  <2>7. /\ DfuReply(r) \in Nat
        /\ r.wLength <= BufferSize => DfuReply(r) <= BufferSize
        /\ r.in /\ r.wLength > 0 /\ ~Unanswered(r) =>
             DfuReply(r) = Owed(r) /\ DfuReply(r) <= BufferSize
    BY <1>1, <1>2, <2>2, <2>3, <2>4, <2>6
  <2> QED
    BY <1>3, <1>5, <2>1, <2>7 DEF Reply, Handled
<1>6. CASE r.bRequest \notin 0 .. 6
  <2>1. Dispatch(r, s) = NotSupported(r.wLength)
    BY <1>1, <1>4, <1>6 DEF Dispatch, StandardRequest
  <2> QED
    BY <1>1, <1>3, <1>6, <2>1 DEF Reply, NotSupported
<1> QED
  BY <1>5, <1>6

(* The standard requests to the device (usb.cpp:491-532).                     *)
LEMMA DeviceDispatch ==
  ASSUME NEW r \in Requests, NEW s \in Nat, r.type = "standard", r.recipient = "device"
  PROVE  Reply(r, s, Dispatch(r, s))
<1> DEFINE d == Dispatch(r, s)
<1>1. /\ r.bRequest \in Nat /\ r.wLength \in Nat /\ r.wValue \in Nat
      /\ BufferSize \in Nat /\ BufferSize >= 96
  BY RequestFields, DeviceAssumption
<1>2. d = DeviceRequest(r, s)
  BY DEF Dispatch, IsDfu, StandardRequest
<1>3. /\ \A code : Standard(r, "device", code) <=> r.bRequest = code
      /\ \A code : ~Standard(r, "interface", code) /\ ~Standard(r, "endpoint", code)
      /\ ~IsDfu(r) /\ \A code : ~IsHalt(r, code)
  BY DEF Standard, IsDfu, IsHalt
<1>4. Described(r) => r.bRequest = 6
  BY DEF Described, Text, Descriptor, Standard, GET_DESCRIPTOR
<1>5. Listed(r) <=> \/ Described(r)
                    \/ r.bRequest = 0
                    \/ r.bRequest = 8
                    \/ r.bRequest = 5 /\ ~r.in /\ r.wValue < 128
                    \/ r.bRequest = 9 /\ r.wValue = 1
  BY <1>3 DEF Listed, GET_STATUS, GET_CONFIGURATION, SET_ADDRESS, SET_CONFIGURATION
<1>6. d = CASE r.bRequest = 5 /\ ~r.in /\ r.wValue < 128 -> Handled(s)
            [] r.bRequest = 9 /\ r.wValue = 1 -> Handled(s)
            [] r.bRequest = 8 -> Handled(1)
            [] r.bRequest = 6 -> GetDescriptor(r, s)
            [] r.bRequest = 0 -> Handled(2)
            [] OTHER -> NotSupported(s)
  BY <1>2 DEF DeviceRequest, IsSetAddress, SET_ADDRESS, SET_CONFIGURATION, GET_CONFIGURATION,
     GET_DESCRIPTOR, GET_STATUS, bConfigurationValue
<1> HIDE DEF d
<1>7. Reply(r, s, d)
  <2>1. CASE r.bRequest = 6
    <3>1. d = GetDescriptor(r, s) /\ Standard(r, "device", GET_DESCRIPTOR)
      BY <1>3, <1>6, <2>1 DEF GET_DESCRIPTOR
    <3>2. /\ d.handled <=> Described(r)
          /\ Described(r) => d.datasize = Owed(r) /\ Owed(r) \in Nat /\ Owed(r) <= BufferSize
          /\ ~Described(r) => d.datasize = s
      BY <3>1, DescriptorReply
    <3>3. Listed(r) <=> Described(r)
      BY <1>5, <2>1
    <3> QED
      BY <3>2, <3>3 DEF Reply
  <2>2. CASE r.bRequest = 0
    <3>1. d = Handled(2)
      BY <1>6, <2>2
    <3>2. Owed(r) = 2
      BY <1>4, <2>2 DEF Owed, GET_STATUS, Descriptor, Text, Standard, GET_DESCRIPTOR, IsDfu,
         SET_INTERFACE
    <3>3. Listed(r)
      BY <1>5, <2>2
    <3> QED
      BY <1>1, <3>1, <3>2, <3>3 DEF Reply, Handled
  <2>3. CASE r.bRequest = 8
    <3>1. d = Handled(1)
      BY <1>6, <2>3
    <3>2. Owed(r) = 1
      BY <1>3, <2>3 DEF Owed, GET_STATUS, Descriptor, Text, GET_DESCRIPTOR, IsDfu,
         SET_INTERFACE
    <3>3. Listed(r)
      BY <1>5, <2>3
    <3> QED
      BY <1>1, <3>1, <3>2, <3>3 DEF Reply, Handled
  <2>4. CASE (r.bRequest = 5 /\ ~r.in /\ r.wValue < 128) \/ (r.bRequest = 9 /\ r.wValue = 1)
    <3>1. d = Handled(s)
      BY <1>6, <2>4
    <3>2. Listed(r)
      BY <1>5, <2>4
    <3>3. ~(r.in /\ r.wLength > 0 /\ ~Unanswered(r))
      <4>1. r.bRequest = 9 => Standard(r, "device", SET_CONFIGURATION)
        BY <1>3 DEF SET_CONFIGURATION
      <4> QED
        BY <2>4, <4>1, ReplyIsPrepared
    <3> QED
      BY <1>1, <3>1, <3>2, <3>3 DEF Reply, Handled
  <2>5. CASE ~(\/ r.bRequest \in {0, 6, 8}
               \/ r.bRequest = 5 /\ ~r.in /\ r.wValue < 128
               \/ r.bRequest = 9 /\ r.wValue = 1)
    <3>1. d = NotSupported(s)
      BY <1>6, <2>5
    <3>2. ~Listed(r)
      BY <1>4, <1>5, <2>5
    <3> QED
      BY <1>1, <3>1, <3>2 DEF Reply, NotSupported
  <2> QED
    BY <2>1, <2>2, <2>3, <2>4, <2>5
<1> QED
  BY <1>7 DEF d

(* The requests to an interface or an endpoint, and those of no known type    *)
(* (usb.cpp:541-611).                                                         *)
LEMMA OtherDispatch ==
  ASSUME NEW r \in Requests, NEW s \in Nat, ~IsDfu(r),
         r.type # "standard" \/ r.recipient # "device"
  PROVE  Reply(r, s, Dispatch(r, s))
<1> DEFINE d == Dispatch(r, s)
           interface == r.type = "standard" /\ r.recipient = "interface"
           endpnt == r.type = "standard" /\ r.recipient = "endpoint"
           halt == IsHalt(r, SET_FEATURE) \/ IsHalt(r, CLEAR_FEATURE)
<1>1. /\ r.bRequest \in Nat /\ r.wLength \in Nat /\ r.wValue \in Nat
      /\ BufferSize \in Nat /\ BufferSize >= 96
  BY RequestFields, DeviceAssumption
<1>2. /\ \A code : ~Standard(r, "device", code)
      /\ \A code : Standard(r, "interface", code) <=> interface /\ r.bRequest = code
      /\ \A code : Standard(r, "endpoint", code) <=> endpnt /\ r.bRequest = code
      /\ ~(interface /\ endpnt)
      /\ halt => endpnt /\ r.bRequest \in {1, 3}
  BY DEF Standard, IsHalt, SET_FEATURE, CLEAR_FEATURE
<1>3. ~Described(r)
  BY <1>2 DEF Described, Text, Descriptor
<1>4. Listed(r) <=> (\/ interface /\ r.bRequest \in {10, 11}
                     \/ endpnt /\ r.bRequest = 0
                     \/ halt)
  BY <1>2, <1>3 DEF Listed, GET_INTERFACE, SET_INTERFACE, GET_STATUS
<1>5. d = CASE interface -> InterfaceRequest(r, s)
            [] endpnt -> EndpointRequest(r, s)
            [] OTHER -> NotSupported(s)
  BY DEF Dispatch, StandardRequest
<1>6. InterfaceRequest(r, s) =
        CASE r.bRequest = 10 -> Handled(1) [] r.bRequest = 11 -> Handled(0)
          [] r.bRequest = 0 -> NotSupported(2) [] OTHER -> NotSupported(s)
  BY DEF InterfaceRequest, GET_INTERFACE, SET_INTERFACE, GET_STATUS
<1>7. EndpointRequest(r, s) =
        CASE halt -> Handled(s) [] r.bRequest = 0 -> Handled(2) [] OTHER -> NotSupported(s)
  BY DEF EndpointRequest, GET_STATUS
<1>8. /\ interface /\ r.bRequest = 10 => Owed(r) = 1
      /\ interface /\ r.bRequest = 11 => Owed(r) = 0
      /\ endpnt /\ r.bRequest = 0 => Owed(r) = 2
  <2>1. \A i, t : ~Descriptor(r, t, i) /\ ~Text(r, i)
    BY <1>2 DEF Descriptor, Text
  <2> QED
    BY <1>2, <2>1 DEF Owed, GET_STATUS, SET_INTERFACE
<1>9. halt => ~(r.in /\ r.wLength > 0)
  BY ReplyIsPrepared
<1> HIDE DEF d, interface, endpnt, halt
<1>10. Reply(r, s, d)
  <2>1. CASE interface /\ r.bRequest = 10
    <3>1. d = Handled(1) /\ Listed(r)
      BY <1>2, <1>4, <1>5, <1>6, <2>1
    <3> QED
      BY <1>1, <1>8, <2>1, <3>1 DEF Reply, Handled
  <2>2. CASE interface /\ r.bRequest = 11
    <3>1. d = Handled(0) /\ Listed(r)
      BY <1>2, <1>4, <1>5, <1>6, <2>2
    <3> QED
      BY <1>1, <1>8, <2>2, <3>1 DEF Reply, Handled
  <2>3. CASE interface /\ r.bRequest \notin {10, 11}
    <3>1. (d = NotSupported(2) \/ d = NotSupported(s)) /\ ~Listed(r)
      BY <1>2, <1>4, <1>5, <1>6, <2>3
    <3> QED
      BY <1>1, <3>1 DEF Reply, NotSupported
  <2>4. CASE endpnt /\ halt
    <3>1. d = Handled(s) /\ Listed(r)
      BY <1>2, <1>4, <1>5, <1>7, <2>4
    <3> QED
      BY <1>1, <1>9, <2>4, <3>1 DEF Reply, Handled
  <2>5. CASE endpnt /\ r.bRequest = 0
    <3>1. d = Handled(2) /\ Listed(r)
      BY <1>2, <1>4, <1>5, <1>7, <2>5
    <3> QED
      BY <1>1, <1>8, <2>5, <3>1 DEF Reply, Handled
  <2>6. CASE endpnt /\ ~halt /\ r.bRequest # 0
    <3>1. d = NotSupported(s) /\ ~Listed(r)
      BY <1>2, <1>4, <1>5, <1>7, <2>6
    <3> QED
      BY <1>1, <3>1 DEF Reply, NotSupported
  <2>7. CASE ~interface /\ ~endpnt
    <3>1. d = NotSupported(s) /\ ~Listed(r)
      BY <1>2, <1>4, <1>5, <2>7
    <3> QED
      BY <1>1, <3>1 DEF Reply, NotSupported
  <2> QED
    BY <2>1, <2>2, <2>3, <2>4, <2>5, <2>6, <2>7
<1> QED
  BY <1>10 DEF d

(* So of every request (usb.cpp:622-637).                                     *)
LEMMA DispatchReply ==
  ASSUME NEW r \in Requests, NEW s \in Nat
  PROVE  Reply(r, s, Dispatch(r, s))
BY DfuDispatch, DeviceDispatch, OtherDispatch

-----------------------------------------------------------------------------
(* Packets of a reply.                                                       *)

(* A multiple of the packet size is followed by the next, one packet on, and *)
(* by none before.                                                           *)
LEMMA WholePackets ==
  ASSUME NEW a \in Nat, NEW n \in Nat, n <= PacketSize, a % PacketSize = 0
  PROVE  /\ (a + PacketSize) % PacketSize = 0
         /\ n > 0 /\ (a + n) % PacketSize = 0 => n = PacketSize
<1>1. PacketSize \in Nat /\ PacketSize > 0
  BY PacketSizeIs
<1>2. ASSUME NEW x \in Nat
      PROVE  /\ x \div PacketSize \in Nat
             /\ x = PacketSize * (x \div PacketSize) + (x % PacketSize)
             /\ x % PacketSize \in 0 .. (PacketSize - 1)
  BY <1>1, SMTT(30)
<1>3. ASSUME NEW x \in Nat, NEW y \in Nat
      PROVE  /\ PacketSize * x \in Nat /\ PacketSize * (x + 1) = PacketSize * x + PacketSize
             /\ x < y => PacketSize * (x + 1) <= PacketSize * y
  BY <1>1
<1> DEFINE q == a \div PacketSize
<1>4. q \in Nat /\ a = PacketSize * q
  BY <1>1, <1>2
<1>5. (a + PacketSize) % PacketSize = 0
  <2> DEFINE d == (a + PacketSize) \div PacketSize
             r == (a + PacketSize) % PacketSize
  <2>1. d \in Nat /\ a + PacketSize = PacketSize * d + r /\ r \in 0 .. (PacketSize - 1)
    BY <1>1, <1>2
  <2> HIDE DEF q, d, r
  <2>2. a + PacketSize = PacketSize * (q + 1) /\ q + 1 \in Nat /\ d + 1 \in Nat
    BY <1>3, <1>4, <2>1
  <2>3. CASE d = q + 1
    BY <1>1, <1>3, <2>1, <2>2, <2>3 DEF r
  <2>4. CASE d < q + 1
    BY <1>1, <1>3, <2>1, <2>2, <2>4
  <2>5. CASE q + 1 < d
    BY <1>1, <1>3, <2>1, <2>2, <2>5
  <2> QED
    BY <1>4, <2>1, <2>3, <2>4, <2>5
<1>6. n > 0 /\ (a + n) % PacketSize = 0 => n = PacketSize
  <2> SUFFICES ASSUME n > 0, (a + n) % PacketSize = 0 PROVE n = PacketSize
    OBVIOUS
  <2> DEFINE d == (a + n) \div PacketSize
  <2>1. d \in Nat /\ a + n = PacketSize * d
    BY <1>1, <1>2
  <2> HIDE DEF q, d
  <2>2. CASE d = q
    BY <1>1, <1>4, <2>1, <2>2
  <2>3. CASE d < q
    BY <1>1, <1>3, <1>4, <2>1, <2>3
  <2>4. CASE q < d
    <3>1. PacketSize * (q + 1) = PacketSize * q + PacketSize
      BY <1>3, <1>4
    <3>2. PacketSize * (q + 1) <= PacketSize * d
      BY <1>3, <1>4, <2>1, <2>4
    <3> QED
      BY <1>1, <1>4, <2>1, <3>1, <3>2
  <2> QED
    BY <1>4, <2>1, <2>2, <2>3, <2>4
<1> QED
  BY <1>5, <1>6

(* What is left of a reply of N bytes when n are on their way, behind the    *)
(* bytes that the host has: it is in datasize, at dataoff, and an empty      *)
(* packet is kept in mind if the reply ends on a packet before wLength.      *)
Asks == hreq.in /\ hreq.wLength > 0
Left(n, N) ==
  /\ hcount + n + datasize = N
  /\ datasize > 0 => dataoff = hcount + n
  /\ datasize = 0 => N < hreq.wLength
  /\ usb_needs_zlp <=> datasize > 0 /\ NeedsZlp(N, hreq.wLength)
Chunk(N) ==
  /\ tx.len > 0 => tx.off = hcount
  /\ \/ usb_fsm_state = "DATA_IN" /\ tx.len = PacketSize /\ Left(PacketSize, N)
     \/ /\ usb_fsm_state = "LAST_DATA_IN" /\ datasize = 0 /\ tx.len \in Nat
        /\ hcount + tx.len = N
        /\ tx.len < PacketSize \/ N = hreq.wLength

(* N is the length of the reply: what is owed, if a reply is prepared.       *)
IsReply(N) ==
  /\ N \in Nat /\ N <= hreq.wLength
  /\ ~Unanswered(hreq) => N = ReplyLen(hreq) /\ N <= BufferSize

(* A packet of a reply that lies in the buffer lies in the buffer, and so    *)
(* does what is left (usb.cpp:376-395).                                      *)
LEMMA ChunkBounds ==
  ASSUME stat_tx # "VALID", NEW n \in Nat, NEW off \in Nat, NEW zlp \in BOOLEAN,
         SendChunk(n, off, zlp)
  PROVE  /\ stat_tx' = "VALID" /\ usb_needs_zlp' \in BOOLEAN
         /\ tx'.off \in Nat /\ tx'.len \in 0 .. PacketSize
         /\ usb_fsm_state' \in {"DATA_IN", "LAST_DATA_IN"}
         /\ datasize' \in Nat /\ dataoff' \in Nat
         /\ off + n <= BufferSize =>
              /\ tx' \in Packet /\ dataoff' + datasize' <= BufferSize
              /\ datasize' <= BufferSize
<1>1. PacketSize \in Nat /\ PacketSize > 0 /\ BufferSize \in Nat
  BY PacketSizeIs, DeviceAssumption
<1>2. CASE PacketSize < n
  <2>1. /\ tx' = [off |-> off, len |-> PacketSize] /\ stat_tx' = "VALID"
        /\ usb_fsm_state' = "DATA_IN" /\ usb_needs_zlp' = zlp
        /\ dataoff' = off + PacketSize /\ datasize' = n - PacketSize
    BY <1>2 DEF SendChunk, WritePacket
  <2>2. off + n <= BufferSize => tx' \in Packet
    BY <1>1, <1>2, <2>1 DEF Packet
  <2>3. /\ datasize' \in Nat /\ dataoff' \in Nat
        /\ off + n <= BufferSize => dataoff' + datasize' <= BufferSize /\ datasize' <= BufferSize
    BY <1>1, <1>2, <2>1
  <2> QED
    BY <1>1, <2>1, <2>2, <2>3
<1>3. CASE ~(PacketSize < n)
  <2>1. /\ tx' = [off |-> off, len |-> n] /\ stat_tx' = "VALID"
        /\ usb_fsm_state' = IF zlp THEN "DATA_IN" ELSE "LAST_DATA_IN"
        /\ dataoff' = off /\ datasize' = 0 /\ usb_needs_zlp' = FALSE
    BY <1>3 DEF SendChunk, WritePacket
  <2>2. off + n <= BufferSize => tx' \in Packet
    BY <1>1, <1>3, <2>1 DEF Packet
  <2>3. /\ datasize' \in Nat /\ dataoff' \in Nat
        /\ off + n <= BufferSize => dataoff' + datasize' <= BufferSize /\ datasize' <= BufferSize
    BY <1>1, <2>1
  <2>4. tx'.off = off /\ tx'.len \in 0 .. PacketSize
    BY <1>1, <1>3, <2>1
  <2> QED
    BY <2>1, <2>2, <2>3, <2>4
<1> QED
  BY <1>2, <1>3

(* The packet sent next continues the reply, and the last one shows the host *)
(* where it ends (usb.cpp:671-700, 806-817).                                 *)
LEMMA ChunkDelivers ==
  ASSUME stat_tx # "VALID", NEW n \in Nat, NEW off \in Nat, NEW zlp \in BOOLEAN,
         SendChunk(n, off, zlp), NEW N \in Nat,
         hcount \in Nat, hcount % PacketSize = 0, UNCHANGED <<hreq, hcount>>,
         hreq.wLength \in Nat, N <= hreq.wLength,
         hcount + n = N, n > 0 => off = hcount,
         n = 0 => N < hreq.wLength,
         zlp <=> n > 0 /\ NeedsZlp(N, hreq.wLength)
  PROVE  Chunk(N)'
<1>1. PacketSize \in Nat /\ PacketSize > 0
  BY PacketSizeIs
<1>2. hcount' = hcount /\ hreq'.wLength = hreq.wLength
  OBVIOUS
<1>3. NeedsZlp(N, hreq.wLength) <=> N < hreq.wLength /\ N # 0 /\ N % PacketSize = 0
  BY DEF NeedsZlp
<1>4. CASE PacketSize < n
  <2>1. /\ tx' = [off |-> off, len |-> PacketSize] /\ stat_tx' = "VALID"
        /\ usb_fsm_state' = "DATA_IN"
        /\ dataoff' = off + PacketSize /\ datasize' = n - PacketSize
        /\ usb_needs_zlp' = zlp
    BY <1>4 DEF SendChunk, WritePacket
  <2>3. datasize' \in Nat /\ datasize' > 0
    BY <1>1, <1>4, <2>1
  <2>4. (usb_needs_zlp <=> datasize > 0 /\ NeedsZlp(N, hreq.wLength))'
    <3>1. NeedsZlp(N, hreq.wLength)' <=> NeedsZlp(N, hreq.wLength)
      BY <1>2 DEF NeedsZlp
    <3>2. zlp <=> NeedsZlp(N, hreq.wLength)
      BY <1>1, <1>4
    <3>3. usb_needs_zlp' <=> zlp
      BY <2>1, Zenon
    <3> QED
      BY <2>3, <3>1, <3>2, <3>3
  <2>5. Left(PacketSize, N)'
    <3>1. hcount + PacketSize + (n - PacketSize) = N
      BY <1>1, <1>4
    <3>2. off = hcount
      BY <1>1, <1>4
    <3> QED
      BY <1>1, <1>2, <2>1, <2>3, <2>4, <3>1, <3>2 DEF Left
  <2> QED
    BY <1>1, <1>2, <1>4, <2>1, <2>3, <2>5 DEF Chunk
<1>5. CASE ~(PacketSize < n)
  <2>1. /\ tx' = [off |-> off, len |-> n] /\ stat_tx' = "VALID"
        /\ usb_fsm_state' = IF zlp THEN "DATA_IN" ELSE "LAST_DATA_IN"
        /\ dataoff' = off /\ datasize' = 0 /\ usb_needs_zlp' = FALSE
    BY <1>5 DEF SendChunk, WritePacket
  <2>2. n > 0 /\ (hcount + n) % PacketSize = 0 => n = PacketSize
    BY <1>1, <1>5, WholePackets
  <2>3. (hcount + n) % PacketSize = N % PacketSize
    OBVIOUS
  <2>4. n > 0 /\ N % PacketSize = 0 => n = PacketSize
    BY <2>2, <2>3
  <2>5. CASE zlp
    <3>1. n = PacketSize /\ N < hreq.wLength /\ off = hcount
      BY <1>1, <1>3, <2>4, <2>5
    <3>2. usb_fsm_state' = "DATA_IN" /\ ~usb_needs_zlp'
      BY <2>1, <2>5
    <3>3. hcount + PacketSize + 0 = N
      BY <1>1, <3>1
    <3>4. Left(PacketSize, N)'
      BY <1>1, <1>2, <2>1, <3>1, <3>2, <3>3 DEF Left
    <3> QED
      BY <1>2, <2>1, <3>1, <3>2, <3>4 DEF Chunk
  <2>6. CASE ~zlp
    <3>1. n < PacketSize \/ N = hreq.wLength
      <4>1. CASE n = 0
        BY <1>1, <4>1
      <4>2. CASE n > 0 /\ n = PacketSize
        <5>1. N % PacketSize = 0
          BY <1>1, <4>2, WholePackets
        <5>2. N # 0 /\ N \in Nat /\ N <= hreq.wLength
          BY <1>1, <4>2
        <5> QED
          BY <1>3, <2>6, <4>2, <5>1, <5>2
      <4> QED
        BY <1>1, <1>5, <4>1, <4>2
    <3>2. usb_fsm_state' = "LAST_DATA_IN"
      BY <2>1, <2>6
    <3>3. n > 0 => off = hcount
      OBVIOUS
    <3>4. hcount + n = N
      OBVIOUS
    <3> QED
      BY <1>2, <2>1, <3>1, <3>2, <3>3, <3>4 DEF Chunk
  <2> QED
    BY <2>5, <2>6
<1> QED
  BY <1>4, <1>5

-----------------------------------------------------------------------------
(* The second invariant, on top of UsbInv.                                   *)

(* The endpoint stalls under the host only when its request is not promised, *)
(* and every packet of the host finds the state machine in the state that    *)
(* takes it.                                                                 *)
Refused ==
  /\ received # "setup" /\ hstage # "idle" =>
       /\ stat_tx = "STALL" => ~Kept(hreq)
       /\ stat_rx = "STALL" /\ hreq.wLength > 0 => ~Kept(hreq)
       /\ received = "out" => usb_fsm_state \in {"DATA_OUT", "LAST_DATA_OUT"}
       /\ hstage = "data" /\ ~hreq.in /\ stat_rx = "VALID" =>
            usb_fsm_state \in {"DATA_OUT", "LAST_DATA_OUT"}
       /\ ctr_tx => usb_fsm_state = IF hstage = "data" THEN "DATA_IN" ELSE "LAST_DATA_IN"
  /\ hstage # "idle" => outcome = "none"
  /\ outcome = "stall" => ~Kept(hreq)

(* A packet is sent only for a promised request, and the host leaves the     *)
(* data stage of a read with the whole reply.                                *)
Served ==
  /\ received # "setup" /\ (stat_tx = "VALID" \/ usb_fsm_state = "DATA_IN") => Kept(hreq)
  /\ Asks /\ hstage = "status" =>
       received # "setup" /\ Kept(hreq) /\ sound /\ IsReply(hcount)
  /\ outcome = "ok" => Kept(hreq)
  /\ outcome = "ok" /\ Asks => sound /\ IsReply(hcount)

(* In the data stage of a read the packet on its way continues what the host *)
(* has, and the state machine holds the rest.                                *)
Delivering ==
  received # "setup" /\ Asks /\ hstage = "data" =>
    /\ hcount % PacketSize = 0
    /\ stat_tx = "VALID" => sound /\ \E N : IsReply(N) /\ Chunk(N)
    /\ ctr_tx => usb_fsm_state = "DATA_IN" /\ sound /\ \E N : IsReply(N) /\ Left(0, N)

(* What is sent lies in the buffer, and so does what is left to send.        *)
Inside ==
  /\ usb_fsm_state # "IDLE" => datasize <= BufferSize
  /\ usb_fsm_state \in {"DATA_IN", "LAST_DATA_IN"} => dataoff + datasize <= BufferSize
  /\ stat_tx = "VALID" => tx \in Packet

(* No packet of a reply that is prepared leaves the buffer, nor one of the   *)
(* data of a request, and no address its seven bits.                         *)
Bounded ==
  /\ datasize \in Nat /\ dataoff \in Nat
  /\ tx.off \in Nat /\ tx.len \in 0 .. PacketSize
  /\ rx.off \in Nat /\ rx.len \in 0 .. PacketSize /\ (rx.len > 0 => rx \in Packet)
  /\ ~Unanswered(usb_req) => Inside
  /\ usb_fsm_state \in {"DATA_OUT", "LAST_DATA_OUT"} => usb_req.wLength <= BufferSize
  /\ usb_needs_zlp \in BOOLEAN /\ usb_force_nak \in BOOLEAN
  /\ hcount \in Nat /\ daddr \in {Off} \cup 0 .. 127 /\ haddr \in 0 .. 127
  /\ received = "setup" => hreq \in Requests

ReplyInv == UsbInv /\ Refused /\ Served /\ Delivering /\ Bounded

(* It holds before the first request.                                        *)
LEMMA InitReplyInv == Init => ReplyInv
<1> SUFFICES ASSUME Init PROVE ReplyInv
  OBVIOUS
<1>1. UsbInv
  BY InitUsbInv
<1>2. Refused /\ Served /\ Delivering
  BY DEF Init, Refused, Served, Delivering
<1>3. Bounded
  <2>1. usb_needs_zlp \in BOOLEAN /\ usb_force_nak \in BOOLEAN
    BY DEF Init
  <2>2. /\ tx = [off |-> 0, len |-> 0] /\ rx = [off |-> 0, len |-> 0]
        /\ received # "setup" /\ hcount \in Nat
        /\ usb_fsm_state = "IDLE" /\ datasize = 0 /\ dataoff = 0
        /\ stat_tx = "DISABLED" /\ daddr = Off /\ haddr = 0
    BY DEF Init
  <2>3. Inside
    BY <2>2 DEF Inside
  <2>4. 0 \in 0 .. PacketSize
    BY PacketSizeIs
  <2> QED
    BY <2>1, <2>2, <2>3, <2>4 DEF Bounded
<1> QED
  BY <1>1, <1>2, <1>3 DEF ReplyInv

(* A request that stays the same is promised and owed the same.              *)
LEMMA SameRequest ==
  ASSUME hreq' = hreq
  PROVE  /\ Kept(hreq') <=> Kept(hreq)
         /\ hreq'.wLength = hreq.wLength /\ (Asks' <=> Asks)
         /\ \A N : IsReply(N)' <=> IsReply(N)
<1>1. Kept(hreq') <=> Kept(hreq)
  BY Zenon
<1>2. /\ ReplyLen(hreq') = ReplyLen(hreq) /\ hreq'.wLength = hreq.wLength
      /\ Unanswered(hreq') <=> Unanswered(hreq)
  BY Zenon
<1>3. Asks' <=> Asks
  BY Zenon DEF Asks
<1>4. ASSUME NEW N PROVE IsReply(N)' <=> IsReply(N)
  BY <1>2 DEF IsReply
<1> QED
  BY <1>1, <1>2, <1>3, <1>4

(* Neither does the request in hand change what its handler prepares.        *)
LEMMA SameAnswer ==
  ASSUME usb_req' = usb_req
  PROVE  Unanswered(usb_req') <=> Unanswered(usb_req)
BY Zenon

(* The data stage goes on where it was if no packet is added to it.          *)
LEMMA DeliveringKept ==
  ASSUME Delivering, received # "setup" \/ received' = "setup", UNCHANGED <<hreq, hcount, sound>>,
         hstage' = "data" => hstage = "data",
         stat_tx' = "VALID" => stat_tx = "VALID" /\ UNCHANGED <<tx, fsm>>,
         ctr_tx' => ctr_tx /\ UNCHANGED fsm
  PROVE  Delivering'
<1> SUFFICES ASSUME received' # "setup", Asks', hstage' = "data"
             PROVE  /\ (hcount % PacketSize = 0)'
                    /\ (stat_tx = "VALID" => sound /\ \E N : IsReply(N) /\ Chunk(N))'
                    /\ (ctr_tx => usb_fsm_state = "DATA_IN" /\ sound
                                  /\ \E N : IsReply(N) /\ Left(0, N))'
  BY DEF Delivering
<1>1. /\ hcount % PacketSize = 0
      /\ stat_tx = "VALID" => sound /\ \E N : IsReply(N) /\ Chunk(N)
      /\ ctr_tx => usb_fsm_state = "DATA_IN" /\ sound /\ \E N : IsReply(N) /\ Left(0, N)
  BY SameRequest DEF Delivering
<1>2. hcount' = hcount /\ sound' = sound /\ hreq' = hreq /\ hreq'.wLength = hreq.wLength
  OBVIOUS
<1>3. ASSUME UNCHANGED fsm, NEW n, NEW N, Left(n, N) PROVE Left(n, N)'
  <2>1. datasize' = datasize /\ dataoff' = dataoff /\ usb_needs_zlp' = usb_needs_zlp
    BY <1>3 DEF fsm
  <2>2. (usb_needs_zlp <=> datasize > 0 /\ NeedsZlp(N, hreq.wLength))'
    BY <1>2, <1>3, <2>1, Zenon DEF Left
  <2> QED
    BY <1>2, <1>3, <2>1, <2>2 DEF Left
<1>4. (stat_tx = "VALID" => sound /\ \E N : IsReply(N) /\ Chunk(N))'
  <2> SUFFICES ASSUME stat_tx' = "VALID" PROVE sound' /\ \E N : IsReply(N)' /\ Chunk(N)'
    OBVIOUS
  <2>1. tx' = tx /\ UNCHANGED fsm /\ sound
    BY <1>1
  <2>2. PICK N : IsReply(N) /\ Chunk(N)
    BY <1>1
  <2>3. usb_fsm_state' = usb_fsm_state /\ datasize' = datasize
    BY <2>1 DEF fsm
  <2>4. Left(PacketSize, N) => Left(PacketSize, N)'
    BY <1>3, <2>1
  <2>5. Chunk(N)'
    BY <1>2, <2>1, <2>2, <2>3, <2>4 DEF Chunk
  <2>6. IsReply(N)'
    BY <2>2, SameRequest
  <2> QED
    BY <1>2, <2>1, <2>5, <2>6
<1>5. (ctr_tx => usb_fsm_state = "DATA_IN" /\ sound /\ \E N : IsReply(N) /\ Left(0, N))'
  <2> SUFFICES ASSUME ctr_tx'
               PROVE  usb_fsm_state' = "DATA_IN" /\ sound' /\ \E N : IsReply(N)' /\ Left(0, N)'
    OBVIOUS
  <2>1. UNCHANGED fsm /\ usb_fsm_state = "DATA_IN" /\ sound
    BY <1>1
  <2>2. PICK N : IsReply(N) /\ Left(0, N)
    BY <1>1
  <2>3. Left(0, N)' /\ IsReply(N)'
    BY <1>3, <2>1, <2>2, SameRequest
  <2> QED
    BY <1>2, <2>1, <2>3 DEF fsm
<1>6. (hcount % PacketSize = 0)'
  BY <1>1, <1>2
<1> QED
  BY <1>4, <1>5, <1>6

(* A SETUP that has been read begins the reply, the status stage or the data *)
(* of a request that may come, or refuses one that is not promised           *)
(* (usb.cpp:671-747).                                                        *)
BeginsReply ==
  /\ Asks /\ Kept(hreq) /\ stat_rx' = "NAK"
  /\ \E N : IsReply(N) /\ SendChunk(N, 0, NeedsZlp(N, hreq.wLength))
BeginsStatus ==
  /\ hreq.wLength = 0 /\ Kept(hreq)
  /\ usb_fsm_state' = "STATUS_IN" /\ stat_tx' = "VALID"
  /\ tx' = [off |-> 0, len |-> 0] /\ dataoff' = 0 /\ datasize' = 0
  /\ usb_needs_zlp' = usb_needs_zlp
BeginsData ==
  /\ ~hreq.in /\ hreq.wLength > 0 /\ hreq.wLength <= BufferSize
  /\ usb_fsm_state' \in {"DATA_OUT", "LAST_DATA_OUT"}
  /\ stat_tx' = stat_tx /\ stat_rx' = "VALID"
  /\ datasize' = 0 /\ UNCHANGED <<dataoff, tx, usb_needs_zlp>>
RefusesRequest ==
  ~Kept(hreq) /\ Stall /\ datasize' \in Nat /\ dataoff' \in {0, dataoff}

(* A SETUP that is read begins one of four things (usb.cpp:671-747).          *)
LEMMA SetupBegins ==
  ASSUME ReplyInv, PollSetup
  PROVE  BeginsReply \/ BeginsStatus \/ BeginsData \/ RefusesRequest
<1>1. hreq \in Requests /\ stat_tx = "NAK" /\ datasize \in Nat
  BY DEF ReplyInv, UsbInv, Fresh, Bounded, PollSetup
<1>2. hreq.in \in BOOLEAN /\ hreq.wLength \in Nat
  BY <1>1, RequestTypes
<1>3. BufferSize \in Nat /\ BufferSize >= 96 /\ PacketSize \in Nat /\ PacketSize > 0
  BY DeviceAssumption, PacketSizeIs
<1> DEFINE d == Dispatch(hreq, datasize)
           n == MinOf(d.datasize, hreq.wLength)
<1>4. Reply(hreq, datasize, d)
  BY <1>1, DispatchReply
<1>5. Kept(hreq) <=> (hreq.in \/ hreq.wLength <= BufferSize) /\ Listed(hreq)
  BY KeptIs
<1>6. CASE hreq.wLength = 0 \/ hreq.in
  <2>1. SetupRead(hreq)
    BY <1>6 DEF PollSetup
  <2>2. /\ ~d.handled => Stall /\ dataoff' = 0 /\ datasize' = d.datasize
        /\ d.handled => stat_rx' = RxAfter(hreq)
        /\ d.handled /\ hreq.wLength > 0 => SendChunk(n, 0, NeedsZlp(n, hreq.wLength))
        /\ d.handled /\ ~(hreq.wLength > 0) =>
             /\ WritePacket(0, 0) /\ usb_fsm_state' = "STATUS_IN"
             /\ dataoff' = 0 /\ datasize' = n /\ UNCHANGED usb_needs_zlp
    BY <2>1 DEF SetupRead
  <2>3. Kept(hreq) <=> Listed(hreq)
    BY <1>2, <1>3, <1>5, <1>6
  <2> HIDE DEF d
  <2>4. CASE ~d.handled
    BY <1>4, <2>2, <2>3, <2>4 DEF Reply, RefusesRequest
  <2>5. CASE d.handled /\ hreq.wLength > 0
    <3>1. /\ d.datasize \in Nat
          /\ ~Unanswered(hreq) => d.datasize = Owed(hreq) /\ d.datasize <= BufferSize
      BY <1>4, <1>6, <2>5 DEF Reply
    <3>2. n \in Nat /\ n <= hreq.wLength /\ n <= d.datasize
      BY <1>2, <1>3, <3>1 DEF MinOf
    <3>3. IsReply(n)
      BY <1>3, <3>1, <3>2 DEF IsReply, ReplyLen
    <3>4. RxAfter(hreq) = "NAK"
      <4>1. ~IsHalt(hreq, SET_FEATURE) /\ ~IsHalt(hreq, CLEAR_FEATURE)
        BY <1>1, <1>6, <2>5, ReplyIsPrepared
      <4> QED
        BY <4>1 DEF RxAfter
    <3> QED
      BY <1>4, <1>6, <2>2, <2>3, <2>5, <3>3, <3>4 DEF Reply, BeginsReply, Asks
  <2>6. CASE d.handled /\ hreq.wLength = 0
    <3>1. n = 0
      BY <1>4, <2>6 DEF Reply, MinOf
    <3>2. WritePacket(0, 0) /\ usb_fsm_state' = "STATUS_IN"
          /\ dataoff' = 0 /\ datasize' = n /\ UNCHANGED usb_needs_zlp
      BY <2>2, <2>6
    <3> QED
      BY <1>1, <1>4, <2>3, <2>6, <3>1, <3>2 DEF Reply, BeginsStatus, WritePacket
  <2> QED
    BY <1>2, <2>4, <2>5, <2>6
<1>7. CASE ~(hreq.wLength = 0 \/ hreq.in)
  <2>1. SetupWrite(hreq)
    BY <1>7 DEF PollSetup
  <2>2. CASE FitsBuffer(hreq)
    BY <1>2, <1>3, <1>7, <2>1, <2>2 DEF SetupWrite, BeginsData, FitsBuffer
  <2>3. CASE ~FitsBuffer(hreq)
    <3>1. ~Kept(hreq)
      BY <1>2, <1>3, <1>5, <1>7, <2>3 DEF FitsBuffer
    <3> QED
      BY <1>1, <2>1, <2>3, <3>1 DEF SetupWrite, RefusesRequest
  <2> QED
    BY <2>2, <2>3
<1> QED
  BY <1>6, <1>7

(* Each of them leaves the endpoint, the lengths and the host in agreement.   *)
LEMMA PollSetupReply == ReplyInv /\ PollSetup => (Refused /\ Served /\ Delivering /\ Bounded)'
<1> SUFFICES ASSUME ReplyInv, PollSetup PROVE (Refused /\ Served /\ Delivering /\ Bounded)'
  OBVIOUS
<1>1. /\ received' = "none" /\ usb_req' = hreq /\ hreq' = hreq
      /\ ctr_tx' = FALSE /\ outcome' = outcome /\ hstage' = hstage
      /\ hcount' = hcount /\ sound' = sound /\ haddr' = haddr /\ daddr' = daddr /\ rx' = rx
  BY DEF PollSetup, hostVars, ReplyInv, UsbInv, Types, Fresh
<1>2. /\ stat_tx = "NAK" /\ received = "setup" /\ outcome = "none" /\ sound /\ hcount = 0
  BY DEF PollSetup, ReplyInv, UsbInv, Fresh
<1>3. /\ hreq.in \in BOOLEAN /\ hreq.wLength \in Nat /\ hreq \in Requests
      /\ PacketSize \in Nat /\ PacketSize > 0 /\ BufferSize \in Nat
      /\ dataoff \in Nat /\ tx.off \in Nat /\ tx.len \in 0 .. PacketSize
      /\ rx.off \in Nat /\ rx.len \in 0 .. PacketSize /\ (rx.len > 0 => rx \in Packet)
      /\ usb_needs_zlp \in BOOLEAN /\ hstage \in {"idle", "data", "status"}
  BY <1>2, RequestTypes, PacketSizeIs, DeviceAssumption DEF ReplyInv, UsbInv, Types, Bounded
<1>4. /\ Kept(hreq') <=> Kept(hreq)
      /\ hreq'.wLength = hreq.wLength /\ (Asks' <=> Asks)
      /\ \A N : IsReply(N)' <=> IsReply(N)
  BY <1>1, SameRequest
<1>5. usb_force_nak' \in BOOLEAN
  BY DEF PollSetup, SetupRead, SetupWrite
<1>6. /\ hstage = "data" => hreq.wLength > 0
      /\ hcount' \in Nat /\ daddr' \in {Off} \cup 0 .. 127 /\ haddr' \in 0 .. 127
  BY <1>1 DEF ReplyInv, UsbInv, Bus, Bounded
<1>7. hstage = "status" => ~Asks
  BY <1>2 DEF ReplyInv, Served
<1>8. outcome' = "none"
  BY <1>1, <1>2
<1> HIDE DEF ReplyInv
<1>9. CASE BeginsReply
  <2>1. Asks /\ Kept(hreq) /\ stat_rx' = "NAK" /\ hreq.wLength > 0
    BY <1>9 DEF BeginsReply, Asks
  <2>2. PICK N : IsReply(N) /\ SendChunk(N, 0, NeedsZlp(N, hreq.wLength))
    BY <1>9 DEF BeginsReply
  <2>3. /\ N \in Nat /\ N <= hreq.wLength
        /\ ~Unanswered(hreq) => N <= BufferSize
        /\ NeedsZlp(N, hreq.wLength) \in BOOLEAN /\ (NeedsZlp(N, hreq.wLength) => N # 0)
    BY <2>2 DEF IsReply, NeedsZlp
  <2>4. 0 % PacketSize = 0
    BY <1>3, SMTT(30)
  <2>5. /\ stat_tx' = "VALID" /\ usb_needs_zlp' \in BOOLEAN
        /\ tx'.off \in Nat /\ tx'.len \in 0 .. PacketSize
        /\ usb_fsm_state' \in {"DATA_IN", "LAST_DATA_IN"}
        /\ datasize' \in Nat /\ dataoff' \in Nat
        /\ ~Unanswered(hreq) =>
             tx' \in Packet /\ dataoff' + datasize' <= BufferSize /\ datasize' <= BufferSize
    BY <1>2, <1>3, <2>2, <2>3, ChunkBounds
  <2>6. Chunk(N)'
    <3>1. /\ stat_tx # "VALID" /\ hcount % PacketSize = 0
          /\ hcount + N = N /\ (N > 0 => 0 = hcount) /\ hcount \in Nat
          /\ (N = 0 => N < hreq.wLength) /\ UNCHANGED <<hreq, hcount>>
          /\ NeedsZlp(N, hreq.wLength) <=> N > 0 /\ NeedsZlp(N, hreq.wLength)
      BY <1>1, <1>2, <1>3, <2>1, <2>3, <2>4
    <3> QED
      BY <1>3, <2>2, <2>3, <3>1, ChunkDelivers
  <2>7. Refused'
    BY <1>1, <1>8, <2>1, <2>5 DEF Refused, Asks
  <2>8. Served'
    BY <1>1, <1>4, <1>7, <1>8, <2>1 DEF Served
  <2>9. Delivering'
    <3>1. (hcount % PacketSize = 0)' /\ sound' /\ IsReply(N)'
      BY <1>1, <1>2, <1>4, <2>2, <2>4
    <3> QED
      BY <1>1, <2>6, <3>1 DEF Delivering
  <2>10. Bounded'
    <3>1. /\ received' # "setup" /\ usb_fsm_state' \notin {"DATA_OUT", "LAST_DATA_OUT"}
          /\ rx'.off \in Nat /\ rx'.len \in 0 .. PacketSize /\ (rx'.len > 0 => rx' \in Packet)
      BY <1>1, <1>3, <2>5
    <3>2. ~Unanswered(usb_req') => Inside'
      BY <1>1, <2>5 DEF Inside
    <3> QED
      BY <1>5, <1>6, <2>5, <3>1, <3>2, Zenon DEF Bounded
  <2> QED
    BY <2>7, <2>8, <2>9, <2>10
<1>10. CASE BeginsStatus
  <2>1. [off |-> 0, len |-> 0] \in Packet
    BY <1>3 DEF Packet
  <2>2. ~Asks
    BY <1>3, <1>10 DEF BeginsStatus, Asks
  <2>3. hstage # "data" /\ ~(hreq.wLength > 0)
    BY <1>3, <1>6, <1>10 DEF BeginsStatus
  <2>4. Refused'
    BY <1>1, <1>4, <1>8, <1>10, <2>3 DEF Refused, BeginsStatus
  <2>5. Served'
    BY <1>1, <1>4, <1>8, <1>10, <2>2 DEF Served, BeginsStatus
  <2>6. Delivering'
    BY <1>4, <2>2 DEF Delivering
  <2>7. Bounded'
    BY <1>1, <1>3, <1>5, <1>6, <1>10, <2>1 DEF Bounded, Inside, BeginsStatus
  <2> QED
    BY <2>4, <2>5, <2>6, <2>7
<1>11. CASE BeginsData
  <2>1. ~Asks
    BY <1>11 DEF BeginsData, Asks
  <2>2. Refused'
    BY <1>1, <1>2, <1>8, <1>11 DEF Refused, BeginsData
  <2>3. Served'
    BY <1>1, <1>2, <1>4, <1>8, <1>11, <2>1 DEF Served, BeginsData
  <2>4. Delivering'
    BY <1>4, <2>1 DEF Delivering
  <2>5. Bounded'
    BY <1>1, <1>2, <1>3, <1>5, <1>6, <1>11 DEF Bounded, Inside, BeginsData
  <2> QED
    BY <2>2, <2>3, <2>4, <2>5
<1>12. CASE RefusesRequest
  <2>1. /\ ~Kept(hreq) /\ stat_tx' = "STALL" /\ stat_rx' = "STALL"
        /\ usb_fsm_state' = "IDLE" /\ tx' = tx /\ usb_needs_zlp' = usb_needs_zlp
        /\ datasize' \in Nat /\ dataoff' \in Nat
    BY <1>3, <1>12 DEF RefusesRequest, Stall
  <2>2. Refused'
    BY <1>1, <1>4, <1>8, <2>1 DEF Refused
  <2>3. Served'
    BY <1>1, <1>4, <1>7, <1>8, <2>1 DEF Served
  <2>4. Delivering'
    <3>1. (hcount % PacketSize = 0)'
      BY <1>1, <1>2, <1>3, SMTT(30)
    <3> QED
      BY <1>1, <2>1, <3>1 DEF Delivering
  <2>5. Bounded'
    BY <1>1, <1>3, <1>5, <1>6, <2>1 DEF Bounded, Inside
  <2> QED
    BY <2>2, <2>3, <2>4, <2>5
<1> QED
  BY <1>9, <1>10, <1>11, <1>12, SetupBegins

(* A bus reset finds the host without a transfer (usb.cpp:924-934).          *)
LEMMA PollResetReply == ReplyInv /\ PollReset => (Refused /\ Served /\ Delivering /\ Bounded)'
<1> SUFFICES ASSUME ReplyInv, PollReset PROVE (Refused /\ Served /\ Delivering /\ Bounded)'
  OBVIOUS
<1>1. /\ received' = received /\ usb_req' = usb_req /\ hreq' = hreq /\ ctr_tx' = ctr_tx
      /\ outcome' = outcome /\ hstage' = hstage /\ hcount' = hcount /\ sound' = sound
      /\ haddr' = haddr /\ daddr' = 0 /\ rx' = rx /\ tx' = tx /\ stat_tx' = "NAK"
      /\ usb_fsm_state' = usb_fsm_state /\ datasize' = datasize /\ dataoff' = dataoff
      /\ usb_needs_zlp' = usb_needs_zlp /\ usb_force_nak' = usb_force_nak
  BY DEF PollReset, device, fsm, hostVars, history
<1>2. hstage = "idle"
  BY DEF PollReset, ReplyInv, UsbInv, Bus
<1>3. /\ Kept(hreq') <=> Kept(hreq)
      /\ (Asks' <=> Asks) /\ \A N : IsReply(N)' <=> IsReply(N)
  BY <1>1, SameRequest
<1>4. Refused'
  BY <1>1, <1>2, <1>3 DEF ReplyInv, Refused
<1>5. Served'
  BY <1>1, <1>2, <1>3 DEF ReplyInv, Served
<1>6. Delivering'
  BY <1>1, <1>2 DEF Delivering
<1>7. Bounded'
  <2>1. daddr' \in {Off} \cup 0 .. 127
    BY <1>1
  <2> QED
    BY <1>1, <2>1, SameAnswer DEF ReplyInv, Bounded, Inside
<1> QED
  BY <1>4, <1>5, <1>6, <1>7

(* The data stage of a write goes on, is confirmed when the request is       *)
(* promised, and refused when it is not (usb.cpp:757-784).                   *)
LEMMA OutDataReply ==
  ASSUME ReplyInv, PollOut, usb_fsm_state \in {"DATA_OUT", "LAST_DATA_OUT"}
  PROVE  (Refused /\ Served /\ Delivering /\ Bounded)'
<1>1. OutData /\ received = "out" /\ UsbInv
  BY DEF PollOut, ReplyInv
<1>2. /\ Collects \/ Completes
      /\ received' = "none" /\ sound' = TRUE
      /\ hcount > datasize /\ hcount <= hreq.wLength /\ datasize \in Nat /\ hcount \in Nat
  BY <1>1, OutDataOutcome
<1>3. /\ usb_req' = usb_req /\ hreq' = hreq /\ ctr_tx' = ctr_tx
      /\ outcome' = outcome /\ hstage' = hstage /\ hcount' = hcount /\ rx' = rx
      /\ haddr' = haddr /\ daddr' = daddr /\ usb_force_nak' = usb_force_nak
      /\ dataoff' = dataoff
  BY <1>1 DEF PollOut, OutData, hostVars
<1>4. /\ ~hreq.in /\ ~ctr_tx /\ stat_tx # "VALID" /\ sound /\ dispatched = 0
      /\ outcome # "ok" /\ usb_req = hreq /\ stat_rx # "VALID"
      /\ hstage = "data" => hreq.wLength > 0 /\ hcount < hreq.wLength
      /\ usb_req.wLength <= BufferSize
      /\ rx = [off |-> datasize, len |-> MinOf(PacketSize, hreq.wLength - datasize)]
      /\ hcount = datasize + rx.len
  BY <1>1 DEF ReplyInv, UsbInv, Fresh, Bus, Writing, Answered, Bounded
<1>5. /\ hreq.wLength \in Nat /\ PacketSize \in Nat /\ PacketSize > 0 /\ BufferSize \in Nat
      /\ hreq \in Requests
  <2>1. hreq \in Requests \cup {NoRequest}
    BY <1>1 DEF UsbInv, Types
  <2>2. hreq # NoRequest
    BY <1>2 DEF NoRequest
  <2> QED
    BY <2>1, <2>2, RequestTypes, PacketSizeIs, DeviceAssumption
<1>6. /\ Kept(hreq') <=> Kept(hreq)
      /\ (Asks' <=> Asks) /\ \A N : IsReply(N)' <=> IsReply(N)
  BY <1>3, SameRequest
<1>7. ~Asks /\ ~Asks'
  BY <1>4, <1>6 DEF Asks
<1>8. [off |-> 0, len |-> 0] \in Packet
  BY <1>5 DEF Packet
<1> DEFINE d == Dispatch(hreq, hcount)
<1>9. /\ stat_tx' = "VALID" => Kept(hreq)
      /\ stat_tx' = "STALL" /\ stat_tx # "STALL" => ~Kept(hreq)
      /\ stat_rx' = "STALL" /\ stat_rx # "STALL" => ~Kept(hreq)
      /\ tx' = tx \/ tx' = [off |-> 0, len |-> 0]
      /\ stat_tx' = "VALID" => tx' = [off |-> 0, len |-> 0]
      /\ usb_needs_zlp' = usb_needs_zlp
      /\ datasize' \in Nat /\ (usb_fsm_state' # "IDLE" => datasize' <= BufferSize)
  <2>1. ExpectedLen = rx.len
    BY <1>4 DEF ExpectedLen
  <2>2. datasize + ExpectedLen = hcount /\ MinOf(rx.len, ExpectedLen) = ExpectedLen
    BY <1>4, <2>1 DEF MinOf
  <2>3. ~StillArmed
    BY <1>4 DEF StillArmed
  <2>5. CASE usb_fsm_state = "DATA_OUT"
    <3>1. RxRead /\ UNCHANGED <<tx, stat_tx, usb_needs_zlp>> /\ datasize' = hcount
      BY <1>1, <2>2, <2>3, <2>5 DEF OutData
    <3>2. stat_rx' \in {stat_rx, "VALID"}
      BY <3>1 DEF RxRead
    <3>3. datasize' \in Nat /\ datasize' <= BufferSize
      BY <1>2, <1>4, <1>5, <3>1
    <3> QED
      BY <1>4, <3>1, <3>2, <3>3
  <2>6. CASE usb_fsm_state = "LAST_DATA_OUT"
    <3>1. /\ datasize' = d.datasize
          /\ d.handled => /\ RxRead /\ WritePacket(0, 0)
                          /\ usb_fsm_state' = "STATUS_IN" /\ UNCHANGED usb_needs_zlp
          /\ ~d.handled => Stall
      BY <1>1, <1>4, <2>2, <2>3, <2>6 DEF OutData
    <3>2. Completes
      BY <1>2, <2>6 DEF Collects
    <3>3. hcount = hreq.wLength
      BY <3>2 DEF Completes
    <3>4. Reply(hreq, hcount, d)
      BY <1>2, <1>5, DispatchReply
    <3>5. Kept(hreq) <=> d.handled
      BY <1>2, <1>4, <3>4, KeptIs DEF Reply
    <3> HIDE DEF d
    <3>6. CASE d.handled
      <4>1. stat_rx' \in {stat_rx, "VALID"} /\ stat_tx' = "VALID"
            /\ tx' = [off |-> 0, len |-> 0]
        BY <1>4, <3>1, <3>6 DEF RxRead, WritePacket
      <4>2. datasize' \in Nat /\ datasize' <= BufferSize
        BY <1>4, <3>1, <3>3, <3>4, <3>6 DEF Reply
      <4> QED
        BY <1>4, <3>1, <3>5, <3>6, <4>1, <4>2
    <3>7. CASE ~d.handled
      BY <1>4, <3>1, <3>4, <3>5, <3>7 DEF Stall, Reply
    <3> QED
      BY <3>6, <3>7
  <2> QED
    BY <2>5, <2>6
<1>10. hstage # "idle" => /\ stat_tx = "STALL" => ~Kept(hreq)
                          /\ stat_rx = "STALL" /\ hreq.wLength > 0 => ~Kept(hreq)
  BY <1>1 DEF ReplyInv, Refused
<1>11. (hstage # "idle" => outcome = "none") /\ (outcome = "stall" => ~Kept(hreq))
  BY DEF ReplyInv, Refused
<1>12. Refused'
  <2>1. hstage = "data" => usb_fsm_state' \in {"DATA_OUT", "LAST_DATA_OUT"}
    BY <1>2, <1>4 DEF Collects, Completes
  <2> QED
    BY <1>2, <1>3, <1>4, <1>6, <1>9, <1>10, <1>11, <2>1 DEF Refused
<1>13. Served'
  <2>1. usb_fsm_state' # "DATA_IN"
    BY <1>2 DEF Collects, Completes
  <2> QED
    BY <1>2, <1>3, <1>4, <1>6, <1>7, <1>9, <2>1 DEF Served
<1>14. Delivering'
  BY <1>7 DEF Delivering
<1>15. Bounded'
  <2>1. usb_fsm_state' \notin {"DATA_IN", "LAST_DATA_IN"}
    BY <1>2 DEF Collects, Completes
  <2>2. Inside'
    BY <1>8, <1>9, <2>1 DEF Inside
  <2>3. tx'.off \in Nat /\ tx'.len \in 0 .. PacketSize
    BY <1>5, <1>9 DEF ReplyInv, Bounded
  <2> QED
    BY <1>2, <1>3, <1>4, <1>9, <2>1, <2>2, <2>3 DEF ReplyInv, Bounded
<1> QED
  BY <1>12, <1>13, <1>14, <1>15

(* Elsewhere a packet finds the host done (usb.cpp:785-799).                 *)
LEMMA OutOtherReply ==
  ASSUME ReplyInv, PollOut, usb_fsm_state \notin {"DATA_OUT", "LAST_DATA_OUT"}
  PROVE  (Refused /\ Served /\ Delivering /\ Bounded)'
<1>1. received = "out" /\ hstage = "idle"
  BY DEF PollOut, ReplyInv, UsbInv, Types, Refused
<1>2. /\ usb_req' = usb_req /\ hreq' = hreq /\ ctr_tx' = ctr_tx
      /\ outcome' = outcome /\ hstage' = hstage /\ hcount' = hcount /\ rx' = rx
      /\ haddr' = haddr /\ daddr' = daddr /\ usb_force_nak' = usb_force_nak
  BY DEF PollOut, hostVars
<1>3. \/ usb_fsm_state = "STATUS_OUT" /\ OutStatus
      \/ Stall /\ UNCHANGED <<datasize, dataoff, usb_complete_cb, received, history>>
  BY DEF PollOut
<1>4. /\ datasize' = datasize /\ dataoff' = dataoff /\ usb_needs_zlp' = usb_needs_zlp
      /\ tx' = tx /\ sound' = sound /\ usb_fsm_state' = "IDLE"
      /\ stat_tx' = stat_tx \/ stat_tx' = "STALL"
      /\ received' \in {"out", "none"}
  BY <1>1, <1>3 DEF OutStatus, RxRead, Stall, history
<1>5. /\ Kept(hreq') <=> Kept(hreq)
      /\ (Asks' <=> Asks) /\ \A N : IsReply(N)' <=> IsReply(N)
  BY <1>2, SameRequest
<1>6. Refused'
  BY <1>1, <1>2, <1>5 DEF ReplyInv, Refused
<1>7. Served'
  BY <1>1, <1>2, <1>4, <1>5 DEF ReplyInv, Served
<1>8. Delivering'
  BY <1>1, <1>2 DEF Delivering
<1>9. Bounded'
  BY <1>2, <1>4, SameAnswer DEF ReplyInv, Bounded, Inside
<1> QED
  BY <1>6, <1>7, <1>8, <1>9

(* A packet that has left is followed by the next chunk, in its place        *)
(* (usb.cpp:806-832).                                                        *)
LEMMA PollInReply == ReplyInv /\ PollIn => (Refused /\ Served /\ Delivering /\ Bounded)'
<1> SUFFICES ASSUME ReplyInv, PollIn PROVE (Refused /\ Served /\ Delivering /\ Bounded)'
  OBVIOUS
<1>1. /\ received = "none" /\ ctr_tx /\ ctr_tx' = FALSE /\ received' = received
      /\ usb_req' = usb_req /\ hreq' = hreq /\ rx' = rx
      /\ outcome' = outcome /\ hstage' = hstage /\ hcount' = hcount /\ haddr' = haddr
      /\ sound' = sound
  BY DEF PollIn, hostVars
<1>2. /\ usb_req = hreq /\ stat_tx # "VALID" /\ hstage \in {"idle", "data", "status"}
      /\ usb_fsm_state \notin {"DATA_OUT", "LAST_DATA_OUT"}
      /\ hreq \in Requests \cup {NoRequest}
  BY <1>1 DEF ReplyInv, UsbInv, Types, Fresh, Bus, Writing
<1>3. /\ Kept(hreq') <=> Kept(hreq)
      /\ (Asks' <=> Asks) /\ \A N : IsReply(N)' <=> IsReply(N)
  BY <1>1, SameRequest
<1>4. /\ hstage = "data" => usb_fsm_state = "DATA_IN"
      /\ hstage = "status" => usb_fsm_state = "LAST_DATA_IN"
  BY <1>1, <1>2 DEF ReplyInv, Refused
<1>5. CASE usb_fsm_state = "DATA_IN"
  <2>1. /\ SendChunk(datasize, dataoff, usb_needs_zlp)
        /\ stat_rx' = stat_rx /\ daddr' = daddr /\ usb_force_nak' = usb_force_nak
    BY <1>5 DEF PollIn
  <2>2. /\ datasize \in Nat /\ dataoff \in Nat /\ usb_needs_zlp \in BOOLEAN
        /\ ~Unanswered(usb_req) => dataoff + datasize <= BufferSize
    BY <1>5 DEF ReplyInv, Bounded, Inside
  <2>3. /\ stat_tx' = "VALID" /\ usb_needs_zlp' \in BOOLEAN
        /\ tx'.off \in Nat /\ tx'.len \in 0 .. PacketSize
        /\ usb_fsm_state' \in {"DATA_IN", "LAST_DATA_IN"}
        /\ datasize' \in Nat /\ dataoff' \in Nat
        /\ ~Unanswered(usb_req) =>
             tx' \in Packet /\ dataoff' + datasize' <= BufferSize /\ datasize' <= BufferSize
    BY <1>2, <2>1, <2>2, ChunkBounds
  <2>4. Kept(hreq) /\ Asks
    BY <1>1, <1>5 DEF ReplyInv, UsbInv, Reading, Served, Asks
  <2>5. Refused'
    BY <1>1, <1>2, <1>3, <1>4, <1>5, <2>1, <2>3, <2>4 DEF ReplyInv, Refused, Asks
  <2>6. Served'
    BY <1>1, <1>3, <2>4 DEF ReplyInv, Served
  <2>7. Delivering'
    <3> SUFFICES ASSUME hstage = "data" PROVE Delivering'
      BY <1>1 DEF Delivering
    <3>1. hcount % PacketSize = 0 /\ sound /\ hcount \in Nat
      BY <1>1, <2>4 DEF ReplyInv, Delivering, Bounded
    <3>10. PICK N : IsReply(N) /\ Left(0, N)
      BY <1>1, <2>4 DEF ReplyInv, Delivering
    <3>2. hreq.wLength \in Nat
      BY <1>2, RequestTypes
    <3>3. /\ hcount + 0 + datasize = N
          /\ datasize > 0 => dataoff = hcount + 0
          /\ datasize = 0 => N < hreq.wLength
          /\ usb_needs_zlp <=> datasize > 0 /\ NeedsZlp(N, hreq.wLength)
      BY <3>10 DEF Left
    <3>4. N \in Nat /\ hcount + datasize = N /\ (datasize > 0 => dataoff = hcount)
      BY <2>2, <3>1, <3>3
    <3>5. N <= hreq.wLength
      BY <3>10 DEF IsReply
    <3>6. Chunk(N)'
      BY <1>1, <1>2, <2>1, <2>2, <3>1, <3>2, <3>3, <3>4, <3>5, ChunkDelivers
    <3>7. (hcount % PacketSize = 0)' /\ sound' /\ IsReply(N)'
      BY <1>1, <1>3, <3>1, <3>10
    <3> QED
      BY <1>1, <3>6, <3>7 DEF Delivering
  <2>8. Bounded'
    <3>1. usb_fsm_state' \notin {"DATA_OUT", "LAST_DATA_OUT"} /\ received' # "setup"
      BY <1>1, <2>3
    <3>2. /\ hcount' \in Nat /\ daddr' \in {Off} \cup 0 .. 127 /\ haddr' \in 0 .. 127
          /\ rx'.off \in Nat /\ rx'.len \in 0 .. PacketSize /\ (rx'.len > 0 => rx' \in Packet)
          /\ usb_force_nak' \in BOOLEAN
      BY <1>1, <2>1 DEF ReplyInv, Bounded
    <3>3. ~Unanswered(usb_req') => Inside'
      BY <1>1, <2>3, SameAnswer DEF Inside
    <3> QED
      BY <2>3, <3>1, <3>2, <3>3, Zenon DEF Bounded
  <2> QED
    BY <2>5, <2>6, <2>7, <2>8
<1>6. CASE usb_fsm_state = "LAST_DATA_IN"
  <2>1. /\ usb_fsm_state' = "STATUS_OUT" /\ stat_rx' = "VALID" /\ stat_tx' = stat_tx
        /\ daddr' = daddr /\ usb_force_nak' = FALSE /\ tx' = tx
        /\ datasize' = datasize /\ dataoff' = dataoff /\ usb_needs_zlp' = usb_needs_zlp
    BY <1>6 DEF PollIn, AfterLastData
  <2>2. Refused'
    BY <1>1, <1>2, <1>3, <1>4, <1>6, <2>1 DEF ReplyInv, Refused
  <2>3. Served'
    BY <1>1, <1>2, <1>3, <2>1 DEF ReplyInv, Served
  <2>4. Delivering'
    BY <1>1, <1>4, <1>6 DEF Delivering
  <2>5. Bounded'
    BY <1>1, <1>6, <2>1, SameAnswer DEF ReplyInv, Bounded, Inside
  <2> QED
    BY <2>2, <2>3, <2>4, <2>5
<1>7. CASE usb_fsm_state \notin {"DATA_IN", "LAST_DATA_IN"}
  <2>1. hstage = "idle"
    BY <1>2, <1>4, <1>7
  <2>2. /\ usb_fsm_state' = "IDLE" /\ tx' = tx /\ usb_force_nak' = usb_force_nak
        /\ stat_tx' = stat_tx \/ stat_tx' = "STALL"
        /\ datasize' = datasize /\ dataoff' = dataoff /\ usb_needs_zlp' = usb_needs_zlp
        /\ daddr' = daddr \/ daddr' = usb_req.wValue % 128
    BY <1>7 DEF PollIn, AfterStatusIn, Stall
  <2>3. daddr' \in {Off} \cup 0 .. 127
    <3>1. usb_req.wValue \in Nat
      BY <1>2, RequestTypes
    <3>2. usb_req.wValue % 128 \in 0 .. 127
      BY <3>1, SMTT(30)
    <3> QED
      BY <2>2, <3>2 DEF ReplyInv, Bounded
  <2>4. Refused'
    BY <1>1, <1>3, <2>1 DEF ReplyInv, Refused
  <2>5. Served'
    BY <1>1, <1>2, <1>3, <2>1, <2>2 DEF ReplyInv, Served
  <2>6. Delivering'
    BY <1>1, <2>1 DEF Delivering
  <2>7. Bounded'
    BY <1>1, <2>2, <2>3, SameAnswer DEF ReplyInv, Bounded, Inside
  <2> QED
    BY <2>4, <2>5, <2>6, <2>7
<1> QED
  BY <1>5, <1>6, <1>7

(* The host: a transfer begins with nothing sent.                            *)
LEMMA HostSetupReply == ReplyInv /\ HostSetup => (Refused /\ Served /\ Delivering /\ Bounded)'
<1> SUFFICES ASSUME ReplyInv, HostSetup PROVE (Refused /\ Served /\ Delivering /\ Bounded)'
  OBVIOUS
<1>1. /\ received' = "setup" /\ hcount' = 0 /\ outcome' = "none" /\ hreq' \in Requests
      /\ hstage' = IF hreq'.wLength = 0 THEN "status" ELSE "data"
      /\ usb_req' = usb_req /\ rx' = rx /\ tx' = tx /\ haddr' = haddr /\ daddr' = daddr
      /\ usb_fsm_state' = usb_fsm_state /\ datasize' = datasize /\ dataoff' = dataoff
      /\ usb_needs_zlp' = usb_needs_zlp /\ usb_force_nak' = usb_force_nak
      /\ stat_tx' = "NAK"
  BY DEF HostSetup, device, fsm
<1>2. Refused' /\ Delivering'
  BY <1>1 DEF Refused, Delivering
<1>3. Served'
  <2>1. Asks' /\ hstage' = "status" => FALSE
    BY <1>1, RequestTypes DEF Asks
  <2> QED
    BY <1>1, <2>1 DEF Served
<1>4. Bounded'
  BY <1>1, SameAnswer DEF ReplyInv, Bounded, Inside
<1> QED
  BY <1>2, <1>3, <1>4

(* An IN packet of the data stage brings the host one packet on; with the    *)
(* last it has the reply, and with the packet of the status stage the        *)
(* transfer ends.                                                            *)
LEMMA HostInReply == ReplyInv /\ HostIn => (Refused /\ Served /\ Delivering /\ Bounded)'
<1> SUFFICES ASSUME ReplyInv, HostIn PROVE (Refused /\ Served /\ Delivering /\ Bounded)'
  OBVIOUS
<1>1. /\ WantsIn /\ stat_tx = "VALID" /\ stat_tx' = "NAK" /\ ctr_tx' = TRUE
      /\ usb_fsm_state' = usb_fsm_state /\ usb_req' = usb_req /\ datasize' = datasize
      /\ dataoff' = dataoff /\ usb_needs_zlp' = usb_needs_zlp
      /\ usb_force_nak' = usb_force_nak
      /\ received' = received /\ stat_rx' = stat_rx /\ rx' = rx /\ tx' = tx /\ daddr' = daddr
      /\ hreq' = hreq /\ sound' = (sound /\ (tx.len > 0 => tx.off = hcount))
  BY DEF HostIn, device, fsm
<1>2. /\ hstage \in {"data", "status"} /\ received # "setup" /\ usb_req = hreq
      /\ hreq \in Requests \cup {NoRequest}
  BY <1>1 DEF WantsIn, ReplyInv, UsbInv, Types, Fresh
<1>3. /\ hreq.in \in BOOLEAN /\ hreq.wLength \in Nat /\ hreq.wValue \in Nat
      /\ PacketSize \in Nat /\ PacketSize > 0
  BY <1>2, RequestTypes, PacketSizeIs
<1>4. /\ Kept(hreq') <=> Kept(hreq)
      /\ hreq'.wLength = hreq.wLength /\ (Asks' <=> Asks)
      /\ \A N : IsReply(N)' <=> IsReply(N)
  BY <1>1, SameRequest
<1>5. Kept(hreq)
  BY <1>1, <1>2 DEF ReplyInv, Served
<1>6. CASE hstage = "status"
  <2>1. /\ hstage' = "idle" /\ outcome' = "ok" /\ hcount' = hcount
        /\ haddr' = IF IsSetAddress(hreq) THEN hreq.wValue ELSE haddr
    BY <1>6 DEF HostIn, HostEnds
  <2>2. ~Asks
    BY <1>1, <1>3, <1>6 DEF WantsIn, Asks
  <2>3. haddr' \in 0 .. 127
    <3>1. IsSetAddress(hreq) => hreq.wValue < 128
      BY <1>1, <1>2 DEF ReplyInv, UsbInv, Addressed
    <3> QED
      BY <1>3, <2>1, <3>1 DEF ReplyInv, Bounded
  <2>4. Refused'
    BY <1>1, <2>1 DEF Refused
  <2>5. Served'
    BY <1>1, <1>4, <1>5, <2>1, <2>2 DEF Served
  <2>6. Delivering'
    BY <2>1 DEF Delivering
  <2>7. Bounded'
    BY <1>1, <1>2, <2>1, <2>3, SameAnswer DEF ReplyInv, Bounded, Inside
  <2> QED
    BY <2>4, <2>5, <2>6, <2>7
<1>7. CASE hstage = "data"
  <2> DEFINE last == tx.len < PacketSize \/ hcount + tx.len >= hreq.wLength
  <2>1. Asks /\ hreq.in
    BY <1>1, <1>7 DEF WantsIn, ReplyInv, UsbInv, Bus, Asks
  <2>2. /\ hcount' = hcount + tx.len /\ outcome' = outcome /\ haddr' = haddr
        /\ hstage' = IF last THEN "status" ELSE "data"
    BY <1>7 DEF HostIn, HostMoves
  <2>3. hcount % PacketSize = 0 /\ sound
    BY <1>1, <1>2, <1>7, <2>1 DEF ReplyInv, Delivering
  <2>11. PICK N : IsReply(N) /\ Chunk(N)
    BY <1>1, <1>2, <1>7, <2>1 DEF ReplyInv, Delivering
  <2>4. sound' = TRUE
    BY <1>1, <2>3, <2>11 DEF Chunk
  <2>5. /\ tx.len \in Nat /\ tx.len <= PacketSize /\ hcount \in Nat /\ datasize \in Nat
        /\ N \in Nat /\ N <= hreq.wLength /\ IsReply(N)'
    BY <1>3, <1>4, <2>11 DEF ReplyInv, Bounded, IsReply
  <2>6. hcount' \in Nat
    BY <2>2, <2>5
  <2>7. outcome = "none"
    BY <1>7 DEF ReplyInv, Refused
  <2>8. Bounded'
    BY <1>1, <1>2, <2>2, <2>6, SameAnswer DEF ReplyInv, Bounded, Inside
  <2>9. CASE usb_fsm_state = "DATA_IN"
    <3>1. tx.len = PacketSize /\ Left(PacketSize, N)
      BY <2>9, <2>11 DEF Chunk
    <3>2. /\ hcount + PacketSize + datasize = N
          /\ datasize > 0 => dataoff = hcount + PacketSize
          /\ datasize = 0 => N < hreq.wLength
          /\ usb_needs_zlp <=> datasize > 0 /\ NeedsZlp(N, hreq.wLength)
      BY <3>1 DEF Left
    <3>5. ~last
      BY <1>3, <2>5, <3>1, <3>2
    <3> HIDE DEF last
    <3>6. hstage' = "data" /\ hcount' = hcount + PacketSize
      BY <2>2, <3>1, <3>5
    <3>7. (hcount % PacketSize = 0)'
      BY <1>3, <2>3, <2>5, <3>6, WholePackets
    <3>8. Left(0, N)'
      <4>1. (usb_needs_zlp <=> datasize > 0 /\ NeedsZlp(N, hreq.wLength))'
        BY <1>1, <1>4, <3>2, Zenon
      <4>2. hcount' + 0 + datasize' = N
        BY <1>1, <1>3, <2>5, <3>2, <3>6
      <4>3. datasize' > 0 => dataoff' = hcount' + 0
        BY <1>1, <1>3, <2>5, <3>2, <3>6
      <4> QED
        BY <1>1, <1>4, <3>2, <4>1, <4>2, <4>3 DEF Left
    <3>9. Refused'
      BY <1>1, <1>2, <1>4, <2>1, <2>2, <2>7, <2>9, <3>6 DEF ReplyInv, Refused, Asks
    <3>10. Served'
      BY <1>1, <1>4, <1>5, <2>2, <2>7, <3>6 DEF Served
    <3>11. Delivering'
      BY <1>1, <2>4, <2>5, <2>9, <3>7, <3>8 DEF Delivering
    <3> QED
      BY <2>8, <3>9, <3>10, <3>11
  <2>10. CASE usb_fsm_state # "DATA_IN"
    <3>1. /\ usb_fsm_state = "LAST_DATA_IN" /\ hcount + tx.len = N
          /\ tx.len < PacketSize \/ N = hreq.wLength
      BY <2>10, <2>11 DEF Chunk
    <3>2. last
      BY <1>3, <2>5, <3>1
    <3> HIDE DEF last
    <3>3. hstage' = "status" /\ hcount' = N
      BY <2>2, <3>1, <3>2
    <3>4. Refused'
      BY <1>1, <1>2, <1>4, <2>1, <2>2, <2>7, <3>1, <3>3 DEF ReplyInv, Refused, Asks
    <3>5. Served'
      BY <1>1, <1>2, <1>4, <1>5, <2>2, <2>4, <2>5, <2>7, <3>3 DEF Served
    <3>6. Delivering'
      BY <3>3 DEF Delivering
    <3> QED
      BY <2>8, <3>4, <3>5, <3>6
  <2> QED
    BY <2>9, <2>10
<1> QED
  BY <1>2, <1>6, <1>7

(* An OUT packet carries the next piece of the data, which fits the buffer,  *)
(* or ends a read.                                                           *)
LEMMA HostOutReply == ReplyInv /\ HostOut => (Refused /\ Served /\ Delivering /\ Bounded)'
<1> SUFFICES ASSUME ReplyInv, HostOut PROVE (Refused /\ Served /\ Delivering /\ Bounded)'
  OBVIOUS
<1> DEFINE n == IF hstage = "status" THEN 0 ELSE MinOf(PacketSize, hreq.wLength - hcount)
<1>1. /\ WantsOut /\ stat_rx = "VALID" /\ stat_rx' = "NAK" /\ received' = "out"
      /\ usb_fsm_state' = usb_fsm_state /\ usb_req' = usb_req /\ datasize' = datasize
      /\ dataoff' = dataoff /\ usb_needs_zlp' = usb_needs_zlp
      /\ usb_force_nak' = usb_force_nak
      /\ ctr_tx' = ctr_tx /\ stat_tx' = stat_tx /\ tx' = tx /\ daddr' = daddr /\ haddr' = haddr
      /\ hreq' = hreq /\ sound' = sound
      /\ rx' = [off |-> hcount, len |-> n]
      /\ IF hstage = "status" THEN HostEnds ELSE HostMoves(n, hcount + n = hreq.wLength)
  BY DEF HostOut, device, fsm, history
<1>2. /\ hstage \in {"data", "status"} /\ received # "setup" /\ usb_req = hreq
      /\ hreq \in Requests \cup {NoRequest} /\ hcount \in Nat /\ outcome = "none"
  BY <1>1 DEF WantsOut, ReplyInv, UsbInv, Types, Fresh, Refused, Bounded
<1>3. /\ hreq.in \in BOOLEAN /\ hreq.wLength \in Nat
      /\ PacketSize \in Nat /\ PacketSize > 0 /\ BufferSize \in Nat
  BY <1>2, RequestTypes, PacketSizeIs, DeviceAssumption
<1>4. /\ Kept(hreq') <=> Kept(hreq)
      /\ hreq'.wLength = hreq.wLength /\ (Asks' <=> Asks)
      /\ \A N : IsReply(N)' <=> IsReply(N)
  BY <1>1, SameRequest
<1>5. /\ stat_tx = "VALID" \/ usb_fsm_state = "DATA_IN" => Kept(hreq)
      /\ stat_tx = "STALL" => ~Kept(hreq)
  BY <1>2 DEF ReplyInv, Served, Refused
<1>6. CASE hstage = "status"
  <2>1. /\ hstage' = "idle" /\ outcome' = "ok" /\ hcount' = hcount /\ Asks
    BY <1>1, <1>6 DEF HostEnds, WantsOut, Asks
  <2>2. Kept(hreq) /\ sound /\ IsReply(hcount)
    BY <1>2, <1>6, <2>1 DEF ReplyInv, Served
  <2>3. Refused'
    BY <2>1 DEF Refused
  <2>4. Served'
    BY <1>1, <1>4, <2>1, <2>2 DEF Served
  <2>5. Delivering'
    BY <2>1 DEF Delivering
  <2>6. rx'.off \in Nat /\ rx'.len \in 0 .. PacketSize /\ ~(rx'.len > 0)
    BY <1>1, <1>2, <1>3, <1>6
  <2>7. Bounded'
    BY <1>1, <2>1, <2>6, SameAnswer DEF ReplyInv, Bounded, Inside
  <2> QED
    BY <2>3, <2>4, <2>5, <2>7
<1>7. CASE hstage = "data"
  <2>1. /\ ~hreq.in /\ hcount < hreq.wLength /\ ~Asks
        /\ usb_fsm_state \in {"DATA_OUT", "LAST_DATA_OUT"}
    BY <1>1, <1>2, <1>7 DEF WantsOut, ReplyInv, UsbInv, Bus, Refused, Asks
  <2>2. /\ n = MinOf(PacketSize, hreq.wLength - hcount) /\ n \in Nat /\ n <= PacketSize
        /\ hcount + n <= hreq.wLength
    BY <1>2, <1>3, <1>7, <2>1 DEF MinOf
  <2>3. /\ hcount' = hcount + n /\ outcome' = outcome
        /\ hstage' = IF hcount + n = hreq.wLength THEN "status" ELSE "data"
    BY <1>1, <1>7 DEF HostMoves
  <2>4. hreq.wLength <= BufferSize
    BY <1>2, <2>1 DEF ReplyInv, Bounded
  <2> HIDE DEF n
  <2>5. /\ rx' \in Packet /\ hcount' \in Nat
        /\ rx'.off \in Nat /\ rx'.len \in 0 .. PacketSize
    BY <1>1, <1>2, <1>3, <2>2, <2>3, <2>4 DEF Packet
  <2>6. ~ctr_tx
    BY <1>1, <1>2, <2>1 DEF ReplyInv, UsbInv, Writing
  <2>7. Refused'
    BY <1>1, <1>2, <1>4, <1>5, <2>1, <2>3, <2>6 DEF Refused
  <2>8. Served'
    BY <1>1, <1>2, <1>4, <1>5, <2>1, <2>3 DEF Served
  <2>9. Delivering'
    BY <1>4, <2>1 DEF Delivering
  <2>10. Bounded'
    BY <1>1, <2>3, <2>4, <2>5, SameAnswer DEF ReplyInv, Bounded, Inside
  <2> QED
    BY <2>7, <2>8, <2>9, <2>10
<1> QED
  BY <1>2, <1>6, <1>7

(* A transfer that stops leaves the device as it is; it is refused only if   *)
(* its request is not promised.                                              *)
LEMMA HostStopsReply ==
  ASSUME ReplyInv, hstage' \in {"idle", hstage},
         \/ outcome' = outcome
         \/ outcome' = "stall" /\ ~Kept(hreq) /\ hstage' = "idle",
         UNCHANGED <<device, daddr, endpoint, reset_istr, hreq, hcount, haddr, history>>
  PROVE  (Refused /\ Served /\ Delivering /\ Bounded)'
<1>1. /\ usb_fsm_state' = usb_fsm_state /\ usb_req' = usb_req /\ datasize' = datasize
      /\ dataoff' = dataoff /\ usb_needs_zlp' = usb_needs_zlp
      /\ usb_force_nak' = usb_force_nak
      /\ received' = received /\ stat_rx' = stat_rx /\ rx' = rx /\ tx' = tx /\ daddr' = daddr
      /\ ctr_tx' = ctr_tx /\ stat_tx' = stat_tx /\ haddr' = haddr /\ hcount' = hcount
      /\ hreq' = hreq /\ sound' = sound
  BY DEF device, fsm, endpoint, history
<1>2. /\ Kept(hreq') <=> Kept(hreq)
      /\ hreq'.wLength = hreq.wLength /\ (Asks' <=> Asks)
      /\ \A N : IsReply(N)' <=> IsReply(N)
  BY <1>1, SameRequest
<1>3. Refused'
  BY <1>1, <1>2 DEF ReplyInv, Refused
<1>4. Served'
  BY <1>1, <1>2 DEF ReplyInv, Served
<1>5. Delivering'
  <2>1. UNCHANGED <<tx, fsm>>
    BY <1>1 DEF fsm
  <2>2. hstage' = "data" => hstage = "data"
    OBVIOUS
  <2>3. Delivering /\ (received # "setup" \/ received' = "setup")
    BY <1>1 DEF ReplyInv
  <2> QED
    BY <1>1, <2>1, <2>2, <2>3, DeliveringKept
<1>6. Bounded'
  BY <1>1, SameAnswer DEF ReplyInv, Bounded, Inside
<1> QED
  BY <1>3, <1>4, <1>5, <1>6

(* A bus reset ends the transfer.                                            *)
LEMMA BusResetReply == ReplyInv /\ BusReset => (Refused /\ Served /\ Delivering /\ Bounded)'
<1> SUFFICES ASSUME ReplyInv, BusReset PROVE (Refused /\ Served /\ Delivering /\ Bounded)'
  OBVIOUS
<1>1. /\ daddr' = Off /\ hstage' = "idle" /\ haddr' = 0 /\ stat_tx' = "DISABLED"
      /\ usb_fsm_state' = usb_fsm_state /\ usb_req' = usb_req /\ datasize' = datasize
      /\ dataoff' = dataoff /\ usb_needs_zlp' = usb_needs_zlp
      /\ usb_force_nak' = usb_force_nak
      /\ received' = received /\ rx' = rx /\ tx' = tx /\ hcount' = hcount
      /\ outcome' = outcome /\ hreq' = hreq /\ sound' = sound
  BY DEF BusReset, device, fsm, history
<1>2. /\ Kept(hreq') <=> Kept(hreq)
      /\ (Asks' <=> Asks) /\ \A N : IsReply(N)' <=> IsReply(N)
  BY <1>1, SameRequest
<1>3. Refused'
  BY <1>1, <1>2 DEF ReplyInv, Refused
<1>4. Served'
  BY <1>1, <1>2 DEF ReplyInv, Served
<1>5. Delivering'
  BY <1>1 DEF Delivering
<1>6. Bounded'
  <2>1. haddr' \in 0 .. 127 /\ daddr' \in {Off} \cup 0 .. 127
    BY <1>1
  <2> QED
    BY <1>1, <2>1, SameAnswer DEF ReplyInv, Bounded, Inside
<1> QED
  BY <1>3, <1>4, <1>5, <1>6

(* Every step keeps the invariant.                                           *)
LEMMA NextReplyInv == ReplyInv /\ [Next]_vars => ReplyInv'
<1> SUFFICES ASSUME ReplyInv, [Next]_vars PROVE (Refused /\ Served /\ Delivering /\ Bounded)'
  BY NextUsbInv DEF ReplyInv
<1>1. CASE PollReset  BY <1>1, PollResetReply
<1>2. CASE PollSetup  BY <1>2, PollSetupReply
<1>3. CASE PollOut  BY <1>3, OutDataReply, OutOtherReply
<1>4. CASE PollIn  BY <1>4, PollInReply
<1>5. CASE HostSetup  BY <1>5, HostSetupReply
<1>6. CASE HostIn  BY <1>6, HostInReply
<1>7. CASE HostOut  BY <1>7, HostOutReply
<1>8. CASE HostSeesStall
  <2>1. hstage # "idle" /\ received # "setup"
    BY <1>8 DEF HostSeesStall, WantsIn, WantsOut, ReplyInv, UsbInv, Fresh
  <2>2. ~Kept(hreq)
    <3>1. WantsOut => hreq.wLength > 0
      BY DEF WantsOut, ReplyInv, UsbInv, Bus
    <3> QED
      BY <1>8, <2>1, <3>1 DEF HostSeesStall, ReplyInv, Refused
  <2> QED
    BY <1>8, <2>2, HostStopsReply DEF HostSeesStall
<1>9. CASE HostAbandons
  BY <1>9, HostStopsReply DEF HostAbandons
<1>10. CASE BusReset  BY <1>10, BusResetReply
<1>11. CASE UNCHANGED vars
  BY <1>11, HostStopsReply DEF vars, hostVars
<1> QED
  BY <1>1, <1>2, <1>3, <1>4, <1>5, <1>6, <1>7, <1>8, <1>9, <1>10, <1>11
     DEF Next, Poll, HostProgress

(* The invariant holds of every behaviour of device and host.                *)
THEOREM ReplyInvariance == Spec => []ReplyInv
BY InitReplyInv, NextReplyInv, PTL DEF Spec

(* Types; in particular no packet and no count of a transfer under way       *)
(* leaves the buffer, whatever lengths the host asks for or sends, as long   *)
(* as it does not ask for a reply that no handler prepares: then only        *)
(* wLength cuts what is sent (usb.cpp:376-395, 629, 678-685, 715, 772).      *)
THEOREM UsbTypeCorrect == Spec => []TypeOK
<1>1. ReplyInv => TypeOK
  <2> SUFFICES ASSUME ReplyInv PROVE TypeOK
    OBVIOUS
  <2>1. dispatched \in Nat /\ callbacks \in Nat
    BY DEF ReplyInv, UsbInv, Types
  <2>2. Types /\ Bounded
    BY DEF ReplyInv, UsbInv
  <2>3. Inside /\ usb_fsm_state \in {"DATA_IN", "LAST_DATA_IN"} => dataoff <= BufferSize
    BY <2>2, DeviceAssumption DEF Inside, Bounded
  <2> QED
    BY <2>1, <2>2, <2>3, Zenon DEF Types, Bounded, Inside, TypeOK
<1> QED
  BY <1>1, ReplyInvariance, PTL

(* A transfer that succeeds has brought the host the reply, whole, in order  *)
(* and cut to what it asked for, if a handler prepares one                   *)
(* (usb.cpp:376-395, 671-696).                                               *)
THEOREM ReadsAreExact == Spec => []ReadIsExact
<1>1. ReplyInv => ReadIsExact
  BY DEF ReplyInv, Served, Asks, IsReply, ReadIsExact
<1> QED
  BY <1>1, ReplyInvariance, PTL

(* A transfer fails only if its request is not promised, and succeeds only   *)
(* if it is; GET_STATUS of an interface, which a comment promises and the    *)
(* code refuses, is the one exception                                        *)
(* (usb.cpp:364-368, 537, 553-558, 622-637, 671-747).                        *)
THEOREM StallsAreDeserved == Spec => []StallMeansUnsupported
<1>1. ReplyInv => StallMeansUnsupported
  BY DEF ReplyInv, Refused, Served, Kept, StallMeansUnsupported
<1> QED
  BY <1>1, ReplyInvariance, PTL
=============================================================================
