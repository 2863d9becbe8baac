------------------------------ MODULE Endpoint ------------------------------
(***************************************************************************)
(* Endpoint 0 one register access at a time (src_stage2/usb.h and usb.cpp).*)
(* UsbControl takes a call of do_usb_poll for one step; here the call is   *)
(* the list of register macros it executes, each macro reads the endpoint  *)
(* register and writes it back, and the peripheral may finish a packet     *)
(* between any two accesses.  Status bits change where a 1 is written, CTR *)
(* bits are cleared where a 0 is written.                                  *)
(*                                                                         *)
(* The data of a transfer are packets, counted; what they hold, the length *)
(* arithmetic and the callbacks are in UsbControl and Dfu.  A packet to    *)
(* the host carries the serial bit of the request it answers.              *)
(***************************************************************************)
EXTENDS Integers, Sequences

CONSTANTS
  Requests,    \* what the host asks: [dir, n, ok], n packets of data
  Eager,       \* the ends of a transfer after which the host may send the next
               \* SETUP before the device has polled; elsewhere it pauses
  ResetAnywhere, \* the bus may be reset while a received packet is unread
  MaxPacket,   \* dev_desc.bMaxPacketSize0
  MemorySize   \* bytes of packet memory

ASSUME RequestsAssumption ==
    Requests \subseteq [dir : {"in", "out"}, n : Nat, what : {"plain", "refused", "halt", "config"}]
ASSUME SizesAssumption == MaxPacket \in Nat \ {0} /\ MemorySize \in Nat

VARIABLES
  reg,         \* USB_EP_REG(0): ctrRx, ctrTx, setup, and the fields rx, tx
  memory,      \* what the receive buffer holds: [kind, req]
  outgoing,    \* the serial bit of the packet in the transmit buffer
  enabled,     \* EF of USB_DADDR_REG
  resetFlag,   \* RESET of USB_ISTR_REG
  table,       \* BTABLE of endpoint 0: addresses of the buffers, receive size
  usb_pm_top,
  todo,        \* the macros that the current poll has still to execute
  old,         \* the register as the current macro read it
  usb_fsm_state, usb_force_nak,
  usb_req,     \* the request read last
  left,        \* packets of the data stage still to come
  host,        \* its transfer: stage, req, left, serial, how the last one ended
  pending      \* a SETUP has been acknowledged and not been read yet

program == <<todo, old, usb_fsm_state, usb_force_nak, usb_req, left>>
layout == <<table, usb_pm_top>>
vars == <<reg, memory, outgoing, enabled, resetFlag, layout, program, host, pending>>


\* The two bits of a status field
DISABLED == 0
STALL == 1
NAK == 2
VALID == 3
Stats == 0 .. 3
Flip_Sum(a, b) == a + b
Flip(a, b) == 2 * ((a \div 2 + b \div 2) % 2) + ((a + b) % 2)

FsmStates == {"IDLE", "DATA_IN", "LAST_DATA_IN", "STATUS_IN",
              "DATA_OUT", "LAST_DATA_OUT", "STATUS_OUT"}
NoRequest == [dir |-> "out", n |-> 0, what |-> "plain"]
NotRead == [ctrRx |-> FALSE, ctrTx |-> FALSE, setup |-> FALSE, rx |-> 0, tx |-> 0,
            valid |-> FALSE]

-----------------------------------------------------------------------------
(* The macros of usb.h.  Written: what a macro puts into the bits that the   *)
(* peripheral also changes, given the register as it was read.               *)
Macro(m, s) == [m |-> m, s |-> s]
SetRx(s) == Macro("rx", s)
SetTx(s) == Macro("tx", s)
Step(m) == Macro(m, 0)

\* The status macros and those that clear a CTR bit write a 1 to the CTR bits
\* they mean to keep; the others write them back as they were read.
Spares == {"rx", "tx", "ctrRx", "ctrTx"}
Written_CtrAsRead(op, r) ==
    [ctrRx |-> op.m # "ctrRx" /\ r.ctrRx,
     ctrTx |-> op.m # "ctrTx" /\ r.ctrTx,
     rx |-> IF op.m = "rx" THEN Flip(r.rx, op.s) ELSE 0,
     tx |-> IF op.m = "tx" THEN Flip(r.tx, op.s) ELSE 0]
Written_NoToggle(op, r) ==
    [ctrRx |-> op.m # "ctrRx" /\ (op.m \in Spares \/ r.ctrRx),
     ctrTx |-> op.m # "ctrTx" /\ (op.m \in Spares \/ r.ctrTx),
     rx |-> IF op.m = "rx" THEN op.s ELSE 0,
     tx |-> IF op.m = "tx" THEN op.s ELSE 0]
Written(op, r) ==
    [ctrRx |-> op.m # "ctrRx" /\ (op.m \in Spares \/ r.ctrRx),
     ctrTx |-> op.m # "ctrTx" /\ (op.m \in Spares \/ r.ctrTx),
     rx |-> IF op.m = "rx" THEN Flip(r.rx, op.s) ELSE 0,
     tx |-> IF op.m = "tx" THEN Flip(r.tx, op.s) ELSE 0]

\* DTOG, type and address bits decide nothing here.
RegisterMacros == {"rx", "tx", "ctrRx", "ctrTx", "dtog", "addr", "type"}

\* _usbd_ep_nak_set, which also assigns usb_force_nak
NakSet(nak) == <<SetRx(IF nak THEN NAK ELSE VALID)>>
StallOps == <<SetTx(STALL), SetRx(STALL)>>
Rearm_Never(nak) == <<>>
Rearm(nak) == IF nak THEN <<>> ELSE <<SetRx(VALID)>>
ClearHaltOps == <<SetTx(NAK), Step("dtog"), SetRx(VALID)>>
ResetOps ==
    <<Step("addr"), Step("type"), Step("txaddr"), Step("dtog"), SetTx(NAK),
      Step("rxaddr"), Step("dtog"), SetRx(VALID), Step("enable")>>

\* _set_ep_rx_bufsize: how many bytes the peripheral accepts
RxSize(size) ==
    IF size > 62 THEN 32 * ((IF size % 32 = 0 THEN size ELSE size - 32) \div 32 + 1)
    ELSE 2 * (size + (size % 2))
USBD_PM_TOP == 64
PmTop_Kept == usb_pm_top
PmTop == USBD_PM_TOP

-----------------------------------------------------------------------------
Init ==
    /\ reg = [ctrRx |-> FALSE, ctrTx |-> FALSE, setup |-> FALSE, rx |-> DISABLED, tx |-> DISABLED]
    /\ memory = [kind |-> "none", req |-> NoRequest, serial |-> 0]
    /\ outgoing = 0 /\ enabled = FALSE /\ resetFlag = FALSE
    /\ table = [tx |-> 0, rx |-> 0, size |-> 0] /\ usb_pm_top = 0
    /\ todo = <<>> /\ old = NotRead
    /\ usb_fsm_state = "IDLE" /\ usb_force_nak = FALSE
    /\ usb_req = [req |-> NoRequest, serial |-> 0] /\ left = 0
    /\ host = [stage |-> "idle", req |-> NoRequest, left |-> 0, serial |-> 0,
               ended |-> "off", sound |-> TRUE, calm |-> TRUE]
    /\ pending = FALSE

Peripheral == <<reg, memory, enabled, resetFlag>>
Does(ops, state) == todo' = ops /\ usb_fsm_state' = state
Rest == Tail(todo)
At(m) == todo # <<>> /\ Head(todo).m = m

\* do_usb_poll reads USB_ISTR_REG once; DIR is set when CTR_RX is.
PollReset ==
    /\ todo = <<>> /\ resetFlag
    /\ resetFlag' = FALSE
    /\ usb_pm_top' = PmTop
    /\ todo' = ResetOps
    /\ UNCHANGED <<reg, memory, outgoing, enabled, table, old, usb_fsm_state,
                   usb_force_nak, usb_req, left, host, pending>>

PollRx ==
    /\ todo = <<>> /\ ~resetFlag /\ reg.ctrRx
    /\ todo' = <<Step("which")>>
    /\ UNCHANGED <<Peripheral, outgoing, layout, old, usb_fsm_state, usb_force_nak,
                   usb_req, left, host, pending>>

\* USB_CLR_EP_TX_CTR, then _usbd_control_in
PollTx ==
    /\ todo = <<>> /\ ~resetFlag /\ ~reg.ctrRx /\ reg.ctrTx
    /\ CASE usb_fsm_state = "DATA_IN" ->
              /\ Does(<<Step("ctrTx"), Step("send")>>,
                      IF left > 1 THEN "DATA_IN" ELSE "LAST_DATA_IN")
              /\ left' = left - 1 /\ UNCHANGED usb_force_nak
         [] usb_fsm_state = "LAST_DATA_IN" ->
              /\ Does(<<Step("ctrTx")>> \o NakSet(FALSE), "STATUS_OUT")
              /\ usb_force_nak' = FALSE /\ UNCHANGED left
         [] usb_fsm_state = "STATUS_IN" ->
              /\ Does(<<Step("ctrTx")>>, "IDLE")
              /\ UNCHANGED <<left, usb_force_nak>>
         [] OTHER ->
              /\ Does(<<Step("ctrTx")>> \o StallOps, "IDLE")
              /\ UNCHANGED <<left, usb_force_nak>>
    /\ UNCHANGED <<Peripheral, outgoing, layout, old, usb_req, host, pending>>

\* The SETUP bit selects _usbd_control_setup or _usbd_control_out.
Which ==
    /\ At("which")
    /\ IF reg.setup
       THEN /\ usb_force_nak' = TRUE
            /\ Does(Append(NakSet(TRUE), Step("takeSetup")), usb_fsm_state)
       ELSE /\ UNCHANGED usb_force_nak
            /\ IF usb_fsm_state \in {"DATA_OUT", "LAST_DATA_OUT", "STATUS_OUT"}
               THEN Does(<<Step("takeOut")>>, usb_fsm_state)
               ELSE Does(StallOps, "IDLE")
    /\ UNCHANGED <<Peripheral, outgoing, layout, old, usb_req, left, host, pending>>

\* The rest of _usbd_control_setup: read the request, and start on it.
StartRead(req, rest) ==
    /\ UNCHANGED usb_force_nak
    /\ CASE req.what = "refused" -> Does(rest \o StallOps, "IDLE") /\ UNCHANGED <<left, usb_pm_top>>
         [] req.what # "refused" /\ req.n > 0 ->
              /\ Does(Append(rest, Step("send")), IF req.n > 1 THEN "DATA_IN" ELSE "LAST_DATA_IN")
              /\ left' = req.n - 1 /\ UNCHANGED usb_pm_top
         [] req.what # "refused" /\ req.n = 0 ->
              /\ Does(rest \o (IF req.what = "halt" THEN ClearHaltOps ELSE <<>>)
                           \o <<Step("send")>>, "STATUS_IN")
              /\ usb_pm_top' = IF req.what = "config" THEN USBD_PM_TOP + 2 * MaxPacket
                               ELSE usb_pm_top
              /\ UNCHANGED left

StartWrite(req, rest) ==
    /\ usb_force_nak' = FALSE /\ left' = req.n
    /\ Does(rest \o NakSet(FALSE), IF req.n > 1 THEN "DATA_OUT" ELSE "LAST_DATA_OUT")
    /\ UNCHANGED usb_pm_top

TakeSetup ==
    /\ At("takeSetup")
    /\ IF reg.rx # VALID /\ memory.kind = "setup"
       THEN /\ usb_req' = [req |-> memory.req, serial |-> memory.serial]
            /\ pending' = FALSE
            /\ IF memory.req.dir = "in" \/ memory.req.n = 0
               THEN StartRead(memory.req, <<Step("ctrRx")>>)
               ELSE StartWrite(memory.req, <<Step("ctrRx")>>)
       ELSE /\ Does((IF reg.rx = VALID THEN <<>> ELSE <<Step("ctrRx")>>) \o StallOps, "IDLE")
            /\ UNCHANGED <<usb_req, left, usb_force_nak, usb_pm_top, pending>>
    /\ UNCHANGED <<Peripheral, outgoing, table, old, host>>

\* _usbd_control_out: a data packet of the expected length, or the status stage
TakeData(rest) ==
    CASE reg.rx = VALID -> Does(StallOps, "IDLE") /\ UNCHANGED left
      [] reg.rx # VALID /\ memory.kind # "data" ->
           Does(rest \o StallOps, "IDLE") /\ UNCHANGED left
      [] reg.rx # VALID /\ memory.kind = "data" /\ usb_fsm_state = "DATA_OUT" ->
           /\ left' = left - 1
           /\ Does(rest, IF left' <= 1 THEN "LAST_DATA_OUT" ELSE "DATA_OUT")
      [] reg.rx # VALID /\ memory.kind = "data" /\ usb_fsm_state = "LAST_DATA_OUT" ->
           /\ left' = 0
           /\ IF usb_req.req.what = "refused" THEN Does(rest \o StallOps, "IDLE")
              ELSE Does(Append(rest, Step("send")), "STATUS_IN")

TakeOut ==
    /\ At("takeOut")
    /\ LET rest == <<Step("ctrRx")>> \o Rearm(usb_force_nak)
       IN IF usb_fsm_state = "STATUS_OUT"
          THEN Does(IF reg.rx = VALID THEN <<>> ELSE rest, "IDLE") /\ UNCHANGED left
          ELSE TakeData(rest)
    /\ UNCHANGED <<Peripheral, outgoing, layout, old, usb_force_nak, usb_req, host, pending>>

\* _usbd_ep_write_packet: nothing is written over a packet that waits
Send ==
    /\ At("send")
    /\ IF reg.tx = VALID THEN todo' = Rest /\ UNCHANGED outgoing
       ELSE todo' = <<SetTx(VALID)>> \o Rest /\ outgoing' = usb_req.serial
    /\ UNCHANGED <<Peripheral, layout, old, usb_fsm_state, usb_force_nak, usb_req, left,
                   host, pending>>

\* _usbd_ep_setup places the buffers; do_usb_poll then sets USB_DADDR_REG.
Place ==
    /\ \/ At("txaddr") /\ table' = [table EXCEPT !.tx = usb_pm_top]
       \/ At("rxaddr") /\ table' = [table EXCEPT !.rx = usb_pm_top, !.size = RxSize(MaxPacket)]
    /\ usb_pm_top' = usb_pm_top + MaxPacket
    /\ todo' = Rest
    /\ UNCHANGED <<Peripheral, outgoing, old, usb_fsm_state, usb_force_nak, usb_req, left,
                   host, pending>>

Enable ==
    /\ At("enable")
    /\ enabled' = TRUE /\ todo' = Rest
    /\ UNCHANGED <<reg, memory, resetFlag, outgoing, layout, old, usb_fsm_state,
                   usb_force_nak, usb_req, left, host, pending>>

\* The two accesses of a macro: GET_REG, SET_REG
ReadRegister ==
    /\ todo # <<>> /\ Head(todo).m \in RegisterMacros /\ ~old.valid
    /\ old' = [ctrRx |-> reg.ctrRx, ctrTx |-> reg.ctrTx, setup |-> reg.setup,
               rx |-> reg.rx, tx |-> reg.tx, valid |-> TRUE]
    /\ UNCHANGED <<Peripheral, outgoing, layout, todo, usb_fsm_state, usb_force_nak,
                   usb_req, left, host, pending>>

WriteRegister ==
    /\ old.valid
    /\ LET w == Written(Head(todo), old)
       IN reg' = [reg EXCEPT !.ctrRx = @ /\ w.ctrRx, !.ctrTx = @ /\ w.ctrTx,
                             !.rx = Flip(@, w.rx), !.tx = Flip(@, w.tx)]
    /\ old' = NotRead /\ todo' = Rest
    /\ UNCHANGED <<memory, enabled, resetFlag, outgoing, layout, usb_fsm_state,
                   usb_force_nak, usb_req, left, host, pending>>

Poll == \/ PollReset \/ PollRx \/ PollTx \/ Which \/ TakeSetup \/ TakeOut
        \/ Send \/ Place \/ Enable \/ ReadRegister \/ WriteRegister

-----------------------------------------------------------------------------
(* The host and the peripheral. *)
Quiet == todo = <<>> /\ ~reg.ctrRx /\ ~reg.ctrTx /\ ~resetFlag

HostSetup ==
    /\ host.stage = "idle" /\ enabled
    /\ host.ended \in Eager \/ Quiet
    /\ ~reg.ctrRx /\ reg.rx # DISABLED
    /\ \E req \in Requests :
          /\ memory' = [kind |-> "setup", req |-> req, serial |-> 1 - host.serial]
          /\ host' = [stage |-> IF req.n = 0 THEN "statusIn" ELSE req.dir, req |-> req,
                      left |-> req.n, serial |-> 1 - host.serial, ended |-> "no", sound |-> TRUE,
                      calm |-> Quiet]
    /\ reg' = [reg EXCEPT !.ctrRx = TRUE, !.setup = TRUE, !.rx = NAK, !.tx = NAK]
    /\ pending' = TRUE
    /\ UNCHANGED <<outgoing, enabled, resetFlag, layout, program>>

HostIn ==
    /\ host.stage \in {"in", "statusIn"} /\ enabled /\ reg.tx = VALID
    /\ reg' = [reg EXCEPT !.ctrTx = TRUE, !.tx = NAK]
    /\ host' = LET last == host.stage = "statusIn"
               IN [host EXCEPT !.left = IF last THEN @ ELSE @ - 1,
                               !.stage = IF last THEN "idle"
                                         ELSE IF host.left = 1 THEN "statusOut" ELSE "in",
                               !.ended = IF last THEN "write" ELSE @,
                               !.sound = @ /\ outgoing = host.serial]
    /\ UNCHANGED <<memory, outgoing, enabled, resetFlag, layout, program, pending>>

HostOut ==
    /\ host.stage \in {"out", "statusOut"} /\ enabled /\ reg.rx = VALID
    /\ reg' = [reg EXCEPT !.ctrRx = TRUE, !.setup = FALSE, !.rx = NAK]
    /\ memory' = [kind |-> IF host.stage = "out" THEN "data" ELSE "status",
                  req |-> NoRequest, serial |-> host.serial]
    /\ host' = LET last == host.stage = "statusOut"
               IN [host EXCEPT !.left = IF last THEN @ ELSE @ - 1,
                               !.stage = IF last THEN "idle"
                                         ELSE IF host.left = 1 THEN "statusIn" ELSE "out",
                               !.ended = IF last THEN "read" ELSE @]
    /\ UNCHANGED <<outgoing, enabled, resetFlag, layout, program, pending>>

Ends(why) == [host EXCEPT !.stage = "idle", !.ended = why]

HostSeesStall ==
    /\ enabled
    /\ \/ host.stage \in {"in", "statusIn"} /\ reg.tx = STALL
       \/ host.stage \in {"out", "statusOut"} /\ reg.rx = STALL
    /\ host' = Ends("stall")
    /\ UNCHANGED <<Peripheral, outgoing, layout, program, pending>>

HostGivesUp ==
    /\ host.stage # "idle"
    /\ host' = Ends("given up")
    /\ UNCHANGED <<Peripheral, outgoing, layout, program, pending>>

\* The peripheral clears its address and the register, but for the CTR bits.
BusReset ==
    /\ host.stage = "idle" => host.ended # "reset"
    /\ ResetAnywhere \/ ~reg.ctrRx
    /\ reg' = [reg EXCEPT !.setup = FALSE, !.rx = DISABLED, !.tx = DISABLED]
    /\ enabled' = FALSE /\ resetFlag' = TRUE
    /\ host' = Ends("reset")
    /\ UNCHANGED <<memory, outgoing, layout, program, pending>>

HostProgress == HostIn \/ HostOut \/ HostSeesStall
Next == Poll \/ HostSetup \/ HostProgress \/ HostGivesUp \/ BusReset
Spec == Init /\ [][Next]_vars /\ WF_vars(Poll) /\ WF_vars(HostProgress)

-----------------------------------------------------------------------------
(* Types; the list of macros of one poll and the packet counts are bounded.  *)
EndpointTypeOK ==
    /\ reg.rx \in Stats /\ reg.tx \in Stats
    /\ usb_fsm_state \in FsmStates
    /\ Len(todo) <= 9 /\ left \in Nat /\ host.left \in Nat

(* A SETUP that the peripheral has acknowledged is neither cleared unseen    *)
(* nor overwritten before the program reads it, whatever macros were under   *)
(* way when it came (usb.h:421-470, usb.cpp:732-742).                        *)
SetupKept == pending => reg.ctrRx /\ reg.setup /\ memory.kind = "setup"

(* When the program has nothing left to do and a transfer is open, the       *)
(* direction that its state waits for is VALID: no toggle computed from a    *)
(* stale reading has left it in another state (usb.h:428-445).               *)
Awaits ==
    CASE usb_fsm_state \in {"DATA_IN", "LAST_DATA_IN", "STATUS_IN"} -> reg.tx = VALID
      [] usb_fsm_state \in {"DATA_OUT", "LAST_DATA_OUT", "STATUS_OUT"} -> reg.rx = VALID
      [] OTHER -> TRUE
ArmedForPhase == Quiet /\ host.ended = "no" /\ enabled => Awaits

(* Every packet the host receives was written for the request it has open,   *)
(* although transfers are given up with a packet still waiting to be sent    *)
(* (usb.cpp:244-256, 376-395).                                               *)
ReplyIsOwn == host.sound

(* A transfer that was started with the device at rest is stalled only if    *)
(* its request is refused; what transfers were given up before, and in what  *)
(* state they left the status bits, does not matter (usb.cpp:313-368).       *)
StallMeansRefused == host.ended = "stall" /\ host.calm => host.req.what = "refused"

(* Whenever the device has an address, its buffers lie behind the buffer     *)
(* table, apart, and inside the packet memory, however often the bus was     *)
(* reset or a configuration set (usb.cpp:519, 843-906, 927).                 *)
BuffersApart ==
    enabled => /\ USBD_PM_TOP <= table.tx /\ table.tx + MaxPacket <= table.rx
               /\ table.rx + table.size <= MemorySize

(* For a host that always waits for the device to be at rest before a SETUP: *)
(* every packet is read, every transfer comes to an end, and the device      *)
(* listens again after every bus reset (usb.cpp:757-796, 920-949).           *)
AcceptsSetup == enabled /\ ~reg.ctrRx /\ reg.rx # DISABLED
PatientHostIsServed ==
    [](host.calm) => /\ reg.ctrRx ~> ~reg.ctrRx
                     /\ host.stage # "idle" ~> host.stage = "idle"
                     /\ resetFlag ~> AcceptsSetup

(* "RESET: reinitialises endpoint 0 and resets the device address"           *)
(* (usb.cpp:914): after a bus reset the device listens again.  Refuted when  *)
(* the reset comes while a received packet is unread: the peripheral keeps   *)
(* CTR_RX, the packet is found in a state that does not expect it or with RX *)
(* VALID again, the endpoint is stalled and the packet left unread, and      *)
(* CTR_RX refuses every SETUP from then on.                                  *)
ResetRestores == resetFlag ~> AcceptsSetup
=============================================================================
