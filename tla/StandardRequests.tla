-------------------------- MODULE StandardRequests --------------------------
(***************************************************************************)
(* What the device does with a request: usb_control_request_dispatch and   *)
(* the handlers behind it (src_stage2/usb.cpp), with the descriptors, the  *)
(* strings of dfu_name.h and the replies of the DFU layer.  A reply is its *)
(* length.  Codes and field positions are those of usb.h.                  *)
(*                                                                         *)
(* usb_fsm_state, the packets and the bus are in UsbControl; what the DFU  *)
(* requests do to the flash is in Dfu.                                     *)
(***************************************************************************)
EXTENDS Integers, Sequences

CONSTANTS
  BufferSize,  \* sizeof(usbd_control_buffer), DFU_TRANSFER_SIZE
  FlashKb,     \* lnCpuID::flashSize()
  PageKb,      \* 1 or 2
  Uploadable   \* the blocks DFU_UPLOAD may read, {} without ENABLE_DFU_UPLOAD

\* The longest string descriptor has 96 bytes; DFU_TRANSFER_SIZE is 4096.
ASSUME DeviceAssumption ==
  BufferSize \in Nat /\ BufferSize >= 96 /\ PageKb \in {1, 2}

\* lnCpuID reads a size of 16 bits, and the bootloader itself takes 8 KB.
ASSUME ChipAssumption == FlashKb \in 9 .. 65535 /\ Uploadable \subseteq Nat \ {0}

uint8_t == 0 .. 255
uint16_t == 0 .. 65535

\* usb_setup_data; type, recipient and in are the fields of bmRequestType
SetupData ==
  [type : {"standard", "class", "vendor"},
   recipient : {"device", "interface", "endpoint", "other"},
   in : BOOLEAN, bRequest : uint8_t,
   wValue : uint16_t, wIndex : uint16_t, wLength : uint16_t]

GET_STATUS == 0
CLEAR_FEATURE == 1
SET_FEATURE == 3
SET_ADDRESS == 5
GET_DESCRIPTOR == 6
GET_CONFIGURATION == 8
SET_CONFIGURATION == 9
GET_INTERFACE == 10
SET_INTERFACE == 11
ENDPOINT_HALT == 0
DT_DEVICE == 1
DT_CONFIGURATION == 2
DT_STRING == 3
ENGLISH_US == 1033

DFU_DETACH == 0
DFU_DNLOAD == 1
DFU_UPLOAD == 2
DFU_GETSTATUS == 3
DFU_CLRSTATUS == 4
DFU_GETSTATE == 5
DFU_ABORT == 6

-----------------------------------------------------------------------------
(* Descriptors and strings, by their length.                                 *)
USB_DT_DEVICE_SIZE == 18
UsbConfigDescriptor == 9
UsbInterfaceDescriptor == 9
UsbDfuDescriptor == 9
DeviceDescriptor == USB_DT_DEVICE_SIZE
bConfigurationValue == 1
\* wTotalLength
ConfigDescriptor == UsbConfigDescriptor + UsbInterfaceDescriptor + UsbDfuDescriptor

\* prepare_memory_layout: "@Internal Flash /0x08000000/8*001Ka,56*001Kg"
BOOTLDR_SIZE_KB == 8
Digits(n) == IF n < 10 THEN 1 ELSE IF n < 100 THEN 2 ELSE IF n < 1000 THEN 3
             ELSE IF n < 10000 THEN 4 ELSE 5
xstrcat(tgt, src) == tgt + src
MemoryLayout ==
  LET Sectors(kb, access) == xstrcat(Digits(kb \div PageKb), access)
  IN xstrcat(xstrcat(28, Sectors(BOOTLDR_SIZE_KB, 7)), Sectors(FlashKb - BOOTLDR_SIZE_KB, 6))
SerialNumber == 24
_usb_strings == <<30, 22, SerialNumber, MemoryLayout, 11>>

\* bLength is a byte, and datasize is assigned from it.
StringDescriptor(chars) == (2 * chars + 2) % 256

-----------------------------------------------------------------------------
(* Handlers: whether the request is served, and datasize afterwards, s being *)
(* datasize before.                                                          *)
Handled(s) == [handled |-> TRUE, datasize |-> s]
NotSupported(s) == [handled |-> FALSE, datasize |-> s]

StringKnown_AllButLast(index) == index \in 1 .. Len(_usb_strings) - 1
StringKnown(index) == index \in 1 .. Len(_usb_strings)

GetDescriptor(r, s) ==
  LET descr_type == r.wValue \div 256
      descr_idx == r.wValue % 256
  IN CASE descr_type = DT_DEVICE -> Handled(DeviceDescriptor)
       [] descr_type = DT_CONFIGURATION -> Handled(ConfigDescriptor)
       [] descr_type = DT_STRING /\ descr_idx = 0 -> Handled(4)
       [] descr_type = DT_STRING /\ StringKnown(descr_idx) /\ r.wIndex = ENGLISH_US ->
            Handled(StringDescriptor(_usb_strings[descr_idx]))
       [] OTHER -> NotSupported(s)

IsSetAddress(r) ==
  r.type = "standard" /\ r.recipient = "device" /\ ~r.in /\ r.bRequest = SET_ADDRESS

DeviceRequest(r, s) ==
  CASE r.bRequest = SET_ADDRESS /\ IsSetAddress(r) /\ r.wValue < 128 -> Handled(s)
    [] r.bRequest = SET_CONFIGURATION /\ r.wValue = bConfigurationValue -> Handled(s)
    [] r.bRequest = GET_CONFIGURATION -> Handled(1)
    [] r.bRequest = GET_DESCRIPTOR -> GetDescriptor(r, s)
    [] r.bRequest = GET_STATUS -> Handled(2)
    [] OTHER -> NotSupported(s)

\* GET_STATUS of an interface prepares its reply and is then refused.
InterfaceRequest(r, s) ==
  CASE r.bRequest = GET_INTERFACE -> Handled(1)
    [] r.bRequest = SET_INTERFACE -> Handled(0)
    [] r.bRequest = GET_STATUS -> NotSupported(2)
    [] OTHER -> NotSupported(s)

IsHalt(r, code) ==
  /\ r.type = "standard" /\ r.recipient = "endpoint"
  /\ r.bRequest = code /\ r.wValue = ENDPOINT_HALT

EndpointRequest(r, s) ==
  CASE IsHalt(r, SET_FEATURE) \/ IsHalt(r, CLEAR_FEATURE) -> Handled(s)
    [] r.bRequest = GET_STATUS -> Handled(2)
    [] OTHER -> NotSupported(s)

StandardRequest(r, s) ==
  CASE r.type = "standard" /\ r.recipient = "device" -> DeviceRequest(r, s)
    [] r.type = "standard" /\ r.recipient = "interface" -> InterfaceRequest(r, s)
    [] r.type = "standard" /\ r.recipient = "endpoint" -> EndpointRequest(r, s)
    [] OTHER -> NotSupported(s)

-----------------------------------------------------------------------------
(* The DFU layer, and the dispatch between the two.                          *)
IsDfu(r) == r.type = "class" /\ r.recipient = "interface"
IsGetStatus(r) == IsDfu(r) /\ r.bRequest = DFU_GETSTATUS

DfuRequests == {DFU_DETACH, DFU_DNLOAD, DFU_UPLOAD, DFU_GETSTATUS, DFU_CLRSTATUS,
                DFU_GETSTATE, DFU_ABORT}

\* usbdfu_control_request, by the length it leaves in *len
UploadLen(block) ==
  IF block = 0 THEN 3 ELSE IF block \in Uploadable THEN BufferSize ELSE 0
DfuReply(r) ==
  CASE r.bRequest = DFU_UPLOAD -> UploadLen(r.wValue)
    [] r.bRequest = DFU_GETSTATUS -> 6
    [] r.bRequest = DFU_GETSTATE -> 1
    [] OTHER -> r.wLength

\* A class request the DFU layer does not know goes on to the standard ones,
\* which refuse it; by then datasize is wLength.
Dispatch(r, s) ==
  CASE IsDfu(r) /\ r.bRequest \in DfuRequests -> Handled(DfuReply(r))
    [] IsDfu(r) /\ r.bRequest \notin DfuRequests -> StandardRequest(r, r.wLength)
    [] OTHER -> StandardRequest(r, s)
=============================================================================
