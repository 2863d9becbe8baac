------------------------------- MODULE MCUsb -------------------------------
(***************************************************************************)
(* Packets of 64 bytes, a buffer of three packets, and a chip of 64 pages: *)
(* replies that end inside a packet, on a packet, before and at wLength,   *)
(* empty or cut; payloads of one to three packets, and one that does not   *)
(* fit; every request of the device, and those it must refuse; requests    *)
(* for a reply longer than the buffer where no reply is prepared.          *)
(***************************************************************************)
EXTENDS UsbControl

Ask(type, recipient, in, code, value, index, length) ==
  [type |-> type, recipient |-> recipient, in |-> in, bRequest |-> code,
   wValue |-> value, wIndex |-> index, wLength |-> length]
Get(code, value, index, length) ==
  Ask("standard", "device", TRUE, code, value, index, length)
Dfu(in, code, value, length) == Ask("class", "interface", in, code, value, 0, length)

MCRequests ==
  {Get(GET_DESCRIPTOR, 256, 0, 64), Get(GET_DESCRIPTOR, 512, 0, 9),
   Get(GET_DESCRIPTOR, 768, 0, 255), Get(GET_DESCRIPTOR, 772, ENGLISH_US, 255),
   Get(GET_DESCRIPTOR, 773, ENGLISH_US, 24), Get(GET_DESCRIPTOR, 774, ENGLISH_US, 255),
   Get(GET_DESCRIPTOR, 1536, 0, 10), Get(GET_STATUS, 0, 0, 2),
   Ask("standard", "device", FALSE, SET_ADDRESS, 5, 0, 0),
   Ask("standard", "device", FALSE, SET_CONFIGURATION, 1, 0, 0),
   Ask("standard", "device", FALSE, SET_CONFIGURATION, 2, 0, 0),
   Ask("standard", "interface", TRUE, GET_STATUS, 0, 0, 2),
   Ask("standard", "endpoint", FALSE, SET_FEATURE, 0, 0, 0),
   Ask("standard", "endpoint", FALSE, CLEAR_FEATURE, 0, 0, 0),
   Ask("vendor", "device", FALSE, DFU_DNLOAD, 0, 0, 3),
   Dfu(TRUE, DFU_GETSTATUS, 0, 6), Dfu(TRUE, DFU_GETSTATUS, 0, 0),
   Dfu(TRUE, DFU_UPLOAD, 2, 192), Dfu(TRUE, DFU_UPLOAD, 2, 256), Dfu(TRUE, DFU_UPLOAD, 3, 192),
   Ask("standard", "device", TRUE, SET_CONFIGURATION, 1, 0, 128),
   Dfu(TRUE, DFU_DNLOAD, 2, 256), Dfu(FALSE, DFU_ABORT, 0, 0), Dfu(TRUE, 9, 0, 6)}
  \cup {Dfu(FALSE, DFU_DNLOAD, 2, n) : n \in {64, 128, 129, 193}}
=============================================================================
