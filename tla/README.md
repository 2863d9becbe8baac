# Verification of the SWINDLE bootloader

TLA+ models of the two-stage USB DFU bootloader in `src/`, checked with TLC and, for the parts
that decide what is in the flash and what runs, proved with TLAPS. Paths below are relative to
`src/`; every definition that stands for code is listed with its lines in `PROJECT.json` ("map").

## 1. The system

The chip (GD32F103/F303 or STM32F103) starts in **stage 1** in the first pages of the flash.
Stage 1 looks at a marker in RAM, a button and the application's header and checksum, and
chains either to the application or to **stage 2**, which it copies to RAM. Stage 2 is a DFU
1.1 / DfuSe device on the full-speed USB peripheral: it polls the peripheral, takes firmware
blocks, erases and programs the flash, and resets the chip when the host is through.

| Component | State | Operations | Talks to |
|---|---|---|---|
| Startup, `arm_gd32fx/start.cpp` | the first 8 bytes of RAM | `start_c` | stage 1 (calls `main`) |
| Stage 1, `src_stage1/main.cpp` | `go_dfu`, marker, button pin | `main`, `chain_to`, marker functions | flash (read), CRC unit, GPIO, stage 2, application |
| Checksum, `src_stage1/ch32_crc.c` | the CRC unit | `ch32_crc` | flash (read) |
| DFU layer, `src_stage2/dfu.cpp` | `usbdfu_state`, `prog` | DNLOAD, UPLOAD, GETSTATUS, GETSTATE, CLRSTATUS, ABORT, DETACH, status-stage callback, main loop | USB stack (request, callback), flash |
| Flash routines, `src_stage2/flash.h` | flash controller, `erased`, `cached_size` | erase, blank test, program 16/32, SAFEWRITE wipe, page size | flash, CPU identification |
| USB stack, `src_stage2/usb.cpp` | `usb_fsm_state`, `usb_req`, `datasize`, `dataoff`, `usb_needs_zlp`, `usb_force_nak`, `usb_complete_cb`, `usb_pm_top` | `do_usb_poll` and its handlers, the standard requests, descriptors and strings | endpoint registers, DFU layer |
| USB registers, `src_stage2/usb.h` | endpoint register 0, ISTR, DADDR, buffer table | read-modify-write macros | USB peripheral |
| Clocks, `clocking.h`, `esprit_mini/lnRCU*`, `lnSysClock` | RCU and flash registers | oscillator, PLL and prescaler set-up, peripheral clocks, `getClock` | hardware |
| Pins, tick, CPU id (`lnGPIO.cpp`, `stubs.cpp`, `lnCpuID.cpp`) | port registers, `sysTick`, `_vendor` | `lnPinMode`, `lnDigitalWrite`, `xDelay`, `identify` | hardware |
| Ring buffer, `esprit_mini/include/lnRingBuffer.h` | `_head`, `_tail`, `_buffer` | `put`, `get`, `flush` | for applications of the library; neither stage includes it |
| Faults, `lnIRQ_arm_gd32fx.cpp` | | `fault`, `deadEnd`, `lnHardSystemReset` | processor |
| Environment | | host, application, button, supply, oscillators | |

What is hard here, and what each part must get right:

* **Deferred operations.** `DFU_DNLOAD` only copies; the erase or write runs in the callback
  that `DFU_GETSTATUS` registers, when that transfer's status stage completes. Transfers can be
  given up and repeated at any point. An operation must run at most once, be the one submitted
  last, never run after an ABORT, and be in the flash when the host is told `dfuDNLOAD-IDLE`.
* **Where it writes.** Host-supplied addresses, 32-bit arithmetic, pages, program units: the
  bootloader itself must survive every request.
* **Crash recovery.** The supply can fail inside an erase or between two program units. Stage 1
  must not run a mixture, an update must be repeatable, and a SAFEWRITE build must never have
  old and new code in flash together.
* **Staying out of and getting into DFU.** The marker lies in RAM that start-up code, stage 1
  and stage 2 all write.
* **Control transfers.** Packets cross the bus while the device is not looking; chunking, empty
  packets, abandoned transfers and bus resets must not mix two transfers.
* **The endpoint register.** It is changed by reading it and writing toggles while the
  peripheral changes it too; a packet between the two accesses must not be lost.
* **Bring-up.** A write to a peripheral without a clock is lost silently; wait states, PLL and
  USB prescaler must agree whatever the program before the reset left, the host must see a
  disconnect, and the page size is cached at its first use.

The full list of hazards with their lines and the properties on them is in `PROJECT.json`.

## 2. Modules

| Module | Role |
|---|---|
| `Flash` | flash image as a function from addresses to cells; erase, blank test, program, range test, interrupted erase and program as operators |
| `DeferredFlash` | abstract specification of what the download side promises, told by the requests the host has seen served: a download submits what it names, the status that is read next commits it, once and inside a footprint, an ABORT drops it, a crash may cut it short |
| `Dfu` | the DFU layer with the flash and an unconstrained host |
| `DfuServed` | `Dfu` with a history of what was served last; refines `DeferredFlash` |
| `DfuProofs` | theorems about `Dfu`: the bootloader's bytes; that what is confirmed is stored and a SAFEWRITE build does not mix |
| `DfuServedProofs` | that `DfuServed` refines `DeferredFlash` |
| `Boot` | start-up and stage 1 in an environment of application, button, supply and stage 2 |
| `BootProofs` | theorems about `Boot` |
| `Update` | `Dfu` and `Boot` on one flash, with a DfuSe host that repeats and gives up requests, and power failures |
| `UpdateProofs` | theorems about `Update`: it implements `Dfu`, confirmed chunks stay, what runs has one whole body |
| `StandardRequests` | pure: which control request the device answers, and with how many bytes |
| `UsbControl` | control transfers: polled state machine, endpoint register, host; answers from `StandardRequests` |
| `UsbProofs` | theorems about `UsbControl` |
| `Endpoint` | the same handlers as sequences of register accesses, the peripheral between any two |
| `EndpointProofs` | theorems about `Endpoint`: no SETUP is lost, no reply goes to another request, the phase's direction is armed, the buffers stay apart |
| `RingBuffer`, `Fifo` | the ring buffer access by access; the queue it refines |
| `RingProofs` | theorems about `RingBuffer`, among them that it refines `Fifo` |
| `Board` | both stages from reset to the DFU loop as sequences of accesses: clocks, pins, tick, CPU identification, USB power |
| `BoardProofs` | theorems about `Board`: D+ is low long enough before the transceiver has power, the button is obeyed, the types |
| `MCDfu`, `MCBoot`, `MCUpdate`, `MCUsb`, `MCEndpoint`, `MCRing`, `MCBoard` | small instances for TLC |

Operators named `<definition>_<change>` are broken variants of a definition; each property of a
passing run is violated when its variant (`PROJECT.json` "mutants") takes the definition's place.

### Flash and Dfu

A cell is `Blank`, a byte of the bootloader, `Old` (the application found at start), byte *i* of
payload *t*, or `Torn`. Payload bytes are symbolic, so "this block is in the flash" is an
equation. Page and unit loops are written in closed form; an iteration never reads what an
earlier one changed. Sizes keep the proportions of the chips (a transfer is 2 pages of a GD32,
4 of an STM32), addresses wrap at `AddrSpace` as `uint32_t` does, and the address space is small
enough for a wrap to be reachable.

One step of the device is one `do_usb_poll`; the main loop's test of `usbdfu_state` is a step
of its own (`loc = "check"`), because a reset may come between the two. `Dnload`, `DnloadZero`,
`ClrStatus`, `Abort`, `Detach`, `Upload*`, `GetStatus`, `GetState` and `OtherSetup` are the
cases of `usbdfu_control_request`; `StatusStage` is the callback `usbdfu_getstatus_complete`;
`Restart` is the reset; `PowerLoss` also cuts an operation at any page or program unit. Every
SETUP forgets the callback (`usb.cpp:734`), which is what makes abandoned transfers interesting.
`UsbControl` justifies the abstraction made here: that a callback runs at most once, only for the
request that registered it, and after its reply was read (`CallbackAfterReply`).

`DeferredFlash` has a variable `event` for what the host has seen last: a download with its
request, a status asked for, a status read, an abandonment, another request, the start of a
session. `DfuServed` adds that history to `Dfu` and nothing else. An operation can then be submitted
by the DFU_DNLOAD that names it only, must be forgotten on ABORT, DETACH, UPLOAD and a DFU_DNLOAD
without data, and is committed exactly when the status stage of the GETSTATUS served last ends: an
operation that outlives an ABORT, or that a repeated GETSTATUS runs again, is no behaviour of
`DeferredFlash`.

Taken as given: an interrupted unit is undefined and later units are untouched; the controller
refuses to program a unit that is not blank; block addresses in the instances are even (an odd
half-word store faults on the chip).

### Boot and Update

`ram0` is the content of the marker's 8 bytes: the magic value, zero, program bytes or noise.
`MarkerAfter` is what stage 1 leaves there: zero for the application, the vector table of stage 2,
and, when the checksum loop faults, what was there before. A header word that is torn or made of
two payloads (`WordDamaged`) reads as anything: either kind of stack pointer, every size up to
`SizeLimit`, of the checksums those that can make a difference (`AnySum`: each known one, the mark
of an image without hash, a blank word). The CRC is free of collisions: two regions have the same
checksum when they have the same content; of no words at all it is what a blank word reads. A fault
ends in `DeadEnd`:
`fault` calls `deadEnd`, which by way of `Logger_crash` and `do_assert` calls itself without end.

`Update` composes by sharing the variable `flash`: `B == INSTANCE Boot`, and `LeaveStage2` of
Boot happens together with `Restart` of Dfu. The host carries out `Plan`, repeats what it got no
outcome for, and starts over when the device went away. The user asks an application that is whole
for DFU; one that is not cannot be asked, and stage 1 may fault at every boot: then the user
switches the device off and on with the button held down, and lets go of it in stage 2. `PlanOp`
reads a request of the plan as an
operation of `DeferredFlash`; the address a chunk goes to follows from the SETADDR before it
(`PointerBefore`), and `WholePlan` says what a host takes care of: whole commands, chunks that
start on a page and lie in the application, nothing later that touches the pages of an earlier
chunk.

### StandardRequests and UsbControl

`StandardRequests` follows the dispatch from `_usbd_control_request_dispatch` to the handlers of
standard, class and vendor requests; a reply is its length, computed from the descriptors, the
strings, the chip's flash size and page size.

In `UsbControl` one poll is one step, bus events fall between polls. `received` is CTR_RX with
its SETUP bit. The peripheral's rules (stated in the module's header) are external: what it
accepts in which status, that a SETUP is refused while CTR_RX is set, that RX is reported first,
that a bus reset keeps the CTR bits. The host begins a new transfer or a bus reset after the
device has polled the last packet. (The poll loop takes microseconds, and flash operations run
only in a status OUT stage.) `Endpoint` says what happens to a host that does not.

A read for which no handler prepares a reply (`Unanswered`: a DFU request that only takes data or
none, or SET_CONFIGURATION and the like, with the direction bit set) is answered with what
`datasize` happens to hold: for a DFU request that is wLength (`usb.cpp:629`), whatever the size of
`usbd_control_buffer`, and `usb.cpp:678-685` sends it. `TypeOK` says so: for these requests wLength
alone bounds what is sent, for all others the buffer does; the run has such requests. Two things are
assumed of the host's requests: SET_ADDRESS names an address above 0 (`UsbAssumption`), and a halt
request carries no data and names an endpoint from 0 to 7 (`HaltAssumption`). The code checks
neither; from endpoint 8 on its register macros write other registers of the peripheral, the address
register among them, so `AddressAgrees` holds only for hosts that keep to it.

### Endpoint

`todo` is the list of macros of `usb.h` that the current poll has still to execute; a macro reads
the register into `old` and writes it back in a second step (`Written`): status bits change where
a 1 is written, CTR bits are cleared where a 0 is written. `HostProgress` and the peripheral come
between any two accesses. `Eager` names the ends of a transfer after which the host may send the
next SETUP before the device has polled: with `{"write"}`, the run's value, the properties hold,
except that a host which does *not* wait can find the endpoint deaf; `PatientHostIsServed` is
therefore stated for one that waits. With `"read"`, a SETUP between the clearing of CTR_RX and
RX := VALID (`usb.cpp:276-280`) is overwritten; `"stall"` is similar. The data toggles and what
the packets hold are left out.

### RingBuffer

`_head` and `_tail` are volatile: each access of the source is a step, `+= n` and `&= _mask` are
two. On the one core there is, either side may be an interrupt handler that comes between any two
accesses and returns first. A `put` of several bytes that a `get` interrupts between its two reads
of `_tail` goes wrong (seen while modelling). `Next` has that interruption; the run and all theorems
are about `MaskedSpec`, in which no get begins while a put of several bytes is in progress: an
assumption about the callers that the code does not enforce. On two cores even a one-byte `put` can
fail.

### Board

A program is its list of accesses; the oscillators, the clock switch, the tick and the button
answer in their own time. The state before the reset is that of an application which set its
clocks up with the library (`lnInitSystemClock`, `setPll`), followed by a full reset, as
`README.md:41` asks.

## 3. Runs

| Run | Instance and bounds | Shows |
|---|---|---|
| `dfu` | GD32: 4 pages, 1 of the bootloader, 3 of the application; 12 downloads: SETADDR to four addresses, ERASE below, in and at the end of the application, blocks of full, short, over-long and misplaced shape; upload disabled. 1.27 million states | `TypeOK`, `BootloaderIntact`, `ManifestServesNothing`, `ConfirmedBlockIsStored`, `ConfirmedEraseIsBlank`, refinement `ImplementsDeferred` |
| `dfu_safewrite` | STM32: 6 pages, 4 of the application, SAFEWRITE and upload enabled. 187,575 states | `OldNeverWithNew`, `ImplementsDeferred` |
| `boot` | one page of header, one of body; every combination of five headers and four bodies, and a header with its first, third or last word torn. 328 states | `BootTypeOK`, `RequestServed`, `DfuHasReason` |
| `update` | ERASE of the header's page, then SETADDR and a chunk, twice: two transfers of two pages with a hashed header; at most 3 faults. 13,847 states | `UpdateTypeOK`, `ConfirmedBlocksStay`, `NoMixtureRuns`, `NewFirmwareRuns` |
| `usb` | packets of 64 bytes as in the code, a buffer of three of them, a chip of 64 pages of 1 KB, 28 requests: replies ending inside and on a packet, before and at wLength, empty and cut; reads that no handler prepares a reply for, one of them longer than the buffer; payloads of 1 to 3 packets and one too long; requests to be refused; unbounded sequences of transfers. 1.09 million states | `TypeOK`, `ReadIsExact`, `StallMeansUnsupported`, `DispatchedOnce`, `CallbackAfterReply`, `AddressAgrees`, `TransferEnds` |
| `endpoint` | ten shapes of request of at most two packets, packet memory of 512 bytes. 54,924 states | `EndpointTypeOK`, `SetupKept`, `ArmedForPhase`, `ReplyIsOwn`, `StallMeansRefused`, `BuffersApart`, `PatientHostIsServed` |
| `ring` | four slots, two byte values, calls of up to three bytes, under `MaskedSpec`. 1.84 million states | `RingTypeOK`, `CopiesIntoFreeSlots`, `ReadsPublishedBytes`, `CallsAreComplete`, refinement `ImplementsFifo` |
| `board` | the four builds; a delay of 3 ticks, LEDs every 2, 18 ticks in all of which 3 come while the program does not wait. 36,522 states | `BoardTypeOK`, `SettingsFit`, `HostSeesDisconnect`, `ButtonObeyed`, `Stage2Shines` |
| `dfu_valid_addresses`, `boot_bad_size`, `update_unhashed`, `endpoint_reset` | as the passing run of the module, plus the input in question | each refutes one sentence of a comment or of the README; see below |

Why the bounds are enough: none of the runs bounds the number of requests, transfers or resets,
except `update`, where at most three faults are injected (a fault while repairing a fault while
repairing a fault). The DFU state depends on the last download and the pointer only; two tags
tell two payloads apart, and three application pages hold an operation, its neighbour and a page
not concerned. Ring indices live modulo the size; four slots and calls of three bytes reach every
wrap and every split into two rounds. In `board` a tick outside a wait is rare (an access takes
far less than a millisecond): three of them fall anywhere. Deadlock checking is off in the Dfu
runs (a fault stops the processor) and in `update` (the firmware runs in the end).

**Fairness.** `BootSpec`: the processor keeps executing stage 1. `UpdateSpec`: the device's loop and
stage 1 keep running, the host keeps going, the user asks a working application for DFU, or uses the
button, until the update is through; faults are never forced, and their number is bounded because an
update that is cut for ever does not end. `UsbControl` and `Endpoint`: the main loop keeps polling,
and the host takes a step of its transfer when the device allows it; nobody has to give a transfer
up. `Board`: the program keeps executing, oscillators that are started get stable, a clock switch
that is asked for happens, the tick goes on. The Dfu and ring runs check safety and need none.

**Disagreements between the code and its comments** (the violation runs):

1. `OnlyValidAddresses` - the range test at `dfu.cpp:278` wraps in `uint32_t`. With the address
   pointer at 0, block 1 goes to one transfer below 0; that address and its sum with the length pass
   both comparisons, the page loop (`dfu.cpp:282`) runs no iteration because its bound has wrapped,
   and the programming write (`dfu.cpp:286`) faults. `BootloaderIntact` holds nevertheless.
2. `BadSizeForcesDfu` - a size word beyond the flash and below 256 KB faults in stage 1.
3. `PartialUpdateNeverRuns` - an image without a hash runs half written, even with the total wipe.
4. `ResetRestores` - a bus reset that finds a packet unread leaves CTR_RX set; the next poll
   stalls the endpoint without clearing it, and every later SETUP is refused (`usb.cpp:794`).

Seen while modelling, without a run of its own:

* DFU: a chunk of odd length loses its last byte (`flash.h:121`), status OK; the erase command
  asks for a whole transfer behind its address, so the last pages are out of its reach
  (`dfu.cpp:256`), status OK; the chip resets after the SETUP of the last GETSTATUS, before its
  reply is read (`dfu.cpp:508`). `README.md:42-43` places the reboot marker in "the last 8 bytes
  of RAM", the code (`main.cpp:46`) in the first 8.
* USB: a SETUP before the last CTR_TX has been polled makes the device drop a chunk (`usb.cpp:947`,
  `248`); GET_STATUS of an interface is prepared and then refused although `usb.cpp:537` calls it
  implemented (`Promised` counts it in, and `StallMeansUnsupported` names it as the one promised
  request that is always stalled); GET_INTERFACE answers 1 although `bAlternateSetting` is 0;
  GET_CONFIGURATION always answers 1; the halt of endpoint 0 never shows in GET_STATUS; a handler
  that serves an IN request without a reply sends as many bytes as the last one did (`usb.cpp:514`);
  a DFU request that has none sends wLength bytes, also from beyond the buffer (`usb.cpp:629`,
  `678-685`); the endpoint number of a halt request is not bounded (`usb.cpp:576`).
* Stage 1: stack pointer and reset vector are outside the checksum, so a damaged header beside a
  whole body may start (`NoMixtureRuns` says exactly this much); an image size below four with a
  blank checksum is accepted unchecked (`main.cpp:148-150`); a damaged size word can make every boot
  fault until the button is held (`NewFirmwareRuns`).
* Board: after `lnSoftSystemReset` (VECTRESET) the PLL keeps running and stage 2's setting of it
  is ignored, which after a 96 MHz application gives a wrong USB clock; `setPll` refuses from
  multiplier 26 on and its table maps x15 to x14; `enableUsb48Mhz` truncates its divider at
  108 MHz; a crystal-less build waits for ever on an STM32; stage 2 does not wait for the clock
  switch; `lnPinMode` reads an uninitialised speed when `speedInMhz` is given; `lnExtiSWDOnly`
  writes 0 where its comment says that JTAG is disabled.
* Stage 2's vector table names `fault`, whose file is not among stage 2's sources; a fault never
  reaches the blink loop (see `DeadEnd` above).

## 4. Proofs

Everything is proved from the named assumptions of the modules alone (`LayoutAssumption`,
`CellAssumption`, `HostAssumption`, `BootAssumption`, `PlanAssumption`, `WholePlan`,
`HeaderAssumption`, `SizeAssumption`, `BoundAssumption`, `DeviceAssumption`, `ChipAssumption`,
`UsbAssumption`, `HaltAssumption`, `RequestsAssumption`, `SizesAssumption`, `BoardAssumption`,
`SpeedAssumption`), and from the hypotheses that the theorems about `Endpoint` and
`SettingsAlwaysFit` state, so for every layout, page size, host, set of payloads, headers, build
option, buffer, packet size, set of requests and delay.

`DfuProofs`:

* `Invariance`: `Spec => []DfuInv`, the inductive invariant: types, the bootloader's bytes, that a
  write has a payload, and that `MANIFEST` is only left to the main loop's test or a reset;
* `TypeCorrect`: `[]TypeOK`; `BootloaderSafe`: `[]BootloaderIntact`;
  `NoRequestAfterManifest`: `[]ManifestServesNothing`.

The argument for `BootloaderSafe`: the lower bound of the range test makes every page an
operation erases and every unit it programs start in the application; the bootloader's size is a
multiple of the page size, so a hardware page that holds an application address holds no
bootloader byte (`PagesDoNotStraddle`). The wrap of the upper bound does not matter, since
nothing below `start_addr` is addressed. The lemmas `ErasePages*`, `Program*` and `Torn*` say so
for each flash operator, `OperationKeepsBoot` and `CutShortKeepsBoot` for a whole operation,
finished or interrupted, and `NextInv` goes through the actions.

`DfuServedProofs` holds `Refines`: `ServedSpec => ImplementsDeferred`. The operation that is pending
is the one in `prog` while the state machine is in `dfuDNLOAD-SYNC` or `dfuDNBUSY`, and the
invariant says that the callback is registered only when a GETSTATUS was served last, which has
taken the state machine out of `dfuDNLOAD-SYNC`. Each action then maps to one of DeferredFlash that
carries the same event: `ServesDownload` to Submit, `ServesAbandon` to Abandon, `StatusRead` to
Commit if an operation was pending and to NothingToCommit if not, a start to Crash, and the main
loop to a stutter. The other half of the work is the footprint: an image after a wipe, an erase or a
write, finished or cut short at any unit, differs only in the pages that the pending operation names
(`OperationChanges`, `CutShortChanges`), and holds there only what the operation may leave. This
needs that every flash address lies in a page (`InOwnPage`), that a sum that wraps gets no larger
(`WrapBound`), and that a unit which is begun ends inside the chunk (`UnitsFit`).

`DfuProofs` also holds `ConfirmedInvariance`, `BlockIsStored` (`ConfirmedBlockIsStored`),
`EraseIsDone` (`ConfirmedEraseIsBlank`) and `NoMixture` (`OldNeverWithNew`). For the first three the
invariant says of the state `dfuDNLOAD-IDLE` what the properties say of the moment the host is told
it: only the callback enters that state, and every DFU_DNLOAD leaves it. A page tested from its
first byte is blank afterwards (`PageErased`), a loop from the start of a page covers every byte up
to its end (`LoopErases`), and whole units on blank flash store the chunk (`ChunkProgrammed`). For
`NoMixture` the invariant `Separated` adds that no old byte is left once `erased` is set: a write or
erase command first wipes all of the application (`WipeCovers`), nothing brings an old byte back
(`NoOldStays`, `NoOldProgrammed`), and a wipe that is cut short brings no new one
(`EraseAddsNoNew`), although `erased` is forgotten by the restart. `CellAssumption` only says that
the kinds of bytes are told apart.

`BootProofs`: `BootInvariance`, `BootTypeCorrect` and `DfuOnlyWithReason` (`DfuHasReason`). The
inductive invariant adds to the types that the magic value is in RAM only when the application has
asked for DFU: resets, the copy of stage 2 and the power-up leave something else. Then a sound image
is read as what it is - a whole header word belongs to one payload (`WordHasOneOwner`, `HeaderRead`)
- and its checksum stays inside the flash (`CrcLenBound`), so `Main` starts it
(`BootableIsStarted`).

`UpdateProofs`: `UpdateImplementsDfu` (`UpdateSpec => Spec`) carries the theorems about `Dfu` over
to the composition; `UpdateKeepsBootloader` is `BootloaderIntact` there. `UpdateInvariance` is about
three actors that know different things. `Phase` says where the request the host is at may be: the
device may have it or not while the host repeats it, it has carried it out or still holds it while
the host asks for the status, and the address pointer is the one the plan has reached. An abandoned
transfer leaves all of these possible, and a reset ends them. `ConfirmedStaysInFlash`
(`ConfirmedBlocksStay`) follows: a chunk is stored by the callback (`ConfirmedBlockIsStored`), and a
later operation stays inside its own footprint, which `WholePlan` keeps away from earlier chunks,
also when it is cut short; the wipe of a SAFEWRITE build cannot come after a confirmed chunk
(`WipedBefore`). `UpdateTypeCorrect` proves the types.

`OnlyWholeBodies` (`[]OnlyWholeBodiesRun`) is what stage 1 ensures under every plan: an application
runs only when its body is the whole of a known firmware's and its checksum was found right, or
without any checksum, and then only because the size word is damaged or that of an image without
hash. A header word in the flash belongs to one of the headers or is damaged and may read as
anything, so size and checksum may come from different headers; equal checksums still mean equal
regions (`CrcTellsLength`), and neither a blank word nor the mark of an image without hash is a
checksum of one (`HeaderAssumption`). Nothing is claimed of the stack pointer and the reset vector,
which the checksum leaves out. The property of the run, `NoMixtureRuns`, says in addition that the
header words are of the same firmware or damaged; that depends on a plan that erases the header's
page first, and is model-checked only.

`RingProofs`: `RingInvariance`, `RingTypeCorrect` (`RingTypeOK`), `CopiesAreSafe`
(`CopiesIntoFreeSlots`) and `ReadsAreSafe` (`ReadsPublishedBytes`), for every size, every set of
bytes and calls of every length, with either side as the interrupt handler, provided no get
interrupts a put of several bytes (`MaskedSpec`, as in all theorems of this module); the assumptions
are that the size is positive and the call lengths are bounded. The properties are about the moment
of a copy, but the bound used there was computed from an index of the other side read earlier.
`TailSeen` says what the producer may still rely on between its two readings of `_tail`: the
consumer moves it towards `_head`, perhaps past the end, never beyond. It needs `Nested` (a get ends
before the put it interrupted goes on, and such a put is of one byte), without which it is false.
`MaskedIs` and `CountIs` remove the modulus; `RoomIsFree` and `BytesAreThere` are the two
arithmetical facts behind the copies.

`CallsComplete` (`CallsAreComplete`) is about the two rounds of a call. `CompleteInvariance` says of
every point of a put or a get why no third is needed: a chunk is all that is left, or all the room
there was, or reaches the end of the buffer, and in the last case the second round starts at index
0; the other side only adds room, or bytes, meanwhile; room or bytes found to be none means that
nothing is owed. `RefinesFifo` (`ImplementsFifo`) maps the slots from `_tail` to `_head` to the
queue. A put that publishes is Fifo's Put of the bytes it copied, a get that releases its Get, and
every other step stutters. Between copy and publication the bytes wait in slots that nobody else
touches: `WaitingApart` keeps the slots that wait to be published apart from those in the queue,
`FreeFollows` says where the free ones lie, and both sides may be in the middle of a call.

`UsbProofs`: `UsbInvariance`, `DispatchIsSafe` (`DispatchedOnce`), `CallbackIsSafe`
(`CallbackAfterReply`) and `AddressIsAgreed` (`AddressAgrees`, for hosts that keep to
`HaltAssumption`). The invariant has one part for each
phase of a transfer (`Reading`, `Writing`, `Answered`, `Called`, `Addressed`), each only while no
SETUP waits: until it is read the state machine still belongs to the transfer before, which may
have been given up anywhere. `Fresh` and `Bus` say what the peripheral guarantees meanwhile, in
particular that a SETUP finds both directions at NAK and no CTR_TX. In the data stage of a write
host and device count alike (`Writing`), so a packet is never refused for its length
(`OutDataOutcome`) and what is dispatched is whole; that a status packet confirms a dispatched
request makes the callback and the new address wait for it. In this layer the handlers stay
opaque, except that SET_ADDRESS refuses addresses from 128 on (`ServedAddress`).

A second layer, `ReplyInvariance`, opens them: `DispatchReply` says of every request of every type
that it is served exactly if it is promised and not the GET_STATUS of an interface (`Kept`), and
what it sets the length to (`StringsFit`: the memory-layout string has at most 47 characters
whatever the chip). `Delivering` says what the packet on its way and the packets the host has make
of the reply together, with the three ways a reply ends: a short packet, an empty one, or the length
the host asked for (`WholePackets`, `ChunkDelivers`); `Refused` and `Served` tie the outcome to the
request. From it follow `UsbTypeCorrect` (`TypeOK`: no chunk leaves the buffer, unless nobody
prepares the reply, and then wLength bounds it), `ReadsAreExact` (`ReadIsExact`, of replies that
somebody prepares) and `StallsAreDeserved` (`StallMeansUnsupported`, with the one exception). What
is needed of the chip is a page size of 1 or 2 KB and a flash size of 16 bits of KB, and of the
build that the buffer holds the longest string (`DeviceAssumption`, `ChipAssumption`).

`EndpointProofs`: what a poll has still to execute is a list of macros, and there are 34 such
lists; the proofs give each a name, say what its first macro is and what is left behind it
(`PollHeads`, `AckHeads`, `ResetHeads`), and otherwise never open them.

* `EndpointInvariance`, `EndpointTypeCorrect` (`EndpointTypeOK`), for every set of requests.
* `BuffersStayApart` (`BuffersApart`), if the packet memory has room for the table and two buffers
  (`DeviceSizes`: the device's has). `Layout` says where `usb_pm_top` stands at each list of a bus
  reset. A second reset may come while the first is served; it waits for the next poll.
* `SetupIsKept` (`SetupKept`), `ReplyIsForRequest` (`ReplyIsOwn`) and `PhaseIsArmed`
  (`ArmedForPhase`) rest on `Orderly`. While a SETUP waits, the program may be anywhere in the poll
  that it arrived in, but only some lists are possible (`Waits`), and what those have read of the
  register before cannot clear CTR_RX or SETUP, nor turn a status VALID (`FlipStalls`).
  Afterwards `Work` says which lists each state of the state machine goes with, `Way` and `Ear` what
  stands in the transmit and the receive field, and `Tally` that host and program agree on the
  packets still to come.
* `OnlyRefusedStalls` (`StallMeansRefused`) adds `Calm`: in a transfer that began with the device at
  rest no status bit is left over from the one before, so every packet finds the state that
  expects it.

The last four are proved under two hypotheses on the environment: the host sends a SETUP before
the device is at rest only after a write that it has seen end with its status packet
(`Eager \subseteq {"write"}`), and the bus is not reset over an unread packet (`~ResetAnywhere`).
They are those of the run `endpoint` and they are needed: with the end of a read, a STALL or an
abandoned transfer in `Eager`, or with a reset anywhere, TLC refutes `SetupKept`, since the poll
that tidies up then lets a packet into the buffer or toggles the status that the SETUP has changed.

`BoardProofs`: `BoardInvariance`, `DisconnectIsSeen` (`HostSeesDisconnect`), `ButtonIsObeyed`
(`ButtonObeyed`), `BoardTypeCorrect` (`BoardTypeOK`) and `SettingsAlwaysFit` (`SettingsFit`), for
every delay, build and timing of the ticks and of the oscillators. A program is a list of accesses
put together from the lists of the drivers. The proofs say of each stretch which accesses it may
hold (`EarlyOps`, `LateOps`, `AppOps`) and name the few whose order matters.

* Stage 1 is six lists, `Boot6` to `Boot1`: the port has its clock before the pull-up is written to
  the pin, and both writes come before the reading.
* Stage 2 has the clock of D+'s port ahead of it or behind it (`Ahead`, `Near`), then the four
  accesses that pull D+ low and hold it (`Hold4` to `Hold1`), then those that may power the
  transceiver (`Late`). `Counted` (`low + tgt >= sysTick + DelayMs`) is what makes the delay one of
  the pin: the ticks since it began have all been counted as D+ low. The loop only ever writes LEDs.
* An application touches clocks only. `AppOrder` says that it identifies the chip first, that
  `setPll` records the frequency next, and that `enableUsb48Mhz`, which reads both, comes last, so
  the prescaler it computes is a code the chip has. `SpeedAssumption` is that function's own
  assertion about the speed of a build (`lnRCU_armgd32.cpp:51-96`).
* `SettingsFit` needs the order of every access to the clock unit. `Places` says of each place in
  a program what the registers hold there; a place is a list that leads, through accesses of one
  set, to a landmark (`Leads`): in stage 2 the PLL's word, the wait states, the switch and the
  IRC48M (`ClockOrder`, with `PageOrder` for what is known of the chip), in an application the
  record of the frequency, the PLL's word, the divider of APB1, the wait states, the switch and
  the prescaler (`AppPlace`). The PLL's word takes effect because the PLL is off until then
  (`Cold`), the switch comes after the wait states, and nothing is ticking or powered before it
  (`Quiet`). `TableIsRight` is the arithmetic of `setPll`'s table. The theorem's hypothesis
  `ExactSpeeds` leaves out the speeds of section 3 for which the property is false (a multiplier
  of 15, below 2 or above 24, a crystal's multiplier that is no multiple of 3, of which no divider
  makes 48 MHz); `MCBoard` has TLC evaluate it for the builds of the run.

Model-checked only: all liveness (out of the prover's reach, like ENABLED). No module declares a
RECURSIVE operator.

## 5. Not modelled, and why

* The loops that copy to and from the packet memory, the data toggles, suspend and resume: below
  the grain of `Endpoint`.
* Lock, unlock and busy bits of the flash controller; the option-byte routines, which have no
  caller.
* Interrupt priorities, the ADC divider, the timer remap and the debug-port remap: writes without
  a decision that the boot path depends on.
* `lowlevel.cpp`, `lnRCU_systemClock` and `lnRCU_armgd32` are not in the CMake build; of them only
  what the application's clock set-up shares with the rest is in `Board`. The internal-clock branch
  of `enableUsb48Mhz` does not compile (`LN_MCU_GD32` is not in the enumeration).
* The heap: neither stage allocates. (Its pointer advances four times too far, without a limit.)
* CRC collisions; images whose size is not a multiple of a word are checked over whole words only,
  as the code does, and no property claims more. Odd block addresses.
* Tick wrap after 49 days. The build, the linker scripts, `bin2h.py` and the legacy boards.

## 6. What could follow

1. An abstract `ControlTransfer` specification, implemented by `UsbControl`, to compose a
   packet-level host with `Dfu`.
2. SAFEWRITE inside `Update`; a host in `Endpoint` that sends data out of turn.
