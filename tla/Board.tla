-------------------------------- MODULE Board --------------------------------
(***************************************************************************)
(* From reset to the DFU loop, register by register: what the two stages   *)
(* do to the clock tree, the pins, the tick and the power of the USB       *)
(* peripheral (src_stage1/main.cpp, src_stage2/clocking.h, dfu.cpp,        *)
(* usb.cpp and the drivers of esprit_mini), with the hardware that answers *)
(* in its own time, and an application that sets its clocks up with the    *)
(* library.                                                                *)
(*                                                                         *)
(* A program is the sequence of its accesses, "todo" what is left of it.   *)
(* A write to a peripheral whose clock is off has no effect.               *)
(* An operator named <definition>_<change> is a broken variant of the      *)
(* definition after it, used only to show that a property notices it.      *)
(***************************************************************************)
EXTENDS Integers, Sequences

CONSTANTS
  Builds,    \* crystal: stage 2 without USE_GD32_CRYSTALLESS; gd: the vendor;
             \* external, speed: LN_USE_INTERNAL_CLOCK and LN_MCU_SPEED (MHz)
             \* of the application
  DelayMs,   \* 300
  Period,    \* 100
  MaxTick,   \* bound: the tick stops here
  Spare      \* bound: the ticks, in all, that come while the program does not
             \* wait for one (an access takes far less than a millisecond)

ASSUME BoardAssumption ==
  /\ Builds \subseteq [crystal : BOOLEAN, gd : BOOLEAN, external : BOOLEAN, speed : Nat]
  /\ \A b \in Builds : ~b.crystal => b.gd
  /\ DelayMs \in Nat /\ Period \in Nat \ {0} /\ MaxTick \in Nat /\ Spare \in Nat

\* enableUsb48Mhz asserts that the frequency that setPll makes of the speed has
\* a divider that the chip knows.
ASSUME SpeedAssumption ==
  \A b \in Builds : b.external =>
     (2 * (8 * (b.speed \div 8))) \div 48 \in (IF b.gd THEN 2 .. 5 ELSE 2 .. 3)

\* The speeds for which setPll's table has the multiplier and, with a crystal,
\* the frequency has a divider that makes 48 MHz of it
ExactSpeeds ==
  \A b \in Builds :
     LET multiplier == b.speed \div (IF b.external THEN 8 ELSE 4)
     IN multiplier \in 2 .. 24 \ {15} /\ (b.external => multiplier % 3 = 0)

VARIABLES
  build,
  stage,     \* "stage1", "stage2", "loop" (runDfu's) or "app"
  todo,
  (* reset and clock unit, flash *)
  osc,       \* hse, pll, irc48: "off", "starting" or "on"
  cfg0,      \* src, mul of the PLL; psc, the USB prescaler; ppre1, the divider
             \* of APB1; sw, the clock asked for; sws, the clock in use
  usbsel,    \* the USB clock is the IRC48M
  wait,      \* flash wait states
  clocked,   \* peripherals whose clock is enabled
  chip,      \* what the running image knows of the chip: _vendor, gd32, cached_size
  (* pins, USB, tick *)
  pin,       \* mode and output bit, of the pins in use
  cntr,      \* USB_CNTR_REG: a subset of pdwn, fres, masks
  ticking,   \* SysTick is running
  button,    \* FORCE_DFU pressed
  (* the program's variables *)
  sysTick, tgt, nextTick, led, forced, SystemCoreClock,
  (* history *)
  busy,      \* ticks that came while the program did not wait
  low,       \* ticks for which D+ was pulled low
  pressed    \* the button, when it was read

clock == <<osc, cfg0, usbsel, wait, SystemCoreClock>>
pads == <<pin, cntr>>
timing == <<ticking, sysTick, tgt, nextTick, led, busy>>
verdict == <<forced, pressed>>
vars == <<build, stage, todo, chip, clock, clocked, pads, timing, button, verdict, low>>

FORCE_DFU_IO == "PB14"
DPlus == "PA12"
Leds == {IF build.crystal THEN "PC13" ELSE "PA0", "PA8", "PB13"}
Pins == {FORCE_DFU_IO, DPlus, "PC13", "PA0", "PA8", "PB13"}
Port(p) == CASE p \in {"PA0", "PA8", "PA12"} -> "PA"
             [] p \in {"PB13", "PB14"} -> "PB"
             [] p = "PC13" -> "PC"

-----------------------------------------------------------------------------
(* Accesses, and the functions of the drivers as sequences of them.          *)
Op(do, at, v) == [do |-> do, at |-> at, v |-> v]

Enable(p) == <<Op("enable", p, 0)>>
DigitalWrite(p, bit) == <<Op("level", p, bit)>>

\* lnPinMode: a pulled input takes its direction from the output bit
PinMode_NoPull(p, mode) ==
  <<Op("mode", p, IF mode \in {"pullup", "pulldown"} THEN "pulled" ELSE mode)>>
PinMode(p, mode) ==
  CASE mode = "pullup" -> <<Op("level", p, 1), Op("mode", p, "pulled")>>
    [] mode = "pulldown" -> <<Op("level", p, 0), Op("mode", p, "pulled")>>
    [] OTHER -> <<Op("mode", p, mode)>>

\* lnCpuID: an image starts with its variables cleared.  The word that gives the
\* size of the RAM is not programmed in an STM32 (external).
Unknown == [vendor |-> "unknown", gd32 |-> FALSE, page |-> 0]
RamSize == IF build.gd THEN 20 ELSE 65535
Vendor == IF RamSize # 65535 THEN "GD" ELSE "STM"
Identify == <<Op("identify", "vendor", 0)>>
is_gd32 == chip.vendor = "GD"
\* get_flash_page_size keeps the answer of its first call
FlashPageSize == IF chip.page # 0 THEN chip.page ELSE IF is_gd32 THEN 2048 ELSE 1024

Start(o) == <<Op("start", o, 0), Op("await", o, 0)>>
Pll(src, mul) == Op("pll", src, mul)
WaitStates(n) == Op("wait", "flash", n)
Switch(c) == Op("switch", c, 0)

\* SysTick's control register, and the frequency its reload value is made for
TickControl(on) == <<Op("tick", "tick", on)>>
configSYSTICK_CLOCK_HZ == IF build.crystal THEN 72 ELSE 36

\* xDelay
Delay(ms) == <<Op("target", "tick", ms), Op("sleep", "tick", 0)>>

-----------------------------------------------------------------------------
(* Stage 1. *)
StageOne ==
  Enable("PB") \o Enable("PC") \o Enable("AF")
    \o PinMode(FORCE_DFU_IO, "pullup") \o <<Op("read", FORCE_DFU_IO, 0)>>

(* Stage 2.  One word written to CFG0 has the PLL, the APB1 divider 2 and a   *)
(* USB prescaler of 0, PLL/1.5                                               *)
Cfg0Word(src) == <<Pll(src, 9), Op("psc", "usb", 0), Op("ppre1", "apb1", 2)>>
ClockFromCrystal_LateWaitStates ==
  Start("hse") \o Cfg0Word("hse") \o Start("pll") \o <<Switch("pll"), WaitStates(2)>>
ClockFromCrystal ==
  Start("hse") \o Cfg0Word("hse") \o <<WaitStates(2)>> \o Start("pll") \o <<Switch("pll")>>

ClockFromRc ==
  Cfg0Word("hsi") \o <<WaitStates(2)>> \o Start("pll")
    \o <<Switch("pll")>> \o Start("irc48") \o <<Op("usbsel", "irc48", 0)>>

SetupForUsb_NoPortA ==
  <<Op("isGd32", "gd32", 0)>> \o (IF build.crystal THEN ClockFromCrystal ELSE ClockFromRc)
    \o Enable("PB") \o Enable("PC") \o Enable("AF")
    \o <<Op("zero", "tick", 0)>> \o TickControl(FALSE) \o TickControl(TRUE)
    \o Enable("USB") \o <<Op("cntr", "USB", {"pdwn"})>>
SetupForUsb ==
  <<Op("isGd32", "gd32", 0)>> \o (IF build.crystal THEN ClockFromCrystal ELSE ClockFromRc)
    \o Enable("PA") \o Enable("PB") \o Enable("PC") \o Enable("AF")
    \o <<Op("zero", "tick", 0)>> \o TickControl(FALSE) \o TickControl(TRUE)
    \o Enable("USB") \o <<Op("cntr", "USB", {"pdwn"})>>

UsbInit ==
  Enable("USB") \o <<Op("reset", "USB", 0), Op("clear", "USB", {"pdwn"}),
    Op("clear", "USB", {"fres"}), Op("cntr", "USB", {}), Op("cntr", "USB", {"masks"})>>

RunDfu ==
  PinMode(DPlus, "output") \o DigitalWrite(DPlus, 0) \o Delay(DelayMs)
    \o DigitalWrite(DPlus, 1) \o PinMode(DPlus, "floating")
    \o <<Op("pageSize", "page", 0)>> \o UsbInit
    \o PinMode(IF build.crystal THEN "PC13" ELSE "PA0", "output")
    \o PinMode("PA8", "output") \o PinMode("PB13", "output") \o <<Op("loop", "", 0)>>

Stage2Entry == Identify \o SetupForUsb \o RunDfu

(* The library. *)
Multipliers ==
  <<0, 0, 0, 1, 2, 3, 4, 5, 6, 7, 8, 9, 10, 11, 12, 12, 14, 16, 17, 18, 19, 20, 21, 22, 23>>
InputClock == IF build.external THEN 8 ELSE 4
Multiplier == build.speed \div InputClock

\* The factor that the PLL makes of a code (external)
Factor(code) == IF code <= 13 THEN code + 2 ELSE IF code < 16 THEN 16 ELSE code + 1

SetPll ==
  <<Op("core", "", InputClock * Multiplier),
    Pll(IF build.external THEN "hse" ELSE "hsi", Factor(Multipliers[Multiplier + 1]))>>
    \o Start("pll")

\* It waits for the switch to the RC oscillator, which always runs, before it
\* stops the PLL.
InitSystemClock ==
  Identify
    \o <<Switch("hsi"), Op("switched", "hsi", 0), Op("stop", "hse", 0), Op("stop", "pll", 0)>>
    \o (IF build.external THEN Start("hse") ELSE <<>>) \o SetPll
    \o <<Op("ppre1", "apb1", 2),
         Op("stmWait", "flash", IF build.speed > 48 THEN 2 ELSE IF build.speed > 24 THEN 1 ELSE 0),
         Switch("pll")>>

\* What the library takes the frequencies to be: before setPll, those of a chip
\* at 108 MHz
_rcuClockApb2 == IF SystemCoreClock = 0 THEN 108 ELSE SystemCoreClock
_rcuClockApb1 == _rcuClockApb2 \div 2
getClock(periph) ==
  CASE periph \in {"pTIMER5", "pTIMER6"} -> _rcuClockApb1 * 2
    [] periph \in {"pUART0", "pTIMER0", "pSPI0", "pAF", "pADC0", "pADC1", "pAPB2"} -> _rcuClockApb2
    [] periph = "pSYSCLOCK" -> SystemCoreClock
    [] OTHER -> _rcuClockApb1

\* CFG0's code for the divider, by twice the divider
UsbPrescaler_Untranslated(scaler) == scaler
UsbPrescaler(scaler) ==
  CASE scaler = 3 -> 0
    [] scaler = 2 -> 1
    [] scaler = 5 /\ is_gd32 -> 2
    [] scaler = 4 /\ is_gd32 -> 3
EnableUsb48Mhz == <<Op("scale", "usb", 0)>>

-----------------------------------------------------------------------------
(* Reset, and the hardware (external). *)
Reset ==
  /\ stage' = "stage1" /\ todo' = StageOne
  /\ osc' = [hse |-> "off", pll |-> "off", irc48 |-> "off"]
  /\ cfg0' = [src |-> "hsi", mul |-> 2, psc |-> 0, ppre1 |-> 1, sw |-> "hsi", sws |-> "hsi"]
  /\ chip' = Unknown /\ usbsel' = FALSE /\ wait' = 0 /\ SystemCoreClock' = 0
  /\ clocked' = {} /\ cntr' = {"pdwn", "fres"}
  /\ pin' = [p \in Pins |-> [mode |-> "floating", bit |-> 0]]
  /\ ticking' = FALSE /\ sysTick' = 0 /\ tgt' = 0 /\ nextTick' = 0 /\ led' = FALSE /\ busy' = 0
  /\ forced' = FALSE /\ pressed' = FALSE /\ low' = 0
  /\ UNCHANGED <<build, button>>

Init ==
  /\ build \in Builds /\ button \in BOOLEAN
  /\ stage = "stage1" /\ todo = StageOne
  /\ osc = [hse |-> "off", pll |-> "off", irc48 |-> "off"]
  /\ cfg0 = [src |-> "hsi", mul |-> 2, psc |-> 0, ppre1 |-> 1, sw |-> "hsi", sws |-> "hsi"]
  /\ chip = Unknown /\ usbsel = FALSE /\ wait = 0 /\ SystemCoreClock = 0
  /\ clocked = {} /\ cntr = {"pdwn", "fres"}
  /\ pin = [p \in Pins |-> [mode |-> "floating", bit |-> 0]]
  /\ ticking = FALSE /\ sysTick = 0 /\ tgt = 0 /\ nextTick = 0 /\ led = FALSE /\ busy = 0
  /\ forced = FALSE /\ pressed = FALSE /\ low = 0

PllFreq == (IF cfg0.src = "hse" THEN 8 ELSE 4) * cfg0.mul
SysFreq == IF cfg0.sws = "pll" THEN PllFreq ELSE 8
\* PLL / 1.5, 1, 2.5, 2
\* A timer of APB1 is clocked at twice the bus when the bus is divided.
BusFreq(periph) ==
  CASE periph \in {"pTIMER5", "pTIMER6"} -> IF cfg0.ppre1 = 1 THEN SysFreq
                                           ELSE (2 * SysFreq) \div cfg0.ppre1
    [] periph \in {"pUART0", "pTIMER0", "pSPI0", "pAPB2", "pSYSCLOCK"} -> SysFreq
    [] periph = "pAPB1" -> SysFreq \div cfg0.ppre1
UsbFreq == IF usbsel THEN 48 ELSE (2 * PllFreq) \div <<3, 2, 5, 4>>[cfg0.psc + 1]

\* The USB peripheral, once powered, takes its pins over.
UsbDrives == "USB" \in clocked /\ "pdwn" \notin cntr
DPlusLow == ~UsbDrives /\ pin[DPlus] = [mode |-> "output", bit |-> 0]

\* What a pulled or floating input shows, the button pulling it low
Levels(p) ==
  CASE Port(p) \notin clocked \/ (p = FORCE_DFU_IO /\ button) -> {0}
    [] Port(p) \in clocked /\ ~button /\ pin[p].mode = "pulled" -> {pin[p].bit}
    [] OTHER -> {0, 1}

Stable ==
  \E o \in {"hse", "pll", "irc48"} :
    /\ osc[o] = "starting" /\ (o = "irc48" => build.gd)
    /\ osc' = [osc EXCEPT ![o] = "on"]
    /\ UNCHANGED <<build, chip, stage, todo, cfg0, usbsel, wait, SystemCoreClock, clocked, pads,
                   timing, button, verdict, low>>

Switched ==
  /\ cfg0.sws # cfg0.sw /\ (cfg0.sw = "pll" => osc.pll = "on")
  /\ cfg0' = [cfg0 EXCEPT !.sws = cfg0.sw]
  /\ UNCHANGED <<build, chip, stage, todo, osc, usbsel, wait, SystemCoreClock, clocked, pads,
                 timing, button, verdict, low>>

\* sysTick > tgt: the first tick may come at once
Elapsed_AtLeast(t) == sysTick >= t
Elapsed(t) == sysTick > t

Next1 == Head(todo)
Does(kinds) == todo # <<>> /\ Next1.do \in kinds
Waiting ==
  \/ Does({"sleep"}) /\ ~Elapsed(tgt)
  \/ stage = "loop" /\ todo = <<>> /\ ~Elapsed(nextTick)

\* tick
Tick ==
  /\ ticking /\ sysTick < MaxTick
  /\ Waiting \/ busy < Spare
  /\ busy' = IF Waiting THEN busy ELSE busy + 1
  /\ sysTick' = sysTick + 1
  /\ low' = IF DPlusLow /\ low <= DelayMs THEN low + 1 ELSE low
  /\ UNCHANGED <<build, chip, stage, todo, clock, clocked, pads, ticking, tgt, nextTick, led,
                 button, verdict>>

Press ==
  /\ button' = ~button
  /\ UNCHANGED <<build, chip, stage, todo, clock, clocked, pads, timing, verdict, low>>

-----------------------------------------------------------------------------
(* One access of the program. *)
\* The PLL's source and factor can only be written while it is off.
ClockOp ==
  /\ Does({"start", "stop", "await", "switched", "pll", "psc", "scale", "ppre1", "usbsel",
           "wait", "stmWait", "switch", "core"})
  /\ Next1.do = "await" => osc[Next1.at] = "on"
  /\ Next1.do = "switched" => cfg0.sws = Next1.at
  /\ osc' = CASE Next1.do = "start" /\ osc[Next1.at] = "off" ->
                   [osc EXCEPT ![Next1.at] = "starting"]
              [] Next1.do = "stop" /\ ~(Next1.at = "pll" /\ cfg0.sws = "pll") ->
                   [osc EXCEPT ![Next1.at] = "off"]
              [] OTHER -> osc
  /\ cfg0' = CASE Next1.do = "pll" /\ osc.pll = "off" ->
                    [cfg0 EXCEPT !.src = Next1.at, !.mul = Next1.v]
               [] Next1.do = "psc" -> [cfg0 EXCEPT !.psc = Next1.v]
               [] Next1.do = "scale" ->
                    [cfg0 EXCEPT !.psc = UsbPrescaler((2 * getClock("pSYSCLOCK")) \div 48)]
               [] Next1.do = "ppre1" -> [cfg0 EXCEPT !.ppre1 = Next1.v]
               [] Next1.do = "switch" -> [cfg0 EXCEPT !.sw = Next1.at]
               [] OTHER -> cfg0
  /\ usbsel' = (usbsel \/ Next1.do = "usbsel")
  /\ wait' = IF Next1.do = "wait" \/ (Next1.do = "stmWait" /\ ~is_gd32) THEN Next1.v ELSE wait
  /\ SystemCoreClock' = IF Next1.do = "core" THEN Next1.v ELSE SystemCoreClock
  /\ todo' = Tail(todo)
  /\ UNCHANGED <<build, chip, stage, clocked, pads, timing, button, verdict, low>>

ChipOp ==
  /\ Does({"identify", "isGd32", "pageSize"})
  /\ chip' = CASE Next1.do = "identify" -> [chip EXCEPT !.vendor = Vendor]
               [] Next1.do = "isGd32" -> [chip EXCEPT !.gd32 = is_gd32]
               [] Next1.do = "pageSize" -> [chip EXCEPT !.page = FlashPageSize]
  /\ todo' = Tail(todo)
  /\ UNCHANGED <<build, stage, clock, clocked, pads, timing, button, verdict, low>>

EnableOp ==
  /\ Does({"enable"})
  /\ clocked' = clocked \cup {Next1.at}
  /\ todo' = Tail(todo)
  /\ UNCHANGED <<build, chip, stage, clock, pads, timing, button, verdict, low>>

PinOp ==
  /\ Does({"mode", "level"})
  /\ pin' = CASE Port(Next1.at) \notin clocked -> pin
              [] Port(Next1.at) \in clocked /\ Next1.do = "mode" ->
                   [pin EXCEPT ![Next1.at].mode = Next1.v]
              [] Port(Next1.at) \in clocked /\ Next1.do = "level" ->
                   [pin EXCEPT ![Next1.at].bit = Next1.v]
  /\ todo' = Tail(todo)
  /\ UNCHANGED <<build, chip, stage, clock, clocked, cntr, timing, button, verdict, low>>

UsbOp ==
  /\ Does({"cntr", "clear", "reset"})
  /\ cntr' = CASE Next1.do = "cntr" /\ "USB" \in clocked -> Next1.v
               [] Next1.do = "clear" /\ "USB" \in clocked -> cntr \ Next1.v
               [] Next1.do = "reset" -> {"pdwn", "fres"}
               [] OTHER -> cntr
  /\ todo' = Tail(todo)
  /\ UNCHANGED <<build, chip, stage, clock, clocked, pin, timing, button, verdict, low>>

TickOp ==
  /\ Does({"zero", "tick", "target", "sleep"})
  /\ Next1.do = "sleep" => Elapsed(tgt)
  /\ sysTick' = IF Next1.do = "zero" THEN 0 ELSE sysTick
  /\ ticking' = IF Next1.do = "tick" THEN Next1.v ELSE ticking
  /\ tgt' = IF Next1.do = "target" THEN sysTick + Next1.v ELSE tgt
  /\ todo' = Tail(todo)
  /\ UNCHANGED <<build, chip, stage, clock, clocked, pads, nextTick, led, busy,
                 button, verdict, low>>

\* lnDigitalRead, and the decision: without the button, what the header, the
\* checksum and the marker say (Boot) may be either.
ReadButton ==
  /\ Does({"read"})
  /\ pressed' = button
  /\ \E level \in Levels(Next1.at) : forced' = (level = 0)
  /\ chip' = Unknown
  /\ \/ stage' = "stage2" /\ todo' = Stage2Entry
     \/ /\ ~forced' /\ stage' = "app"
        /\ todo' = InitSystemClock \o (IF build.external THEN EnableUsb48Mhz ELSE <<>>)
  /\ UNCHANGED <<build, clock, clocked, pads, timing, button, low>>

EnterLoop ==
  /\ Does({"loop"})
  /\ stage' = "loop" /\ todo' = <<>>
  /\ nextTick' = sysTick + Period
  /\ UNCHANGED <<build, chip, clock, clocked, pads, ticking, sysTick, tgt, led, busy, button,
                 verdict, low>>

\* The main loop between two polls
Blink ==
  /\ stage = "loop" /\ todo = <<>> /\ Elapsed(nextTick)
  /\ nextTick' = nextTick + Period
  /\ LET bit == IF led THEN 1 ELSE 0
     IN todo' = DigitalWrite(IF build.crystal THEN "PC13" ELSE "PA0", bit)
                  \o DigitalWrite("PA8", bit) \o DigitalWrite("PB13", bit)
  /\ led' = ~led
  /\ UNCHANGED <<build, chip, stage, clock, clocked, pads, ticking, sysTick, tgt, busy, button,
                 verdict, low>>

Program ==
  \/ ClockOp \/ ChipOp \/ EnableOp \/ PinOp \/ UsbOp \/ TickOp
  \/ ReadButton \/ EnterLoop \/ Blink

Next == Program \/ Stable \/ Switched \/ Tick \/ Press \/ Reset

(* The processor runs, the oscillators start, the tick interrupt is served.  *)
Spec ==
  /\ Init /\ [][Next]_vars
  /\ WF_vars(Program) /\ WF_vars(Stable) /\ WF_vars(Switched) /\ WF_vars(Tick)

-----------------------------------------------------------------------------
(* Types.  The program's list of accesses has at most 50 entries.            *)
BoardTypeOK ==
  /\ stage \in {"stage1", "stage2", "loop", "app"} /\ Len(todo) <= 50
  /\ osc \in [{"hse", "pll", "irc48"} -> {"off", "starting", "on"}]
  /\ cfg0.psc \in 0 .. 3 /\ wait \in 0 .. 2
  /\ clocked \subseteq {"PA", "PB", "PC", "AF", "USB"}
  /\ cntr \subseteq {"pdwn", "fres", "masks"}
  /\ sysTick \in 0 .. MaxTick /\ nextTick \in Nat /\ low \in 0 .. DelayMs + 1

(* The flash of an STM32 is never read faster than its wait states allow,    *)
(* not even between two writes of a clock set-up; USB gets 48 MHz whenever   *)
(* its transceiver is powered, in stage 2 and after the library's            *)
(* enableUsb48Mhz; the library knows the frequencies of the buses it has     *)
(* set, and the tick's reload value the frequency of the core; and stage 2   *)
(* knows the vendor and the page size before it can touch the flash          *)
(* (clocking.h:60-73, 126-139, lnRCU_systemClock:23-52, 121-123, 226-242,    *)
(* registers.h:15-21, flash.h:15-23, dfu.cpp:442, 536-538).                  *)
Needed(freq) == IF freq <= 24 THEN 0 ELSE IF freq <= 48 THEN 1 ELSE 2
AppReady == stage = "app" /\ todo = <<>> /\ cfg0.sws = "pll"
Library == {"pTIMER5", "pTIMER6", "pUART0", "pTIMER0", "pSPI0", "pAPB1", "pAPB2", "pSYSCLOCK"}
SettingsFit ==
  /\ ~build.gd => wait >= Needed(SysFreq)
  /\ UsbDrives \/ (AppReady /\ build.external) => UsbFreq = 48
  /\ AppReady => \A periph \in Library : getClock(periph) = BusFreq(periph)
  /\ ticking /\ cfg0.sws = cfg0.sw => configSYSTICK_CLOCK_HZ = SysFreq
  /\ stage = "loop" => chip = [vendor |-> IF build.gd THEN "GD" ELSE "STM", gd32 |-> build.gd,
                               page |-> IF build.gd THEN 2048 ELSE 1024]

(* When the transceiver is powered, D+ has been low for at least DelayMs     *)
(* whole ticks, so that the host has seen the old device leave               *)
(* (dfu.cpp:465-493, stubs.cpp:26-35).                                       *)
HostSeesDisconnect == UsbDrives => low > DelayMs

(* Stage 1 takes the button as pressed exactly if it is, whatever the boot   *)
(* has left undone when the pin is read (main.cpp:124-136).                  *)
ButtonObeyed == stage # "stage1" => (forced <=> pressed)

(* Stage 2, once entered and not reset, reaches its loop and lights every    *)
(* LED: no wait for an oscillator, a switch or the tick is one for something *)
(* that was never started, and no write to a pin is lost                     *)
(* (clocking.h:66-90, 113, 132, dfu.cpp:449-460, 499-520).                   *)
Lit == \A p \in Leds : pin[p] = [mode |-> "output", bit |-> 1]
Stage2Shines == stage = "stage2" ~> (Lit \/ stage \in {"stage1", "app"})
=============================================================================
