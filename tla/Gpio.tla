-------------------------------- MODULE Gpio --------------------------------
(***************************************************************************)
(* One OMAP4 GPIO bank (qemu/hw/arm/garmin_gpsmap.c, "OMAP4 GPIO bank").   *)
(*                                                                         *)
(* A register is the set of pins whose bit is set.  Registers that nothing *)
(* but their own read-back uses (control, wake-up, debounce, edge detect)  *)
(* are left out; a write to an edge-detect register still recomputes the   *)
(* interrupt and is the action Recompute.                                  *)
(***************************************************************************)
EXTENDS Integers

CONSTANTS
    Pins,     \* the pins of the bank
    PinMasks  \* what the guest may write to a register

ASSUME PinMasksAssumption == PinMasks \subseteq SUBSET Pins

VARIABLES
    datain,      \* pins that the board drives high
    oe,          \* pins configured as inputs
    dataout,     \* output latches
    status0,     \* irqstatus[0]
    status1,     \* irqstatus[1]
    enable0,     \* irqenable[0]
    enable1,     \* irqenable[1]
    low,         \* leveldetect0
    high,        \* leveldetect1
    line         \* level of the bank's interrupt line

gpio == <<datain, oe, dataout, status0, status1, enable0, enable1, low, high, line>>

GpioTypeOK ==
    /\ datain \in SUBSET Pins
    /\ oe \in SUBSET Pins
    /\ dataout \in SUBSET Pins
    /\ status0 \in SUBSET Pins
    /\ status1 \in SUBSET Pins
    /\ enable0 \in SUBSET Pins
    /\ enable1 \in SUBSET Pins
    /\ low \in SUBSET Pins
    /\ high \in SUBSET Pins
    /\ line \in BOOLEAN

(* The board's default input levels are a parameter of the bank.           *)
GpioInit(levels) ==
    /\ datain = levels
    /\ oe = Pins
    /\ dataout = {}
    /\ status0 = {} /\ status1 = {}
    /\ enable0 = {} /\ enable1 = {}
    /\ low = {} /\ high = {}
    /\ line = FALSE

(* omap4_gpio_input: pins driven as outputs read back their latch.         *)
Input == (datain \cap oe) \cup (dataout \ oe)

(* The pins at an active level.                                            *)
Active == (low \ Input) \cup (high \cap Input)

(* omap4_gpio_update_irq, run by a handler after it has changed the other  *)
(* registers; `s0' and `s1' are the status registers the handler leaves.   *)
UpdateIrq(s0, s1) ==
    /\ status0' = s0 \cup (Active' \cap enable0')
    /\ status1' = s1 \cup (Active' \cap enable1')
    /\ line' = (status0' \cap enable0' # {})
-----------------------------------------------------------------------------
(* Mutant: a changed pin does not reach the interrupt logic.               *)
SetPinSilent(pin, level) ==
    /\ datain' = IF level THEN datain \cup {pin} ELSE datain \ {pin}
    /\ UNCHANGED <<oe, dataout, enable0, enable1, low, high, status0, status1, line>>

(* omap4_gpio_set_pin: a board device drives the input `pin'.              *)
SetPin(pin, level) ==
    /\ datain' = IF level THEN datain \cup {pin} ELSE datain \ {pin}
    /\ UNCHANGED <<oe, dataout, enable0, enable1, low, high>>
    /\ IF datain' = datain
       THEN UNCHANGED <<status0, status1, line>>
       ELSE UpdateIrq(status0, status1)

(* Mutant: a write-one-to-clear that does not look at the levels again.    *)
WriteStatus0Edge(val) ==
    /\ \/ status0' = status0 \cup val
       \/ status0' = status0 \ val
    /\ line' = (status0' \cap enable0 # {})
    /\ UNCHANGED <<datain, oe, dataout, status1, enable0, enable1, low, high>>

(* 0x024 and 0x02c: set or clear bits of irqstatus[0].                     *)
WriteStatus0(val) ==
    /\ UNCHANGED <<datain, oe, dataout, enable0, enable1, low, high>>
    /\ \/ UpdateIrq(status0 \cup val, status1)
       \/ UpdateIrq(status0 \ val, status1)

(* 0x028 and 0x030: the same for irqstatus[1], with no update.             *)
WriteStatus1(val) ==
    /\ \/ status1' = status1 \cup val
       \/ status1' = status1 \ val
    /\ UNCHANGED <<datain, oe, dataout, status0, enable0, enable1, low, high, line>>

(* 0x034 and 0x03c.                                                        *)
WriteEnable0(val) ==
    /\ \/ enable0' = enable0 \cup val
       \/ enable0' = enable0 \ val
    /\ UNCHANGED <<datain, oe, dataout, enable1, low, high>>
    /\ UpdateIrq(status0, status1)

(* 0x038 sets bits of irqenable[1] and updates, 0x040 clears them and does *)
(* not.                                                                    *)
WriteEnable1(val) ==
    \/ /\ enable1' = enable1 \cup val
       /\ UNCHANGED <<datain, oe, dataout, enable0, low, high>>
       /\ UpdateIrq(status0, status1)
    \/ /\ enable1' = enable1 \ val
       /\ UNCHANGED <<datain, oe, dataout, status0, status1, enable0, low, high, line>>

(* 0x134.                                                                  *)
WriteDirection(val) ==
    /\ oe' = val
    /\ UNCHANGED <<datain, dataout, enable0, enable1, low, high>>
    /\ UpdateIrq(status0, status1)

(* 0x13c, 0x190 and 0x194: write, clear or set output latches.             *)
WriteDataout(val) ==
    /\ \/ dataout' = val
       \/ dataout' = dataout \ val
       \/ dataout' = dataout \cup val
    /\ UNCHANGED <<datain, oe, enable0, enable1, low, high>>
    /\ UpdateIrq(status0, status1)

(* 0x140 and 0x144.                                                        *)
WriteLevelDetect(val) ==
    /\ \/ low' = val /\ UNCHANGED high
       \/ high' = val /\ UNCHANGED low
    /\ UNCHANGED <<datain, oe, dataout, enable0, enable1>>
    /\ UpdateIrq(status0, status1)

(* 0x148 and 0x14c: the edge-detect registers have no other effect.        *)
Recompute ==
    /\ UNCHANGED <<datain, oe, dataout, enable0, enable1, low, high>>
    /\ UpdateIrq(status0, status1)

(* omap4_gpio_reset: the inputs belong to the board and stay.  The         *)
(* interrupt controller is reset too and drops the line.                   *)
GpioReset(levels) ==
    /\ datain' = levels
    /\ oe' = Pins
    /\ dataout' = {}
    /\ status0' = {} /\ status1' = {}
    /\ enable0' = {} /\ enable1' = {}
    /\ low' = {} /\ high' = {}
    /\ line' = FALSE

GpioWrite ==
    \/ \E val \in PinMasks :
          \/ WriteStatus0(val)
          \/ WriteStatus1(val)
          \/ WriteEnable0(val)
          \/ WriteEnable1(val)
          \/ WriteDirection(val)
          \/ WriteDataout(val)
          \/ WriteLevelDetect(val)
    \/ Recompute

(* The bank on its own, its pins driven by any device of the board.        *)
GpioNext ==
    \/ GpioWrite
    \/ \E pin \in Pins, level \in BOOLEAN : SetPin(pin, level)
    \/ GpioReset(datain)

GpioSpec == (\E levels \in SUBSET Pins : GpioInit(levels)) /\ [][GpioNext]_gpio
-----------------------------------------------------------------------------
(* An enabled level is never missed: as long as a pin is at its active     *)
(* level and enabled, its status bit is set, so that clearing the bit with *)
(* the level still there raises it again; no register write, pin change or *)
(* reset leaves an active pin unlatched.                                   *)
LevelLatched == Active \cap enable0 \subseteq status0

(* The bank's line is the OR of its enabled status bits.                   *)
LineFollowsStatus == line <=> status0 \cap enable0 # {}
=============================================================================
