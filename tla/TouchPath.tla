----------------------------- MODULE TouchPath -----------------------------
(***************************************************************************)
(* The touch controller wired to its GPIO pin (gpsmap_init: the INT output *)
(* of the eGalax drives one input of a GPIO bank), with the guest that     *)
(* learns of frames only through that bank: it samples the pin and reads   *)
(* frames while the pin is low (docs/egalax_touch.md, section 5).          *)
(*                                                                         *)
(* The guest may arm the pin as a level interrupt as well.  It leaves the  *)
(* pin an input and uses the bank's first interrupt output, the only one   *)
(* that is wired to the interrupt controller.                              *)
(***************************************************************************)
EXTENDS Egalax, Gpio

CONSTANT PIN   \* the pin that INT is wired to

ASSUME PinAssumption == PIN \in Pins

path == <<touch, gpio>>

(* INT idles high.                                                         *)
PathInit == EgalaxInit /\ GpioInit({PIN})

(* Every qemu_set_irq of the controller calls omap4_gpio_set_pin.          *)
Wire == SetPin(PIN, int')

(* The user, and the guest's I2C transfers in any order.                   *)
Access ==
    /\ \/ \E c \in Chunks : SendChunk(c)
       \/ \E n \in ReadLens : ReadFrame(n)
       \/ Press
       \/ Lift
       \/ Move
    /\ Wire

StopWrite == FinishWrite /\ Wire
StopRead == FinishRead /\ Wire
Repeat == RepeatFires /\ Wire
Elapse == Tick /\ Wire

(* "get pen data": one turn of its loop.                                   *)
PenData ==
    /\ PIN \notin Input
    /\ tx_pos = 0 /\ rx = NoChunk
    /\ ReadFrame(FRAME)
    /\ Wire

BankWrite ==
    /\ \E val \in PinMasks :
          \/ WriteStatus0(val)
          \/ WriteEnable0(val)
          \/ WriteLevelDetect(val)
    /\ UNCHANGED touch

(* A machine reset resets both; whichever comes first, the pin ends high   *)
(* and the registers of the bank are clear.                                *)
PathReset == EgalaxReset /\ GpioReset({PIN})

PathNext ==
    \/ Access
    \/ StopWrite
    \/ StopRead
    \/ Repeat
    \/ Elapse
    \/ PenData
    \/ BankWrite
    \/ PathReset

(* Virtual time passes, QEMU runs expired timers, the guest keeps polling  *)
(* (strongly fair: every 10 ms, and other transfers only come in between)  *)
(* and every I2C transfer comes to its end.  Nothing is asked of the user. *)
PathFairness ==
    /\ WF_path(Elapse)
    /\ WF_path(Repeat)
    /\ SF_path(PenData)
    /\ WF_path(StopRead)
    /\ WF_path(StopWrite)

PathSpec == PathInit /\ [][PathNext]_path /\ PathFairness
-----------------------------------------------------------------------------
(* A guest that armed the low level of the pin is interrupted as long as a *)
(* frame waits: through every frame that is queued, consumed or given up   *)
(* by the controller, and every acknowledgement, mask and level-select     *)
(* write to the bank, however the two interleave.                          *)
FrameInterrupts == (q # <<>> /\ PIN \in low \cap enable0) => line
=============================================================================
