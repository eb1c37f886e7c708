------------------------------- MODULE Dispc -------------------------------
(***************************************************************************)
(* The display controller (qemu/hw/arm/garmin_gpsmap.c, "OMAP4 DISPC") and *)
(* the address the GL presenter writes finished frames to                  *)
(* (qemu/hw/arm/garmin_gl.c, gl_scanout and present).                      *)
(*                                                                         *)
(* Three outputs share one 60 Hz timer: LCD1 and TV of CONTROL1, and LCD2  *)
(* of CONTROL2.  Each has an enable bit and a GO bit the timer clears.     *)
(* The firmware selects the frame buffer with GFX_BA0; the presenter is    *)
(* told of that write and of nothing else.  Pixel formats and geometry are *)
(* left out; the content of a frame buffer is the frame it was given.      *)
(***************************************************************************)
EXTENDS Integers

CONSTANTS
    Registers,  \* the control registers, each the set of its outputs
    Lcds,       \* the outputs whose enable bit lets the console be drawn
    BootOutput, \* the output the boot loader leaves enabled, LCD2
    Buffers,    \* addresses of frame buffers
    FirstBuffer,\* the one the boot loader leaves behind, 0xbed46000
    Frames,     \* frames, as far as they are told apart
    NoFrame,
    FRAME,      \* ticks between two runs of the timer
    WRITES      \* bound: writes to the control registers between two resets

ASSUME DispcAssumption ==
    /\ BootOutput \in UNION Registers
    /\ FirstBuffer \in Buffers
    /\ NoFrame \notin Frames
    /\ FRAME \in Nat \ {0}
    /\ WRITES \in Nat

Outputs == UNION Registers

VARIABLES
    on,         \* outputs whose enable bit is set
    go,         \* outputs whose GO bit is set
    irqstatus,  \* outputs with an event in IRQSTATUS
    irqenable,  \* outputs whose events are enabled in IRQENABLE
    irq,        \* level of the interrupt
    left,       \* ticks to the next run of the timer
    writes,     \* control writes since the last reset
    pipeline,   \* GFX_ATTRIBUTES enable bit
    ba,         \* GFX_BA0
    scanout,    \* gl_scanout
    fb,         \* fb[b]: the frame in buffer b
    screen,     \* the frame on the console
    told,       \* ghost: no reset and no restored snapshot since the machine
                \* started or the firmware last wrote GFX_BA0
    newest      \* ghost: the last frame presented while told, NoFrame if the
                \* buffer was changed since

dispc == <<on, go, irqstatus, irqenable, irq, left, writes, pipeline, ba, scanout,
           fb, screen, told, newest>>

DispcTypeOK ==
    /\ on \subseteq Outputs /\ go \subseteq Outputs
    /\ irqstatus \subseteq Outputs /\ irqenable \subseteq Outputs
    /\ irq \in BOOLEAN /\ pipeline \in BOOLEAN /\ told \in BOOLEAN
    /\ left \in 0..FRAME /\ writes \in 0..WRITES
    /\ ba \in Buffers /\ scanout \in Buffers
    /\ fb \in [Buffers -> Frames \cup {NoFrame}]
    /\ screen \in Frames \cup {NoFrame} /\ newest \in Frames \cup {NoFrame}

\* The registers dispc_reset seeds: the configuration of the boot loader.
Seeded(x, y, s, e, p, b, l) ==
    /\ x = {BootOutput} /\ y = {}
    /\ s = {} /\ e = {}
    /\ p = TRUE /\ b = FirstBuffer
    /\ l = FRAME

DispcInit ==
    /\ Seeded(on, go, irqstatus, irqenable, pipeline, ba, left)
    /\ irq = FALSE /\ writes = 0
    /\ scanout = FirstBuffer
    /\ fb = [b \in Buffers |-> NoFrame]
    /\ screen = NoFrame /\ newest = NoFrame /\ told = TRUE

----------------------------------------------------------------------------

UpdateIrq(s, e) == irq' = (s \cap e # {})

Tick ==
    /\ left > 0
    /\ left' = left - 1
    /\ UNCHANGED <<on, go, irqstatus, irqenable, irq, writes, pipeline, ba, scanout,
                   fb, screen, told, newest>>

\* Mutant: only the LCD outputs end their frame.
VsyncLcdOnly ==
    /\ left = 0
    /\ irqstatus' = irqstatus \cup on
    /\ go' = go \ (on \cap Lcds)
    /\ UpdateIrq(irqstatus', irqenable)
    /\ left' = FRAME
    /\ UNCHANGED <<on, irqenable, writes, pipeline, ba, scanout, fb, screen, told, newest>>

\* dispc_vsync_cb
Vsync ==
    /\ left = 0
    /\ irqstatus' = irqstatus \cup on
    /\ go' = go \ on
    /\ UpdateIrq(irqstatus', irqenable)
    /\ left' = FRAME
    /\ UNCHANGED <<on, irqenable, writes, pipeline, ba, scanout, fb, screen, told, newest>>

WriteIrqStatus(S) ==
    /\ irqstatus' = irqstatus \ S
    /\ UpdateIrq(irqstatus', irqenable)
    /\ UNCHANGED <<on, go, irqenable, left, writes, pipeline, ba, scanout, fb, screen,
                   told, newest>>

\* Mutant: unmasking does not look at pending events.
WriteIrqEnableSilent(S) ==
    /\ irqenable' = S
    /\ UNCHANGED <<on, go, irqstatus, irq, left, writes, pipeline, ba, scanout, fb, screen,
                   told, newest>>

WriteIrqEnable(S) ==
    /\ irqenable' = S
    /\ UpdateIrq(irqstatus, irqenable')
    /\ UNCHANGED <<on, go, irqstatus, left, writes, pipeline, ba, scanout, fb, screen,
                   told, newest>>

\* A write to CONTROL1 or CONTROL2 sets the bits of its outputs; with an output
\* enabled it starts the timer afresh.
WriteControl(reg, enable, set) ==
    /\ writes < WRITES
    /\ writes' = writes + 1
    /\ on' = (on \ reg) \cup enable
    /\ go' = (go \ reg) \cup set
    /\ left' = IF enable # {} THEN FRAME ELSE left
    /\ UNCHANGED <<irqstatus, irqenable, irq, pipeline, ba, scanout, fb, screen, told, newest>>

\* Mutant: the presenter is not told.
WriteBa0Untold(b) ==
    /\ ba' = b
    /\ told' = TRUE /\ newest' = NoFrame
    /\ UNCHANGED <<on, go, irqstatus, irqenable, irq, left, writes, pipeline, scanout, fb,
                   screen>>

WriteBa0(b) ==
    /\ ba' = b
    /\ scanout' = b
    /\ told' = TRUE /\ newest' = NoFrame
    /\ UNCHANGED <<on, go, irqstatus, irqenable, irq, left, writes, pipeline, fb, screen>>

WriteAttributes(enable) ==
    /\ pipeline' = enable
    /\ UNCHANGED <<on, go, irqstatus, irqenable, irq, left, writes, ba, scanout, fb,
                   screen, told, newest>>

\* present, at the end of eglSwapBuffers
Present(f) ==
    /\ fb' = [fb EXCEPT ![scanout] = f]
    /\ newest' = IF told THEN f ELSE newest
    /\ UNCHANGED <<on, go, irqstatus, irqenable, irq, left, writes, pipeline, ba,
                   scanout, screen, told>>

Visible == pipeline /\ on \cap Lcds # {}

\* Mutant: the console is drawn from the buffer of the boot loader.
GfxUpdateStale ==
    /\ Visible
    /\ screen' = fb[FirstBuffer]
    /\ UNCHANGED <<on, go, irqstatus, irqenable, irq, left, writes, pipeline, ba,
                   scanout, fb, told, newest>>

\* dispc_gfx_update: the console asks for the picture.
GfxUpdate ==
    /\ Visible
    /\ screen' = fb[ba]
    /\ UNCHANGED <<on, go, irqstatus, irqenable, irq, left, writes, pipeline, ba,
                   scanout, fb, told, newest>>

\* dispc_reset: the registers and the timer, but neither the interrupt line nor
\* the address the presenter keeps.
Reset ==
    /\ Seeded(on', go', irqstatus', irqenable', pipeline', ba', left')
    /\ writes' = 0
    /\ told' = FALSE /\ newest' = NoFrame
    /\ UNCHANGED <<irq, scanout, fb, screen>>

\* A snapshot loaded by a new process: the registers and the timer come back
\* with memory, the presenter's address is that of a new process.
Restore ==
    /\ scanout' = FirstBuffer
    /\ screen' = NoFrame
    /\ told' = FALSE /\ newest' = NoFrame
    /\ UNCHANGED <<on, go, irqstatus, irqenable, irq, left, writes, pipeline, ba, fb>>

DispcNext ==
    \/ Tick \/ Vsync \/ GfxUpdate \/ Reset \/ Restore
    \/ \E S \in SUBSET Outputs : WriteIrqStatus(S) \/ WriteIrqEnable(S)
    \/ \E reg \in Registers : \E enable, set \in SUBSET reg : WriteControl(reg, enable, set)
    \/ \E b \in Buffers : WriteBa0(b)
    \/ \E enable \in BOOLEAN : WriteAttributes(enable)
    \/ \E f \in Frames : Present(f)

\* The timer is a QEMU timer on the virtual clock, and the console asks for the
\* picture at its own refresh rate.
DispcFairness == WF_dispc(Tick) /\ WF_dispc(Vsync) /\ WF_dispc(GfxUpdate)

DispcSpec == DispcInit /\ [][DispcNext]_dispc /\ DispcFairness

----------------------------------------------------------------------------
(* Properties *)

\* The interrupt is raised whenever an enabled event is pending, and it is
\* raised without one only while no event is enabled: after a reset, which does
\* not lower the line (dispc_reset, dispc_update_irq).
IrqHonest ==
    /\ irqstatus \cap irqenable # {} => irq
    /\ irq => irqstatus \cap irqenable # {} \/ irqenable = {}

\* A frame presented after the firmware has chosen its frame buffer is in the
\* buffer that is displayed, until a reset or a restored snapshot changes the
\* buffer behind the presenter's back (garmin_gl_set_scanout, present).
FrameOnScreen == newest # NoFrame => fb[ba] = newest

\* A GO bit the firmware sets on an enabled output is cleared, so a firmware
\* that waits for it goes on, provided that the control registers are not
\* written forever: each write puts the timer off.
GoClears == \A o \in Outputs : o \in go \cap on ~> o \notin go \cap on

\* A presented frame is shown, unless another one replaces it, the buffer is
\* changed or the display is off.
FrameShown ==
    \A f \in Frames : newest = f ~> screen = f \/ newest # f \/ ~Visible
=============================================================================
