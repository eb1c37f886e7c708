------------------------------ MODULE GpTimer ------------------------------
(***************************************************************************)
(* A general-purpose timer of the board (qemu/hw/arm/garmin_gpsmap.c,      *)
(* "OMAP4 general purpose timer").                                         *)
(*                                                                         *)
(* The counter is not stepped: it is a value at an instant (tcrr_base,     *)
(* last_ns), from which its present value is computed, and a QEMU timer    *)
(* that expires when it next overflows or matches.  Both conversions       *)
(* between time and ticks round down, as muldiv64 does.  The callback may  *)
(* run late, and guest accesses may come between deadline and callback.    *)
(*                                                                         *)
(* While the counter is stopped last_ns has no effect and no time passes   *)
(* in the model.                                                           *)
(***************************************************************************)
EXTENDS Integers

CONSTANTS
    WRAP,      \* 2^32
    NS,        \* units of time in a second
    Rates,     \* ticks in a second, selected by the prescaler in TCLR
    Values,    \* what the guest may write to TCRR, TLDR and TMAR
    IrqMasks,  \* what it may write to the interrupt registers
    LATE       \* bound: how much too late the callback may run

GptBits == {"MAT", "OVF", "TCAR"}

ASSUME GptAssumption ==
    /\ WRAP \in Nat \ {0}
    /\ NS \in Nat \ {0}
    /\ Rates \subseteq 1..NS
    /\ \E r \in Rates : \A q \in Rates : q <= r
    /\ Values \subseteq 0..WRAP - 1
    /\ IrqMasks \subseteq SUBSET GptBits
    /\ LATE \in Nat

VARIABLES
    st, ar, ce,  \* TCLR: start, auto-reload, compare enable
    rate,        \* gpt_rate of the prescaler in TCLR
    tldr, tmar,
    base,        \* tcrr_base: the counter at last_ns
    elapsed,     \* time since last_ns
    deadline,    \* expiry of the QEMU timer, from last_ns on; 0 = deleted
    irqstatus, irqenable,
    line         \* level of the interrupt line

gpt == <<st, ar, ce, rate, tldr, tmar, base, elapsed, deadline, irqstatus,
         irqenable, line>>

GptTypeOK ==
    /\ st \in BOOLEAN /\ ar \in BOOLEAN /\ ce \in BOOLEAN
    /\ rate \in Rates
    /\ tldr \in 0..WRAP - 1
    /\ tmar \in 0..WRAP - 1
    /\ base \in 0..WRAP - 1
    /\ elapsed \in Nat
    /\ deadline \in Nat
    /\ irqstatus \in SUBSET GptBits
    /\ irqenable \in SUBSET GptBits
    /\ line \in BOOLEAN

(* TCLR = 0 selects the full rate.                                         *)
FullRate == CHOOSE r \in Rates : \A q \in Rates : q <= r

GptInit ==
    /\ st = FALSE /\ ar = FALSE /\ ce = FALSE
    /\ rate = FullRate
    /\ tldr = 0 /\ tmar = 0
    /\ base = 0
    /\ elapsed = 0
    /\ deadline = 0
    /\ irqstatus = {} /\ irqenable = {}
    /\ line = FALSE
-----------------------------------------------------------------------------
(* muldiv64(time, rate, NANOSECONDS_PER_SECOND) and its counterpart in     *)
(* gpt_schedule.                                                           *)
TicksIn(time, r) == (time * r) \div NS
TimeFor(ticks, r) == (ticks * NS) \div r

(* The counter with the elapsed time folded in, before it wraps.           *)
Unwrapped == base + TicksIn(elapsed, rate)

(* Where an overflow takes the counter; the same expression is found in    *)
(* gpt_current and in gpt_tick.                                            *)
Wrapped(v) ==
    CASE v < WRAP -> v
      [] v >= WRAP /\ ar -> tldr + ((v - WRAP) % (WRAP - tldr))
      [] v >= WRAP /\ ~ar -> WRAP - 1

(* gpt_current: TCRR as the guest reads it.                                *)
Current == IF st THEN Wrapped(Unwrapped) ELSE base

(* The counter value at which something happens next.                      *)
Event(cur, compare, match) == IF compare /\ match > cur THEN match ELSE WRAP

(* gpt_schedule, for the registers the handler leaves, with the counter at *)
(* `cur'.                                                                  *)
Schedule(cur) ==
    /\ base' = cur
    /\ elapsed' = 0
    /\ deadline' = IF st' THEN TimeFor(Event(cur, ce', tmar') - cur, rate') ELSE 0

(* gpt_update_irq.                                                         *)
UpdateIrq == line' = (irqstatus' \cap irqenable' # {})
-----------------------------------------------------------------------------
Elapse ==
    /\ st
    /\ elapsed < deadline + LATE
    /\ elapsed' = elapsed + 1
    /\ UNCHANGED <<st, ar, ce, rate, tldr, tmar, base, deadline, irqstatus, irqenable,
                   line>>

(* Mutant: the callback arms the timer only for the next overflow.         *)
TickOnce ==
    /\ deadline # 0
    /\ elapsed >= deadline
    /\ irqstatus' = irqstatus
          \cup (IF ce /\ base <= tmar /\ Unwrapped >= tmar THEN {"MAT"} ELSE {})
          \cup (IF Unwrapped >= WRAP THEN {"OVF"} ELSE {})
    /\ st' = (st /\ (Unwrapped < WRAP \/ ar))
    /\ base' = Wrapped(Unwrapped)
    /\ elapsed' = 0
    /\ deadline' = IF st' /\ Unwrapped >= WRAP THEN TimeFor(WRAP - base', rate) ELSE 0
    /\ UNCHANGED <<ar, ce, rate, tldr, tmar, irqenable>>
    /\ UpdateIrq

(* gpt_tick, the timer callback.                                           *)
Tick ==
    /\ deadline # 0
    /\ elapsed >= deadline
    /\ irqstatus' = irqstatus
          \cup (IF ce /\ base <= tmar /\ Unwrapped >= tmar THEN {"MAT"} ELSE {})
          \cup (IF Unwrapped >= WRAP THEN {"OVF"} ELSE {})
    /\ st' = (st /\ (Unwrapped < WRAP \/ ar))
    /\ UNCHANGED <<ar, ce, rate, tldr, tmar, irqenable>>
    /\ Schedule(Wrapped(Unwrapped))
    /\ UpdateIrq

(* Mutant: the new prescaler is applied to the time already elapsed.       *)
WriteTclrEarly(start, reload, compare, r) ==
    /\ st' = start /\ ar' = reload /\ ce' = compare /\ rate' = r
    /\ UNCHANGED <<tldr, tmar, irqstatus, irqenable, line>>
    /\ Schedule(LET v == base + TicksIn(elapsed, r)
                IN  IF st THEN Wrapped(v) ELSE base)

(* TCLR: the counter is brought up to date with the old setting.           *)
WriteTclr(start, reload, compare, r) ==
    /\ st' = start /\ ar' = reload /\ ce' = compare /\ rate' = r
    /\ UNCHANGED <<tldr, tmar, irqstatus, irqenable, line>>
    /\ Schedule(Current)

WriteTcrr(val) ==
    /\ UNCHANGED <<st, ar, ce, rate, tldr, tmar, irqstatus, irqenable, line>>
    /\ Schedule(val)

(* TTGR: reload the counter now.                                           *)
WriteTtgr ==
    /\ UNCHANGED <<st, ar, ce, rate, tldr, tmar, irqstatus, irqenable, line>>
    /\ Schedule(tldr)

WriteTldr(val) ==
    /\ tldr' = val
    /\ UNCHANGED <<st, ar, ce, rate, tmar, base, elapsed, deadline, irqstatus,
                   irqenable, line>>

(* Mutant: a new match value does not move the deadline.                   *)
WriteTmarLater(val) ==
    /\ tmar' = val
    /\ UNCHANGED <<st, ar, ce, rate, tldr, base, elapsed, deadline, irqstatus,
                   irqenable, line>>

WriteTmar(val) ==
    /\ tmar' = val
    /\ UNCHANGED <<st, ar, ce, rate, tldr, irqstatus, irqenable, line>>
    /\ Schedule(Current)

(* IRQSTATUS_RAW and IRQSTATUS.                                            *)
WriteStatus(val) ==
    /\ \/ irqstatus' = irqstatus \cup val
       \/ irqstatus' = irqstatus \ val
    /\ UNCHANGED <<st, ar, ce, rate, tldr, tmar, base, elapsed, deadline, irqenable>>
    /\ UpdateIrq

(* IRQENABLE_SET and IRQENABLE_CLR, and TIER of the legacy layout.         *)
WriteEnable(val) ==
    /\ \/ irqenable' = irqenable \cup val
       \/ irqenable' = irqenable \ val
       \/ irqenable' = val
    /\ UNCHANGED <<st, ar, ce, rate, tldr, tmar, base, elapsed, deadline, irqstatus>>
    /\ UpdateIrq

(* TIOCP_CFG.SOFTRESET and gpt_reset, which leave the same registers.      *)
GptReset ==
    /\ st' = FALSE /\ ar' = FALSE /\ ce' = FALSE /\ rate' = FullRate
    /\ tldr' = 0 /\ tmar' = 0
    /\ base' = 0 /\ elapsed' = 0 /\ deadline' = 0
    /\ irqstatus' = {} /\ irqenable' = {} /\ line' = FALSE
-----------------------------------------------------------------------------
(* What the guest can write without touching the counter itself.           *)
Configure ==
    \/ \E start, reload, compare \in BOOLEAN, r \in Rates :
          WriteTclr(start, reload, compare, r)
    \/ \E val \in Values : WriteTmar(val)
    \/ \E val \in IrqMasks : WriteStatus(val) \/ WriteEnable(val)

GuestWrite ==
    \/ Configure
    \/ \E val \in Values : WriteTcrr(val) \/ WriteTldr(val)
    \/ WriteTtgr
    \/ GptReset

GptNext == Elapse \/ Tick \/ GuestWrite

(* Time passes, QEMU runs expired timers, and not for ever at the very     *)
(* instant of their deadline: the virtual clock follows the host's clock,  *)
(* which goes on while the callback is being dispatched.                   *)
GptFairness ==
    /\ WF_gpt(Elapse /\ elapsed < deadline)
    /\ WF_gpt(Tick)
    /\ SF_gpt(Elapse /\ elapsed = deadline)

GptSpec == GptInit /\ [][GptNext]_gpt /\ GptFairness
-----------------------------------------------------------------------------
(* The QEMU timer of a running counter is armed, and for the right time:   *)
(* at its deadline the counter has not run past the overflow or match it   *)
(* was set for, and is at most the one tick short of it that rounding      *)
(* costs; no register write that moves the event leaves an old deadline.   *)
DeadlineInTime ==
    /\ st <=> deadline # 0
    /\ st => LET at == base + TicksIn(deadline, rate)
                 ev == Event(base, ce, tmar)
             IN  ev - 1 <= at /\ at <= ev

(* The counter the guest reads does not jump: the callback and the control *)
(* registers fold elapsed time into it by their own arithmetic, and leave  *)
(* it where gpt_current has shown it just before.                          *)
CounterContinuous == [][Tick \/ Configure => Current' = Current]_gpt

(* A running counter that the guest leaves alone overflows and says so.    *)
OverflowComes ==
    <>[][~GuestWrite]_gpt => (st ~> ("OVF" \in irqstatus \/ ~st))
=============================================================================
