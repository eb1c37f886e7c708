--------------------------- MODULE GpTimerProofs ---------------------------
(* Proofs about GpTimer, for every counter width, clock and prescaler.     *)
EXTENDS GpTimer, TLAPS

(* Division rounds down.                                                   *)
LEMMA DivBounds ==
    ASSUME NEW a \in Nat, NEW b \in Nat \ {0}
    PROVE  /\ a \div b \in Nat
           /\ b * (a \div b) <= a
           /\ a < b * (a \div b) + b
OBVIOUS

(* A product below a multiple is a smaller multiple.                       *)
LEMMA QuotientBound ==
    ASSUME NEW a \in Nat, NEW b \in Nat \ {0}, NEW q \in Nat, NEW n \in Nat,
           b * q <= a, a <= b * n
    PROVE  q <= n
<1>1. SUFFICES ASSUME q > n PROVE FALSE
  OBVIOUS
<1>2. b * q >= b * n + b
  <2>1. PICK k \in Nat : q = n + 1 + k
    <3>1. q - n - 1 \in Nat
      BY <1>1
    <3>2. q = n + 1 + (q - n - 1)
      BY <1>1
    <3> QED
      BY <3>1, <3>2
  <2>2. b * q = b * n + b + b * k
    BY <2>1
  <2>3. b * k \in Nat
    OBVIOUS
  <2> QED
    BY <2>2, <2>3
<1> QED
  BY <1>2

(* A deadline that is the time for n ticks, rounded down, finds the counter *)
(* n or n - 1 ticks on: a tick is no shorter than a unit of time.           *)
LEMMA RoundTrip ==
    ASSUME NEW n \in Nat \ {0}, NEW r \in 1..NS
    PROVE  /\ TimeFor(n, r) \in Nat \ {0}
           /\ n - 1 <= TicksIn(TimeFor(n, r), r)
           /\ TicksIn(TimeFor(n, r), r) <= n
<1> DEFINE d == TimeFor(n, r)
           t == TicksIn(d, r)
<1>1. NS \in Nat \ {0} /\ r \in Nat \ {0} /\ r <= NS
  BY GptAssumption
<1>2. n * NS \in Nat /\ r <= n * NS
  <2>1. PICK k \in Nat : n = k + 1
    <3>1. n - 1 \in Nat /\ n = (n - 1) + 1
      OBVIOUS
    <3> QED
      BY <3>1
  <2>2. n * NS = k * NS + NS /\ k * NS \in Nat
    BY <1>1, <2>1
  <2> QED
    BY <1>1, <2>2
<1>3. d \in Nat /\ r * d <= n * NS /\ n * NS < r * d + r
  BY <1>1, <1>2, DivBounds DEF TimeFor
<1>4. d # 0
  BY <1>1, <1>2, <1>3
<1>5. d * r \in Nat /\ d * r = r * d
  BY <1>1, <1>3
<1>6. t \in Nat /\ NS * t <= d * r /\ d * r < NS * t + NS
  <2> HIDE DEF d
  <2> QED
    BY <1>1, <1>3, <1>5, DivBounds DEF TicksIn
<1>7. t <= n
  <2>1. d * r <= NS * n
    BY <1>1, <1>3, <1>5
  <2> HIDE DEF d, t
  <2> QED
    BY <1>1, <1>5, <1>6, <2>1, QuotientBound
<1>8. n - 1 <= t
  <2> HIDE DEF d, t
  <2>1. n * NS <= NS * t + NS + NS
    BY <1>1, <1>3, <1>5, <1>6
  <2>2. NS * (n - 1) < NS * t + NS
    BY <1>1, <1>3, <1>5, <1>6
  <2>3. NS * (t + 1) = NS * t + NS
    BY <1>1, <1>6
  <2>4. n - 1 \in Nat /\ t + 1 \in Nat
    BY <1>6
  <2> QED
    BY <1>1, <1>6, <2>2, <2>3, <2>4, QuotientBound
<1> QED
  BY <1>3, <1>4, <1>7, <1>8
-----------------------------------------------------------------------------
(* The next event lies ahead of the counter.                               *)
LEMMA EventAhead ==
    ASSUME NEW cur \in 0..WRAP - 1, NEW c \in BOOLEAN, NEW m \in 0..WRAP - 1
    PROVE  Event(cur, c, m) - cur \in Nat \ {0}
BY GptAssumption DEF Event

LEMMA FullRateIsRate == FullRate \in Rates
BY GptAssumption DEF FullRate

(* The elapsed time never takes the counter out of its width, however long *)
(* it is and whatever TLDR holds.                                          *)
LEMMA CurrentInRange ==
    ASSUME GptTypeOK
    PROVE  /\ Unwrapped \in Nat
           /\ Wrapped(Unwrapped) \in 0..WRAP - 1
           /\ Current \in 0..WRAP - 1
<1>1. elapsed * rate \in Nat /\ NS \in Nat \ {0}
  BY GptAssumption DEF GptTypeOK
<1>2. TicksIn(elapsed, rate) \in Nat
  BY <1>1, DivBounds DEF TicksIn
<1>3. Unwrapped \in Nat
  BY <1>2 DEF Unwrapped, GptTypeOK
<1>4. ASSUME NEW v \in Nat PROVE Wrapped(v) \in 0..WRAP - 1
  <2>1. CASE v < WRAP
    BY <1>4, <2>1, GptAssumption DEF Wrapped
  <2>2. CASE v >= WRAP /\ ar
    <3>1. (v - WRAP) % (WRAP - tldr) \in 0..(WRAP - tldr) - 1
      BY <1>4, <2>2, GptAssumption DEF GptTypeOK
    <3>2. Wrapped(v) = tldr + ((v - WRAP) % (WRAP - tldr))
      BY <1>4, <2>2, GptAssumption DEF Wrapped
    <3> QED
      BY <3>1, <3>2, GptAssumption DEF GptTypeOK
  <2>3. CASE v >= WRAP /\ ~ar
    BY <1>4, <2>3, GptAssumption DEF Wrapped
  <2> QED
    BY <1>4, <2>1, <2>2, <2>3, GptAssumption DEF GptTypeOK
<1> QED
  BY <1>3, <1>4 DEF Current, GptTypeOK

(* gpt_schedule arms the timer for the next event, whatever the handler    *)
(* did to the registers before it.                                         *)
LEMMA ScheduleInTime ==
    ASSUME NEW cur \in 0..WRAP - 1, Schedule(cur),
           st' \in BOOLEAN, ce' \in BOOLEAN, rate' \in Rates, tmar' \in 0..WRAP - 1
    PROVE  /\ base' \in 0..WRAP - 1
           /\ elapsed' \in Nat
           /\ deadline' \in Nat
           /\ DeadlineInTime'
<1> DEFINE n == Event(cur, ce', tmar') - cur
<1>1. n \in Nat \ {0} /\ rate' \in 1..NS
  BY EventAhead, GptAssumption
<1>2. Event(cur, ce', tmar') = cur + n
  <2>1. Event(cur, ce', tmar') \in Nat
    <3>1. Event(cur, ce', tmar') \in {tmar', WRAP}
      BY Zenon DEF Event
    <3> QED
      BY <3>1, GptAssumption
  <2> QED
    BY <2>1
<1>3. /\ TimeFor(n, rate') \in Nat \ {0}
      /\ n - 1 <= TicksIn(TimeFor(n, rate'), rate')
      /\ TicksIn(TimeFor(n, rate'), rate') <= n
  <2> HIDE DEF n
  <2> QED
    BY <1>1, RoundTrip
<1>4. base' = cur /\ elapsed' = 0 /\ deadline' = IF st' THEN TimeFor(n, rate') ELSE 0
  BY DEF Schedule
<1>5. CASE st'
  <2>1. deadline' = TimeFor(n, rate')
    BY <1>4, <1>5
  <2>2. TicksIn(TimeFor(n, rate'), rate') \in Nat
    <3>1. NS \in Nat \ {0} /\ TimeFor(n, rate') * rate' \in Nat
      BY <1>1, <1>3, GptAssumption
    <3> QED
      BY <3>1, DivBounds DEF TicksIn
  <2>3. LET at == base' + TicksIn(deadline', rate')
            ev == Event(base', ce', tmar')
        IN  ev - 1 <= at /\ at <= ev
    <3> HIDE DEF n
    <3> QED
      BY <1>1, <1>2, <1>3, <1>4, <2>1, <2>2
  <2> QED
    BY <1>3, <1>4, <1>5, <2>1, <2>3 DEF DeadlineInTime
<1>6. CASE ~st'
  BY <1>4, <1>6 DEF DeadlineInTime
<1> QED
  BY <1>5, <1>6
-----------------------------------------------------------------------------
(* The registers other than the counter have their types.                  *)
RegsOK ==
    /\ st \in BOOLEAN /\ ar \in BOOLEAN /\ ce \in BOOLEAN
    /\ rate \in Rates
    /\ tldr \in 0..WRAP - 1
    /\ tmar \in 0..WRAP - 1
    /\ irqstatus \in SUBSET GptBits
    /\ irqenable \in SUBSET GptBits
    /\ line \in BOOLEAN

GptInv == GptTypeOK /\ DeadlineInTime

(* The state in which the device is created and which a reset leaves.      *)
LEMMA ZeroIsValue == 0 \in 0..WRAP - 1 /\ 0 \in Nat /\ {} \in SUBSET GptBits
<1>1. 0 \in 0..WRAP - 1 /\ 0 \in Nat
  BY GptAssumption
<1> QED
  BY <1>1

LEMMA GptInitInv == GptInit => GptInv
<1> SUFFICES ASSUME GptInit PROVE GptInv
  OBVIOUS
<1>1. GptTypeOK
  BY FullRateIsRate, ZeroIsValue, Zenon DEF GptInit, GptTypeOK
<1>2. DeadlineInTime
  BY Zenon DEF GptInit, DeadlineInTime
<1> QED
  BY <1>1, <1>2 DEF GptInv

(* A handler that ends in gpt_schedule preserves the invariant if it       *)
(* leaves well-typed registers.                                            *)
LEMMA ScheduleInv ==
    ASSUME NEW cur \in 0..WRAP - 1, Schedule(cur), RegsOK'
    PROVE  GptInv'
<1>1. st' \in BOOLEAN /\ ce' \in BOOLEAN /\ rate' \in Rates /\ tmar' \in 0..WRAP - 1
  BY Zenon DEF RegsOK
<1>2. /\ base' \in 0..WRAP - 1 /\ elapsed' \in Nat /\ deadline' \in Nat
      /\ DeadlineInTime'
  BY <1>1, ScheduleInTime
<1> QED
  BY <1>2, Zenon DEF GptInv, GptTypeOK, RegsOK

(* No time, no ticks.                                                      *)
LEMMA NoTicks ==
    ASSUME NEW r \in Nat
    PROVE  TicksIn(0, r) = 0
<1>1. 0 * r = 0
  OBVIOUS
<1>2. 0 \div NS = 0
  BY GptAssumption
<1> QED
  BY <1>1, <1>2 DEF TicksIn

(* gpt_schedule leaves the counter at the value it was given.              *)
LEMMA ScheduleKeeps ==
    ASSUME NEW cur \in 0..WRAP - 1, Schedule(cur), rate' \in Rates
    PROVE  Current' = cur
<1>1. base' = cur /\ elapsed' = 0
  BY DEF Schedule
<1>2. TicksIn(0, rate') = 0
  <2>1. rate' \in Nat
    BY GptAssumption
  <2> QED
    BY <2>1, NoTicks
<1>3. Unwrapped' = cur
  BY <1>1, <1>2 DEF Unwrapped
<1>4. cur < WRAP
  BY GptAssumption
<1>5. Wrapped(Unwrapped)' = cur
  <2>1. ~(cur >= WRAP)
    BY <1>4, GptAssumption
  <2> QED
    BY <1>3, <1>4, <2>1, Zenon DEF Wrapped
<1> QED
  BY <1>1, <1>5, Zenon DEF Current

(* Register writes, one by one, and the callback.                          *)
LEMMA TickInv == GptInv /\ Tick => GptInv' /\ Current' = Current
<1> SUFFICES ASSUME GptInv, Tick PROVE GptInv' /\ Current' = Current
  OBVIOUS
<1>1. GptTypeOK /\ DeadlineInTime
  BY DEF GptInv
<1>2. Wrapped(Unwrapped) \in 0..WRAP - 1
  BY <1>1, CurrentInRange
<1>3. Schedule(Wrapped(Unwrapped))
  BY DEF Tick
<1>4. RegsOK'
  <2>1. irqstatus' \in SUBSET GptBits
    <3>1. irqstatus \in SUBSET GptBits
      BY <1>1 DEF GptTypeOK
    <3>2. /\ (IF ce /\ base <= tmar /\ Unwrapped >= tmar THEN {"MAT"} ELSE {})
             \in SUBSET GptBits
          /\ (IF Unwrapped >= WRAP THEN {"OVF"} ELSE {}) \in SUBSET GptBits
      BY Zenon DEF GptBits
    <3> QED
      BY <3>1, <3>2, Zenon DEF Tick
  <2>2. st' \in BOOLEAN /\ line' \in BOOLEAN
    BY Zenon DEF Tick, UpdateIrq
  <2> QED
    BY <1>1, <2>1, <2>2, Zenon DEF Tick, RegsOK, GptTypeOK
<1>5. GptInv'
  BY <1>2, <1>3, <1>4, ScheduleInv
<1>6. Current' = Wrapped(Unwrapped)
  <2>1. rate' \in Rates
    BY <1>4 DEF RegsOK
  <2> QED
    BY <1>2, <1>3, <2>1, ScheduleKeeps
<1>7. st
  BY <1>1, Zenon DEF Tick, DeadlineInTime
<1> QED
  BY <1>5, <1>6, <1>7, Zenon DEF Current

LEMMA WriteTclrInv ==
    ASSUME NEW start \in BOOLEAN, NEW reload \in BOOLEAN, NEW compare \in BOOLEAN,
           NEW r \in Rates, GptInv, WriteTclr(start, reload, compare, r)
    PROVE  GptInv' /\ Current' = Current
<1>1. Current \in 0..WRAP - 1
  BY CurrentInRange DEF GptInv
<1>2. Schedule(Current)
  BY DEF WriteTclr
<1>3. RegsOK'
  BY Zenon DEF WriteTclr, RegsOK, GptInv, GptTypeOK
<1>4. rate' \in Rates
  BY <1>3 DEF RegsOK
<1> QED
  BY <1>1, <1>2, <1>3, <1>4, ScheduleInv, ScheduleKeeps

LEMMA WriteTmarInv ==
    ASSUME NEW val \in Values, GptInv, WriteTmar(val)
    PROVE  GptInv' /\ Current' = Current
<1>1. Current \in 0..WRAP - 1
  BY CurrentInRange DEF GptInv
<1>2. Schedule(Current)
  BY DEF WriteTmar
<1>3. RegsOK'
  <2>1. val \in 0..WRAP - 1
    BY GptAssumption
  <2> QED
    BY <2>1, Zenon DEF WriteTmar, RegsOK, GptInv, GptTypeOK
<1>4. rate' \in Rates
  BY <1>3 DEF RegsOK
<1> QED
  BY <1>1, <1>2, <1>3, <1>4, ScheduleInv, ScheduleKeeps

LEMMA WriteCounterInv ==
    ASSUME GptInv, WriteTtgr \/ \E val \in Values : WriteTcrr(val)
    PROVE  GptInv'
<1>1. CASE WriteTtgr
  <2>1. tldr \in 0..WRAP - 1 /\ Schedule(tldr)
    BY <1>1 DEF WriteTtgr, GptInv, GptTypeOK
  <2>2. RegsOK'
    BY <1>1, Zenon DEF WriteTtgr, RegsOK, GptInv, GptTypeOK
  <2> QED
    BY <2>1, <2>2, ScheduleInv
<1>2. ASSUME NEW val \in Values, WriteTcrr(val) PROVE GptInv'
  <2>1. val \in 0..WRAP - 1
    BY GptAssumption
  <2>2. Schedule(val)
    BY <1>2 DEF WriteTcrr
  <2>3. RegsOK'
    BY <1>2, Zenon DEF WriteTcrr, RegsOK, GptInv, GptTypeOK
  <2> QED
    BY <2>1, <2>2, <2>3, ScheduleInv
<1> QED
  BY <1>1, <1>2

(* The invariant speaks of the counter only through these.                 *)
LEMMA SameCounter ==
    ASSUME GptInv, RegsOK',
           UNCHANGED <<st, ce, rate, tmar, base, deadline>>, elapsed' \in Nat
    PROVE  GptInv'
<1>1. GptTypeOK'
  BY Zenon DEF GptInv, GptTypeOK, RegsOK
<1>2. DeadlineInTime'
  BY Zenon DEF GptInv, DeadlineInTime
<1> QED
  BY <1>1, <1>2 DEF GptInv

LEMMA QuietInv ==
    ASSUME GptInv,
           Elapse \/ (\E val \in Values : WriteTldr(val))
             \/ \E val \in IrqMasks : WriteStatus(val) \/ WriteEnable(val)
    PROVE  GptInv'
<1>1. GptTypeOK
  BY DEF GptInv
<1>2. CASE Elapse
  <2>1. elapsed' \in Nat
    BY <1>1, <1>2 DEF Elapse, GptTypeOK
  <2>2. RegsOK' /\ UNCHANGED <<st, ce, rate, tmar, base, deadline>>
    BY <1>1, <1>2, Zenon DEF Elapse, RegsOK, GptTypeOK
  <2> QED
    BY <2>1, <2>2, SameCounter
<1>3. ASSUME NEW val \in Values, WriteTldr(val) PROVE GptInv'
  <2>1. val \in 0..WRAP - 1
    BY GptAssumption
  <2>2. RegsOK' /\ UNCHANGED <<st, ce, rate, tmar, base, deadline>> /\ elapsed' \in Nat
    BY <1>1, <1>3, <2>1, Zenon DEF WriteTldr, RegsOK, GptTypeOK
  <2> QED
    BY <2>2, SameCounter
<1>4. ASSUME NEW val \in IrqMasks, WriteStatus(val) \/ WriteEnable(val) PROVE GptInv'
  <2>1. val \in SUBSET GptBits
    BY GptAssumption
  <2>2. irqstatus' \in SUBSET GptBits /\ irqenable' \in SUBSET GptBits
    <3>1. irqstatus \in SUBSET GptBits /\ irqenable \in SUBSET GptBits
      BY <1>1 DEF GptTypeOK
    <3> QED
      BY <1>4, <2>1, <3>1 DEF WriteStatus, WriteEnable
  <2>3. line' \in BOOLEAN
    BY <1>4, Zenon DEF WriteStatus, WriteEnable, UpdateIrq
  <2>4. /\ UNCHANGED <<st, ar, ce, rate, tldr, tmar, base, elapsed, deadline>>
    BY <1>4, Zenon DEF WriteStatus, WriteEnable
  <2>5. RegsOK' /\ elapsed' \in Nat
    BY <1>1, <2>2, <2>3, <2>4, Zenon DEF RegsOK, GptTypeOK
  <2> QED
    BY <2>4, <2>5, SameCounter
<1> QED
  BY <1>2, <1>3, <1>4

LEMMA GptResetInv == GptReset => GptInv'
<1> SUFFICES ASSUME GptReset PROVE GptInv'
  OBVIOUS
<1>1. GptTypeOK'
  BY FullRateIsRate, ZeroIsValue, Zenon DEF GptReset, GptTypeOK
<1>2. DeadlineInTime'
  BY Zenon DEF GptReset, DeadlineInTime
<1> QED
  BY <1>1, <1>2 DEF GptInv

LEMMA GptStepInv == GptInv /\ [GptNext]_gpt => GptInv'
<1> SUFFICES ASSUME GptInv, [GptNext]_gpt PROVE GptInv'
  OBVIOUS
<1>1. CASE Elapse
  BY <1>1, QuietInv
<1>2. CASE Tick
  BY <1>2, TickInv
<1>3. CASE Configure
  <2>1. ASSUME NEW start \in BOOLEAN, NEW reload \in BOOLEAN, NEW compare \in BOOLEAN,
               NEW r \in Rates, WriteTclr(start, reload, compare, r)
        PROVE  GptInv'
    BY <2>1, WriteTclrInv
  <2>2. ASSUME NEW val \in Values, WriteTmar(val) PROVE GptInv'
    BY <2>2, WriteTmarInv
  <2>3. ASSUME NEW val \in IrqMasks, WriteStatus(val) \/ WriteEnable(val) PROVE GptInv'
    BY <2>3, QuietInv
  <2> QED
    BY <1>3, <2>1, <2>2, <2>3, Zenon DEF Configure
<1>4. CASE WriteTtgr \/ \E val \in Values : WriteTcrr(val)
  BY <1>4, WriteCounterInv
<1>5. CASE \E val \in Values : WriteTldr(val)
  BY <1>5, QuietInv
<1>6. CASE GptReset
  BY <1>6, GptResetInv
<1>7. CASE UNCHANGED gpt
  BY <1>7, Zenon DEF gpt, GptInv, GptTypeOK, DeadlineInTime
<1> QED
  BY <1>1, <1>2, <1>3, <1>4, <1>5, <1>6, <1>7, Zenon DEF GptNext, GuestWrite
-----------------------------------------------------------------------------
(* Every reachable state has well-typed registers, the counter within its  *)
(* width, and the QEMU timer armed for the next event.                     *)
THEOREM GptCorrect == GptSpec => []GptInv
BY GptInitInv, GptStepInv, PTL DEF GptSpec

(* gpt_schedule's timer is armed for the next overflow or match in every   *)
(* reachable state, at most the one tick early that rounding costs and     *)
(* never late.                                                             *)
THEOREM DeadlineInTimeThm == GptSpec => []DeadlineInTime
<1>1. GptInv => DeadlineInTime
  BY DEF GptInv
<1> QED
  BY <1>1, GptCorrect, PTL

(* The callback and the writes to TCLR, TMAR and the interrupt registers   *)
(* leave the counter where the guest has just seen it.                     *)
THEOREM CounterContinuousThm == GptSpec => CounterContinuous
<1>1. GptInv /\ [GptNext]_gpt => [Tick \/ Configure => Current' = Current]_gpt
  <2> SUFFICES ASSUME GptInv, Tick \/ Configure PROVE Current' = Current
    OBVIOUS
  <2>1. CASE Tick
    BY <2>1, TickInv
  <2>2. ASSUME NEW start \in BOOLEAN, NEW reload \in BOOLEAN, NEW compare \in BOOLEAN,
               NEW r \in Rates, WriteTclr(start, reload, compare, r)
        PROVE  Current' = Current
    BY <2>2, WriteTclrInv
  <2>3. ASSUME NEW val \in Values, WriteTmar(val) PROVE Current' = Current
    BY <2>3, WriteTmarInv
  <2>4. ASSUME NEW val \in IrqMasks, WriteStatus(val) \/ WriteEnable(val)
        PROVE  Current' = Current
    <3>1. UNCHANGED <<st, ar, rate, tldr, base, elapsed>>
      BY <2>4, Zenon DEF WriteStatus, WriteEnable
    <3>2. Unwrapped' = Unwrapped
      BY <3>1 DEF Unwrapped
    <3>3. Wrapped(Unwrapped)' = Wrapped(Unwrapped)
      BY <3>1, <3>2, Zenon DEF Wrapped
    <3> QED
      BY <3>1, <3>3, Zenon DEF Current
  <2> QED
    BY <2>1, <2>2, <2>3, <2>4, Zenon DEF Configure
<1> QED
  BY <1>1, GptCorrect, PTL DEF GptSpec, CounterContinuous
=============================================================================
