-------------------------- MODULE TouchPathProofs --------------------------
(* The touch controller on its GPIO pin, for any queue, frame and command  *)
(* sizes, any minimum hold and any bank. The bank comes first, by itself,  *)
(* for any number of pins.                                                 *)
EXTENDS TouchPath, TLAPS

(* The inductive invariant of the bank.                                    *)
GpioInv == GpioTypeOK /\ LevelLatched /\ LineFollowsStatus

(* omap4_gpio_update_irq establishes both properties by itself.            *)
LEMMA UpdateIrqCorrect ==
    ASSUME NEW s0 \in SUBSET Pins, NEW s1 \in SUBSET Pins, UpdateIrq(s0, s1),
           datain' \in SUBSET Pins, oe' \in SUBSET Pins,
           dataout' \in SUBSET Pins, enable0' \in SUBSET Pins,
           enable1' \in SUBSET Pins, low' \in SUBSET Pins, high' \in SUBSET Pins
    PROVE  GpioInv'
  <1>1. Active' \in SUBSET Pins
    BY DEF Active, Input
  <1>2. status0' \in SUBSET Pins /\ status1' \in SUBSET Pins
    BY <1>1 DEF UpdateIrq
  <1>3. line' \in BOOLEAN /\ LineFollowsStatus'
    BY DEF UpdateIrq, LineFollowsStatus
  <1>4. LevelLatched'
    BY DEF UpdateIrq, LevelLatched
  <1> QED BY <1>2, <1>3, <1>4 DEF GpioInv, GpioTypeOK

LEMMA SetPinInv ==
    ASSUME GpioInv, NEW pin \in Pins, NEW level \in BOOLEAN, SetPin(pin, level)
    PROVE  GpioInv'
  <1>1. CASE datain' = datain
    BY <1>1 DEF SetPin, GpioInv, GpioTypeOK, LevelLatched, LineFollowsStatus,
                Active, Input
  <1>2. CASE datain' # datain
    <2>1. UpdateIrq(status0, status1)
      BY <1>2 DEF SetPin
    <2> QED BY <2>1, UpdateIrqCorrect DEF SetPin, GpioInv, GpioTypeOK
  <1> QED BY <1>1, <1>2

LEMMA GpioWriteInv ==
    ASSUME GpioInv, GpioWrite
    PROVE  GpioInv'
  <1> USE PinMasksAssumption DEF GpioInv, GpioTypeOK
  <1>1. ASSUME NEW val \in PinMasks, WriteStatus0(val) PROVE GpioInv'
    <2>1. PICK s0 \in {status0 \cup val, status0 \ val} : UpdateIrq(s0, status1)
      BY <1>1 DEF WriteStatus0
    <2>2. s0 \in SUBSET Pins
      OBVIOUS
    <2> HIDE DEF GpioInv
    <2>3. /\ datain' \in SUBSET Pins /\ oe' \in SUBSET Pins
          /\ dataout' \in SUBSET Pins /\ enable0' \in SUBSET Pins
          /\ enable1' \in SUBSET Pins /\ low' \in SUBSET Pins
          /\ high' \in SUBSET Pins /\ status1 \in SUBSET Pins
      BY <1>1 DEF WriteStatus0, GpioInv
    <2> QED BY <2>1, <2>2, <2>3, UpdateIrqCorrect
  <1>2. ASSUME NEW val \in PinMasks, WriteStatus1(val) PROVE GpioInv'
    BY <1>2 DEF WriteStatus1, LevelLatched, LineFollowsStatus, Active, Input
  <1>3. ASSUME NEW val \in PinMasks, WriteEnable0(val) PROVE GpioInv'
    BY <1>3, UpdateIrqCorrect DEF WriteEnable0
  <1>4. ASSUME NEW val \in PinMasks, WriteEnable1(val) PROVE GpioInv'
    <2>1. CASE /\ enable1' = enable1 \cup val
               /\ UNCHANGED <<datain, oe, dataout, enable0, low, high>>
               /\ UpdateIrq(status0, status1)
      BY <2>1, UpdateIrqCorrect
    <2>2. CASE /\ enable1' = enable1 \ val
               /\ UNCHANGED <<datain, oe, dataout, status0, status1, enable0,
                              low, high, line>>
      BY <2>2 DEF LevelLatched, LineFollowsStatus, Active, Input
    <2> QED BY <1>4, <2>1, <2>2 DEF WriteEnable1
  <1>5. ASSUME NEW val \in PinMasks, WriteDirection(val) PROVE GpioInv'
    BY <1>5, UpdateIrqCorrect DEF WriteDirection
  <1>6. ASSUME NEW val \in PinMasks, WriteDataout(val) PROVE GpioInv'
    BY <1>6, UpdateIrqCorrect DEF WriteDataout
  <1>7. ASSUME NEW val \in PinMasks, WriteLevelDetect(val) PROVE GpioInv'
    BY <1>7, UpdateIrqCorrect DEF WriteLevelDetect
  <1>8. ASSUME Recompute PROVE GpioInv'
    BY <1>8, UpdateIrqCorrect DEF Recompute
  <1> QED BY <1>1, <1>2, <1>3, <1>4, <1>5, <1>6, <1>7, <1>8 DEF GpioWrite

(* Resetting the bank, whatever the inputs are.                            *)
LEMMA GpioResetInv ==
    ASSUME NEW levels \in SUBSET Pins, GpioReset(levels)
    PROVE  GpioInv'
  BY DEF GpioReset, GpioInv, GpioTypeOK, LevelLatched, LineFollowsStatus

(* The bank never misses an enabled level and its line follows its         *)
(* registers, for any number of pins and any sequence of accesses.         *)
THEOREM GpioCorrect == GpioSpec => []GpioInv
  <1>1. (\E levels \in SUBSET Pins : GpioInit(levels)) => GpioInv
    BY DEF GpioInit, GpioInv, GpioTypeOK, LevelLatched, LineFollowsStatus
  <1>2. GpioInv /\ [GpioNext]_gpio => GpioInv'
    <2> SUFFICES ASSUME GpioInv, [GpioNext]_gpio PROVE GpioInv'
      OBVIOUS
    <2>1. CASE GpioWrite
      BY <2>1, GpioWriteInv
    <2>2. ASSUME NEW pin \in Pins, NEW level \in BOOLEAN, SetPin(pin, level)
          PROVE  GpioInv'
      BY <2>2, SetPinInv
    <2>3. CASE GpioReset(datain)
      BY <2>3, GpioResetInv DEF GpioInv, GpioTypeOK
    <2>4. CASE UNCHANGED gpio
      BY <2>4 DEF gpio, GpioInv, GpioTypeOK, LevelLatched, LineFollowsStatus,
                  Active, Input
    <2> QED BY <2>1, <2>2, <2>3, <2>4 DEF GpioNext
  <1> QED BY <1>1, <1>2, PTL DEF GpioSpec

(* LevelLatched on its own.                                                *)
THEOREM LevelLatchedThm == GpioSpec => []LevelLatched
  <1>1. GpioInv => LevelLatched
    BY DEF GpioInv
  <1> QED BY GpioCorrect, <1>1, PTL

-----------------------------------------------------------------------------
(* The path.                                                               *)

(* Why the command buffer never fills: a command is kept only while it is  *)
(* incomplete, and its declared length is that of a chunk the guest sent.  *)
CommandBound ==
    inner.len < 2 \/ \E c \in Chunks : inner.decl = c.decl /\ inner.len < c.decl + 2

(* The wire: the pin is an input at the level of INT.                      *)
PinWired ==
    /\ oe = Pins
    /\ dataout = {}
    /\ PIN \in datain <=> int

(* Why the stream survives a release: a release is held back only while    *)
(* the finger is up.                                                       *)
HeldBack == pending => ~pressed

EgalaxInv == EgalaxTypeOK /\ IntFollowsQueue /\ StreamAlive /\ HeldBack /\ CommandBound

(* The inductive invariant of the path.                                    *)
PathInv == EgalaxInv /\ GpioInv /\ PinWired

(* egalax_queue_frame leaves a frame in the queue and INT low.             *)
LEMMA QueueFramesCorrect ==
    ASSUME EgalaxTypeOK, IntFollowsQueue, NEW fs \in Seq(Frames), fs # <<>>, QueueFrames(fs)
    PROVE  q' \in Seq(Frames) /\ Len(q') <= QUEUE /\ q' # <<>> /\ int' = FALSE
  <1> USE EgalaxAssumption
  <1>1. q \in Seq(Frames) /\ Len(q) \in Nat /\ Len(q) <= QUEUE
    BY DEF EgalaxTypeOK
  <1>2. q \o fs \in Seq(Frames) /\ Len(q \o fs) = Len(q) + Len(fs) /\ Len(fs) >= 1
    BY <1>1
  <1>3. int' = FALSE
    <2>1. CASE Len(q) < QUEUE
      BY <2>1 DEF QueueFrames
    <2>2. CASE ~(Len(q) < QUEUE)
      <3>1. q # <<>>
        BY <1>1, <2>2
      <3> QED BY <2>2, <3>1 DEF QueueFrames, IntFollowsQueue, EgalaxTypeOK
    <2> QED BY <2>1, <2>2
  <1>4. CASE Len(q \o fs) <= QUEUE
    BY <1>1, <1>2, <1>3, <1>4 DEF QueueFrames
  <1>5. CASE ~(Len(q \o fs) <= QUEUE)
    <2>1. q' = SubSeq(q \o fs, 1, QUEUE)
      BY <1>5 DEF QueueFrames
    <2>2. q' \in Seq(Frames) /\ Len(q') = QUEUE
      BY <1>1, <1>2, <1>5, <2>1
    <2> QED BY <1>3, <2>2
  <1> QED BY <1>3, <1>4, <1>5

(* egalax_recv's dequeue keeps INT with the queue.                         *)
LEMMA DropHeadCorrect ==
    ASSUME EgalaxTypeOK, q # <<>>, DropHead
    PROVE  /\ q' \in Seq(Frames) /\ Len(q') <= QUEUE
           /\ int' \in BOOLEAN /\ IntFollowsQueue'
           /\ Head(q) \in Frames
  <1>1. q \in Seq(Frames) /\ Len(q) <= QUEUE
    BY DEF EgalaxTypeOK
  <1>2. q' = Tail(q)
    BY DEF DropHead
  <1>3. q' \in Seq(Frames) /\ Len(q') <= QUEUE /\ Head(q) \in Frames
    BY <1>1, <1>2, EgalaxAssumption
  <1>4. int' \in BOOLEAN /\ IntFollowsQueue'
    BY Zenon DEF DropHead, IntFollowsQueue
  <1> QED BY <1>3, <1>4

(* egalax_release.                                                         *)
LEMMA ReleaseCorrect ==
    ASSUME EgalaxTypeOK, IntFollowsQueue, Release
    PROVE  /\ q' \in Seq(Frames) /\ Len(q') <= QUEUE /\ q' # <<>> /\ int' = FALSE
           /\ pending' = FALSE /\ repeat' = FALSE /\ lost' \in SUBSET Losses
  <1>1. <<"up">> \in Seq(Frames) /\ <<"up">> # <<>>
    BY DEF Frames
  <1>2. q' \in Seq(Frames) /\ Len(q') <= QUEUE /\ q' # <<>> /\ int' = FALSE
    BY <1>1, QueueFramesCorrect DEF Release
  <1>3. lost' \in SUBSET Losses
    BY DEF Release, EgalaxTypeOK, Losses
  <1> QED BY <1>2, <1>3 DEF Release

(* The queue part of a step that queues down reports.                      *)
LEMMA QueueDownCorrect ==
    ASSUME EgalaxTypeOK, IntFollowsQueue, QueueFrames(<<"down">>)
    PROVE  q' \in Seq(Frames) /\ Len(q') <= QUEUE /\ q' # <<>> /\ int' = FALSE
  <1>1. <<"down">> \in Seq(Frames) /\ <<"down">> # <<>>
    BY DEF Frames
  <1> QED BY <1>1, QueueFramesCorrect
-----------------------------------------------------------------------------
(* The I2C side.                                                           *)
LEMMA SendChunkInv ==
    ASSUME EgalaxInv, NEW c \in Chunks, SendChunk(c) PROVE EgalaxInv'
  BY DEF SendChunk, EgalaxInv, EgalaxTypeOK, IntFollowsQueue, StreamAlive, HeldBack, CommandBound

LEMMA ReadFrameInv ==
    ASSUME EgalaxInv, NEW n \in Nat, ReadFrame(n) PROVE EgalaxInv'
  <1> USE EgalaxAssumption
  <1>1. tx_pos' \in 0..FRAME
    BY DEF ReadFrame
  <1>2. UNCHANGED <<rx, inner, pressed, pending, repeat, held, lost>>
    BY DEF ReadFrame
  <1>3. StreamAlive' /\ HeldBack' /\ CommandBound'
    BY <1>2 DEF EgalaxInv, StreamAlive, HeldBack, CommandBound
  <1>4. /\ q' \in Seq(Frames) /\ Len(q') <= QUEUE
        /\ int' \in BOOLEAN /\ IntFollowsQueue' /\ contact' \in {"up", "down"}
    <2>1. CASE n >= FRAME /\ q # <<>>
      <3>1. DropHead /\ contact' = IF Head(q) = "reply" THEN contact ELSE Head(q)
        BY <2>1 DEF ReadFrame
      <3>2. /\ q' \in Seq(Frames) /\ Len(q') <= QUEUE
            /\ int' \in BOOLEAN /\ IntFollowsQueue' /\ Head(q) \in Frames
        BY <2>1, <3>1, DropHeadCorrect DEF EgalaxInv
      <3>3. contact' \in {"up", "down"}
        BY <3>1, <3>2 DEF Frames, EgalaxInv, EgalaxTypeOK
      <3> QED BY <3>2, <3>3
    <2>2. CASE ~(n >= FRAME /\ q # <<>>)
      BY <2>2 DEF ReadFrame, EgalaxInv, EgalaxTypeOK, IntFollowsQueue
    <2> QED BY <2>1, <2>2
  <1> QED BY <1>1, <1>2, <1>3, <1>4 DEF EgalaxInv, EgalaxTypeOK

LEMMA FinishReadInv ==
    ASSUME EgalaxInv, FinishRead PROVE EgalaxInv'
  <1> USE EgalaxAssumption
  <1>1. tx_pos' \in 0..FRAME
    BY DEF FinishRead
  <1>2. UNCHANGED <<rx, inner, pressed, pending, repeat, held, contact>>
    BY DEF FinishRead
  <1>3. StreamAlive' /\ HeldBack' /\ CommandBound'
    BY <1>2 DEF EgalaxInv, StreamAlive, HeldBack, CommandBound
  <1>4. /\ q' \in Seq(Frames) /\ Len(q') <= QUEUE
        /\ int' \in BOOLEAN /\ IntFollowsQueue' /\ lost' \in SUBSET Losses
    <2>1. CASE tx_pos < FRAME /\ q # <<>>
      <3>1. DropHead /\ lost' = lost \cup {"frame"}
        BY <2>1 DEF FinishRead
      <3> QED BY <2>1, <3>1, DropHeadCorrect DEF EgalaxInv, EgalaxTypeOK, Losses
    <2>2. CASE ~(tx_pos < FRAME /\ q # <<>>)
      BY <2>2 DEF FinishRead, EgalaxInv, EgalaxTypeOK, IntFollowsQueue
    <2> QED BY <2>1, <2>2
  <1> QED BY <1>1, <1>2, <1>3, <1>4 DEF EgalaxInv, EgalaxTypeOK

(* What assembling a chunk makes of the buffer.                            *)
LEMMA AssembledCorrect ==
    ASSUME EgalaxTypeOK, CommandBound, NEW c \in Chunks
    PROVE  /\ Assembled(c) \in [len : 0..INNER, decl : Nat, twice : BOOLEAN]
           /\ Assembled(c).len >= 2 => \E d \in Chunks : Assembled(c).decl = d.decl
  <1> USE EgalaxAssumption
  <1>1. /\ c \in ChunkType /\ c.n \in Nat /\ c.decl \in Nat /\ c.twice \in BOOLEAN
    BY DEF ChunkType
  <1>2. /\ inner \in [len : 0..INNER, decl : Nat, twice : BOOLEAN]
        /\ inner.len \in 0..INNER /\ inner.decl \in Nat /\ inner.twice \in BOOLEAN
    BY DEF EgalaxTypeOK
  <1> DEFINE room == inner.len + c.n <= INNER
             len == IF room THEN inner.len + c.n ELSE inner.len
             decl == IF room /\ inner.len < 2 /\ len >= 2 THEN c.decl ELSE inner.decl
             twice == IF room /\ inner.len < 3 /\ len >= 3 THEN c.twice ELSE inner.twice
  <1>3. Assembled(c) = [len |-> len, decl |-> decl, twice |-> twice]
    BY Zenon DEF Assembled
  <1>4. len \in 0..INNER /\ decl \in Nat
    BY <1>1, <1>2
  <1>5. twice \in BOOLEAN
    BY <1>1, <1>2, Zenon
  <1>6. len >= 2 => \E d \in Chunks : decl = d.decl
    <2>1. CASE inner.len < 2
      BY <1>2, <2>1
    <2>2. CASE ~(inner.len < 2)
      BY <1>2, <2>2 DEF CommandBound
    <2> QED BY <2>1, <2>2
  <1> HIDE DEF len, decl, twice
  <1> QED BY <1>3, <1>4, <1>5, <1>6

LEMMA FinishWriteInv ==
    ASSUME EgalaxInv, FinishWrite PROVE EgalaxInv'
  <1> USE EgalaxAssumption
  <1>1. rx \in Chunks
    BY DEF FinishWrite, EgalaxInv, EgalaxTypeOK
  <1>2. /\ rx' = NoChunk /\ tx_pos' = 0
        /\ UNCHANGED <<pressed, pending, repeat, held, contact, lost>>
    BY DEF FinishWrite
  <1>3. StreamAlive' /\ HeldBack'
    BY <1>2 DEF EgalaxInv, StreamAlive, HeldBack
  <1>4. /\ Assembled(rx) \in [len : 0..INNER, decl : Nat, twice : BOOLEAN]
        /\ Assembled(rx).len >= 2 => \E d \in Chunks : Assembled(rx).decl = d.decl
    BY <1>1, AssembledCorrect DEF EgalaxInv
  <1>5. NoCommand \in [len : 0..INNER, decl : Nat, twice : BOOLEAN] /\ NoCommand.len < 2
    BY DEF NoCommand
  <1>6. /\ inner' \in [len : 0..INNER, decl : Nat, twice : BOOLEAN]
        /\ CommandBound'
        /\ q' \in Seq(Frames) /\ Len(q') <= QUEUE
        /\ int' \in BOOLEAN /\ IntFollowsQueue'
    <2>1. CASE Complete(Assembled(rx)) /\ inner' = NoCommand /\ QueueFrames(Replies(Assembled(rx)))
      <3>1. Replies(Assembled(rx)) \in Seq(Frames) /\ Replies(Assembled(rx)) # <<>>
        <4>1. <<"reply">> \in Seq(Frames) /\ <<"reply", "reply">> \in Seq(Frames)
          BY DEF Frames
        <4>2. <<"reply">> # <<>> /\ <<"reply", "reply">> # <<>>
          OBVIOUS
        <4> QED BY <4>1, <4>2, Zenon DEF Replies
      <3>2. q' \in Seq(Frames) /\ Len(q') <= QUEUE /\ q' # <<>> /\ int' = FALSE
        BY <2>1, <3>1, QueueFramesCorrect DEF EgalaxInv
      <3>3. int' \in BOOLEAN /\ IntFollowsQueue'
        BY <3>2, Zenon DEF IntFollowsQueue
      <3> QED BY <1>5, <2>1, <3>2, <3>3 DEF CommandBound
    <2>2. CASE ~Complete(Assembled(rx)) /\ inner' = Assembled(rx) /\ UNCHANGED <<q, int>>
      <3>1. CommandBound'
        BY <1>4, <2>2 DEF Complete, CommandBound
      <3> QED BY <1>4, <2>2, <3>1 DEF EgalaxInv, EgalaxTypeOK, IntFollowsQueue
    <2>3. CASE inner' = NoCommand /\ UNCHANGED <<q, int>>
      BY <1>5, <2>3 DEF CommandBound, EgalaxInv, EgalaxTypeOK, IntFollowsQueue
    <2> QED BY <2>1, <2>2, <2>3 DEF FinishWrite
  <1> QED BY <1>2, <1>3, <1>6 DEF EgalaxInv, EgalaxTypeOK
-----------------------------------------------------------------------------
(* The user's side and the timer.                                          *)
LEMMA PressInv ==
    ASSUME EgalaxInv, Press PROVE EgalaxInv'
  <1> USE EgalaxAssumption
  <1>1. q' \in Seq(Frames) /\ Len(q') <= QUEUE /\ q' # <<>> /\ int' = FALSE
    BY QueueDownCorrect DEF Press, EgalaxInv
  <1>2. int' \in BOOLEAN /\ IntFollowsQueue'
    BY <1>1, Zenon DEF IntFollowsQueue
  <1>3. /\ pressed' \in BOOLEAN /\ pending' \in BOOLEAN /\ repeat' \in BOOLEAN
        /\ StreamAlive' /\ HeldBack'
    BY Zenon DEF Press, StreamAlive, HeldBack
  <1>4. held' = 0 /\ lost' = {} /\ UNCHANGED <<rx, inner, tx_pos, contact>>
    BY DEF Press
  <1>5. CommandBound'
    BY <1>4 DEF CommandBound, EgalaxInv
  <1> QED BY <1>1, <1>2, <1>3, <1>4, <1>5 DEF EgalaxInv, EgalaxTypeOK

LEMMA LiftInv ==
    ASSUME EgalaxInv, Lift PROVE EgalaxInv'
  <1>1. UNCHANGED <<rx, inner, tx_pos, held, contact>> /\ pressed' = FALSE
    BY DEF Lift
  <1>2. CommandBound'
    BY <1>1 DEF CommandBound, EgalaxInv
  <1>3. CASE held >= HOLD
    <2>1. Release
      BY <1>3 DEF Lift
    <2>2. /\ q' \in Seq(Frames) /\ Len(q') <= QUEUE /\ q' # <<>> /\ int' = FALSE
          /\ pending' = FALSE /\ repeat' = FALSE /\ lost' \in SUBSET Losses
      BY <2>1, ReleaseCorrect DEF EgalaxInv
    <2>3. /\ int' \in BOOLEAN /\ IntFollowsQueue' /\ StreamAlive' /\ HeldBack'
          /\ pressed' \in BOOLEAN /\ pending' \in BOOLEAN /\ repeat' \in BOOLEAN
      BY <1>1, <2>2, Zenon DEF IntFollowsQueue, StreamAlive, HeldBack
    <2> QED BY <1>1, <1>2, <2>2, <2>3 DEF EgalaxInv, EgalaxTypeOK
  <1>4. CASE ~(held >= HOLD)
    <2>1. pending' = TRUE /\ UNCHANGED <<q, int, repeat, lost>> /\ pressed
      BY <1>4 DEF Lift
    <2>2. /\ StreamAlive' /\ HeldBack' /\ IntFollowsQueue'
          /\ pressed' \in BOOLEAN /\ pending' \in BOOLEAN
      BY <1>1, <2>1, Zenon DEF StreamAlive, HeldBack, IntFollowsQueue, EgalaxInv
    <2> QED BY <1>1, <1>2, <2>1, <2>2 DEF EgalaxInv, EgalaxTypeOK
  <1> QED BY <1>3, <1>4

LEMMA MoveInv ==
    ASSUME EgalaxInv, Move PROVE EgalaxInv'
  <1>1. q' \in Seq(Frames) /\ Len(q') <= QUEUE /\ q' # <<>> /\ int' = FALSE
    BY QueueDownCorrect DEF Move, EgalaxInv
  <1>2. int' \in BOOLEAN /\ IntFollowsQueue'
    BY <1>1, Zenon DEF IntFollowsQueue
  <1>3. UNCHANGED <<rx, inner, tx_pos, pressed, pending, repeat, held, contact, lost>>
    BY DEF Move
  <1>4. StreamAlive' /\ HeldBack' /\ CommandBound'
    BY <1>3 DEF StreamAlive, HeldBack, CommandBound, EgalaxInv
  <1> QED BY <1>1, <1>2, <1>3, <1>4 DEF EgalaxInv, EgalaxTypeOK

LEMMA RepeatFiresInv ==
    ASSUME EgalaxInv, RepeatFires PROVE EgalaxInv'
  <1>1. UNCHANGED <<rx, inner, tx_pos, pressed, held, contact>> /\ repeat
    BY DEF RepeatFires
  <1>2. CommandBound'
    BY <1>1 DEF CommandBound, EgalaxInv
  <1>3. CASE pending /\ held >= HOLD /\ Release
    <2>1. /\ q' \in Seq(Frames) /\ Len(q') <= QUEUE /\ q' # <<>> /\ int' = FALSE
          /\ pending' = FALSE /\ repeat' = FALSE /\ lost' \in SUBSET Losses
      BY <1>3, ReleaseCorrect DEF EgalaxInv
    <2>2. /\ int' \in BOOLEAN /\ IntFollowsQueue'
          /\ pending' \in BOOLEAN /\ repeat' \in BOOLEAN
      BY <2>1, Zenon DEF IntFollowsQueue
    <2> QED BY <1>1, <1>2, <1>3, <2>1, <2>2 DEF EgalaxInv, EgalaxTypeOK, StreamAlive, HeldBack
  <1>4. CASE /\ ~pressed /\ ~pending /\ repeat' = FALSE
             /\ UNCHANGED <<q, int, pending, lost>>
    BY <1>1, <1>2, <1>4 DEF EgalaxInv, EgalaxTypeOK, IntFollowsQueue, StreamAlive, HeldBack
  <1>5. CASE /\ pressed \/ pending
             /\ IF q = <<>> THEN QueueFrames(<<"down">>) ELSE UNCHANGED <<q, int>>
             /\ UNCHANGED <<repeat, pending, lost>>
    <2>1. q' \in Seq(Frames) /\ Len(q') <= QUEUE /\ int' \in BOOLEAN /\ IntFollowsQueue'
      <3>1. CASE q = <<>>
        BY <1>5, <3>1, QueueDownCorrect DEF EgalaxInv, IntFollowsQueue
      <3>2. CASE q # <<>>
        BY <1>5, <3>2 DEF EgalaxInv, EgalaxTypeOK, IntFollowsQueue
      <3> QED BY <3>1, <3>2
    <2> QED BY <1>1, <1>2, <1>5, <2>1 DEF EgalaxInv, EgalaxTypeOK, StreamAlive, HeldBack
  <1> QED BY <1>3, <1>4, <1>5 DEF RepeatFires

LEMMA TickInv ==
    ASSUME EgalaxInv, Tick PROVE EgalaxInv'
  BY EgalaxAssumption DEF Tick, EgalaxInv, EgalaxTypeOK, IntFollowsQueue, StreamAlive,
                          HeldBack, CommandBound

LEMMA EgalaxResetInv ==
    ASSUME EgalaxInv, EgalaxReset PROVE EgalaxInv'
  <1> USE EgalaxAssumption
  <1>1. /\ q' = <<>> /\ rx' = NoChunk /\ inner' = NoCommand /\ tx_pos' = 0
        /\ contact' = "up" /\ lost' = {} /\ held' = held
    BY DEF EgalaxReset
  <1>2. /\ int' \in BOOLEAN /\ pressed' \in BOOLEAN /\ pending' \in BOOLEAN
        /\ repeat' \in BOOLEAN /\ IntFollowsQueue' /\ StreamAlive' /\ HeldBack'
    BY Zenon DEF EgalaxReset, IntFollowsQueue, StreamAlive, HeldBack
  <1>3. NoCommand \in [len : 0..INNER, decl : Nat, twice : BOOLEAN] /\ NoCommand.len < 2
    BY DEF NoCommand
  <1>4. CommandBound'
    BY <1>1, <1>3 DEF CommandBound
  <1> QED BY <1>1, <1>2, <1>3, <1>4 DEF EgalaxInv, EgalaxTypeOK
-----------------------------------------------------------------------------
(* The wire carries every new level of INT to the pin.                     *)
LEMMA WireInv ==
    ASSUME GpioInv, PinWired, EgalaxInv', Wire
    PROVE  GpioInv' /\ PinWired'
  <1>1. int' \in BOOLEAN
    BY DEF EgalaxInv, EgalaxTypeOK
  <1>2. GpioInv'
    BY <1>1, PinAssumption, SetPinInv DEF Wire
  <1>3. PinWired'
    BY <1>1 DEF Wire, SetPin, PinWired
  <1> QED BY <1>2, <1>3

LEMMA BankWriteInv ==
    ASSUME GpioInv, PinWired, EgalaxInv, BankWrite
    PROVE  PathInv'
  <1>1. GpioInv'
    BY GpioWriteInv DEF BankWrite, GpioWrite
  <1>2. UNCHANGED <<datain, oe, dataout, int>>
    BY DEF BankWrite, WriteStatus0, WriteEnable0, WriteLevelDetect, touch
  <1>3. PinWired'
    BY <1>2 DEF PinWired
  <1>4. EgalaxInv'
    BY DEF BankWrite, touch, EgalaxInv, EgalaxTypeOK, IntFollowsQueue, StreamAlive,
           HeldBack, CommandBound
  <1> QED BY <1>1, <1>3, <1>4 DEF PathInv

(* The invariant of the path holds in every state, for any sizes.          *)
THEOREM PathCorrect == PathSpec => []PathInv
  <1>1. PathInit => PathInv
    <2> SUFFICES ASSUME PathInit PROVE PathInv
      OBVIOUS
    <2> USE EgalaxAssumption, PinAssumption DEF PathInit, EgalaxInit, GpioInit
    <2>1. /\ int \in BOOLEAN /\ pressed \in BOOLEAN /\ pending \in BOOLEAN
          /\ repeat \in BOOLEAN /\ IntFollowsQueue /\ StreamAlive /\ HeldBack
      BY Zenon DEF IntFollowsQueue, StreamAlive, HeldBack
    <2>2. NoCommand \in [len : 0..INNER, decl : Nat, twice : BOOLEAN] /\ NoCommand.len < 2
      BY DEF NoCommand
    <2>3. EgalaxInv
      BY <2>1, <2>2 DEF EgalaxInv, EgalaxTypeOK, CommandBound
    <2>4. GpioInv
      BY DEF GpioInv, GpioTypeOK, LevelLatched, LineFollowsStatus
    <2>5. PinWired
      BY DEF PinWired
    <2> QED BY <2>3, <2>4, <2>5 DEF PathInv
  <1>2. PathInv /\ [PathNext]_path => PathInv'
    <2> SUFFICES ASSUME PathInv, [PathNext]_path PROVE PathInv'
      OBVIOUS
    <2>1. EgalaxInv /\ GpioInv /\ PinWired
      BY DEF PathInv
    <2>2. CASE Access
      <3>1. EgalaxInv'
        BY <2>1, <2>2, EgalaxAssumption, SendChunkInv, ReadFrameInv, PressInv, LiftInv, MoveInv
           DEF Access
      <3> QED BY <2>1, <2>2, <3>1, WireInv DEF Access, PathInv
    <2>3. CASE StopWrite
      BY <2>1, <2>3, FinishWriteInv, WireInv DEF StopWrite, PathInv
    <2>4. CASE StopRead
      BY <2>1, <2>4, FinishReadInv, WireInv DEF StopRead, PathInv
    <2>5. CASE Repeat
      BY <2>1, <2>5, RepeatFiresInv, WireInv DEF Repeat, PathInv
    <2>6. CASE Elapse
      BY <2>1, <2>6, TickInv, WireInv DEF Elapse, PathInv
    <2>7. CASE PenData
      <3>1. EgalaxInv'
        BY <2>1, <2>7, EgalaxAssumption, ReadFrameInv DEF PenData
      <3> QED BY <2>1, <2>7, <3>1, WireInv DEF PenData, PathInv
    <2>8. CASE BankWrite
      BY <2>1, <2>8, BankWriteInv
    <2>9. CASE PathReset
      <3>1. EgalaxInv'
        BY <2>1, <2>9, EgalaxResetInv DEF PathReset
      <3>2. GpioInv'
        BY <2>9, PinAssumption, GpioResetInv DEF PathReset
      <3>3. PinWired'
        BY <2>9 DEF PathReset, EgalaxReset, GpioReset, PinWired
      <3> QED BY <3>1, <3>2, <3>3 DEF PathInv
    <2>10. CASE UNCHANGED path
      BY <2>1, <2>10 DEF path, touch, gpio, PathInv, EgalaxInv, EgalaxTypeOK, IntFollowsQueue,
         StreamAlive, HeldBack, CommandBound, GpioInv, GpioTypeOK, LevelLatched, LineFollowsStatus,
         Active, Input, PinWired
    <2> QED BY <2>2, <2>3, <2>4, <2>5, <2>6, <2>7, <2>8, <2>9, <2>10 DEF PathNext
  <1> QED BY <1>1, <1>2, PTL DEF PathSpec

(* INT is low exactly while a frame is queued.                             *)
THEOREM IntFollowsQueueThm == PathSpec => []IntFollowsQueue
  <1>1. PathInv => IntFollowsQueue
    BY DEF PathInv, EgalaxInv
  <1> QED BY PathCorrect, <1>1, PTL

(* The repeat timer is armed through every order of presses, early lifts   *)
(* and expiries while a contact is down or its release held back.          *)
THEOREM StreamAliveThm == PathSpec => []StreamAlive
  <1>1. PathInv => StreamAlive
    BY DEF PathInv, EgalaxInv
  <1> QED BY PathCorrect, <1>1, PTL

(* Every chunk of a guest that keeps to CommandsFit finds room.            *)
THEOREM ChunkFitsThm == PathSpec => []ChunkFits
  <1>1. PathInv => ChunkFits
    <2> SUFFICES ASSUME PathInv PROVE inner.len + CHUNK <= INNER
      BY DEF ChunkFits
    <2> USE EgalaxAssumption
    <2>1. inner.len \in Nat /\ CommandBound
      BY DEF PathInv, EgalaxInv, EgalaxTypeOK
    <2>2. \A c \in Chunks : c.decl \in Nat /\ c.decl + 1 + CHUNK <= INNER
      BY CommandsFit DEF ChunkType
    <2>3. CASE inner.len < 2
      <3>1. PICK c \in Chunks : TRUE
        OBVIOUS
      <3> QED BY <2>1, <2>2, <2>3, <3>1
    <2>4. CASE ~(inner.len < 2)
      <3>1. PICK c \in Chunks : inner.len < c.decl + 2
        BY <2>1, <2>4 DEF CommandBound
      <3> QED BY <2>1, <2>2, <3>1
    <2> QED BY <2>3, <2>4
  <1> QED BY PathCorrect, <1>1, PTL

(* A waiting frame interrupts the guest that armed the low level of the    *)
(* pin, in every interleaving of controller and bank.                      *)
THEOREM FrameInterruptsThm == PathSpec => []FrameInterrupts
  <1>1. PathInv => FrameInterrupts
    <2> SUFFICES ASSUME PathInv, q # <<>>, PIN \in low \cap enable0 PROVE line
      BY DEF FrameInterrupts
    <2>1. PIN \notin datain
      BY DEF PathInv, EgalaxInv, IntFollowsQueue, PinWired
    <2>2. PIN \in Active
      BY <2>1 DEF Active, Input, PathInv, PinWired
    <2>3. PIN \in status0
      BY <2>2 DEF PathInv, GpioInv, LevelLatched
    <2> QED BY <2>3 DEF PathInv, GpioInv, LineFollowsStatus
  <1> QED BY PathCorrect, <1>1, PTL
-----------------------------------------------------------------------------
(* The touch stream.  egalax_queue_frame only ever adds at its end.        *)
LEMMA QueueFramesShape ==
    ASSUME EgalaxTypeOK, NEW fs \in Seq(Frames), QueueFrames(fs)
    PROVE  /\ Len(q') \in Nat /\ Len(q) \in Nat
           /\ Len(q) <= Len(q') /\ Len(q') <= Len(q) + Len(fs)
           /\ Len(q) < QUEUE /\ fs # <<>> => Len(q') > Len(q)
           /\ \A i \in 1..Len(q) : q'[i] = q[i]
           /\ \A i \in Len(q) + 1..Len(q') : q'[i] = fs[i - Len(q)]
  <1> USE EgalaxAssumption
  <1> DEFINE all == q \o fs
  <1>1. q \in Seq(Frames) /\ Len(q) \in Nat /\ Len(q) <= QUEUE
    BY DEF EgalaxTypeOK
  <1>2. /\ all \in Seq(Frames) /\ Len(all) = Len(q) + Len(fs)
        /\ \A i \in 1..Len(q) : all[i] = q[i]
        /\ \A i \in Len(q) + 1..Len(q) + Len(fs) : all[i] = fs[i - Len(q)]
    BY <1>1
  <1>3. q' = IF Len(all) <= QUEUE THEN all ELSE SubSeq(all, 1, QUEUE)
    BY DEF QueueFrames
  <1> HIDE DEF all
  <1>4. CASE Len(all) <= QUEUE
    <2>1. fs # <<>> => Len(fs) > 0
      OBVIOUS
    <2> QED BY <1>1, <1>2, <1>3, <1>4, <2>1
  <1>5. CASE ~(Len(all) <= QUEUE)
    <2>1. /\ Len(q') = QUEUE
          /\ \A i \in 1..QUEUE : q'[i] = all[i]
      BY <1>1, <1>2, <1>3, <1>5
    <2> QED BY <1>1, <1>2, <1>5, <2>1
  <1> QED BY <1>4, <1>5

(* The stream after a step that only adds reports that are not "down".     *)
LEMMA StreamGrows ==
    ASSUME EgalaxTypeOK, NEW fs \in Seq(Frames), QueueFrames(fs),
           \A i \in 1..Len(fs) : fs[i] # "down",
           contact' = contact,
           \E i \in 0..Len(q) : Report(i) = "up" /\ \A j \in i + 1..Len(q) : Report(j) # "down"
    PROVE  \E i \in 0..Len(q') : Report(i)' = "up" /\ \A j \in i + 1..Len(q') : Report(j)' # "down"
  <1>1. PICK i \in 0..Len(q) :
           Report(i) = "up" /\ \A j \in i + 1..Len(q) : Report(j) # "down"
    OBVIOUS
  <1>2. /\ Len(q') \in Nat /\ Len(q) \in Nat
        /\ Len(q) <= Len(q') /\ Len(q') <= Len(q) + Len(fs)
        /\ \A k \in 1..Len(q) : q'[k] = q[k]
        /\ \A k \in Len(q) + 1..Len(q') : q'[k] = fs[k - Len(q)]
    BY QueueFramesShape
  <1>3. Len(fs) \in Nat
    OBVIOUS
  <1>4. i \in 0..Len(q') /\ Report(i)' = "up"
    BY <1>1, <1>2 DEF Report
  <1>5. ASSUME NEW j \in i + 1..Len(q') PROVE Report(j)' # "down"
    <2>1. CASE j <= Len(q)
      BY <1>1, <1>2, <2>1 DEF Report
    <2>2. CASE ~(j <= Len(q))
      <3>1. j \in Len(q) + 1..Len(q') /\ j - Len(q) \in 1..Len(fs)
        BY <1>2, <1>3, <2>2
      <3> QED BY <1>2, <3>1 DEF Report
    <2> QED BY <2>1, <2>2
  <1> QED BY <1>4, <1>5

(* The release puts "up" at the end of the stream, or counts it as lost.   *)
LEMMA ReleaseSettles ==
    ASSUME EgalaxTypeOK, Release, lost' = {}
    PROVE  \E i \in 0..Len(q') : Report(i)' = "up" /\ \A j \in i + 1..Len(q') : Report(j)' # "down"
  <1> USE EgalaxAssumption
  <1>1. Len(q) < QUEUE /\ QueueFrames(<<"up">>)
    BY DEF Release
  <1>2. <<"up">> \in Seq(Frames) /\ <<"up">> # <<>> /\ Len(<<"up">>) = 1 /\ <<"up">>[1] = "up"
    BY DEF Frames
  <1>3. /\ Len(q') \in Nat /\ Len(q) \in Nat
        /\ Len(q) <= Len(q') /\ Len(q') <= Len(q) + Len(<<"up">>)
        /\ Len(q) < QUEUE /\ <<"up">> # <<>> => Len(q') > Len(q)
        /\ \A k \in Len(q) + 1..Len(q') : q'[k] = <<"up">>[k - Len(q)]
    BY <1>1, <1>2, QueueFramesShape, Zenon
  <1>4. PICK n \in Nat : n = Len(q')
    BY <1>3
  <1>5. Len(q) = n - 1 /\ n >= 1
    BY <1>1, <1>2, <1>3, <1>4
  <1>6. q'[n] = "up"
    BY <1>2, <1>3, <1>4, <1>5
  <1>7. n \in 0..Len(q') /\ Report(n)' = "up"
    BY <1>4, <1>5, <1>6 DEF Report
  <1>8. \A j \in n + 1..Len(q') : Report(j)' # "down"
    BY <1>4
  <1> QED BY <1>7, <1>8

(* A frame that is read moves the stream's start by one.                   *)
LEMMA ReadKeepsStream ==
    ASSUME EgalaxTypeOK, q # <<>>, DropHead,
           contact' = IF Head(q) = "reply" THEN contact ELSE Head(q),
           \E i \in 0..Len(q) : Report(i) = "up" /\ \A j \in i + 1..Len(q) : Report(j) # "down"
    PROVE  \E i \in 0..Len(q') : Report(i)' = "up" /\ \A j \in i + 1..Len(q') : Report(j)' # "down"
  <1>1. PICK i \in 0..Len(q) :
           Report(i) = "up" /\ \A j \in i + 1..Len(q) : Report(j) # "down"
    OBVIOUS
  <1>2. q \in Seq(Frames) /\ q' = Tail(q) /\ Head(q) = q[1] /\ q[1] \in Frames
    BY DEF EgalaxTypeOK, DropHead
  <1>3. /\ Len(q) \in Nat /\ Len(q) >= 1
        /\ Len(q') = Len(q) - 1
        /\ \A k \in 1..Len(q') : q'[k] = q[k + 1]
    BY <1>2
  <1>4. \A j \in 1..Len(q') : Report(j)' = Report(j + 1)
    BY <1>3 DEF Report
  <1>5. CASE i = 0
    <2>1. contact = "up" /\ q[1] # "down"
      BY <1>1, <1>3, <1>5 DEF Report
    <2>2. contact' = "up"
      BY <1>2, <2>1 DEF Frames
    <2>3. Report(0)' = "up" /\ 0 \in 0..Len(q')
      BY <1>3, <2>2 DEF Report
    <2>4. \A j \in 1..Len(q') : Report(j)' # "down"
      BY <1>1, <1>3, <1>4, <1>5
    <2> QED BY <2>3, <2>4
  <1>6. CASE i = 1
    <2>1. contact' = "up"
      BY <1>1, <1>2, <1>6 DEF Report
    <2>2. Report(0)' = "up" /\ 0 \in 0..Len(q')
      BY <1>3, <2>1 DEF Report
    <2>3. \A j \in 1..Len(q') : Report(j)' # "down"
      BY <1>1, <1>3, <1>4, <1>6
    <2> QED BY <2>2, <2>3
  <1>7. CASE i > 1
    <2>1. i - 1 \in 0..Len(q') /\ Report(i - 1)' = "up"
      BY <1>1, <1>3, <1>4, <1>7
    <2>2. \A j \in (i - 1) + 1..Len(q') : Report(j)' # "down"
      BY <1>1, <1>3, <1>4, <1>7
    <2> QED BY <2>1, <2>2
  <1> QED BY <1>1, <1>5, <1>6, <1>7

(* NoStuckContact is preserved by every step of the controller.            *)
LEMMA NoStuckStep ==
    ASSUME EgalaxInv, NoStuckContact,
           \/ \E c \in Chunks : SendChunk(c)
           \/ \E n \in Nat : ReadFrame(n)
           \/ FinishWrite \/ FinishRead \/ Press \/ Lift \/ Move \/ RepeatFires \/ Tick
           \/ EgalaxReset \/ UNCHANGED touch
    PROVE  NoStuckContact'
  <1> SUFFICES ASSUME ~pressed', ~pending', lost' = {}
               PROVE  \E i \in 0..Len(q') : /\ Report(i)' = "up"
                                            /\ \A j \in i + 1..Len(q') : Report(j)' # "down"
    BY DEF NoStuckContact
  <1>t. EgalaxTypeOK
    BY DEF EgalaxInv
  <1>0. ASSUME ~pressed, ~pending, lost = {}
        PROVE  \E i \in 0..Len(q) : Report(i) = "up" /\ \A j \in i + 1..Len(q) : Report(j) # "down"
    BY <1>0 DEF NoStuckContact
  <1>1. ASSUME UNCHANGED <<q, contact, pressed, pending, lost>>
        PROVE  \E i \in 0..Len(q') : /\ Report(i)' = "up"
                                     /\ \A j \in i + 1..Len(q') : Report(j)' # "down"
    BY <1>0, <1>1 DEF Report
  <1>2. CASE \/ \E c \in Chunks : SendChunk(c)
             \/ Tick \/ UNCHANGED touch
    BY <1>1, <1>2 DEF SendChunk, Tick, touch
  <1>3. ASSUME NEW n \in Nat, ReadFrame(n)
        PROVE  \E i \in 0..Len(q') : /\ Report(i)' = "up"
                                     /\ \A j \in i + 1..Len(q') : Report(j)' # "down"
    <2>1. UNCHANGED <<pressed, pending, lost>>
      BY <1>3 DEF ReadFrame
    <2>2. CASE n >= FRAME /\ q # <<>>
      BY <1>0, <1>3, <1>t, <2>1, <2>2, ReadKeepsStream DEF ReadFrame
    <2>3. CASE ~(n >= FRAME /\ q # <<>>)
      BY <1>1, <1>3, <2>1, <2>3 DEF ReadFrame
    <2> QED BY <2>2, <2>3
  <1>4. CASE FinishWrite
    <2>1. UNCHANGED <<pressed, pending, lost, contact>>
      BY <1>4 DEF FinishWrite
    <2>2. CASE QueueFrames(Replies(Assembled(rx)))
      <3>1. /\ Replies(Assembled(rx)) \in Seq(Frames)
            /\ \A i \in 1..Len(Replies(Assembled(rx))) : Replies(Assembled(rx))[i] # "down"
        <4>1. /\ <<"reply">> \in Seq(Frames) /\ <<"reply", "reply">> \in Seq(Frames)
              /\ \A i \in 1..Len(<<"reply">>) : <<"reply">>[i] # "down"
              /\ \A i \in 1..Len(<<"reply", "reply">>) : <<"reply", "reply">>[i] # "down"
          BY DEF Frames
        <4>2. Replies(Assembled(rx)) = <<"reply">> \/ Replies(Assembled(rx)) = <<"reply", "reply">>
          BY Zenon DEF Replies
        <4> QED BY <4>1, <4>2, Zenon
      <3> QED BY <1>0, <1>t, <2>1, <2>2, <3>1, StreamGrows
    <2>3. CASE UNCHANGED <<q, int>>
      BY <1>1, <2>1, <2>3
    <2> QED BY <1>4, <2>2, <2>3 DEF FinishWrite
  <1>5. CASE FinishRead
    <2>1. UNCHANGED <<q, contact, pressed, pending, lost>>
      BY <1>5 DEF FinishRead
    <2> QED BY <1>1, <2>1
  <1>6. CASE Press \/ Move
    <2>1. CASE Press
      BY <2>1 DEF Press
    <2>2. CASE Move
      BY <2>2 DEF Move
    <2> QED BY <1>6, <2>1, <2>2
  <1>7. CASE Lift
    <2>1. Release
      BY <1>7 DEF Lift
    <2> QED BY <1>t, <2>1, ReleaseSettles
  <1>8. CASE RepeatFires
    <2>1. CASE Release
      BY <1>t, <2>1, ReleaseSettles
    <2>2. CASE ~pressed /\ ~pending /\ UNCHANGED <<q, int, pending, lost>>
      BY <1>1, <1>8, <2>2 DEF RepeatFires
    <2>3. CASE (pressed \/ pending) /\ UNCHANGED <<pending, pressed>>
      BY <2>3
    <2> QED BY <1>8, <2>1, <2>2, <2>3 DEF RepeatFires
  <1>9. CASE EgalaxReset
    <2>1. q' = <<>> /\ contact' = "up"
      BY <1>9 DEF EgalaxReset
    <2>2. Len(q') = 0 /\ Report(0)' = "up"
      BY <2>1 DEF Report
    <2> QED BY <2>2
  <1> QED BY <1>2, <1>3, <1>4, <1>5, <1>6, <1>7, <1>8, <1>9

(* What a step of the path does to the controller.                         *)
LEMMA PathStepIsTouchStep ==
    ASSUME [PathNext]_path
    PROVE  \/ \E c \in Chunks : SendChunk(c)
           \/ \E n \in Nat : ReadFrame(n)
           \/ FinishWrite \/ FinishRead \/ Press \/ Lift \/ Move \/ RepeatFires \/ Tick
           \/ EgalaxReset \/ UNCHANGED touch
  BY EgalaxAssumption DEF PathNext, path, Access, StopWrite, StopRead, Repeat, Elapse, PenData,
     BankWrite, PathReset

(* A finished contact does not stay down, whatever the queue size, through *)
(* every interleaving of user, guest and repeat timer.                     *)
THEOREM NoStuckContactThm == PathSpec => []NoStuckContact
  <1>1. PathInit => NoStuckContact
    <2> SUFFICES ASSUME PathInit PROVE NoStuckContact
      OBVIOUS
    <2>1. Len(q) = 0 /\ Report(0) = "up"
      BY DEF PathInit, EgalaxInit, Report
    <2> QED BY <2>1 DEF NoStuckContact
  <1>2. PathInv /\ NoStuckContact /\ [PathNext]_path => NoStuckContact'
    BY NoStuckStep, PathStepIsTouchStep DEF PathInv
  <1> QED BY <1>1, <1>2, PathCorrect, PTL DEF PathSpec

(* No "up" report enters the queue before its press is HOLD old.           *)
THEOREM HoldRespectedThm == PathSpec => HoldRespected
  <1>1. PathInv /\ [PathNext]_path
           => [\A i \in DOMAIN q' : i > Len(q) /\ q'[i] = "up" => held >= HOLD]_touch
    <2> SUFFICES ASSUME PathInv, [PathNext]_path, ~UNCHANGED touch,
                        NEW i \in DOMAIN q', i > Len(q), q'[i] = "up"
                 PROVE  held >= HOLD
      OBVIOUS
    <2>t. /\ EgalaxTypeOK
          /\ q \in Seq(Frames) /\ Len(q) \in Nat
      BY DEF PathInv, EgalaxInv, EgalaxTypeOK
    <2>q. ASSUME NEW fs \in Seq(Frames), QueueFrames(fs)
          PROVE  \E k \in 1..Len(fs) : fs[k] = "up"
      <3>1. /\ Len(q') \in Nat /\ Len(q') <= Len(q) + Len(fs)
            /\ \A k \in Len(q) + 1..Len(q') : q'[k] = fs[k - Len(q)]
        BY <2>t, <2>q, QueueFramesShape
      <3>2. DOMAIN q' = 1..Len(q')
        <4>1. q' \in Seq(Frames)
          BY <2>t, <2>q, EgalaxAssumption DEF QueueFrames
        <4> QED BY <4>1
      <3>3. Len(fs) \in Nat
        OBVIOUS
      <3>4. i \in Len(q) + 1..Len(q') /\ i - Len(q) \in 1..Len(fs)
        BY <2>t, <3>1, <3>2, <3>3
      <3> QED BY <3>1, <3>4
    <2>d. ~QueueFrames(<<"down">>)
      <3>1. <<"down">> \in Seq(Frames) /\ \A k \in 1..Len(<<"down">>) : <<"down">>[k] # "up"
        BY DEF Frames
      <3> QED BY <2>q, <3>1
    <2>r. \A cmd : ~QueueFrames(Replies(cmd))
      <3>1. /\ <<"reply">> \in Seq(Frames) /\ <<"reply", "reply">> \in Seq(Frames)
            /\ \A k \in 1..Len(<<"reply">>) : <<"reply">>[k] # "up"
            /\ \A k \in 1..Len(<<"reply", "reply">>) : <<"reply", "reply">>[k] # "up"
        BY DEF Frames
      <3>2. ~QueueFrames(<<"reply">>) /\ ~QueueFrames(<<"reply", "reply">>)
        BY <2>q, <3>1
      <3> QED BY <3>2 DEF Replies
    <2>s. q' # q /\ ~(q # <<>> /\ q' = Tail(q)) /\ q' # <<>>
      <3>1. DOMAIN q = 1..Len(q) /\ (q # <<>> => DOMAIN Tail(q) = 1..Len(q) - 1)
        BY <2>t
      <3> QED BY <2>t, <3>1
    <2>1. Lift \/ RepeatFires
      BY <2>d, <2>r, <2>s, PathStepIsTouchStep
         DEF SendChunk, ReadFrame, FinishWrite, FinishRead, DropHead, Press, Move, Tick, EgalaxReset
    <2> QED BY <2>1, <2>d, <2>s DEF Lift, RepeatFires
  <1> QED BY <1>1, PathCorrect, PTL DEF PathSpec, HoldRespected
=============================================================================
