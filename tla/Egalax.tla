------------------------------- MODULE Egalax -------------------------------
(***************************************************************************)
(* The emulated eGalax touch controller (qemu/hw/arm/garmin_gpsmap.c,      *)
(* "EETI eGalax touch controller").                                        *)
(*                                                                         *)
(* It sits between three actors: the user's pointer events, the guest,     *)
(* which writes commands and reads report frames over I2C, and a repeat    *)
(* timer.  A frame is a touch report "down" or "up" or a command "reply";  *)
(* coordinates and reply bytes carry no control and are left out.          *)
(*                                                                         *)
(* Time is the age of the last press in units of the repeat period, capped *)
(* at HOLD, from where on its value no longer matters.  The repeat timer   *)
(* may fire any time while it is armed.                                    *)
(***************************************************************************)
EXTENDS Integers, Sequences

CONSTANTS
    QUEUE,    \* EGALAX_QUEUE: frames the queue holds
    FRAME,    \* EGALAX_FRAME: bytes of a frame
    HOLD,     \* EGALAX_MIN_HOLD_NS in repeat periods
    INNER,    \* size of the command assembly buffer
    CHUNK,    \* command bytes one I2C write can carry
    Chunks,   \* I2C writes the guest may send
    ReadLens, \* lengths of the guest's I2C reads
    NoChunk   \* no write waits for its end

(* is03: the first byte is 03.  n: command bytes carried.  decl and twice: *)
(* the length byte and whether the command byte is one that is answered    *)
(* twice, as far as the chunk reaches them.                                *)
ChunkType == [is03 : BOOLEAN, n : 0..CHUNK, decl : Nat, twice : BOOLEAN]

ASSUME EgalaxAssumption ==
    /\ QUEUE \in Nat \ {0}
    /\ FRAME \in Nat \ {0}
    /\ HOLD \in Nat \ {0}
    /\ INNER \in Nat
    /\ CHUNK \in Nat
    /\ Chunks \subseteq ChunkType /\ Chunks # {}
    /\ ReadLens \subseteq Nat \ {0}
    /\ NoChunk \notin ChunkType

(* What the guest's driver keeps to: the longest command, in whole chunks, *)
(* fits the assembly buffer (docs/egalax_touch.md: 0x25 + 2 bytes of 64).  *)
ASSUME CommandsFit ==
    \A c \in Chunks : c.decl + 1 + CHUNK <= INNER

VARIABLES
    q,        \* the frame queue
    int,      \* level of the INT line, TRUE = high = idle
    rx,       \* the I2C write in progress
    inner,    \* the command being assembled
    tx_pos,   \* bytes clocked out of the current read, capped at FRAME
    pressed,  \* pressed and last_sent_pressed, equal between events
    pending,  \* release_pending
    repeat,   \* the repeat timer is armed
    held,     \* age of the last press
    contact,  \* ghost: the contact as the guest has read it
    lost      \* ghost: what the current contact has lost (Losses)

touch == <<q, int, rx, inner, tx_pos, pressed, pending, repeat, held, contact, lost>>

Frames == {"down", "up", "reply"}

(* An up report that found the queue full; a frame given up by a short     *)
(* read.                                                                   *)
Losses == {"up", "frame"}

EgalaxTypeOK ==
    /\ q \in Seq(Frames) /\ Len(q) <= QUEUE
    /\ int \in BOOLEAN
    /\ rx \in Chunks \cup {NoChunk}
    /\ inner \in [len : 0..INNER, decl : Nat, twice : BOOLEAN]
    /\ tx_pos \in 0..FRAME
    /\ pressed \in BOOLEAN
    /\ pending \in BOOLEAN
    /\ repeat \in BOOLEAN
    /\ held \in 0..HOLD
    /\ contact \in {"up", "down"}
    /\ lost \in SUBSET Losses

NoCommand == [len |-> 0, decl |-> 0, twice |-> FALSE]

EgalaxInit ==
    /\ q = <<>>
    /\ int = TRUE
    /\ rx = NoChunk
    /\ inner = NoCommand
    /\ tx_pos = 0
    /\ pressed = FALSE
    /\ pending = FALSE
    /\ repeat = FALSE
    /\ held = 0
    /\ contact = "up"
    /\ lost = {}
-----------------------------------------------------------------------------
(* egalax_queue_frame on the queue and, through egalax_update_irq, on the  *)
(* INT line: a full queue takes no frame and touches no line.              *)
QueueFrames(frames) ==
    /\ q' = LET all == q \o frames
            IN  IF Len(all) <= QUEUE THEN all ELSE SubSeq(all, 1, QUEUE)
    /\ int' = IF Len(q) < QUEUE THEN FALSE ELSE int

(* Mutant: the read that empties the queue leaves INT low.                 *)
DropHeadSilent ==
    /\ q' = Tail(q)
    /\ UNCHANGED int

(* Dequeueing the frame at the head, with egalax_update_irq.               *)
DropHead ==
    /\ q' = Tail(q)
    /\ int' = (Tail(q) = <<>>)
-----------------------------------------------------------------------------
(* egalax_event(START_SEND) and egalax_send: the bytes of an I2C write.    *)
SendChunk(c) ==
    /\ rx' = c
    /\ UNCHANGED <<q, int, inner, tx_pos, pressed, pending, repeat, held, contact, lost>>

(* egalax_event(START_RECV) and `n' calls of egalax_recv: the controller   *)
(* fetches all bytes of a read in one go.  The tenth byte consumes the     *)
(* frame.                                                                  *)
ReadFrame(n) ==
    /\ tx_pos' = IF n < FRAME THEN n ELSE FRAME
    /\ IF n >= FRAME /\ q # <<>>
       THEN /\ DropHead
            /\ contact' = IF Head(q) = "reply" THEN contact ELSE Head(q)
       ELSE UNCHANGED <<q, int, contact>>
    /\ UNCHANGED <<rx, inner, pressed, pending, repeat, held, lost>>

(* The command buffer after the chunk `c'.                                 *)
Assembled(c) ==
    LET room == inner.len + c.n <= INNER
        len  == IF room THEN inner.len + c.n ELSE inner.len
    IN  [len   |-> len,
         decl  |-> IF room /\ inner.len < 2 /\ len >= 2 THEN c.decl ELSE inner.decl,
         twice |-> IF room /\ inner.len < 3 /\ len >= 3 THEN c.twice ELSE inner.twice]

Complete(cmd) == cmd.len >= 2 /\ cmd.len >= cmd.decl + 2

(* egalax_command: one reply, or two for the commands 'D' and 'E'.         *)
Replies(cmd) ==
    IF cmd.decl >= 1 /\ cmd.twice THEN <<"reply", "reply">> ELSE <<"reply">>

(* Mutant: a completed command stays in the assembly buffer.               *)
FinishWriteKeeps ==
    /\ rx # NoChunk
    /\ inner' = IF rx.is03 THEN Assembled(rx) ELSE NoCommand
    /\ IF rx.is03 /\ Complete(Assembled(rx))
       THEN QueueFrames(Replies(Assembled(rx)))
       ELSE UNCHANGED <<q, int>>
    /\ rx' = NoChunk
    /\ tx_pos' = 0
    /\ UNCHANGED <<pressed, pending, repeat, held, contact, lost>>

(* egalax_event(FINISH) after a write.                                     *)
FinishWrite ==
    /\ rx # NoChunk
    /\ LET cmd == Assembled(rx)
       IN  \/ /\ rx.is03
              /\ Complete(cmd)
              /\ inner' = NoCommand
              /\ QueueFrames(Replies(cmd))
           \/ /\ rx.is03
              /\ ~Complete(cmd)
              /\ inner' = cmd
              /\ UNCHANGED <<q, int>>
           \/ /\ ~rx.is03
              /\ inner' = NoCommand
              /\ UNCHANGED <<q, int>>
    /\ rx' = NoChunk
    /\ tx_pos' = 0
    /\ UNCHANGED <<pressed, pending, repeat, held, contact, lost>>

(* egalax_event(FINISH) after a read; a short read gives up the frame at   *)
(* the head of the queue.                                                  *)
FinishRead ==
    /\ rx = NoChunk
    /\ tx_pos # 0
    /\ IF tx_pos < FRAME /\ q # <<>>
       THEN /\ DropHead
            /\ lost' = lost \cup {"frame"}
       ELSE UNCHANGED <<q, int, lost>>
    /\ tx_pos' = 0
    /\ UNCHANGED <<rx, inner, pressed, pending, repeat, held, contact>>
-----------------------------------------------------------------------------
(* egalax_release.                                                         *)
Release ==
    /\ pending' = FALSE
    /\ QueueFrames(<<"up">>)
    /\ repeat' = FALSE
    /\ lost' = IF Len(q) < QUEUE THEN lost ELSE lost \cup {"up"}

(* Mutant: a new press leaves the release of the previous one pending.     *)
PressKeepsPending ==
    /\ ~pressed
    /\ pressed' = TRUE
    /\ held' = 0
    /\ QueueFrames(<<"down">>)
    /\ repeat' = TRUE
    /\ lost' = {}
    /\ UNCHANGED <<rx, inner, tx_pos, pending, contact>>

(* egalax_input_event and egalax_input_sync: QEMU delivers the events of   *)
(* one input report and its sync together.                                 *)
Press ==
    /\ ~pressed
    /\ pressed' = TRUE
    /\ pending' = FALSE
    /\ held' = 0
    /\ QueueFrames(<<"down">>)
    /\ repeat' = TRUE
    /\ lost' = {}
    /\ UNCHANGED <<rx, inner, tx_pos, contact>>

(* Mutant: lifting the finger reports it at once.                          *)
LiftNow ==
    /\ pressed
    /\ pressed' = FALSE
    /\ Release
    /\ UNCHANGED <<rx, inner, tx_pos, held, contact>>

(* Mutant: an early lift is forgotten.                                     *)
LiftForgets ==
    /\ pressed
    /\ pressed' = FALSE
    /\ IF held >= HOLD THEN Release ELSE UNCHANGED <<q, int, repeat, lost, pending>>
    /\ UNCHANGED <<rx, inner, tx_pos, held, contact>>

Lift ==
    /\ pressed
    /\ pressed' = FALSE
    /\ IF held >= HOLD
       THEN Release
       ELSE /\ pending' = TRUE
            /\ UNCHANGED <<q, int, repeat, lost>>
    /\ UNCHANGED <<rx, inner, tx_pos, held, contact>>

Move ==
    /\ pressed
    /\ QueueFrames(<<"down">>)
    /\ UNCHANGED <<rx, inner, tx_pos, pressed, pending, repeat, held, contact, lost>>

(* Mutant: the timer stops as soon as the finger is up.                    *)
RepeatStops ==
    /\ repeat
    /\ \/ /\ pending /\ held >= HOLD
          /\ Release
       \/ /\ ~(pending /\ held >= HOLD)
          /\ IF q = <<>> /\ pressed THEN QueueFrames(<<"down">>) ELSE UNCHANGED <<q, int>>
          /\ repeat' = pressed
          /\ UNCHANGED <<pending, lost>>
    /\ UNCHANGED <<rx, inner, tx_pos, pressed, held, contact>>

(* egalax_repeat_cb.                                                       *)
RepeatFires ==
    /\ repeat
    /\ \/ /\ pending /\ held >= HOLD
          /\ Release
       \/ /\ ~(pending /\ held >= HOLD)
          /\ ~pressed /\ ~pending
          /\ repeat' = FALSE
          /\ UNCHANGED <<q, int, pending, lost>>
       \/ /\ ~(pending /\ held >= HOLD)
          /\ pressed \/ pending
          /\ IF q = <<>> THEN QueueFrames(<<"down">>) ELSE UNCHANGED <<q, int>>
          /\ UNCHANGED <<repeat, pending, lost>>
    /\ UNCHANGED <<rx, inner, tx_pos, pressed, held, contact>>

Tick ==
    /\ held < HOLD
    /\ held' = held + 1
    /\ UNCHANGED <<q, int, rx, inner, tx_pos, pressed, pending, repeat, contact, lost>>
-----------------------------------------------------------------------------
(* egalax_reset; the guest restarts and knows of no contact.               *)
EgalaxReset ==
    /\ q' = <<>>
    /\ int' = TRUE
    /\ rx' = NoChunk
    /\ inner' = NoCommand
    /\ tx_pos' = 0
    /\ pressed' = FALSE
    /\ pending' = FALSE
    /\ repeat' = FALSE
    /\ contact' = "up"
    /\ lost' = {}
    /\ UNCHANGED held
-----------------------------------------------------------------------------
(* INT is low exactly while a frame is queued (docs/egalax_touch.md,       *)
(* section 6), through every full and short read, command reply, release,  *)
(* reset and overrun of the queue.                                         *)
IntFollowsQueue == int <=> q = <<>>

(* The reports of the touch stream: the last one the guest has read, then  *)
(* the queued ones.                                                        *)
Report(i) == IF i = 0 THEN contact ELSE q[i]

(* A finished contact does not stay down: once the finger is up and no     *)
(* release is pending, the last report that is delivered says "up", unless *)
(* a report of this contact was lost.                                      *)
NoStuckContact ==
    (~pressed /\ ~pending /\ lost = {}) =>
        \E i \in 0..Len(q) : /\ Report(i) = "up"
                             /\ \A j \in i + 1..Len(q) : Report(j) # "down"

(* As long as a contact is down, or its release is being held back, the    *)
(* repeat timer that streams it and ends it is armed: no order of presses, *)
(* early lifts and expiries disarms it.                                    *)
StreamAlive == (pressed \/ pending) => repeat

(* A press is reported for at least HOLD: no "up" report enters the queue  *)
(* earlier than that after the press, however short the click, and however *)
(* often the button went down and up again in between.                     *)
HoldRespected ==
    [][\A i \in DOMAIN q' : i > Len(q) /\ q'[i] = "up" => held >= HOLD]_touch

(* A guest that sends only commands that fit finds room for every chunk:   *)
(* no sequence of complete, broken-off and foreign writes fills the        *)
(* command buffer.                                                         *)
ChunkFits == inner.len + CHUNK <= INNER

(* A finger that stays up is seen to be up by the polling guest.           *)
ContactSettles == (~pressed) ~> (contact = "up" \/ pressed \/ lost # {})
=============================================================================
