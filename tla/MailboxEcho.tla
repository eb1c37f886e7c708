---------------------------- MODULE MailboxEcho ----------------------------
(***************************************************************************)
(* The mailbox under the firmware's request/reply protocol.  The client is *)
(* the firmware's driver, which is not part of the repository; what it     *)
(* does is taken from the comment of the mailbox model: requests of DEPTH  *)
(* words on TX, replies of DEPTH words on RX announced by the NEWMSG       *)
(* interrupt of user MPU.                                                  *)
(*                                                                         *)
(* A session is a stretch in which the guest keeps to the protocol with at *)
(* most Window requests outstanding.  Any other access (a Stray step) ends *)
(* the session, and a reset of the mailbox starts a new one.               *)
(***************************************************************************)
EXTENDS Mailbox

CONSTANTS
    MPU,     \* the client's interrupt user (user 0)
    Window   \* requests a client may have outstanding

ASSUME EchoAssumption ==
    /\ MPU \in Users
    /\ Window \in Nat \ {0}

VARIABLES
    session,  \* the guest has kept to the protocol since the last reset
    want,     \* request words sent since the client was last idle
    got       \* reply words read since then

vars == <<regs, session, want, got>>

EchoInit ==
    /\ Init
    /\ session = TRUE
    /\ want = <<>>
    /\ got = <<>>

(* The client pushes the next request word when FIFOSTATUS shows room.     *)
SendWord(w) ==
    /\ session
    /\ NEWMSG(RX) \in irqenable[MPU]
    /\ Len(want) < Window * DEPTH
    /\ Len(fifo[TX]) < DEPTH
    /\ WriteMessage(TX, w)
    /\ want' = Append(want, w)
    /\ UNCHANGED <<session, got>>

(* The client, woken by its interrupt line, reads one reply word; when all *)
(* it asked for has come back it is idle again.                            *)
ReadReply ==
    /\ session
    /\ irq[MPU]
    /\ NEWMSG(RX) \in irqstatus[MPU]
    /\ ReadMessage(RX)
    /\ LET all == Append(got, Head(fifo[RX]))
           idle == Len(all) = Len(want) /\ Len(all) % DEPTH = 0
       IN  /\ got' = IF idle THEN <<>> ELSE all
           /\ want' = IF idle THEN <<>> ELSE want
    /\ UNCHANGED session

(* Accesses that are not the client's protocol but do not break it:        *)
(* acknowledging any status bits of any user, unmasking interrupts,        *)
(* masking those of other users, traffic on the other mailboxes.           *)
Bystander ==
    /\ session
    /\ \/ \E u \in Users, val \in Masks :
             \/ ClearIrqStatus(u, val)
             \/ SetIrqEnable(u, val)
             \/ /\ u # MPU \/ NEWMSG(RX) \notin val
                /\ ClearIrqEnable(u, val)
       \/ \E m \in Mboxes \ {TX, RX} :
             \/ ReadMessage(m)
             \/ \E w \in Words : WriteMessage(m, w)
    /\ UNCHANGED <<session, want, got>>

(* The guest does anything else with TX, RX or the client's mask.          *)
Stray ==
    /\ \/ \E m \in {TX, RX}, w \in Words : WriteMessage(m, w)
       \/ \E m \in {TX, RX} : ReadMessage(m)
       \/ \E val \in Masks : ClearIrqEnable(MPU, val)
    /\ session' = FALSE
    /\ want' = <<>>
    /\ got' = <<>>

Reset ==
    /\ SoftReset \/ MachineReset
    /\ session' = TRUE
    /\ want' = <<>>
    /\ got' = <<>>

Reply == DucatiReply /\ UNCHANGED <<session, want, got>>

EchoNext ==
    \/ \E w \in Words : SendWord(w)
    \/ ReadReply
    \/ Bystander
    \/ Stray
    \/ Reset
    \/ Reply

(* QEMU runs expired timers, and a woken driver runs its interrupt handler.*)
EchoFairness == WF_vars(Reply) /\ WF_vars(ReadReply)

EchoSpec == EchoInit /\ [][EchoNext]_vars /\ EchoFairness
-----------------------------------------------------------------------------
(* What the client has asked for and not yet read is, in order and without *)
(* gaps, what lies in RX, in the Ducati and in TX: no request word is lost,*)
(* repeated or overtaken on its way through mbox_push, mbox_ducati_reply   *)
(* and mbox_pop, not even when the reply timer fires in the middle of a    *)
(* request or a timer armed before a SOFTRESET fires after it.             *)
EchoStream ==
    session => got \o fifo[RX] \o req \o fifo[TX] = want

(* Every complete request is answered: its reply has been read back in     *)
(* full, unless the guest leaves the protocol or resets the mailbox.       *)
RequestAnswered ==
    (session /\ Len(want) >= DEPTH) ~> (want = <<>>)
=============================================================================
