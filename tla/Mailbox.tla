------------------------------ MODULE Mailbox ------------------------------
(***************************************************************************)
(* The OMAP4 system mailbox of the board and the pretend Ducati behind it  *)
(* (qemu/hw/arm/garmin_gpsmap.c, "OMAP4 system mailbox + Ducati").         *)
(*                                                                         *)
(* A mailbox is a FIFO of at most DEPTH words.  Every user has an IRQ      *)
(* status register, an enable register and an interrupt line.  The guest   *)
(* may touch any register at any time; a request of DEPTH words pushed to  *)
(* mailbox TX is collected by the reply timer and echoed to mailbox RX.    *)
(* QEMU runs every handler and timer callback under its global lock, so    *)
(* each is one action.  The words beyond `count' in a FIFO array are never *)
(* read, hence a FIFO is the sequence of its live words; the reply counter *)
(* and SYSCONFIG are only logged or read back and are left out.            *)
(***************************************************************************)
EXTENDS Integers, Sequences

CONSTANTS
    Mboxes,  \* the mailboxes (MBOX_N)
    TX, RX,  \* MBOX_MPU_TX and MBOX_MPU_RX
    Users,   \* the interrupt users (MBOX_USERS)
    Words,   \* what a mailbox word may hold
    Masks,   \* what the guest may write to an IRQ register
    DEPTH    \* MBOX_DEPTH: FIFO depth and request length

ASSUME MailboxAssumption ==
    /\ TX \in Mboxes
    /\ RX \in Mboxes
    /\ TX # RX
    /\ DEPTH \in Nat \ {0}

NEWMSG(m)  == <<"newmsg", m>>
NOTFULL(m) == <<"notfull", m>>
Bits == {"newmsg", "notfull"} \X Mboxes

ASSUME MasksAssumption == Masks \subseteq SUBSET Bits

VARIABLES
    fifo,       \* fifo[m]: the words queued in mailbox m
    irqstatus,  \* irqstatus[u]: the raw status bits of user u
    irqenable,  \* irqenable[u]: the enabled bits of user u
    irq,        \* irq[u]: level of the interrupt line of user u
    req,        \* the part of a request the Ducati has taken so far
    timer       \* reply_timer is armed

regs == <<fifo, irqstatus, irqenable, irq, req, timer>>

TypeOK ==
    /\ fifo \in [Mboxes -> Seq(Words)]
    /\ \A m \in Mboxes : Len(fifo[m]) <= DEPTH
    /\ irqstatus \in [Users -> SUBSET Bits]
    /\ irqenable \in [Users -> SUBSET Bits]
    /\ irq \in [Users -> BOOLEAN]
    /\ req \in Seq(Words)
    /\ Len(req) < DEPTH
    /\ timer \in BOOLEAN

Init ==
    /\ fifo = [m \in Mboxes |-> <<>>]
    /\ irqstatus = [u \in Users |-> {}]
    /\ irqenable = [u \in Users |-> {}]
    /\ irq = [u \in Users |-> FALSE]
    /\ req = <<>>
    /\ timer = FALSE
-----------------------------------------------------------------------------
(* mbox_update_irq: the lines as a function of the registers.              *)
Lines(status, enable) == [u \in Users |-> status[u] \cap enable[u] # {}]

(* mbox_push: a full FIFO drops the word, the NEWMSG bit is set anyway.    *)
Pushed(q, w) == IF Len(q) < DEPTH THEN Append(q, w) ELSE q

StatusAfterPush(status, m) == [u \in Users |-> status[u] \cup {NEWMSG(m)}]

(* mbox_pop: `rest' is what the FIFO holds after the pop.                  *)
StatusAfterPop(status, m, rest) ==
    [u \in Users |->
        (status[u] \ (IF rest = <<>> THEN {NEWMSG(m)} ELSE {}))
            \cup {NOTFULL(m)}]

-----------------------------------------------------------------------------
(* Mutant: only the first word of a request arms the timer.                *)
WriteMessageArmsOnce(m, w) ==
    /\ fifo' = [fifo EXCEPT ![m] = Pushed(@, w)]
    /\ irqstatus' = StatusAfterPush(irqstatus, m)
    /\ irq' = Lines(irqstatus', irqenable)
    /\ timer' = (timer \/ (m = TX /\ fifo[m] = <<>> /\ req = <<>>))
    /\ UNCHANGED <<irqenable, req>>

(* A guest write to MESSAGE_m, m = TX also (re)arms the reply timer.       *)
WriteMessage(m, w) ==
    /\ fifo' = [fifo EXCEPT ![m] = Pushed(@, w)]
    /\ irqstatus' = StatusAfterPush(irqstatus, m)
    /\ irq' = Lines(irqstatus', irqenable)
    /\ timer' = (timer \/ m = TX)
    /\ UNCHANGED <<irqenable, req>>

(* A guest read of MESSAGE_m; an empty mailbox reads 0 and changes nothing.*)
ReadMessage(m) ==
    /\ fifo[m] # <<>>
    /\ fifo' = [fifo EXCEPT ![m] = Tail(@)]
    /\ irqstatus' = StatusAfterPop(irqstatus, m, Tail(fifo[m]))
    /\ irq' = Lines(irqstatus', irqenable)
    /\ UNCHANGED <<irqenable, req, timer>>

(* Mutant: a plain write-one-to-clear register.                            *)
ClearIrqStatusEdge(u, val) ==
    /\ irqstatus' = [irqstatus EXCEPT ![u] = @ \ val]
    /\ irq' = Lines(irqstatus', irqenable)
    /\ UNCHANGED <<fifo, irqenable, req, timer>>

(* A write to IRQSTATUS_CLR_u: NEWMSG of a mailbox with words stays.       *)
ClearIrqStatus(u, val) ==
    LET held == {NEWMSG(m) : m \in {n \in Mboxes : fifo[n] # <<>>}}
    IN  /\ irqstatus' = [irqstatus EXCEPT ![u] = @ \ (val \ held)]
        /\ irq' = Lines(irqstatus', irqenable)
        /\ UNCHANGED <<fifo, irqenable, req, timer>>

SetIrqEnable(u, val) ==
    /\ irqenable' = [irqenable EXCEPT ![u] = @ \cup val]
    /\ irq' = Lines(irqstatus, irqenable')
    /\ UNCHANGED <<fifo, irqstatus, req, timer>>

ClearIrqEnable(u, val) ==
    /\ irqenable' = [irqenable EXCEPT ![u] = @ \ val]
    /\ irq' = Lines(irqstatus, irqenable')
    /\ UNCHANGED <<fifo, irqstatus, req, timer>>

(* Mutant: SOFTRESET forgets the half-collected request.                   *)
SoftResetKeepsReq ==
    /\ fifo' = [m \in Mboxes |-> <<>>]
    /\ irqstatus' = [u \in Users |-> {}]
    /\ irqenable' = [u \in Users |-> {}]
    /\ irq' = Lines(irqstatus', irqenable')
    /\ UNCHANGED <<timer, req>>

(* SYSCONFIG.SOFTRESET: the reply timer keeps running.                     *)
SoftReset ==
    /\ fifo' = [m \in Mboxes |-> <<>>]
    /\ irqstatus' = [u \in Users |-> {}]
    /\ irqenable' = [u \in Users |-> {}]
    /\ req' = <<>>
    /\ irq' = Lines(irqstatus', irqenable')
    /\ UNCHANGED timer

(* mbox_reset, with the interrupt controller, which drops every input      *)
(* level on a machine reset.                                               *)
MachineReset ==
    /\ fifo' = [m \in Mboxes |-> <<>>]
    /\ irqstatus' = [u \in Users |-> {}]
    /\ irqenable' = [u \in Users |-> {}]
    /\ irq' = [u \in Users |-> FALSE]
    /\ req' = <<>>
    /\ timer' = FALSE

(* mbox_ducati_reply, the timer callback: take what TX holds, up to a      *)
(* whole request; echo a whole request word by word into RX.               *)
Taken == IF Len(fifo[TX]) < DEPTH - Len(req)
         THEN Len(fifo[TX])
         ELSE DEPTH - Len(req)

Collected == req \o SubSeq(fifo[TX], 1, Taken)

Rest == SubSeq(fifo[TX], Taken + 1, Len(fifo[TX]))

StatusAfterTake ==
    IF Taken = 0 THEN irqstatus ELSE StatusAfterPop(irqstatus, TX, Rest)

(* DEPTH words pushed one after another: those that find no room are lost. *)
Echoed == SubSeq(fifo[RX] \o Collected, 1, DEPTH)

DucatiReply ==
    /\ timer
    /\ timer' = FALSE
    /\ \/ /\ Len(Collected) < DEPTH
          /\ req' = Collected
          /\ fifo' = [fifo EXCEPT ![TX] = Rest]
          /\ irqstatus' = StatusAfterTake
       \/ /\ Len(Collected) = DEPTH
          /\ req' = <<>>
          /\ fifo' = [fifo EXCEPT ![TX] = Rest, ![RX] = Echoed]
          /\ irqstatus' = StatusAfterPush(StatusAfterTake, RX)
    /\ irq' = Lines(irqstatus', irqenable)
    /\ UNCHANGED irqenable
-----------------------------------------------------------------------------
Next ==
    \/ \E m \in Mboxes, w \in Words : WriteMessage(m, w)
    \/ \E m \in Mboxes : ReadMessage(m)
    \/ \E u \in Users, val \in Masks :
          \/ ClearIrqStatus(u, val)
          \/ SetIrqEnable(u, val)
          \/ ClearIrqEnable(u, val)
    \/ SoftReset
    \/ MachineReset
    \/ DucatiReply

Spec == Init /\ [][Next]_regs
-----------------------------------------------------------------------------
(* NEWMSG is a level: for every user it is set exactly while the mailbox   *)
(* holds a word, whatever mix of pushes, pops, acknowledgements, resets    *)
(* and Ducati replies came before (mbox_push, mbox_pop, IRQSTATUS_CLR).    *)
NewmsgIsLevel ==
    \A u \in Users, m \in Mboxes :
        NEWMSG(m) \in irqstatus[u] <=> fifo[m] # <<>>

(* The line of every user is the OR of its enabled status bits at all      *)
(* times: no handler changes a register and forgets mbox_update_irq.       *)
LineFollowsRegisters ==
    \A u \in Users : irq[u] <=> irqstatus[u] \cap irqenable[u] # {}

(* A whole request is never left lying between TX and the Ducati with no   *)
(* timer to answer it: mbox_ducati_reply does not re-arm itself and a      *)
(* SOFTRESET does not touch the timer, so it is the write that must arm it.*)
NoStrandedRequest == ~timer => Len(req) + Len(fifo[TX]) < DEPTH
=============================================================================
