-------------------------------- MODULE I2c --------------------------------
(***************************************************************************)
(* The OMAP4 I2C master (qemu/hw/arm/garmin_gpsmap.c, "OMAP4 I2C           *)
(* controller").                                                           *)
(*                                                                         *)
(* A transfer runs at once inside the guest's register access, but its     *)
(* completion (ARDY, RRDY, NACK, the clearing of STT) is deferred to a     *)
(* timer.  Here the timer may fire any time while it is armed.             *)
(*                                                                         *)
(* A register is the set of its bits that are set; registers without       *)
(* effect (WE, OA, PSC, SCLL, SCLH, SYSTEST) are left out.  FIFO contents  *)
(* are sequences.  The QEMU I2C bus is outside the repository and modelled *)
(* as it is used: a START selects the addressed slave, unless a transfer   *)
(* is still open, which keeps its slave.                                   *)
(***************************************************************************)
EXTENDS Integers, Sequences

CONSTANTS
    Addrs,    \* slave addresses the guest uses
    Slaves,   \* those at which a slave answers
    NoSlave,  \* no transfer is open on the bus
    Bytes,    \* data bytes
    FIFO,     \* I2C_FIFO_SIZE
    Counts,   \* values of CNT
    Masks,    \* what the guest writes to a status or enable register
    Cons      \* what it writes to CON

StatBits == {"NACK", "ARDY", "RRDY", "XRDY", "BB", "BF"}
ConBits == {"STT", "STP", "TRX", "MST", "EN"}

ASSUME I2cAssumption ==
    /\ Slaves \subseteq Addrs
    /\ NoSlave \notin Addrs
    /\ FIFO \in Nat \ {0}
    /\ Counts \subseteq Nat
    /\ Masks \subseteq SUBSET StatBits
    /\ Cons \subseteq SUBSET ConBits

VARIABLES
    stat, ie, cnt, con, sa,  \* registers
    fifo, pos,               \* FIFO contents up to fifo_len, and fifo_pos
    tx_remaining,            \* bytes a write transfer still wants
    tx_active, rx_active,    \* a write or read transfer is in progress
    pend_stat, pend_finish,  \* the deferred completion
    armed,                   \* done_timer is armed
    irq,                     \* level of the interrupt line
    slave,                   \* the slave of the open transfer
    wire                     \* bytes exchanged with a slave since START

i2c == <<stat, ie, cnt, con, sa, fifo, pos, tx_remaining, tx_active, rx_active,
         pend_stat, pend_finish, armed, irq, slave, wire>>

I2cTypeOK ==
    /\ stat \in SUBSET StatBits
    /\ ie \in SUBSET StatBits
    /\ cnt \in Nat
    /\ con \in SUBSET ConBits
    /\ sa \in Addrs
    /\ fifo \in Seq(Bytes) /\ Len(fifo) <= FIFO
    /\ pos \in 0..Len(fifo)
    /\ tx_remaining \in Nat
    /\ tx_active \in BOOLEAN
    /\ rx_active \in BOOLEAN
    /\ pend_stat \in SUBSET StatBits
    /\ pend_finish \in BOOLEAN
    /\ armed \in BOOLEAN
    /\ irq \in BOOLEAN
    /\ slave \in Slaves \cup {NoSlave}
    /\ wire \in Seq(Bytes)

I2cInit ==
    /\ stat = {} /\ ie = {} /\ cnt = 0 /\ con = {}
    /\ sa \in Addrs
    /\ fifo = <<>> /\ pos = 0
    /\ tx_remaining = 0
    /\ tx_active = FALSE /\ rx_active = FALSE
    /\ pend_stat = {} /\ pend_finish = FALSE /\ armed = FALSE
    /\ irq = FALSE
    /\ slave = NoSlave
    /\ wire = <<>>
-----------------------------------------------------------------------------
(* omap4_i2c_refresh: the level-type bits whose condition holds.           *)
Level ==
    {b \in {"XRDY", "RRDY"} :
        /\ ~pend_finish
        /\ b = "XRDY" => tx_active /\ tx_remaining > 0
        /\ b = "RRDY" => rx_active /\ pos < Len(fifo) /\ "RRDY" \notin pend_stat}

(* Mutant: the line is computed before the level-type bits are refreshed.  *)
UpdateIrqStale(st) ==
    /\ stat' = st \cup Level'
    /\ irq' = (st \cap ie' # {})

(* omap4_i2c_update_irq, which ends a register write that left STAT at st. *)
UpdateIrq(st) ==
    /\ stat' = st \cup Level'
    /\ irq' = (stat' \cap ie' # {})

(* omap4_i2c_defer.                                                        *)
Defer(bits, finish) ==
    /\ pend_stat' = pend_stat \cup bits
    /\ pend_finish' = (pend_finish \/ finish)
    /\ armed' = TRUE

(* Mutants: the completion does not end the transfer; the bus is kept.     *)
FinishUnflagged ==
    /\ slave' = NoSlave
    /\ Defer({"ARDY"}, FALSE)

FinishKeepsBus ==
    /\ UNCHANGED slave
    /\ Defer({"ARDY"}, TRUE)

(* omap4_i2c_finish: the bus is released at once.                          *)
Finish ==
    /\ slave' = NoSlave
    /\ Defer({"ARDY"}, TRUE)

(* omap4_i2c_done_cb.                                                      *)
Done ==
    /\ armed
    /\ armed' = FALSE
    /\ pend_stat' = {}
    /\ pend_finish' = FALSE
    /\ \/ /\ pend_finish
          /\ tx_active' = FALSE /\ rx_active' = FALSE
          /\ con' = con \ {"STT", "STP"}
          /\ UNCHANGED <<ie, cnt, sa, fifo, pos, tx_remaining, slave, wire>>
          /\ UpdateIrq((stat \ {"XRDY", "BB"}) \cup pend_stat
                       \cup (IF "STP" \in con THEN {"BF"} ELSE {}))
       \/ /\ ~pend_finish
          /\ UNCHANGED <<ie, cnt, con, sa, fifo, pos, tx_remaining, tx_active,
                         rx_active, slave, wire>>
          /\ UpdateIrq(stat \cup pend_stat)
-----------------------------------------------------------------------------
(* omap4_i2c_start on a bus that answers as slave `to'.                    *)
StartNack ==
    /\ fifo' = <<>> /\ pos' = 0
    /\ wire' = <<>>
    /\ Defer({"NACK", "ARDY"}, TRUE)
    /\ UNCHANGED <<tx_remaining, tx_active, rx_active, slave>>
    /\ UpdateIrq(stat \cup {"BB"})

(* Mutant: a read completes with its first status.                         *)
StartReadCompletes(to) ==
    \E bytes \in [1..cnt -> Bytes] :
        /\ rx_active' = TRUE
        /\ fifo' = bytes /\ pos' = 0
        /\ wire' = bytes
        /\ slave' = NoSlave
        /\ Defer({"RRDY", "ARDY"}, TRUE)
        /\ UNCHANGED <<tx_remaining, tx_active>>
        /\ UpdateIrq(stat \cup {"BB"})

(* A read fetches all its bytes from the slave before the guest sees any.  *)
StartRead(to) ==
    LET want == IF cnt = 0 THEN 1 ELSE cnt
        n    == IF want < FIFO THEN want ELSE FIFO
    IN  \E bytes \in [1..n -> Bytes] :
          /\ rx_active' = TRUE
          /\ fifo' = bytes /\ pos' = 0
          /\ wire' = bytes
          /\ slave' = to
          /\ Defer({"RRDY"}, FALSE)
          /\ UNCHANGED <<tx_remaining, tx_active>>
          /\ UpdateIrq(stat \cup {"BB"})

(* Mutant: a write of no bytes is not ended.                               *)
StartWriteOpen(to) ==
    LET queued == SubSeq(fifo, pos + 1, Len(fifo))
    IN  /\ tx_active' = TRUE
        /\ fifo' = <<>> /\ pos' = 0
        /\ wire' = queued
        /\ UNCHANGED rx_active
        /\ tx_remaining' = IF Len(queued) < cnt THEN cnt - Len(queued) ELSE 0
        /\ IF queued # <<>> /\ Len(queued) >= cnt
           THEN Finish
           ELSE slave' = to /\ UNCHANGED <<pend_stat, pend_finish, armed>>
        /\ UpdateIrq(stat \cup {"BB"})

(* A write first sends what was queued in the FIFO before STT.  The byte   *)
(* that brings tx_remaining to 0 ends the transfer, and any byte after it  *)
(* meets a released bus.                                                   *)
StartWrite(to) ==
    LET queued == SubSeq(fifo, pos + 1, Len(fifo))
        room   == IF cnt = 0 THEN 1 ELSE cnt
        sent   == IF Len(queued) < room THEN Len(queued) ELSE room
        nack   == IF Len(queued) > room THEN {"NACK"} ELSE {}
    IN  /\ tx_active' = TRUE
        /\ fifo' = <<>> /\ pos' = 0
        /\ wire' = SubSeq(queued, 1, sent)
        /\ UNCHANGED rx_active
        /\ \/ /\ Len(queued) < cnt
              /\ tx_remaining' = cnt - Len(queued)
              /\ slave' = to
              /\ UNCHANGED <<pend_stat, pend_finish, armed>>
              /\ UpdateIrq(stat \cup {"BB", "XRDY"})
           \/ /\ Len(queued) >= cnt
              /\ tx_remaining' = 0
              /\ Finish
              /\ UpdateIrq(stat \cup {"BB"} \cup nack)

Start(v) ==
    LET to == IF slave = NoSlave THEN sa ELSE slave
    IN  \/ to \notin Slaves /\ StartNack
        \/ to \in Slaves /\ "TRX" \notin v /\ StartRead(to)
        \/ to \in Slaves /\ "TRX" \in v /\ StartWrite(to)

(* CON.  Clearing EN gives up the transfer and the FIFO, but neither the   *)
(* deferred completion nor the bus; STT is ignored during a transfer.      *)
WriteCon(v) ==
    /\ con' = v
    /\ UNCHANGED <<ie, cnt, sa>>
    /\ \/ /\ "EN" \notin v
          /\ tx_active' = FALSE /\ rx_active' = FALSE
          /\ fifo' = <<>> /\ pos' = 0
          /\ UNCHANGED <<tx_remaining, pend_stat, pend_finish, armed, slave, wire>>
          /\ UpdateIrq(stat)
       \/ /\ {"EN", "STT", "MST"} \subseteq v
          /\ ~tx_active /\ ~rx_active
          /\ Start(v)
       \/ /\ "EN" \in v
          /\ ~({"STT", "MST"} \subseteq v) \/ tx_active \/ rx_active
          /\ UNCHANGED <<fifo, pos, tx_remaining, tx_active, rx_active, pend_stat,
                         pend_finish, armed, slave, wire>>
          /\ UpdateIrq(stat)

(* Mutant: the last byte completes the transfer inside the DATA write.     *)
WriteDataSynchronous(byte) ==
    /\ tx_active /\ tx_remaining > 0
    /\ tx_remaining' = tx_remaining - 1
    /\ wire' = Append(wire, byte)
    /\ UNCHANGED <<ie, cnt, sa, fifo, pos, rx_active, pend_stat, pend_finish, armed>>
    /\ \/ /\ tx_remaining > 1
          /\ UNCHANGED <<slave, tx_active, con>>
          /\ UpdateIrq(stat)
       \/ /\ tx_remaining <= 1
          /\ slave' = NoSlave
          /\ tx_active' = FALSE
          /\ con' = con \ {"STT", "STP"}
          /\ UpdateIrq((stat \ {"XRDY", "BB"}) \cup {"ARDY"}
                       \cup (IF "STP" \in con THEN {"BF"} ELSE {}))

(* DATA written: to the slave during a write transfer, else queued for the *)
(* next one while there is room.  omap4_i2c_tx_byte.                       *)
WriteData(byte) ==
    /\ UNCHANGED <<ie, cnt, con, sa, pos, tx_active, rx_active>>
    /\ \/ /\ tx_active /\ ~pend_finish
          /\ UNCHANGED fifo
          /\ tx_remaining' = IF tx_remaining > 0 THEN tx_remaining - 1 ELSE 0
          /\ wire' = IF slave = NoSlave THEN wire ELSE Append(wire, byte)
          /\ IF tx_remaining <= 1
             THEN Finish
             ELSE UNCHANGED <<pend_stat, pend_finish, armed, slave>>
          /\ UpdateIrq(stat \cup (IF slave = NoSlave THEN {"NACK"} ELSE {}))
       \/ /\ ~(tx_active /\ ~pend_finish)
          /\ fifo' = IF Len(fifo) < FIFO THEN Append(fifo, byte) ELSE fifo
          /\ UNCHANGED <<tx_remaining, pend_stat, pend_finish, armed, slave, wire>>
          /\ UpdateIrq(stat)

(* DATA read; no read ends with omap4_i2c_update_irq.                      *)
ReadData ==
    /\ stat' = stat \cup Level
    /\ \/ /\ rx_active /\ pos < Len(fifo)
          /\ pos' = pos + 1
          /\ IF pos + 1 = Len(fifo)
             THEN Finish
             ELSE UNCHANGED <<pend_stat, pend_finish, armed, slave>>
       \/ /\ ~(rx_active /\ pos < Len(fifo))
          /\ UNCHANGED <<pos, pend_stat, pend_finish, armed, slave>>
    /\ UNCHANGED <<ie, cnt, con, sa, fifo, tx_remaining, tx_active, rx_active, irq, wire>>

(* Any other register read.                                                *)
ReadRegister ==
    /\ stat' = stat \cup Level
    /\ UNCHANGED <<ie, cnt, con, sa, fifo, pos, tx_remaining, tx_active, rx_active,
                   pend_stat, pend_finish, armed, irq, slave, wire>>
-----------------------------------------------------------------------------
(* IRQSTATUS_RAW sets bits; IRQSTATUS and STAT clear them.                 *)
WriteStat(mask) ==
    /\ UNCHANGED <<ie, cnt, con, sa, fifo, pos, tx_remaining, tx_active, rx_active,
                   pend_stat, pend_finish, armed, slave, wire>>
    /\ \/ UpdateIrq(stat \cup mask)
       \/ UpdateIrq(stat \ mask)

(* IRQENABLE_SET, IRQENABLE_CLR and IE.                                    *)
WriteIe(mask) ==
    /\ \/ ie' = ie \cup mask
       \/ ie' = ie \ mask
       \/ ie' = mask
    /\ UNCHANGED <<cnt, con, sa, fifo, pos, tx_remaining, tx_active, rx_active,
                   pend_stat, pend_finish, armed, slave, wire>>
    /\ UpdateIrq(stat)

(* BUF with TXFIFO_CLR.                                                    *)
ClearFifo ==
    /\ fifo' = <<>> /\ pos' = 0
    /\ UNCHANGED <<ie, cnt, con, sa, tx_remaining, tx_active, rx_active, pend_stat,
                   pend_finish, armed, slave, wire>>
    /\ UpdateIrq(stat)

WriteCnt(n) ==
    /\ cnt' = n
    /\ UNCHANGED <<ie, con, sa, fifo, pos, tx_remaining, tx_active, rx_active,
                   pend_stat, pend_finish, armed, slave, wire>>
    /\ UpdateIrq(stat)

WriteSa(addr) ==
    /\ sa' = addr
    /\ UNCHANGED <<ie, cnt, con, fifo, pos, tx_remaining, tx_active, rx_active,
                   pend_stat, pend_finish, armed, slave, wire>>
    /\ UpdateIrq(stat)

(* Mutant: SYSC.SOFTRESET without deleting the timer.                      *)
SoftResetKeepsTimer ==
    /\ con' = {} /\ ie' = {} /\ cnt' = 0
    /\ fifo' = <<>> /\ pos' = 0
    /\ tx_active' = FALSE /\ rx_active' = FALSE
    /\ pend_stat' = {} /\ pend_finish' = FALSE
    /\ UNCHANGED <<sa, tx_remaining, armed, slave, wire>>
    /\ UpdateIrq({})

(* SYSC.SOFTRESET.  A transfer that is open on the bus stays open.         *)
SoftReset ==
    /\ con' = {} /\ ie' = {} /\ cnt' = 0
    /\ fifo' = <<>> /\ pos' = 0
    /\ tx_active' = FALSE /\ rx_active' = FALSE
    /\ pend_stat' = {} /\ pend_finish' = FALSE /\ armed' = FALSE
    /\ UNCHANGED <<sa, tx_remaining, slave, wire>>
    /\ UpdateIrq({})

(* omap4_i2c_reset; the interrupt controller is reset too and drops the    *)
(* line.                                                                   *)
I2cReset ==
    /\ stat' = {} /\ con' = {} /\ ie' = {} /\ cnt' = 0
    /\ sa' \in Addrs
    /\ fifo' = <<>> /\ pos' = 0
    /\ tx_remaining' = 0
    /\ tx_active' = FALSE /\ rx_active' = FALSE
    /\ pend_stat' = {} /\ pend_finish' = FALSE /\ armed' = FALSE
    /\ irq' = FALSE
    /\ UNCHANGED <<slave, wire>>
-----------------------------------------------------------------------------
(* Any guest, whatever its driver does.                                    *)
GuestAccess ==
    \/ \E v \in Cons : WriteCon(v)
    \/ \E byte \in Bytes : WriteData(byte)
    \/ ReadData
    \/ ReadRegister
    \/ \E mask \in Masks : WriteStat(mask) \/ WriteIe(mask)
    \/ ClearFifo
    \/ \E n \in Counts : WriteCnt(n)
    \/ \E addr \in Addrs : WriteSa(addr)
    \/ SoftReset

I2cNext == GuestAccess \/ Done \/ I2cReset

I2cSpec == I2cInit /\ [][I2cNext]_i2c
-----------------------------------------------------------------------------
(* A deferred completion is never forgotten and the timer never fires for  *)
(* nothing: whatever the guest does between a transfer and its completion, *)
(* the timer is armed exactly while there is something to report.          *)
CompletionArmed == armed <=> (pend_stat # {} \/ pend_finish)

(* The interrupt line is never stale.  STAT changes on reads too, and      *)
(* reads do not update the line, so this needs that every level-type bit   *)
(* is already asserted when a read refreshes it.                           *)
IrqFollowsStat == (irq <=> stat \cap ie # {}) /\ Level \subseteq stat

(* A write transfer cannot get stuck: it either still wants bytes, which   *)
(* XRDY asks the guest for, or its completion is on its way.               *)
WriteNotStuck == tx_active => (tx_remaining > 0 \/ pend_finish)

(* A finished transfer has released the bus and an open one has a slave to *)
(* talk to, unless a completion of an earlier transfer is still pending.   *)
BusHeld == ((tx_active \/ rx_active) /\ ~pend_finish) => slave # NoSlave
=============================================================================
