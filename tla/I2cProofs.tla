----------------------------- MODULE I2cProofs -----------------------------
(* The I2C master under any guest and under the firmware's driver, for any *)
(* slaves, bytes, FIFO size and transfers.                                 *)
EXTENDS I2cDriver, SequenceTheorems, TLAPS

(* What the handlers keep besides the interrupt line.                      *)
Transfer == CompletionArmed /\ WriteNotStuck /\ BusHeld

(* The inductive invariant of the controller.                              *)
I2cInv == I2cTypeOK /\ IrqFollowsStat /\ Transfer

(* omap4_i2c_update_irq establishes the line and the level bits by itself. *)
LEMMA UpdateIrqCorrect ==
    ASSUME NEW st \in SUBSET StatBits, UpdateIrq(st)
    PROVE  stat' \in SUBSET StatBits /\ irq' \in BOOLEAN /\ IrqFollowsStat'
  <1>1. Level' \subseteq {"XRDY", "RRDY"}
    BY DEF Level
  <1>2. {"XRDY", "RRDY"} \subseteq StatBits
    BY DEF StatBits
  <1>3. stat' \in SUBSET StatBits
    BY <1>1, <1>2 DEF UpdateIrq
  <1>4. IrqFollowsStat' /\ irq' \in BOOLEAN
    BY DEF UpdateIrq, IrqFollowsStat
  <1> QED BY <1>3, <1>4

(* An emptied FIFO.                                                        *)
LEMMA EmptyFifo ==
    /\ <<>> \in Seq(Bytes)
    /\ Len(<<>>) <= FIFO
    /\ 0 \in 0..Len(<<>>)
  BY I2cAssumption

(* A deferred completion is armed and keeps the types.                     *)
LEMMA DeferCorrect ==
    ASSUME I2cInv, NEW bits \in SUBSET StatBits, bits # {}, NEW f \in BOOLEAN,
           Defer(bits, f)
    PROVE  /\ pend_stat' \in SUBSET StatBits
           /\ pend_finish' \in BOOLEAN
           /\ armed' \in BOOLEAN
           /\ CompletionArmed'
           /\ f => pend_finish'
           /\ pend_finish => pend_finish'
  BY DEF Defer, I2cInv, I2cTypeOK, CompletionArmed

LEMMA FinishCorrect ==
    ASSUME I2cInv, Finish
    PROVE  /\ pend_stat' \in SUBSET StatBits
           /\ pend_finish' = TRUE
           /\ armed' \in BOOLEAN
           /\ CompletionArmed'
           /\ slave' \in Slaves \cup {NoSlave}
  <1>1. {"ARDY"} \in SUBSET StatBits /\ {"ARDY"} # {}
    BY DEF StatBits
  <1>2. Defer({"ARDY"}, TRUE) /\ slave' = NoSlave
    BY DEF Finish
  <1> QED BY <1>1, <1>2, DeferCorrect DEF Defer

-----------------------------------------------------------------------------
LEMMA DoneInv ==
    ASSUME I2cInv, Done
    PROVE  I2cInv'
  <1> USE DEF I2cInv, I2cTypeOK
  <1>1. CASE pend_finish
    <2> DEFINE st == (stat \ {"XRDY", "BB"}) \cup pend_stat
                       \cup (IF "STP" \in con THEN {"BF"} ELSE {})
    <2>1. st \in SUBSET StatBits
      BY DEF StatBits
    <2>2. UpdateIrq(st)
      BY <1>1 DEF Done
    <2>3. stat' \in SUBSET StatBits /\ irq' \in BOOLEAN /\ IrqFollowsStat'
      BY <2>1, <2>2, UpdateIrqCorrect
    <2>4. Transfer'
      BY <1>1 DEF Done, Transfer, CompletionArmed, WriteNotStuck, BusHeld
    <2> QED BY <1>1, <2>3, <2>4 DEF Done
  <1>2. CASE ~pend_finish
    <2>1. stat \cup pend_stat \in SUBSET StatBits
      OBVIOUS
    <2>2. UpdateIrq(stat \cup pend_stat)
      BY <1>2 DEF Done
    <2>3. stat' \in SUBSET StatBits /\ irq' \in BOOLEAN /\ IrqFollowsStat'
      BY <2>1, <2>2, UpdateIrqCorrect
    <2>4. Transfer'
      BY <1>2 DEF Done, Transfer, CompletionArmed, WriteNotStuck, BusHeld
    <2> QED BY <1>2, <2>3, <2>4 DEF Done
  <1> QED BY <1>1, <1>2

(* The register writes that start nothing.                                 *)
LEMMA PlainWriteInv ==
    ASSUME I2cInv,
           \/ \E mask \in SUBSET StatBits : WriteStat(mask) \/ WriteIe(mask)
           \/ ClearFifo
           \/ \E n \in Nat : WriteCnt(n)
           \/ \E addr \in Addrs : WriteSa(addr)
           \/ SoftReset
    PROVE  I2cInv'
  <1> USE I2cAssumption DEF I2cInv, I2cTypeOK
  <1>1. ASSUME NEW mask \in SUBSET StatBits, WriteStat(mask) PROVE I2cInv'
    <2>1. PICK st \in SUBSET StatBits : UpdateIrq(st)
      BY <1>1 DEF WriteStat
    <2> QED BY <1>1, <2>1, UpdateIrqCorrect
            DEF WriteStat, Transfer, CompletionArmed, WriteNotStuck, BusHeld
  <1>2. ASSUME NEW mask \in SUBSET StatBits, WriteIe(mask) PROVE I2cInv'
    BY <1>2, UpdateIrqCorrect
       DEF WriteIe, Transfer, CompletionArmed, WriteNotStuck, BusHeld
  <1>3. ASSUME ClearFifo PROVE I2cInv'
    <2>1. fifo' \in Seq(Bytes) /\ Len(fifo') <= FIFO /\ pos' \in 0..Len(fifo')
      BY <1>3, EmptyFifo DEF ClearFifo
    <2> QED BY <1>3, <2>1, UpdateIrqCorrect
            DEF ClearFifo, Transfer, CompletionArmed, WriteNotStuck, BusHeld
  <1>4. ASSUME NEW n \in Nat, WriteCnt(n) PROVE I2cInv'
    BY <1>4, UpdateIrqCorrect
       DEF WriteCnt, Transfer, CompletionArmed, WriteNotStuck, BusHeld
  <1>5. ASSUME NEW addr \in Addrs, WriteSa(addr) PROVE I2cInv'
    BY <1>5, UpdateIrqCorrect
       DEF WriteSa, Transfer, CompletionArmed, WriteNotStuck, BusHeld
  <1>6. ASSUME SoftReset PROVE I2cInv'
    <2>1. fifo' \in Seq(Bytes) /\ Len(fifo') <= FIFO /\ pos' \in 0..Len(fifo')
      BY <1>6, EmptyFifo DEF SoftReset
    <2>2. stat' \in SUBSET StatBits /\ irq' \in BOOLEAN /\ IrqFollowsStat'
      BY <1>6, UpdateIrqCorrect DEF SoftReset
    <2>3. Transfer'
      BY <1>6 DEF SoftReset, Transfer, CompletionArmed, WriteNotStuck, BusHeld
    <2> QED BY <1>6, <2>1, <2>2, <2>3 DEF SoftReset
  <1> QED BY <1>1, <1>2, <1>3, <1>4, <1>5, <1>6

LEMMA WriteDataInv ==
    ASSUME I2cInv, NEW byte \in Bytes, WriteData(byte)
    PROVE  I2cInv'
  <1> USE DEF I2cInv, I2cTypeOK
  <1>1. CASE tx_active /\ ~pend_finish
    <2> DEFINE st == stat \cup (IF slave = NoSlave THEN {"NACK"} ELSE {})
    <2>1. st \in SUBSET StatBits
      BY DEF StatBits
    <2>2. UpdateIrq(st)
      BY <1>1 DEF WriteData
    <2>3. stat' \in SUBSET StatBits /\ irq' \in BOOLEAN /\ IrqFollowsStat'
      BY <2>1, <2>2, UpdateIrqCorrect
    <2>4. wire' \in Seq(Bytes)
      BY <1>1 DEF WriteData
    <2>5. tx_remaining' \in Nat
      BY <1>1 DEF WriteData
    <2>6. CASE tx_remaining <= 1
      <3>1. Finish
        BY <1>1, <2>6 DEF WriteData
      <3>2. /\ pend_stat' \in SUBSET StatBits
            /\ pend_finish' = TRUE
            /\ armed' \in BOOLEAN
            /\ CompletionArmed'
            /\ slave' \in Slaves \cup {NoSlave}
        BY <3>1, FinishCorrect
      <3> QED BY <1>1, <2>3, <2>4, <2>5, <3>2
              DEF WriteData, Transfer, WriteNotStuck, BusHeld
    <2>7. CASE ~(tx_remaining <= 1)
      <3>1. tx_remaining' > 0
        BY <1>1, <2>7 DEF WriteData
      <3> QED BY <1>1, <2>3, <2>4, <2>5, <2>7, <3>1
              DEF WriteData, Transfer, CompletionArmed, WriteNotStuck, BusHeld
    <2> QED BY <2>6, <2>7
  <1>2. CASE ~(tx_active /\ ~pend_finish)
    <2>1. stat' \in SUBSET StatBits /\ irq' \in BOOLEAN /\ IrqFollowsStat'
      BY <1>2, UpdateIrqCorrect DEF WriteData
    <2>2. fifo' \in Seq(Bytes) /\ Len(fifo') <= FIFO /\ Len(fifo') >= Len(fifo)
      <3>1. fifo' = IF Len(fifo) < FIFO THEN Append(fifo, byte) ELSE fifo
        BY <1>2 DEF WriteData
      <3>2. fifo \in Seq(Bytes) /\ Len(fifo) <= FIFO
        OBVIOUS
      <3> HIDE DEF I2cInv
      <3> QED BY <3>1, <3>2, I2cAssumption
    <2>3. pos' \in 0..Len(fifo')
      BY <1>2, <2>2 DEF WriteData
    <2> QED BY <1>2, <2>1, <2>2, <2>3
            DEF WriteData, Transfer, CompletionArmed, WriteNotStuck, BusHeld
  <1> QED BY <1>1, <1>2

(* A read changes STAT by nothing, so the line needs no update.            *)
LEMMA ReadInv ==
    ASSUME I2cInv, ReadData \/ ReadRegister
    PROVE  I2cInv'
  <1> USE DEF I2cInv, I2cTypeOK
  <1>1. stat' = stat
    BY DEF ReadData, ReadRegister, IrqFollowsStat
  <1>2. CASE ReadRegister
    BY <1>1, <1>2 DEF ReadRegister, IrqFollowsStat, Level, Transfer,
                      CompletionArmed, WriteNotStuck, BusHeld
  <1>3. CASE ReadData /\ rx_active /\ pos < Len(fifo)
    <2>1. pos' \in 0..Len(fifo) /\ pos' = pos + 1 /\ fifo' = fifo
      BY <1>3 DEF ReadData
    <2>2. CASE pos + 1 = Len(fifo)
      <3>1. Finish
        BY <1>3, <2>2 DEF ReadData
      <3>2. /\ pend_stat' \in SUBSET StatBits
            /\ pend_finish' = TRUE
            /\ armed' \in BOOLEAN
            /\ CompletionArmed'
            /\ slave' \in Slaves \cup {NoSlave}
        BY <3>1, FinishCorrect
      <3>3. Level' = {}
        BY <3>2 DEF Level
      <3>4. IrqFollowsStat'
        BY <1>1, <1>3, <3>3 DEF IrqFollowsStat, ReadData
      <3> QED BY <1>1, <1>3, <2>1, <3>2, <3>4
              DEF ReadData, Transfer, WriteNotStuck, BusHeld
    <2>3. CASE pos + 1 # Len(fifo)
      <3>1. UNCHANGED <<pend_stat, pend_finish, armed, slave>>
        BY <1>3, <2>3 DEF ReadData
      <3>2. Level' \subseteq Level
        BY <1>3, <2>1, <3>1 DEF Level, ReadData
      <3>3. IrqFollowsStat'
        BY <1>1, <1>3, <3>2 DEF IrqFollowsStat, ReadData
      <3> QED BY <1>1, <1>3, <2>1, <3>1, <3>3
              DEF ReadData, Transfer, CompletionArmed, WriteNotStuck, BusHeld
    <2> QED BY <2>2, <2>3
  <1>4. CASE ReadData /\ ~(rx_active /\ pos < Len(fifo))
    BY <1>1, <1>4 DEF ReadData, IrqFollowsStat, Level, Transfer,
                      CompletionArmed, WriteNotStuck, BusHeld
  <1> QED BY <1>2, <1>3, <1>4

-----------------------------------------------------------------------------
(* The start of a transfer, on a controller that has none.                 *)
LEMMA StartNackInv ==
    ASSUME I2cInv, ~tx_active, ~rx_active, StartNack,
           con' \in SUBSET ConBits, UNCHANGED <<ie, cnt, sa>>
    PROVE  I2cInv'
  <1> USE DEF I2cInv, I2cTypeOK
  <1>1. /\ {"NACK", "ARDY"} \in SUBSET StatBits /\ {"NACK", "ARDY"} # {}
        /\ stat \cup {"BB"} \in SUBSET StatBits
    BY DEF StatBits
  <1>2. stat' \in SUBSET StatBits /\ irq' \in BOOLEAN /\ IrqFollowsStat'
    BY <1>1, UpdateIrqCorrect DEF StartNack
  <1>3. /\ pend_stat' \in SUBSET StatBits
        /\ pend_finish' \in BOOLEAN
        /\ armed' \in BOOLEAN
        /\ CompletionArmed'
    BY <1>1, DeferCorrect DEF StartNack
  <1>4. /\ fifo' \in Seq(Bytes) /\ Len(fifo') <= FIFO /\ pos' \in 0..Len(fifo')
        /\ wire' \in Seq(Bytes)
    BY EmptyFifo DEF StartNack
  <1> QED BY <1>2, <1>3, <1>4, I2cAssumption
          DEF StartNack, Transfer, WriteNotStuck, BusHeld

LEMMA StartReadInv ==
    ASSUME I2cInv, ~tx_active, ~rx_active, NEW to \in Slaves, StartRead(to),
           con' \in SUBSET ConBits, UNCHANGED <<ie, cnt, sa>>
    PROVE  I2cInv'
  <1> USE DEF I2cInv, I2cTypeOK
  <1> DEFINE want == IF cnt = 0 THEN 1 ELSE cnt
             n    == IF want < FIFO THEN want ELSE FIFO
  <1>1. n \in Nat /\ n <= FIFO
    BY I2cAssumption
  <1>2. PICK bytes \in [1..n -> Bytes] :
          /\ rx_active' = TRUE
          /\ fifo' = bytes /\ pos' = 0
          /\ wire' = bytes
          /\ slave' = to
          /\ Defer({"RRDY"}, FALSE)
          /\ UNCHANGED <<tx_remaining, tx_active>>
          /\ UpdateIrq(stat \cup {"BB"})
    BY DEF StartRead
  <1> HIDE DEF n
  <1>3. bytes \in Seq(Bytes) /\ Len(bytes) = n
    BY <1>1
  <1>4. /\ {"RRDY"} \in SUBSET StatBits /\ {"RRDY"} # {}
        /\ stat \cup {"BB"} \in SUBSET StatBits
    BY DEF StatBits
  <1>5. stat' \in SUBSET StatBits /\ irq' \in BOOLEAN /\ IrqFollowsStat'
    BY <1>2, <1>4, UpdateIrqCorrect
  <1>6. /\ pend_stat' \in SUBSET StatBits
        /\ pend_finish' \in BOOLEAN
        /\ armed' \in BOOLEAN
        /\ CompletionArmed'
    BY <1>2, <1>4, DeferCorrect
  <1>7. /\ fifo' \in Seq(Bytes) /\ Len(fifo') <= FIFO /\ pos' \in 0..Len(fifo')
        /\ wire' \in Seq(Bytes)
    BY <1>1, <1>2, <1>3
  <1>8. slave' \in Slaves \cup {NoSlave} /\ slave' # NoSlave
    BY <1>2, I2cAssumption
  <1> QED BY <1>2, <1>5, <1>6, <1>7, <1>8 DEF Transfer, WriteNotStuck, BusHeld

LEMMA StartWriteInv ==
    ASSUME I2cInv, ~tx_active, ~rx_active, NEW to \in Slaves, StartWrite(to),
           con' \in SUBSET ConBits, UNCHANGED <<ie, cnt, sa>>
    PROVE  I2cInv'
  <1> USE DEF I2cInv, I2cTypeOK
  <1> DEFINE queued == SubSeq(fifo, pos + 1, Len(fifo))
             room   == IF cnt = 0 THEN 1 ELSE cnt
             sent   == IF Len(queued) < room THEN Len(queued) ELSE room
             nack   == IF Len(queued) > room THEN {"NACK"} ELSE {}
  <1>1. queued \in Seq(Bytes) /\ Len(queued) \in Nat
    <2>1. pos + 1 \in 1..(Len(fifo) + 1)
      OBVIOUS
    <2> QED BY <2>1
  <1>2. /\ tx_active' = TRUE
        /\ fifo' = <<>> /\ pos' = 0
        /\ wire' = SubSeq(queued, 1, sent)
        /\ UNCHANGED rx_active
        /\ \/ /\ Len(queued) < cnt
              /\ tx_remaining' = cnt - Len(queued)
              /\ slave' = to
              /\ UNCHANGED <<pend_stat, pend_finish, armed>>
              /\ UpdateIrq(stat \cup {"BB", "XRDY"})
           \/ /\ Len(queued) >= cnt
              /\ tx_remaining' = 0
              /\ Finish
              /\ UpdateIrq(stat \cup {"BB"} \cup nack)
    BY DEF StartWrite
  <1> HIDE DEF queued
  <1>3. wire' \in Seq(Bytes)
    <2>1. sent \in 0..Len(queued)
      BY <1>1
    <2> QED BY <1>1, <1>2, <2>1
  <1>4. fifo' \in Seq(Bytes) /\ Len(fifo') <= FIFO /\ pos' \in 0..Len(fifo')
    BY <1>2, EmptyFifo
  <1>5. /\ stat \cup {"BB", "XRDY"} \in SUBSET StatBits
        /\ stat \cup {"BB"} \cup nack \in SUBSET StatBits
    BY DEF StatBits
  <1>6. stat' \in SUBSET StatBits /\ irq' \in BOOLEAN /\ IrqFollowsStat'
    BY <1>2, <1>5, UpdateIrqCorrect
  <1>7. CASE Len(queued) < cnt
    <2>1. tx_remaining' \in Nat /\ tx_remaining' > 0 /\ slave' = to
      BY <1>1, <1>2, <1>7
    <2>2. UNCHANGED <<pend_stat, pend_finish, armed>>
      BY <1>1, <1>2, <1>7
    <2> QED BY <1>2, <1>3, <1>4, <1>6, <2>1, <2>2, I2cAssumption
            DEF Transfer, CompletionArmed, WriteNotStuck, BusHeld
  <1>8. CASE Len(queued) >= cnt
    <2>1. Finish /\ tx_remaining' = 0
      BY <1>1, <1>2, <1>8
    <2>2. /\ pend_stat' \in SUBSET StatBits
          /\ pend_finish' = TRUE
          /\ armed' \in BOOLEAN
          /\ CompletionArmed'
          /\ slave' \in Slaves \cup {NoSlave}
      BY <2>1, FinishCorrect
    <2> QED BY <1>2, <1>3, <1>4, <1>6, <2>1, <2>2, I2cAssumption
            DEF Transfer, WriteNotStuck, BusHeld
  <1> QED BY <1>1, <1>7, <1>8

LEMMA WriteConInv ==
    ASSUME I2cInv, NEW v \in SUBSET ConBits, WriteCon(v)
    PROVE  I2cInv'
  <1>1. con' \in SUBSET ConBits /\ UNCHANGED <<ie, cnt, sa>>
    BY I2cAssumption DEF WriteCon
  <1>2. CASE "EN" \notin v
    <2>0. fifo' = <<>> /\ pos' = 0 /\ UpdateIrq(stat)
      BY <1>2 DEF WriteCon
    <2>1. fifo' \in Seq(Bytes) /\ Len(fifo') <= FIFO /\ pos' \in 0..Len(fifo')
      BY <2>0, EmptyFifo
    <2>2. UpdateIrq(stat) /\ stat \in SUBSET StatBits
      BY <2>0 DEF I2cInv, I2cTypeOK
    <2>3. stat' \in SUBSET StatBits /\ irq' \in BOOLEAN /\ IrqFollowsStat'
      BY <2>2, UpdateIrqCorrect
    <2>4. /\ tx_active' = FALSE /\ rx_active' = FALSE
          /\ UNCHANGED <<tx_remaining, pend_stat, pend_finish, armed, slave, wire>>
      BY <1>2 DEF WriteCon
    <2>5. Transfer'
      BY <2>4 DEF I2cInv, Transfer, CompletionArmed, WriteNotStuck, BusHeld
    <2>6. I2cTypeOK'
      BY <1>1, <2>1, <2>3, <2>4 DEF I2cInv, I2cTypeOK
    <2> QED BY <2>3, <2>5, <2>6 DEF I2cInv
  <1>3. CASE ~tx_active /\ ~rx_active /\ Start(v)
    <2> DEFINE to == IF slave = NoSlave THEN sa ELSE slave
    <2>1. CASE to \notin Slaves /\ StartNack
      BY <1>1, <1>3, <2>1, StartNackInv
    <2>2. CASE to \in Slaves /\ StartRead(to)
      BY <1>1, <1>3, <2>2, StartReadInv
    <2>3. CASE to \in Slaves /\ StartWrite(to)
      BY <1>1, <1>3, <2>3, StartWriteInv
    <2> QED BY <1>3, <2>1, <2>2, <2>3 DEF Start
  <1>4. CASE /\ UNCHANGED <<fifo, pos, tx_remaining, tx_active, rx_active,
                            pend_stat, pend_finish, armed, slave, wire>>
             /\ UpdateIrq(stat)
    <2>1. stat' \in SUBSET StatBits /\ irq' \in BOOLEAN /\ IrqFollowsStat'
      BY <1>4, UpdateIrqCorrect DEF I2cInv, I2cTypeOK
    <2> QED BY <1>1, <1>4, <2>1
            DEF I2cInv, I2cTypeOK, Transfer, CompletionArmed, WriteNotStuck, BusHeld
  <1> QED BY <1>2, <1>3, <1>4 DEF WriteCon

LEMMA I2cResetInv ==
    ASSUME I2cInv, I2cReset
    PROVE  I2cInv'
  <1>1. fifo' \in Seq(Bytes) /\ Len(fifo') <= FIFO /\ pos' \in 0..Len(fifo')
    BY EmptyFifo DEF I2cReset
  <1>2. Level' = {}
    BY DEF I2cReset, Level
  <1>3. Transfer'
    BY DEF I2cReset, Transfer, CompletionArmed, WriteNotStuck, BusHeld
  <1>4. IrqFollowsStat'
    BY <1>2 DEF I2cReset, IrqFollowsStat
  <1>5. I2cTypeOK'
    BY <1>1 DEF I2cReset, I2cInv, I2cTypeOK
  <1> QED BY <1>3, <1>4, <1>5 DEF I2cInv

-----------------------------------------------------------------------------
(* Whatever the guest does, the controller keeps its types, never forgets  *)
(* a completion, never leaves its interrupt line stale, never sticks in a  *)
(* write and always has a slave for an open transfer.                      *)
THEOREM I2cCorrect == I2cSpec => []I2cInv
  <1>1. I2cInit => I2cInv
    <2> SUFFICES ASSUME I2cInit PROVE I2cInv
      OBVIOUS
    <2>1. fifo \in Seq(Bytes) /\ Len(fifo) <= FIFO /\ pos \in 0..Len(fifo) /\ wire \in Seq(Bytes)
      BY EmptyFifo DEF I2cInit
    <2>2. Level = {}
      BY DEF I2cInit, Level
    <2>3. Transfer
      BY DEF I2cInit, Transfer, CompletionArmed, WriteNotStuck, BusHeld
    <2>4. IrqFollowsStat
      BY <2>2 DEF I2cInit, IrqFollowsStat
    <2>5. I2cTypeOK
      BY <2>1 DEF I2cInit, I2cTypeOK
    <2> QED BY <2>3, <2>4, <2>5 DEF I2cInv
  <1>2. I2cInv /\ [I2cNext]_i2c => I2cInv'
    <2> SUFFICES ASSUME I2cInv, [I2cNext]_i2c PROVE I2cInv'
      OBVIOUS
    <2>1. CASE GuestAccess
      <3>1. ASSUME NEW v \in Cons, WriteCon(v) PROVE I2cInv'
        BY <3>1, I2cAssumption, WriteConInv
      <3>2. ASSUME NEW byte \in Bytes, WriteData(byte) PROVE I2cInv'
        BY <3>2, WriteDataInv
      <3>3. CASE ReadData \/ ReadRegister
        BY <3>3, ReadInv
      <3>4. CASE \/ \E mask \in Masks : WriteStat(mask) \/ WriteIe(mask)
                 \/ ClearFifo
                 \/ \E n \in Counts : WriteCnt(n)
                 \/ \E addr \in Addrs : WriteSa(addr)
                 \/ SoftReset
        BY <3>4, I2cAssumption, PlainWriteInv
      <3> QED BY <2>1, <3>1, <3>2, <3>3, <3>4 DEF GuestAccess
    <2>2. CASE Done
      BY <2>2, DoneInv
    <2>3. CASE I2cReset
      BY <2>3, I2cResetInv
    <2>4. CASE UNCHANGED i2c
      BY <2>4 DEF i2c, I2cInv, I2cTypeOK, IrqFollowsStat, Level, Transfer,
                  CompletionArmed, WriteNotStuck, BusHeld
    <2> QED BY <2>1, <2>2, <2>3, <2>4 DEF I2cNext
  <1> QED BY <1>1, <1>2, PTL DEF I2cSpec

(* A deferred completion is never forgotten.                               *)
THEOREM CompletionArmedThm == I2cSpec => []CompletionArmed
  <1>1. I2cInv => CompletionArmed
    BY DEF I2cInv, Transfer
  <1> QED BY I2cCorrect, <1>1, PTL

(* The interrupt line follows the status through every read and write.     *)
THEOREM IrqFollowsStatThm == I2cSpec => []IrqFollowsStat
  <1>1. I2cInv => IrqFollowsStat
    BY DEF I2cInv
  <1> QED BY I2cCorrect, <1>1, PTL

(* A write transfer that was started can always go on.                     *)
THEOREM WriteNotStuckThm == I2cSpec => []WriteNotStuck
  <1>1. I2cInv => WriteNotStuck
    BY DEF I2cInv, Transfer
  <1> QED BY I2cCorrect, <1>1, PTL

(* An open transfer has a slave and a finished one has released the bus.   *)
THEOREM BusHeldThm == I2cSpec => []BusHeld
  <1>1. I2cInv => BusHeld
    BY DEF I2cInv, Transfer
  <1> QED BY I2cCorrect, <1>1, PTL
-----------------------------------------------------------------------------
(* The firmware's driver.  What the handler looks for.                     *)
Signals == {"ARDY", "BF", "NACK"}

(* No transfer is in progress on the controller or on the bus.             *)
Quiet == ~armed /\ ~tx_active /\ ~rx_active /\ slave = NoSlave

(* The transfer did what it was asked to.                                  *)
Outcome ==
    \/ job.addr \notin Slaves /\ wire = <<>>
    \/ job.n = 0 /\ wire = job.out
    \/ job.n > 0 /\ wire = got /\ Len(got) = job.n

(* A write that wants more bytes; a read whose first RRDY is deferred; a   *)
(* read whose bytes are being fetched from the FIFO; a transfer whose      *)
(* completion is deferred.                                                 *)
Writing ==
    /\ job.n = 0
    /\ tx_active /\ ~rx_active /\ ~armed /\ slave # NoSlave
    /\ todo # <<>> /\ tx_remaining = Len(todo)
    /\ wire \o todo = job.out

Fetching ==
    /\ job.n > 0 /\ todo = <<>>
    /\ rx_active /\ ~tx_active /\ armed /\ slave # NoSlave
    /\ pend_stat = {"RRDY"} /\ ~pend_finish
    /\ pos = 0 /\ got = <<>> /\ wire = fifo /\ Len(fifo) = job.n
    /\ stat \cap Enabled = {}

Reading ==
    /\ job.n > 0 /\ todo = <<>>
    /\ rx_active /\ ~tx_active /\ ~armed /\ slave # NoSlave
    /\ wire = fifo /\ Len(fifo) = job.n
    /\ pos < Len(fifo) /\ got = SubSeq(fifo, 1, pos)

Ending ==
    /\ pend_finish /\ slave = NoSlave
    /\ pend_stat \in {{"ARDY"}, {"ARDY", "NACK"}}
    /\ rx_active => pos = Len(fifo)
    /\ todo # <<>> => "XRDY" \notin stat \cup seen
    /\ Outcome

(* A transfer in progress has not been signalled, and a STOP asked for is  *)
(* not forgotten.                                                          *)
Active ==
    /\ Writing \/ Fetching \/ Reading \/ Ending
    /\ "STP" \in con <=> job.stop
    /\ (stat \cup seen) \cap Signals = {}

(* A transfer whose completion timer has fired.                            *)
Ended ==
    /\ Quiet
    /\ Outcome
    /\ todo # <<>> => "XRDY" \notin stat \cup seen

(* The status that makes the handler signal the semaphore exactly once.    *)
Signalling(st) == "ARDY" \in st /\ ("BF" \in st <=> job.stop)

DriverTypeOK ==
    /\ pc \in {"boot", "idle", "addr", "count", "queue", "fill", "wait", "isr"}
    /\ pc \notin {"boot", "idle"} => job \in Jobs
    /\ todo \in Seq(Bytes) /\ got \in Seq(Bytes)
    /\ seen \in SUBSET StatBits
    /\ pc # "isr" => seen = {}
    /\ sem \in Nat
    /\ pc # "boot" => ie = Enabled

(* Where the driver is and what it may find there.                         *)
Preparing ==
    /\ Quiet
    /\ stat \cap Enabled = {}
    /\ sem = 0
    /\ pc \in {"addr", "count", "queue"} => pos = 0 /\ got = <<>> /\ fifo \o todo = job.out
    /\ pc \in {"count", "queue"} => sa = job.addr
    /\ pc = "queue" => cnt = IF job.n = 0 THEN Len(job.out) ELSE job.n

Waiting ==
    \/ sem = 0 /\ Active
    \/ sem = 0 /\ Ended /\ Signalling(stat)
    \/ sem = 1 /\ Ended /\ stat \cap Enabled = {}

Handling ==
    /\ sem = 0
    /\ \/ Active /\ ~Fetching
       \/ Ended /\ Signalling(stat) /\ seen \cap Signals = {}
       \/ Ended /\ Signalling(seen) /\ stat \subseteq seen \cup {"XRDY", "RRDY"}

PhaseOK ==
    /\ pc \in {"boot", "idle", "addr", "count", "queue"} => Preparing
    /\ pc = "fill" => sem = 0 /\ Active /\ ~Reading
    /\ pc = "wait" => Waiting
    /\ pc = "isr" => Handling

(* The inductive invariant of driver and controller.                       *)
DriverInv == I2cInv /\ DriverTypeOK /\ PhaseOK
-----------------------------------------------------------------------------
(* What a job asks for.                                                    *)
LEMMA JobFacts ==
    ASSUME NEW j \in Jobs
    PROVE  /\ j.addr \in Addrs /\ j.out \in Seq(Bytes) /\ j.n \in Nat
           /\ j.stop \in BOOLEAN
           /\ j.n = 0 => j.out # <<>>
           /\ j.n > 0 => j.out = <<>> /\ j.n <= FIFO /\ j.stop
  BY JobsAssumption DEF JobType

(* A controller whose timer is not armed has nothing to report.            *)
LEMMA NothingPending ==
    ASSUME I2cInv
    PROVE  /\ ~armed => pend_stat = {} /\ ~pend_finish
           /\ pend_finish => armed
  BY DEF I2cInv, Transfer, CompletionArmed

(* Acknowledged bits are gone unless their condition still holds.          *)
LEMMA AckedStat ==
    ASSUME NEW mask, WriteStat(mask), stat' \cap mask \subseteq Level'
    PROVE  /\ stat' = (stat \ mask) \cup Level'
           /\ UNCHANGED <<ie, cnt, con, sa, fifo, pos, tx_remaining, tx_active, rx_active,
                          pend_stat, pend_finish, armed, slave, wire>>
  BY DEF WriteStat, UpdateIrq

(* The level-type bits by phase.                                           *)
LEMMA LevelFacts ==
    /\ Level \subseteq {"XRDY", "RRDY"}
    /\ pend_finish => Level = {}
    /\ ~tx_active => "XRDY" \notin Level
    /\ (~rx_active \/ "RRDY" \in pend_stat) => "RRDY" \notin Level
  BY DEF Level

(* The driver's accesses are a guest's.                                    *)
LEMMA DriverKeepsI2c ==
    ASSUME DriverInv, [DriverNext]_all
    PROVE  I2cInv'
  <1> USE I2cAssumption, JobsAssumption
  <1>1. I2cInv /\ DriverTypeOK
    BY DEF DriverInv
  <1>2. CASE Boot
    <2>1. Enabled \in SUBSET StatBits /\ WriteIe(Enabled)
      BY <1>2 DEF Boot, Enabled
    <2> QED BY <1>1, <2>1, PlainWriteInv
  <1>3. ASSUME NEW j \in Jobs, Begin(j) PROVE I2cInv'
    BY <1>1, <1>3, PlainWriteInv DEF Begin
  <1>4. CASE SetAddress
    <2>1. job \in Jobs
      BY <1>1, <1>4 DEF DriverTypeOK, SetAddress
    <2>2. job.addr \in Addrs /\ WriteSa(job.addr)
      BY <1>4, <2>1, JobFacts DEF SetAddress
    <2> QED BY <1>1, <2>2, PlainWriteInv
  <1>5. CASE SetCount
    <2>1. job \in Jobs
      BY <1>1, <1>5 DEF DriverTypeOK, SetCount
    <2>2. (IF job.n = 0 THEN Len(job.out) ELSE job.n) \in Nat
      BY <2>1, JobFacts
    <2> QED BY <1>1, <1>5, <2>2, PlainWriteInv DEF SetCount
  <1>6. CASE WriteByte \/ IsrWrite
    <2>1. todo # <<>> /\ WriteData(Head(todo))
      BY <1>6 DEF WriteByte, IsrWrite
    <2>2. Head(todo) \in Bytes
      BY <1>1, <2>1 DEF DriverTypeOK
    <2> QED BY <1>1, <2>1, <2>2, WriteDataInv
  <1>7. CASE Go
    <2> DEFINE v == {"EN", "MST", "STT"} \cup (IF job.n = 0 THEN {"TRX"} ELSE {})
                                         \cup (IF job.stop THEN {"STP"} ELSE {})
    <2>1. v \in SUBSET ConBits /\ WriteCon(v)
      BY <1>7 DEF Go, ConBits
    <2> QED BY <1>1, <2>1, WriteConInv
  <1>8. CASE ClearStatus \/ IsrEnd
    <2>1. PICK mask \in SUBSET StatBits : WriteStat(mask)
      BY <1>1, <1>8 DEF ClearStatus, IsrEnd, DriverTypeOK, StatBits
    <2> QED BY <1>1, <2>1, PlainWriteInv
  <1>9. CASE Interrupt \/ IsrRead
    BY <1>1, <1>9, ReadInv DEF Interrupt, IsrRead
  <1>10. CASE Wake
    <2>1. UNCHANGED i2c
      BY <1>10 DEF Wake
    <2> QED BY <1>1, <2>1
            DEF i2c, I2cInv, I2cTypeOK, IrqFollowsStat, Level, Transfer,
                CompletionArmed, WriteNotStuck, BusHeld
  <1>11. CASE TimerFires
    BY <1>1, <1>11, DoneInv DEF TimerFires
  <1>12. CASE UNCHANGED all
    BY <1>1, <1>12
       DEF all, i2c, I2cInv, I2cTypeOK, IrqFollowsStat, Level, Transfer,
           CompletionArmed, WriteNotStuck, BusHeld
  <1> QED BY <1>2, <1>3, <1>4, <1>5, <1>6, <1>7, <1>8, <1>9, <1>10, <1>11, <1>12
          DEF DriverNext, DriverStep

(* The driver's own variables keep their types.                            *)
LEMMA DriverTyped ==
    ASSUME DriverInv, [DriverNext]_all
    PROVE  DriverTypeOK'
  <1> USE JobsAssumption DEF DriverTypeOK
  <1>1. I2cInv' /\ I2cTypeOK' /\ I2cTypeOK /\ DriverTypeOK
    BY DriverKeepsI2c DEF DriverInv, I2cInv
  <1>2. CASE Boot
    BY <1>1, <1>2 DEF Boot
  <1>3. ASSUME NEW j \in Jobs, Begin(j) PROVE DriverTypeOK'
    BY <1>1, <1>3, JobFacts DEF Begin, ClearFifo
  <1>4. CASE SetAddress \/ SetCount
    BY <1>1, <1>4 DEF SetAddress, SetCount, WriteSa, WriteCnt
  <1>5. CASE WriteByte \/ IsrWrite
    <2>1. Tail(todo) \in Seq(Bytes)
      BY <1>1, <1>5 DEF WriteByte, IsrWrite
    <2> QED BY <1>1, <1>5, <2>1 DEF WriteByte, IsrWrite, WriteData
  <1>6. CASE Go
    <2>1. ie' = ie
      BY <1>6 DEF Go, WriteCon
    <2> QED BY <1>1, <1>6, <2>1 DEF Go
  <1>7. CASE ClearStatus
    BY <1>1, <1>7 DEF ClearStatus, WriteStat
  <1>8. CASE Interrupt
    BY <1>1, <1>8 DEF Interrupt, ReadRegister, I2cTypeOK
  <1>9. CASE IsrRead
    <2>1. pc' = pc /\ todo' = todo /\ sem' = sem /\ job' = job /\ ie' = ie /\ seen' \in SUBSET seen
      BY <1>9 DEF IsrRead, ReadData
    <2>2. got' \in Seq(Bytes)
      <3>1. CASE pos' = pos
        BY <1>1, <1>9, <3>1 DEF IsrRead
      <3>2. CASE pos' # pos
        <4>1. pos' = pos + 1 /\ pos < Len(fifo)
          BY <1>9, <3>2 DEF IsrRead, ReadData
        <4>2. fifo[pos'] \in Bytes
          BY <1>1, <4>1 DEF I2cTypeOK
        <4> QED BY <1>1, <1>9, <3>2, <4>2 DEF IsrRead
      <3> QED BY <3>1, <3>2
    <2> QED BY <1>1, <2>1, <2>2
  <1>10. CASE IsrEnd
    <2>1. ie' = ie
      BY <1>10 DEF IsrEnd, WriteStat
    <2> QED BY <1>1, <1>10, <2>1 DEF IsrEnd
  <1>11. CASE Wake
    BY <1>1, <1>11 DEF Wake, i2c
  <1>12. CASE TimerFires
    <2>1. ie' = ie
      BY <1>12 DEF TimerFires, Done
    <2> QED BY <1>1, <1>12, <2>1 DEF TimerFires, driver
  <1>13. CASE UNCHANGED all
    BY <1>1, <1>13 DEF all, i2c, driver
  <1> QED BY <1>2, <1>3, <1>4, <1>5, <1>6, <1>7, <1>8, <1>9, <1>10, <1>11, <1>12, <1>13
          DEF DriverNext, DriverStep
-----------------------------------------------------------------------------
(* The masked section up to STT: the controller stays quiet.               *)
LEMMA PreparePhase ==
    ASSUME DriverInv, DriverTypeOK', I2cInv',
           \/ Boot \/ SetAddress \/ SetCount
           \/ \E j \in Jobs : Begin(j)
           \/ pc = "queue" /\ WriteByte
    PROVE  PhaseOK'
  <1>1. /\ pc \in {"boot", "idle", "addr", "count", "queue"}
        /\ pc' \in {"idle", "addr", "count", "queue"}
    BY DEF Boot, SetAddress, SetCount, Begin, WriteByte
  <1>2. Preparing /\ ~pend_finish /\ pend_stat = {} /\ I2cTypeOK /\ DriverTypeOK
    BY <1>1, NothingPending DEF DriverInv, PhaseOK, Preparing, Quiet, I2cInv
  <1>3. /\ UNCHANGED <<tx_active, rx_active, pend_stat, pend_finish, armed, slave>>
        /\ UpdateIrq(stat)
        /\ sem' = sem
    BY <1>2 DEF Boot, SetAddress, SetCount, Begin, WriteByte, WriteIe, WriteSa, WriteCnt, ClearFifo,
       WriteData, Preparing, Quiet
  <1>4. Level' = {}
    BY <1>2, <1>3 DEF Level, Preparing, Quiet
  <1>5. Quiet' /\ stat' \cap Enabled = {} /\ sem' = 0
    BY <1>2, <1>3, <1>4 DEF UpdateIrq, Preparing, Quiet
  <1>6. CASE Boot
    BY <1>1, <1>5, <1>6 DEF Boot, PhaseOK, Preparing
  <1>7. ASSUME NEW j \in Jobs, Begin(j) PROVE PhaseOK'
    <2>1. pos' = 0 /\ got' = <<>> /\ fifo' = <<>> /\ todo' = j.out /\ job' = j /\ pc' = "addr"
      BY <1>7 DEF Begin, ClearFifo
    <2>2. <<>> \o j.out = j.out
      BY JobFacts, ConcatEmptySeq
    <2> QED BY <1>5, <2>1, <2>2 DEF PhaseOK, Preparing
  <1>8. CASE SetAddress
    BY <1>2, <1>5, <1>8 DEF SetAddress, WriteSa, PhaseOK, Preparing
  <1>9. CASE SetCount
    BY <1>2, <1>5, <1>9 DEF SetCount, WriteCnt, PhaseOK, Preparing
  <1>10. CASE pc = "queue" /\ WriteByte
    <2>1. /\ todo # <<>> /\ todo' = Tail(todo)
          /\ fifo' = Append(fifo, Head(todo))
          /\ UNCHANGED <<pos, cnt, sa, job, got, pc>>
      BY <1>2, <1>10 DEF WriteByte, WriteData, Preparing, Quiet
    <2>2. fifo \in Seq(Bytes) /\ todo \in Seq(Bytes)
      BY <1>2 DEF I2cTypeOK, DriverTypeOK
    <2>3. Append(fifo, Head(todo)) \o Tail(todo) = fifo \o todo
      BY <2>1, <2>2
    <2> QED BY <1>2, <1>5, <1>10, <2>1, <2>3 DEF PhaseOK, Preparing
  <1> QED BY <1>6, <1>7, <1>8, <1>9, <1>10

(* A byte handed to a write transfer.                                      *)
LEMMA WritingStep ==
    ASSUME I2cInv, I2cInv', DriverTypeOK, job \in Jobs, Writing,
           WriteData(Head(todo)), todo' = Tail(todo), UNCHANGED <<job, got>>
    PROVE  /\ Writing' \/ Ending'
           /\ ~Fetching' /\ ~Reading'
           /\ con' = con
           /\ stat' \subseteq stat \cup {"XRDY"}
  <1>1. /\ job.n = 0 /\ tx_active /\ ~rx_active /\ ~armed /\ slave # NoSlave
        /\ todo \in Seq(Bytes) /\ todo # <<>> /\ tx_remaining = Len(todo)
        /\ wire \in Seq(Bytes)
        /\ wire \o todo = job.out
        /\ job.n \in Nat
    BY JobFacts DEF Writing, DriverTypeOK, I2cInv, I2cTypeOK
  <1>2. ~pend_finish /\ pend_stat = {}
    BY <1>1, NothingPending
  <1>3. /\ UNCHANGED <<con, pos, tx_active, rx_active, fifo>>
        /\ tx_remaining' = tx_remaining - 1
        /\ wire' = Append(wire, Head(todo))
        /\ IF tx_remaining <= 1
             THEN Finish
             ELSE UNCHANGED <<pend_stat, pend_finish, armed, slave>>
        /\ UpdateIrq(stat)
    <2>1. Len(todo) \in Nat /\ Len(todo) > 0
      BY <1>1
    <2>2. stat \cup {} = stat
      OBVIOUS
    <2> QED BY <1>1, <1>2, <2>1, <2>2 DEF WriteData
  <1>4. stat' \subseteq stat \cup {"XRDY"}
    <2>1. "RRDY" \notin Level' /\ Level' \subseteq {"XRDY", "RRDY"}
      BY <1>1, <1>3 DEF Level
    <2> QED BY <1>3, <2>1 DEF UpdateIrq
  <1>5. Append(wire, Head(todo)) \o Tail(todo) = wire \o todo
    BY <1>1
  <1>6. ~Fetching' /\ ~Reading'
    BY <1>1 DEF Fetching, Reading
  <1>7. CASE tx_remaining <= 1
    <2>1. Len(todo) = 1
      BY <1>1, <1>7
    <2>2. Tail(todo) = <<>>
      BY <1>1, <2>1
    <2>3. wire' = job.out
      <3>1. Append(wire, Head(todo)) \in Seq(Bytes)
        BY <1>1
      <3> QED BY <1>1, <1>3, <1>5, <2>2, <3>1, ConcatEmptySeq
    <2>4. Finish
      BY <1>3, <1>7
    <2>5. pend_finish' /\ slave' = NoSlave /\ pend_stat' = {"ARDY"}
      BY <1>2, <2>4 DEF Finish, Defer
    <2>6. Outcome'
      BY <1>1, <2>3 DEF Outcome
    <2>7. ~rx_active'
      BY <1>1, <1>3
    <2>8. todo' = <<>>
      BY <2>2
    <2>9. Ending'
      BY <2>5, <2>6, <2>7, <2>8 DEF Ending
    <2> QED BY <1>3, <1>4, <1>6, <2>9
  <1>8. CASE ~(tx_remaining <= 1)
    <2>1. UNCHANGED <<pend_stat, pend_finish, armed, slave>>
      BY <1>3, <1>8
    <2>2. todo' # <<>> /\ tx_remaining' = Len(todo')
      BY <1>1, <1>3, <1>8
    <2>3. wire' \o todo' = job'.out
      BY <1>1, <1>3, <1>5
    <2>4. Writing'
      BY <1>1, <1>3, <2>1, <2>2, <2>3 DEF Writing
    <2> QED BY <1>3, <1>4, <1>6, <2>4
  <1> QED BY <1>7, <1>8

(* Bytes written after STT, in the masked section and by the handler.      *)
LEMMA WritePhase ==
    ASSUME DriverInv, DriverTypeOK', I2cInv', (pc = "fill" /\ WriteByte) \/ IsrWrite
    PROVE  PhaseOK'
  <1>1. /\ todo # <<>> /\ todo' = Tail(todo) /\ WriteData(Head(todo))
        /\ UNCHANGED <<job, pc, got, sem>>
        /\ seen' \subseteq seen
        /\ "XRDY" \in stat \cup seen
        /\ pc \in {"fill", "isr"}
    BY DEF WriteByte, IsrWrite
  <1>2. job \in Jobs /\ I2cInv /\ DriverTypeOK /\ sem = 0
    BY <1>1 DEF DriverInv, DriverTypeOK, PhaseOK, Handling
  <1>3. Active
    BY <1>1 DEF DriverInv, PhaseOK, Handling, Ended
  <1>4. Writing
    BY <1>1, <1>3 DEF Active, Fetching, Reading, Ending
  <1>5. /\ Writing' \/ Ending'
        /\ ~Fetching' /\ ~Reading'
        /\ con' = con
        /\ stat' \subseteq stat \cup {"XRDY"}
    BY <1>1, <1>2, <1>4, WritingStep
  <1>6. (stat' \cup seen') \cap Signals = {}
    BY <1>1, <1>3, <1>5 DEF Active, Signals
  <1>7. Active'
    BY <1>1, <1>3, <1>5, <1>6 DEF Active
  <1> QED BY <1>1, <1>2, <1>5, <1>7 DEF PhaseOK, Handling

(* STT: the transfer that was prepared starts.                             *)
LEMMA GoPhase ==
    ASSUME DriverInv, DriverTypeOK', I2cInv', Go
    PROVE  PhaseOK'
  <1> DEFINE v == {"EN", "MST", "STT"} \cup (IF job.n = 0 THEN {"TRX"} ELSE {})
                                       \cup (IF job.stop THEN {"STP"} ELSE {})
             queued == SubSeq(fifo, pos + 1, Len(fifo))
  <1>1. /\ pc = "queue" /\ pc' = "fill" /\ WriteCon(v)
        /\ UNCHANGED <<job, todo, got, seen, sem>>
    BY DEF Go
  <1>2. /\ Preparing /\ DriverTypeOK /\ I2cTypeOK
        /\ job \in Jobs /\ seen = {} /\ sem = 0
        /\ ~pend_finish /\ pend_stat = {}
    BY <1>1, NothingPending DEF DriverInv, PhaseOK, Preparing, Quiet, I2cInv, DriverTypeOK
  <1>3. /\ ~armed /\ ~tx_active /\ ~rx_active /\ slave = NoSlave
        /\ stat \subseteq {"BB"}
        /\ pos = 0 /\ got = <<>> /\ fifo \o todo = job.out /\ sa = job.addr
        /\ cnt = IF job.n = 0 THEN Len(job.out) ELSE job.n
    BY <1>1, <1>2 DEF Preparing, Quiet, Enabled, I2cTypeOK
  <1>4. /\ fifo \in Seq(Bytes) /\ todo \in Seq(Bytes) /\ job.out \in Seq(Bytes)
        /\ job.n \in Nat /\ cnt \in Nat
        /\ job.n = 0 => job.out # <<>>
        /\ job.n > 0 => job.out = <<>> /\ job.n <= FIFO
        /\ Len(fifo) + Len(todo) = Len(job.out)
    <2>1. /\ job.out \in Seq(Bytes) /\ job.n \in Nat
          /\ job.n = 0 => job.out # <<>>
          /\ job.n > 0 => job.out = <<>> /\ job.n <= FIFO
      BY <1>2, JobFacts
    <2>2. fifo \in Seq(Bytes) /\ todo \in Seq(Bytes) /\ cnt \in Nat
      BY <1>2 DEF DriverTypeOK, I2cTypeOK
    <2>3. Len(fifo \o todo) = Len(fifo) + Len(todo)
      BY <2>2
    <2> QED BY <1>3, <2>1, <2>2, <2>3
  <1>5. con' = v /\ ("STP" \in con' <=> job'.stop)
    BY <1>1 DEF WriteCon
  <1>6. Start(v)
    BY <1>1, <1>3 DEF WriteCon
  <1>7. "TRX" \in v <=> job.n = 0
    OBVIOUS
  <1>8. \/ sa \notin Slaves /\ StartNack
        \/ sa \in Slaves /\ job.n # 0 /\ StartRead(sa)
        \/ sa \in Slaves /\ job.n = 0 /\ StartWrite(sa)
    BY <1>3, <1>6, <1>7 DEF Start
  <1> HIDE DEF v
  <1>9. SUFFICES /\ Writing' \/ Fetching' \/ Ending'
                 /\ stat' \subseteq {"BB", "XRDY"}
                 /\ Writing' \/ armed'
    BY <1>1, <1>2, <1>5, <1>9 DEF PhaseOK, Active, Reading, Writing, Signals
  <1>10. CASE sa \notin Slaves /\ StartNack
    <2>1. /\ fifo' = <<>> /\ pos' = 0 /\ wire' = <<>>
          /\ pend_stat' = {"NACK", "ARDY"} /\ pend_finish' = TRUE /\ armed' = TRUE
          /\ UNCHANGED <<tx_active, rx_active, slave>>
          /\ stat' = stat \cup {"BB"} \cup Level'
      BY <1>2, <1>10 DEF StartNack, Defer, UpdateIrq
    <2>2. Level' = {}
      BY <2>1 DEF Level
    <2>3. stat' \subseteq {"BB"}
      BY <1>3, <2>1, <2>2
    <2>4. Ending'
      BY <1>1, <1>2, <1>3, <1>10, <2>1, <2>3 DEF Ending, Outcome
    <2> QED BY <2>1, <2>3, <2>4
  <1>11. CASE sa \in Slaves /\ job.n # 0 /\ StartRead(sa)
    <2>1. job.n > 0 /\ cnt = job.n /\ job.n <= FIFO /\ job.out = <<>> /\ FIFO \in Nat
      BY <1>3, <1>4, <1>11, I2cAssumption
    <2>2. PICK bytes \in [1..job.n -> Bytes] :
            /\ rx_active' = TRUE
            /\ fifo' = bytes /\ pos' = 0
            /\ wire' = bytes
            /\ slave' = sa
            /\ Defer({"RRDY"}, FALSE)
            /\ UNCHANGED <<tx_remaining, tx_active>>
            /\ UpdateIrq(stat \cup {"BB"})
      <3>1. (IF (IF cnt = 0 THEN 1 ELSE cnt) < FIFO THEN (IF cnt = 0 THEN 1 ELSE cnt) ELSE FIFO) = job.n
        BY <1>4, <2>1
      <3> QED BY <1>11, <3>1 DEF StartRead
    <2>3. bytes \in Seq(Bytes) /\ Len(bytes) = job.n
      BY <1>4
    <2>4. todo = <<>>
      <3>1. Len(todo) = 0
        BY <1>4, <2>1
      <3> QED BY <1>4, <3>1
    <2>5. pend_stat' = {"RRDY"} /\ ~pend_finish' /\ armed'
      BY <1>2, <2>2 DEF Defer
    <2>6. Level' = {}
      BY <1>3, <2>2, <2>5 DEF Level
    <2>7. stat' \subseteq {"BB"}
      BY <1>3, <2>2, <2>6 DEF UpdateIrq
    <2>8. slave' # NoSlave
      BY <1>11, <2>2, I2cAssumption
    <2>9. wire' = fifo' /\ Len(fifo') = job'.n /\ job'.n > 0 /\ todo' = <<>> /\ got' = <<>>
      BY <1>1, <1>3, <2>1, <2>2, <2>3, <2>4
    <2>10. Fetching'
      BY <1>3, <2>2, <2>5, <2>7, <2>8, <2>9 DEF Fetching, Enabled
    <2> QED BY <2>5, <2>7, <2>10
  <1>12. CASE sa \in Slaves /\ job.n = 0 /\ StartWrite(sa)
    <2>1. queued = fifo
      BY <1>3, <1>4
    <2>2. cnt = Len(job.out) /\ cnt > 0
      BY <1>3, <1>4, <1>12
    <2>3. Len(fifo) <= cnt /\ Len(fifo) \in Nat
      BY <1>4, <2>2
    <2>4. SubSeq(fifo, 1, IF Len(fifo) < cnt THEN Len(fifo) ELSE cnt) = fifo
      BY <1>4, <2>3
    <2>5. /\ tx_active' = TRUE
          /\ fifo' = <<>> /\ pos' = 0
          /\ wire' = fifo
          /\ UNCHANGED rx_active
          /\ \/ /\ Len(fifo) < cnt
                /\ tx_remaining' = cnt - Len(fifo)
                /\ slave' = sa
                /\ UNCHANGED <<pend_stat, pend_finish, armed>>
                /\ UpdateIrq(stat \cup {"BB", "XRDY"})
             \/ /\ Len(fifo) >= cnt
                /\ tx_remaining' = 0
                /\ Finish
                /\ UpdateIrq(stat \cup {"BB"} \cup {})
      <3>1. (IF cnt = 0 THEN 1 ELSE cnt) = cnt
        BY <2>2
      <3>2. (IF Len(fifo) > cnt THEN {"NACK"} ELSE {}) = {}
        BY <1>4, <2>3
      <3> HIDE DEF queued
      <3> QED BY <1>12, <2>1, <2>4, <3>1, <3>2 DEF StartWrite, queued
    <2>6. CASE Len(fifo) < cnt
      <3>1. /\ tx_remaining' = cnt - Len(fifo)
            /\ slave' = sa
            /\ UNCHANGED <<pend_stat, pend_finish, armed>>
            /\ UpdateIrq(stat \cup {"BB", "XRDY"})
        BY <1>4, <2>3, <2>5, <2>6
      <3>2. todo # <<>> /\ tx_remaining' = Len(todo)
        BY <1>4, <2>2, <2>6, <3>1
      <3>3. wire' \o todo' = job'.out
        BY <1>1, <1>3, <2>5
      <3>4. slave' # NoSlave
        BY <1>12, <3>1, I2cAssumption
      <3>5. Writing'
        BY <1>1, <1>3, <1>12, <2>5, <3>1, <3>2, <3>3, <3>4 DEF Writing
      <3>6. "RRDY" \notin Level' /\ Level' \subseteq {"XRDY", "RRDY"}
        BY <1>3, <2>5 DEF Level
      <3>7. stat' \subseteq {"BB", "XRDY"}
        BY <1>3, <3>1, <3>6 DEF UpdateIrq
      <3> QED BY <3>5, <3>7
    <2>7. CASE Len(fifo) >= cnt
      <3>1. Finish /\ UpdateIrq(stat \cup {"BB"} \cup {})
        BY <1>4, <2>3, <2>5, <2>7
      <3>2. todo = <<>>
        <4>1. Len(todo) = 0
          BY <1>4, <2>2, <2>7
        <4> QED BY <1>4, <4>1
      <3>3. fifo = job.out
        BY <1>3, <1>4, <3>2, ConcatEmptySeq
      <3>4. pend_finish' /\ slave' = NoSlave /\ pend_stat' = {"ARDY"} /\ armed'
        BY <1>2, <3>1 DEF Finish, Defer
      <3>5. Outcome'
        BY <1>1, <1>12, <2>5, <3>3 DEF Outcome
      <3>6. Ending'
        BY <1>1, <1>3, <2>5, <3>2, <3>4, <3>5 DEF Ending
      <3>7. Level' = {}
        BY <3>4 DEF Level
      <3>8. stat' \subseteq {"BB"}
        BY <1>3, <3>1, <3>7 DEF UpdateIrq
      <3> QED BY <3>4, <3>6, <3>8
    <2> QED BY <2>3, <2>6, <2>7, <1>4, <2>2
  <1> QED BY <1>8, <1>10, <1>11, <1>12

(* A step that only acknowledges or drops status stays in its phase.       *)
LEMMA PhaseKept ==
    ASSUME stat' \subseteq stat, stat' \cup seen' \subseteq stat \cup seen,
           UNCHANGED <<job, todo, got, con, fifo, pos, tx_remaining, tx_active, rx_active,
                       pend_stat, pend_finish, armed, slave, wire>>
    PROVE  /\ Writing => Writing'
           /\ Fetching => Fetching'
           /\ Reading => Reading'
           /\ Ending => Ending'
           /\ Active => Active'
           /\ Ended => Ended'
  <1>1. Outcome => Outcome'
    BY DEF Outcome
  <1>2. Writing => Writing'
    BY DEF Writing
  <1>3. Fetching => Fetching'
    BY DEF Fetching
  <1>4. Reading => Reading'
    BY DEF Reading
  <1>5. Ending => Ending'
    BY <1>1 DEF Ending
  <1>6. Active => Active'
    BY <1>2, <1>3, <1>4, <1>5 DEF Active
  <1>7. Ended => Ended'
    BY <1>1 DEF Ended, Quiet
  <1> QED BY <1>2, <1>3, <1>4, <1>5, <1>6, <1>7

(* Of the transfers in progress only a fetching one is neither ending nor  *)
(* without a timer.                                                        *)
LEMMA NotFetching ==
    ASSUME Active
    PROVE  /\ ~Fetching => Writing \/ Reading \/ Ending
           /\ Writing \/ Reading \/ Ending => ~Fetching
  BY DEF Active, Writing, Fetching, Reading, Ending

(* The end of the masked section.                                          *)
LEMMA ClearPhase ==
    ASSUME DriverInv, ClearStatus
    PROVE  PhaseOK'
  <1>1. /\ pc = "fill" /\ pc' = "wait"
        /\ UNCHANGED <<job, todo, got, seen, sem>>
        /\ WriteStat(StatBits) /\ stat' \subseteq Level'
    BY DEF ClearStatus
  <1>2. /\ stat' = (stat \ StatBits) \cup Level'
        /\ UNCHANGED <<ie, cnt, con, sa, fifo, pos, tx_remaining, tx_active, rx_active,
                       pend_stat, pend_finish, armed, slave, wire>>
    BY <1>1, AckedStat
  <1>3. Level' = Level
    BY <1>2 DEF Level
  <1>4. stat' \subseteq stat
    BY <1>1, <1>3 DEF DriverInv, I2cInv, IrqFollowsStat
  <1>5. sem = 0 /\ Active
    BY <1>1 DEF DriverInv, PhaseOK
  <1>6. Active'
    BY <1>1, <1>2, <1>4, <1>5, PhaseKept
  <1> QED BY <1>1, <1>5, <1>6 DEF PhaseOK, Waiting

(* The line is high, so the handler finds something enabled in STAT.       *)
LEMMA InterruptPhase ==
    ASSUME DriverInv, Interrupt
    PROVE  PhaseOK'
  <1>1. /\ pc = "wait" /\ pc' = "isr" /\ irq
        /\ seen' = stat' /\ stat' = stat \cup Level
        /\ UNCHANGED <<job, todo, got, sem>>
        /\ UNCHANGED <<con, fifo, pos, tx_remaining, tx_active, rx_active,
                       pend_stat, pend_finish, armed, slave, wire>>
    BY DEF Interrupt, ReadRegister
  <1>2. stat' = stat /\ seen' = stat
    BY <1>1 DEF DriverInv, I2cInv, IrqFollowsStat
  <1>3. stat \cap Enabled # {}
    BY <1>1 DEF DriverInv, I2cInv, IrqFollowsStat, DriverTypeOK
  <1>4. \/ sem = 0 /\ Active
        \/ sem = 0 /\ Ended /\ Signalling(stat)
    BY <1>1, <1>3 DEF DriverInv, PhaseOK, Waiting
  <1>5. CASE sem = 0 /\ Active
    <2>1. Active'
      BY <1>1, <1>2, <1>5, PhaseKept
    <2>2. ~Fetching'
      BY <1>2, <1>3 DEF Fetching
    <2> QED BY <1>1, <1>5, <2>1, <2>2 DEF PhaseOK, Handling
  <1>6. CASE sem = 0 /\ Ended /\ Signalling(stat)
    <2>1. Ended'
      BY <1>1, <1>2, <1>6, PhaseKept
    <2>2. Signalling(seen)'
      BY <1>1, <1>2, <1>6 DEF Signalling
    <2> QED BY <1>1, <1>2, <1>6, <2>1, <2>2 DEF PhaseOK, Handling
  <1> QED BY <1>4, <1>5, <1>6

(* A byte read by the handler.                                             *)
LEMMA ReadingStep ==
    ASSUME I2cInv, job \in Jobs, Reading, IsrRead
    PROVE  Reading' \/ Ending'
  <1>1. /\ job.n > 0 /\ todo = <<>>
        /\ rx_active /\ ~tx_active /\ ~armed /\ slave # NoSlave
        /\ wire = fifo /\ Len(fifo) = job.n
        /\ pos < Len(fifo) /\ got = SubSeq(fifo, 1, pos)
        /\ ~pend_finish /\ pend_stat = {}
    BY NothingPending DEF Reading
  <1>2. fifo \in Seq(Bytes) /\ pos \in Nat
    BY DEF I2cInv, I2cTypeOK
  <1>3. /\ pos' = pos + 1
        /\ IF pos + 1 = Len(fifo)
             THEN Finish
             ELSE UNCHANGED <<pend_stat, pend_finish, armed, slave>>
        /\ UNCHANGED <<fifo, tx_active, rx_active, wire, job, todo>>
        /\ got' = IF pos' = pos THEN got ELSE Append(got, fifo[pos'])
    BY <1>1 DEF IsrRead, ReadData
  <1>4. got' = Append(got, fifo[pos + 1])
    BY <1>2, <1>3
  <1>5. Append(SubSeq(fifo, 1, pos), fifo[pos + 1]) = SubSeq(fifo, 1, pos + 1)
    BY <1>1, <1>2
  <1>6. got' = SubSeq(fifo', 1, pos')
    BY <1>1, <1>3, <1>4, <1>5
  <1>7. CASE pos + 1 = Len(fifo)
    <2>1. Finish
      BY <1>3, <1>7
    <2>2. pend_finish' /\ slave' = NoSlave /\ pend_stat' = {"ARDY"}
      BY <1>1, <2>1 DEF Finish, Defer
    <2>3. got' = fifo
      BY <1>2, <1>3, <1>6, <1>7
    <2>4. Outcome'
      BY <1>1, <1>3, <2>3 DEF Outcome
    <2>5. Ending'
      BY <1>1, <1>3, <1>7, <2>2, <2>4 DEF Ending
    <2> QED BY <2>5
  <1>8. CASE pos + 1 # Len(fifo)
    <2>1. pos' < Len(fifo')
      BY <1>1, <1>2, <1>3, <1>8
    <2>2. UNCHANGED <<pend_stat, pend_finish, armed, slave>>
      BY <1>3, <1>8
    <2>3. Reading'
      BY <1>1, <1>3, <1>6, <2>1, <2>2 DEF Reading
    <2> QED BY <2>3
  <1> QED BY <1>7, <1>8

LEMMA IsrReadPhase ==
    ASSUME DriverInv, DriverTypeOK', I2cInv', IsrRead
    PROVE  PhaseOK'
  <1>1. /\ pc = "isr" /\ pc' = "isr" /\ seen' = seen \ {"RRDY"}
        /\ UNCHANGED <<job, todo, sem, con, fifo, tx_remaining, tx_active, rx_active, wire>>
        /\ stat' = stat \cup Level
    BY DEF IsrRead, ReadData
  <1>2. Handling /\ job \in Jobs /\ I2cInv /\ sem = 0
    BY <1>1 DEF DriverInv, PhaseOK, DriverTypeOK, Handling
  <1>3. stat' = stat
    BY <1>1, <1>2 DEF I2cInv, IrqFollowsStat
  <1>4. CASE Reading
    <2>1. Active
      BY <1>2, <1>4 DEF Handling, Ended, Quiet, Reading
    <2>2. Reading' \/ Ending'
      BY <1>2, <1>4, ReadingStep
    <2>3. Active'
      BY <1>1, <1>3, <2>1, <2>2 DEF Active
    <2>4. ~Fetching'
      BY <2>2, <2>3, NotFetching, PTL
    <2> QED BY <1>1, <1>2, <2>3, <2>4 DEF PhaseOK, Handling
  <1>5. CASE ~Reading
    <2>1. ~(rx_active /\ pos < Len(fifo))
      <3>1. pos \in Nat /\ Len(fifo) \in Nat
        BY <1>2 DEF I2cInv, I2cTypeOK
      <3>2. Writing \/ Ending \/ Quiet
        BY <1>2, <1>5, NotFetching DEF Handling, Ended
      <3> QED BY <3>1, <3>2 DEF Writing, Ending, Quiet
    <2>2. UNCHANGED <<pos, pend_stat, pend_finish, armed, slave, got>>
      BY <2>1 DEF IsrRead, ReadData
    <2>3. CASE Active /\ ~Fetching
      <3>1. Active' /\ (Writing' \/ Reading' \/ Ending')
        BY <1>1, <1>3, <2>2, <2>3, PhaseKept, NotFetching
      <3>2. ~Fetching'
        BY <3>1, NotFetching, PTL
      <3> QED BY <1>1, <1>2, <3>1, <3>2 DEF PhaseOK, Handling
    <2>4. CASE Ended
      <3>1. Ended'
        BY <1>1, <1>3, <2>2, <2>4, PhaseKept
      <3>2. CASE Signalling(stat) /\ seen \cap Signals = {}
        <4>1. Signalling(stat)' /\ seen' \cap Signals = {}
          BY <1>1, <1>3, <3>2 DEF Signalling
        <4> QED BY <1>1, <1>2, <3>1, <4>1 DEF PhaseOK, Handling, Signals
      <3>3. CASE Signalling(seen) /\ stat \subseteq seen \cup {"XRDY", "RRDY"}
        <4>1. Signalling(seen)' /\ stat' \subseteq seen' \cup {"XRDY", "RRDY"}
          BY <1>1, <1>3, <3>3 DEF Signalling
        <4> QED BY <1>1, <1>2, <3>1, <4>1 DEF PhaseOK, Handling
      <3>4. ~Active \/ ~Fetching
        BY <2>4 DEF Fetching, Ended, Quiet
      <3> QED BY <1>2, <2>3, <3>2, <3>3, <3>4 DEF Handling
    <2> QED BY <1>2, <2>3, <2>4 DEF Handling
  <1> QED BY <1>4, <1>5

(* The handler's end: it signals once, when the transfer has ended.        *)
LEMMA IsrEndPhase ==
    ASSUME DriverInv, DriverTypeOK', I2cInv', IsrEnd
    PROVE  PhaseOK'
  <1> DEFINE mask == seen \cup {"XRDY", "RRDY"}
             bf   == IF "BF" \in seen THEN 1 ELSE 0
             ardy == IF "ARDY" \in seen /\ job.n = 0 /\ ~job.stop THEN 1 ELSE 0
  <1>1. /\ pc = "isr" /\ pc' = "wait" /\ seen' = {}
        /\ UNCHANGED <<job, todo, got>>
        /\ WriteStat(mask) /\ stat' \cap mask \subseteq Level'
        /\ sem' = sem + bf + ardy
    BY DEF IsrEnd
  <1>2. Handling /\ job \in Jobs /\ I2cInv /\ sem = 0
    BY <1>1 DEF DriverInv, PhaseOK, DriverTypeOK, Handling
  <1>3. /\ stat' = (stat \ mask) \cup Level'
        /\ UNCHANGED <<ie, cnt, con, sa, fifo, pos, tx_remaining, tx_active, rx_active,
                       pend_stat, pend_finish, armed, slave, wire>>
    BY <1>1, AckedStat
  <1>4. Level' = Level /\ Level \subseteq {"XRDY", "RRDY"} /\ Level \subseteq stat
    BY <1>2, <1>3 DEF Level, I2cInv, IrqFollowsStat
  <1>5. stat' \subseteq stat /\ stat' \cup seen' \subseteq stat \cup seen
    BY <1>1, <1>3, <1>4
  <1>6. CASE Active
    <2>1. Active'
      BY <1>1, <1>3, <1>5, <1>6, PhaseKept
    <2>2. "BF" \notin seen /\ "ARDY" \notin seen
      BY <1>6 DEF Active, Signals
    <2>3. sem' = 0
      BY <1>1, <1>2, <2>2
    <2> QED BY <1>1, <2>1, <2>3 DEF PhaseOK, Waiting
  <1>7. CASE Ended /\ Signalling(stat) /\ seen \cap Signals = {}
    <2>1. Ended'
      BY <1>1, <1>3, <1>5, <1>7, PhaseKept
    <2>2. "BF" \notin seen /\ "ARDY" \notin seen
      BY <1>7 DEF Signals
    <2>3. sem' = 0
      BY <1>1, <1>2, <2>2
    <2>4. Signalling(stat)'
      BY <1>1, <1>3, <1>4, <1>7, <2>2 DEF Signalling
    <2> QED BY <1>1, <2>1, <2>3, <2>4 DEF PhaseOK, Waiting
  <1>8. CASE Ended /\ Signalling(seen) /\ stat \subseteq seen \cup {"XRDY", "RRDY"}
    <2>1. Ended'
      BY <1>1, <1>3, <1>5, <1>8, PhaseKept
    <2>2. Level = {}
      BY <1>8 DEF Level, Ended, Quiet
    <2>3. stat' \cap Enabled = {}
      BY <1>3, <1>4, <1>8, <2>2
    <2>4. /\ job.n \in Nat /\ job.stop \in BOOLEAN
          /\ job.n > 0 => job.stop
          /\ "ARDY" \in seen /\ ("BF" \in seen <=> job.stop)
      BY <1>2, <1>8, JobFacts DEF Signalling
    <2>5. sem' = 1
      <3>1. CASE job.stop
        BY <1>1, <1>2, <2>4, <3>1
      <3>2. CASE ~job.stop
        BY <1>1, <1>2, <2>4, <3>2
      <3> QED BY <3>1, <3>2
    <2> QED BY <1>1, <2>1, <2>3, <2>5 DEF PhaseOK, Waiting
  <1> QED BY <1>2, <1>6, <1>7, <1>8 DEF Handling

(* The semaphore is taken and the driver is idle again.                    *)
LEMMA WakePhase ==
    ASSUME DriverInv, Wake
    PROVE  PhaseOK'
  <1>1. /\ pc = "wait" /\ pc' = "idle" /\ sem > 0 /\ sem' = sem - 1
        /\ UNCHANGED <<stat, armed, tx_active, rx_active, slave>>
    BY DEF Wake, i2c
  <1>2. sem = 1 /\ Ended /\ stat \cap Enabled = {}
    BY <1>1 DEF DriverInv, PhaseOK, Waiting
  <1> QED BY <1>1, <1>2 DEF PhaseOK, Preparing, Ended, Quiet

(* The completion timer, in the driver's unmasked code.                    *)
LEMMA TimerPhase ==
    ASSUME DriverInv, DriverTypeOK', I2cInv', TimerFires
    PROVE  PhaseOK'
  <1>1. /\ pc \in {"idle", "wait", "isr"} /\ armed /\ Done
        /\ UNCHANGED <<job, pc, todo, got, seen, sem>>
    BY DEF TimerFires, Done, driver
  <1>2. pc \in {"wait", "isr"}
    BY <1>1 DEF DriverInv, PhaseOK, Preparing, Quiet
  <1>3. Active /\ sem = 0 /\ (Fetching => pc = "wait") /\ I2cTypeOK /\ job \in Jobs
    BY <1>1, <1>2 DEF DriverInv, PhaseOK, Waiting, Handling, Ended, Quiet, I2cInv, DriverTypeOK
  <1>4. Fetching \/ Ending
    BY <1>1, <1>3 DEF Active, Writing, Reading
  <1>5. CASE Fetching
    <2>1. /\ armed' = FALSE
          /\ UNCHANGED <<con, fifo, pos, tx_active, rx_active, slave, wire>>
          /\ stat' = stat \cup {"RRDY"} \cup Level'
      BY <1>1, <1>5 DEF Done, Fetching, UpdateIrq
    <2>2. Level' \subseteq {"XRDY", "RRDY"}
      BY DEF Level
    <2>3. SubSeq(fifo, 1, 0) = <<>>
      BY <1>3 DEF I2cTypeOK
    <2>4. pos < Len(fifo) /\ got = SubSeq(fifo, 1, pos)
      BY <1>5, <2>3 DEF Fetching
    <2>5. Reading'
      BY <1>1, <1>5, <2>1, <2>4 DEF Fetching, Reading
    <2>6. Active'
      BY <1>1, <1>3, <2>1, <2>2, <2>5 DEF Active, Signals
    <2> QED BY <1>1, <1>3, <1>5, <2>6 DEF PhaseOK, Waiting
  <1>6. CASE Ending
    <2>1. /\ armed' = FALSE /\ tx_active' = FALSE /\ rx_active' = FALSE
          /\ UNCHANGED <<slave, wire>>
          /\ stat' = (stat \ {"XRDY", "BB"}) \cup pend_stat
                       \cup (IF "STP" \in con THEN {"BF"} ELSE {}) \cup Level'
      BY <1>1, <1>6 DEF Done, Ending, UpdateIrq
    <2>2. Level' = {}
      BY <2>1 DEF Level
    <2>3. "ARDY" \in pend_stat /\ pend_stat \subseteq {"ARDY", "NACK"}
      BY <1>6 DEF Ending
    <2>4. Outcome'
      BY <1>1, <1>6, <2>1 DEF Ending, Outcome
    <2>5. Ended'
      BY <1>1, <1>6, <2>1, <2>2, <2>3, <2>4 DEF Ending, Ended, Quiet
    <2>6. "BF" \notin stat /\ ("STP" \in con <=> job.stop) /\ seen \cap Signals = {}
      BY <1>3 DEF Active, Signals
    <2>7. Signalling(stat)'
      BY <1>1, <2>1, <2>2, <2>3, <2>6 DEF Signalling
    <2> QED BY <1>1, <1>2, <1>3, <2>5, <2>6, <2>7 DEF PhaseOK, Waiting, Handling, Signals
  <1> QED BY <1>4, <1>5, <1>6
-----------------------------------------------------------------------------
(* Every step of the driver and of the timer finds the controller in the   *)
(* phase the driver takes it to be in.                                     *)
THEOREM DriverCorrect == DriverSpec => []DriverInv
  <1>1. DriverInit => DriverInv
    <2> SUFFICES ASSUME DriverInit PROVE DriverInv
      OBVIOUS
    <2>1. I2cInit
      BY DEF DriverInit
    <2>2. fifo \in Seq(Bytes) /\ Len(fifo) <= FIFO /\ pos \in 0..Len(fifo) /\ wire \in Seq(Bytes)
      BY <2>1, EmptyFifo DEF I2cInit
    <2>3. Level = {} /\ Transfer
      BY <2>1 DEF I2cInit, Level, Transfer, CompletionArmed, WriteNotStuck, BusHeld
    <2>4. I2cInv
      BY <2>1, <2>2, <2>3 DEF I2cInit, I2cTypeOK, IrqFollowsStat, I2cInv
    <2>5. DriverTypeOK
      BY DEF DriverInit, DriverTypeOK
    <2>6. PhaseOK
      BY <2>1 DEF DriverInit, I2cInit, PhaseOK, Preparing, Quiet
    <2> QED BY <2>4, <2>5, <2>6 DEF DriverInv
  <1>2. DriverInv /\ [DriverNext]_all => DriverInv'
    <2> SUFFICES ASSUME DriverInv, [DriverNext]_all PROVE DriverInv'
      OBVIOUS
    <2>1. I2cInv' /\ DriverTypeOK'
      BY DriverKeepsI2c, DriverTyped
    <2>2. CASE Boot \/ SetAddress \/ SetCount \/ \E j \in Jobs : Begin(j)
      BY <2>1, <2>2, PreparePhase DEF DriverInv
    <2>3. CASE WriteByte \/ IsrWrite
      BY <2>1, <2>3, PreparePhase, WritePhase DEF WriteByte, DriverInv
    <2>4. CASE Go
      BY <2>1, <2>4, GoPhase DEF DriverInv
    <2>5. CASE ClearStatus
      BY <2>1, <2>5, ClearPhase DEF DriverInv
    <2>6. CASE Interrupt
      BY <2>1, <2>6, InterruptPhase DEF DriverInv
    <2>7. CASE IsrRead
      BY <2>1, <2>7, IsrReadPhase DEF DriverInv
    <2>8. CASE IsrEnd
      BY <2>1, <2>8, IsrEndPhase DEF DriverInv
    <2>9. CASE Wake
      BY <2>1, <2>9, WakePhase DEF DriverInv
    <2>10. CASE TimerFires
      BY <2>1, <2>10, TimerPhase DEF DriverInv
    <2>11. CASE UNCHANGED all
      <3>1. UNCHANGED <<job, pc, todo, got, seen, sem>> /\ UNCHANGED i2c
        BY <2>11 DEF all, driver
      <3> QED BY <2>1, <3>1
              DEF i2c, DriverInv, PhaseOK, Preparing, Quiet, Waiting, Handling, Active, Ended,
                  Signalling, Writing, Fetching, Reading, Ending, Outcome
    <2> QED BY <2>2, <2>3, <2>4, <2>5, <2>6, <2>7, <2>8, <2>9, <2>10, <2>11
            DEF DriverNext, DriverStep
  <1> QED BY <1>1, <1>2, PTL DEF DriverSpec

(* One signal per transfer, whatever the order of handler and timer: an    *)
(* idle driver has no count on its semaphore, no interrupt, no pending     *)
(* completion and a free bus.                                              *)
THEOREM NoStaleSignalThm == DriverSpec => []NoStaleSignal
  <1>1. DriverInv => NoStaleSignal
    BY DEF DriverInv, DriverTypeOK, PhaseOK, Preparing, Quiet, I2cInv, IrqFollowsStat,
           NoStaleSignal
  <1> QED BY DriverCorrect, <1>1, PTL

(* When the semaphore is signalled, the transfer is complete.              *)
THEOREM SignalledIsDoneThm == DriverSpec => []SignalledIsDone
  <1>1. DriverInv => SignalledIsDone
    BY DEF DriverInv, PhaseOK, Waiting, Ended, Outcome, SignalledIsDone
  <1> QED BY DriverCorrect, <1>1, PTL
=============================================================================
