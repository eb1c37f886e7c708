----------------------------- MODULE I2cDriver -----------------------------
(***************************************************************************)
(* The I2C master and the firmware's driver for it.                        *)
(*                                                                         *)
(* The driver is guest code, outside the repository.  It is modelled from  *)
(* what the comments at done_timer and in omap4_i2c_done_cb say it does:   *)
(* it sets up a transfer, may write data before and after STT, and clears  *)
(* the status, all with interrupts masked, and then waits on a semaphore;  *)
(* its interrupt handler signals the semaphore on BF always and on ARDY    *)
(* only for a write without STOP.  The masked section is shorter than the  *)
(* time of a byte (I2C_BYTE_NS), so the timer does not fire inside it.     *)
(***************************************************************************)
EXTENDS I2c

CONSTANTS
    Jobs,  \* transfers the firmware asks for
    NoJob

(* n: bytes to read, 0 for a write; a read always ends with a STOP.        *)
JobType == [addr : Addrs, out : Seq(Bytes), n : Nat, stop : BOOLEAN]

ASSUME JobsAssumption ==
    /\ Jobs \subseteq JobType
    /\ NoJob \notin JobType
    /\ \A j \in Jobs :
          \/ j.n = 0 /\ j.out # <<>>
          \/ j.n \in 1..FIFO /\ j.out = <<>> /\ j.stop

VARIABLES
    job,   \* the transfer in progress
    pc,    \* where the driver is
    todo,  \* bytes it has still to write
    got,   \* bytes it has read
    seen,  \* status the interrupt handler works on
    sem    \* count of the completion semaphore

driver == <<job, pc, todo, got, seen, sem>>

Enabled == StatBits \ {"BB"}

DriverInit ==
    /\ I2cInit
    /\ job = NoJob
    /\ pc = "boot"
    /\ todo = <<>> /\ got = <<>>
    /\ seen = {}
    /\ sem = 0

Boot ==
    /\ pc = "boot"
    /\ WriteIe(Enabled) /\ ie' = Enabled
    /\ pc' = "idle"
    /\ UNCHANGED <<job, todo, got, seen, sem>>
-----------------------------------------------------------------------------
(* The masked section of a transfer, one register access a step.           *)
Begin(j) ==
    /\ pc = "idle"
    /\ ClearFifo
    /\ job' = j
    /\ todo' = j.out
    /\ got' = <<>>
    /\ pc' = "addr"
    /\ UNCHANGED <<seen, sem>>

SetAddress ==
    /\ pc = "addr"
    /\ WriteSa(job.addr)
    /\ pc' = "count"
    /\ UNCHANGED <<job, todo, got, seen, sem>>

SetCount ==
    /\ pc = "count"
    /\ WriteCnt(IF job.n = 0 THEN Len(job.out) ELSE job.n)
    /\ pc' = "queue"
    /\ UNCHANGED <<job, todo, got, seen, sem>>

(* A byte queued before STT, while the FIFO has room, or sent after it.    *)
WriteByte ==
    /\ \/ pc = "queue" /\ Len(fifo) < FIFO
       \/ pc = "fill" /\ "XRDY" \in stat
    /\ todo # <<>>
    /\ WriteData(Head(todo))
    /\ todo' = Tail(todo)
    /\ UNCHANGED <<job, pc, got, seen, sem>>

Go ==
    /\ pc = "queue"
    /\ WriteCon({"EN", "MST", "STT"} \cup (IF job.n = 0 THEN {"TRX"} ELSE {})
                                     \cup (IF job.stop THEN {"STP"} ELSE {}))
    /\ pc' = "fill"
    /\ UNCHANGED <<job, todo, got, seen, sem>>

ClearStatus ==
    /\ pc = "fill"
    /\ WriteStat(StatBits) /\ stat' \subseteq Level'
    /\ pc' = "wait"
    /\ UNCHANGED <<job, todo, got, seen, sem>>
-----------------------------------------------------------------------------
(* The interrupt handler.                                                  *)
Interrupt ==
    /\ pc = "wait"
    /\ irq
    /\ ReadRegister
    /\ seen' = stat'
    /\ pc' = "isr"
    /\ UNCHANGED <<job, todo, got, sem>>

IsrWrite ==
    /\ pc = "isr"
    /\ "XRDY" \in seen
    /\ todo # <<>>
    /\ WriteData(Head(todo))
    /\ todo' = Tail(todo)
    /\ seen' = seen \ {"XRDY"}
    /\ UNCHANGED <<job, pc, got, sem>>

IsrRead ==
    /\ pc = "isr"
    /\ "RRDY" \in seen
    /\ ReadData
    /\ got' = IF pos' = pos THEN got ELSE Append(got, fifo[pos'])
    /\ seen' = seen \ {"RRDY"}
    /\ UNCHANGED <<job, pc, todo, sem>>

(* What is left of the status is acknowledged.  The data bits are cleared  *)
(* with it and are raised again while their condition holds.               *)
IsrEnd ==
    /\ pc = "isr"
    /\ "RRDY" \notin seen
    /\ "XRDY" \in seen => todo = <<>>
    /\ LET mask == seen \cup {"XRDY", "RRDY"}
       IN  WriteStat(mask) /\ stat' \cap mask \subseteq Level'
    /\ sem' = sem + (IF "BF" \in seen THEN 1 ELSE 0)
                  + (IF "ARDY" \in seen /\ job.n = 0 /\ ~job.stop THEN 1 ELSE 0)
    /\ seen' = {}
    /\ pc' = "wait"
    /\ UNCHANGED <<job, todo, got>>

(* The waiting task takes the semaphore and its transfer is over.          *)
Wake ==
    /\ pc = "wait"
    /\ sem > 0
    /\ sem' = sem - 1
    /\ pc' = "idle"
    /\ job' = NoJob
    /\ UNCHANGED <<todo, got, seen>>
    /\ UNCHANGED i2c

(* The completion timer.                                                   *)
TimerFires ==
    /\ pc \in {"idle", "wait", "isr"}
    /\ Done
    /\ UNCHANGED driver
-----------------------------------------------------------------------------
DriverStep ==
    \/ SetAddress \/ SetCount \/ WriteByte \/ Go \/ ClearStatus
    \/ Interrupt \/ IsrWrite \/ IsrRead \/ IsrEnd \/ Wake

DriverNext ==
    \/ Boot
    \/ \E j \in Jobs : Begin(j)
    \/ DriverStep
    \/ TimerFires

all == <<i2c, driver>>

(* The driver's code runs, interrupts are taken and QEMU runs timers.      *)
DriverSpec ==
    /\ DriverInit /\ [][DriverNext]_all
    /\ WF_all(DriverStep)
    /\ WF_all(TimerFires)
-----------------------------------------------------------------------------
(* One signal per transfer: no transfer leaves a count on the semaphore,   *)
(* which would let the next one return early (comment in                   *)
(* omap4_i2c_done_cb).  Between transfers the line is low, no completion   *)
(* is pending, and the bus is free for another slave.                      *)
NoStaleSignal ==
    pc = "idle" => (sem = 0 /\ ~irq /\ ~armed /\ slave = NoSlave)

(* A transfer whose semaphore is signalled is really complete: a write has *)
(* put all its bytes on the bus, a read has returned exactly what the      *)
(* slave sent, or nobody answered at the address.                          *)
SignalledIsDone ==
    (pc = "wait" /\ sem > 0) =>
        \/ job.addr \notin Slaves /\ wire = <<>>
        \/ job.n = 0 /\ wire = job.out
        \/ job.n > 0 /\ wire = got /\ Len(got) = job.n

(* Every transfer completes: no interrupt is lost between the masked       *)
(* section, the handler and the deferred completion.                       *)
TransferCompletes == pc = "addr" ~> pc = "idle"
=============================================================================
