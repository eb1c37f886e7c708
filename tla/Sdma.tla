-------------------------------- MODULE Sdma --------------------------------
(***************************************************************************)
(* The system DMA controller (qemu/hw/arm/garmin_gpsmap.c, "OMAP4 system   *)
(* DMA").                                                                  *)
(*                                                                         *)
(* A channel is programmed and then started by setting ENABLE; what it is  *)
(* to move is latched at that moment, so the registers it is taken from    *)
(* are parameters of Start.  A transfer from memory to memory runs at      *)
(* once; one paced by a request line, or one with an HSMMC data port at an *)
(* end, is carried on in steps by one timer that all channels share.  The  *)
(* data port belongs to QEMU's SDHCI: it may stall before any element.     *)
(* Addresses and data are left out; a port address stays constant during   *)
(* a transfer.                                                             *)
(***************************************************************************)
EXTENDS Integers

CONSTANTS
    Chans,      \* the channels (SDMA_NCH)
    Outputs,    \* the interrupt outputs
    Totals,     \* numbers of elements asked for: products of CEN and CFN
    ChanMasks,  \* what the guest may write to an interrupt register
    STEP,       \* elements per step of the engine, 4096
    BURST,      \* INT32_MAX
    WORD        \* 2^32

ASSUME SdmaAssumption ==
    /\ Totals \subseteq Nat
    /\ ChanMasks \subseteq SUBSET Chans
    /\ STEP \in Nat \ {0}
    /\ BURST \in Nat \ {0}
    /\ WORD \in Nat \ {0}
    /\ BURST < WORD

VARIABLES
    enable,     \* CCR_ENABLE of each channel
    active,     \* the channel is running
    kind,       \* what the channel was last started as
    remaining,  \* elements left, as the channel counts them
    cicr,       \* the channel's completion interrupt is enabled
    csr,        \* the channel's completion bits FRAME, BLOCK and LAST
    irqstatus,  \* irqstatus[o]
    irqenable,  \* irqenable[o]
    irq,        \* level of each interrupt output
    engine,     \* the engine timer is armed
    total,      \* ghost: elements asked for in the channel's transfer, 0
                \* when it has been stopped or its completion taken note of
    moved       \* ghost: elements moved in it

sdma == <<enable, active, kind, remaining, cicr, csr, irqstatus, irqenable, irq,
          engine, total, moved>>

Kinds == {"memory", "paced", "port"}

SdmaTypeOK ==
    /\ enable \in [Chans -> BOOLEAN]
    /\ active \in [Chans -> BOOLEAN]
    /\ kind \in [Chans -> Kinds]
    /\ remaining \in [Chans -> 0..WORD - 1]
    /\ cicr \in [Chans -> BOOLEAN]
    /\ csr \in [Chans -> BOOLEAN]
    /\ irqstatus \in [Outputs -> SUBSET Chans]
    /\ irqenable \in [Outputs -> SUBSET Chans]
    /\ irq \in [Outputs -> BOOLEAN]
    /\ engine \in BOOLEAN
    /\ total \in [Chans -> Nat]
    /\ moved \in [Chans -> Nat]

SdmaInit ==
    /\ enable = [c \in Chans |-> FALSE]
    /\ active = [c \in Chans |-> FALSE]
    /\ kind = [c \in Chans |-> "memory"]
    /\ remaining = [c \in Chans |-> 0]
    /\ cicr = [c \in Chans |-> FALSE]
    /\ csr = [c \in Chans |-> FALSE]
    /\ irqstatus = [o \in Outputs |-> {}]
    /\ irqenable = [o \in Outputs |-> {}]
    /\ irq = [o \in Outputs |-> FALSE]
    /\ engine = FALSE
    /\ total = [c \in Chans |-> 0]
    /\ moved = [c \in Chans |-> 0]
-----------------------------------------------------------------------------
(* sdma_update_irq.                                                        *)
UpdateIrq == irq' = [o \in Outputs |-> irqstatus'[o] \cap irqenable'[o] # {}]

(* sdma_complete for the channels `ended', in a handler that has started   *)
(* the channels `started'.                                                 *)
Complete(started, ended) ==
    /\ active' = [c \in Chans |-> (active[c] \/ c \in started) /\ c \notin ended]
    /\ enable' = [c \in Chans |-> (enable[c] \/ c \in started) /\ c \notin ended]
    /\ csr' = [c \in Chans |-> (csr[c] /\ c \notin started) \/ c \in ended]
    /\ irqstatus' = [o \in Outputs |-> irqstatus[o] \cup {c \in ended : cicr[c]}]
    /\ UNCHANGED <<irqenable, cicr>>
    /\ UpdateIrq

(* The ghosts of channel c are reset.                                      *)
Forget(c) ==
    /\ total' = [total EXCEPT ![c] = 0]
    /\ moved' = [moved EXCEPT ![c] = 0]

(* What sdma_step may move of `count' elements: as many as `max' allows,   *)
(* or any smaller number when a data port stalls.                          *)
Moves(k, count, max) ==
    LET most == IF count < max THEN count ELSE max
    IN  IF k = "port" THEN 0..most ELSE {most}

-----------------------------------------------------------------------------
(* Mutant: the completion bits of the last transfer are left standing.     *)
StartKeepsCsr(c, k, elements) ==
    LET count == elements % WORD
        max   == IF k = "memory" THEN BURST ELSE STEP
    IN  /\ ~enable[c]
        /\ kind' = [kind EXCEPT ![c] = k]
        /\ total' = [total EXCEPT ![c] = elements]
        /\ \E n \in Moves(k, count, max) :
              /\ remaining' = [remaining EXCEPT ![c] = count - n]
              /\ moved' = [moved EXCEPT ![c] = n]
              /\ active' = [active EXCEPT ![c] = n # count]
              /\ enable' = [enable EXCEPT ![c] = n # count]
              /\ csr' = [csr EXCEPT ![c] = @ \/ n = count]
              /\ engine' = (engine \/ (k # "memory" /\ n # count))
        /\ UNCHANGED <<cicr, irqstatus, irqenable, irq>>

(* A CCR write that sets ENABLE: sdma_start.  `n' elements are moved in    *)
(* the handler itself; none when the count is zero.                        *)
Start(c, k, elements) ==
    LET count == elements % WORD
        max   == IF k = "memory" THEN BURST ELSE STEP
    IN  /\ ~enable[c]
        /\ kind' = [kind EXCEPT ![c] = k]
        /\ total' = [total EXCEPT ![c] = elements]
        /\ \E n \in Moves(k, count, max) :
              /\ remaining' = [remaining EXCEPT ![c] = count - n]
              /\ moved' = [moved EXCEPT ![c] = n]
              /\ Complete({c}, {d \in {c} : n = count})
              /\ engine' = (engine \/ (k # "memory" /\ n # count))

(* Mutant: the channel is only marked, and runs on.                        *)
StopLater(c) ==
    /\ enable[c]
    /\ enable' = [enable EXCEPT ![c] = FALSE]
    /\ UNCHANGED <<active, kind, remaining, cicr, csr, irqstatus, irqenable, irq,
                   engine, total, moved>>

(* A CCR write that clears ENABLE.  The engine finds out by itself.        *)
Stop(c) ==
    /\ enable[c]
    /\ enable' = [enable EXCEPT ![c] = FALSE]
    /\ active' = [active EXCEPT ![c] = FALSE]
    /\ Forget(c)
    /\ UNCHANGED <<kind, remaining, cicr, csr, irqstatus, irqenable, irq, engine>>

(* sdma_step for every running channel.                                    *)
StepAll ==
    \E n \in [Chans -> 0..STEP] :
        /\ \A c \in Chans :
              n[c] \in IF active[c] THEN Moves(kind[c], remaining[c], STEP) ELSE {0}
        /\ remaining' = [c \in Chans |-> remaining[c] - n[c]]
        /\ moved' = [c \in Chans |-> moved[c] + n[c]]

Ended == {c \in Chans : active[c] /\ remaining'[c] = 0}

(* Mutant: the timer is armed again only if an element was moved.          *)
EngineStalls ==
    /\ engine
    /\ StepAll
    /\ Complete({}, Ended)
    /\ engine' = (\E c \in Chans : active'[c] /\ moved'[c] # moved[c])
    /\ UNCHANGED <<kind, total>>

(* sdma_engine: one step of every running channel, and again if any of     *)
(* them still runs.                                                        *)
Engine ==
    /\ engine
    /\ StepAll
    /\ Complete({}, Ended)
    /\ engine' = (\E c \in Chans : active'[c])
    /\ UNCHANGED <<kind, total>>

WriteCicr(c, val) ==
    /\ cicr' = [cicr EXCEPT ![c] = val]
    /\ UNCHANGED <<enable, active, kind, remaining, csr, irqstatus, irqenable, irq,
                   engine, total, moved>>

(* CSR is write-one-to-clear; the interrupt status is not touched.         *)
ClearCsr(c) ==
    /\ csr' = [csr EXCEPT ![c] = FALSE]
    /\ IF active[c] THEN UNCHANGED <<total, moved>> ELSE Forget(c)
    /\ UNCHANGED <<enable, active, kind, remaining, cicr, irqstatus, irqenable, irq,
                   engine>>

ClearIrqStatus(o, val) ==
    /\ irqstatus' = [irqstatus EXCEPT ![o] = @ \ val]
    /\ UNCHANGED <<enable, active, kind, remaining, cicr, csr, irqenable, engine,
                   total, moved>>
    /\ UpdateIrq

WriteIrqEnable(o, val) ==
    /\ irqenable' = [irqenable EXCEPT ![o] = val]
    /\ UNCHANGED <<enable, active, kind, remaining, cicr, csr, irqstatus, engine,
                   total, moved>>
    /\ UpdateIrq

(* sdma_reset, with the interrupt controller, which drops the lines.       *)
SdmaReset ==
    /\ enable' = [c \in Chans |-> FALSE]
    /\ active' = [c \in Chans |-> FALSE]
    /\ kind' = [c \in Chans |-> "memory"]
    /\ remaining' = [c \in Chans |-> 0]
    /\ cicr' = [c \in Chans |-> FALSE]
    /\ csr' = [c \in Chans |-> FALSE]
    /\ irqstatus' = [o \in Outputs |-> {}]
    /\ irqenable' = [o \in Outputs |-> {}]
    /\ irq' = [o \in Outputs |-> FALSE]
    /\ engine' = FALSE
    /\ total' = [c \in Chans |-> 0]
    /\ moved' = [c \in Chans |-> 0]
-----------------------------------------------------------------------------
SdmaNext ==
    \/ \E c \in Chans :
          \/ \E k \in Kinds, elements \in Totals : Start(c, k, elements)
          \/ Stop(c)
          \/ \E val \in BOOLEAN : WriteCicr(c, val)
          \/ ClearCsr(c)
    \/ \E o \in Outputs, val \in ChanMasks :
          \/ ClearIrqStatus(o, val)
          \/ WriteIrqEnable(o, val)
    \/ Engine
    \/ SdmaReset

(* The engine gets on with channel c.                                      *)
Progress(c) == Engine /\ moved'[c] # moved[c]

(* QEMU runs expired timers, and a data port that was stalled becomes      *)
(* ready again: the card delivers or takes its next block.                 *)
SdmaFairness == WF_sdma(Engine) /\ \A c \in Chans : SF_sdma(Progress(c))

SdmaSpec == SdmaInit /\ [][SdmaNext]_sdma /\ SdmaFairness
-----------------------------------------------------------------------------
(* A running channel is never forgotten: the shared engine timer is armed  *)
(* as long as any channel runs, whichever channels complete, are stopped   *)
(* or are started in between.  A transfer of more than INT32_MAX elements  *)
(* is left out: sdma_start moves INT32_MAX of them and arms no timer.      *)
EngineRuns == \A c \in Chans : (active[c] /\ total[c] <= BURST) => engine

(* ENABLE reads as set exactly while the channel runs: a guest that polls  *)
(* it for the end sees it, and a finished channel can be started again.    *)
EnabledIsActive == \A c \in Chans : enable[c] <=> active[c]

(* The completion bits are those of the transfer last started, and mean    *)
(* that every element of it was moved, through stalls of the data port and *)
(* steps shared with other channels; for counts that fit 32 bits.          *)
CompletionIsWhole ==
    \A c \in Chans :
        (csr[c] /\ total[c] < WORD) => (~active[c] /\ moved[c] = total[c])

(* Every interrupt output is the OR of its enabled status bits.            *)
LinesFollowStatus ==
    \A o \in Outputs : irq[o] <=> irqstatus[o] \cap irqenable[o] # {}

(* A running channel comes to its end.                                     *)
ChannelCompletes ==
    \A c \in Chans : (active[c] /\ total[c] <= BURST) ~> ~active[c]
=============================================================================
