----------------------------- MODULE SdmaProofs -----------------------------
(***************************************************************************)
(* Safety of the DMA controller for any number of channels and outputs,    *)
(* any step size and any word size.                                        *)
(***************************************************************************)
EXTENDS Sdma, TLAPS

(* What a running channel has moved and what it has left add up to what    *)
(* sdma_start latched.                                                     *)
Counting ==
    \A c \in Chans : active[c] => moved[c] + remaining[c] = total[c] % WORD

SdmaInv ==
    /\ SdmaTypeOK
    /\ EngineRuns
    /\ EnabledIsActive
    /\ CompletionIsWhole
    /\ LinesFollowStatus
    /\ Counting
-----------------------------------------------------------------------------
(* The 32-bit product: in range, and exact when it fits.                   *)
LEMMA Wrap ==
    ASSUME NEW a \in Nat
    PROVE  /\ a % WORD \in 0..WORD - 1
           /\ a < WORD => a % WORD = a
BY SdmaAssumption

(* A step moves no more than there is and no more than it may, and a step  *)
(* between memories moves all it may.                                      *)
LEMMA MovesBounded ==
    ASSUME NEW k \in Kinds, NEW count \in Nat, NEW max \in Nat,
           NEW n \in Moves(k, count, max)
    PROVE  /\ n \in Nat
           /\ n <= count
           /\ n <= max
           /\ (k # "port" /\ count <= max) => n = count
BY DEF Moves

(* The controller is powered up in a correct state.                        *)
LEMMA InitCorrect == SdmaInit => SdmaInv
<1> SUFFICES ASSUME SdmaInit PROVE SdmaInv
    OBVIOUS
<1>1. 0 % WORD = 0
    BY Wrap, SdmaAssumption
<1>2. SdmaTypeOK
    <2>1. remaining \in [Chans -> 0..WORD - 1]
        BY SdmaAssumption DEF SdmaInit
    <2>2. /\ kind \in [Chans -> Kinds]
          /\ total \in [Chans -> Nat]
          /\ moved \in [Chans -> Nat]
        BY DEF SdmaInit, Kinds
    <2>3. /\ irqstatus \in [Outputs -> SUBSET Chans]
          /\ irqenable \in [Outputs -> SUBSET Chans]
        BY DEF SdmaInit
    <2> QED
        BY <2>1, <2>2, <2>3 DEF SdmaInit, SdmaTypeOK
<1>3. EngineRuns /\ EnabledIsActive /\ CompletionIsWhole
    BY DEF SdmaInit, EngineRuns, EnabledIsActive, CompletionIsWhole
<1>4. LinesFollowStatus
    BY DEF SdmaInit, LinesFollowStatus
<1>5. Counting
    BY DEF SdmaInit, Counting
<1> QED
    BY <1>2, <1>3, <1>4, <1>5 DEF SdmaInv

(* sdma_update_irq makes the outputs right, whatever came before.          *)
LEMMA UpdateIrqCorrect ==
    ASSUME UpdateIrq
    PROVE  /\ irq' \in [Outputs -> BOOLEAN]
           /\ LinesFollowStatus'
BY DEF UpdateIrq, LinesFollowStatus

(* sdma_complete keeps the types, the outputs and ENABLE right.            *)
LEMMA CompleteCorrect ==
    ASSUME SdmaInv,
           NEW started \in SUBSET Chans, NEW ended \in SUBSET Chans,
           Complete(started, ended)
    PROVE  /\ enable' \in [Chans -> BOOLEAN]
           /\ active' \in [Chans -> BOOLEAN]
           /\ cicr' \in [Chans -> BOOLEAN]
           /\ csr' \in [Chans -> BOOLEAN]
           /\ irqstatus' \in [Outputs -> SUBSET Chans]
           /\ irqenable' \in [Outputs -> SUBSET Chans]
           /\ irq' \in [Outputs -> BOOLEAN]
           /\ LinesFollowStatus'
           /\ EnabledIsActive'
<1>1. /\ irq' \in [Outputs -> BOOLEAN]
      /\ LinesFollowStatus'
    BY UpdateIrqCorrect DEF Complete
<1>2. /\ enable' \in [Chans -> BOOLEAN]
      /\ active' \in [Chans -> BOOLEAN]
      /\ cicr' \in [Chans -> BOOLEAN]
      /\ csr' \in [Chans -> BOOLEAN]
    BY Zenon DEF Complete, SdmaInv, SdmaTypeOK
<1>3. irqstatus' \in [Outputs -> SUBSET Chans]
    BY DEF Complete, SdmaInv, SdmaTypeOK
<1>4. irqenable' \in [Outputs -> SUBSET Chans]
    BY DEF Complete, SdmaInv, SdmaTypeOK
<1>5. EnabledIsActive'
    BY DEF Complete, SdmaInv, EnabledIsActive
<1> QED
    BY <1>1, <1>2, <1>3, <1>4, <1>5
-----------------------------------------------------------------------------
(* sdma_start.                                                             *)
LEMMA StartCorrect ==
    ASSUME SdmaInv, NEW c \in Chans, NEW k \in Kinds, NEW elements \in Totals,
           Start(c, k, elements)
    PROVE  SdmaInv'
<1> DEFINE count == elements % WORD
           max   == IF k = "memory" THEN BURST ELSE STEP
<1>1. elements \in Nat
    BY SdmaAssumption
<1>2. /\ count \in 0..WORD - 1
      /\ elements < WORD => count = elements
    BY <1>1, Wrap
<1>3. max \in Nat
    BY SdmaAssumption
<1> PICK n \in Moves(k, count, max) :
              /\ remaining' = [remaining EXCEPT ![c] = count - n]
              /\ moved' = [moved EXCEPT ![c] = n]
              /\ Complete({c}, {d \in {c} : n = count})
              /\ engine' = (engine \/ (k # "memory" /\ n # count))
    BY DEF Start
<1> DEFINE ended == {d \in {c} : n = count}
<1>4. /\ n \in Nat
      /\ n <= count
      /\ (k # "port" /\ count <= max) => n = count
    <2>1. count \in Nat
        BY <1>2, SdmaAssumption
    <2> HIDE DEF count, max
    <2> QED
        BY <1>3, <2>1, MovesBounded
<1>5. /\ kind' = [kind EXCEPT ![c] = k]
      /\ total' = [total EXCEPT ![c] = elements]
      /\ ~enable[c]
    BY DEF Start
<1> HIDE DEF count, max
<1>6. /\ enable' \in [Chans -> BOOLEAN]
      /\ active' \in [Chans -> BOOLEAN]
      /\ cicr' \in [Chans -> BOOLEAN]
      /\ csr' \in [Chans -> BOOLEAN]
      /\ irqstatus' \in [Outputs -> SUBSET Chans]
      /\ irqenable' \in [Outputs -> SUBSET Chans]
      /\ irq' \in [Outputs -> BOOLEAN]
      /\ LinesFollowStatus'
      /\ EnabledIsActive'
    <2>1. {c} \in SUBSET Chans /\ ended \in SUBSET Chans
        OBVIOUS
    <2> QED
        BY <2>1, CompleteCorrect
<1>7. SdmaTypeOK'
    <2>1. remaining' \in [Chans -> 0..WORD - 1]
        BY <1>2, <1>4, SdmaAssumption DEF SdmaInv, SdmaTypeOK
    <2>2. /\ moved' \in [Chans -> Nat]
          /\ total' \in [Chans -> Nat]
          /\ kind' \in [Chans -> Kinds]
        BY <1>1, <1>4, <1>5 DEF SdmaInv, SdmaTypeOK
    <2>3. engine' \in BOOLEAN
        BY DEF SdmaInv, SdmaTypeOK
    <2> QED
        BY <1>6, <2>1, <2>2, <2>3 DEF SdmaTypeOK
<1>8. ASSUME NEW d \in Chans, d # c
      PROVE  /\ active'[d] = active[d]
             /\ csr'[d] = csr[d]
             /\ total'[d] = total[d]
             /\ moved'[d] = moved[d]
             /\ remaining'[d] = remaining[d]
    <2>1. total'[d] = total[d] /\ moved'[d] = moved[d] /\ remaining'[d] = remaining[d]
        BY <1>5, <1>8 DEF SdmaInv, SdmaTypeOK
    <2>2. active'[d] = active[d] /\ csr'[d] = csr[d]
        BY <1>8 DEF Complete, SdmaInv, SdmaTypeOK
    <2> QED
        BY <2>1, <2>2
<1>9. /\ active'[c] <=> n # count
      /\ csr'[c] <=> n = count
    BY DEF Complete
<1>10. /\ total'[c] = elements
       /\ moved'[c] = n
       /\ remaining'[c] = count - n
    BY <1>5 DEF SdmaInv, SdmaTypeOK
<1>11. EngineRuns'
    <2> SUFFICES ASSUME NEW d \in Chans, active'[d], total'[d] <= BURST
                 PROVE  engine'
        BY DEF EngineRuns
    <2>1. CASE d = c
        <3>1. n # count
            BY <1>9, <2>1
        <3>2. k # "memory"
            <4> SUFFICES ASSUME k = "memory" PROVE FALSE
                OBVIOUS
            <4>1. elements <= BURST /\ elements < WORD
                BY <1>1, <1>10, <2>1, SdmaAssumption
            <4>2. count <= max
                BY <1>2, <4>1 DEF max
            <4> QED
                BY <1>4, <3>1, <4>2
        <3> QED
            BY <3>1, <3>2
    <2>2. CASE d # c
        BY <1>8, <2>2 DEF SdmaInv, EngineRuns
    <2> QED
        BY <2>1, <2>2
<1>12. CompletionIsWhole'
    <2> SUFFICES ASSUME NEW d \in Chans, csr'[d], total'[d] < WORD
                 PROVE  ~active'[d] /\ moved'[d] = total'[d]
        BY DEF CompletionIsWhole
    <2>1. CASE d = c
        BY <1>2, <1>9, <1>10, <2>1
    <2>2. CASE d # c
        BY <1>8, <2>2 DEF SdmaInv, CompletionIsWhole
    <2> QED
        BY <2>1, <2>2
<1>13. Counting'
    <2> SUFFICES ASSUME NEW d \in Chans, active'[d]
                 PROVE  moved'[d] + remaining'[d] = total'[d] % WORD
        BY DEF Counting
    <2>1. CASE d = c
        BY <1>2, <1>4, <1>10, <2>1, SdmaAssumption DEF count
    <2>2. CASE d # c
        BY <1>8, <2>2 DEF SdmaInv, Counting
    <2> QED
        BY <2>1, <2>2
<1> QED
    BY <1>6, <1>7, <1>11, <1>12, <1>13 DEF SdmaInv

(* sdma_engine.                                                            *)
LEMMA EngineCorrect ==
    ASSUME SdmaInv, Engine
    PROVE  SdmaInv'
<1> PICK n \in [Chans -> 0..STEP] :
        /\ \A c \in Chans :
              n[c] \in IF active[c] THEN Moves(kind[c], remaining[c], STEP) ELSE {0}
        /\ remaining' = [c \in Chans |-> remaining[c] - n[c]]
        /\ moved' = [c \in Chans |-> moved[c] + n[c]]
    BY DEF Engine, StepAll
<1>1. /\ Complete({}, Ended)
      /\ engine' = (\E c \in Chans : active'[c])
      /\ UNCHANGED <<kind, total>>
    BY DEF Engine
<1>2. Ended \in SUBSET Chans
    BY DEF Ended
<1>3. /\ enable' \in [Chans -> BOOLEAN]
      /\ active' \in [Chans -> BOOLEAN]
      /\ cicr' \in [Chans -> BOOLEAN]
      /\ csr' \in [Chans -> BOOLEAN]
      /\ irqstatus' \in [Outputs -> SUBSET Chans]
      /\ irqenable' \in [Outputs -> SUBSET Chans]
      /\ irq' \in [Outputs -> BOOLEAN]
      /\ LinesFollowStatus'
      /\ EnabledIsActive'
    BY <1>1, <1>2, CompleteCorrect
<1>4. ASSUME NEW c \in Chans
      PROVE  /\ n[c] \in Nat
             /\ n[c] <= remaining[c]
             /\ ~active[c] => n[c] = 0
    <2>1. /\ remaining[c] \in Nat
          /\ kind[c] \in Kinds
          /\ STEP \in Nat
        BY SdmaAssumption DEF SdmaInv, SdmaTypeOK
    <2>2. CASE active[c]
        <3>1. n[c] \in Moves(kind[c], remaining[c], STEP)
            BY <2>2
        <3> QED
            BY <2>1, <2>2, <3>1, MovesBounded
    <2>3. CASE ~active[c]
        BY <2>1, <2>3
    <2> QED
        BY <2>2, <2>3
<1>5. SdmaTypeOK'
    <2>1. remaining' \in [Chans -> 0..WORD - 1]
        BY <1>4, SdmaAssumption DEF SdmaInv, SdmaTypeOK
    <2>2. moved' \in [Chans -> Nat]
        BY <1>4 DEF SdmaInv, SdmaTypeOK
    <2>3. total' \in [Chans -> Nat] /\ kind' \in [Chans -> Kinds]
        BY <1>1 DEF SdmaInv, SdmaTypeOK
    <2>4. engine' \in BOOLEAN
        BY <1>1
    <2> QED
        BY <1>3, <2>1, <2>2, <2>3, <2>4 DEF SdmaTypeOK
<1>6. EngineRuns'
    BY <1>1 DEF EngineRuns
<1>7. ASSUME NEW c \in Chans
      PROVE  /\ active'[c] <=> active[c] /\ c \notin Ended
             /\ csr'[c] <=> csr[c] \/ c \in Ended
             /\ c \in Ended <=> active[c] /\ remaining'[c] = 0
             /\ total'[c] = total[c]
             /\ moved'[c] = moved[c] + n[c]
             /\ remaining'[c] = remaining[c] - n[c]
    BY <1>1 DEF Complete, Ended
<1>8. ASSUME NEW c \in Chans, active[c]
      PROVE  moved'[c] + remaining'[c] = total'[c] % WORD
    <2>1. /\ moved[c] + remaining[c] = total[c] % WORD
          /\ moved[c] \in Nat
          /\ remaining[c] \in Nat
        BY <1>8 DEF SdmaInv, Counting, SdmaTypeOK
    <2> QED
        BY <1>4, <1>7, <2>1
<1>9. CompletionIsWhole'
    <2> SUFFICES ASSUME NEW c \in Chans, csr'[c], total'[c] < WORD
                 PROVE  ~active'[c] /\ moved'[c] = total'[c]
        BY DEF CompletionIsWhole
    <2>1. /\ total[c] \in Nat
          /\ moved[c] \in Nat
        BY DEF SdmaInv, SdmaTypeOK
    <2>2. CASE c \in Ended
        <3>1. moved'[c] + 0 = total[c] % WORD
            BY <1>7, <1>8, <2>2
        <3>2. total[c] % WORD = total[c]
            BY <1>7, <2>1, Wrap
        <3> QED
            BY <1>4, <1>7, <2>1, <2>2, <3>1, <3>2
    <2>3. CASE c \notin Ended
        <3>1. ~active[c] /\ moved[c] = total[c]
            BY <1>7, <2>3 DEF SdmaInv, CompletionIsWhole
        <3> QED
            BY <1>4, <1>7, <2>1, <3>1
    <2> QED
        BY <2>2, <2>3
<1>10. Counting'
    BY <1>7, <1>8 DEF Counting
<1> QED
    BY <1>3, <1>5, <1>6, <1>9, <1>10 DEF SdmaInv
-----------------------------------------------------------------------------
(* A channel that is stopped.                                              *)
LEMMA StopCorrect ==
    ASSUME SdmaInv, NEW c \in Chans, Stop(c)
    PROVE  SdmaInv'
<1> USE DEF Stop, Forget
<1>1. SdmaTypeOK'
    BY DEF SdmaInv, SdmaTypeOK
<1>2. ASSUME NEW d \in Chans
      PROVE  /\ active'[d] <=> active[d] /\ d # c
             /\ enable'[d] <=> enable[d] /\ d # c
             /\ d # c => total'[d] = total[d] /\ moved'[d] = moved[d]
             /\ d = c => total'[d] = 0 /\ moved'[d] = 0
    BY DEF SdmaInv, SdmaTypeOK
<1>3. EngineRuns' /\ EnabledIsActive' /\ CompletionIsWhole'
    BY <1>2 DEF SdmaInv, EngineRuns, EnabledIsActive, CompletionIsWhole
<1>4. LinesFollowStatus'
    BY DEF SdmaInv, LinesFollowStatus
<1>5. Counting'
    BY <1>2 DEF SdmaInv, Counting
<1> QED
    BY <1>1, <1>3, <1>4, <1>5 DEF SdmaInv

(* CSR written.                                                            *)
LEMMA ClearCsrCorrect ==
    ASSUME SdmaInv, NEW c \in Chans, ClearCsr(c)
    PROVE  SdmaInv'
<1> USE DEF ClearCsr, Forget
<1>1. SdmaTypeOK'
    BY DEF SdmaInv, SdmaTypeOK
<1>2. ASSUME NEW d \in Chans
      PROVE  /\ csr'[d] <=> csr[d] /\ d # c
             /\ (d # c \/ active[d]) => total'[d] = total[d] /\ moved'[d] = moved[d]
    BY DEF SdmaInv, SdmaTypeOK
<1>3. EngineRuns' /\ EnabledIsActive' /\ CompletionIsWhole'
    BY <1>2 DEF SdmaInv, EngineRuns, EnabledIsActive, CompletionIsWhole
<1>4. LinesFollowStatus'
    BY DEF SdmaInv, LinesFollowStatus
<1>5. Counting'
    BY <1>2 DEF SdmaInv, Counting
<1> QED
    BY <1>1, <1>3, <1>4, <1>5 DEF SdmaInv

(* The interrupt registers, the channel interrupt enable and steps that    *)
(* change nothing leave the channels alone.                                *)
LEMMA ChannelsAlone ==
    ASSUME SdmaInv,
           UNCHANGED <<enable, active, kind, remaining, csr, engine, total, moved>>
    PROVE  EngineRuns' /\ EnabledIsActive' /\ CompletionIsWhole' /\ Counting'
BY DEF SdmaInv, EngineRuns, EnabledIsActive, CompletionIsWhole, Counting

(* ClearIrqStatus and WriteIrqEnable.                                      *)
LEMMA IrqRegistersCorrect ==
    ASSUME SdmaInv, NEW o \in Outputs, NEW val \in ChanMasks,
           ClearIrqStatus(o, val) \/ WriteIrqEnable(o, val)
    PROVE  SdmaInv'
<1>1. UpdateIrq
    BY DEF ClearIrqStatus, WriteIrqEnable
<1>2. irq' \in [Outputs -> BOOLEAN] /\ LinesFollowStatus'
    BY <1>1, UpdateIrqCorrect
<1>3. UNCHANGED <<enable, active, kind, remaining, cicr, csr, engine, total, moved>>
    BY DEF ClearIrqStatus, WriteIrqEnable
<1>4. val \subseteq Chans
    BY SdmaAssumption
<1>5. /\ irqstatus' \in [Outputs -> SUBSET Chans]
      /\ irqenable' \in [Outputs -> SUBSET Chans]
    BY <1>4 DEF ClearIrqStatus, WriteIrqEnable, SdmaInv, SdmaTypeOK
<1>6. SdmaTypeOK'
    BY <1>2, <1>3, <1>5 DEF SdmaInv, SdmaTypeOK
<1> QED
    BY <1>2, <1>3, <1>6, ChannelsAlone DEF SdmaInv

(* CICR.                                                                   *)
LEMMA WriteCicrCorrect ==
    ASSUME SdmaInv, NEW c \in Chans, NEW val \in BOOLEAN, WriteCicr(c, val)
    PROVE  SdmaInv'
<1>1. SdmaTypeOK'
    BY DEF WriteCicr, SdmaInv, SdmaTypeOK
<1>2. LinesFollowStatus'
    BY DEF WriteCicr, SdmaInv, LinesFollowStatus
<1> QED
    BY <1>1, <1>2, ChannelsAlone DEF WriteCicr, SdmaInv

(* sdma_reset.                                                             *)
LEMMA ResetCorrect ==
    ASSUME SdmaReset
    PROVE  SdmaInv'
<1>1. SdmaTypeOK'
    <2>1. remaining' \in [Chans -> 0..WORD - 1]
        BY SdmaAssumption DEF SdmaReset
    <2>2. /\ kind' \in [Chans -> Kinds]
          /\ total' \in [Chans -> Nat]
          /\ moved' \in [Chans -> Nat]
        BY DEF SdmaReset, Kinds
    <2>3. /\ irqstatus' \in [Outputs -> SUBSET Chans]
          /\ irqenable' \in [Outputs -> SUBSET Chans]
        BY DEF SdmaReset
    <2> QED
        BY <2>1, <2>2, <2>3 DEF SdmaReset, SdmaTypeOK
<1>2. EngineRuns' /\ EnabledIsActive' /\ CompletionIsWhole' /\ Counting'
    BY DEF SdmaReset, EngineRuns, EnabledIsActive, CompletionIsWhole, Counting
<1>3. LinesFollowStatus'
    BY DEF SdmaReset, LinesFollowStatus
<1> QED
    BY <1>1, <1>2, <1>3 DEF SdmaInv
-----------------------------------------------------------------------------
(* The DMA controller is safe under any guest: no running channel is       *)
(* forgotten by the engine, ENABLE tells whether a channel runs,           *)
(* completion means that all was moved, and the outputs are never stale.   *)
THEOREM SdmaCorrect == SdmaSpec => []SdmaInv
<1>1. SdmaInv /\ [SdmaNext]_sdma => SdmaInv'
    <2> SUFFICES ASSUME SdmaInv, [SdmaNext]_sdma PROVE SdmaInv'
        OBVIOUS
    <2>1. ASSUME NEW c \in Chans, NEW k \in Kinds, NEW elements \in Totals,
                 Start(c, k, elements)
          PROVE  SdmaInv'
        BY <2>1, StartCorrect
    <2>2. ASSUME NEW c \in Chans, Stop(c) PROVE SdmaInv'
        BY <2>2, StopCorrect
    <2>3. ASSUME NEW c \in Chans, NEW val \in BOOLEAN, WriteCicr(c, val)
          PROVE  SdmaInv'
        BY <2>3, WriteCicrCorrect
    <2>4. ASSUME NEW c \in Chans, ClearCsr(c) PROVE SdmaInv'
        BY <2>4, ClearCsrCorrect
    <2>5. ASSUME NEW o \in Outputs, NEW val \in ChanMasks,
                 ClearIrqStatus(o, val) \/ WriteIrqEnable(o, val)
          PROVE  SdmaInv'
        BY <2>5, IrqRegistersCorrect
    <2>6. CASE Engine
        BY <2>6, EngineCorrect
    <2>7. CASE SdmaReset
        BY <2>7, ResetCorrect
    <2>8. CASE UNCHANGED sdma
        <3>1. SdmaTypeOK' /\ LinesFollowStatus'
            BY <2>8 DEF sdma, SdmaInv, SdmaTypeOK, LinesFollowStatus
        <3> QED
            BY <2>8, <3>1, ChannelsAlone DEF sdma, SdmaInv
    <2> QED
        BY <2>1, <2>2, <2>3, <2>4, <2>5, <2>6, <2>7, <2>8 DEF SdmaNext
<1> QED
    BY <1>1, InitCorrect, PTL DEF SdmaSpec

(* A running channel is never forgotten by the shared engine timer.        *)
THEOREM EngineRunsThm == SdmaSpec => []EngineRuns
<1>1. SdmaInv => EngineRuns
    BY DEF SdmaInv
<1> QED
    BY <1>1, SdmaCorrect, PTL

(* Completion bits mean a whole transfer.                                  *)
THEOREM CompletionIsWholeThm == SdmaSpec => []CompletionIsWhole
<1>1. SdmaInv => CompletionIsWhole
    BY DEF SdmaInv
<1> QED
    BY <1>1, SdmaCorrect, PTL

(* A guest that reads CCR.ENABLE set is looking at a channel the engine    *)
(* still works on.                                                         *)
THEOREM EnabledIsActiveThm == SdmaSpec => []EnabledIsActive
<1>1. SdmaInv => EnabledIsActive
    BY DEF SdmaInv
<1> QED
    BY <1>1, SdmaCorrect, PTL
=============================================================================
