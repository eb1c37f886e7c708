--------------------------- MODULE MailboxProofs ---------------------------
(***************************************************************************)
(* The mailbox invariants for any number of mailboxes, users and words and *)
(* any FIFO depth.                                                         *)
(***************************************************************************)
EXTENDS MailboxEcho, SequenceTheorems, TLAPS

(* The inductive invariant: the typing, and the three properties, each of  *)
(* which is preserved with the help of the typing alone.                   *)
MailboxInv ==
    /\ TypeOK
    /\ NewmsgIsLevel
    /\ LineFollowsRegisters
    /\ NoStrandedRequest

(* The line vector computed by mbox_update_irq is well typed and is the    *)
(* one LineFollowsRegisters asks for.                                      *)
LEMMA LinesCorrect ==
    ASSUME NEW status, NEW enable
    PROVE  /\ Lines(status, enable) \in [Users -> BOOLEAN]
           /\ \A u \in Users :
                 Lines(status, enable)[u] <=> status[u] \cap enable[u] # {}
  BY DEF Lines

(* The status bits are told apart by kind and by mailbox.                  *)
LEMMA BitsDistinct ==
    /\ \A m \in Mboxes : NEWMSG(m) \in Bits /\ NOTFULL(m) \in Bits
    /\ \A m, n \in Mboxes : NEWMSG(m) # NOTFULL(n)
    /\ \A m, n \in Mboxes : NEWMSG(m) = NEWMSG(n) <=> m = n
  BY DEF NEWMSG, NOTFULL, Bits

(* What mbox_push does to the status registers.                            *)
LEMMA PushStatus ==
    ASSUME NEW status \in [Users -> SUBSET Bits], NEW m \in Mboxes
    PROVE  /\ StatusAfterPush(status, m) \in [Users -> SUBSET Bits]
           /\ \A u \in Users, n \in Mboxes :
                 NEWMSG(n) \in StatusAfterPush(status, m)[u]
                    <=> (n = m \/ NEWMSG(n) \in status[u])
  <1>1. StatusAfterPush(status, m) \in [Users -> SUBSET Bits]
    BY BitsDistinct DEF StatusAfterPush
  <1>2. ASSUME NEW u \in Users, NEW n \in Mboxes
        PROVE  NEWMSG(n) \in StatusAfterPush(status, m)[u]
                    <=> (n = m \/ NEWMSG(n) \in status[u])
    BY BitsDistinct DEF StatusAfterPush
  <1> QED BY <1>1, <1>2

(* What mbox_pop does to them.                                             *)
LEMMA PopStatus ==
    ASSUME NEW status \in [Users -> SUBSET Bits], NEW m \in Mboxes, NEW rest
    PROVE  /\ StatusAfterPop(status, m, rest) \in [Users -> SUBSET Bits]
           /\ \A u \in Users, n \in Mboxes :
                 NEWMSG(n) \in StatusAfterPop(status, m, rest)[u]
                    <=> /\ NEWMSG(n) \in status[u]
                        /\ ~(n = m /\ rest = <<>>)
  <1>1. StatusAfterPop(status, m, rest) \in [Users -> SUBSET Bits]
    BY BitsDistinct DEF StatusAfterPop
  <1>2. ASSUME NEW u \in Users, NEW n \in Mboxes
        PROVE  NEWMSG(n) \in StatusAfterPop(status, m, rest)[u]
                    <=> /\ NEWMSG(n) \in status[u]
                        /\ ~(n = m /\ rest = <<>>)
    BY BitsDistinct DEF StatusAfterPop
  <1> QED BY <1>1, <1>2

(* The pieces mbox_ducati_reply cuts TX into.                              *)
LEMMA TakeParts ==
    ASSUME TypeOK
    PROVE  /\ Taken \in Nat
           /\ Taken <= Len(fifo[TX])
           /\ Collected \in Seq(Words)
           /\ Len(Collected) = Len(req) + Taken
           /\ Len(Collected) <= DEPTH
           /\ Len(Collected) < DEPTH => Taken = Len(fifo[TX])
           /\ Rest \in Seq(Words)
           /\ Len(Rest) = Len(fifo[TX]) - Taken
           /\ Taken = 0 => Rest = fifo[TX]
  <1> USE MailboxAssumption DEF TypeOK
  <1>1. /\ fifo[TX] \in Seq(Words) /\ Len(fifo[TX]) \in Nat
        /\ req \in Seq(Words) /\ Len(req) \in Nat /\ Len(req) < DEPTH
        /\ Len(fifo[TX]) <= DEPTH
    OBVIOUS
  <1>2. /\ Taken \in Nat /\ Taken <= Len(fifo[TX])
        /\ Len(req) + Taken <= DEPTH
        /\ Len(req) + Taken < DEPTH => Taken = Len(fifo[TX])
    BY <1>1 DEF Taken
  <1>3. /\ SubSeq(fifo[TX], 1, Taken) \in Seq(Words)
        /\ Len(SubSeq(fifo[TX], 1, Taken)) = Taken
    BY <1>1, <1>2
  <1>4. /\ Collected \in Seq(Words)
        /\ Len(Collected) = Len(req) + Taken
    BY <1>1, <1>2, <1>3 DEF Collected
  <1>5. /\ Rest \in Seq(Words)
        /\ Len(Rest) = Len(fifo[TX]) - Taken
    BY <1>1, <1>2 DEF Rest
  <1>6. Taken = 0 => Rest = fifo[TX]
    BY <1>1 DEF Rest
  <1> QED BY <1>2, <1>4, <1>5, <1>6

(* The initial state satisfies the invariant.                              *)
LEMMA InitInv == Init => MailboxInv
  <1> SUFFICES ASSUME Init PROVE MailboxInv
    OBVIOUS
  <1>1. TypeOK
    <2>1. /\ <<>> \in Seq(Words) /\ Len(<<>>) = 0 /\ DEPTH > 0
      BY MailboxAssumption
    <2>2. req \in Seq(Words) /\ Len(req) < DEPTH
      BY <2>1 DEF Init
    <2>3. /\ fifo \in [Mboxes -> Seq(Words)]
          /\ \A m \in Mboxes : Len(fifo[m]) <= DEPTH
      BY <2>1, MailboxAssumption DEF Init
    <2>4. irqstatus \in [Users -> SUBSET Bits] /\ irqenable \in [Users -> SUBSET Bits]
      BY DEF Init
    <2>5. irq \in [Users -> BOOLEAN] /\ timer \in BOOLEAN
      BY DEF Init
    <2> QED BY <2>2, <2>3, <2>4, <2>5 DEF TypeOK
  <1>2. NewmsgIsLevel
    BY DEF Init, NewmsgIsLevel
  <1>3. LineFollowsRegisters
    BY DEF Init, LineFollowsRegisters
  <1>4. NoStrandedRequest
    BY MailboxAssumption DEF Init, NoStrandedRequest
  <1> QED BY <1>1, <1>2, <1>3, <1>4 DEF MailboxInv

(* Every register access, reset and timer callback preserves it.           *)
LEMMA StepInv == MailboxInv /\ [Next]_regs => MailboxInv'
  <1> SUFFICES ASSUME MailboxInv, [Next]_regs PROVE MailboxInv'
    OBVIOUS
  <1> USE MailboxAssumption
  <1>a. /\ fifo \in [Mboxes -> Seq(Words)]
        /\ \A m \in Mboxes : Len(fifo[m]) <= DEPTH /\ Len(fifo[m]) \in Nat
        /\ irqstatus \in [Users -> SUBSET Bits]
        /\ irqenable \in [Users -> SUBSET Bits]
        /\ req \in Seq(Words) /\ Len(req) < DEPTH /\ Len(req) \in Nat
        /\ timer \in BOOLEAN
        /\ NoStrandedRequest /\ NewmsgIsLevel
    BY DEF MailboxInv, TypeOK
  <1>l. ASSUME irq' = Lines(irqstatus', irqenable')
        PROVE  irq' \in [Users -> BOOLEAN] /\ LineFollowsRegisters'
    BY <1>l, LinesCorrect DEF LineFollowsRegisters
  <1>1. ASSUME NEW m \in Mboxes, NEW w \in Words, WriteMessage(m, w)
        PROVE  MailboxInv'
    <2>1. /\ Pushed(fifo[m], w) \in Seq(Words)
          /\ Len(Pushed(fifo[m], w)) <= DEPTH
          /\ Len(Pushed(fifo[m], w)) \in Nat \ {0}
      BY <1>a DEF Pushed
    <2>2. Pushed(fifo[m], w) # <<>>
      BY <2>1
    <2>3. fifo' \in [Mboxes -> Seq(Words)]
      BY <1>1, <1>a, <2>1 DEF WriteMessage
    <2>4. \A n \in Mboxes : Len(fifo'[n]) <= DEPTH
      BY <1>1, <1>a, <2>1 DEF WriteMessage
    <2>5. irqstatus' \in [Users -> SUBSET Bits]
      BY <1>1, <1>a, PushStatus DEF WriteMessage
    <2>6. NewmsgIsLevel'
      BY <1>1, <1>a, <2>2, PushStatus DEF WriteMessage, NewmsgIsLevel
    <2>7. timer' \in BOOLEAN /\ NoStrandedRequest'
      BY <1>1, <1>a DEF WriteMessage, NoStrandedRequest
    <2>8. irq' \in [Users -> BOOLEAN] /\ LineFollowsRegisters'
      BY <1>1, <1>l DEF WriteMessage
    <2>9. irqenable' = irqenable /\ req' = req
      BY <1>1 DEF WriteMessage
    <2> QED BY <1>a, <2>3, <2>4, <2>5, <2>6, <2>7, <2>8, <2>9 DEF MailboxInv, TypeOK
  <1>2. ASSUME NEW m \in Mboxes, ReadMessage(m)
        PROVE  MailboxInv'
    <2>1. /\ Tail(fifo[m]) \in Seq(Words)
          /\ Len(Tail(fifo[m])) = Len(fifo[m]) - 1
      BY <1>2, <1>a DEF ReadMessage
    <2>3. fifo' \in [Mboxes -> Seq(Words)]
      BY <1>2, <1>a, <2>1 DEF ReadMessage
    <2>4. \A n \in Mboxes : Len(fifo'[n]) <= DEPTH /\ Len(fifo'[n]) <= Len(fifo[n])
      BY <1>2, <1>a, <2>1 DEF ReadMessage
    <2>5. irqstatus' \in [Users -> SUBSET Bits]
      BY <1>2, <1>a, PopStatus DEF ReadMessage
    <2>6. NewmsgIsLevel'
      BY <1>2, <1>a, PopStatus DEF ReadMessage, NewmsgIsLevel
    <2>7. irqenable' = irqenable /\ req' = req /\ timer' = timer
      BY <1>2 DEF ReadMessage
    <2>8. NoStrandedRequest'
      <3>1. Len(fifo'[TX]) \in Nat /\ Len(fifo'[TX]) <= Len(fifo[TX])
        BY <2>3, <2>4
      <3> QED BY <1>a, <2>7, <3>1 DEF NoStrandedRequest
    <2>9. irq' \in [Users -> BOOLEAN] /\ LineFollowsRegisters'
      BY <1>2, <1>l DEF ReadMessage
    <2> QED BY <1>a, <2>3, <2>4, <2>5, <2>6, <2>7, <2>8, <2>9 DEF MailboxInv, TypeOK
  <1>3. ASSUME NEW u \in Users, NEW val \in Masks, ClearIrqStatus(u, val)
        PROVE  MailboxInv'
    <2>1. irqstatus' \in [Users -> SUBSET Bits]
      BY <1>3, <1>a DEF ClearIrqStatus
    <2>2. NewmsgIsLevel'
      <3> SUFFICES ASSUME NEW v \in Users, NEW m \in Mboxes
                   PROVE  NEWMSG(m) \in irqstatus'[v] <=> fifo'[m] # <<>>
        BY DEF NewmsgIsLevel
      <3>1. fifo' = fifo
        BY <1>3 DEF ClearIrqStatus
      <3>2. NEWMSG(m) \in irqstatus[v] <=> fifo[m] # <<>>
        BY <1>a DEF NewmsgIsLevel
      <3>3. fifo[m] # <<>> =>
              NEWMSG(m) \in {NEWMSG(n) : n \in {k \in Mboxes : fifo[k] # <<>>}}
        OBVIOUS
      <3> QED BY <1>3, <1>a, <3>1, <3>2, <3>3 DEF ClearIrqStatus
    <2>3. /\ fifo' = fifo /\ irqenable' = irqenable
          /\ req' = req /\ timer' = timer
      BY <1>3 DEF ClearIrqStatus
    <2>4. irq' \in [Users -> BOOLEAN] /\ LineFollowsRegisters'
      BY <1>3, <1>l DEF ClearIrqStatus
    <2> QED BY <1>a, <2>1, <2>2, <2>3, <2>4 DEF MailboxInv, TypeOK, NoStrandedRequest
  <1>4. ASSUME NEW u \in Users, NEW val \in Masks,
               SetIrqEnable(u, val) \/ ClearIrqEnable(u, val)
        PROVE  MailboxInv'
    <2>1. irqenable' \in [Users -> SUBSET Bits]
      BY <1>4, <1>a, MasksAssumption DEF SetIrqEnable, ClearIrqEnable
    <2>2. /\ fifo' = fifo /\ irqstatus' = irqstatus
          /\ req' = req /\ timer' = timer
      BY <1>4 DEF SetIrqEnable, ClearIrqEnable
    <2>3. irq' \in [Users -> BOOLEAN] /\ LineFollowsRegisters'
      BY <1>4, <1>l DEF SetIrqEnable, ClearIrqEnable
    <2> QED BY <1>a, <2>1, <2>2, <2>3
            DEF MailboxInv, TypeOK, NoStrandedRequest, NewmsgIsLevel
  <1>5. ASSUME SoftReset \/ MachineReset
        PROVE  MailboxInv'
    <2>1. /\ fifo' = [m \in Mboxes |-> <<>>]
          /\ irqstatus' = [u \in Users |-> {}]
          /\ irqenable' = [u \in Users |-> {}]
          /\ req' = <<>> /\ timer' \in BOOLEAN
      BY <1>5, <1>a DEF SoftReset, MachineReset
    <2>2. /\ <<>> \in Seq(Words) /\ Len(<<>>) = 0 /\ DEPTH > 0
      OBVIOUS
    <2>3. irq' \in [Users -> BOOLEAN] /\ LineFollowsRegisters'
      <3>1. CASE SoftReset
        BY <3>1, <1>l DEF SoftReset
      <3>2. CASE MachineReset
        BY <3>2, <2>1 DEF MachineReset, LineFollowsRegisters
      <3> QED BY <1>5, <3>1, <3>2
    <2>4. NewmsgIsLevel'
      BY <2>1 DEF NewmsgIsLevel
    <2>5. NoStrandedRequest'
      BY <2>1, <2>2 DEF NoStrandedRequest
    <2> QED BY <2>1, <2>2, <2>3, <2>4, <2>5 DEF MailboxInv, TypeOK
  <1>6. ASSUME DucatiReply
        PROVE  MailboxInv'
    <2>1. /\ Taken \in Nat
          /\ Taken <= Len(fifo[TX])
          /\ Collected \in Seq(Words)
          /\ Len(Collected) = Len(req) + Taken
          /\ Len(Collected) <= DEPTH
          /\ Len(Collected) < DEPTH => Taken = Len(fifo[TX])
          /\ Rest \in Seq(Words)
          /\ Len(Rest) = Len(fifo[TX]) - Taken
          /\ Taken = 0 => Rest = fifo[TX]
      BY TakeParts DEF MailboxInv
    <2>2. /\ timer' = FALSE /\ irqenable' = irqenable
          /\ irq' = Lines(irqstatus', irqenable')
      BY <1>6 DEF DucatiReply
    <2>3. irq' \in [Users -> BOOLEAN] /\ LineFollowsRegisters'
      BY <2>2, <1>l
    <2>4. /\ StatusAfterTake \in [Users -> SUBSET Bits]
          /\ \A u \in Users, n \in Mboxes :
                NEWMSG(n) \in StatusAfterTake[u]
                    <=> IF n = TX THEN Rest # <<>> ELSE fifo[n] # <<>>
      <3>1. CASE Taken = 0
        BY <3>1, <1>a, <2>1 DEF StatusAfterTake, NewmsgIsLevel
      <3>2. CASE Taken # 0
        <4>1. fifo[TX] # <<>>
          BY <3>2, <2>1, <1>a
        <4> QED BY <3>2, <4>1, <1>a, PopStatus DEF StatusAfterTake, NewmsgIsLevel
      <3> QED BY <3>1, <3>2
    <2>5. CASE /\ Len(Collected) < DEPTH
               /\ req' = Collected
               /\ fifo' = [fifo EXCEPT ![TX] = Rest]
               /\ irqstatus' = StatusAfterTake
      <3>1. fifo' \in [Mboxes -> Seq(Words)] /\ \A n \in Mboxes : Len(fifo'[n]) <= DEPTH
        BY <2>5, <2>1, <1>a
      <3>2. NewmsgIsLevel'
        BY <2>5, <2>4, <1>a DEF NewmsgIsLevel
      <3>3. NoStrandedRequest'
        BY <2>5, <2>1, <1>a DEF NoStrandedRequest
      <3> QED BY <2>5, <2>1, <2>2, <2>3, <2>4, <3>1, <3>2, <3>3, <1>a
              DEF MailboxInv, TypeOK
    <2>6. CASE /\ Len(Collected) = DEPTH
               /\ req' = <<>>
               /\ fifo' = [fifo EXCEPT ![TX] = Rest, ![RX] = Echoed]
               /\ irqstatus' = StatusAfterPush(StatusAfterTake, RX)
      <3>1. Echoed \in Seq(Words) /\ Len(Echoed) = DEPTH
        BY <2>6, <2>1, <1>a DEF Echoed
      <3>2. fifo' \in [Mboxes -> Seq(Words)] /\ \A n \in Mboxes : Len(fifo'[n]) <= DEPTH
        <4>1. fifo' \in [Mboxes -> Seq(Words)]
          BY <2>6, <2>1, <3>1, <1>a
        <4>2. ASSUME NEW n \in Mboxes PROVE Len(fifo'[n]) <= DEPTH
          <5>1. CASE n = RX
            BY <5>1, <2>6, <3>1, <1>a
          <5>2. CASE n = TX
            BY <5>2, <2>6, <2>1, <1>a
          <5>3. CASE n # RX /\ n # TX
            BY <5>3, <2>6, <1>a
          <5> QED BY <5>1, <5>2, <5>3
        <4> QED BY <4>1, <4>2
      <3>3. irqstatus' \in [Users -> SUBSET Bits]
        BY <2>6, <2>4, PushStatus
      <3>4. NewmsgIsLevel'
        <4>1. Echoed # <<>>
          BY <3>1
        <4> QED BY <2>6, <2>4, <4>1, <1>a, PushStatus DEF NewmsgIsLevel
      <3>5. <<>> \in Seq(Words) /\ Len(<<>>) = 0
        OBVIOUS
      <3>6. NoStrandedRequest'
        BY <2>6, <2>1, <3>5, <1>a DEF NoStrandedRequest
      <3>7. req' \in Seq(Words) /\ Len(req') < DEPTH
        BY <2>6, <3>5
      <3> QED BY <2>2, <2>3, <3>2, <3>3, <3>4, <3>6, <3>7, <1>a
              DEF MailboxInv, TypeOK
    <2> QED BY <1>6, <2>5, <2>6 DEF DucatiReply
  <1>7. CASE UNCHANGED regs
    BY <1>7 DEF regs, MailboxInv, TypeOK, NewmsgIsLevel, LineFollowsRegisters,
                NoStrandedRequest
  <1> QED BY <1>1, <1>2, <1>3, <1>4, <1>5, <1>6, <1>7 DEF Next

(* Under every sequence of guest accesses, resets and timer callbacks the  *)
(* registers are well typed, NEWMSG is a level, the lines follow the       *)
(* registers and no complete request is left without a timer.              *)
THEOREM MailboxCorrect == Spec => []MailboxInv
  <1> QED BY InitInv, StepInv, PTL DEF Spec

(* The type invariant.                                                     *)
THEOREM MailboxTyped == Spec => []TypeOK
  <1>1. MailboxInv => TypeOK
    BY DEF MailboxInv
  <1> QED BY MailboxCorrect, <1>1, PTL

(* NEWMSG is set exactly while the mailbox holds a word.                   *)
THEOREM NewmsgLevelThm == Spec => []NewmsgIsLevel
  <1>1. MailboxInv => NewmsgIsLevel
    BY DEF MailboxInv
  <1> QED BY MailboxCorrect, <1>1, PTL

(* The lines are those of the registers.                                   *)
THEOREM LinesThm == Spec => []LineFollowsRegisters
  <1>1. MailboxInv => LineFollowsRegisters
    BY DEF MailboxInv
  <1> QED BY MailboxCorrect, <1>1, PTL

(* A complete request always has an armed timer behind it.                 *)
THEOREM NoStrandedRequestThm == Spec => []NoStrandedRequest
  <1>1. MailboxInv => NoStrandedRequest
    BY DEF MailboxInv
  <1> QED BY MailboxCorrect, <1>1, PTL
-----------------------------------------------------------------------------
(* The mailbox under the client's protocol.  Every step of it is one of    *)
(* the mailbox's own, so that what was proved for any guest holds here.    *)
LEMMA EchoStepIsMailboxStep == EchoNext => Next
  <1> SUFFICES ASSUME EchoNext PROVE Next
    OBVIOUS
  <1> USE MailboxAssumption, EchoAssumption
  <1>1. ASSUME NEW w \in Words, SendWord(w) PROVE Next
    BY <1>1 DEF SendWord, Next
  <1>2. CASE ReadReply
    BY <1>2 DEF ReadReply, Next
  <1>3. CASE Bystander
    BY <1>3 DEF Bystander, Next
  <1>4. CASE Stray
    BY <1>4 DEF Stray, Next
  <1>5. CASE Reset \/ Reply
    BY <1>5 DEF Reset, Reply, Next
  <1> QED BY <1>1, <1>2, <1>3, <1>4, <1>5 DEF EchoNext

(* The inductive invariant of the protocol: a client has at most its       *)
(* window outstanding, and those words are under way.                      *)
EchoInv ==
    /\ MailboxInv
    /\ want \in Seq(Words) /\ got \in Seq(Words)
    /\ Len(want) <= Window * DEPTH
    /\ EchoStream

(* A word that joins a queue joins the stream the queue ends.              *)
LEMMA StreamAppend ==
    ASSUME NEW a \in Seq(Words), NEW b \in Seq(Words), NEW w \in Words
    PROVE  a \o Append(b, w) = Append(a \o b, w)
  OBVIOUS

(* A word that moves from the head of a queue to the end of the one before *)
(* it leaves the stream as it is.                                          *)
LEMMA StreamShift ==
    ASSUME NEW a \in Seq(Words), NEW b \in Seq(Words), b # <<>>
    PROVE  Append(a, Head(b)) \o Tail(b) = a \o b
  OBVIOUS

(* Concatenation of words.                                                 *)
LEMMA ConcatWords ==
    /\ \A a, b, c \in Seq(Words) : (a \o b) \o c = a \o (b \o c)
    /\ \A a, b \in Seq(Words) : a \o b \in Seq(Words) /\ Len(a \o b) = Len(a) + Len(b)
  BY ConcatAssociative, ConcatProperties

(* So does a prefix that moves.                                            *)
LEMMA StreamMove ==
    ASSUME NEW a \in Seq(Words), NEW b \in Seq(Words), NEW k \in 0..Len(b)
    PROVE  (a \o SubSeq(b, 1, k)) \o SubSeq(b, k + 1, Len(b)) = a \o b
  <1> DEFINE x == SubSeq(b, 1, k)
             y == SubSeq(b, k + 1, Len(b))
  <1>1. x \in Seq(Words) /\ y \in Seq(Words)
    OBVIOUS
  <1>2. x \o y = b
    <2>1. 1 \in 1..Len(b) + 1 /\ k \in 1 - 1..Len(b) /\ Len(b) \in k..Len(b)
      OBVIOUS
    <2>2. x \o y = SubSeq(b, 1, Len(b))
      BY <2>1, ConcatAdjacentSubSeq
    <2> QED BY <2>2, SubSeqFull
  <1> HIDE DEF x, y
  <1>3. (a \o x) \o y = a \o (x \o y)
    BY <1>1, ConcatWords
  <1> QED BY <1>2, <1>3 DEF x, y

(* What the invariant says of the words under way.                         *)
LEMMA EchoFacts ==
    ASSUME EchoInv, session
    PROVE  /\ fifo \in [Mboxes -> Seq(Words)]
           /\ fifo[TX] \in Seq(Words) /\ fifo[RX] \in Seq(Words)
           /\ req \in Seq(Words) /\ got \in Seq(Words) /\ want \in Seq(Words)
           /\ got \o fifo[RX] \o req \o fifo[TX] = want
           /\ Len(want) <= Window * DEPTH
  <1>1. /\ fifo \in [Mboxes -> Seq(Words)] /\ req \in Seq(Words)
        /\ got \in Seq(Words) /\ want \in Seq(Words)
    BY DEF EchoInv, MailboxInv, TypeOK
  <1>2. fifo[TX] \in Seq(Words) /\ fifo[RX] \in Seq(Words)
    BY <1>1, MailboxAssumption
  <1>3. got \o fifo[RX] \o req \o fifo[TX] = want /\ Len(want) <= Window * DEPTH
    BY Zenon DEF EchoInv, EchoStream
  <1> QED BY <1>1, <1>2, <1>3

(* The reply callback under EchoInv, for a client with one request out.    *)
LEMMA ReplyStream ==
    ASSUME EchoInv, Window = 1, session, Reply
    PROVE  EchoStream'
  <1> USE MailboxAssumption
  <1>1. /\ fifo \in [Mboxes -> Seq(Words)]
        /\ fifo[TX] \in Seq(Words) /\ fifo[RX] \in Seq(Words)
        /\ req \in Seq(Words) /\ got \in Seq(Words) /\ want \in Seq(Words)
        /\ Len(want) <= DEPTH
        /\ got \o fifo[RX] \o req \o fifo[TX] = want
    <2>1. 1 * DEPTH = DEPTH
      OBVIOUS
    <2> QED BY <2>1, EchoFacts, Zenon
  <1>2. UNCHANGED <<session, want, got>> /\ DucatiReply
    BY DEF Reply
  <1>3. /\ Taken \in 0..Len(fifo[TX])
        /\ Collected \in Seq(Words)
        /\ Len(Collected) = Len(req) + Taken
        /\ Rest \in Seq(Words)
        /\ Collected \o Rest = req \o fifo[TX]
    <2>1. TypeOK
      BY DEF EchoInv, MailboxInv
    <2>2. Taken \in 0..Len(fifo[TX])
      BY <1>1, <2>1, TakeParts
    <2>3. Collected \o Rest = req \o fifo[TX]
      BY <1>1, <2>2, StreamMove DEF Collected, Rest
    <2> QED BY <2>1, <2>2, <2>3, TakeParts
  <1>4. (got \o fifo[RX]) \o (Collected \o Rest) = want
    <2>1. got \o fifo[RX] \in Seq(Words)
      BY <1>1
    <2>2. ((got \o fifo[RX]) \o req) \o fifo[TX] = (got \o fifo[RX]) \o (req \o fifo[TX])
      <3> DEFINE x == got \o fifo[RX]
                 y == req
                 z == fifo[TX]
      <3>1. x \in Seq(Words) /\ y \in Seq(Words) /\ z \in Seq(Words)
        BY <1>1, <2>1
      <3> HIDE DEF x, y, z
      <3>2. (x \o y) \o z = x \o (y \o z)
        BY <3>1, ConcatWords
      <3> QED BY <3>2 DEF x, y, z
    <2> QED BY <1>1, <1>3, <2>2, Zenon
  <1>5. CASE Len(Collected) < DEPTH /\ req' = Collected /\ fifo' = [fifo EXCEPT ![TX] = Rest]
    <2>1. fifo'[TX] = Rest /\ fifo'[RX] = fifo[RX]
      BY <1>1, <1>5
    <2>2. got \o fifo[RX] \in Seq(Words)
      BY <1>1
    <2>3. ((got \o fifo[RX]) \o Collected) \o Rest = want
      BY <1>3, <1>4, <2>2, ConcatWords
    <2> QED BY <1>2, <1>5, <2>1, <2>3 DEF EchoStream
  <1>6. CASE /\ Len(Collected) = DEPTH /\ req' = <<>>
             /\ fifo' = [fifo EXCEPT ![TX] = Rest, ![RX] = Echoed]
    <2>1. got \o fifo[RX] \in Seq(Words) /\ Len(got \o fifo[RX]) = Len(got) + Len(fifo[RX])
      BY <1>1
    <2>2. Collected \o Rest \in Seq(Words) /\ Len(Collected \o Rest) = DEPTH + Len(Rest)
      BY <1>3, <1>6, ConcatWords
    <2>3. Len(want) = Len(got) + Len(fifo[RX]) + DEPTH + Len(Rest)
      BY <1>1, <1>3, <1>4, <2>1, <2>2
    <2>4. got = <<>> /\ fifo[RX] = <<>> /\ Rest = <<>>
      BY <1>1, <1>3, <2>3
    <2>5. Collected = want
      BY <1>3, <1>4, <2>4, ConcatEmptySeq, EmptySeq
    <2>6. Echoed = Collected
      BY <1>3, <1>6, <2>4, SubSeqFull, ConcatEmptySeq DEF Echoed
    <2>7. fifo'[TX] = <<>> /\ fifo'[RX] = want
      BY <1>1, <1>6, <2>4, <2>5, <2>6
    <2>8. <<>> \o want \o <<>> \o <<>> = want
      BY <1>1, ConcatEmptySeq
    <2> QED BY <1>2, <1>6, <2>4, <2>7, <2>8 DEF EchoStream
  <1> QED BY <1>2, <1>5, <1>6 DEF DucatiReply

(* The client's own steps.                                                 *)
LEMMA SendWordInv ==
    ASSUME EchoInv, NEW w \in Words, SendWord(w)
    PROVE  want' \in Seq(Words) /\ got' \in Seq(Words) /\ Len(want') <= Window * DEPTH /\ EchoStream'
  <1> USE MailboxAssumption, EchoAssumption
  <1>1. /\ fifo \in [Mboxes -> Seq(Words)]
        /\ fifo[TX] \in Seq(Words) /\ fifo[RX] \in Seq(Words)
        /\ req \in Seq(Words) /\ got \in Seq(Words) /\ want \in Seq(Words)
        /\ got \o fifo[RX] \o req \o fifo[TX] = want
    BY EchoFacts DEF SendWord
  <1>2. /\ want' = Append(want, w) /\ got' = got /\ req' = req
        /\ fifo'[TX] = Append(fifo[TX], w) /\ fifo'[RX] = fifo[RX]
    BY <1>1 DEF SendWord, WriteMessage, Pushed
  <1>3. Window * DEPTH \in Nat /\ Len(want) < Window * DEPTH
    BY DEF SendWord
  <1>4. want' \in Seq(Words) /\ Len(want') <= Window * DEPTH
    BY <1>1, <1>2, <1>3
  <1>5. EchoStream'
    <2>1. got \o fifo[RX] \o req \o Append(fifo[TX], w) = Append(want, w)
      <3> DEFINE x == got \o fifo[RX] \o req
                 y == fifo[TX]
      <3>1. x \in Seq(Words) /\ y \in Seq(Words) /\ x \o y = want
        BY <1>1
      <3> HIDE DEF x, y
      <3>2. x \o Append(y, w) = Append(want, w)
        BY <3>1, StreamAppend
      <3> QED BY <3>2 DEF x, y
    <2> QED BY <1>2, <2>1 DEF EchoStream
  <1> QED BY <1>1, <1>2, <1>4, <1>5

LEMMA ReadReplyInv ==
    ASSUME EchoInv, ReadReply
    PROVE  want' \in Seq(Words) /\ got' \in Seq(Words) /\ Len(want') <= Window * DEPTH /\ EchoStream'
  <1> USE MailboxAssumption, EchoAssumption
  <1> DEFINE all == Append(got, Head(fifo[RX]))
             idle == Len(all) = Len(want) /\ Len(all) % DEPTH = 0
  <1>1. /\ fifo \in [Mboxes -> Seq(Words)]
        /\ fifo[TX] \in Seq(Words) /\ fifo[RX] \in Seq(Words) /\ fifo[RX] # <<>>
        /\ req \in Seq(Words) /\ got \in Seq(Words) /\ want \in Seq(Words)
        /\ got \o fifo[RX] \o req \o fifo[TX] = want
        /\ Len(want) <= Window * DEPTH /\ Window * DEPTH \in Nat
    <2>1. session /\ fifo[RX] # <<>>
      BY DEF ReadReply, ReadMessage
    <2>2. Window * DEPTH \in Nat
      OBVIOUS
    <2> QED BY <2>1, <2>2, EchoFacts, Zenon
  <1>2. /\ fifo'[RX] = Tail(fifo[RX]) /\ fifo'[TX] = fifo[TX] /\ req' = req
        /\ session' = session
        /\ got' = IF idle THEN <<>> ELSE all
        /\ want' = IF idle THEN <<>> ELSE want
    BY <1>1 DEF ReadReply, ReadMessage
  <1>3. all \in Seq(Words) /\ Tail(fifo[RX]) \in Seq(Words)
    BY <1>1
  <1>4. all \o Tail(fifo[RX]) \o req \o fifo[TX] = want
    BY <1>1, StreamShift
  <1> HIDE DEF all
  <1>5. CASE idle
    <2>1. Len(want) = Len(all) + Len(Tail(fifo[RX])) + Len(req) + Len(fifo[TX])
      <3>1. /\ all \o Tail(fifo[RX]) \in Seq(Words)
            /\ Len(all \o Tail(fifo[RX])) = Len(all) + Len(Tail(fifo[RX]))
        BY <1>3, ConcatWords, Zenon
      <3>2. /\ all \o Tail(fifo[RX]) \o req \in Seq(Words)
            /\ Len(all \o Tail(fifo[RX]) \o req) = Len(all \o Tail(fifo[RX])) + Len(req)
        BY <1>1, <3>1, ConcatWords, Zenon
      <3>3. Len(want) = Len(all \o Tail(fifo[RX]) \o req) + Len(fifo[TX])
        BY <1>1, <1>4, <3>2, ConcatWords, Zenon
      <3> QED BY <3>1, <3>2, <3>3, Zenon
    <2>2. Tail(fifo[RX]) = <<>> /\ req = <<>> /\ fifo[TX] = <<>>
      BY <1>1, <1>3, <1>5, <2>1
    <2>3. <<>> \in Seq(Words) /\ Len(<<>>) = 0 /\ <<>> \o <<>> \o <<>> \o <<>> = <<>>
      BY EmptySeq, ConcatEmptySeq
    <2> QED BY <1>1, <1>2, <1>5, <2>2, <2>3 DEF EchoStream
  <1>6. CASE ~idle
    BY <1>1, <1>2, <1>3, <1>4, <1>6 DEF EchoStream
  <1> QED BY <1>5, <1>6

(* Steps of others: the words under way stay where they are.               *)
LEMMA BystanderInv ==
    ASSUME EchoInv, Bystander
    PROVE  UNCHANGED <<session, want, got, req, fifo[TX], fifo[RX]>>
  BY MailboxAssumption DEF Bystander, ClearIrqStatus, SetIrqEnable, ClearIrqEnable, ReadMessage,
     WriteMessage, EchoInv, MailboxInv, TypeOK

(* EchoInv is inductive for a client that waits for the reply before it    *)
(* sends the next request.                                                 *)
LEMMA EchoStepInv ==
    ASSUME Window = 1, EchoInv, [EchoNext]_vars
    PROVE  EchoInv'
  <1> USE MailboxAssumption, EchoAssumption
  <1>1. MailboxInv'
    <2>1. [Next]_regs
      BY EchoStepIsMailboxStep DEF vars
    <2> QED BY <2>1, StepInv DEF EchoInv
  <1>2. want \in Seq(Words) /\ got \in Seq(Words) /\ Len(want) <= Window * DEPTH /\ EchoStream
    BY DEF EchoInv
  <1> SUFFICES want' \in Seq(Words) /\ got' \in Seq(Words) /\ Len(want') <= Window * DEPTH /\ EchoStream'
    BY <1>1 DEF EchoInv
  <1>3. ASSUME NEW w \in Words, SendWord(w)
        PROVE  want' \in Seq(Words) /\ got' \in Seq(Words) /\ Len(want') <= Window * DEPTH /\ EchoStream'
    BY <1>3, SendWordInv
  <1>4. CASE ReadReply
    BY <1>4, ReadReplyInv
  <1>5. CASE Bystander
    <2>1. UNCHANGED <<session, want, got, req, fifo[TX], fifo[RX]>>
      BY <1>5, BystanderInv
    <2> QED BY <1>2, <2>1 DEF EchoStream
  <1>6. CASE Stray
    BY <1>6, EmptySeq DEF Stray, EchoStream
  <1>7. CASE Reset
    <2>1. want' = <<>> /\ got' = <<>> /\ req' = <<>> /\ fifo'[TX] = <<>> /\ fifo'[RX] = <<>>
      BY <1>7 DEF Reset, SoftReset, MachineReset
    <2>2. <<>> \in Seq(Words) /\ Len(<<>>) = 0 /\ <<>> \o <<>> \o <<>> \o <<>> = <<>>
      BY EmptySeq, ConcatEmptySeq
    <2> QED BY <2>1, <2>2 DEF EchoStream
  <1>8. CASE Reply
    <2>1. UNCHANGED <<session, want, got>>
      BY <1>8 DEF Reply
    <2>2. EchoStream'
      BY <1>8, <2>1, ReplyStream DEF EchoStream
    <2> QED BY <1>2, <2>1, <2>2
  <1>9. CASE UNCHANGED vars
    BY <1>2, <1>9 DEF vars, regs, EchoStream
  <1> QED BY <1>3, <1>4, <1>5, <1>6, <1>7, <1>8, <1>9 DEF EchoNext

(* A client that waits for each reply finds its words, in order and        *)
(* without gaps, in RX, in the Ducati and in TX, whatever timers, resets,  *)
(* acknowledgements and traffic of others come between, for any FIFO depth *)
(* and any words.  With more than one request outstanding RX can overflow: *)
(* mbox_push drops what finds no room.                                     *)
THEOREM EchoStreamThm ==
    ASSUME Window = 1
    PROVE  EchoSpec => []EchoStream
  <1>1. EchoInit => EchoInv
    <2> SUFFICES ASSUME EchoInit PROVE EchoInv
      OBVIOUS
    <2> USE MailboxAssumption, EchoAssumption
    <2>1. MailboxInv
      BY InitInv DEF EchoInit
    <2>2. want = <<>> /\ got = <<>> /\ req = <<>> /\ fifo[TX] = <<>> /\ fifo[RX] = <<>>
      BY DEF EchoInit, Init
    <2>3. <<>> \in Seq(Words) /\ Len(<<>>) = 0 /\ <<>> \o <<>> \o <<>> \o <<>> = <<>>
      BY EmptySeq, ConcatEmptySeq
    <2> QED BY <2>1, <2>2, <2>3 DEF EchoInv, EchoStream
  <1>2. EchoInv /\ [EchoNext]_vars => EchoInv'
    BY EchoStepInv
  <1>3. EchoInv => EchoStream
    BY DEF EchoInv
  <1> QED BY <1>1, <1>2, <1>3, PTL DEF EchoSpec
=============================================================================
