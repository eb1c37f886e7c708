----------------------------- MODULE SgxProofs -----------------------------
(* The SGX shim and its driver for any contexts, tasks, sync objects, ring *)
(* sizes and number of commands.                                           *)
EXTENDS Sgx, SequenceTheorems, WellFoundedInduction, TLAPS

-----------------------------------------------------------------------------
(* The invariant.  A counter is a word, and counters are compared by the   *)
(* gap between them.                                                       *)
Word == 0..WORD - 1
Gap(a, b) == (a - b) % WORD

Values == UNION {[S -> Word] : S \in SUBSET Syncs}
Commands == [task : Tasks, ready : BOOLEAN, first : BOOLEAN, last : BOOLEAN, val : Values]
Targets == [Tasks -> [inuse : BOOLEAN, val : Values]]
Flags == {"INIT", "IDLE", "POWEROFF", "CLEANUP", "MISC"}
Images == [client : [Contexts -> Seq(Commands)], complete : [Syncs -> Word],
           hostctl : SUBSET Flags, target : Targets]
Kicks == [type : {"ta"}, ctx : Renders] \cup [type : {"transfer"}, ctx : Transfers]
Entries == Kicks \cup [type : Controls, ctx : {"none"}]

SgxTypeOK ==
    /\ enable \in SUBSET Bits /\ status \in SUBSET Bits /\ irq \in BOOLEAN
    /\ event \in BOOLEAN
    /\ Memory \in Images
    /\ kernel \in Seq(Entries)
    /\ pending \in [Syncs -> Word]
    /\ task \in [Tasks -> {"idle", "built", "ready", "queued"}]
    /\ scene \in SUBSET Tasks
    /\ ctl \in [at : {"off", "reset", "enabled", "run", "queued", "poll"}, type : Controls \cup {"other"}]
    /\ flip \in [queued : BOOLEAN, want : Word]
    /\ isr \in {"idle", "clear", "misr"}

(* A command belongs to a task of its context; until it is READY it counts *)
(* nothing, its task is about to prepare it and has no other.  Renders     *)
(* begin and end scenes, and one that does not end its scene leaves its    *)
(* task in the middle of it.                                               *)
RingsOK(rings) ==
    \A c \in Contexts :
        /\ Len(rings[c]) <= BACKLOG
        /\ \A i \in DOMAIN rings[c] :
              /\ Ctx[rings[c][i].task] = c
              /\ rings[c][i].first \/ rings[c][i].last => c \in Renders
              /\ DOMAIN rings[c][i].val = IF rings[c][i].ready THEN Counts(rings[c][i].task) ELSE {}
              /\ ~rings[c][i].ready => task[rings[c][i].task] = "built"
              /\ ~rings[c][i].ready /\ c \in Renders
                    => rings[c][i].last \/ rings[c][i].task \in scene
              /\ \A j \in DOMAIN rings[c] :
                    (/\ ~rings[c][i].ready /\ ~rings[c][j].ready
                     /\ rings[c][i].task = rings[c][j].task) => i = j

(* A sync list holds destinations; a target that is in use or has a list   *)
(* belongs to a scene whose end is still to be built or to be completed.   *)
TargetsOK(rings, targets) ==
    \A t \in Tasks :
        /\ DOMAIN targets[t].val \subseteq DstSyncs
        /\ targets[t].inuse \/ targets[t].val # Nothing =>
              \/ t \in scene
              \/ \E c \in Contexts : \E i \in DOMAIN rings[c] :
                    rings[c][i].task = t /\ rings[c][i].last

(* The newest operation on s is the one in val.                            *)
Newest(s, val) == s \in DOMAIN val /\ Gap(pending[s], val[s]) = 1

(* Something will complete the newest operation on s: a command that holds *)
(* it, a sync list that does, or for the 3D sync the end of a scene.       *)
CommandOwed(cmd, s) ==
    \/ Newest(s, cmd.val) /\ (s \in FragSyncs => cmd.last)
    \/ s \in FragSyncs /\ cmd.last /\ ~cmd.ready
Owed(rings, targets, s) ==
    \/ \E c \in Contexts : \E i \in DOMAIN rings[c] : CommandOwed(rings[c][i], s)
    \/ \E t \in Tasks : Newest(s, targets[t].val)
    \/ s \in FragSyncs /\ scene # {}

(* Counters and the operations that wait are close to what was handed out, *)
(* and a counter that is behind will be brought up to date.                *)
InWindow(s, val, p) == s \in DOMAIN val => Gap(p, val[s]) \in 1..LAG
CountsOK(rings, targets, done) ==
    \A s \in Syncs :
        /\ Gap(pending[s], done[s]) <= LAG
        /\ \A c \in Contexts : \A i \in DOMAIN rings[c] : InWindow(s, rings[c][i].val, pending[s])
        /\ \A t \in Tasks : InWindow(s, targets[t].val, pending[s])
        /\ s \notin lost /\ done[s] # pending[s] => Owed(rings, targets, s)

ImageOK(m) ==
    /\ m \in Images
    /\ RingsOK(m.client) /\ TargetsOK(m.client, m.target)
    /\ CountsOK(m.client, m.target, m.complete)

(* A ring that starts with a READY command will be looked at.              *)
Flushed(ring) == ring = <<>> \/ ~Head(ring).ready
Kicked(c) == \E i \in DOMAIN kernel : kernel[i] \in Kicks /\ kernel[i].ctx = c
RingsServed ==
    \A c \in Contexts :
        \/ Flushed(client[c])
        \/ \E t \in Tasks : /\ Ctx[t] = c
                            /\ task[t] = "ready" \/ (task[t] = "queued" /\ Kicked(c))

(* Nothing happens before the microkernel runs with its interrupt enabled. *)
BringUp ==
    /\ ctl.at \in {"off", "reset", "enabled"} =>
          (\A t \in Tasks : task[t] = "idle") /\ ~flip.queued
    /\ ctl.at \notin {"off", "reset", "enabled"} => "INIT" \in hostctl
    /\ ctl.at \notin {"off", "reset"} => enable = {"SW_EVENT"}
    /\ irq <=> status \cap enable # {}

(* A control command is answered or still in the kernel ring.              *)
Polling ==
    /\ PollAnswered
    /\ ctl.at = "queued" =>
          \/ Answer(ctl.type) \subseteq hostctl
          \/ \E i \in DOMAIN kernel : kernel[i].type = ctl.type /\ kernel[i].type \in Controls

SgxInv ==
    /\ SgxTypeOK
    /\ RingsOK(client) /\ TargetsOK(client, target)
    /\ CountsOK(client, target, complete) /\ RingsServed
    /\ BringUp /\ Polling /\ NoLostFlip
-----------------------------------------------------------------------------
(* Induction over the naturals for a set.                                  *)
LEMMA NatInductionSet ==
    ASSUME NEW S, 0 \in S, \A n \in Nat : n \in S => n + 1 \in S
    PROVE  \A n \in Nat : n \in S
  <1> DEFINE lt == {p \in Nat \X Nat : p[1] < p[2]}
             T  == {n \in Nat : n \notin S}
  <1>1. IsWellFoundedOn(lt, Nat)
    <2>1. OpToRel(<, Nat) = lt
      BY DEF OpToRel
    <2> QED BY <2>1, NatLessThanWellFounded
  <1>2. SUFFICES ASSUME T # {} PROVE FALSE
    OBVIOUS
  <1>3. T \subseteq Nat
    OBVIOUS
  <1> HIDE DEF T
  <1>4. PICK x \in T : \A y \in T : ~(<<y, x>> \in lt)
    BY <1>1, <1>2, <1>3, WFMin
  <1>5. x \in Nat /\ x # 0 /\ x \notin S
    BY <1>3, <1>4 DEF T
  <1>6. x - 1 \in Nat /\ x - 1 \notin S
    BY <1>5
  <1>7. x - 1 \in T /\ <<x - 1, x>> \in lt
    BY <1>5, <1>6 DEF T
  <1> QED BY <1>4, <1>7

(* Words and their gaps without division.                                  *)
LEMMA WordSucc ==
    ASSUME NEW a \in Word
    PROVE  /\ (a + 1) % WORD \in Word
           /\ (a + 1) % WORD = IF a = WORD - 1 THEN 0 ELSE a + 1
  BY SgxAssumption DEF Word

LEMMA GapValue ==
    ASSUME NEW a \in Word, NEW b \in Word
    PROVE  /\ Gap(a, b) \in Word
           /\ Gap(a, b) = IF a >= b THEN a - b ELSE a - b + WORD
  BY SgxAssumption DEF Word, Gap

LEMMA TaTurnsDef ==
    ASSUME NEW m, NEW c
    PROVE  /\ TaTurns(m, c)[0] = m
           /\ \A n \in 1..GUARD : TaTurns(m, c)[n] = TaStep(TaTurns(m, c)[n - 1], c)
  <1> DEFINE S == {k \in Nat : \E f : f = [n \in 0..k |-> IF n = 0 THEN m ELSE TaStep(f[n - 1], c)]}
  <1>1. 0 \in S
    <2> DEFINE f == [n \in 0..0 |-> m]
    <2>1. f = [n \in 0..0 |-> IF n = 0 THEN m ELSE TaStep(f[n - 1], c)]
      OBVIOUS
    <2> QED BY <2>1
  <1>2. ASSUME NEW k \in Nat, k \in S PROVE k + 1 \in S
    <2>1. PICK f : f = [n \in 0..k |-> IF n = 0 THEN m ELSE TaStep(f[n - 1], c)]
      BY <1>2
    <2> DEFINE g == [n \in 0..k + 1 |-> IF n <= k THEN f[n] ELSE TaStep(f[k], c)]
    <2>2. g = [n \in 0..k + 1 |-> IF n = 0 THEN m ELSE TaStep(g[n - 1], c)]
      BY <2>1
    <2>3. k + 1 \in Nat
      OBVIOUS
    <2> HIDE DEF g
    <2> QED BY <2>2, <2>3
  <1>3. GUARD \in S
    <2> HIDE DEF S
    <2> QED BY <1>1, <1>2, NatInductionSet, SgxAssumption
  <1>4. PICK f : f = [n \in 0..GUARD |-> IF n = 0 THEN m ELSE TaStep(f[n - 1], c)]
    BY <1>3
  <1>5. TaTurns(m, c) = [n \in 0..GUARD |-> IF n = 0 THEN m ELSE TaStep(TaTurns(m, c)[n - 1], c)]
    BY <1>4 DEF TaTurns
  <1> QED BY <1>5, SgxAssumption

(* wr32_mono: of two counts that were handed out, the later one stays.     *)
LEMMA NewerStays ==
    ASSUME NEW p \in Word, NEW d \in Word, NEW v \in Word,
           Gap(p, d) <= LAG, Gap(p, v) \in 1..LAG,
           NEW r, r = IF After((v + 1) % WORD, d) THEN (v + 1) % WORD ELSE d
    PROVE  /\ r \in Word
           /\ Gap(p, r) = IF Gap(p, v) - 1 < Gap(p, d) THEN Gap(p, v) - 1 ELSE Gap(p, d)
  <1> DEFINE w == (v + 1) % WORD
  <1>1. w \in Word /\ w = IF v = WORD - 1 THEN 0 ELSE v + 1
    BY WordSucc
  <1> HIDE DEF w
  <1>2. /\ Gap(p, d) \in Word /\ Gap(p, d) = IF p >= d THEN p - d ELSE p - d + WORD
        /\ Gap(p, v) \in Word /\ Gap(p, v) = IF p >= v THEN p - v ELSE p - v + WORD
        /\ Gap(p, w) \in Word /\ Gap(p, w) = IF p >= w THEN p - w ELSE p - w + WORD
        /\ Gap(w, d) \in Word /\ Gap(w, d) = IF w >= d THEN w - d ELSE w - d + WORD
    BY <1>1, GapValue
  <1>3. Gap(p, w) = Gap(p, v) - 1
    BY <1>1, <1>2, SgxAssumption DEF Word
  <1>4. After(w, d) <=> Gap(p, w) < Gap(p, d)
    <2>1. After(w, d) <=> Gap(w, d) \in 1..(WORD \div 2) - 1
      BY DEF After, Gap
    <2>2. LAG < WORD \div 2 /\ LAG \in Nat /\ WORD \in Nat /\ 2 * (WORD \div 2) <= WORD
      BY SgxAssumption
    <2> HIDE DEF Gap
    <2> QED BY <1>1, <1>2, <1>3, <2>1, <2>2 DEF Word
  <1> QED BY <1>1, <1>2, <1>3, <1>4 DEF w

LEMMA GapZero ==
    ASSUME NEW a \in Word, NEW b \in Word
    PROVE  Gap(a, b) = 0 <=> a = b
  <1>1. Gap(a, b) = IF a >= b THEN a - b ELSE a - b + WORD
    BY GapValue
  <1>2. a \in Int /\ b \in Int /\ b < WORD /\ a >= 0 /\ WORD \in Int
    BY SgxAssumption DEF Word
  <1> QED BY <1>1, <1>2

(* What the first command of ring c completes, and the image after it.     *)
Pays(m, c) == IF c \in Renders THEN Rendered(m, Head(m.client[c])) ELSE Head(m.client[c]).val
Released(m, cmd) == [m.target EXCEPT ![cmd.task] = IF cmd.last THEN FreeTarget ELSE @]
Consumed(m, c) ==
    [client |-> [m.client EXCEPT ![c] = Tail(m.client[c])],
     complete |-> Completed(m.complete, Pays(m, c)),
     hostctl |-> m.hostctl,
     target |-> Released(m, Head(m.client[c]))]

(* A ring without its first command.                                       *)
LEMMA TailRing ==
    ASSUME NEW ring \in Seq(Commands), ring # <<>>
    PROVE  /\ Head(ring) \in Commands /\ Head(ring) = ring[1]
           /\ Tail(ring) \in Seq(Commands)
           /\ Len(Tail(ring)) = Len(ring) - 1
           /\ DOMAIN ring = 1..Len(ring)
           /\ DOMAIN Tail(ring) = 1..(Len(ring) - 1)
           /\ \A i \in 1..(Len(ring) - 1) : Tail(ring)[i] = ring[i + 1]
           /\ Len(ring) \in Nat /\ Len(ring) > 0
  OBVIOUS

(* The kinds of context and of sync object do not overlap.                 *)
LEMMA Kinds ==
    /\ \A c \in Contexts : c \in Renders <=> c \notin Transfers
    /\ \A t \in Tasks : Ctx[t] \in Contexts
    /\ \A t \in Tasks : Counts(t) \subseteq Syncs
    /\ \A t \in Tasks : Ctx[t] \in Renders =>
          Counts(t) = TaSyncs \cup FragSyncs /\ Counts(t) \cap DstSyncs = {}
    /\ TaSyncs \cap FragSyncs = {} /\ TaSyncs \cap DstSyncs = {}
    /\ FragSyncs \cap DstSyncs = {}
    /\ TaSyncs \subseteq Syncs /\ FragSyncs \subseteq Syncs /\ DstSyncs \subseteq Syncs
    /\ \A s \in Syncs : s \in TaSyncs \/ s \in FragSyncs \/ s \in DstSyncs
  <1>1. /\ Renders \cap Transfers = {} /\ Ctx \in [Tasks -> Contexts]
        /\ TaSyncs \cap FragSyncs = {} /\ TaSyncs \cap DstSyncs = {}
        /\ FragSyncs \cap DstSyncs = {}
    BY SgxAssumption DEF Contexts
  <1> QED BY <1>1 DEF Contexts, Counts, Syncs

(* A value of a sync object is a word.                                     *)
LEMMA ValueWord ==
    ASSUME NEW val \in Values
    PROVE  DOMAIN val \subseteq Syncs /\ \A s \in DOMAIN val : val[s] \in Word
  BY DEF Values

LEMMA TaStepCases ==
    ASSUME NEW m, ImageOK(m), NEW c \in Renders
    PROVE  TaStep(m, c) = IF Flushed(m.client[c]) THEN m ELSE Consumed(m, c)
  <1> DEFINE ring == m.client[c]
             cmd == Head(ring)
             done == Completed(m.complete, Pays(m, c))
             tl == Tail(ring)
             free == IF cmd.last THEN FreeTarget ELSE m.target[cmd.task]
  <1>1. CASE Flushed(ring)
    BY <1>1 DEF Flushed, TaStep
  <1>2. CASE ~Flushed(ring)
    <2>1. ring # <<>> /\ cmd.ready
      BY <1>2 DEF Flushed
    <2>2. m = [client |-> m.client, complete |-> m.complete, hostctl |-> m.hostctl,
               target |-> m.target]
      BY DEF ImageOK, Images
    <2>3. TaStep(m, c) = [m EXCEPT !.complete = Completed(m.complete, Rendered(m, cmd)),
                                   !.client[c] = tl,
                                   !.target[cmd.task] = free]
      BY <2>1 DEF TaStep
    <2>4. Rendered(m, cmd) = Pays(m, c)
      BY DEF Pays
    <2>5. TaStep(m, c) = [m EXCEPT !.complete = done, !.client[c] = tl,
                                   !.target[cmd.task] = free]
      BY <2>3, <2>4
    <2>6. Consumed(m, c) = [client |-> [m.client EXCEPT ![c] = tl], complete |-> done,
                            hostctl |-> m.hostctl,
                            target |-> [m.target EXCEPT ![cmd.task] = free]]
      BY DEF Consumed, Released
    <2> HIDE DEF done, tl, free, cmd
    <2>7. [m EXCEPT !.complete = done, !.client[c] = tl, !.target[cmd.task] = free]
            = [client |-> [m.client EXCEPT ![c] = tl], complete |-> done,
               hostctl |-> m.hostctl, target |-> [m.target EXCEPT ![cmd.task] = free]]
      <3> DEFINE cl == m.client
                 tg == m.target
                 hc == m.hostctl
                 a == [client |-> cl, complete |-> done, hostctl |-> hc, target |-> tg]
                 b == [client |-> [cl EXCEPT ![c] = tl], complete |-> done, hostctl |-> hc,
                       target |-> tg]
      <3>1. [m EXCEPT !.complete = done, !.client[c] = tl, !.target[cmd.task] = free]
              = [[[m EXCEPT !.complete = done] EXCEPT !.client[c] = tl] EXCEPT !.target[cmd.task] = free]
        OBVIOUS
      <3>2. m = [client |-> cl, complete |-> m.complete, hostctl |-> hc, target |-> tg]
        BY <2>2
      <3> HIDE DEF cl, tg, hc
      <3>3. [m EXCEPT !.complete = done] = a
        BY <3>2
      <3>4. [a EXCEPT !.client[c] = tl] = b
        OBVIOUS
      <3>5. [b EXCEPT !.target[cmd.task] = free]
              = [client |-> [cl EXCEPT ![c] = tl], complete |-> done, hostctl |-> hc,
                 target |-> [tg EXCEPT ![cmd.task] = free]]
        OBVIOUS
      <3> HIDE DEF a, b
      <3> QED BY <3>1, <3>3, <3>4, <3>5 DEF cl, tg, hc
    <2> QED BY <1>2, <2>5, <2>6, <2>7
  <1> QED BY <1>1, <1>2

LEMMA TransferStepCases ==
    ASSUME NEW m, ImageOK(m), NEW c \in Transfers
    PROVE  TransferStep(m, c) = IF m.client[c] = <<>> THEN m ELSE Consumed(m, c)
  <1> DEFINE ring == m.client[c]
             cmd == Head(ring)
             done == Completed(m.complete, cmd.val)
             tl == Tail(ring)
  <1>1. CASE ring = <<>>
    BY <1>1 DEF TransferStep
  <1>2. CASE ring # <<>>
    <2>1. m = [client |-> m.client, complete |-> m.complete, hostctl |-> m.hostctl,
               target |-> m.target] /\ m.target \in Targets
      BY DEF ImageOK, Images
    <2>2. TransferStep(m, c) = [m EXCEPT !.complete = done, !.client[c] = tl]
      BY <1>2 DEF TransferStep
    <2>3. ~cmd.last /\ c \notin Renders
      <3>1. c \in Contexts /\ c \notin Renders
        BY Kinds DEF Contexts
      <3>2. ring \in Seq(Commands) /\ RingsOK(m.client)
        BY <3>1 DEF ImageOK, Images
      <3>3. cmd = ring[1] /\ 1 \in DOMAIN ring
        BY <1>2, <3>2
      <3>4. ~ring[1].last
        BY <3>1, <3>2, <3>3 DEF RingsOK
      <3> QED BY <3>1, <3>3, <3>4
    <2>4. Pays(m, c) = cmd.val
      BY <2>3 DEF Pays
    <2>5. Released(m, cmd) = m.target
      BY <2>1, <2>3 DEF Released, Targets
    <2>6. Consumed(m, c) = [client |-> [m.client EXCEPT ![c] = tl], complete |-> done,
                            hostctl |-> m.hostctl, target |-> m.target]
      BY <2>4, <2>5 DEF Consumed
    <2> HIDE DEF done, tl, cmd
    <2>7. [m EXCEPT !.complete = done, !.client[c] = tl]
            = [client |-> [m.client EXCEPT ![c] = tl], complete |-> done,
               hostctl |-> m.hostctl, target |-> m.target]
      <3> DEFINE cl == m.client
                 tg == m.target
                 hc == m.hostctl
                 a == [client |-> cl, complete |-> done, hostctl |-> hc, target |-> tg]
      <3>1. [m EXCEPT !.complete = done, !.client[c] = tl]
              = [[m EXCEPT !.complete = done] EXCEPT !.client[c] = tl]
        OBVIOUS
      <3>2. m = [client |-> cl, complete |-> m.complete, hostctl |-> hc, target |-> tg]
        BY <2>1
      <3> HIDE DEF cl, tg, hc
      <3>3. [m EXCEPT !.complete = done] = a
        BY <3>2
      <3>4. [a EXCEPT !.client[c] = tl]
              = [client |-> [cl EXCEPT ![c] = tl], complete |-> done, hostctl |-> hc,
                 target |-> tg]
        OBVIOUS
      <3> HIDE DEF a
      <3> QED BY <3>1, <3>3, <3>4 DEF cl, tg, hc
    <2> QED BY <1>2, <2>2, <2>6, <2>7
  <1> QED BY <1>1, <1>2

(* The first command completes what it holds, except that the 3D sync      *)
(* waits for the end of the scene, which also completes the sync list.     *)
LEMMA PaysFacts ==
    ASSUME NEW m, ImageOK(m), NEW c \in Contexts, m.client[c] # <<>>,
           c \in Renders => Head(m.client[c]).ready,
           NEW cmd, cmd = Head(m.client[c])
    PROVE  /\ cmd \in Commands /\ Ctx[cmd.task] = c
           /\ \A s \in DOMAIN Pays(m, c) : /\ Pays(m, c)[s] \in Word
                                           /\ InWindow(s, Pays(m, c), pending[s])
           /\ \A s \in DOMAIN cmd.val : (s \in FragSyncs => cmd.last \/ c \notin Renders)
                 => s \in DOMAIN Pays(m, c) /\ Pays(m, c)[s] = cmd.val[s]
           /\ cmd.last => \A s \in DOMAIN m.target[cmd.task].val :
                 s \in DOMAIN Pays(m, c) /\ Pays(m, c)[s] = m.target[cmd.task].val[s]
           /\ cmd.last => c \in Renders
  <1> DEFINE ring == m.client[c]
             list == m.target[cmd.task].val
  <1>1. /\ ring \in Seq(Commands) /\ m.target \in Targets
        /\ RingsOK(m.client) /\ TargetsOK(m.client, m.target)
        /\ CountsOK(m.client, m.target, m.complete)
    BY DEF ImageOK, Images
  <1>2. 1 \in DOMAIN ring /\ ring[1] = cmd /\ cmd \in Commands
    BY <1>1
  <1>3. /\ Ctx[cmd.task] = c /\ (cmd.last => c \in Renders)
        /\ DOMAIN cmd.val = IF cmd.ready THEN Counts(cmd.task) ELSE {}
    BY <1>1, <1>2 DEF RingsOK
  <1>4. cmd.task \in Tasks /\ cmd.val \in Values /\ cmd.last \in BOOLEAN
    BY <1>2 DEF Commands
  <1>5. list \in Values /\ DOMAIN list \subseteq DstSyncs
    BY <1>1, <1>4 DEF Targets, TargetsOK
  <1>6. \A s \in DOMAIN cmd.val : s \in Syncs /\ cmd.val[s] \in Word /\ InWindow(s, cmd.val, pending[s])
    <2>1. \A s \in Syncs : InWindow(s, ring[1].val, pending[s])
      BY <1>1, <1>2 DEF CountsOK
    <2> QED BY <1>2, <1>4, <2>1, ValueWord
  <1>7. \A s \in DOMAIN list : s \in Syncs /\ list[s] \in Word /\ InWindow(s, list, pending[s])
    BY <1>1, <1>4, <1>5, ValueWord DEF CountsOK
  <1> HIDE DEF list
  <1>8. CASE c \notin Renders
    <2>1. Pays(m, c) = cmd.val
      BY <1>8 DEF Pays
    <2> QED BY <1>2, <1>3, <1>6, <1>8, <2>1
  <1>9. CASE c \in Renders /\ cmd.last
    <2>1. DOMAIN cmd.val \cap DstSyncs = {}
      BY <1>3, <1>4, <1>9, Kinds
    <2> DEFINE p == [s \in DOMAIN cmd.val \cup DOMAIN list |->
                        IF s \in DOMAIN cmd.val THEN cmd.val[s] ELSE list[s]]
    <2>2. Pays(m, c) = p
      BY <1>9 DEF Pays, Rendered, list
    <2>3. \A s \in DOMAIN list : s \in DOMAIN p /\ p[s] = list[s]
      BY <1>5, <2>1
    <2>4. \A s \in DOMAIN cmd.val : s \in DOMAIN p /\ p[s] = cmd.val[s]
      OBVIOUS
    <2>5. \A s \in DOMAIN p : p[s] \in Word /\ InWindow(s, p, pending[s])
      BY <1>6, <1>7 DEF InWindow
    <2> HIDE DEF p
    <2> QED BY <1>2, <1>3, <1>9, <2>2, <2>3, <2>4, <2>5 DEF list
  <1>10. CASE c \in Renders /\ ~cmd.last
    <2>1. DOMAIN cmd.val = TaSyncs \cup FragSyncs
      BY <1>3, <1>4, <1>10, Kinds
    <2> DEFINE p == [s \in TaSyncs |-> cmd.val[s]]
    <2>2. Pays(m, c) = p
      BY <1>10 DEF Pays, Rendered
    <2>3. \A s \in DOMAIN p : p[s] \in Word /\ InWindow(s, p, pending[s])
      BY <1>6, <2>1 DEF InWindow
    <2>4. \A s \in DOMAIN cmd.val : s \notin FragSyncs => s \in DOMAIN p /\ p[s] = cmd.val[s]
      BY <2>1
    <2> HIDE DEF p
    <2> QED BY <1>2, <1>3, <1>10, <2>2, <2>3, <2>4
  <1> QED BY <1>4, <1>8, <1>9, <1>10

(* Completing values within the window moves no counter back, and past     *)
(* each of them.                                                           *)
LEMMA CompletedCounts ==
    ASSUME NEW s \in Syncs, pending[s] \in Word, NEW done, done[s] \in Word,
           Gap(pending[s], done[s]) <= LAG, NEW val,
           s \in DOMAIN val => val[s] \in Word /\ InWindow(s, val, pending[s])
    PROVE  LET done2 == Completed(done, val)
           IN /\ done2[s] \in Word
              /\ Gap(pending[s], done2[s]) <= LAG
              /\ done[s] = pending[s] => done2[s] = pending[s]
              /\ Newest(s, val) => done2[s] = pending[s]
  <1> DEFINE r == Completed(done, val)[s]
             p == pending[s]
             d == done[s]
  <1>1. Gap(p, d) \in Word /\ (Gap(p, d) = 0 <=> d = p) /\ LAG \in Nat
    <2>1. p \in Word /\ d \in Word /\ LAG \in Nat
      BY SgxAssumption
    <2>2. Gap(p, d) \in Word
      BY <2>1, GapValue
    <2>3. Gap(p, d) = 0 <=> p = d
      BY <2>1, GapZero
    <2> QED BY <2>1, <2>2, <2>3
  <1>2. CASE s \in DOMAIN val
    <2>1. val[s] \in Word /\ Gap(p, val[s]) \in 1..LAG
      BY <1>2 DEF InWindow
    <2>2. r = IF After((val[s] + 1) % WORD, d) THEN (val[s] + 1) % WORD ELSE d
      BY <1>2 DEF Completed
    <2> HIDE DEF r
    <2>3. /\ r \in Word
          /\ Gap(p, r) = IF Gap(p, val[s]) - 1 < Gap(p, d) THEN Gap(p, val[s]) - 1 ELSE Gap(p, d)
      BY <2>1, <2>2, NewerStays
    <2>4. Gap(p, r) = 0 <=> r = p
      BY <2>3, GapZero
    <2>5. Gap(p, r) <= LAG
      BY <1>1, <2>1, <2>3 DEF Word
    <2>6. d = p => r = p
      BY <1>1, <2>1, <2>3, <2>4
    <2>7. Newest(s, val) => r = p
      BY <1>1, <2>3, <2>4 DEF Newest, Word
    <2> QED BY <2>3, <2>5, <2>6, <2>7 DEF r
  <1>3. CASE s \notin DOMAIN val
    <2>1. r = d
      BY <1>3 DEF Completed
    <2> QED BY <1>3, <2>1 DEF Newest
  <1> QED BY <1>2, <1>3

(* Completing a command keeps the image in order: what it held is          *)
(* complete, and everything else still has something that completes it.    *)
LEMMA ConsumedOK ==
    ASSUME pending \in [Syncs -> Word], NEW m, ImageOK(m), NEW c \in Contexts,
           m.client[c] # <<>>, c \in Renders => Head(m.client[c]).ready
    PROVE  ImageOK(Consumed(m, c))
  <1> DEFINE old == m.client
             ring == old[c]
             cmd == Head(ring)
             new == [old EXCEPT ![c] = Tail(ring)]
             done == m.complete
             pays == Pays(m, c)
             done2 == Completed(done, pays)
             targets == m.target
             targets2 == Released(m, cmd)
  <1>1. /\ m \in Images /\ old \in [Contexts -> Seq(Commands)] /\ done \in [Syncs -> Word]
        /\ targets \in Targets
        /\ RingsOK(old) /\ TargetsOK(old, targets) /\ CountsOK(old, targets, done)
    BY DEF ImageOK, Images
  <1>2. Consumed(m, c) = [client |-> new, complete |-> done2, hostctl |-> m.hostctl,
                          target |-> targets2]
    BY DEF Consumed
  <1>3. /\ ring \in Seq(Commands) /\ cmd \in Commands /\ cmd = ring[1] /\ Tail(ring) \in Seq(Commands)
        /\ Len(Tail(ring)) = Len(ring) - 1
        /\ DOMAIN ring = 1..Len(ring) /\ DOMAIN Tail(ring) = 1..(Len(ring) - 1)
        /\ \A i \in 1..(Len(ring) - 1) : Tail(ring)[i] = ring[i + 1]
        /\ Len(ring) \in Nat /\ Len(ring) > 0
    BY <1>1, TailRing
  <1> HIDE DEF cmd
  <1>p. /\ cmd \in Commands /\ Ctx[cmd.task] = c
        /\ \A s \in DOMAIN pays : pays[s] \in Word /\ InWindow(s, pays, pending[s])
        /\ \A s \in DOMAIN cmd.val : (s \in FragSyncs => cmd.last \/ c \notin Renders)
              => s \in DOMAIN pays /\ pays[s] = cmd.val[s]
        /\ cmd.last => \A s \in DOMAIN targets[cmd.task].val :
              s \in DOMAIN pays /\ pays[s] = targets[cmd.task].val[s]
        /\ cmd.last => c \in Renders
    BY PaysFacts DEF cmd
  <1> HIDE DEF pays
  <1>4. /\ new[c] = Tail(ring)
        /\ \A d \in Contexts : d # c => new[d] = old[d]
        /\ new \in [Contexts -> Seq(Commands)]
    BY <1>1, <1>3
  <1> HIDE DEF new
  <1>t. /\ cmd.task \in Tasks
        /\ targets2 \in Targets
        /\ \A t \in Tasks : targets2[t] = IF t = cmd.task /\ cmd.last THEN FreeTarget ELSE targets[t]
    <2>1. cmd.task \in Tasks
      BY <1>3 DEF Commands
    <2>2. FreeTarget \in [inuse : BOOLEAN, val : Values]
      <3>1. Nothing \in [{} -> Word] /\ {} \in SUBSET Syncs
        BY DEF Nothing
      <3>2. Nothing \in Values
        BY <3>1 DEF Values
      <3> QED BY <3>2 DEF FreeTarget
    <2> QED BY <1>1, <2>1, <2>2 DEF Released, Targets
  <1> HIDE DEF targets2
  <1>5. ASSUME NEW d \in Contexts, NEW i \in DOMAIN new[d]
        PROVE  \E j \in DOMAIN old[d] : old[d][j] = new[d][i] /\ (d = c => j = i + 1)
                                        /\ (d # c => j = i)
    <2>1. CASE d = c
      <3>1. i \in 1..(Len(ring) - 1) /\ i + 1 \in 1..Len(ring)
        BY <1>3, <1>4, <1>5, <2>1
      <3> QED BY <1>3, <1>4, <2>1, <3>1
    <2>2. CASE d # c
      BY <1>4, <1>5, <2>2
    <2> QED BY <2>1, <2>2
  <1>6. ASSUME NEW d \in Contexts, NEW j \in DOMAIN old[d], ~(d = c /\ j = 1)
        PROVE  \E i \in DOMAIN new[d] : new[d][i] = old[d][j]
    <2>1. CASE d = c
      <3>1. j \in 1..Len(ring) /\ j # 1
        BY <1>3, <1>6, <2>1
      <3>2. j - 1 \in 1..(Len(ring) - 1) /\ (j - 1) + 1 = j
        BY <1>3, <3>1
      <3> QED BY <1>3, <1>4, <2>1, <3>2
    <2>2. CASE d # c
      BY <1>4, <1>6, <2>2
    <2> QED BY <2>1, <2>2
  <1>7. RingsOK(new)
    <2>1. ASSUME NEW d \in Contexts PROVE Len(new[d]) <= BACKLOG
      <3>1. Len(old[d]) <= BACKLOG
        BY <1>1 DEF RingsOK
      <3>2. CASE d = c
        <4>1. Len(new[d]) = Len(ring) - 1 /\ Len(ring) <= BACKLOG
          BY <1>3, <1>4, <3>1, <3>2
        <4> QED BY <1>3, <4>1, SgxAssumption
      <3>3. CASE d # c
        BY <1>4, <3>1, <3>3
      <3> QED BY <3>2, <3>3
    <2>2. ASSUME NEW d \in Contexts, NEW i \in DOMAIN new[d]
          PROVE  /\ Ctx[new[d][i].task] = d
                 /\ new[d][i].first \/ new[d][i].last => d \in Renders
                 /\ DOMAIN new[d][i].val = IF new[d][i].ready THEN Counts(new[d][i].task) ELSE {}
                 /\ ~new[d][i].ready => task[new[d][i].task] = "built"
                 /\ ~new[d][i].ready /\ d \in Renders
                       => new[d][i].last \/ new[d][i].task \in scene
      <3>1. PICK j \in DOMAIN old[d] : old[d][j] = new[d][i]
        BY <1>5, <2>2
      <3> QED BY <1>1, <3>1 DEF RingsOK
    <2>3. ASSUME NEW d \in Contexts, NEW i \in DOMAIN new[d], NEW j \in DOMAIN new[d],
                 ~new[d][i].ready, ~new[d][j].ready, new[d][i].task = new[d][j].task
          PROVE  i = j
      <3>1. PICK i2 \in DOMAIN old[d] : old[d][i2] = new[d][i] /\ (d = c => i2 = i + 1)
                                        /\ (d # c => i2 = i)
        BY <1>5
      <3>2. PICK j2 \in DOMAIN old[d] : old[d][j2] = new[d][j] /\ (d = c => j2 = j + 1)
                                        /\ (d # c => j2 = j)
        BY <1>5
      <3>3. i2 = j2
        BY <1>1, <2>3, <3>1, <3>2 DEF RingsOK
      <3>4. i \in Int /\ j \in Int
        BY <1>4, <2>3
      <3> QED BY <3>1, <3>2, <3>3, <3>4
    <2> QED BY <2>1, <2>2, <2>3 DEF RingsOK
  <1>8. TargetsOK(new, targets2)
    <2> SUFFICES ASSUME NEW t \in Tasks
                 PROVE  /\ DOMAIN targets2[t].val \subseteq DstSyncs
                        /\ targets2[t].inuse \/ targets2[t].val # Nothing =>
                              \/ t \in scene
                              \/ \E d \in Contexts : \E i \in DOMAIN new[d] :
                                    new[d][i].task = t /\ new[d][i].last
      BY DEF TargetsOK
    <2>1. CASE t = cmd.task /\ cmd.last
      <3>1. targets2[t] = FreeTarget
        BY <1>t, <2>1
      <3> QED BY <3>1 DEF FreeTarget, Nothing
    <2>2. CASE ~(t = cmd.task /\ cmd.last)
      <3>1. targets2[t] = targets[t]
        BY <1>t, <2>2
      <3>2. ASSUME NEW d \in Contexts, NEW j \in DOMAIN old[d], old[d][j].task = t, old[d][j].last
            PROVE  \E i \in DOMAIN new[d] : new[d][i].task = t /\ new[d][i].last
        <4>1. ~(d = c /\ j = 1)
          BY <1>3, <2>2, <3>2
        <4> QED BY <1>6, <3>2, <4>1
      <3> QED BY <1>1, <3>1, <3>2 DEF TargetsOK
    <2> QED BY <2>1, <2>2
  <1>9. ASSUME NEW s \in Syncs
        PROVE  /\ done2[s] \in Word
               /\ Gap(pending[s], done2[s]) <= LAG
               /\ done[s] = pending[s] => done2[s] = pending[s]
               /\ Newest(s, pays) => done2[s] = pending[s]
    <2>1. /\ pending[s] \in Word /\ done[s] \in Word /\ Gap(pending[s], done[s]) <= LAG
          /\ s \in DOMAIN pays => pays[s] \in Word /\ InWindow(s, pays, pending[s])
      BY <1>1, <1>p DEF CountsOK
    <2> QED BY <2>1, CompletedCounts
  <1>10. CountsOK(new, targets2, done2)
    <2> SUFFICES ASSUME NEW s \in Syncs
                 PROVE  /\ Gap(pending[s], done2[s]) <= LAG
                        /\ \A d \in Contexts : \A i \in DOMAIN new[d] : InWindow(s, new[d][i].val, pending[s])
                        /\ \A t \in Tasks : InWindow(s, targets2[t].val, pending[s])
                        /\ s \notin lost /\ done2[s] # pending[s] => Owed(new, targets2, s)
      BY DEF CountsOK
    <2>1. ASSUME NEW d \in Contexts, NEW i \in DOMAIN new[d] PROVE InWindow(s, new[d][i].val, pending[s])
      <3>1. PICK j \in DOMAIN old[d] : old[d][j] = new[d][i]
        BY <1>5, <2>1
      <3> QED BY <1>1, <3>1 DEF CountsOK
    <2>2. ASSUME NEW t \in Tasks PROVE InWindow(s, targets2[t].val, pending[s])
      <3>1. InWindow(s, targets[t].val, pending[s])
        BY <1>1 DEF CountsOK
      <3>2. InWindow(s, FreeTarget.val, pending[s])
        BY DEF InWindow, FreeTarget, Nothing
      <3> QED BY <1>t, <3>1, <3>2
    <2>3. ASSUME s \notin lost, done2[s] # pending[s] PROVE Owed(new, targets2, s)
      <3>1. ~Newest(s, pays) /\ Owed(old, targets, s)
        BY <1>1, <1>9, <2>3 DEF CountsOK
      <3>2. ASSUME NEW d \in Contexts, NEW j \in DOMAIN old[d], CommandOwed(old[d][j], s)
            PROVE  Owed(new, targets2, s)
        <4>1. CASE d = c /\ j = 1
          <5>1. CommandOwed(cmd, s)
            BY <1>3, <3>2, <4>1
          <5>2. s \in FragSyncs /\ cmd.last /\ ~cmd.ready => FALSE
            BY <1>p DEF cmd
          <5>3. Newest(s, cmd.val) /\ (s \in FragSyncs => cmd.last)
            BY <5>1, <5>2 DEF CommandOwed
          <5>4. s \in DOMAIN pays /\ pays[s] = cmd.val[s]
            BY <1>p, <5>3 DEF Newest
          <5> QED BY <3>1, <5>3, <5>4 DEF Newest
        <4>2. CASE ~(d = c /\ j = 1)
          BY <1>6, <3>2, <4>2 DEF Owed
        <4> QED BY <4>1, <4>2
      <3>3. ASSUME NEW t \in Tasks, Newest(s, targets[t].val)
            PROVE  Owed(new, targets2, s)
        <4>1. CASE t = cmd.task /\ cmd.last
          <5>1. s \in DOMAIN pays /\ pays[s] = targets[t].val[s]
            BY <1>p, <3>3, <4>1 DEF Newest
          <5> QED BY <3>1, <3>3, <5>1 DEF Newest
        <4>2. CASE ~(t = cmd.task /\ cmd.last)
          <5>1. targets2[t] = targets[t]
            BY <1>t, <4>2
          <5> QED BY <3>3, <5>1 DEF Owed
        <4> QED BY <4>1, <4>2
      <3> QED BY <3>1, <3>2, <3>3 DEF Owed
    <2> QED BY <1>9, <2>1, <2>2, <2>3
  <1>11. done2 \in [Syncs -> Word]
    <2>1. done2 = [s \in Syncs |-> done2[s]]
      BY DEF Completed
    <2> HIDE DEF done2
    <2> QED BY <1>9, <2>1
  <1>12. Consumed(m, c) \in Images
    <2> HIDE DEF done2
    <2> QED BY <1>1, <1>2, <1>4, <1>11, <1>t DEF Images
  <1> HIDE DEF done2
  <1>13. Consumed(m, c).client = new /\ Consumed(m, c).complete = done2
         /\ Consumed(m, c).target = targets2
    BY <1>2
  <1> QED BY <1>7, <1>8, <1>10, <1>12, <1>13 DEF ImageOK

LEMMA TransferTurnsDef ==
    ASSUME NEW m, NEW c
    PROVE  /\ TransferTurns(m, c)[0] = m
           /\ \A n \in 1..GUARD :
                 TransferTurns(m, c)[n] = TransferStep(TransferTurns(m, c)[n - 1], c)
  <1> DEFINE S == {k \in Nat :
                     \E f : f = [n \in 0..k |-> IF n = 0 THEN m ELSE TransferStep(f[n - 1], c)]}
  <1>1. 0 \in S
    <2> DEFINE f == [n \in 0..0 |-> m]
    <2>1. f = [n \in 0..0 |-> IF n = 0 THEN m ELSE TransferStep(f[n - 1], c)]
      OBVIOUS
    <2> QED BY <2>1
  <1>2. ASSUME NEW k \in Nat, k \in S PROVE k + 1 \in S
    <2>1. PICK f : f = [n \in 0..k |-> IF n = 0 THEN m ELSE TransferStep(f[n - 1], c)]
      BY <1>2
    <2> DEFINE g == [n \in 0..k + 1 |-> IF n <= k THEN f[n] ELSE TransferStep(f[k], c)]
    <2>2. g = [n \in 0..k + 1 |-> IF n = 0 THEN m ELSE TransferStep(g[n - 1], c)]
      BY <2>1
    <2>3. k + 1 \in Nat
      OBVIOUS
    <2> HIDE DEF g
    <2> QED BY <2>2, <2>3
  <1>3. GUARD \in S
    <2> HIDE DEF S
    <2> QED BY <1>1, <1>2, NatInductionSet, SgxAssumption
  <1>4. PICK f : f = [n \in 0..GUARD |-> IF n = 0 THEN m ELSE TransferStep(f[n - 1], c)]
    BY <1>3
  <1>5. TransferTurns(m, c) =
          [n \in 0..GUARD |-> IF n = 0 THEN m ELSE TransferStep(TransferTurns(m, c)[n - 1], c)]
    BY <1>4 DEF TransferTurns
  <1> QED BY <1>5, SgxAssumption

(* The images m2 that commands of ring c lead to from m.                   *)
Served(m, m2, c) ==
    /\ ImageOK(m2)
    /\ m2.hostctl = m.hostctl
    /\ \A d \in Contexts : d # c => m2.client[d] = m.client[d]

LEMMA ServedStep ==
    ASSUME pending \in [Syncs -> Word], NEW m, NEW m2, NEW c \in Contexts,
           Served(m, m2, c), m2.client[c] # <<>>,
           c \in Renders => Head(m2.client[c]).ready
    PROVE  /\ Served(m, Consumed(m2, c), c)
           /\ Len(Consumed(m2, c).client[c]) = Len(m2.client[c]) - 1
  <1>1. ImageOK(m2) /\ m2 \in Images /\ m2.client \in [Contexts -> Seq(Commands)]
    BY DEF Served, ImageOK, Images
  <1>2. ImageOK(Consumed(m2, c))
    BY <1>1, ConsumedOK
  <1>3. /\ Consumed(m2, c).hostctl = m2.hostctl
        /\ Consumed(m2, c).client = [m2.client EXCEPT ![c] = Tail(m2.client[c])]
    BY DEF Consumed
  <1>4. Len(Tail(m2.client[c])) = Len(m2.client[c]) - 1
    BY <1>1, TailRing
  <1> QED BY <1>1, <1>2, <1>3, <1>4 DEF Served

(* A kick completes every command up to the first that is not READY: the   *)
(* guard of the loop is not smaller than the ring.                         *)
LEMMA CmdTaServes ==
    ASSUME pending \in [Syncs -> Word], NEW m, ImageOK(m), NEW c \in Renders
    PROVE  Served(m, CmdTa(m, c), c) /\ Flushed(CmdTa(m, c).client[c])
  <1> DEFINE img == TaTurns(m, c)
             P(n) == /\ Served(m, img[n], c)
                     /\ \/ Flushed(img[n].client[c])
                        \/ Len(img[n].client[c]) = Len(m.client[c]) - n
             S == {n \in Nat : n <= GUARD => P(n)}
  <1>0. c \in Contexts
    BY DEF Contexts
  <1>1. 0 \in S
    <2>1. img[0] = m
      BY TaTurnsDef
    <2>2. m.client[c] \in Seq(Commands)
      BY <1>0 DEF ImageOK, Images
    <2>3. Len(m.client[c]) \in Nat
      BY <2>2
    <2> HIDE DEF img
    <2> QED BY <2>1, <2>3 DEF Served
  <1>2. ASSUME NEW n \in Nat, n \in S PROVE n + 1 \in S
    <2> SUFFICES ASSUME n + 1 <= GUARD PROVE P(n + 1)
      BY DEF S
    <2>1. P(n)
      BY <1>2, SgxAssumption
    <2>2. img[n + 1] = TaStep(img[n], c)
      <3>1. n + 1 \in 1..GUARD /\ (n + 1) - 1 = n
        BY SgxAssumption
      <3> QED BY <3>1, TaTurnsDef
    <2> HIDE DEF img
    <2>3. ImageOK(img[n])
      BY <2>1 DEF Served
    <2>4. CASE Flushed(img[n].client[c])
      <3>1. img[n + 1] = img[n]
        BY <2>2, <2>3, <2>4, TaStepCases
      <3> QED BY <2>1, <2>4, <3>1
    <2>5. CASE ~Flushed(img[n].client[c])
      <3>1. /\ img[n + 1] = Consumed(img[n], c) /\ img[n].client[c] # <<>>
            /\ Head(img[n].client[c]).ready
        BY <2>2, <2>3, <2>5, TaStepCases DEF Flushed
      <3>2. /\ Served(m, img[n + 1], c)
            /\ Len(img[n + 1].client[c]) = Len(img[n].client[c]) - 1
        BY <1>0, <2>1, <3>1, ServedStep
      <3>3. Len(img[n].client[c]) = Len(m.client[c]) - n /\ Len(m.client[c]) \in Nat
        BY <1>0, <2>1, <2>5 DEF ImageOK, Images
      <3> QED BY <3>2, <3>3
    <2> QED BY <2>4, <2>5
  <1>3. P(GUARD)
    <2> HIDE DEF P
    <2>1. \A n \in Nat : n \in S
      <3> HIDE DEF S
      <3> QED BY <1>1, <1>2, NatInductionSet
    <2> QED BY <2>1, SgxAssumption
  <1> HIDE DEF img
  <1>4. Flushed(img[GUARD].client[c])
    <2>1. Len(m.client[c]) <= BACKLOG /\ m.client[c] \in Seq(Commands)
      BY <1>0 DEF ImageOK, RingsOK, Images
    <2>2. img[GUARD].client[c] \in Seq(Commands)
      BY <1>0, <1>3 DEF Served, ImageOK, Images
    <2>3. CASE Len(img[GUARD].client[c]) = Len(m.client[c]) - GUARD
      <3>1. Len(img[GUARD].client[c]) \in Nat /\ Len(m.client[c]) \in Nat
        BY <2>1, <2>2
      <3>2. Len(img[GUARD].client[c]) = 0
        BY <2>1, <2>3, <3>1, SgxAssumption
      <3> QED BY <2>2, <3>2 DEF Flushed
    <2> QED BY <1>3, <2>3
  <1> QED BY <1>3, <1>4 DEF CmdTa, img

LEMMA CmdTransferServes ==
    ASSUME pending \in [Syncs -> Word], NEW m, ImageOK(m), NEW c \in Transfers
    PROVE  Served(m, CmdTransfer(m, c), c) /\ Flushed(CmdTransfer(m, c).client[c])
  <1> DEFINE img == TransferTurns(m, c)
             P(n) == /\ Served(m, img[n], c)
                     /\ \/ img[n].client[c] = <<>>
                        \/ Len(img[n].client[c]) = Len(m.client[c]) - n
             S == {n \in Nat : n <= GUARD => P(n)}
  <1>0. c \in Contexts /\ c \notin Renders
    BY Kinds DEF Contexts
  <1>1. 0 \in S
    <2>1. img[0] = m
      BY TransferTurnsDef
    <2>2. m.client[c] \in Seq(Commands)
      BY <1>0 DEF ImageOK, Images
    <2>3. Len(m.client[c]) \in Nat
      BY <2>2
    <2> HIDE DEF img
    <2> QED BY <2>1, <2>3 DEF Served
  <1>2. ASSUME NEW n \in Nat, n \in S PROVE n + 1 \in S
    <2> SUFFICES ASSUME n + 1 <= GUARD PROVE P(n + 1)
      BY DEF S
    <2>1. P(n)
      BY <1>2, SgxAssumption
    <2>2. img[n + 1] = TransferStep(img[n], c)
      <3>1. n + 1 \in 1..GUARD /\ (n + 1) - 1 = n
        BY SgxAssumption
      <3> QED BY <3>1, TransferTurnsDef
    <2> HIDE DEF img
    <2>3. ImageOK(img[n])
      BY <2>1 DEF Served
    <2>4. CASE img[n].client[c] = <<>>
      <3>1. img[n + 1] = img[n]
        BY <2>2, <2>3, <2>4, TransferStepCases
      <3> QED BY <2>1, <2>4, <3>1
    <2>5. CASE img[n].client[c] # <<>>
      <3>1. img[n + 1] = Consumed(img[n], c)
        BY <2>2, <2>3, <2>5, TransferStepCases
      <3>2. /\ Served(m, img[n + 1], c)
            /\ Len(img[n + 1].client[c]) = Len(img[n].client[c]) - 1
        BY <1>0, <2>1, <2>5, <3>1, ServedStep
      <3>3. Len(img[n].client[c]) = Len(m.client[c]) - n /\ Len(m.client[c]) \in Nat
        BY <1>0, <2>1, <2>5 DEF ImageOK, Images
      <3> QED BY <3>2, <3>3
    <2> QED BY <2>4, <2>5
  <1>3. P(GUARD)
    <2> HIDE DEF P
    <2>1. \A n \in Nat : n \in S
      <3> HIDE DEF S
      <3> QED BY <1>1, <1>2, NatInductionSet
    <2> QED BY <2>1, SgxAssumption
  <1> HIDE DEF img
  <1>4. Flushed(img[GUARD].client[c])
    <2>1. Len(m.client[c]) <= BACKLOG /\ m.client[c] \in Seq(Commands)
      BY <1>0 DEF ImageOK, RingsOK, Images
    <2>2. img[GUARD].client[c] \in Seq(Commands)
      BY <1>0, <1>3 DEF Served, ImageOK, Images
    <2>3. CASE Len(img[GUARD].client[c]) = Len(m.client[c]) - GUARD
      <3>1. Len(img[GUARD].client[c]) \in Nat /\ Len(m.client[c]) \in Nat
        BY <2>1, <2>2
      <3>2. Len(img[GUARD].client[c]) = 0
        BY <2>1, <2>3, <3>1, SgxAssumption
      <3> QED BY <2>2, <3>2 DEF Flushed
    <2> QED BY <1>3, <2>3 DEF Flushed
  <1> QED BY <1>3, <1>4 DEF CmdTransfer, img
-----------------------------------------------------------------------------
(* The kernel ring.                                                        *)
LEMMA AnswerFlags ==
    ASSUME NEW type
    PROVE  Answer(type) \subseteq {"IDLE", "POWEROFF", "CLEANUP", "MISC"}
  <1>1. Answer(type) = {"IDLE"} \/ Answer(type) = {"POWEROFF"} \/ Answer(type) = {"CLEANUP"}
          \/ Answer(type) = {"MISC"} \/ Answer(type) = {}
    BY Zenon DEF Answer
  <1> QED BY <1>1

LEMMA ControlType ==
    ASSUME NEW e \in Entries
    PROVE  \/ e \in Kicks /\ e.type = "ta" /\ e.ctx \in Renders
           \/ e \in Kicks /\ e.type = "transfer" /\ e.ctx \in Transfers
           \/ e \notin Kicks /\ e.type \in Controls /\ e.type # "ta" /\ e.type # "transfer"
  <1>1. CASE e \in Kicks
    BY <1>1 DEF Kicks
  <1>2. CASE e \notin Kicks
    BY <1>2, SgxAssumption DEF Entries
  <1> QED BY <1>1, <1>2

(* What one entry does, when the image it leads to is m2.                  *)
LEMMA ProcessCommandOK ==
    ASSUME pending \in [Syncs -> Word], NEW m, ImageOK(m), NEW e \in Entries,
           NEW m2, m2 = ProcessCommand(m, e)
    PROVE  /\ ImageOK(m2)
           /\ m.hostctl \subseteq m2.hostctl
           /\ e \in Kicks => Served(m, m2, e.ctx) /\ Flushed(m2.client[e.ctx])
           /\ e \notin Kicks => m2.client = m.client /\ Answer(e.type) \subseteq m2.hostctl
  <1>1. CASE e \in Kicks /\ e.type = "ta" /\ e.ctx \in Renders
    <2>1. m2 = CmdTa(m, e.ctx)
      BY <1>1, Zenon DEF ProcessCommand
    <2>2. Served(m, m2, e.ctx) /\ Flushed(m2.client[e.ctx])
      BY <1>1, <2>1, CmdTaServes
    <2> QED BY <1>1, <2>2 DEF Served
  <1>2. CASE e \in Kicks /\ e.type = "transfer" /\ e.ctx \in Transfers
    <2>0. "transfer" # "ta"
      OBVIOUS
    <2>1. m2 = CmdTransfer(m, e.ctx)
      BY <1>2, <2>0, Zenon DEF ProcessCommand
    <2>2. Served(m, m2, e.ctx) /\ Flushed(m2.client[e.ctx])
      BY <1>2, <2>1, CmdTransferServes
    <2> QED BY <1>2, <2>2 DEF Served
  <1>3. CASE e \notin Kicks /\ e.type \in Controls /\ e.type # "ta" /\ e.type # "transfer"
    <2>1. m2 = [m EXCEPT !.hostctl = @ \cup Answer(e.type)]
      BY <1>3, Zenon DEF ProcessCommand
    <2>2. /\ m \in Images /\ RingsOK(m.client) /\ TargetsOK(m.client, m.target)
          /\ CountsOK(m.client, m.target, m.complete)
      BY DEF ImageOK
    <2>3. /\ m2.client = m.client /\ m2.complete = m.complete /\ m2.target = m.target
          /\ m2.hostctl = m.hostctl \cup Answer(e.type)
      BY <2>1, <2>2 DEF Images
    <2>4. m2 \in Images
      <3>1. Answer(e.type) \subseteq Flags
        BY AnswerFlags DEF Flags
      <3> QED BY <2>1, <2>2, <3>1 DEF Images
    <2> QED BY <1>3, <2>2, <2>3, <2>4 DEF ImageOK
  <1> QED BY <1>1, <1>2, <1>3, ControlType

LEMMA DrainedDef ==
    ASSUME kernel \in Seq(Entries)
    PROVE  /\ Drained[0] = Memory
           /\ \A n \in 1..Len(kernel) : Drained[n] = ProcessCommand(Drained[n - 1], kernel[n])
  <1> DEFINE N == Len(kernel)
             S == {k \in Nat : \E f : f = [n \in 0..k |-> IF n = 0 THEN Memory
                                                         ELSE ProcessCommand(f[n - 1], kernel[n])]}
  <1>0. N \in Nat
    OBVIOUS
  <1>1. 0 \in S
    <2> DEFINE f == [n \in 0..0 |-> Memory]
    <2>1. f = [n \in 0..0 |-> IF n = 0 THEN Memory ELSE ProcessCommand(f[n - 1], kernel[n])]
      OBVIOUS
    <2> QED BY <2>1
  <1>2. ASSUME NEW k \in Nat, k \in S PROVE k + 1 \in S
    <2>1. PICK f : f = [n \in 0..k |-> IF n = 0 THEN Memory
                                       ELSE ProcessCommand(f[n - 1], kernel[n])]
      BY <1>2
    <2> DEFINE g == [n \in 0..k + 1 |-> IF n <= k THEN f[n] ELSE ProcessCommand(f[k], kernel[k + 1])]
    <2>2. g = [n \in 0..k + 1 |-> IF n = 0 THEN Memory ELSE ProcessCommand(g[n - 1], kernel[n])]
      BY <2>1
    <2>3. k + 1 \in Nat
      OBVIOUS
    <2> HIDE DEF g
    <2> QED BY <2>2, <2>3
  <1>3. N \in S
    <2> HIDE DEF S
    <2> QED BY <1>0, <1>1, <1>2, NatInductionSet
  <1>4. PICK f : f = [n \in 0..N |-> IF n = 0 THEN Memory ELSE ProcessCommand(f[n - 1], kernel[n])]
    BY <1>3
  <1>5. Drained = [n \in 0..N |-> IF n = 0 THEN Memory ELSE ProcessCommand(Drained[n - 1], kernel[n])]
    BY <1>4 DEF Drained
  <1> HIDE DEF N
  <1> QED BY <1>0, <1>5 DEF N

(* What a doorbell does to memory: every context named in the ring is      *)
(* served, every control command answered, and nothing else changes.       *)
LEMMA ConsumeCcbOK ==
    ASSUME pending \in [Syncs -> Word], kernel \in Seq(Entries), ImageOK(Memory)
    PROVE  /\ ImageOK(ConsumeCcb)
           /\ hostctl \subseteq ConsumeCcb.hostctl
           /\ \A i \in DOMAIN kernel :
                 kernel[i] \notin Kicks => Answer(kernel[i].type) \subseteq ConsumeCcb.hostctl
           /\ \A c \in Contexts :
                 IF Kicked(c) THEN Flushed(ConsumeCcb.client[c])
                 ELSE ConsumeCcb.client[c] = client[c]
           /\ kernel = <<>> => ConsumeCcb.complete = complete
  <1> DEFINE N == Len(kernel)
             Named(c, n) == \E i \in 1..n : kernel[i] \in Kicks /\ kernel[i].ctx = c
             P(n) == /\ ImageOK(Drained[n])
                     /\ hostctl \subseteq Drained[n].hostctl
                     /\ \A i \in 1..n : kernel[i] \notin Kicks =>
                                          Answer(kernel[i].type) \subseteq Drained[n].hostctl
                     /\ \A c \in Contexts : Named(c, n) => Flushed(Drained[n].client[c])
                     /\ \A c \in Contexts : ~Named(c, n) => Drained[n].client[c] = client[c]
             S == {n \in Nat : n <= N => P(n)}
  <1>0. N \in Nat /\ DOMAIN kernel = 1..N
    OBVIOUS
  <1>1. Drained[0] = Memory /\ Memory.client = client /\ Memory.hostctl = hostctl
          /\ Memory.complete = complete
    BY DrainedDef DEF Memory
  <1>2. 0 \in S
    <2>1. \A c : ~Named(c, 0)
      OBVIOUS
    <2> HIDE DEF Named
    <2> QED BY <1>1, <2>1
  <1>3. ASSUME NEW n \in Nat, n \in S PROVE n + 1 \in S
    <2> SUFFICES ASSUME n + 1 <= N PROVE P(n + 1)
      BY DEF S
    <2>1. P(n)
      BY <1>0, <1>3
    <2> DEFINE m == Drained[n]
               m2 == Drained[n + 1]
               e == kernel[n + 1]
    <2>2. m2 = ProcessCommand(m, e) /\ e \in Entries
      <3>1. n + 1 \in 1..N /\ (n + 1) - 1 = n
        BY <1>0
      <3> QED BY <3>1, DrainedDef
    <2> HIDE DEF m, m2, e
    <2>3. ImageOK(m)
      BY <2>1 DEF m
    <2>4. /\ ImageOK(m2)
          /\ m.hostctl \subseteq m2.hostctl
          /\ e \in Kicks => Served(m, m2, e.ctx) /\ Flushed(m2.client[e.ctx])
          /\ e \notin Kicks => m2.client = m.client /\ Answer(e.type) \subseteq m2.hostctl
      BY <2>2, <2>3, ProcessCommandOK
    <2>5. ASSUME NEW i \in 1..(n + 1), kernel[i] \notin Kicks
          PROVE  Answer(kernel[i].type) \subseteq m2.hostctl
      <3>1. CASE i = n + 1
        BY <2>4, <2>5, <3>1 DEF e
      <3>2. CASE i # n + 1
        <4>1. i \in 1..n
          BY <3>2
        <4> QED BY <2>1, <2>4, <2>5, <4>1 DEF m
      <3> QED BY <3>1, <3>2
    <2>6. ASSUME NEW c \in Contexts
          PROVE  Named(c, n + 1) <=> Named(c, n) \/ (e \in Kicks /\ e.ctx = c)
      BY DEF e
    <2>7. ASSUME NEW c \in Contexts, Named(c, n + 1)
          PROVE  Flushed(m2.client[c])
      <3>1. CASE e \in Kicks /\ e.ctx = c
        BY <2>4, <3>1
      <3>2. CASE ~(e \in Kicks /\ e.ctx = c)
        <4>1. Named(c, n)
          BY <2>6, <2>7, <3>2
        <4>2. Flushed(m.client[c])
          BY <2>1, <4>1 DEF m
        <4>3. m2.client[c] = m.client[c]
          BY <2>4, <3>2 DEF Served
        <4> QED BY <4>2, <4>3
      <3> QED BY <3>1, <3>2
    <2>8. ASSUME NEW c \in Contexts, ~Named(c, n + 1)
          PROVE  m2.client[c] = client[c]
      <3>1. ~Named(c, n) /\ ~(e \in Kicks /\ e.ctx = c)
        BY <2>6, <2>8
      <3>2. m.client[c] = client[c]
        BY <2>1, <3>1 DEF m
      <3>3. m2.client[c] = m.client[c]
        BY <2>4, <3>1 DEF Served
      <3> QED BY <3>2, <3>3
    <2>9. hostctl \subseteq m2.hostctl
      BY <2>1, <2>4 DEF m
    <2> HIDE DEF Named
    <2> QED BY <2>4, <2>5, <2>7, <2>8, <2>9 DEF m2
  <1>4. P(N)
    <2>1. \A n \in Nat : n \in S
      <3> HIDE DEF S
      <3> QED BY <1>2, <1>3, NatInductionSet
    <2> HIDE DEF P
    <2> QED BY <1>0, <2>1
  <1>5. ConsumeCcb = Drained[N]
    BY DEF ConsumeCcb
  <1>6. \A c \in Contexts : Kicked(c) <=> Named(c, N)
    BY <1>0 DEF Kicked
  <1>7. kernel = <<>> => ConsumeCcb.complete = complete
    BY <1>1, <1>5
  <1> HIDE DEF N, Named
  <1> QED BY <1>0, <1>4, <1>5, <1>6, <1>7
-----------------------------------------------------------------------------
(* Steps that leave rings, counters and tasks alone.                       *)
LEMMA QuietStep ==
    ASSUME SgxInv, UNCHANGED <<kernel, client, target, pending, complete, task, scene, lost>>
    PROVE  /\ RingsOK(client)' /\ TargetsOK(client, target)'
           /\ CountsOK(client, target, complete)' /\ RingsServed'
  <1>1. RingsOK(client)'
    BY DEF SgxInv, RingsOK
  <1>2. CountsOK(client, target, complete)'
    BY DEF SgxInv, CountsOK, InWindow, Owed, CommandOwed, Newest
  <1>3. RingsServed'
    BY DEF SgxInv, RingsServed, Kicked
  <1>4. TargetsOK(client, target)'
    BY DEF SgxInv, TargetsOK
  <1> QED BY <1>1, <1>2, <1>3, <1>4

(* The event timer and the interrupt handler.                              *)
LEMMA EventStep ==
    ASSUME SgxInv, EventTimer \/ StartReset \/ StartEnable \/ IsrRead \/ IsrClear
    PROVE  SgxInv'
  <1>1. /\ UNCHANGED <<hostctl, kernel, client, target, pending, complete, task, scene, lost, flip>>
        /\ SgxTypeOK /\ BringUp /\ Polling /\ NoLostFlip
    BY DEF SgxInv, EventTimer, StartReset, StartEnable, IsrRead, IsrClear, driver
  <1>2. /\ RingsOK(client)' /\ TargetsOK(client, target)'
        /\ CountsOK(client, target, complete)' /\ RingsServed'
    BY <1>1, QuietStep
  <1>3. Memory' = Memory /\ (FlipReady(complete)' <=> FlipReady(complete))
    BY <1>1 DEF Memory, FlipReady
  <1>4. CASE EventTimer
    <2>1. /\ event /\ event' = FALSE /\ status' = status \cup Bits
          /\ irq' = (status' \cap enable # {})
          /\ UNCHANGED <<enable, ctl, isr>>
      BY <1>4 DEF EventTimer, UpdateIrq, driver
    <2>2. SgxTypeOK'
      BY <1>1, <1>3, <2>1 DEF SgxTypeOK
    <2>3. BringUp'
      BY <1>1, <2>1 DEF BringUp
    <2>4. Polling'
      BY <1>1, <2>1 DEF Polling, PollAnswered
    <2>5. NoLostFlip'
      <3>1. flip.queued => irq' /\ "SW_EVENT" \in status'
        BY <1>1, <2>1 DEF BringUp, Bits
      <3> QED BY <1>1, <3>1 DEF NoLostFlip
    <2> QED BY <1>2, <2>2, <2>3, <2>4, <2>5 DEF SgxInv
  <1>5. CASE StartReset \/ StartEnable
    <2>1. /\ ctl.at \in {"off", "reset"} /\ ctl' \in [at : {"reset", "enabled"}, type : Controls \cup {"other"}]
          /\ status' \in SUBSET Bits /\ enable' \in SUBSET Bits
          /\ irq' = (status' \cap enable' # {})
          /\ ctl'.at = "enabled" => enable' = {"SW_EVENT"}
          /\ UNCHANGED <<event, isr>>
      BY <1>1, <1>5 DEF StartReset, StartEnable, WriteSoftReset, WriteHostEnable, UpdateIrq,
                        SgxTypeOK, Bits
    <2>2. SgxTypeOK'
      BY <1>1, <1>3, <2>1 DEF SgxTypeOK
    <2>3. BringUp'
      BY <1>1, <2>1 DEF BringUp
    <2>4. Polling'
      BY <2>1 DEF Polling, PollAnswered
    <2>5. NoLostFlip'
      BY <1>1, <2>1 DEF BringUp, NoLostFlip
    <2> QED BY <1>2, <2>2, <2>3, <2>4, <2>5 DEF SgxInv
  <1>6. CASE IsrRead \/ IsrClear
    <2>1. /\ isr' \in {"clear", "misr"}
          /\ status' \in SUBSET Bits
          /\ irq' \in BOOLEAN /\ (irq' <=> status' \cap enable' # {})
          /\ UNCHANGED <<enable, event, ctl>>
      BY <1>1, <1>6 DEF IsrRead, IsrClear, WriteHostClear, UpdateIrq, BringUp, SgxTypeOK
    <2>2. SgxTypeOK'
      BY <1>1, <1>3, <2>1 DEF SgxTypeOK
    <2>3. BringUp'
      BY <1>1, <2>1 DEF BringUp
    <2>4. Polling'
      BY <1>1, <2>1 DEF Polling, PollAnswered
    <2>5. NoLostFlip'
      BY <2>1 DEF NoLostFlip
    <2> QED BY <1>2, <2>2, <2>3, <2>4, <2>5 DEF SgxInv
  <1> QED BY <1>4, <1>5, <1>6

(* The flip, and the end of a poll.                                        *)
LEMMA FlipStep ==
    ASSUME SgxInv, Flip \/ Misr \/ ControlDone
    PROVE  SgxInv'
  <1>1. /\ UNCHANGED <<status, enable, irq, event, hostctl, kernel, client, target, pending, complete, task, scene, lost>>
        /\ SgxTypeOK /\ BringUp /\ Polling /\ NoLostFlip
    BY DEF SgxInv, Flip, Misr, ControlDone
  <1>2. /\ RingsOK(client)' /\ TargetsOK(client, target)'
        /\ CountsOK(client, target, complete)' /\ RingsServed'
    BY <1>1, QuietStep
  <1>3. Memory' = Memory
    BY <1>1 DEF Memory
  <1>4. CASE Flip
    <2>1. /\ Running /\ After(pending[Screen], complete[Screen])
          /\ flip' = [queued |-> TRUE, want |-> pending[Screen]]
          /\ UNCHANGED <<ctl, isr>>
      BY <1>4 DEF Flip
    <2>2. pending[Screen] \in Word
      BY <1>1, SgxAssumption DEF SgxTypeOK, Syncs
    <2>3. SgxTypeOK'
      BY <1>1, <1>3, <2>1, <2>2 DEF SgxTypeOK
    <2>4. BringUp'
      BY <1>1, <2>1 DEF BringUp, Running
    <2>5. Polling'
      BY <1>1, <2>1 DEF Polling, PollAnswered
    <2>6. ~FlipReady(complete)'
      BY <1>1, <2>1 DEF FlipReady
    <2> QED BY <1>2, <2>3, <2>4, <2>5, <2>6 DEF SgxInv, NoLostFlip
  <1>5. CASE Misr
    <2>1. /\ isr' = "idle" /\ UNCHANGED ctl
          /\ flip' = IF flip.queued /\ FlipReady(complete)
                     THEN [queued |-> FALSE, want |-> 0] ELSE flip
      BY <1>5 DEF Misr
    <2>2. 0 \in Word
      BY SgxAssumption DEF Word
    <2>3. SgxTypeOK'
      BY <1>1, <1>3, <2>1, <2>2 DEF SgxTypeOK
    <2>4. BringUp'
      BY <1>1, <2>1 DEF BringUp
    <2>5. Polling'
      BY <1>1, <2>1 DEF Polling, PollAnswered
    <2>6. NoLostFlip'
      <3>1. CASE flip.queued /\ FlipReady(complete)
        BY <2>1, <3>1 DEF NoLostFlip
      <3>2. CASE ~(flip.queued /\ FlipReady(complete))
        <4>1. flip' = flip /\ (FlipReady(complete)' <=> FlipReady(complete))
          BY <1>1, <2>1, <3>2 DEF FlipReady
        <4> QED BY <3>2, <4>1 DEF NoLostFlip
      <3> QED BY <3>1, <3>2
    <2> QED BY <1>2, <2>3, <2>4, <2>5, <2>6 DEF SgxInv
  <1>6. CASE ControlDone
    <2>1. /\ ctl.at = "poll" /\ ctl' = [at |-> "run", type |-> "other"]
          /\ UNCHANGED <<flip, isr>>
      BY <1>6 DEF ControlDone
    <2>3. SgxTypeOK'
      BY <1>1, <1>3, <2>1 DEF SgxTypeOK
    <2>4. BringUp'
      BY <1>1, <2>1 DEF BringUp
    <2>5. Polling'
      BY <1>1, <2>1 DEF Polling, PollAnswered
    <2>6. NoLostFlip'
      <3>1. FlipReady(complete)' <=> FlipReady(complete)
        BY <1>1, <2>1 DEF FlipReady
      <3> QED BY <1>1, <2>1, <3>1 DEF NoLostFlip
    <2> QED BY <1>2, <2>3, <2>4, <2>5, <2>6 DEF SgxInv
  <1> QED BY <1>4, <1>5, <1>6
-----------------------------------------------------------------------------
(* What a step of a task leaves alone.                                     *)
LEMMA TaskStep ==
    ASSUME SgxInv, UNCHANGED <<status, enable, irq, event, hostctl, complete, ctl, flip, isr>>,
           NEW t \in Tasks, NEW at \in {"idle", "built", "ready", "queued"},
           task' = [task EXCEPT ![t] = at],
           at = "built" => Running, at # "built" => task[t] # "idle",
           client' \in [Contexts -> Seq(Commands)], target' \in Targets,
           scene' \in SUBSET Tasks, pending' \in [Syncs -> Word],
           kernel' \in Seq(Entries),
           \A i \in DOMAIN kernel : i \in DOMAIN kernel' /\ kernel'[i] = kernel[i]
    PROVE  SgxTypeOK' /\ BringUp' /\ Polling' /\ NoLostFlip'
  <1>1. SgxTypeOK /\ BringUp /\ Polling /\ NoLostFlip
    BY DEF SgxInv
  <1>2. SgxTypeOK'
    <2>1. Memory' \in Images
      BY <1>1 DEF SgxTypeOK, Memory, Images
    <2>2. task' \in [Tasks -> {"idle", "built", "ready", "queued"}]
      BY <1>1 DEF SgxTypeOK
    <2> QED BY <1>1, <2>1, <2>2 DEF SgxTypeOK
  <1>3. BringUp'
    <2>1. ctl.at \notin {"off", "reset", "enabled"}
      BY <1>1 DEF BringUp, Running
    <2> QED BY <1>1, <2>1 DEF BringUp
  <1>4. Polling'
    BY <1>1 DEF Polling, PollAnswered
  <1>5. NoLostFlip'
    <2>1. FlipReady(complete)' <=> FlipReady(complete)
      BY DEF FlipReady
    <2> QED BY <1>1, <2>1 DEF NoLostFlip
  <1> QED BY <1>2, <1>3, <1>4, <1>5

(* A ring with one more command.                                           *)
LEMMA AppendRing ==
    ASSUME NEW ring \in Seq(Commands), NEW cmd \in Commands
    PROVE  /\ Append(ring, cmd) \in Seq(Commands)
           /\ Len(Append(ring, cmd)) = Len(ring) + 1
           /\ DOMAIN ring = 1..Len(ring)
           /\ DOMAIN Append(ring, cmd) = 1..(Len(ring) + 1)
           /\ \A i \in 1..Len(ring) : Append(ring, cmd)[i] = ring[i]
           /\ Append(ring, cmd)[Len(ring) + 1] = cmd
           /\ Len(ring) \in Nat
           /\ Head(Append(ring, cmd)) = IF ring = <<>> THEN cmd ELSE Head(ring)
  OBVIOUS

(* A command goes into the ring.  It may take its target into use, and     *)
(* begin or end a scene of its task, and changes nothing else.             *)
LEMMA WriteStep ==
    ASSUME SgxInv, NEW t \in Tasks, NEW first \in BOOLEAN, NEW last \in BOOLEAN,
           Write(t, first, last),
           first \/ last => Ctx[t] \in Renders,
           scene' \in SUBSET Tasks, target' \in Targets,
           Ctx[t] \in Renders => last \/ t \in scene',
           \A u \in Tasks : u \in scene => u \in scene' \/ (u = t /\ last),
           \A u \in Tasks : target'[u].val = target[u].val /\ (target[u].inuse => target'[u].inuse),
           \A u \in Tasks : target'[u].inuse =>
              target[u].inuse \/ (u = t /\ (last \/ t \in scene'))
    PROVE  SgxInv'
  <1> DEFINE c == Ctx[t]
             cmd == [task |-> t, ready |-> FALSE, first |-> first, last |-> last, val |-> Nothing]
             ring == client[c]
  <1>1. /\ Running /\ task[t] = "idle" /\ Len(ring) < BACKLOG
        /\ client' = [client EXCEPT ![c] = Append(ring, cmd)]
        /\ task' = [task EXCEPT ![t] = "built"]
        /\ UNCHANGED <<status, enable, irq, event, hostctl, kernel, pending, complete, lost,
                       ctl, flip, isr>>
    BY DEF Write
  <1>2. /\ c \in Contexts /\ client \in [Contexts -> Seq(Commands)]
        /\ task \in [Tasks -> {"idle", "built", "ready", "queued"}]
        /\ pending \in [Syncs -> Word] /\ kernel \in Seq(Entries)
        /\ RingsOK(client) /\ TargetsOK(client, target) /\ CountsOK(client, target, complete)
        /\ RingsServed
    BY SgxAssumption DEF SgxInv, SgxTypeOK, Memory, Images, Contexts
  <1>3. cmd \in Commands
    <2>1. Nothing \in [{} -> Word] /\ {} \in SUBSET Syncs
      BY DEF Nothing
    <2>2. Nothing \in Values
      BY <2>1 DEF Values
    <2> QED BY <2>2 DEF Commands
  <1>4. /\ cmd.task = t /\ ~cmd.ready /\ cmd.first = first /\ cmd.last = last
        /\ cmd.val = Nothing /\ DOMAIN cmd.val = {}
    BY DEF Nothing
  <1> HIDE DEF cmd, c
  <1>5. /\ Append(ring, cmd) \in Seq(Commands)
        /\ Len(Append(ring, cmd)) = Len(ring) + 1
        /\ DOMAIN ring = 1..Len(ring)
        /\ DOMAIN Append(ring, cmd) = 1..(Len(ring) + 1)
        /\ \A i \in 1..Len(ring) : Append(ring, cmd)[i] = ring[i]
        /\ Append(ring, cmd)[Len(ring) + 1] = cmd
        /\ Len(ring) \in Nat
        /\ Head(Append(ring, cmd)) = IF ring = <<>> THEN cmd ELSE Head(ring)
    BY <1>2, <1>3, AppendRing
  <1>6. /\ client' \in [Contexts -> Seq(Commands)]
        /\ client'[c] = Append(ring, cmd)
        /\ \A d \in Contexts : d # c => client'[d] = client[d]
        /\ \A u \in Tasks : task'[u] = IF u = t THEN "built" ELSE task[u]
    BY <1>1, <1>2, <1>5
  <1>7. SgxTypeOK' /\ BringUp' /\ Polling' /\ NoLostFlip'
    BY <1>1, <1>2, <1>6, TaskStep
  <1>8. ASSUME NEW d \in Contexts, NEW i \in DOMAIN client'[d]
        PROVE  \/ i \in DOMAIN client[d] /\ client'[d][i] = client[d][i]
               \/ d = c /\ i = Len(ring) + 1 /\ client'[d][i] = cmd
    <2>1. CASE d = c
      BY <1>5, <1>6, <1>8, <2>1
    <2>2. CASE d # c
      BY <1>6, <1>8, <2>2
    <2> QED BY <2>1, <2>2
  <1>s. /\ \A d \in Contexts : \A i \in DOMAIN client[d] :
              i \in DOMAIN client'[d] /\ client'[d][i] = client[d][i]
        /\ \E i \in DOMAIN client'[c] : client'[c][i] = cmd
    <2>1. ASSUME NEW d \in Contexts, NEW i \in DOMAIN client[d]
          PROVE  i \in DOMAIN client'[d] /\ client'[d][i] = client[d][i]
      <3>1. CASE d = c
        <4>1. i \in 1..Len(ring) /\ client[d] = ring /\ client'[d] = Append(ring, cmd)
          BY <1>5, <1>6, <2>1, <3>1
        <4>2. i \in 1..(Len(ring) + 1)
          BY <1>5, <4>1
        <4> HIDE DEF ring
        <4> QED BY <1>5, <4>1, <4>2
      <3>2. CASE d # c
        BY <1>6, <2>1, <3>2
      <3> QED BY <3>1, <3>2
    <2>2. Len(ring) + 1 \in DOMAIN client'[c] /\ client'[c][Len(ring) + 1] = cmd
      BY <1>5, <1>6
    <2> QED BY <2>1, <2>2
  <1>9. ASSUME NEW d \in Contexts, NEW i \in DOMAIN client[d], ~client[d][i].ready
        PROVE  client[d][i].task # t /\ client[d][i].task \in Tasks
    <2>1. task[client[d][i].task] = "built"
      BY <1>2, <1>9 DEF RingsOK
    <2>2. client[d][i] \in Commands
      BY <1>2, <1>9
    <2> QED BY <1>1, <2>1, <2>2 DEF Commands
  <1>10. RingsOK(client)'
    <2>1. ASSUME NEW d \in Contexts PROVE Len(client'[d]) <= BACKLOG
      <3>1. CASE d = c
        BY <1>1, <1>5, <1>6, <3>1, SgxAssumption
      <3>2. CASE d # c
        BY <1>2, <1>6, <3>2 DEF RingsOK
      <3> QED BY <3>1, <3>2
    <2>2. ASSUME NEW d \in Contexts, NEW i \in DOMAIN client'[d]
          PROVE  /\ Ctx[client'[d][i].task] = d
                 /\ client'[d][i].first \/ client'[d][i].last => d \in Renders
                 /\ DOMAIN client'[d][i].val =
                       IF client'[d][i].ready THEN Counts(client'[d][i].task) ELSE {}
                 /\ ~client'[d][i].ready => task'[client'[d][i].task] = "built"
                 /\ ~client'[d][i].ready /\ d \in Renders
                       => client'[d][i].last \/ client'[d][i].task \in scene'
      <3>1. CASE i \in DOMAIN client[d] /\ client'[d][i] = client[d][i]
        <4>1. /\ Ctx[client[d][i].task] = d
              /\ client[d][i].first \/ client[d][i].last => d \in Renders
              /\ DOMAIN client[d][i].val =
                    IF client[d][i].ready THEN Counts(client[d][i].task) ELSE {}
              /\ ~client[d][i].ready => task[client[d][i].task] = "built"
              /\ ~client[d][i].ready /\ d \in Renders
                    => client[d][i].last \/ client[d][i].task \in scene
          BY <1>2, <3>1 DEF RingsOK
        <4> QED BY <1>6, <1>9, <3>1, <4>1
      <3>2. CASE d = c /\ i = Len(ring) + 1 /\ client'[d][i] = cmd
        BY <1>4, <1>6, <3>2 DEF c
      <3> QED BY <1>8, <2>2, <3>1, <3>2
    <2>3. ASSUME NEW d \in Contexts, NEW i \in DOMAIN client'[d], NEW j \in DOMAIN client'[d],
                 ~client'[d][i].ready, ~client'[d][j].ready,
                 client'[d][i].task = client'[d][j].task
          PROVE  i = j
      <3>1. CASE i \in DOMAIN client[d] /\ client'[d][i] = client[d][i]
        <4>1. client[d][i].task # t
          BY <1>9, <2>3, <3>1
        <4>2. j \in DOMAIN client[d] /\ client'[d][j] = client[d][j]
          BY <1>4, <1>8, <2>3, <3>1, <4>1
        <4> QED BY <1>2, <2>3, <3>1, <4>2 DEF RingsOK
      <3>2. CASE d = c /\ i = Len(ring) + 1 /\ client'[d][i] = cmd
        <4>1. ~(j \in DOMAIN client[d] /\ client'[d][j] = client[d][j])
          BY <1>4, <1>9, <2>3, <3>2
        <4> QED BY <1>8, <2>3, <3>2, <4>1
      <3> QED BY <1>8, <2>3, <3>1, <3>2
    <2> QED BY <2>1, <2>2, <2>3 DEF RingsOK
  <1>11. CountsOK(client, target, complete)'
    <2> SUFFICES ASSUME NEW s \in Syncs
                 PROVE  /\ Gap(pending'[s], complete'[s]) <= LAG
                        /\ \A d \in Contexts : \A i \in DOMAIN client'[d] :
                              InWindow(s, client'[d][i].val, pending'[s])
                        /\ \A u \in Tasks : InWindow(s, target'[u].val, pending'[s])
                        /\ s \notin lost' /\ complete'[s] # pending'[s]
                              => Owed(client, target, s)'
      BY DEF CountsOK
    <2>1. /\ pending' = pending /\ complete' = complete /\ lost' = lost
          /\ Gap(pending[s], complete[s]) <= LAG
          /\ \A d \in Contexts : \A i \in DOMAIN client[d] : InWindow(s, client[d][i].val, pending[s])
          /\ \A u \in Tasks : InWindow(s, target[u].val, pending[s])
          /\ s \notin lost /\ complete[s] # pending[s] => Owed(client, target, s)
      BY <1>1, <1>2 DEF CountsOK
    <2>2. ASSUME NEW d \in Contexts, NEW i \in DOMAIN client'[d]
          PROVE  InWindow(s, client'[d][i].val, pending'[s])
      BY <1>4, <1>8, <2>1, <2>2 DEF InWindow
    <2>3. \A u \in Tasks : InWindow(s, target'[u].val, pending'[s])
      BY <2>1 DEF InWindow
    <2>4. ASSUME Owed(client, target, s) PROVE Owed(client, target, s)'
      <3>1. CASE \E d \in Contexts : \E i \in DOMAIN client[d] : CommandOwed(client[d][i], s)
        BY <1>s, <2>1, <3>1 DEF Owed, CommandOwed, Newest
      <3>2. CASE \E u \in Tasks : Newest(s, target[u].val)
        BY <2>1, <3>2 DEF Owed, Newest
      <3>3. CASE s \in FragSyncs /\ scene # {}
        <4>1. PICK u \in Tasks : u \in scene
          BY <3>3 DEF SgxInv, SgxTypeOK
        <4>2. u \in scene' \/ last
          BY <4>1
        <4>3. CASE last
          <5>1. CommandOwed(cmd, s)'
            BY <1>4, <3>3, <4>3 DEF CommandOwed
          <5> QED BY <1>2, <1>s, <5>1 DEF Owed
        <4> QED BY <3>3, <4>2, <4>3 DEF Owed
      <3> QED BY <2>4, <3>1, <3>2, <3>3 DEF Owed
    <2> QED BY <2>1, <2>2, <2>3, <2>4
  <1>12. TargetsOK(client, target)'
    <2> SUFFICES ASSUME NEW u \in Tasks
                 PROVE  /\ DOMAIN target'[u].val \subseteq DstSyncs
                        /\ target'[u].inuse \/ target'[u].val # Nothing =>
                              \/ u \in scene'
                              \/ \E d \in Contexts : \E i \in DOMAIN client'[d] :
                                    client'[d][i].task = u /\ client'[d][i].last
      BY DEF TargetsOK
    <2>1. /\ DOMAIN target[u].val \subseteq DstSyncs
          /\ target[u].inuse \/ target[u].val # Nothing =>
                \/ u \in scene
                \/ \E d \in Contexts : \E i \in DOMAIN client[d] :
                      client[d][i].task = u /\ client[d][i].last
      BY <1>2 DEF TargetsOK
    <2>2. u = t /\ last => \E d \in Contexts : \E i \in DOMAIN client'[d] :
                              client'[d][i].task = u /\ client'[d][i].last
      <3>1. PICK i \in DOMAIN client'[c] : client'[c][i] = cmd
        BY <1>s
      <3> QED BY <1>2, <1>4, <3>1
    <2>3. (\E d \in Contexts : \E i \in DOMAIN client[d] :
                 client[d][i].task = u /\ client[d][i].last)
            => \E d \in Contexts : \E i \in DOMAIN client'[d] :
                 client'[d][i].task = u /\ client'[d][i].last
      BY <1>s
    <2> QED BY <2>1, <2>2, <2>3
  <1>13. RingsServed'
    <2> SUFFICES ASSUME NEW d \in Contexts
                 PROVE  \/ Flushed(client'[d])
                        \/ \E u \in Tasks : /\ Ctx[u] = d
                                            /\ task'[u] = "ready" \/ (task'[u] = "queued" /\ Kicked(d)')
      BY DEF RingsServed
    <2>1. Kicked(d)' <=> Kicked(d)
      BY <1>1 DEF Kicked
    <2>2. Flushed(client[d]) => Flushed(client'[d])
      <3>1. CASE d = c
        BY <1>4, <1>5, <1>6, <3>1 DEF Flushed
      <3>2. CASE d # c
        BY <1>6, <3>2
      <3> QED BY <3>1, <3>2
    <2> QED BY <1>1, <1>2, <1>6, <2>1, <2>2 DEF RingsServed
  <1> QED BY <1>7, <1>10, <1>11, <1>12, <1>13 DEF SgxInv

LEMMA BuildStep ==
    ASSUME SgxInv, NEW t \in Tasks,
           BuildTransfer(t) \/ (\E last \in BOOLEAN : BuildRender(t, last))
    PROVE  SgxInv'
  <1>1. target \in Targets /\ scene \in SUBSET Tasks /\ Ctx[t] \in Contexts
    BY Kinds DEF SgxInv, SgxTypeOK, Memory, Images
  <1>2. CASE BuildTransfer(t)
    <2>1. /\ Write(t, FALSE, FALSE) /\ UNCHANGED <<target, scene>> /\ Ctx[t] \notin Renders
      BY <1>1, <1>2, Kinds DEF BuildTransfer
    <2> QED BY <1>1, <2>1, WriteStep
  <1>3. ASSUME NEW last \in BOOLEAN, BuildRender(t, last) PROVE SgxInv'
    <2> DEFINE first == t \notin scene
    <2>1. /\ Write(t, first, last) /\ first \in BOOLEAN /\ Ctx[t] \in Renders
          /\ target' = [target EXCEPT ![t].inuse = TRUE]
          /\ scene' = IF last THEN scene \ {t} ELSE scene \cup {t}
      BY <1>3 DEF BuildRender
    <2> HIDE DEF first
    <2>2. \A u \in Tasks : target[u] = [inuse |-> target[u].inuse, val |-> target[u].val]
      BY <1>1 DEF Targets
    <2>3. /\ target' \in Targets
          /\ \A u \in Tasks : target'[u].val = target[u].val
          /\ \A u \in Tasks : target'[u].inuse = (target[u].inuse \/ u = t)
      BY <1>1, <2>1, <2>2 DEF Targets
    <2> QED BY <1>1, <2>1, <2>3, WriteStep
  <1> QED BY <1>2, <1>3

(* The gap to a counter grows by one when another operation is handed out. *)
LEMMA GapGrows ==
    ASSUME NEW p \in Word, NEW x \in Word, Gap(p, x) < LAG
    PROVE  Gap((p + 1) % WORD, x) = Gap(p, x) + 1
  <1> DEFINE q == (p + 1) % WORD
  <1>1. q \in Word /\ q = IF p = WORD - 1 THEN 0 ELSE p + 1
    BY WordSucc
  <1> HIDE DEF q
  <1>2. /\ Gap(p, x) \in Word /\ Gap(p, x) = IF p >= x THEN p - x ELSE p - x + WORD
        /\ Gap(q, x) \in Word /\ Gap(q, x) = IF q >= x THEN q - x ELSE q - x + WORD
    BY <1>1, GapValue
  <1>3. LAG < WORD - 1 /\ LAG \in Nat /\ WORD \in Nat
    BY SgxAssumption
  <1>4. Gap(q, x) = Gap(p, x) + 1
    BY <1>1, <1>2, <1>3 DEF Word
  <1> QED BY <1>4 DEF q

(* Handing out an operation moves what waits one further into the window.  *)
LEMMA HandOutCounts ==
    ASSUME SgxInv, InRange, NEW S, HandOut(S), NEW s \in Syncs
    PROVE  /\ pending'[s] \in Word
           /\ Gap(pending'[s], complete[s]) <= LAG
           /\ Gap(pending'[s], pending[s]) = IF s \in S THEN 1 ELSE 0
           /\ s \notin S => pending'[s] = pending[s]
           /\ \A c \in Contexts : \A i \in DOMAIN client[c] : InWindow(s, client[c][i].val, pending'[s])
           /\ \A t \in Tasks : InWindow(s, target[t].val, pending'[s])
  <1> DEFINE p == pending[s]
             q == pending'[s]
  <1>1. /\ p \in Word /\ complete[s] \in Word /\ LAG \in Nat /\ LAG >= 1
        /\ client \in [Contexts -> Seq(Commands)] /\ target \in Targets
        /\ CountsOK(client, target, complete)
    BY SgxAssumption DEF SgxInv, SgxTypeOK, Memory, Images
  <1>2. q = IF s \in S THEN (p + 1) % WORD ELSE p
    BY DEF HandOut
  <1>3. q \in Word
    BY <1>1, <1>2, WordSucc
  <1>4. ASSUME NEW x \in Word, Gap(p, x) < LAG
        PROVE  Gap(q, x) = Gap(p, x) + (IF s \in S THEN 1 ELSE 0)
    <2>1. Gap(p, x) \in Nat
      BY <1>1, GapValue DEF Word
    <2> QED BY <1>1, <1>2, <1>4, <2>1, GapGrows
  <1>5. Gap(p, p) = 0 /\ Gap(p, p) < LAG
    <2>1. Gap(p, p) = 0
      BY <1>1, GapZero
    <2> HIDE DEF p
    <2> QED BY <1>1, <2>1
  <1>6. Gap(p, complete[s]) < LAG /\ Gap(p, complete[s]) \in Nat
    <2>1. Gap(p, complete[s]) < LAG
      BY DEF InRange, Gap
    <2>2. Gap(p, complete[s]) \in Word
      BY <1>1, GapValue
    <2> QED BY <2>1, <2>2, SgxAssumption DEF Word
  <1> HIDE DEF p, q
  <1>7. ASSUME NEW val \in Values, s \in DOMAIN val => Gap(p, val[s]) < LAG, InWindow(s, val, pending[s])
        PROVE  InWindow(s, val, pending'[s])
    <2> SUFFICES ASSUME s \in DOMAIN val PROVE Gap(q, val[s]) \in 1..LAG
      BY DEF InWindow, q
    <2>1. val[s] \in Word
      BY ValueWord
    <2>2. Gap(p, val[s]) \in 1..LAG
      BY <1>7 DEF InWindow, p
    <2>3. Gap(q, val[s]) = Gap(p, val[s]) + (IF s \in S THEN 1 ELSE 0)
      BY <1>4, <1>7, <2>1
    <2>4. Gap(p, val[s]) < LAG
      BY <1>7
    <2> DEFINE g == Gap(p, val[s])
    <2> HIDE DEF g
    <2>5. g \in 1..LAG /\ g < LAG /\ LAG \in Nat /\ Gap(q, val[s]) = g + (IF s \in S THEN 1 ELSE 0)
      BY <1>1, <2>2, <2>3, <2>4 DEF g
    <2> QED BY <2>5
  <1>8. ASSUME NEW c \in Contexts, NEW i \in DOMAIN client[c] PROVE InWindow(s, client[c][i].val, pending'[s])
    <2>1. client[c][i].val \in Values
      <3>1. client[c] \in Seq(Commands)
        BY <1>1
      <3>2. client[c][i] \in Commands
        BY <1>8, <3>1
      <3> QED BY <3>2 DEF Commands
    <2>2. InWindow(s, client[c][i].val, pending[s])
      BY <1>1, <1>8 DEF CountsOK
    <2>3. s \in DOMAIN client[c][i].val => Gap(p, client[c][i].val[s]) < LAG
      BY <1>8 DEF InRange, Gap, p
    <2> DEFINE val == client[c][i].val
    <2>4. ASSUME NEW v, v = val PROVE InWindow(s, v, pending'[s])
      BY <1>7, <2>1, <2>2, <2>3, <2>4
    <2> QED BY <2>4
  <1>9. ASSUME NEW t \in Tasks PROVE InWindow(s, target[t].val, pending'[s])
    <2>1. target[t].val \in Values
      BY <1>1 DEF Targets
    <2>2. InWindow(s, target[t].val, pending[s])
      BY <1>1 DEF CountsOK
    <2>3. s \in DOMAIN target[t].val => Gap(p, target[t].val[s]) < LAG
      BY DEF InRange, Gap, p
    <2> QED BY <1>7, <2>1, <2>2, <2>3
  <1>10. Gap(q, complete[s]) <= LAG /\ Gap(q, p) = IF s \in S THEN 1 ELSE 0
    BY <1>1, <1>4, <1>5, <1>6
  <1> QED BY <1>2, <1>3, <1>8, <1>9, <1>10 DEF p, q

(* Marking the command READY.                                              *)
LEMMA MarkReady ==
    ASSUME NEW cmd \in Commands, NEW ready, NEW val
    PROVE  [cmd EXCEPT !.ready = ready, !.val = val] =
              [task |-> cmd.task, ready |-> ready, first |-> cmd.first, last |-> cmd.last,
               val |-> val]
  <1>1. cmd = [task |-> cmd.task, ready |-> cmd.ready, first |-> cmd.first, last |-> cmd.last,
               val |-> cmd.val]
    BY DEF Commands
  <1>2. [cmd EXCEPT !.ready = ready] =
          [task |-> cmd.task, ready |-> ready, first |-> cmd.first, last |-> cmd.last,
           val |-> cmd.val]
    BY <1>1
  <1>3. [cmd EXCEPT !.ready = ready, !.val = val] = [[cmd EXCEPT !.ready = ready] EXCEPT !.val = val]
    BY <1>1
  <1>4. [[task |-> cmd.task, ready |-> ready, first |-> cmd.first, last |-> cmd.last,
          val |-> cmd.val] EXCEPT !.val = val]
          = [task |-> cmd.task, ready |-> ready, first |-> cmd.first, last |-> cmd.last,
             val |-> val]
    OBVIOUS
  <1> QED BY <1>2, <1>3, <1>4

(* The pending counts as a value.                                          *)
LEMMA CountsValue ==
    ASSUME pending \in [Syncs -> Word], NEW S \in SUBSET Syncs
    PROVE  [s \in S |-> pending[s]] \in Values
  <1>1. [s \in S |-> pending[s]] \in [S -> Word]
    OBVIOUS
  <1> QED BY <1>1 DEF Values

(* The pending counts go into the command, which becomes READY, and those  *)
(* of the destinations into the sync list when it begins a scene.          *)
LEMMA PrepareStep ==
    ASSUME SgxInv, NEW t \in Tasks, Prepare(t)
    PROVE  SgxInv'
  <1> DEFINE c == Ctx[t]
             ring == client[c]
  <1>1. PICK i \in DOMAIN ring :
          /\ InRange
          /\ task[t] = "built" /\ ring[i].task = t /\ ~ring[i].ready
          /\ client' = [client EXCEPT ![c][i] =
                [ring[i] EXCEPT !.ready = TRUE, !.val = [s \in Counts(t) |-> pending[s]]]]
          /\ target' = IF ring[i].first
                       THEN [target EXCEPT ![t].val = [s \in DstSyncs |-> pending[s]]]
                       ELSE target
          /\ HandOut(Counts(t) \cup Listed(ring[i]))
          /\ lost' = lost \ (Counts(t) \cup Listed(ring[i]))
          /\ task' = [task EXCEPT ![t] = "ready"]
          /\ UNCHANGED <<status, enable, irq, event, hostctl, kernel, complete, scene, ctl, flip, isr>>
    BY DEF Prepare
  <1> DEFINE old == ring[i]
             val == [s \in Counts(t) |-> pending[s]]
             list == [s \in DstSyncs |-> pending[s]]
             cmd == [old EXCEPT !.ready = TRUE, !.val = val]
             S == Counts(t) \cup Listed(old)
  <1>2. /\ c \in Contexts /\ client \in [Contexts -> Seq(Commands)]
        /\ complete \in [Syncs -> Word] /\ target \in Targets /\ scene \in SUBSET Tasks
        /\ task \in [Tasks -> {"idle", "built", "ready", "queued"}]
        /\ pending \in [Syncs -> Word] /\ kernel \in Seq(Entries)
        /\ RingsOK(client) /\ TargetsOK(client, target) /\ CountsOK(client, target, complete)
        /\ RingsServed
    BY Kinds DEF SgxInv, SgxTypeOK, Memory, Images
  <1>3. /\ ring \in Seq(Commands) /\ old \in Commands /\ DOMAIN old.val = {}
        /\ old.first \/ old.last => c \in Renders
        /\ c \in Renders => old.last \/ t \in scene
        /\ old.task = t
    <2>1. ring \in Seq(Commands) /\ old \in Commands
      BY <1>1, <1>2
    <2>2. /\ DOMAIN old.val = {} /\ (old.first \/ old.last => c \in Renders)
          /\ (c \in Renders => old.last \/ t \in scene)
      BY <1>1, <1>2 DEF RingsOK
    <2> QED BY <1>1, <2>1, <2>2
  <1>4. val \in Values /\ list \in Values /\ DOMAIN val = Counts(t) /\ DOMAIN list = DstSyncs
        /\ S \subseteq Syncs
    BY <1>2, CountsValue, Kinds DEF Listed
  <1>5. /\ cmd.task = t /\ cmd.ready /\ cmd.first = old.first /\ cmd.last = old.last
        /\ cmd.val = val /\ cmd \in Commands
    <2> HIDE DEF old, val
    <2>1. cmd = [task |-> old.task, ready |-> TRUE, first |-> old.first, last |-> old.last,
                 val |-> val]
      BY <1>3, MarkReady
    <2> HIDE DEF cmd
    <2> QED BY <1>3, <1>4, <2>1 DEF Commands
  <1>6. client' = [client EXCEPT ![c][i] = cmd]
    BY <1>1
  <1>t. /\ target' \in Targets
        /\ \A u \in Tasks : target'[u].inuse = target[u].inuse
        /\ \A u \in Tasks : target'[u].val =
              IF u = t /\ old.first THEN list ELSE target[u].val
    <2>1. target' = IF old.first THEN [target EXCEPT ![t].val = list] ELSE target
      BY <1>1
    <2>2. \A u \in Tasks : target[u] = [inuse |-> target[u].inuse, val |-> target[u].val]
      BY <1>2 DEF Targets
    <2> HIDE DEF list, old
    <2> QED BY <1>2, <1>4, <2>1, <2>2 DEF Targets
  <1>S. /\ InRange /\ HandOut(S) /\ lost' = lost \ S
        /\ UNCHANGED <<complete, scene>>
    BY <1>1
  <1> HIDE DEF cmd, old, c, val, list, S
  <1>7. /\ client' \in [Contexts -> Seq(Commands)]
        /\ client'[c] = [ring EXCEPT ![i] = cmd]
        /\ \A d \in Contexts : d # c => client'[d] = client[d]
        /\ Len(client'[c]) = Len(ring) /\ DOMAIN client'[c] = DOMAIN ring
        /\ \A u \in Tasks : task'[u] = IF u = t THEN "ready" ELSE task[u]
    <2>1. client'[c] = [ring EXCEPT ![i] = cmd] /\ client' = [client EXCEPT ![c] = [ring EXCEPT ![i] = cmd]]
      BY <1>2, <1>6
    <2>2. [ring EXCEPT ![i] = cmd] \in Seq(Commands) /\ Len([ring EXCEPT ![i] = cmd]) = Len(ring)
          /\ DOMAIN [ring EXCEPT ![i] = cmd] = DOMAIN ring
      BY <1>1, <1>3, <1>5
    <2> QED BY <1>1, <1>2, <2>1, <2>2
  <1>8. SgxTypeOK' /\ BringUp' /\ Polling' /\ NoLostFlip'
    <2>1. pending' \in [Syncs -> Word]
      BY <1>S, <1>2, WordSucc DEF HandOut
    <2> QED BY <1>1, <1>2, <1>7, <1>t, <2>1, TaskStep
  <1>9. ASSUME NEW d \in Contexts, NEW j \in DOMAIN client'[d]
        PROVE  /\ j \in DOMAIN client[d]
               /\ \/ ~(d = c /\ j = i) /\ client'[d][j] = client[d][j]
                  \/ d = c /\ j = i /\ client'[d][j] = cmd /\ client[d][j] = old
    <2>1. CASE d = c
      BY <1>7, <1>9, <2>1 DEF old
    <2>2. CASE d # c
      BY <1>7, <1>9, <2>2
    <2> QED BY <2>1, <2>2
  <1>k. /\ \A d \in Contexts : DOMAIN client'[d] = DOMAIN client[d]
        /\ \A d \in Contexts : \A j \in DOMAIN client[d] :
              client'[d][j] = client[d][j] \/ (client'[d][j] = cmd /\ client[d][j] = old)
        /\ i \in DOMAIN client'[c] /\ client'[c][i] = cmd
    <2>1. \A d \in Contexts : DOMAIN client'[d] = DOMAIN client[d]
      BY <1>7
    <2>2. i \in DOMAIN client'[c]
      BY <1>1, <1>7
    <2> QED BY <1>2, <1>9, <2>1, <2>2
  <1>10. RingsOK(client)'
    <2>1. ASSUME NEW d \in Contexts PROVE Len(client'[d]) <= BACKLOG
      BY <1>2, <1>7 DEF RingsOK
    <2>2. ASSUME NEW d \in Contexts, NEW j \in DOMAIN client'[d]
          PROVE  /\ Ctx[client'[d][j].task] = d
                 /\ client'[d][j].first \/ client'[d][j].last => d \in Renders
                 /\ DOMAIN client'[d][j].val =
                       IF client'[d][j].ready THEN Counts(client'[d][j].task) ELSE {}
                 /\ ~client'[d][j].ready => task'[client'[d][j].task] = "built"
                 /\ ~client'[d][j].ready /\ d \in Renders
                       => client'[d][j].last \/ client'[d][j].task \in scene'
      <3>1. CASE ~(d = c /\ j = i) /\ client'[d][j] = client[d][j]
        <4>1. j \in DOMAIN client[d]
          BY <1>9, <2>2
        <4>2. /\ Ctx[client[d][j].task] = d
              /\ client[d][j].first \/ client[d][j].last => d \in Renders
              /\ DOMAIN client[d][j].val =
                    IF client[d][j].ready THEN Counts(client[d][j].task) ELSE {}
              /\ ~client[d][j].ready => task[client[d][j].task] = "built"
              /\ ~client[d][j].ready /\ d \in Renders
                    => client[d][j].last \/ client[d][j].task \in scene
          BY <1>2, <4>1 DEF RingsOK
        <4>3. client[d][j].task \in Tasks
          <5>1. client[d][j] \in Commands
            BY <1>2, <4>1
          <5> QED BY <5>1 DEF Commands
        <4>4. ~client[d][j].ready => client[d][j].task # t
          <5>1. SUFFICES ASSUME ~client[d][j].ready, client[d][j].task = t PROVE FALSE
            OBVIOUS
          <5>2. d = c
            BY <4>2, <5>1 DEF c
          <5>3. i = j
            BY <1>1, <1>2, <4>1, <5>1, <5>2 DEF RingsOK
          <5> QED BY <3>1, <5>2, <5>3
        <4> QED BY <1>7, <1>S, <3>1, <4>2, <4>3, <4>4
      <3>2. CASE d = c /\ j = i /\ client'[d][j] = cmd
        BY <1>3, <1>4, <1>5, <3>2 DEF c
      <3> QED BY <1>9, <2>2, <3>1, <3>2
    <2>3. ASSUME NEW d \in Contexts, NEW j \in DOMAIN client'[d], NEW k \in DOMAIN client'[d],
                 ~client'[d][j].ready, ~client'[d][k].ready,
                 client'[d][j].task = client'[d][k].task
          PROVE  j = k
      <3>1. client'[d][j] = client[d][j] /\ j \in DOMAIN client[d]
        BY <1>5, <1>9, <2>3
      <3>2. client'[d][k] = client[d][k] /\ k \in DOMAIN client[d]
        BY <1>5, <1>9, <2>3
      <3> QED BY <1>2, <2>3, <3>1, <3>2 DEF RingsOK
    <2> QED BY <2>1, <2>2, <2>3 DEF RingsOK
  <1>11. TargetsOK(client, target)'
    <2> SUFFICES ASSUME NEW u \in Tasks
                 PROVE  /\ DOMAIN target'[u].val \subseteq DstSyncs
                        /\ target'[u].inuse \/ target'[u].val # Nothing =>
                              \/ u \in scene'
                              \/ \E d \in Contexts : \E j \in DOMAIN client'[d] :
                                    client'[d][j].task = u /\ client'[d][j].last
      BY DEF TargetsOK
    <2>1. /\ DOMAIN target[u].val \subseteq DstSyncs
          /\ target[u].inuse \/ target[u].val # Nothing =>
                \/ u \in scene
                \/ \E d \in Contexts : \E j \in DOMAIN client[d] :
                      client[d][j].task = u /\ client[d][j].last
      BY <1>2 DEF TargetsOK
    <2>2. (\E d \in Contexts : \E j \in DOMAIN client[d] :
                 client[d][j].task = u /\ client[d][j].last)
            => \E d \in Contexts : \E j \in DOMAIN client'[d] :
                 client'[d][j].task = u /\ client'[d][j].last
      BY <1>3, <1>5, <1>k
    <2>3. u = t /\ old.first =>
            \/ u \in scene
            \/ \E d \in Contexts : \E j \in DOMAIN client'[d] :
                  client'[d][j].task = u /\ client'[d][j].last
      BY <1>2, <1>3, <1>5, <1>k
    <2> QED BY <1>4, <1>S, <1>t, <2>1, <2>2, <2>3
  <1>12. ASSUME NEW s \in Syncs
         PROVE  /\ Gap(pending'[s], complete'[s]) <= LAG
                /\ \A d \in Contexts : \A j \in DOMAIN client'[d] :
                      InWindow(s, client'[d][j].val, pending'[s])
                /\ \A u \in Tasks : InWindow(s, target'[u].val, pending'[s])
                /\ s \notin lost' /\ complete'[s] # pending'[s] => Owed(client, target, s)'
    <2>1. /\ pending'[s] \in Word /\ complete' = complete
          /\ Gap(pending'[s], complete[s]) <= LAG
          /\ Gap(pending'[s], pending[s]) = IF s \in S THEN 1 ELSE 0
          /\ s \notin S => pending'[s] = pending[s]
          /\ \A d \in Contexts : \A j \in DOMAIN client[d] :
                InWindow(s, client[d][j].val, pending'[s])
          /\ \A u \in Tasks : InWindow(s, target[u].val, pending'[s])
      BY <1>S, HandOutCounts
    <2>2. LAG \in Nat /\ LAG >= 1
      BY SgxAssumption
    <2>3. InWindow(s, val, pending'[s]) /\ (old.first => InWindow(s, list, pending'[s]))
      <3>1. s \in DOMAIN val => val[s] = pending[s] /\ s \in S
        BY <1>4 DEF val, S
      <3>2. s \in DOMAIN list /\ old.first => list[s] = pending[s] /\ s \in S
        BY <1>4 DEF list, S, Listed
      <3> QED BY <2>1, <2>2, <3>1, <3>2 DEF InWindow
    <2>4. \A d \in Contexts : \A j \in DOMAIN client'[d] : InWindow(s, client'[d][j].val, pending'[s])
      BY <1>5, <1>k, <2>1, <2>3
    <2>5. \A u \in Tasks : InWindow(s, target'[u].val, pending'[s])
      BY <1>t, <2>1, <2>3
    <2>6. ASSUME s \in Counts(t) PROVE Owed(client, target, s)'
      <3>1. s \in DOMAIN cmd.val /\ cmd.val[s] = pending[s] /\ s \in S
        BY <1>4, <1>5, <2>6 DEF val, S
      <3>2. Gap(pending'[s], cmd.val[s]) = 1
        BY <2>1, <3>1
      <3>3. CASE s \in FragSyncs => cmd.last
        <4>1. PICK j : j = i /\ j \in DOMAIN client'[Ctx[t]] /\ client'[Ctx[t]][j] = cmd
          BY <1>k DEF c
        <4>2. CommandOwed(client[Ctx[t]][j], s)'
          BY <3>1, <3>2, <3>3, <4>1 DEF CommandOwed, Newest
        <4>3. Ctx[t] \in Contexts
          BY Kinds
        <4> QED BY <4>1, <4>2, <4>3 DEF Owed
      <3>4. CASE s \in FragSyncs /\ ~cmd.last
        <4>1. c \in Renders
          BY <2>6, <3>4, Kinds DEF Counts, c
        <4>2. t \in scene'
          BY <1>3, <1>5, <1>S, <3>4, <4>1
        <4> QED BY <3>4, <4>2 DEF Owed
      <3> QED BY <3>3, <3>4
    <2>7. ASSUME s \in Listed(old) PROVE Owed(client, target, s)'
      <3>1. old.first /\ s \in DstSyncs /\ s \in S
        BY <2>7 DEF Listed, S
      <3>2. target'[t].val = list /\ s \in DOMAIN list /\ list[s] = pending[s]
        BY <1>t, <3>1 DEF list
      <3>3. Newest(s, target[t].val)'
        BY <2>1, <3>1, <3>2 DEF Newest
      <3> QED BY <3>3 DEF Owed
    <2>8. ASSUME s \notin S, s \notin lost', complete'[s] # pending'[s]
          PROVE  Owed(client, target, s)'
      <3>1. pending'[s] = pending[s] /\ Owed(client, target, s)
        BY <1>2, <1>S, <2>1, <2>8 DEF CountsOK
      <3>2. ASSUME NEW d \in Contexts, NEW j \in DOMAIN client[d], CommandOwed(client[d][j], s)
            PROVE  CommandOwed(client[d][j], s)'
        <4>1. CASE client'[d][j] = client[d][j]
          BY <3>1, <3>2, <4>1 DEF CommandOwed, Newest
        <4>2. CASE client'[d][j] = cmd /\ client[d][j] = old
          <5>1. s \in FragSyncs /\ old.last
            BY <1>3, <3>2, <4>2 DEF CommandOwed, Newest
          <5>2. s \in Counts(t)
            BY <1>3, <5>1, Kinds DEF c
          <5> QED BY <2>8, <5>2 DEF S
        <4> QED BY <1>k, <4>1, <4>2
      <3>3. ASSUME NEW u \in Tasks, Newest(s, target[u].val)
            PROVE  Newest(s, target[u].val)'
        <4>1. CASE u = t /\ old.first
          <5>1. s \in DstSyncs
            BY <1>2, <3>3 DEF TargetsOK, Newest
          <5> QED BY <2>8, <4>1, <5>1 DEF S, Listed
        <4>2. CASE ~(u = t /\ old.first)
          BY <1>t, <3>1, <3>3, <4>2 DEF Newest
        <4> QED BY <4>1, <4>2
      <3> QED BY <1>k, <1>S, <3>1, <3>2, <3>3 DEF Owed
    <2> QED BY <2>1, <2>4, <2>5, <2>6, <2>7, <2>8 DEF S
  <1>13. CountsOK(client, target, complete)'
    BY <1>12 DEF CountsOK
  <1>14. RingsServed'
    <2> SUFFICES ASSUME NEW d \in Contexts
                 PROVE  \/ Flushed(client'[d])
                        \/ \E u \in Tasks : /\ Ctx[u] = d
                                            /\ task'[u] = "ready" \/ (task'[u] = "queued" /\ Kicked(d)')
      BY DEF RingsServed
    <2>1. CASE d = c
      BY <1>7, <2>1 DEF c
    <2>2. CASE d # c
      <3>1. client'[d] = client[d] /\ (Kicked(d)' <=> Kicked(d))
        BY <1>1, <1>7, <2>2 DEF Kicked
      <3> QED BY <1>1, <1>2, <1>7, <3>1 DEF RingsServed
    <2> QED BY <2>1, <2>2
  <1> QED BY <1>8, <1>10, <1>11, <1>13, <1>14 DEF SgxInv

(* A transfer that lost its place in the ring: its counters stay behind.   *)
LEMMA PrepareLateStep ==
    ASSUME SgxInv, NEW t \in Tasks, PrepareLate(t)
    PROVE  SgxInv'
  <1> DEFINE S == Counts(t)
  <1>1. /\ InRange /\ task[t] = "built"
        /\ \A i \in DOMAIN client[Ctx[t]] :
              client[Ctx[t]][i].task = t => client[Ctx[t]][i].ready
        /\ HandOut(S) /\ lost' = lost \cup S
        /\ task' = [task EXCEPT ![t] = "ready"]
        /\ UNCHANGED <<status, enable, irq, event, hostctl, kernel, client, target, complete, scene,
                       ctl, flip, isr>>
    BY DEF PrepareLate
  <1>2. /\ Ctx[t] \in Contexts /\ client \in [Contexts -> Seq(Commands)]
        /\ target \in Targets /\ scene \in SUBSET Tasks
        /\ task \in [Tasks -> {"idle", "built", "ready", "queued"}]
        /\ pending \in [Syncs -> Word] /\ kernel \in Seq(Entries)
        /\ RingsOK(client) /\ TargetsOK(client, target) /\ CountsOK(client, target, complete)
        /\ RingsServed
    BY Kinds DEF SgxInv, SgxTypeOK, Memory, Images
  <1> HIDE DEF S
  <1>3. \A u \in Tasks : task'[u] = IF u = t THEN "ready" ELSE task[u]
    BY <1>1, <1>2
  <1>4. SgxTypeOK' /\ BringUp' /\ Polling' /\ NoLostFlip'
    <2>1. pending' \in [Syncs -> Word]
      BY <1>1, <1>2, WordSucc DEF HandOut
    <2> QED BY <1>1, <1>2, <2>1, TaskStep
  <1>5. RingsOK(client)'
    <2>1. ASSUME NEW d \in Contexts, NEW i \in DOMAIN client[d], ~client[d][i].ready
          PROVE  task'[client[d][i].task] = "built"
      <3>1. /\ client[d][i] \in Commands /\ task[client[d][i].task] = "built"
            /\ Ctx[client[d][i].task] = d
        BY <1>2, <2>1 DEF RingsOK
      <3>2. client[d][i].task \in Tasks /\ client[d][i].task # t
        BY <1>1, <2>1, <3>1 DEF Commands
      <3> QED BY <1>3, <3>1, <3>2
    <2> QED BY <1>1, <1>2, <2>1 DEF RingsOK
  <1>6. TargetsOK(client, target)'
    BY <1>1, <1>2 DEF TargetsOK
  <1>7. ASSUME NEW s \in Syncs
        PROVE  /\ Gap(pending'[s], complete'[s]) <= LAG
               /\ \A d \in Contexts : \A j \in DOMAIN client'[d] :
                     InWindow(s, client'[d][j].val, pending'[s])
               /\ \A u \in Tasks : InWindow(s, target'[u].val, pending'[s])
               /\ s \notin lost' /\ complete'[s] # pending'[s] => Owed(client, target, s)'
    <2>1. /\ Gap(pending'[s], complete[s]) <= LAG
          /\ s \notin S => pending'[s] = pending[s]
          /\ \A d \in Contexts : \A j \in DOMAIN client[d] :
                InWindow(s, client[d][j].val, pending'[s])
          /\ \A u \in Tasks : InWindow(s, target[u].val, pending'[s])
      BY <1>1, HandOutCounts
    <2>2. s \notin lost' /\ complete'[s] # pending'[s] => Owed(client, target, s)'
      <3> SUFFICES ASSUME s \notin lost', complete'[s] # pending'[s]
                   PROVE  Owed(client, target, s)'
        OBVIOUS
      <3>1. pending'[s] = pending[s] /\ Owed(client, target, s)
        BY <1>1, <1>2, <2>1 DEF CountsOK
      <3> QED BY <1>1, <3>1 DEF Owed, CommandOwed, Newest
    <2> QED BY <1>1, <2>1, <2>2
  <1>8. CountsOK(client, target, complete)'
    BY <1>7 DEF CountsOK
  <1>9. RingsServed'
    BY <1>1, <1>2, <1>3 DEF RingsServed, Kicked
  <1> QED BY <1>4, <1>5, <1>6, <1>8, <1>9 DEF SgxInv

(* A longer kernel ring.                                                   *)
LEMMA AppendKernel ==
    ASSUME kernel \in Seq(Entries), NEW e \in Entries, kernel' = Append(kernel, e)
    PROVE  /\ kernel' \in Seq(Entries)
           /\ \A i \in DOMAIN kernel : i \in DOMAIN kernel' /\ kernel'[i] = kernel[i]
           /\ \E i \in DOMAIN kernel' : kernel'[i] = e
           /\ \A c \in Contexts : Kicked(c) => Kicked(c)'
           /\ e \in Kicks => Kicked(e.ctx)'
  <1>1. /\ kernel' \in Seq(Entries)
        /\ \A i \in DOMAIN kernel : i \in DOMAIN kernel' /\ kernel'[i] = kernel[i]
    OBVIOUS
  <1>2. Len(kernel) + 1 \in DOMAIN kernel' /\ kernel'[Len(kernel) + 1] = e
    OBVIOUS
  <1> QED BY <1>1, <1>2 DEF Kicked

LEMMA ScheduleStep ==
    ASSUME SgxInv, NEW t \in Tasks, Schedule(t)
    PROVE  SgxInv'
  <1> DEFINE e == [type |-> IF Ctx[t] \in Renders THEN "ta" ELSE "transfer", ctx |-> Ctx[t]]
  <1>1. /\ task[t] = "ready" /\ kernel' = Append(kernel, e)
        /\ task' = [task EXCEPT ![t] = "queued"]
        /\ UNCHANGED <<status, enable, irq, event, hostctl, client, target, pending, complete, scene, lost, ctl, flip, isr>>
    BY DEF Schedule
  <1>2. /\ Ctx[t] \in Contexts /\ client \in [Contexts -> Seq(Commands)]
        /\ task \in [Tasks -> {"idle", "built", "ready", "queued"}]
        /\ pending \in [Syncs -> Word] /\ kernel \in Seq(Entries)
        /\ RingsOK(client) /\ TargetsOK(client, target) /\ CountsOK(client, target, complete)
        /\ RingsServed /\ target \in Targets /\ scene \in SUBSET Tasks
    BY SgxAssumption DEF SgxInv, SgxTypeOK, Memory, Images, Contexts
  <1>3. e \in Kicks /\ e \in Entries /\ e.ctx = Ctx[t]
    BY <1>2, Kinds DEF Kicks, Entries
  <1> HIDE DEF e
  <1>4. /\ kernel' \in Seq(Entries)
        /\ \A i \in DOMAIN kernel : i \in DOMAIN kernel' /\ kernel'[i] = kernel[i]
        /\ \A c \in Contexts : Kicked(c) => Kicked(c)'
        /\ Kicked(Ctx[t])'
    BY <1>1, <1>2, <1>3, AppendKernel
  <1>5. \A u \in Tasks : task'[u] = IF u = t THEN "queued" ELSE task[u]
    BY <1>1, <1>2
  <1>6. SgxTypeOK' /\ BringUp' /\ Polling' /\ NoLostFlip'
    BY <1>1, <1>2, <1>4, TaskStep
  <1>7. RingsOK(client)'
    <2>1. ASSUME NEW d \in Contexts, NEW i \in DOMAIN client[d], ~client[d][i].ready
          PROVE  task'[client[d][i].task] = "built"
      <3>1. client[d][i] \in Commands /\ task[client[d][i].task] = "built"
        BY <1>2, <2>1 DEF RingsOK
      <3>2. client[d][i].task \in Tasks
        BY <3>1 DEF Commands
      <3> QED BY <1>1, <1>5, <3>1, <3>2
    <2> QED BY <1>1, <1>2, <2>1 DEF RingsOK
  <1>8. CountsOK(client, target, complete)' /\ TargetsOK(client, target)'
    BY <1>1, <1>2 DEF CountsOK, InWindow, Owed, CommandOwed, Newest, TargetsOK
  <1>9. RingsServed'
    BY <1>1, <1>2, <1>4, <1>5 DEF RingsServed
  <1> QED BY <1>6, <1>7, <1>8, <1>9 DEF SgxInv

LEMMA ControlScheduleStep ==
    ASSUME SgxInv, NEW type \in Controls, ControlSchedule(type)
    PROVE  SgxInv'
  <1> DEFINE e == [type |-> type, ctx |-> "none"]
             stale == Answer(type) \cup (IF type = "resume" THEN {"IDLE", "POWEROFF"} ELSE {})
  <1>1. /\ ctl.at = "run" /\ kernel' = Append(kernel, e)
        /\ hostctl' = hostctl \ stale
        /\ ctl' = [at |-> "queued", type |-> type]
        /\ UNCHANGED <<status, enable, irq, event, client, target, pending, complete, task, scene,
                       lost, flip, isr>>
    BY DEF ControlSchedule
  <1>2. SgxTypeOK /\ BringUp /\ Polling /\ NoLostFlip /\ kernel \in Seq(Entries) /\ RingsServed
    BY DEF SgxInv, SgxTypeOK
  <1>3. e \in Entries /\ e.type = type
    BY DEF Entries
  <1>4. "INIT" \notin stale
    BY AnswerFlags
  <1> HIDE DEF e, stale
  <1>5. /\ kernel' \in Seq(Entries)
        /\ \E i \in DOMAIN kernel' : kernel'[i] = e
        /\ \A c \in Contexts : Kicked(c) => Kicked(c)'
    BY <1>1, <1>2, <1>3, AppendKernel
  <1>6. SgxTypeOK'
    <2>1. Memory' \in Images
      BY <1>1, <1>2 DEF SgxTypeOK, Memory, Images
    <2> QED BY <1>1, <1>2, <1>5, <2>1 DEF SgxTypeOK
  <1>7. BringUp'
    BY <1>1, <1>2, <1>4 DEF BringUp
  <1>8. Polling'
    BY <1>1, <1>3, <1>5 DEF Polling, PollAnswered
  <1>9. NoLostFlip'
    <2>1. FlipReady(complete)' <=> FlipReady(complete)
      BY <1>1 DEF FlipReady
    <2> QED BY <1>1, <1>2, <2>1 DEF NoLostFlip
  <1>10. RingsOK(client)' /\ CountsOK(client, target, complete)' /\ TargetsOK(client, target)'
    BY <1>1 DEF SgxInv, RingsOK, CountsOK, InWindow, Owed, CommandOwed, Newest, TargetsOK
  <1>11. RingsServed'
    BY <1>1, <1>2, <1>5 DEF RingsServed
  <1> QED BY <1>6, <1>7, <1>8, <1>9, <1>10, <1>11 DEF SgxInv
-----------------------------------------------------------------------------
(* The doorbell.                                                           *)
LEMMA KickEffect ==
    ASSUME SgxInv, "INIT" \in hostctl, WriteKick
    PROVE  /\ UNCHANGED <<status, enable, irq, pending>>
           /\ Memory' \in Images /\ kernel' = <<>>
           /\ event' \in BOOLEAN
           /\ event => event'
           /\ event' \/ complete' = complete
           /\ hostctl \subseteq hostctl'
           /\ \A i \in DOMAIN kernel : kernel[i] \notin Kicks => Answer(kernel[i].type) \subseteq hostctl'
           /\ RingsOK(client') /\ TargetsOK(client', target') /\ CountsOK(client', target', complete')
           /\ \A c \in Contexts : IF Kicked(c) THEN Flushed(client'[c]) ELSE client'[c] = client[c]
  <1>1. /\ UNCHANGED <<status, enable, irq, pending>>
        /\ client' = ConsumeCcb.client
        /\ target' = ConsumeCcb.target
        /\ complete' = ConsumeCcb.complete
        /\ hostctl' = ConsumeCcb.hostctl \cup {"MISC"}
        /\ kernel' = <<>>
        /\ event' = (event \/ kernel # <<>>)
    BY DEF WriteKick, RaiseEvent
  <1>2. pending \in [Syncs -> Word] /\ kernel \in Seq(Entries) /\ ImageOK(Memory) /\ event \in BOOLEAN
    BY DEF SgxInv, SgxTypeOK, ImageOK, Memory
  <1>3. /\ ImageOK(ConsumeCcb)
        /\ hostctl \subseteq ConsumeCcb.hostctl
        /\ \A i \in DOMAIN kernel :
              kernel[i] \notin Kicks => Answer(kernel[i].type) \subseteq ConsumeCcb.hostctl
        /\ \A c \in Contexts :
              IF Kicked(c) THEN Flushed(ConsumeCcb.client[c])
              ELSE ConsumeCcb.client[c] = client[c]
        /\ kernel = <<>> => ConsumeCcb.complete = complete
    BY <1>2, ConsumeCcbOK
  <1>4. Memory' \in Images /\ RingsOK(client') /\ TargetsOK(client', target') /\ CountsOK(client', target', complete')
    BY <1>1, <1>3 DEF ImageOK, Memory, Images, Flags
  <1> QED BY <1>1, <1>2, <1>3, <1>4

(* The part of the invariant that every doorbell keeps.                    *)
LEMMA KickKeeps ==
    ASSUME SgxInv, "INIT" \in hostctl, WriteKick,
           UNCHANGED <<scene, lost, flip, isr>>, ctl'.at \notin {"off", "reset", "enabled"},
           ctl' = ctl \/ ctl.at \in {"enabled", "queued"}, ctl'.type = ctl.type,
           ctl' \in [at : {"off", "reset", "enabled", "run", "queued", "poll"},
                     type : Controls \cup {"other"}],
           ctl'.at = "poll" => ctl.at \in {"queued", "poll"},
           ctl'.at = "queued" => ctl.at = "queued",
           task' \in [Tasks -> {"idle", "built", "ready", "queued"}],
           \A u \in Tasks : task[u] # "queued" => task'[u] = task[u]
    PROVE  SgxInv'
  <1>1. /\ UNCHANGED <<status, enable, irq, pending>>
        /\ Memory' \in Images /\ kernel' = <<>>
        /\ event' \in BOOLEAN
        /\ event => event'
        /\ event' \/ complete' = complete
        /\ hostctl \subseteq hostctl'
        /\ \A i \in DOMAIN kernel : kernel[i] \notin Kicks => Answer(kernel[i].type) \subseteq hostctl'
        /\ RingsOK(client') /\ TargetsOK(client', target') /\ CountsOK(client', target', complete')
        /\ \A c \in Contexts : IF Kicked(c) THEN Flushed(client'[c]) ELSE client'[c] = client[c]
    BY KickEffect
  <1>2. SgxTypeOK /\ BringUp /\ Polling /\ NoLostFlip /\ RingsServed
    BY DEF SgxInv
  <1>3. client' \in [Contexts -> Seq(Commands)]
    BY <1>1 DEF Memory, Images
  <1>4. SgxTypeOK'
    BY <1>1, <1>2 DEF SgxTypeOK
  <1>5. BringUp'
    <2>1. enable = {"SW_EVENT"}
      BY <1>2 DEF BringUp
    <2> QED BY <1>1, <1>2, <2>1 DEF BringUp
  <1>6. Polling'
    <2>1. ctl.at = "queued" => Answer(ctl.type) \subseteq hostctl'
      <3>1. ASSUME NEW i \in DOMAIN kernel, kernel[i].type = ctl.type, kernel[i].type \in Controls
            PROVE  Answer(ctl.type) \subseteq hostctl'
        <4>1. kernel[i] \notin Kicks
          BY <3>1, SgxAssumption DEF Kicks
        <4> QED BY <1>1, <3>1, <4>1
      <3> QED BY <1>1, <1>2, <3>1 DEF Polling
    <2>2. ctl.at = "poll" => Answer(ctl.type) \subseteq hostctl'
      BY <1>1, <1>2 DEF Polling, PollAnswered
    <2> QED BY <2>1, <2>2 DEF Polling, PollAnswered
  <1>7. NoLostFlip'
    <2>1. CASE event'
      BY <2>1 DEF NoLostFlip
    <2>2. CASE ~event'
      <3>1. complete' = complete /\ ~event /\ (FlipReady(complete)' <=> FlipReady(complete))
        BY <1>1, <2>2 DEF FlipReady
      <3> QED BY <1>1, <1>2, <3>1 DEF NoLostFlip
    <2> QED BY <2>1, <2>2
  <1>8. RingsOK(client)'
    <2>1. ASSUME NEW d \in Contexts, NEW i \in DOMAIN client'[d], ~client'[d][i].ready
          PROVE  task'[client'[d][i].task] = "built"
      <3>1. client'[d][i] \in Commands
        BY <1>3, <2>1
      <3>2. client'[d][i].task \in Tasks
        BY <3>1 DEF Commands
      <3>3. task[client'[d][i].task] = "built"
        BY <1>1, <2>1 DEF RingsOK
      <3> QED BY <3>2, <3>3
    <2> QED BY <1>1, <2>1 DEF RingsOK
  <1>9. CountsOK(client, target, complete)' /\ TargetsOK(client, target)'
    BY <1>1 DEF CountsOK, InWindow, Owed, CommandOwed, Newest, TargetsOK
  <1>10. RingsServed'
    <2> SUFFICES ASSUME NEW d \in Contexts
                 PROVE  \/ Flushed(client'[d])
                        \/ \E u \in Tasks : Ctx[u] = d /\ task'[u] = "ready"
      BY DEF RingsServed
    <2>1. CASE Kicked(d)
      BY <1>1, <2>1
    <2>2. CASE ~Kicked(d)
      <3>1. client'[d] = client[d]
        BY <1>1, <2>2
      <3> QED BY <1>2, <2>2, <3>1 DEF RingsServed
    <2> QED BY <2>1, <2>2
  <1> QED BY <1>4, <1>5, <1>6, <1>7, <1>8, <1>9, <1>10 DEF SgxInv

LEMMA KickStep ==
    ASSUME SgxInv, StartKick \/ ControlKick \/ \E t \in Tasks : Kick(t)
    PROVE  SgxInv'
  <1>1. SgxTypeOK /\ BringUp
    BY DEF SgxInv
  <1>2. ASSUME NEW t \in Tasks, Kick(t) PROVE SgxInv'
    <2>1. /\ task[t] = "queued" /\ WriteKick /\ task' = [task EXCEPT ![t] = "idle"]
          /\ UNCHANGED <<scene, lost, ctl, flip, isr>>
      BY <1>2 DEF Kick
    <2>2. ctl.at \notin {"off", "reset", "enabled"} /\ "INIT" \in hostctl
      BY <1>1, <2>1 DEF BringUp
    <2>3. /\ task' \in [Tasks -> {"idle", "built", "ready", "queued"}]
          /\ \A u \in Tasks : task[u] # "queued" => task'[u] = task[u]
          /\ ctl \in [at : {"off", "reset", "enabled", "run", "queued", "poll"},
                      type : Controls \cup {"other"}]
      BY <1>1, <2>1 DEF SgxTypeOK
    <2> QED BY <2>1, <2>2, <2>3, KickKeeps
  <1>3. CASE ControlKick
    <2>1. /\ ctl.at = "queued" /\ WriteKick /\ ctl' = [ctl EXCEPT !.at = "poll"]
          /\ UNCHANGED <<task, scene, lost, flip, isr>>
      BY <1>3 DEF ControlKick
    <2>2. "INIT" \in hostctl
      BY <1>1, <2>1 DEF BringUp
    <2>3. /\ task' \in [Tasks -> {"idle", "built", "ready", "queued"}]
          /\ ctl' \in [at : {"off", "reset", "enabled", "run", "queued", "poll"},
                      type : Controls \cup {"other"}]
          /\ ctl'.at = "poll" /\ ctl'.type = ctl.type
      BY <1>1, <2>1 DEF SgxTypeOK
    <2> QED BY <2>1, <2>2, <2>3, KickKeeps
  <1>4. CASE StartKick
    <2>1. /\ ctl.at = "enabled" /\ WriteKick /\ ctl' = [ctl EXCEPT !.at = "run"]
          /\ UNCHANGED <<task, scene, lost, flip, isr>>
      BY <1>4 DEF StartKick
    <2>2. /\ task' \in [Tasks -> {"idle", "built", "ready", "queued"}]
          /\ ctl' \in [at : {"off", "reset", "enabled", "run", "queued", "poll"},
                      type : Controls \cup {"other"}]
          /\ ctl'.at = "run" /\ ctl'.type = ctl.type
      BY <1>1, <2>1 DEF SgxTypeOK
    <2>3. CASE "INIT" \in hostctl
      BY <2>1, <2>2, <2>3, KickKeeps
    <2>4. CASE "INIT" \notin hostctl
      <3>1. /\ UNCHANGED <<status, enable, irq, pending, event, kernel, client, target, complete>>
            /\ hostctl' = hostctl \cup {"INIT"}
        BY <2>1, <2>4 DEF WriteKick
      <3>2. /\ RingsOK(client)' /\ TargetsOK(client, target)'
            /\ CountsOK(client, target, complete)' /\ RingsServed'
        BY <2>1, <3>1, QuietStep
      <3>3. SgxTypeOK'
        <4>1. Memory' \in Images
          BY <1>1, <3>1 DEF SgxTypeOK, Memory, Images, Flags
        <4> QED BY <1>1, <2>1, <2>2, <3>1, <4>1 DEF SgxTypeOK
      <3>4. BringUp'
        BY <1>1, <2>1, <2>2, <3>1 DEF BringUp
      <3>5. Polling' /\ NoLostFlip'
        BY <1>1, <2>1, <2>2 DEF Polling, PollAnswered, NoLostFlip, BringUp
      <3> QED BY <3>2, <3>3, <3>4, <3>5 DEF SgxInv
    <2> QED BY <2>3, <2>4
  <1> QED BY <1>2, <1>3, <1>4
-----------------------------------------------------------------------------
(* The invariant holds for any interleaving of tasks, driver, interrupt    *)
(* handler and event timer.                                                *)
THEOREM SgxCorrect == SgxSpec => []SgxInv
  <1>1. SgxInit => SgxInv
    <2> SUFFICES ASSUME SgxInit PROVE SgxInv
      OBVIOUS
    <2>1. /\ START \in Word /\ Gap(START, START) = 0 /\ 0 \in Word
      BY SgxAssumption, GapValue DEF Word
    <2>2. \A c \in Contexts : client[c] = <<>> /\ DOMAIN client[c] = {}
      BY DEF SgxInit
    <2>3. SgxTypeOK
      <3>1. <<>> \in Seq(Commands) /\ <<>> \in Seq(Entries)
        OBVIOUS
      <3>2. Memory \in Images
        <4>1. Nothing \in [{} -> Word] /\ {} \in SUBSET Syncs
          BY DEF Nothing
        <4>2. FreeTarget \in [inuse : BOOLEAN, val : Values]
          BY <4>1 DEF FreeTarget, Values
        <4> QED BY <2>1, <3>1, <4>2 DEF SgxInit, Memory, Images, Targets
      <3> QED BY <2>1, <3>1, <3>2 DEF SgxInit, SgxTypeOK
    <2>4. RingsOK(client)
      BY <2>2, SgxAssumption DEF RingsOK
    <2>5. CountsOK(client, target, complete) /\ TargetsOK(client, target)
      <3>1. \A t \in Tasks : target[t].val = Nothing /\ ~target[t].inuse /\ DOMAIN Nothing = {}
        BY DEF SgxInit, FreeTarget, Nothing
      <3> QED BY <2>1, <2>2, <3>1, SgxAssumption DEF SgxInit, CountsOK, InWindow, TargetsOK
    <2>6. RingsServed
      BY <2>2 DEF RingsServed, Flushed
    <2>7. BringUp
      BY DEF SgxInit, BringUp
    <2>8. Polling /\ NoLostFlip
      BY DEF SgxInit, Polling, PollAnswered, NoLostFlip
    <2> QED BY <2>3, <2>4, <2>5, <2>6, <2>7, <2>8 DEF SgxInv
  <1>2. SgxInv /\ [SgxNext]_sgx => SgxInv'
    <2> SUFFICES ASSUME SgxInv, [SgxNext]_sgx PROVE SgxInv'
      OBVIOUS
    <2>1. CASE EventTimer \/ StartReset \/ StartEnable \/ IsrRead \/ IsrClear
      BY <2>1, EventStep
    <2>2. CASE Flip \/ Misr \/ ControlDone
      BY <2>2, FlipStep
    <2>3. CASE StartKick \/ ControlKick \/ \E t \in Tasks : Kick(t)
      BY <2>3, KickStep
    <2>4. ASSUME NEW t \in Tasks, Prepare(t) PROVE SgxInv'
      BY <2>4, PrepareStep
    <2>5. ASSUME NEW t \in Tasks, Schedule(t) PROVE SgxInv'
      BY <2>5, ScheduleStep
    <2>6. ASSUME NEW t \in Tasks,
                 BuildTransfer(t) \/ (\E last \in BOOLEAN : BuildRender(t, last))
          PROVE  SgxInv'
      BY <2>6, BuildStep
    <2>9. ASSUME NEW t \in Tasks, PrepareLate(t) PROVE SgxInv'
      BY <2>9, PrepareLateStep
    <2>7. ASSUME NEW type \in Controls, ControlSchedule(type) PROVE SgxInv'
      BY <2>7, ControlScheduleStep
    <2>8. CASE UNCHANGED sgx
      <3>1. /\ UNCHANGED <<status, enable, irq, event, hostctl, kernel, client, target, pending, complete>>
            /\ UNCHANGED <<task, scene, lost, ctl, flip, isr>>
        BY <2>8 DEF sgx, driver
      <3>2. /\ RingsOK(client)' /\ TargetsOK(client, target)'
            /\ CountsOK(client, target, complete)' /\ RingsServed'
        BY <3>1, QuietStep
      <3>3. SgxTypeOK'
        BY <3>1 DEF SgxInv, SgxTypeOK, Memory
      <3>4. BringUp' /\ Polling'
        BY <3>1 DEF SgxInv, BringUp, Polling, PollAnswered
      <3>5. NoLostFlip'
        BY <3>1 DEF SgxInv, NoLostFlip, FlipReady
      <3> QED BY <3>2, <3>3, <3>4, <3>5 DEF SgxInv
    <2> QED BY <2>1, <2>2, <2>3, <2>4, <2>5, <2>6, <2>7, <2>8, <2>9 DEF SgxNext
  <1> QED BY <1>1, <1>2, PTL DEF SgxSpec

(* When nothing is under way every ring is empty, and every operation      *)
(* handed out is complete, however often the counters have wrapped; the 3D *)
(* sync and the destinations once no scene is under way either.            *)
THEOREM SyncSettledThm == SgxSpec => []SyncSettled
  <1>1. SgxInv => SyncSettled
    <2> SUFFICES ASSUME SgxInv, \A t \in Tasks : task[t] = "idle"
                 PROVE  /\ \A c \in Contexts : client[c] = <<>>
                        /\ \A s \in TaSyncs \ lost : complete[s] = pending[s]
                        /\ scene = {} =>
                              /\ \A s \in Syncs \ lost : complete[s] = pending[s]
                              /\ \A t \in Tasks : ~target[t].inuse
      BY DEF SyncSettled, Busy
    <2>1. /\ RingsOK(client) /\ TargetsOK(client, target) /\ CountsOK(client, target, complete)
          /\ RingsServed
          /\ client \in [Contexts -> Seq(Commands)]
      BY DEF SgxInv, SgxTypeOK, Memory, Images
    <2>2. ASSUME NEW c \in Contexts PROVE client[c] = <<>> /\ DOMAIN client[c] = {}
      <3>1. Flushed(client[c])
        BY <2>1 DEF RingsServed
      <3>2. SUFFICES ASSUME client[c] # <<>> PROVE FALSE
        OBVIOUS
      <3>3. /\ client[c] \in Seq(Commands) /\ 1 \in DOMAIN client[c]
            /\ Head(client[c]) = client[c][1] /\ client[c][1] \in Commands
        BY <2>1, <3>2
      <3>4. task[client[c][1].task] = "built" /\ client[c][1].task \in Tasks
        BY <2>1, <3>1, <3>2, <3>3 DEF Flushed, RingsOK, Commands
      <3> QED BY <3>4
    <2>3. ASSUME NEW s \in TaSyncs \ lost PROVE complete[s] = pending[s]
      <3>1. s \in Syncs /\ s \notin FragSyncs /\ s \notin DstSyncs
        BY Kinds
      <3>2. ASSUME NEW t \in Tasks PROVE ~Newest(s, target[t].val)
        BY <2>1, <3>1 DEF TargetsOK, Newest
      <3>3. ~Owed(client, target, s)
        BY <2>2, <3>1, <3>2 DEF Owed
      <3> QED BY <2>1, <3>1, <3>3 DEF CountsOK
    <2>4. ASSUME scene = {}, NEW t \in Tasks PROVE ~target[t].inuse
      BY <2>1, <2>2, <2>4 DEF TargetsOK
    <2>5. ASSUME scene = {}, NEW s \in Syncs \ lost PROVE complete[s] = pending[s]
      <3>1. ASSUME NEW t \in Tasks PROVE ~Newest(s, target[t].val)
        <4>1. target[t].val = Nothing
          BY <2>1, <2>2, <2>5 DEF TargetsOK
        <4> QED BY <4>1 DEF Newest, Nothing
      <3>2. ~Owed(client, target, s)
        BY <2>2, <2>5, <3>1 DEF Owed
      <3> QED BY <2>1, <3>2 DEF CountsOK
    <2> QED BY <2>2, <2>3, <2>4, <2>5
  <1> QED BY SgxCorrect, <1>1, PTL

(* No completion counter runs ahead of the operations handed out.          *)
THEOREM NeverAheadThm == SgxSpec => []NeverAhead
  <1>1. SgxInv => NeverAhead
    <2> SUFFICES ASSUME SgxInv, NEW s \in Syncs PROVE ~After(complete[s], pending[s])
      BY DEF NeverAhead
    <2> DEFINE p == pending[s]
               d == complete[s]
    <2>1. p \in Word /\ d \in Word /\ Gap(p, d) <= LAG
      BY DEF SgxInv, SgxTypeOK, Memory, Images, CountsOK
    <2>2. /\ Gap(p, d) \in Word /\ Gap(p, d) = IF p >= d THEN p - d ELSE p - d + WORD
          /\ Gap(d, p) \in Word /\ Gap(d, p) = IF d >= p THEN d - p ELSE d - p + WORD
      BY <2>1, GapValue
    <2>3. LAG < WORD \div 2 /\ LAG \in Nat /\ WORD \in Nat /\ 2 * (WORD \div 2) <= WORD
      BY SgxAssumption
    <2>4. After(d, p) <=> Gap(d, p) \in 1..(WORD \div 2) - 1
      BY DEF After, Gap
    <2> QED BY <2>1, <2>2, <2>3, <2>4 DEF Word
  <1> QED BY SgxCorrect, <1>1, PTL

(* No flip waits for an interrupt that is not coming.                      *)
THEOREM NoLostFlipThm == SgxSpec => []NoLostFlip
  <1>1. SgxInv => NoLostFlip
    BY DEF SgxInv
  <1> QED BY SgxCorrect, <1>1, PTL

(* A control command is answered by the doorbell it was queued for, or by  *)
(* an earlier one of another task.                                         *)
THEOREM PollAnsweredThm == SgxSpec => []PollAnswered
  <1>1. SgxInv => PollAnswered
    BY DEF SgxInv, Polling
  <1> QED BY SgxCorrect, <1>1, PTL
=============================================================================
