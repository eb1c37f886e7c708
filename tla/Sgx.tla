-------------------------------- MODULE Sgx --------------------------------
(***************************************************************************)
(* The SGX microkernel shim (qemu/hw/arm/garmin_gpsmap.c, "PowerVR SGX")   *)
(* with the driver that talks to it.                                       *)
(*                                                                         *)
(* The driver writes a command into a client ring (client CCB), its kernel *)
(* half takes the pending count of every sync object the command uses,     *)
(* marks the command READY, puts a kick for the context into the kernel    *)
(* ring (kernel CCB) and rings the doorbell.  The shim answers inside the  *)
(* doorbell write: it drains the kernel ring, completes every READY        *)
(* command of the contexts named there, and arms a timer that raises the   *)
(* one interrupt the driver listens to.  The driver is firmware; its steps *)
(* are taken from docs/sgx_fake_ukernel.md.                                *)
(*                                                                         *)
(* A frame may take a task several kicks, a scene.  Every kick takes a     *)
(* read operation on the 3D sync and the scene's last kick completes it;   *)
(* the first kick marks the render target in use and takes the write       *)
(* operations of its destinations into the target's sync list, where the   *)
(* last kick finds them (sections 4.3 and 4.4).                            *)
(*                                                                         *)
(* A ring is the sequence of what lies between its read and its write      *)
(* offset.  Left out: addresses and the SGX page tables (every address     *)
(* resolves), status values, the second status register, which nothing     *)
(* ever sets, the misc-info block apart from its answered bit, the         *)
(* TA/3D dependency of a render (flag 0x200) and the write operations of   *)
(* a transfer's TA and 3D syncs, which are counted like its destination.   *)
(* Each task draws into one render target.                                 *)
(***************************************************************************)
EXTENDS Integers, Sequences

CONSTANTS
    Renders,    \* render contexts
    Transfers,  \* transfer contexts
    Tasks,      \* the tasks that submit commands
    Ctx,        \* Ctx[t]: the context task t uses
    TaSyncs,    \* read operations a kick's TA phase completes, a transfer's too
    FragSyncs,  \* read operations of the 3D sync
    DstSyncs,   \* write operations of the destinations
    Screen,     \* the one of DstSyncs a display flip waits for
    Controls,   \* the commands the driver issues for itself
    KSLOTS,     \* slots of the kernel ring, 256
    GUARD,      \* commands completed per kick, 64
    WORD,       \* 2^32
    START,      \* the counters when the model starts
    LAG,        \* bound: operations that overtake one in a ring, 2^31 - 1
    COMMANDS,   \* bound: commands the tasks build
    BACKLOG     \* bound: commands in a client ring at a time

ASSUME SgxAssumption ==
    /\ Renders \cap Transfers = {}
    /\ Ctx \in [Tasks -> Renders \cup Transfers]
    /\ TaSyncs \cap FragSyncs = {} /\ TaSyncs \cap DstSyncs = {}
    /\ FragSyncs \cap DstSyncs = {} /\ Screen \in DstSyncs
    /\ Controls \subseteq {"idle", "off", "resume", "cleanup", "misc", "other"}
    /\ KSLOTS \in Nat \ {0, 1}
    /\ GUARD \in Nat \ {0}
    /\ WORD \in Nat \ {0, 1}
    /\ START \in 0..WORD - 1
    /\ LAG \in 1..(WORD \div 2) - 1
    /\ COMMANDS \in Nat
    /\ BACKLOG \in 1..GUARD

Contexts == Renders \cup Transfers
Syncs == TaSyncs \cup FragSyncs \cup DstSyncs

VARIABLES
    status,     \* EVENT_STATUS, a set of Bits
    enable,     \* EVENT_HOST_ENABLE, a set of Bits
    irq,        \* level of the SGX interrupt
    event,      \* sgx_pending_events is set and the event timer armed
    hostctl,    \* the flags set in the host-control and misc-info blocks
    kernel,     \* the kernel ring
    client,     \* client[c]: the ring of context c
    target,     \* target[t]: the access word and the sync list of its target
    pending,    \* operations the driver has handed out per sync object
    complete,   \* operations the shim has completed per sync object
    task,       \* where each task is
    scene,      \* the tasks that have started a scene and not built its end
    lost,       \* counters whose last operation no command is left to complete
    ctl,        \* the driver's own command: [at, type]
    flip,       \* the queued display flip: [queued, want]
    isr,        \* SGX_ISRHandler and the MISR task
    built       \* commands the tasks have built

driver == <<task, scene, lost, ctl, flip, isr, built>>
sgx == <<status, enable, irq, event, hostctl, kernel, client, target, pending,
         complete, driver>>

Bits == {"SW_EVENT", "MASTER"}

\* The flag the driver polls for after a command of its own.
Answer(type) ==
    CASE type = "idle" -> {"IDLE"}
      [] type = "off" -> {"POWEROFF"}
      [] type = "cleanup" -> {"CLEANUP"}
      [] type = "misc" -> {"MISC"}
      [] OTHER -> {}

Nothing == [s \in {} |-> 0]
FreeTarget == [inuse |-> FALSE, val |-> Nothing]

SgxInit ==
    /\ status = {} /\ enable = {} /\ irq = FALSE
    /\ event = FALSE
    /\ hostctl = {}
    /\ kernel = <<>>
    /\ client = [c \in Contexts |-> <<>>]
    /\ target = [t \in Tasks |-> FreeTarget]
    /\ pending = [s \in Syncs |-> START]
    /\ complete = [s \in Syncs |-> START]
    /\ task = [t \in Tasks |-> "idle"]
    /\ scene = {} /\ lost = {}
    /\ ctl = [at |-> "off", type |-> "other"]
    /\ flip = [queued |-> FALSE, want |-> 0]
    /\ isr = "idle"
    /\ built = 0

----------------------------------------------------------------------------
(* Events *)

UpdateIrq(st, en) == irq' = (st \cap en # {})

\* Mutant: the callback raises the summary bit and forgets the events.
EventTimerForgets ==
    /\ event
    /\ event' = FALSE
    /\ status' = status \cup {"MASTER"}
    /\ UpdateIrq(status', enable)
    /\ UNCHANGED <<enable, hostctl, kernel, client, target, pending, complete, driver>>

\* sgx_event_cb
EventTimer ==
    /\ event
    /\ event' = FALSE
    /\ status' = status \cup Bits
    /\ UpdateIrq(status', enable)
    /\ UNCHANGED <<enable, hostctl, kernel, client, target, pending, complete, driver>>

\* sgx_raise_event, once for every command consumed
RaiseEvent(commands) == event' = (event \/ commands # <<>>)

WriteHostClear(bits) ==
    /\ status' = status \ bits
    /\ UpdateIrq(status', enable)
    /\ UNCHANGED <<enable, event>>

WriteSoftReset ==
    /\ status' = {}
    /\ UpdateIrq(status', enable)
    /\ UNCHANGED <<enable, event>>

WriteHostEnable(bits) ==
    /\ enable' = bits
    /\ UpdateIrq(status, enable')
    /\ UNCHANGED <<status, event>>

----------------------------------------------------------------------------
(* Commands.  A memory image is [client, complete, hostctl, target].      *)

\* The signed comparison of two 32-bit counters: a is after b.
After(a, b) == (a - b) % WORD \in 1..(WORD \div 2) - 1

\* Mutant: a plain store, as wr32 does it.
CompletedPlain(done, val) ==
    [s \in Syncs |-> IF s \in DOMAIN val THEN (val[s] + 1) % WORD ELSE done[s]]

\* Mutant: the count is taken for the one after this operation.
CompletedTwice(done, val) ==
    [s \in Syncs |->
        LET v == (val[s] + 2) % WORD
        IN IF s \in DOMAIN val /\ After(v, done[s]) THEN v ELSE done[s]]

\* wr32_mono for every counter that has a value in val
Completed(done, val) ==
    [s \in Syncs |->
        LET v == (val[s] + 1) % WORD
        IN IF s \in DOMAIN val /\ After(v, done[s]) THEN v ELSE done[s]]

\* The operations a render completes: those of its TA phase, and at the end of
\* a scene those of its 3D phase and of the target's sync list.
Rendered(m, cmd) ==
    LET list == m.target[cmd.task].val
    IN IF cmd.last
       THEN [s \in DOMAIN cmd.val \cup DOMAIN list |->
                IF s \in DOMAIN cmd.val THEN cmd.val[s] ELSE list[s]]
       ELSE [s \in TaSyncs |-> cmd.val[s]]

\* One turn of the loop of sgx_cmd_ta; once it stops it stays stopped.  The end
\* of a scene frees the target; the next first kick writes a new sync list.
TaStep(m, c) ==
    LET cmd == Head(m.client[c])
    IN IF m.client[c] = <<>> \/ ~cmd.ready THEN m
       ELSE [m EXCEPT !.complete = Completed(@, Rendered(m, cmd)),
                      !.client[c] = Tail(@),
                      !.target[cmd.task] = IF cmd.last THEN FreeTarget ELSE @]

\* One turn of the loop of sgx_cmd_transfer: it does not look at READY.
TransferStep(m, c) ==
    IF m.client[c] = <<>> THEN m
    ELSE [m EXCEPT !.complete = Completed(@, Head(m.client[c]).val),
                   !.client[c] = Tail(@)]

\* The image after each turn of the two loops.
TaTurns(m, c) ==
    LET turn[n \in 0..GUARD] == IF n = 0 THEN m ELSE TaStep(turn[n - 1], c)
    IN turn

TransferTurns(m, c) ==
    LET turn[n \in 0..GUARD] == IF n = 0 THEN m ELSE TransferStep(turn[n - 1], c)
    IN turn

CmdTa(m, c) == TaTurns(m, c)[GUARD]
CmdTransfer(m, c) == TransferTurns(m, c)[GUARD]

\* Mutant: control commands are consumed and not answered.
ProcessCommandQuiet(m, e) ==
    CASE e.type = "ta" -> CmdTa(m, e.ctx)
      [] e.type = "transfer" -> CmdTransfer(m, e.ctx)
      [] OTHER -> m

\* sgx_process_command without its event
ProcessCommand(m, e) ==
    CASE e.type = "ta" -> CmdTa(m, e.ctx)
      [] e.type = "transfer" -> CmdTransfer(m, e.ctx)
      [] OTHER -> [m EXCEPT !.hostctl = @ \cup Answer(e.type)]

\* The image after each entry of the kernel ring.
Memory == [client |-> client, complete |-> complete, hostctl |-> hostctl,
           target |-> target]

Drained ==
    LET after[n \in 0..Len(kernel)] ==
            IF n = 0 THEN Memory ELSE ProcessCommand(after[n - 1], kernel[n])
    IN after

ConsumeCcb == Drained[Len(kernel)]

\* The write of 1 to EVENT_KICK or EVENT_KICK2.  The first one only starts the
\* microkernel; the others drain the kernel ring, and answer a misc-info
\* request whatever they were rung for.
WriteKick ==
    /\ UNCHANGED <<status, enable, irq, pending>>
    /\ \/ /\ "INIT" \notin hostctl
          /\ hostctl' = hostctl \cup {"INIT"}
          /\ UNCHANGED <<event, kernel, client, target, complete>>
       \/ /\ "INIT" \in hostctl
          /\ client' = ConsumeCcb.client
          /\ target' = ConsumeCcb.target
          /\ complete' = ConsumeCcb.complete
          /\ hostctl' = ConsumeCcb.hostctl \cup {"MISC"}
          /\ kernel' = <<>>
          /\ RaiseEvent(kernel)

----------------------------------------------------------------------------
(* The driver.  No lock is assumed between the calls of two tasks.         *)

\* SGXInitialise resets the core, kicks it, and enables the interrupt.
StartReset ==
    /\ ctl.at = "off"
    /\ WriteSoftReset
    /\ ctl' = [ctl EXCEPT !.at = "reset"]
    /\ UNCHANGED <<hostctl, kernel, client, target, pending, complete, task, scene,
                   lost, flip, isr, built>>

StartEnable ==
    /\ ctl.at = "reset"
    /\ WriteHostEnable({"SW_EVENT"})
    /\ ctl' = [ctl EXCEPT !.at = "enabled"]
    /\ UNCHANGED <<hostctl, kernel, client, target, pending, complete, task, scene,
                   lost, flip, isr, built>>

StartKick ==
    /\ ctl.at = "enabled"
    /\ WriteKick
    /\ ctl' = [ctl EXCEPT !.at = "run"]
    /\ UNCHANGED <<task, scene, lost, flip, isr, built>>

Running == "INIT" \in hostctl /\ ctl.at \notin {"off", "reset", "enabled"}

\* A counter is compared within half its range: an operation is handed out
\* only while fewer than LAG have overtaken any that is not complete.
InRange ==
    /\ \A s \in Syncs : (pending[s] - complete[s]) % WORD < LAG
    /\ \A c \in Contexts : \A i \in DOMAIN client[c] : \A s \in DOMAIN client[c][i].val :
          (pending[s] - client[c][i].val[s]) % WORD < LAG
    /\ \A t \in Tasks : \A s \in DOMAIN target[t].val :
          (pending[s] - target[t].val[s]) % WORD < LAG

\* The client writes a command and advances the write offset of its ring.
Write(t, first, last) ==
    /\ Running /\ task[t] = "idle"
    /\ built < COMMANDS /\ Len(client[Ctx[t]]) < BACKLOG
    /\ client' = [client EXCEPT ![Ctx[t]] =
            Append(@, [task |-> t, ready |-> FALSE, first |-> first, last |-> last,
                       val |-> Nothing])]
    /\ task' = [task EXCEPT ![t] = "built"]
    /\ built' = built + 1
    /\ UNCHANGED <<status, enable, irq, event, hostctl, kernel, pending, complete,
                   lost, ctl, flip, isr>>

\* SGXKickTA: the first kick of a scene waits until its target is free.
BuildRender(t, last) ==
    LET first == t \notin scene IN
    /\ Ctx[t] \in Renders
    /\ first => ~target[t].inuse
    /\ target' = [target EXCEPT ![t].inuse = TRUE]
    /\ scene' = IF last THEN scene \ {t} ELSE scene \cup {t}
    /\ Write(t, first, last)

BuildTransfer(t) ==
    /\ Ctx[t] \in Transfers
    /\ UNCHANGED <<target, scene>>
    /\ Write(t, FALSE, FALSE)

\* The operations that go into the command itself, and into the sync list.
Counts(t) == TaSyncs \cup (IF Ctx[t] \in Transfers THEN DstSyncs ELSE FragSyncs)
Listed(cmd) == IF cmd.first THEN DstSyncs ELSE {}

HandOut(S) ==
    pending' = [s \in Syncs |-> IF s \in S THEN (pending[s] + 1) % WORD ELSE pending[s]]

\* SGXDoKickKM and SGXSubmitTransferKM: the pending counts, then READY.
Prepare(t) ==
    \E i \in DOMAIN client[Ctx[t]] :
        LET cmd == client[Ctx[t]][i] IN
        /\ InRange
        /\ task[t] = "built" /\ cmd.task = t /\ ~cmd.ready
        /\ client' = [client EXCEPT ![Ctx[t]][i] =
                [cmd EXCEPT !.ready = TRUE, !.val = [s \in Counts(t) |-> pending[s]]]]
        /\ target' = IF cmd.first
                     THEN [target EXCEPT ![t].val = [s \in DstSyncs |-> pending[s]]]
                     ELSE target
        /\ HandOut(Counts(t) \cup Listed(cmd))
        /\ lost' = lost \ (Counts(t) \cup Listed(cmd))
        /\ task' = [task EXCEPT ![t] = "ready"]
        /\ UNCHANGED <<status, enable, irq, event, hostctl, kernel, complete, scene,
                       ctl, flip, isr, built>>

\* The same for a transfer that a kick of another task has taken from the ring
\* before it was READY: what it hands out now, no command will complete.
PrepareLate(t) ==
    /\ InRange
    /\ task[t] = "built" /\ Ctx[t] \in Transfers
    /\ \A i \in DOMAIN client[Ctx[t]] :
          client[Ctx[t]][i].task = t => client[Ctx[t]][i].ready
    /\ HandOut(Counts(t))
    /\ lost' = lost \cup Counts(t)
    /\ task' = [task EXCEPT ![t] = "ready"]
    /\ UNCHANGED <<status, enable, irq, event, hostctl, kernel, client, target,
                   complete, scene, ctl, flip, isr, built>>

KernelRoom == Len(kernel) < KSLOTS - 1

\* SGXScheduleCCBCommandKM up to the doorbell.
Schedule(t) ==
    /\ task[t] = "ready" /\ KernelRoom
    /\ kernel' = Append(kernel, [type |-> IF Ctx[t] \in Renders THEN "ta" ELSE "transfer",
                                 ctx |-> Ctx[t]])
    /\ task' = [task EXCEPT ![t] = "queued"]
    /\ UNCHANGED <<status, enable, irq, event, hostctl, client, target, pending,
                   complete, scene, lost, ctl, flip, isr, built>>

Kick(t) ==
    /\ task[t] = "queued"
    /\ WriteKick
    /\ task' = [task EXCEPT ![t] = "idle"]
    /\ UNCHANGED <<scene, lost, ctl, flip, isr, built>>

\* A command of the driver's own: it clears the flag, queues, kicks and polls.
ControlSchedule(type) ==
    /\ Running /\ ctl.at = "run" /\ KernelRoom
    /\ kernel' = Append(kernel, [type |-> type, ctx |-> "none"])
    /\ hostctl' = hostctl \ (Answer(type) \cup
                             (IF type = "resume" THEN {"IDLE", "POWEROFF"} ELSE {}))
    /\ ctl' = [at |-> "queued", type |-> type]
    /\ UNCHANGED <<status, enable, irq, event, client, target, pending, complete,
                   task, scene, lost, flip, isr, built>>

ControlKick ==
    /\ ctl.at = "queued"
    /\ WriteKick
    /\ ctl' = [ctl EXCEPT !.at = "poll"]
    /\ UNCHANGED <<task, scene, lost, flip, isr, built>>

ControlDone ==
    /\ ctl.at = "poll" /\ Answer(ctl.type) \subseteq hostctl
    /\ ctl' = [at |-> "run", type |-> "other"]
    /\ UNCHANGED <<status, enable, irq, event, hostctl, kernel, client, target,
                   pending, complete, task, scene, lost, flip, isr, built>>

\* PVRSRVProcessQueues releases the flip once its frame buffer is complete.
FlipReady(done) == ~After(flip.want, done[Screen])

Flip ==
    /\ Running /\ ~flip.queued
    /\ After(pending[Screen], complete[Screen])
    /\ flip' = [queued |-> TRUE, want |-> pending[Screen]]
    /\ UNCHANGED <<status, enable, irq, event, hostctl, kernel, client, target,
                   pending, complete, task, scene, lost, ctl, isr, built>>

\* SGX_ISRHandler reads the status, clears it and wakes the MISR task.
IsrRead ==
    /\ irq /\ isr = "idle" /\ "SW_EVENT" \in status \cap enable
    /\ isr' = "clear"
    /\ UNCHANGED <<status, enable, irq, event, hostctl, kernel, client, target,
                   pending, complete, task, scene, lost, ctl, flip, built>>

IsrClear ==
    /\ isr = "clear"
    /\ WriteHostClear(Bits)
    /\ isr' = "misr"
    /\ UNCHANGED <<hostctl, kernel, client, target, pending, complete, task, scene,
                   lost, ctl, flip, built>>

Misr ==
    /\ isr = "misr"
    /\ isr' = "idle"
    /\ flip' = IF flip.queued /\ FlipReady(complete)
               THEN [queued |-> FALSE, want |-> 0] ELSE flip
    /\ UNCHANGED <<status, enable, irq, event, hostctl, kernel, client, target,
                   pending, complete, task, scene, lost, ctl, built>>

SgxNext ==
    \/ EventTimer \/ StartReset \/ StartEnable \/ StartKick
    \/ \E t \in Tasks : \/ \E last \in BOOLEAN : BuildRender(t, last)
                       \/ BuildTransfer(t)
                       \/ Prepare(t) \/ PrepareLate(t) \/ Schedule(t) \/ Kick(t)
    \/ \E type \in Controls : ControlSchedule(type)
    \/ ControlKick \/ ControlDone
    \/ Flip \/ IsrRead \/ IsrClear \/ Misr

SgxSpec == SgxInit /\ [][SgxNext]_sgx

----------------------------------------------------------------------------
(* Properties *)

Busy(t) == task[t] # "idle"

\* Once every command written has been kicked no ring holds a command and every
\* sync object has as many operations complete as were handed out, whatever the
\* order the tasks prepared and kicked in and although the counters wrap (READY
\* and wr32_mono in sgx_cmd_ta and sgx_cmd_transfer, sgx_consume_ccb).  While a
\* task is in the middle of a scene this is said of the TA syncs only: the 3D
\* sync and the destinations wait for its last kick.  Once no task is, every
\* render target is free too.  A counter whose newest operation went to a
\* transfer that lost its place in the ring is left out until its next one.
SyncSettled ==
    (\A t \in Tasks : ~Busy(t)) =>
        /\ \A c \in Contexts : client[c] = <<>>
        /\ \A s \in TaSyncs \ lost : complete[s] = pending[s]
        /\ scene = {} =>
              /\ \A s \in Syncs \ lost : complete[s] = pending[s]
              /\ \A t \in Tasks : ~target[t].inuse

\* A completion counter is never ahead of what was handed out: nobody sees an
\* operation complete that no command was prepared for.
NeverAhead == \A s \in Syncs : ~After(complete[s], pending[s])

\* A flip whose frame buffer is complete is not forgotten: an event is pending,
\* on the interrupt line, being handled, or the MISR task is about to look at
\* it (sgx_raise_event, sgx_event_cb against a clear of older events).
NoLostFlip ==
    flip.queued /\ FlipReady(complete)
        => event \/ (irq /\ "SW_EVENT" \in status) \/ isr # "idle"

\* When the driver polls after its own command the answer is there.
PollAnswered == ctl.at = "poll" => Answer(ctl.type) \subseteq hostctl
=============================================================================
