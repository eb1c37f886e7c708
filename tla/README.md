# TLA+ models of the GPSMAP board emulation

These modules model the devices that `qemu/hw/arm/garmin_gpsmap.c` adds to QEMU
so that an unmodified chart-plotter firmware boots, and the GL hooks of
`qemu/hw/arm/garmin_gl.c` that carry its drawing calls to the host: what each
part does on a register access, a trap, a timer callback, an input event and a
reset, checked with TLC on small instances and, for the parts listed in
section 4, proved with TLAPS for every value of the constants.

## 1. The system

QEMU runs two vCPUs. A guest access to a device register calls the device's
read or write handler; timers and input events call its callbacks. All of them
hold QEMU's global lock, so a handler is atomic and every interleaving happens
*between* handlers. Only guest instructions (the boot ROM's park loop) and the
GL render thread run outside that lock.

| Part | State | Operations | Talks to |
|---|---|---|---|
| System mailbox and Ducati responder | 8 FIFOs, IRQ status/enable per user, half-collected request, reply timer | MESSAGE read/write, IRQ registers, SOFTRESET, `mbox_ducati_reply` | interrupt controller, mailbox client of the firmware |
| Secondary core bring-up | AUX_CORE_BOOT_0/1 in a register stub, park loop of the boot ROM | flag write with `wkupgen_write_hook`, machine reset | both cores |
| GPIO banks | pin levels, direction, latches, IRQ status/enable, level detect | register writes, `omap4_gpio_set_pin`, reset | touch INT, board straps, interrupt controller |
| eGalax touch controller | frame queue, command buffer, contact state, repeat timer | I2C slave callbacks, input handler, repeat callback, reset, snapshot | I2C4, GPIO5.12, the user |
| I2C controllers | STAT/IE/CON/CNT/SA, FIFO, deferred completion | register reads and writes, `omap4_i2c_done_cb`, resets | slaves, the firmware's driver |
| System DMA | 32 channels, 4 status/enable lines, engine timer | channel start/stop, `sdma_engine`, resets | memory, HSMMC data port |
| HSMMC wrapper | offset translation, R2 cache | register reads and writes | QEMU's SDHCI, SDMA |
| General-purpose timers | counter base, reload, match, IRQ | register writes, `gpt_tick` | interrupt controller |
| SGX microkernel shim | event status, pending events, kernel and client command rings, completion counters | register hook, ring drain, event timer | firmware's graphics driver |
| Display controller | shadow registers, vsync timer, presenter address | register writes, `dispc_vsync_cb`, console update, reset, snapshot | GL presenter, console |
| GL call hooks and render thread | result register, request hand-over, frame queue, tracked textures | trapping store, result load, render loop, `sync_large_textures` | host GL, guest memory |
| Teseo GPS simulator | session, frame parser | bytes in, frames out | UART |
| FAT image builder | directory entries, FAT | pure functions | disk image |

What makes this hard to test: completions are deferred by timers while the
guest goes on writing registers; interrupt lines must be recomputed by every
path that changes what they depend on; queues overflow silently; resets and
snapshots hit devices in mid-operation; and the guest's drivers have
expectations (one completion per transfer, level-type bits) that the emulation
has to meet in every interleaving. `PROJECT.json` lists these hazards with the
line at which each one bites.

Properties that make each part correct:

- *mailbox*: NEWMSG is a level; lines are never stale; no request is lost,
  reordered, stranded or left unanswered.
- *bring-up*: the flag releases the core; a core runs only what this boot
  published.
- *GPIO*: no enabled level is missed.
- *touch*: INT follows the queue; contacts are streamed, held for the minimum
  time and ended; commands always find room.
- *I2C*: a deferred completion is never forgotten; the line is never stale;
  each transfer signals its driver once, when its data is complete, and always.
- *DMA*: a running channel keeps the engine going, completes once, and its
  lines follow its status.
- *timers*: armed for the next overflow or match, the counter does not
  jump, an overflow comes.
- *touch path*: a waiting frame interrupts a guest that armed the pin.
- *SGX*: completion counters settle and never run ahead; a frame that is ready
  to be flipped has an interrupt coming; a polled command is answered.
- *display*: the interrupt is honest, GO bits clear, a presented frame is in the
  displayed buffer and reaches the console.
- *GL*: vCPU and render thread never wait for each other; calls are carried out
  once and in order; a draw uses the texture it was made with, and a texture is
  as fresh as guest memory when the frame is swapped; the result a task loads is
  that of its own call.

## 2. Modules

| Module | Models |
|---|---|
| `Mailbox` | the mailbox device and the responder, under any guest |
| `MailboxEcho` | the mailbox with a request/reply client (external) |
| `MailboxProofs` | theorems about `Mailbox` and `MailboxEcho` |
| `SecondaryBoot` | park loop, boot registers, write hook, machine reset |
| `Gpio` | one GPIO bank, under any guest and board |
| `Egalax` | the touch controller between user, guest and timer |
| `I2c`, `I2cProofs` | one I2C master, under any guest |
| `I2cDriver` | the I2C master with the firmware's driver (external); its theorems are in `I2cProofs` too |
| `Sdma`, `SdmaProofs` | the system DMA controller, under any guest |
| `GpTimer`, `GpTimerProofs` | one general-purpose timer, under any guest and late callbacks |
| `TouchPath`, `TouchPathProofs` | composition: `Egalax` wired to a pin of `Gpio`, with the polling guest (external); the theorems about `Gpio` alone come first in the proofs |
| `Sgx`, `SgxProofs` | the microkernel shim with the firmware's graphics driver (external) |
| `Dispc`, `PictureProofs` | the display controller and the presenter's buffer address |
| `RenderService` | abstract: what the GL hooks promise about order and answers |
| `GlRender`, `GlRenderProofs` | traps, render thread, lock and condition variables; implements `RenderService` |
| `GlFrame`, `PictureProofs` | what the queued GL calls do to textures |
| `MC*.tla`, `MC*.cfg` | instances for TLC |

Conventions. A register is the set of its bits that are set; writing a mask is
union or difference. One action is one handler, with the interrupt update at
its end included. Variables keep the names of the C fields (`pend_stat`,
`tx_remaining`, `irqenable`). Registers that only read back what was written
are left out. A definition whose comment begins with "Mutant:" is a plausible
bug; no specification uses it, it exists to show that a property notices it.

Correspondence, where it is not one to one:

- *Mailbox*: a FIFO is the sequence of its live words. `DucatiReply` is the
  whole callback: the pops of the collecting loop, the pushes of the echo and
  their interrupt updates collapse into one step, which is what the global lock
  makes of them. A machine reset also resets the interrupt controller, so the
  lines drop although `mbox_reset` does not call `mbox_update_irq`; the same
  holds for GPIO, I2C and DMA.
- *Egalax*: a frame is `down`, `up` or `reply`. Time is the age of the last
  press in repeat periods, capped at `HOLD`. `contact` and `lost` are ghosts:
  what the guest has read, and which reports were dropped.
- *I2c*: the slave is abstract: it answers or not, accepts or refuses a byte,
  and supplies bytes. `slave` is the bus's current device and `wire` the bytes
  of the transfer.
- *I2cDriver*, *MailboxEcho*: the firmware is not in the repository. Its
  drivers are modelled from the comments at `done_timer` and in
  `omap4_i2c_done_cb` ("The firmware's ISR signals its completion semaphore on
  BF unconditionally and on ARDY only for "write without STOP" transfers"), and
  from the mailbox comment; these parts are marked external.
- *Sdma*: what a channel moves is latched when ENABLE is set, so the registers
  it comes from are parameters of `Start`. How many elements a step moves
  through a data port is any number, since the port is QEMU's SDHCI. `total`
  and `moved` are ghosts. `EngineRuns` and `CompletionIsWhole` except counts
  that the code's integer types cut off (more than INT32_MAX, or 2^32).
- *GpTimer*: `now - last_ns` is `elapsed`, the expiry of the QEMU timer is
  `deadline`, counted from the same instant; `timer_del` is deadline 0. TCLR is
  its three bits and the rate its prescaler selects. `Schedule(cur)` is
  `gpt_schedule` after the handler has left the counter at `cur`; the clock
  that a handler reads twice is read once. Time in a stopped counter has no
  effect and does not pass.
- *TouchPath*: every `qemu_set_irq` on INT calls `omap4_gpio_set_pin` of the
  pin, so each action of `Egalax` is conjoined with `Wire`. The guest reads
  frames while it samples the pin low. In the composition it writes the status,
  enable and level-detect registers of the first interrupt output, the one that
  is connected; all other registers of the bank are covered by the proof of
  `Gpio` under any guest.
- *Sgx*: a ring is the sequence between its read and write offsets. A kick
  drains the kernel ring inside the register write, so `WriteKick` is one step;
  `Drained[n]` is memory after the first n entries of the ring, and `TaTurns[n]`
  and `TransferTurns[n]` after n turns of the loops of `sgx_cmd_ta` and
  `sgx_cmd_transfer`. `event` stands for
  `sgx_pending_events` and its timer. The steps of the driver come from
  `docs/sgx_fake_ukernel.md`. A frame may take several kicks, a scene (sections
  4.3 and 4.4): each kick takes a read operation on the 3D sync, which only the
  last kick completes; the first takes the destinations' write operations into
  the render target's sync list and marks the target in use, and the last
  completes and frees both. A transfer is taken from its ring whether it is
  READY or not, so its task may prepare it when it is gone (`PrepareLate`).
  `scene` and `lost` are ghosts: the tasks between the first and the last kick
  of a frame, and the counters whose newest operation nothing is left to
  complete.
- *Dispc*: `left` counts ticks to the vsync timer. `told` and `newest` are
  ghosts: whether the presenter knows the displayed buffer, and the last frame
  it presented since.
- *GlRender*: the vCPU and the render thread are two processes; a step is what
  one does between taking and giving up `rlock`. A wait is a sleeping state that
  a signal, or nothing (`SpuriousWake`), turns into a waking state that needs
  the lock. What a call does is left out. The refinement maps `backlog` to the
  call in the request slot, the frame queue and the call that waits behind it.
- *GlFrame*: carrying out a queue is one step, since `GlRender` shows that it
  happens in order while the vCPU waits. A replay is a recursive function from
  the number of requests done to the image of host GL; `up`, a ghost in the
  image, has the textures whose content came with the replay, and an attachment
  or a deletion takes a texture out of it. Host GL has an active texture unit
  and a binding for each unit; a bind and an upload act on the active one. The
  hooks forward `glActiveTexture` and know one binding for all units,
  `bound_texture`, under which they record an upload's source. Texels are a
  version number, as the code's hash tells versions apart; content that did not
  come from the source recorded under the texture's name is `Other`. Parts of a
  texture, compressed texels and `glCopyTex*` are one kind of request, `patch`,
  that leaves such content; a mip level (`level`) leaves level 0 alone but
  counts as an upload in `sync_large_textures`. The re-uploads of a swap stand
  in front of the queue in any order, as the hash table gives none, and bind on
  the unit that the last replay left active. `off` (in `host`), `view` and
  `drawn` are ghosts: the units whose binding a re-upload did not put back
  (`Misplaced`), the guest's own idea of its units, bindings and of what the GPU
  made, and what the last step drew.
- *SecondaryBoot*: one action per instruction of the loop, since the core runs
  in its own thread.

## 3. Runs

| Run | Checks | Shows |
|---|---|---|
| `mailbox` | `NewmsgIsLevel`, `NoStrandedRequest`, `EchoStream`, `RequestAnswered` | the reply timer may fire between any two words, before or after resets; requests still come back whole, in order, and always |
| `touch` | `IntFollowsQueue`, `NoStuckContact`, `StreamAlive`, `ChunkFits`, `LevelLatched`, `FrameInterrupts`, `HoldRespected`, `ContactSettles` | presses, lifts and moves race polls, short reads, the repeat timer and the guest's writes to the bank |
| `i2c` | `CompletionArmed`, `IrqFollowsStat`, `WriteNotStuck`, `BusHeld` | the master under any guest, aborted and overlapping transfers included |
| `i2c_driver` | `NoStaleSignal`, `SignalledIsDone`, `TransferCompletes` | the master keeps the firmware's driver alive, with exactly one signal per transfer |
| `sdma` | `EngineRuns`, `EnabledIsActive`, `CompletionIsWhole`, `ChannelCompletes` | channels share one engine timer without starving or being forgotten |
| `gptimer` | `DeadlineInTime`, `CounterContinuous`, `OverflowComes` | two roundings, late callbacks and writes between deadline and callback: the timer is still armed for the right time, the counter never jumps |
| `sgx` | `SyncSettled`, `NeverAhead`, `NoLostFlip`, `PollAnswered` | four tasks prepare, queue and kick in any order, a frame in one kick or in several, while the event timer, the ISR and the MISR race them; counters wrap on the way |
| `dispc` | `IrqHonest`, `FrameOnScreen`, `GoClears`, `FrameShown` | register writes, vsync, presenter and console in any order, with resets and snapshots |
| `gl_frame` | `FreshAtSwap`, `DrawBinding`, `GpuKept` | binds on two units, uploads of every kind, attachments, draws and deletions, flushed early by queries or replayed with fresh texels by the swap |
| `gl_render` | `NeverBothAsleep`, `TrapReturns`, `RefinesService` | two tasks, every placement of signals and spurious wake-ups |
| `secondary_boot` | `FlagReleasesCore` | **violated**: see findings |
| `gl_result` | `OwnResult` | **violated**: see findings |

Bounds:

- `mailbox`: FIFO depth and request length 2 (the code uses one constant for
  both), three mailboxes, one user, two words, one request outstanding. The
  timer can fire with 0, 1 or 2 words collected, RX can be full or not.
- `touch`: queue of 2 frames (overrun in three events), frames of 2 bytes (so a
  read is short, exact or long), a minimum hold of 2 periods, a command buffer
  of 6 bytes filled in chunks of 3, which keeps the proportion of the real
  limits that `CommandsFit` states. One pin: pins do not interact except in
  the line, and the proof is for any number.
- `i2c`: FIFO of 2, counts 0, 1 and 3 (empty, short, longer than the FIFO),
  one answering and one absent address. Bytes and the contents of `wire` do not
  influence the master; a VIEW leaves `wire` out.
- `i2c_driver`: two slaves and an absent one, writes with and without STOP,
  longer than the FIFO, reads up to the FIFO size.
- `sdma`: two channels, one output, a step of 1, a burst of 2 and words modulo
  4. The counts 0, 2, 3 and 5 are: nothing, two steps, more than a burst, and
  one that wraps. Both channels can be of any kind, so that a stalled one, a
  paced one and an immediate one meet.
- `gptimer`: a counter of four values; a second of 5 units with
  rates of 1 and 2, so that a tick is five units or two and a half (both the
  exact and the rounded case); callbacks up to 3 units late, more than one fast
  tick. Values 0, 2 and 3 include a match at the counter's current value and
  the last value before the overflow.

- `sgx`: two tasks share a render context and two a transfer context (each pair
  is interchangeable), on the same three sync objects, so that commands overtake
  one another between preparing and kicking. `COMMANDS` = 3 in all: a scene of
  two kicks with a foreign command between them, or two transfers of which the
  kick of one takes the other's before it is READY. Counters are modulo 10 and
  start at 9: they wrap with the first operation. `LAG` is how far an operation
  that waits in a ring may be overtaken; the signed comparison of `wr32_mono` is
  right only within half the range of a counter, which is 2^31 - 1 operations in
  the code and 4 here. A kernel ring of 3 slots; `BACKLOG` is at most `GUARD`,
  the commands one kick completes, as it is as long as a client has fewer than
  64 commands waiting.
- `dispc`: one output of each control register, two buffers, two frames.
  `WRITES` bounds the control writes between two resets; it is a real condition
  of `GoClears`, since each such write restarts the vsync timer.
- `gl_frame`: two texture units; two textures, one of which the firmware
  uploads, rewrites, renders into and deletes; two versions of its bytes. `QMAX`
  = 2 bounds the calls between two replays, which need not be those of a frame:
  bindings, sources and content outlive a replay, so longer sequences are runs
  of short queues, and the re-uploads of a swap come on top of the two calls.
  What needs three calls in one queue is left to the proofs, which are for any
  `QMAX`.
- `gl_render`, `gl_result`: two tasks, a queue of 3, two calls of each kind that
  is handed over.

Deadlock is checked in every passing run and in `gl_result`. `secondary_boot`
ends when the bounded number of boots is used up, so it does not check it.

Fairness. Timers: QEMU runs an expired timer. Guest: a raised interrupt line is
serviced, the driver's code runs, and the pen poll keeps reading while INT is
low (`docs/egalax_touch.md`, section 5). Card: a stalled HSMMC data port
becomes ready again (strong fairness of progress of each channel). Clock: time
passes, and a callback does not run for ever at the very instant of its
deadline (strong fairness of `Elapse` there): a callback that comes exactly on
time may find the counter one tick short and start over, and the clock goes on
while QEMU dispatches it. Console: it asks for the picture at its refresh rate.
Host threads: a runnable thread runs, and one that wants a mutex that becomes
free again and again gets it (strong fairness of vCPU and render thread in
`GlRender`; the tasks of the firmware need not trap). The poll is strongly fair because
other I2C traffic can make it wait for the bus again and again. Nothing is
asked of the user, and no reset or stray access is ever required.

Assumption of `I2cDriver`: the section in which the driver has interrupts
masked is shorter than `I2C_BYTE_NS` (100 us); that is the very assumption the
comment at `done_timer` makes when it defers completions by one byte time.

### Findings

1. `secondary_boot`: `wkupgen_write_hook` wakes only cores that are already
   halted. A core that has loaded a zero flag and not yet executed `wfi` is
   skipped and then sleeps with the flag set.
2. `gl_result`: `gl_trap` leaves the result in one variable until the
   trampoline's load fetches it. A task that is switched out between the two
   fetches the result of the task that trapped in between, although
   `garmin_gl.h` says that the hooks "return the result through a second MMIO
   read".

Known limits, which the properties above except and which the models made
visible:

- Register stubs have no reset handler: after a machine reset the park loop
  finds the flag of the previous boot and jumps at once.
- The only "up" report of a contact is dropped when it meets a full queue;
  `NoStuckContact` and `ContactSettles` except contacts that lost a report.
- The repeat timer, `release_pending` and `press_ns` are not in
  `vmstate_egalax`, nor the pending SGX events in any VM state: a snapshot taken
  then stops the stream of reports, or loses an interrupt.
- `gpt_tick` and `gpt_schedule` restart the counter at a whole tick and drop the
  fraction each time; over many callbacks the counter falls behind the clock.
- A write to TCLR, TCRR or TMAR that comes after an overflow's deadline and
  before its callback folds the overflow into the counter, and no OVF is
  reported for it.
- A reset or a restored snapshot changes the displayed buffer without telling
  the presenter; `FrameOnScreen` starts again at the next GFX_BA0 write. A
  DISPC reset leaves the interrupt line up, which `IrqHonest` says.
- A transfer that a kick takes from its ring before it is READY still takes its
  pending counts afterwards, and nothing completes them; `SyncSettled` leaves
  these counters out until their next operation (`lost`).
- A re-upload under GARMIN_GL_RESYNC binds on the unit that the last replay left
  active and then binds what was bound at the last swap, on whatever unit that
  was. A unit with another binding (another unit was used last, a query carried
  out later binds, a deletion unbound it) is misbound until the firmware binds
  there again; `DrawBinding` leaves out draws from such a unit (`off`), and only
  those.
- The hooks record an upload under the last bind of any unit. When that is not
  the binding of the active unit, the upload lands on a texture whose recorded
  source is another's, and a later re-upload gives the named texture bytes it
  was not meant to have. `FreshAtSwap` does not speak of such content.
- A texture filled by `glCopyTex*`, `glTexSubImage2D` or compressed texels stays
  tracked with the source it had, and is not in `gpu_textures`:
  under GARMIN_GL_RESYNC a change of that source overwrites it. `GpuKept` speaks
  of textures attached to a framebuffer only.
- A queued upload of a mip level counts as the texture's upload of the frame:
  level 0 of an earlier frame is not read again at that swap, and the hash kept
  for it is the mip level's.

## 4. Proofs

| Module | Theorems | Argument |
|---|---|---|
| `MailboxProofs` | `MailboxCorrect`, `NewmsgLevelThm`, `LinesThm`, `NoStrandedRequestThm`, `EchoStreamThm` | The three invariants together with the types are inductive. `NoStrandedRequest` needs `Len(req) < DEPTH` from the types: the callback leaves either less than a request or a fresh start. Lemmas describe what one push, one pop and the collecting loop do to the status bits. `EchoStreamThm` is for a client with one request outstanding (`Window = 1`), which is what the run has: every step of the protocol is one of the mailbox, so `MailboxInv` holds there too; added to it, the client has at most its window outstanding, and the words under way are exactly those. With a window of one they fit, and neither a push of the client nor one of the echo finds a full FIFO and drops its word. |
| `I2cProofs` | `I2cCorrect`, `CompletionArmedThm`, `IrqFollowsStatThm`, `WriteNotStuckThm`, `BusHeldThm`; `DriverCorrect`, `NoStaleSignalThm`, `SignalledIsDoneThm` | The invariant is types, `IrqFollowsStat` and what a transfer in progress looks like. `UpdateIrqCorrect` is the key lemma: whatever a handler did before, the update at its end re-establishes the line and leaves `Level` within `stat`; a read then changes nothing. With the driver, `DriverInv` says for each point of the driver and its handler what the master may still owe it: which status bits can be up (`Handling`, by the bits the handler has seen), whether a completion is pending, and how the bytes on the wire, in the FIFO and still to move add up to the job. |
| `SdmaProofs` | `SdmaCorrect`, `EngineRunsThm`, `EnabledIsActiveThm`, `CompletionIsWholeThm` | `CompletionIsWhole` needs `Counting`: moved and remaining elements of a running channel add up to the latched count. `EngineRuns` rests on the re-arming at the end of the engine's step, and for a start between memories on its count being at most one burst (`Wrap`: the 32-bit product is then exact). |
| `GpTimerProofs` | `GptCorrect`, `DeadlineInTimeThm`, `CounterContinuousThm` | Types and `DeadlineInTime` are inductive. `RoundTrip` is the key lemma: the time for n ticks rounded down, turned back into ticks rounded down, is n or n - 1, because a tick is no shorter than a unit of time (`Rates` within 1..NS). `CurrentInRange` keeps the counter in its width for any lateness; a handler that ends in `gpt_schedule` then only has to leave well-typed registers. |
| `TouchPathProofs` | `GpioCorrect`, `LevelLatchedThm`; `PathCorrect`, `IntFollowsQueueThm`, `StreamAliveThm`, `ChunkFitsThm`, `FrameInterruptsThm`, `NoStuckContactThm`, `HoldRespectedThm` | `LevelLatched` follows from `UpdateIrq`, except for the handlers that do not call it (`WriteStatus1`, clearing IRQENABLE_1, a pin that does not change), where nothing it depends on moves. The invariant of the path adds to the properties `PinWired` (the pin is an input at the level of INT), `HeldBack` (a release is held back only while the finger is up; without it a release could disarm the timer of a new press) and `CommandBound` (a kept command is incomplete, and its length is one some chunk declared). The bank's part is the lemmas about `Gpio`, used for the composition as they are. `NoStuckContact` is inductive with these; a lemma says what appending to and cutting the queue does to the last report. |
| `PictureProofs` | `DispcCorrect`, `IrqHonestThm`, `FrameOnScreenThm`; `GlFrameCorrect`, `FreshAtSwapThm`, `DrawBindingThm`, `GpuKeptThm` | `FrameOnScreen` needs `PresenterFollows`: while told, the presenter writes to the displayed buffer, and `newest` is kept only then. One lemma per part of the invariant, since most handlers leave the picture or the interrupt alone. For the frame queue, `FrameInv` has a trail of the guest's views along the queue (`TrailOK`): each request is the step from one view to the next and noted what the guest saw, host GL agrees with the first view in its active unit, in its bindings except on `off` units, and in GPU content, and the last view is the guest's own. `HashOK` says that a tracked texture's hash is that of its last queued upload or, if the queue does not touch it, of what the host holds; `ViewOK` that the hooks know of every texture the GPU made. `ReplayedOK` carries agreement, freshness and what was drawn over the requests of a replay; `ReuploadsEffect` says what the re-uploads leave, in any order, and `ResumedOK` that the queue can follow them. `PushInv` and `FlushInv` do the calls that queue and those that replay, with one lemma per call on top. |
| `GlRenderProofs` | `GlRenderCorrect`, `NeverBothAsleepThm`, `RefinesServiceThm` | The invariant adds `LockOK` (who holds rlock, and in which states the thread exists) and `RequestOK` (a pending request has a waiting vCPU, and the last one leaves the queue empty). The refinement takes `Backlog` apart by the state of the trap; dispatch is `Issue`, the thread's execution `Execute`, the return of the last wait `Return`, and everything else, the hand-over of the queue's head included, a stutter. |
| `SgxProofs` | `SgxCorrect`, `SyncSettledThm`, `NeverAheadThm`, `NoLostFlipThm`, `PollAnsweredThm` | Distances between counters are taken modulo the word. The invariant says that the newest operation on a counter that is behind is still owed: by a command in a ring, by the sync list of a render target or, for the 3D sync, by a scene whose last kick is to come; only the counters in `lost` are exempt (`CountsOK`). A target in use belongs to a scene whose end is still to be built or completed (`TargetsOK`). It also says that a counter lags its pending count by no more than `LAG`, that a ring which begins with a READY command belongs to a task that has yet to queue its kick, or has queued it and has yet to ring the doorbell, that a command which is not READY has a task about to prepare it, and that a control command is answered or still in the kernel ring. Two inductions carry it through a kick: over the turns of one command's loop (`CmdTaServes`, `CmdTransferServes`: with at most `GUARD` commands in the ring nothing READY is left) and over the entries of the kernel ring (`ConsumeCcbOK`). |

The inductions of `SgxProofs` and `PictureProofs`, and the existence of the
recursive functions they are about, rest on `NatInductionSet`: induction for a set of numbers, which
follows from the existence of a least element and, unlike the library's schemes,
takes no operator as a parameter.

The theorems hold for every number of mailboxes, users, pins, channels, every
FIFO depth and transfer length, every set of tasks, calls, outputs and frames that the named ASSUMEs of the modules allow.

The assumptions are those of the modules, with one exception: `EchoStreamThm`
takes `Window = 1`. `GlFrame` assumes finitely many textures, so that their
number bounds the re-uploads of a swap. `LAG` and `COMMANDS` bound the driver of `Sgx`: without the
first the signed comparison of two counters means nothing, the second only makes
the run finite and can be any number.

Only model-checked: the liveness properties (`RequestAnswered`,
`ContactSettles`, `TransferCompletes`, `ChannelCompletes`, `OverflowComes`,
`GoClears`, `FrameShown`, `TrapReturns`), which need fairness. Every invariant
and every step property of a passing run is also a theorem.

## 5. Not modelled

- Register stubs other than WKUPGEN and SGX, the 32 kHz counter, PRCM and the
  external UARTs: they store and return values.
- The register-file slaves on I2C: a pointer and an array.
- The HSMMC wrapper: it translates offsets for QEMU's SDHCI, which is not in the
  repository; its data port is in `Sdma` as a source of stalls.
- The marshalling of single GL calls (arguments, client arrays, pixel formats),
  buffer and framebuffer objects apart from the attachment of a texture, and
  host GL itself.
- In `GlFrame`: texture state beyond the bindings of the units (client units,
  the environment of a unit), the content that `glTexSubImage2D`, compressed
  texels and `glCopyTex*` make (it is there as content of no source), the texels
  of mip levels, and a mip level without texels, which forgets the source like
  one for level 0. Buffers that the firmware uses for several textures in turn,
  of which `src/README.md` and `docs/text_rendering.md` speak: each texture has a buffer
  of its own.
- Calls that the hooks give up while marshalling (`goto done` in `gl_dispatch`:
  an unreadable argument, an unknown format): `QueueCall` of `GlRender` queues
  every call.
- In `GpTimer`, time between the two reads of the clock that some handlers make.
- In `Sgx`, the TA/3D dependency of a render (flag 0x200), and the write
  operations of a transfer's TA and 3D syncs apart from those of its
  destination, with which they are counted.
- The Teseo GPS simulator: a host-side script whose peer is the closed
  firmware; the protocol's other half is not in the repository.
- The FAT image builder: a sequential script that writes a file once.
- Other host tools (`tools/run_gpsmap.py` and others): they start QEMU and
  format logs.

## 6. What could follow

1. An abstract responder that `MailboxEcho` implements, and an abstract transfer
   service for `I2cDriver`.
2. `GlFrame` with buffer objects, whose contents are also read at draw time.
