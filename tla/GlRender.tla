------------------------------ MODULE GlRender ------------------------------
(***************************************************************************)
(* The hand-over between the trapping vCPU and the render thread           *)
(* (qemu/hw/arm/garmin_gl.c: gl_trap, gl_dispatch, render_start,           *)
(* render_call_req, render_thread).                                        *)
(*                                                                         *)
(* A trap runs with QEMU's big lock held from the store to its end, so     *)
(* there is one at a time; rlock and the two condition variables order it  *)
(* with the render thread.  A thread that waits on a condition variable is *)
(* asleep until a signal, or nothing at all, wakes it, and then needs the  *)
(* lock again.  The tasks of the firmware may be switched between the      *)
(* store that traps and the load that fetches the result.  What a call     *)
(* does is left to GlFrame.                                                *)
(***************************************************************************)
EXTENDS Naturals, Sequences

CONSTANTS
    Tasks,      \* tasks of the firmware that call GL
    Logged,     \* calls without a host implementation
    Client,     \* calls answered from tracked client state
    Queued,     \* calls put on the frame queue
    Answered,   \* queries and eglSwapBuffers
    QMAX        \* bound: calls on the frame queue

ASSUME GlRenderAssumption ==
    /\ Logged \cap (Client \cup Queued \cup Answered) = {}
    /\ Client \cap (Queued \cup Answered) = {}
    /\ Queued \cap Answered = {}
    /\ QMAX \in Nat

VARIABLES
    task,       \* task[t]: "run", or "load" before it fetches the result
    owner,      \* the task whose trap is being handled
    call,       \* its call
    vcpu,       \* where the trap is
    rthread,    \* where the render thread is
    rlock,      \* who holds rlock: "none", "vcpu" or "render"
    r_started, r_pending, r_cur, frame_q,
    gl_result,  \* the task whose call the result register answers
    got         \* ghost: the task whose result each task fetched last

tasks == <<task, owner, call, gl_result, got>>
render == <<vcpu, rthread, rlock, r_started, r_pending, r_cur, frame_q>>
gl == <<tasks, render>>

VcpuStates == {"guest", "start", "sleepStart", "wakeStart", "dispatch", "flush",
               "sleepDone", "wakeDone", "sleepLast", "wakeLast", "finish"}
ThreadStates == {"none", "born", "loop", "sleep", "wake"}
Calls == Logged \cup Client \cup Queued \cup Answered

GlRenderTypeOK ==
    /\ task \in [Tasks -> {"run", "load"}]
    /\ owner \in Tasks /\ gl_result \in Tasks /\ got \in [Tasks -> Tasks]
    /\ call \in Calls
    /\ vcpu \in VcpuStates /\ rthread \in ThreadStates
    /\ rlock \in {"none", "vcpu", "render"}
    /\ r_started \in BOOLEAN /\ r_pending \in BOOLEAN
    /\ r_cur \in Calls
    /\ frame_q \in Seq(Queued)

GlRenderInit ==
    /\ task = [t \in Tasks |-> "run"]
    /\ owner \in Tasks /\ gl_result = owner
    /\ got = [t \in Tasks |-> t]
    /\ call \in Calls /\ r_cur = call
    /\ vcpu = "guest" /\ rthread = "none" /\ rlock = "none"
    /\ r_started = FALSE /\ r_pending = FALSE
    /\ frame_q = <<>>

----------------------------------------------------------------------------
(* Condition variables: a signal wakes the sleeper, if there is one.       *)

\* Mutant: the request is posted and nobody is woken.
SignalReqLost == UNCHANGED rthread

SignalReq == rthread' = IF rthread = "sleep" THEN "wake" ELSE rthread

SignalDone ==
    vcpu' = CASE vcpu = "sleepStart" -> "wakeStart"
              [] vcpu = "sleepDone" -> "wakeDone"
              [] vcpu = "sleepLast" -> "wakeLast"
              [] OTHER -> vcpu

\* qemu_cond_wait may return without a signal.
SpuriousWake ==
    /\ \/ vcpu \in {"sleepStart", "sleepDone", "sleepLast"} /\ SignalDone /\ UNCHANGED rthread
       \/ rthread = "sleep" /\ SignalReq /\ UNCHANGED vcpu
    /\ UNCHANGED <<tasks, rlock, r_started, r_pending, r_cur, frame_q>>

----------------------------------------------------------------------------
(* The vCPU *)

\* The store of the trampoline enters gl_trap.
Trap(t, c) ==
    /\ vcpu = "guest" /\ task[t] = "run"
    /\ owner' = t /\ call' = c
    /\ vcpu' = IF c \in Logged THEN "finish"
               ELSE IF rthread = "none" THEN "start" ELSE "dispatch"
    /\ UNCHANGED <<task, gl_result, got, rthread, rlock, r_started, r_pending, r_cur,
                   frame_q>>

\* render_start: create the thread with rlock held, then wait for it.
RenderStart ==
    /\ vcpu = "start" /\ rlock = "none"
    /\ rthread' = "born"
    /\ vcpu' = "sleepStart"
    /\ UNCHANGED <<tasks, rlock, r_started, r_pending, r_cur, frame_q>>

Started ==
    /\ vcpu = "wakeStart" /\ rlock = "none"
    /\ vcpu' = IF r_started THEN "dispatch" ELSE "sleepStart"
    /\ UNCHANGED <<tasks, rthread, rlock, r_started, r_pending, r_cur, frame_q>>

\* gl_dispatch takes rlock and answers the call from client state, puts it on
\* the frame queue, or keeps the lock to execute it after the queue.
ClientCall ==
    /\ call \in Client
    /\ vcpu' = "finish"
    /\ UNCHANGED <<rlock, frame_q>>

QueueCall ==
    /\ call \in Queued
    /\ frame_q' = Append(frame_q, call)
    /\ vcpu' = "finish"
    /\ UNCHANGED rlock

AnswerCall ==
    /\ call \in Answered
    /\ vcpu' = "flush" /\ rlock' = "vcpu"
    /\ UNCHANGED frame_q

Dispatch ==
    /\ vcpu = "dispatch" /\ rlock = "none"
    /\ ClientCall \/ QueueCall \/ AnswerCall
    /\ UNCHANGED <<tasks, rthread, r_started, r_pending, r_cur>>

\* render_call_req up to its wait, which gives the lock back.
RenderCall(c, asleep) ==
    /\ r_cur' = c /\ r_pending' = TRUE
    /\ SignalReq
    /\ vcpu' = asleep /\ rlock' = "none"

\* Mutant: the frame queue is taken from its tail.
FlushNewestFirst ==
    /\ vcpu = "flush" /\ rlock = "vcpu"
    /\ \/ /\ frame_q # <<>>
          /\ RenderCall(frame_q[Len(frame_q)], "sleepDone")
          /\ frame_q' = SubSeq(frame_q, 1, Len(frame_q) - 1)
       \/ /\ frame_q = <<>>
          /\ RenderCall(call, "sleepLast")
          /\ UNCHANGED frame_q
    /\ UNCHANGED <<tasks, r_started>>

\* frame_flush, then render_call for the call itself.
Flush ==
    /\ vcpu = "flush" /\ rlock = "vcpu"
    /\ \/ /\ frame_q # <<>>
          /\ RenderCall(Head(frame_q), "sleepDone")
          /\ frame_q' = Tail(frame_q)
       \/ /\ frame_q = <<>>
          /\ RenderCall(call, "sleepLast")
          /\ UNCHANGED frame_q
    /\ UNCHANGED <<tasks, r_started>>

\* The wait of render_call_req returns with the lock.
Done ==
    /\ vcpu \in {"wakeDone", "wakeLast"} /\ rlock = "none"
    /\ \/ /\ r_pending
          /\ vcpu' = IF vcpu = "wakeDone" THEN "sleepDone" ELSE "sleepLast"
          /\ UNCHANGED rlock
       \/ /\ ~r_pending /\ vcpu = "wakeDone"
          /\ vcpu' = "flush" /\ rlock' = "vcpu"
       \/ /\ ~r_pending /\ vcpu = "wakeLast"
          /\ vcpu' = "finish"
          /\ UNCHANGED rlock
    /\ UNCHANGED <<tasks, rthread, r_started, r_pending, r_cur, frame_q>>

\* gl_trap stores the result and the guest goes on.
Finish ==
    /\ vcpu = "finish"
    /\ gl_result' = owner
    /\ task' = [task EXCEPT ![owner] = "load"]
    /\ vcpu' = "guest"
    /\ UNCHANGED <<owner, call, got, rthread, rlock, r_started, r_pending, r_cur,
                   frame_q>>

\* gl_mmio_read: the load of the trampoline.
LoadResult(t) ==
    /\ vcpu = "guest" /\ task[t] = "load"
    /\ task' = [task EXCEPT ![t] = "run"]
    /\ got' = [got EXCEPT ![t] = gl_result]
    /\ UNCHANGED <<owner, call, gl_result, render>>

----------------------------------------------------------------------------
(* The render thread.  Without a host renderer it skips the execution.     *)

ThreadInit ==
    /\ rthread = "born" /\ rlock = "none"
    /\ r_started' = TRUE
    /\ SignalDone
    /\ rthread' = "loop" /\ rlock' = "render"
    /\ UNCHANGED <<tasks, r_pending, r_cur, frame_q>>

ThreadSleep ==
    /\ rthread = "loop" /\ rlock = "render" /\ ~r_pending
    /\ rthread' = "sleep" /\ rlock' = "none"
    /\ UNCHANGED <<tasks, vcpu, r_started, r_pending, r_cur, frame_q>>

ThreadWake ==
    /\ rthread = "wake" /\ rlock = "none"
    /\ rthread' = "loop" /\ rlock' = "render"
    /\ UNCHANGED <<tasks, vcpu, r_started, r_pending, r_cur, frame_q>>

\* Mutant: the request is done and the vCPU is not told.
ThreadExecSilent ==
    /\ rthread = "loop" /\ rlock = "render" /\ r_pending
    /\ r_pending' = FALSE
    /\ UNCHANGED <<tasks, vcpu, rthread, rlock, r_started, r_cur, frame_q>>

ThreadExec ==
    /\ rthread = "loop" /\ rlock = "render" /\ r_pending
    /\ r_pending' = FALSE
    /\ SignalDone
    /\ UNCHANGED <<tasks, rthread, rlock, r_started, r_cur, frame_q>>

VcpuStep == RenderStart \/ Started \/ Dispatch \/ Flush \/ Done \/ Finish
ThreadStep == ThreadInit \/ ThreadSleep \/ ThreadWake \/ ThreadExec

\* A call that would exceed the bound on the queue is not made.
WithinBound(c) == c \in Queued => Len(frame_q) < QMAX

GlRenderNext ==
    \/ \E t \in Tasks, c \in Calls : WithinBound(c) /\ Trap(t, c)
    \/ \E t \in Tasks : LoadResult(t)
    \/ VcpuStep \/ ThreadStep \/ SpuriousWake

\* Both threads are threads of the host, which runs a runnable thread and
\* gives a free mutex to one that waits for it.
GlRenderFairness == SF_gl(VcpuStep) /\ SF_gl(ThreadStep)

GlRenderSpec == GlRenderInit /\ [][GlRenderNext]_gl /\ GlRenderFairness

----------------------------------------------------------------------------
(* Properties *)

\* The trap and the render thread never wait for each other: while the vCPU
\* sleeps on rcond_done, or is woken to find its request still pending, the
\* render thread has been signalled or is at work (render_call_req and
\* render_thread).
NeverBothAsleep ==
    /\ vcpu \in {"sleepDone", "sleepLast"} => r_pending /\ rthread \in {"wake", "loop"}
    /\ r_pending => rthread \in {"wake", "loop"}
    /\ vcpu = "sleepStart" => rthread = "born" /\ ~r_started

\* Every trap returns to the guest, with either kind of render thread and
\* whatever spurious wake-ups happen.
TrapReturns == vcpu # "guest" ~> vcpu = "guest"

\* The calls between the firmware's issue and their execution, oldest first.
Backlog ==
    (IF r_pending THEN <<r_cur>> ELSE <<>>) \o frame_q \o
    (IF vcpu \in {"flush", "sleepDone", "wakeDone"} THEN <<call>> ELSE <<>>)

Service == INSTANCE RenderService WITH
    backlog <- Backlog,
    waiting <- vcpu \in {"flush", "sleepDone", "wakeDone", "sleepLast", "wakeLast"}

\* The hand-over implements RenderService: every call is carried out once and
\* in order, and a query or a swap returns only after all the calls before it.
RefinesService == Service!ServiceSpec

\* The result a task loads is the result of its own call: garmin_gl.h has the
\* trampoline "execute the call on the host and return the result through a
\* second MMIO read".
OwnResult == \A t \in Tasks : got[t] = t
=============================================================================
