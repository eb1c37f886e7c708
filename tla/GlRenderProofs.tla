--------------------------- MODULE GlRenderProofs ---------------------------
(* The hand-over between vCPU and render thread for any tasks and calls.   *)
EXTENDS GlRender, TLAPS

(* The trap is inside a call that needs an answer.                         *)
Waiting == vcpu \in {"flush", "sleepDone", "wakeDone", "sleepLast", "wakeLast"}

(* Who holds rlock, and when the render thread exists.                     *)
LockOK ==
    /\ rlock = "vcpu" <=> vcpu = "flush"
    /\ rlock = "render" <=> rthread = "loop"
    /\ r_started <=> rthread \in {"loop", "sleep", "wake"}
    /\ rthread = "none" => vcpu \in {"guest", "start", "finish"}
    /\ rthread = "born" => vcpu \in {"sleepStart", "wakeStart"}
    /\ vcpu = "start" => rthread = "none"

(* What the request slot and the frame queue hold while the trap waits.    *)
RequestOK ==
    /\ r_pending => vcpu \in {"sleepDone", "wakeDone", "sleepLast", "wakeLast"}
    /\ vcpu \in {"sleepLast", "wakeLast"} => frame_q = <<>>
    /\ Waiting => call \in Answered

(* The inductive invariant of the hand-over.                               *)
GlRenderInv == GlRenderTypeOK /\ LockOK /\ RequestOK /\ NeverBothAsleep

(* pthread_cond_signal on rcond_done, case by case.                        *)
LEMMA SignalDoneCases ==
    ASSUME SignalDone
    PROVE  /\ vcpu = "sleepStart" => vcpu' = "wakeStart"
           /\ vcpu = "sleepDone" => vcpu' = "wakeDone"
           /\ vcpu = "sleepLast" => vcpu' = "wakeLast"
           /\ vcpu \notin {"sleepStart", "sleepDone", "sleepLast"} => vcpu' = vcpu
  BY Zenon DEF SignalDone

(* The steps of the vCPU.                                                  *)
LEMMA VcpuStepInv ==
    ASSUME GlRenderInv, VcpuStep
    PROVE  GlRenderInv'
  <1> USE GlRenderAssumption DEF GlRenderInv, GlRenderTypeOK, VcpuStates, ThreadStates, Calls,
                                 LockOK, RequestOK, NeverBothAsleep, Waiting, tasks
  <1>1. CASE RenderStart
    BY <1>1 DEF RenderStart
  <1>2. CASE Started
    BY <1>2 DEF Started
  <1>3. CASE Dispatch /\ ClientCall
    BY <1>3 DEF Dispatch, ClientCall
  <1>4. CASE Dispatch /\ QueueCall
    BY <1>4 DEF Dispatch, QueueCall
  <1>5. CASE Dispatch /\ AnswerCall
    BY <1>5 DEF Dispatch, AnswerCall
  <1>6. CASE Flush
    <2>1. CASE frame_q # <<>>
      <3>1. /\ Head(frame_q) \in Queued /\ frame_q' \in Seq(Queued)
            /\ r_cur' \in Calls /\ r_pending' = TRUE
            /\ vcpu' = "sleepDone" /\ rlock' = "none"
            /\ UNCHANGED <<tasks, r_started>>
        BY <1>6, <2>1 DEF Flush, RenderCall
      <3>2. rthread \in {"sleep", "wake"}
        BY <1>6 DEF Flush
      <3>3. rthread' = "wake"
        BY <1>6, <3>2 DEF Flush, RenderCall, SignalReq
      <3> QED BY <1>6, <3>1, <3>2, <3>3 DEF Flush
    <2>2. CASE frame_q = <<>>
      BY <1>6, <2>2 DEF Flush, RenderCall, SignalReq
    <2> QED BY <2>1, <2>2
  <1>7. CASE Done
    BY <1>7 DEF Done
  <1>8. CASE Finish
    BY <1>8 DEF Finish
  <1> QED BY <1>1, <1>2, <1>3, <1>4, <1>5, <1>6, <1>7, <1>8 DEF VcpuStep, Dispatch

(* The steps of the render thread.                                         *)
LEMMA ThreadStepInv ==
    ASSUME GlRenderInv, ThreadStep
    PROVE  GlRenderInv'
  <1> USE DEF GlRenderInv, GlRenderTypeOK, VcpuStates, ThreadStates,
              LockOK, RequestOK, NeverBothAsleep, Waiting, tasks
  <1>1. CASE ThreadInit
    BY <1>1, SignalDoneCases DEF ThreadInit
  <1>2. CASE ThreadSleep
    BY <1>2 DEF ThreadSleep
  <1>3. CASE ThreadWake
    BY <1>3 DEF ThreadWake
  <1>4. CASE ThreadExec
    BY <1>4, SignalDoneCases DEF ThreadExec
  <1> QED BY <1>1, <1>2, <1>3, <1>4 DEF ThreadStep

(* The steps of the tasks, and wake-ups without a signal.                  *)
LEMMA TaskStepInv ==
    ASSUME GlRenderInv,
           \/ \E t \in Tasks, c \in Calls : Trap(t, c)
           \/ \E t \in Tasks : LoadResult(t)
           \/ SpuriousWake
    PROVE  GlRenderInv'
  <1> USE DEF GlRenderInv, GlRenderTypeOK, VcpuStates, ThreadStates,
              LockOK, RequestOK, NeverBothAsleep, Waiting, tasks, render
  <1>1. ASSUME NEW t \in Tasks, NEW c \in Calls, Trap(t, c) PROVE GlRenderInv'
    BY <1>1 DEF Trap
  <1>2. ASSUME NEW t \in Tasks, LoadResult(t) PROVE GlRenderInv'
    BY <1>2 DEF LoadResult
  <1>3. CASE SpuriousWake
    BY <1>3, SignalDoneCases DEF SpuriousWake, SignalReq
  <1> QED BY <1>1, <1>2, <1>3

(* The invariant holds in every state, for any number of tasks and calls.  *)
THEOREM GlRenderCorrect == GlRenderSpec => []GlRenderInv
  <1>1. GlRenderInit => GlRenderInv
    <2> SUFFICES ASSUME GlRenderInit PROVE GlRenderInv
      OBVIOUS
    <2> USE DEF GlRenderInit
    <2>1. r_started \in BOOLEAN /\ r_pending \in BOOLEAN
      BY Zenon
    <2>2. GlRenderTypeOK
      BY <2>1 DEF GlRenderTypeOK, VcpuStates, ThreadStates
    <2>3. LockOK /\ RequestOK /\ NeverBothAsleep
      BY DEF LockOK, RequestOK, NeverBothAsleep, Waiting
    <2> QED BY <2>2, <2>3 DEF GlRenderInv
  <1>2. GlRenderInv /\ [GlRenderNext]_gl => GlRenderInv'
    <2> SUFFICES ASSUME GlRenderInv, [GlRenderNext]_gl PROVE GlRenderInv'
      OBVIOUS
    <2>1. CASE VcpuStep
      BY <2>1, VcpuStepInv
    <2>2. CASE ThreadStep
      BY <2>2, ThreadStepInv
    <2>3. CASE \/ \E t \in Tasks, c \in Calls : Trap(t, c)
               \/ \E t \in Tasks : LoadResult(t)
               \/ SpuriousWake
      BY <2>3, TaskStepInv
    <2>4. CASE UNCHANGED gl
      BY <2>4 DEF gl, tasks, render, GlRenderInv, GlRenderTypeOK,
                  LockOK, RequestOK, NeverBothAsleep, Waiting
    <2> QED BY <2>1, <2>2, <2>3, <2>4 DEF GlRenderNext
  <1> QED BY <1>1, <1>2, PTL DEF GlRenderSpec

(* Whenever the vCPU sleeps for an answer the render thread is on its way  *)
(* to give it: no order of lock, wait, signal and spurious wake-up loses a *)
(* request.                                                                *)
THEOREM NeverBothAsleepThm == GlRenderSpec => []NeverBothAsleep
  <1>1. GlRenderInv => NeverBothAsleep
    BY DEF GlRenderInv
  <1> QED BY GlRenderCorrect, <1>1, PTL
-----------------------------------------------------------------------------
(* The refinement.  Backlog, taken apart by the state of the trap.         *)
BacklogShape ==
    /\ ~Waiting => Backlog = frame_q
    /\ vcpu = "flush" => Backlog = Append(frame_q, call)
    /\ vcpu \in {"sleepDone", "wakeDone"} /\ ~r_pending
           => Backlog = Append(frame_q, call)
    /\ vcpu \in {"sleepDone", "wakeDone"} /\ r_pending
           => Backlog = <<r_cur>> \o Append(frame_q, call)
    /\ vcpu \in {"sleepLast", "wakeLast"} /\ ~r_pending => Backlog = <<>>
    /\ vcpu \in {"sleepLast", "wakeLast"} /\ r_pending => Backlog = <<r_cur>>

LEMMA BacklogCases == GlRenderInv => BacklogShape
  <1> SUFFICES ASSUME GlRenderInv PROVE BacklogShape
    OBVIOUS
  <1> USE DEF GlRenderInv, GlRenderTypeOK, RequestOK, Waiting, Backlog
  <1>1. frame_q \in Seq(Calls) /\ call \in Calls /\ r_cur \in Calls
    BY DEF Calls
  <1>2. frame_q \o <<call>> = Append(frame_q, call)
    BY <1>1
  <1>3. /\ <<>> \o frame_q = frame_q /\ frame_q \o <<>> = frame_q
        /\ <<>> \o <<>> = <<>> /\ <<r_cur>> \o <<>> = <<r_cur>>
    BY <1>1
  <1>4. (<<r_cur>> \o frame_q) \o <<call>> = <<r_cur>> \o Append(frame_q, call)
    BY <1>1
  <1>5. ~Waiting => Backlog = frame_q
    BY <1>3
  <1>6. vcpu = "flush" => Backlog = Append(frame_q, call)
    BY <1>2, <1>3
  <1>7. vcpu \in {"sleepDone", "wakeDone"} /\ ~r_pending
            => Backlog = Append(frame_q, call)
    BY <1>2, <1>3
  <1>8. vcpu \in {"sleepDone", "wakeDone"} /\ r_pending
            => Backlog = <<r_cur>> \o Append(frame_q, call)
    BY <1>4
  <1>9. vcpu \in {"sleepLast", "wakeLast"} => frame_q = <<>>
    OBVIOUS
  <1>10. vcpu \in {"sleepLast", "wakeLast"} /\ ~r_pending => Backlog = <<>>
    BY <1>9, <1>3
  <1>11. vcpu \in {"sleepLast", "wakeLast"} /\ r_pending => Backlog = <<r_cur>>
    BY <1>9, <1>3
  <1> HIDE DEF Backlog
  <1> QED BY <1>5, <1>6, <1>7, <1>8, <1>10, <1>11 DEF BacklogShape

(* The same after a step.                                                  *)
LEMMA BacklogCasesNext == GlRenderInv' => BacklogShape'
  BY BacklogCases, PTL

(* A step that leaves Backlog and Waiting alone is a stutter of the        *)
(* service.                                                                *)
LEMMA ServiceStutter ==
    ASSUME Backlog' = Backlog, Waiting' <=> Waiting
    PROVE  [Service!ServiceNext]_(Service!service)
  BY DEF Service!service, Waiting

(* Handing the oldest call over does not change the order.                 *)
LEMMA HeadMoved ==
    ASSUME NEW S, NEW s \in Seq(S), s # <<>>, NEW c \in S
    PROVE  <<Head(s)>> \o Append(Tail(s), c) = Append(s, c)
  OBVIOUS

LEMMA ExecutedTail ==
    ASSUME NEW S, NEW s \in Seq(S), NEW c \in S
    PROVE  <<c>> \o s # <<>> /\ Tail(<<c>> \o s) = s
  OBVIOUS

(* The steps that issue a call, hand it over, carry it out and return.     *)
LEMMA DispatchRefines ==
    ASSUME GlRenderInv, GlRenderInv', Dispatch
    PROVE  [Service!ServiceNext]_(Service!service)
  <1> USE DEF BacklogShape
  <1>1. vcpu = "dispatch" /\ ~Waiting
    BY DEF Dispatch, Waiting
  <1>2. Backlog = frame_q
    BY <1>1, BacklogCases
  <1>3. CASE ClientCall
    <2>1. vcpu' = "finish" /\ frame_q' = frame_q
      BY <1>3 DEF ClientCall
    <2>2. ~Waiting'
      BY <2>1 DEF Waiting
    <2>3. Backlog' = frame_q'
      BY <2>2, BacklogCasesNext
    <2> QED BY <1>1, <1>2, <2>1, <2>2, <2>3, ServiceStutter
  <1>4. CASE QueueCall
    <2>1. vcpu' = "finish" /\ frame_q' = Append(frame_q, call) /\ call \in Queued
      BY <1>4 DEF QueueCall
    <2>2. ~Waiting'
      BY <2>1 DEF Waiting
    <2>3. Backlog' = Append(Backlog, call)
      BY <1>2, <2>1, <2>2, BacklogCasesNext
    <2>4. call \notin Answered
      BY <2>1, GlRenderAssumption
    <2>5. Service!Issue(call)
      BY <1>1, <2>2, <2>3, <2>4 DEF Service!Issue, Waiting
    <2> QED BY <2>1, <2>5 DEF Service!ServiceNext
  <1>5. CASE AnswerCall
    <2>1. vcpu' = "flush" /\ frame_q' = frame_q /\ call' = call /\ call \in Answered
      BY <1>5 DEF AnswerCall, Dispatch, tasks
    <2>2. Waiting'
      BY <2>1 DEF Waiting
    <2>3. Backlog' = Append(Backlog, call)
      BY <1>2, <2>1, BacklogCasesNext
    <2>4. Service!Issue(call)
      BY <1>1, <2>1, <2>2, <2>3 DEF Service!Issue, Waiting
    <2> QED BY <2>1, <2>4 DEF Service!ServiceNext
  <1> QED BY <1>3, <1>4, <1>5 DEF Dispatch

LEMMA FlushRefines ==
    ASSUME GlRenderInv, GlRenderInv', Flush
    PROVE  [Service!ServiceNext]_(Service!service)
  <1> USE DEF BacklogShape
  <1>1. vcpu = "flush" /\ Waiting /\ call' = call /\ r_pending' = TRUE
    BY DEF Flush, Waiting, RenderCall, tasks
  <1>2. Backlog = Append(frame_q, call)
    BY <1>1, BacklogCases
  <1>3. frame_q \in Seq(Calls) /\ call \in Calls
    BY DEF GlRenderInv, GlRenderTypeOK, Calls
  <1>4. CASE frame_q # <<>>
    <2>1. vcpu' = "sleepDone" /\ r_cur' = Head(frame_q) /\ frame_q' = Tail(frame_q)
      BY <1>4 DEF Flush, RenderCall
    <2>2. Backlog' = <<Head(frame_q)>> \o Append(Tail(frame_q), call)
      BY <1>1, <2>1, BacklogCasesNext
    <2>3. Backlog' = Backlog
      BY <1>2, <1>3, <1>4, <2>2, HeadMoved
    <2>4. Waiting'
      BY <2>1 DEF Waiting
    <2> QED BY <1>1, <2>3, <2>4, ServiceStutter
  <1>5. CASE frame_q = <<>>
    <2>1. vcpu' = "sleepLast" /\ r_cur' = call
      BY <1>5 DEF Flush, RenderCall
    <2>2. Backlog' = <<call>>
      BY <1>1, <2>1, BacklogCasesNext
    <2>3. Backlog' = Backlog
      BY <1>2, <1>5, <2>2
    <2>4. Waiting'
      BY <2>1 DEF Waiting
    <2> QED BY <1>1, <2>3, <2>4, ServiceStutter
  <1> QED BY <1>4, <1>5

LEMMA DoneRefines ==
    ASSUME GlRenderInv, GlRenderInv', Done
    PROVE  [Service!ServiceNext]_(Service!service)
  <1> USE DEF BacklogShape
  <1>1. /\ vcpu \in {"wakeDone", "wakeLast"} /\ Waiting
        /\ UNCHANGED <<call, r_pending, r_cur, frame_q>>
    BY DEF Done, Waiting, tasks
  <1>2. CASE r_pending
    <2>1. Backlog' = Backlog /\ Waiting'
      BY <1>1, <1>2 DEF Done, Backlog, Waiting
    <2> QED BY <1>1, <2>1, ServiceStutter
  <1>3. CASE ~r_pending /\ vcpu = "wakeDone"
    <2>1. Backlog' = Backlog /\ Waiting'
      BY <1>1, <1>3 DEF Done, Backlog, Waiting
    <2> QED BY <1>1, <2>1, ServiceStutter
  <1>4. CASE ~r_pending /\ vcpu = "wakeLast"
    <2>1. vcpu' = "finish" /\ ~Waiting'
      BY <1>4 DEF Done, Waiting
    <2>2. Backlog = <<>>
      BY <1>4, BacklogCases
    <2>3. frame_q = <<>>
      BY <1>4 DEF GlRenderInv, RequestOK
    <2>4. Backlog' = <<>>
      BY <1>1, <2>1, <2>3, BacklogCasesNext
    <2>5. Service!Return
      BY <1>1, <2>1, <2>2, <2>4 DEF Service!Return, Waiting
    <2> QED BY <2>5 DEF Service!ServiceNext
  <1> QED BY <1>1, <1>2, <1>3, <1>4

LEMMA ExecRefines ==
    ASSUME GlRenderInv, GlRenderInv', ThreadExec
    PROVE  [Service!ServiceNext]_(Service!service)
  <1> USE DEF BacklogShape
  <1>1. r_pending /\ ~r_pending' /\ UNCHANGED <<call, frame_q>>
    BY DEF ThreadExec, tasks
  <1>2. /\ vcpu \in {"sleepDone", "wakeDone"} => vcpu' = "wakeDone"
        /\ vcpu \in {"sleepLast", "wakeLast"} => vcpu' = "wakeLast"
    BY SignalDoneCases DEF ThreadExec
  <1>3. frame_q \in Seq(Calls) /\ call \in Calls /\ r_cur \in Calls
    BY DEF GlRenderInv, GlRenderTypeOK, Calls
  <1>4. Waiting /\ Waiting'
    BY <1>1, <1>2 DEF GlRenderInv, RequestOK, Waiting
  <1>5. Backlog # <<>> /\ Backlog' = Tail(Backlog)
    <2>1. CASE vcpu \in {"sleepDone", "wakeDone"}
      <3>1. Backlog = <<r_cur>> \o Append(frame_q, call)
        BY <1>1, <2>1, BacklogCases
      <3>2. Backlog' = Append(frame_q, call)
        BY <1>1, <1>2, <2>1, BacklogCasesNext
      <3>3. Append(frame_q, call) \in Seq(Calls)
        BY <1>3
      <3> QED BY <1>3, <3>1, <3>2, <3>3, ExecutedTail
    <2>2. CASE vcpu \in {"sleepLast", "wakeLast"}
      <3>1. Backlog = <<r_cur>>
        BY <1>1, <2>2, BacklogCases
      <3>2. Backlog' = <<>>
        BY <1>1, <1>2, <2>2, BacklogCasesNext
      <3> QED BY <3>1, <3>2
    <2> QED BY <1>1, <2>1, <2>2 DEF GlRenderInv, RequestOK
  <1>6. Service!Execute
    BY <1>4, <1>5, Zenon DEF Service!Execute, Waiting
  <1> QED BY <1>6 DEF Service!ServiceNext

(* The other steps change neither the backlog nor whether the trap waits.  *)
LEMMA OthersRefine ==
    ASSUME GlRenderInv, GlRenderInv',
           \/ RenderStart \/ Started \/ Finish
           \/ ThreadInit \/ ThreadSleep \/ ThreadWake \/ SpuriousWake
           \/ \E t \in Tasks, c \in Calls : Trap(t, c)
           \/ \E t \in Tasks : LoadResult(t)
           \/ UNCHANGED gl
    PROVE  [Service!ServiceNext]_(Service!service)
  <1> USE DEF BacklogShape
  <1>1. CASE RenderStart \/ Started \/ Finish
    <2>1. ~Waiting /\ ~Waiting' /\ frame_q' = frame_q
      BY <1>1 DEF RenderStart, Started, Finish, Waiting
    <2> QED BY <2>1, BacklogCases, BacklogCasesNext, ServiceStutter
  <1>2. ASSUME NEW t \in Tasks, NEW c \in Calls, Trap(t, c)
        PROVE  [Service!ServiceNext]_(Service!service)
    <2>1. ~Waiting /\ ~Waiting' /\ frame_q' = frame_q
      BY <1>2 DEF Trap, Waiting
    <2> QED BY <2>1, BacklogCases, BacklogCasesNext, ServiceStutter
  <1>3. CASE ThreadInit
    <2>1. vcpu \in {"sleepStart", "wakeStart"}
      BY <1>3 DEF ThreadInit, GlRenderInv, LockOK
    <2>2. ~Waiting /\ ~Waiting' /\ frame_q' = frame_q
      BY <1>3, <2>1, SignalDoneCases DEF ThreadInit, Waiting
    <2> QED BY <2>2, BacklogCases, BacklogCasesNext, ServiceStutter
  <1>4. CASE \/ ThreadSleep \/ ThreadWake \/ UNCHANGED gl
             \/ \E t \in Tasks : LoadResult(t)
    <2>1. UNCHANGED <<vcpu, r_pending, r_cur, frame_q, call>>
      BY <1>4 DEF ThreadSleep, ThreadWake, LoadResult, gl, tasks, render
    <2>2. Backlog' = Backlog /\ Waiting' = Waiting
      BY <2>1 DEF Backlog, Waiting
    <2> QED BY <2>2, ServiceStutter
  <1>5. CASE SpuriousWake
    <2>1. UNCHANGED <<r_pending, r_cur, frame_q, call>>
      BY <1>5 DEF SpuriousWake, tasks
    <2>2. CASE vcpu' = vcpu
      BY <2>1, <2>2, ServiceStutter DEF Backlog, Waiting
    <2>3. CASE vcpu' # vcpu
      <3>1. \/ vcpu = "sleepStart" /\ vcpu' = "wakeStart"
            \/ vcpu = "sleepDone" /\ vcpu' = "wakeDone"
            \/ vcpu = "sleepLast" /\ vcpu' = "wakeLast"
        BY <1>5, <2>3, SignalDoneCases DEF SpuriousWake
      <3>2. Backlog' = Backlog
        BY <2>1, <3>1 DEF Backlog
      <3>3. Waiting' = Waiting
        BY <3>1 DEF Waiting
      <3> QED BY <3>2, <3>3, ServiceStutter
    <2> QED BY <2>2, <2>3
  <1> QED BY <1>1, <1>2, <1>3, <1>4, <1>5

(* The hand-over implements RenderService: calls are carried out once and  *)
(* in the order they were issued, and a query or swap returns only after   *)
(* all of them, for any number of tasks and calls.                         *)
THEOREM RefinesServiceThm == GlRenderSpec => RefinesService
  <1>1. GlRenderInit => Service!ServiceInit
    <2> SUFFICES ASSUME GlRenderInit PROVE Service!ServiceInit
      OBVIOUS
    <2>1. ~Waiting /\ ~r_pending /\ frame_q = <<>>
      BY DEF GlRenderInit, Waiting
    <2>2. Backlog = <<>>
      BY <2>1 DEF Backlog, Waiting
    <2> QED BY <2>1, <2>2 DEF Service!ServiceInit, Waiting
  <1>2. GlRenderInv /\ GlRenderInv' /\ [GlRenderNext]_gl
            => [Service!ServiceNext]_(Service!service)
    <2> SUFFICES ASSUME GlRenderInv, GlRenderInv', [GlRenderNext]_gl
                 PROVE  [Service!ServiceNext]_(Service!service)
      OBVIOUS
    <2> QED BY DispatchRefines, FlushRefines, DoneRefines, ExecRefines, OthersRefine
            DEF GlRenderNext, VcpuStep, ThreadStep
  <1> QED BY <1>1, <1>2, GlRenderCorrect, PTL
          DEF GlRenderSpec, RefinesService, Service!ServiceSpec
=============================================================================
