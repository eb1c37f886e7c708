--------------------------- MODULE PictureProofs ---------------------------
(***************************************************************************)
(* What is on the screen: the textures a frame is drawn with (GlFrame) and *)
(* the frame buffer it is shown from (Dispc), for any textures, contents,  *)
(* queues, outputs, frame buffers and frames.                              *)
(***************************************************************************)
EXTENDS Dispc, GlFrame, SequenceTheorems, FiniteSetTheorems, WellFoundedInduction,
        TLAPS

----------------------------------------------------------------------------
(* The display controller *)

(* Why FrameOnScreen holds: while the presenter has been told, it writes   *)
(* to the buffer that is displayed, and `newest' is kept only then.        *)
PresenterFollows ==
    /\ told => scanout = ba
    /\ newest # NoFrame => told

(* The inductive invariant of the controller.                              *)
DispcInv == DispcTypeOK /\ IrqHonest /\ PresenterFollows /\ FrameOnScreen

(* What the interrupt logic depends on, and what the picture does.         *)
irqVars == <<irqstatus, irqenable, irq>>
pictureVars == <<ba, scanout, fb, told, newest>>

(* A step that leaves the interrupt registers alone keeps IrqHonest,       *)
LEMMA IrqUnchanged ==
    ASSUME IrqHonest, UNCHANGED irqVars PROVE IrqHonest'
  BY DEF IrqHonest, irqVars

(* and one that leaves the picture alone keeps FrameOnScreen.              *)
LEMMA PictureUnchanged ==
    ASSUME PresenterFollows, FrameOnScreen, UNCHANGED pictureVars
    PROVE  PresenterFollows' /\ FrameOnScreen'
  BY DEF PresenterFollows, FrameOnScreen, pictureVars

(* dispc_update_irq, run with the registers a handler leaves.              *)
LEMMA UpdateIrqHonest ==
    ASSUME UpdateIrq(irqstatus', irqenable') PROVE IrqHonest'
  BY Zenon DEF UpdateIrq, IrqHonest

(* The level it sets is a level.                                           *)
LEMMA UpdateIrqType ==
    ASSUME NEW s, NEW e, UpdateIrq(s, e) PROVE irq' \in BOOLEAN
  BY Zenon DEF UpdateIrq

(* Every step keeps the types.                                             *)
LEMMA DispcTypeStep ==
    ASSUME DispcTypeOK, [DispcNext]_dispc PROVE DispcTypeOK'
  <1> USE DispcAssumption DEF DispcTypeOK
  <1>1. CASE Tick
    BY <1>1 DEF Tick
  <1>2. CASE Vsync
    <2>1. irq' \in BOOLEAN
      BY <1>2, UpdateIrqType DEF Vsync
    <2> QED BY <1>2, <2>1 DEF Vsync
  <1>3. ASSUME NEW S \in SUBSET Outputs, WriteIrqStatus(S) PROVE DispcTypeOK'
    <2>1. irq' \in BOOLEAN
      BY <1>3, UpdateIrqType DEF WriteIrqStatus
    <2> QED BY <1>3, <2>1 DEF WriteIrqStatus
  <1>4. ASSUME NEW S \in SUBSET Outputs, WriteIrqEnable(S) PROVE DispcTypeOK'
    <2>1. irq' \in BOOLEAN
      BY <1>4, UpdateIrqType DEF WriteIrqEnable
    <2> QED BY <1>4, <2>1 DEF WriteIrqEnable
  <1>5. ASSUME NEW reg \in Registers, NEW enable \in SUBSET reg, NEW set \in SUBSET reg,
               WriteControl(reg, enable, set)
        PROVE  DispcTypeOK'
    <2>1. enable \subseteq Outputs /\ set \subseteq Outputs
      BY DEF Outputs
    <2> QED BY <1>5, <2>1 DEF WriteControl
  <1>6. ASSUME NEW b \in Buffers, WriteBa0(b) PROVE DispcTypeOK'
    BY <1>6 DEF WriteBa0
  <1>7. ASSUME NEW enable \in BOOLEAN, WriteAttributes(enable) PROVE DispcTypeOK'
    BY <1>7 DEF WriteAttributes
  <1>8. ASSUME NEW f \in Frames, Present(f) PROVE DispcTypeOK'
    BY <1>8 DEF Present
  <1>9. CASE GfxUpdate
    BY <1>9 DEF GfxUpdate
  <1>10. CASE Reset
    <2>1. BootOutput \in Outputs
      BY DEF Outputs
    <2>2. /\ on' = {BootOutput} /\ go' = {} /\ irqstatus' = {} /\ irqenable' = {}
          /\ ba' = FirstBuffer /\ left' = FRAME /\ writes' = 0 /\ newest' = NoFrame
          /\ UNCHANGED <<irq, scanout, fb, screen>>
      BY <1>10, Zenon DEF Reset, Seeded
    <2>3. pipeline' \in BOOLEAN /\ told' \in BOOLEAN
      BY <1>10, Zenon DEF Reset, Seeded
    <2> QED BY <2>1, <2>2, <2>3
  <1>11. CASE Restore
    BY <1>11 DEF Restore
  <1>12. CASE UNCHANGED dispc
    BY <1>12 DEF dispc
  <1> QED BY <1>1, <1>2, <1>3, <1>4, <1>5, <1>6, <1>7, <1>8, <1>9, <1>10, <1>11, <1>12
          DEF DispcNext

(* Every step keeps the interrupt honest.                                  *)
LEMMA IrqHonestStep ==
    ASSUME IrqHonest, [DispcNext]_dispc PROVE IrqHonest'
  <1>1. CASE Vsync
    <2>1. UpdateIrq(irqstatus', irqenable')
      BY <1>1 DEF Vsync
    <2> QED BY <2>1, UpdateIrqHonest
  <1>2. ASSUME NEW S \in SUBSET Outputs, WriteIrqStatus(S) PROVE IrqHonest'
    <2>1. UpdateIrq(irqstatus', irqenable')
      BY <1>2 DEF WriteIrqStatus
    <2> QED BY <2>1, UpdateIrqHonest
  <1>3. ASSUME NEW S \in SUBSET Outputs, WriteIrqEnable(S) PROVE IrqHonest'
    <2>1. UpdateIrq(irqstatus', irqenable')
      BY <1>3 DEF WriteIrqEnable
    <2> QED BY <2>1, UpdateIrqHonest
  <1>4. CASE Reset
    BY <1>4 DEF Reset, Seeded, IrqHonest
  <1>5. CASE Tick \/ GfxUpdate \/ Restore \/ UNCHANGED dispc
    BY <1>5, IrqUnchanged DEF Tick, GfxUpdate, Restore, dispc, irqVars
  <1>6. ASSUME NEW reg \in Registers, NEW enable \in SUBSET reg, NEW set \in SUBSET reg,
               WriteControl(reg, enable, set)
        PROVE  IrqHonest'
    BY <1>6, IrqUnchanged DEF WriteControl, irqVars
  <1>7. ASSUME NEW b \in Buffers, WriteBa0(b) PROVE IrqHonest'
    BY <1>7, IrqUnchanged DEF WriteBa0, irqVars
  <1>8. ASSUME NEW enable \in BOOLEAN, WriteAttributes(enable) PROVE IrqHonest'
    BY <1>8, IrqUnchanged DEF WriteAttributes, irqVars
  <1>9. ASSUME NEW f \in Frames, Present(f) PROVE IrqHonest'
    BY <1>9, IrqUnchanged DEF Present, irqVars
  <1> QED BY <1>1, <1>2, <1>3, <1>4, <1>5, <1>6, <1>7, <1>8, <1>9 DEF DispcNext

(* Every step keeps the picture where it is displayed.                     *)
LEMMA PictureStep ==
    ASSUME DispcTypeOK, PresenterFollows, FrameOnScreen, [DispcNext]_dispc
    PROVE  PresenterFollows' /\ FrameOnScreen'
  <1>1. ASSUME NEW b \in Buffers, WriteBa0(b)
        PROVE  PresenterFollows' /\ FrameOnScreen'
    BY <1>1 DEF WriteBa0, PresenterFollows, FrameOnScreen
  <1>2. ASSUME NEW f \in Frames, Present(f)
        PROVE  PresenterFollows' /\ FrameOnScreen'
    <2>1. CASE told
      BY <1>2, <2>1 DEF Present, PresenterFollows, FrameOnScreen, DispcTypeOK
    <2>2. CASE ~told
      BY <1>2, <2>2 DEF Present, PresenterFollows, FrameOnScreen
    <2> QED BY <2>1, <2>2
  <1>3. CASE Reset \/ Restore
    BY <1>3 DEF Reset, Restore, PresenterFollows, FrameOnScreen
  <1>4. CASE Tick \/ Vsync \/ GfxUpdate \/ UNCHANGED dispc
    BY <1>4, PictureUnchanged DEF Tick, Vsync, GfxUpdate, dispc, pictureVars
  <1>5. ASSUME NEW S \in SUBSET Outputs, WriteIrqStatus(S) \/ WriteIrqEnable(S)
        PROVE  PresenterFollows' /\ FrameOnScreen'
    BY <1>5, PictureUnchanged DEF WriteIrqStatus, WriteIrqEnable, pictureVars
  <1>6. ASSUME NEW reg \in Registers, NEW enable \in SUBSET reg, NEW set \in SUBSET reg,
               WriteControl(reg, enable, set)
        PROVE  PresenterFollows' /\ FrameOnScreen'
    BY <1>6, PictureUnchanged DEF WriteControl, pictureVars
  <1>7. ASSUME NEW enable \in BOOLEAN, WriteAttributes(enable)
        PROVE  PresenterFollows' /\ FrameOnScreen'
    BY <1>7, PictureUnchanged DEF WriteAttributes, pictureVars
  <1> QED BY <1>1, <1>2, <1>3, <1>4, <1>5, <1>6, <1>7 DEF DispcNext

(* The invariant holds in every state of the display controller, for any   *)
(* number of outputs, buffers, frames and control writes.                  *)
THEOREM DispcCorrect == DispcSpec => []DispcInv
  <1>1. DispcInit => DispcInv
    <2> SUFFICES ASSUME DispcInit PROVE DispcInv
      OBVIOUS
    <2> USE DispcAssumption DEF DispcInit, Seeded
    <2>1. DispcTypeOK
      <3>1. BootOutput \in Outputs
        BY DEF Outputs
      <3>2. pipeline \in BOOLEAN /\ told \in BOOLEAN /\ irq \in BOOLEAN
        BY Zenon
      <3>3. fb \in [Buffers -> Frames \cup {NoFrame}]
        OBVIOUS
      <3> QED BY <3>1, <3>2, <3>3 DEF DispcTypeOK
    <2>2. IrqHonest
      BY DEF IrqHonest
    <2>3. PresenterFollows /\ FrameOnScreen
      BY DEF PresenterFollows, FrameOnScreen
    <2> QED BY <2>1, <2>2, <2>3 DEF DispcInv
  <1>2. DispcInv /\ [DispcNext]_dispc => DispcInv'
    BY DispcTypeStep, IrqHonestStep, PictureStep DEF DispcInv
  <1> QED BY <1>1, <1>2, PTL DEF DispcSpec

(* The interrupt is up whenever an enabled event is pending, through       *)
(* unmasking, acknowledgement, vsync and reset.                            *)
THEOREM IrqHonestThm == DispcSpec => []IrqHonest
  <1>1. DispcInv => IrqHonest
    BY DEF DispcInv
  <1> QED BY DispcCorrect, <1>1, PTL

(* A frame presented after a GFX_BA0 write is in the displayed buffer.     *)
THEOREM FrameOnScreenThm == DispcSpec => []FrameOnScreen
  <1>1. DispcInv => FrameOnScreen
    BY DEF DispcInv
  <1> QED BY DispcCorrect, <1>1, PTL

----------------------------------------------------------------------------
(* The frame queue *)

(* The values of the model: contents of guest memory and of textures,      *)
(* sources, requests on the queue, draws, views and images of host GL.     *)
Bytes == 0..VERSIONS - 1
Texels == 0..VERSIONS + 2
Sources == [dirty_check : BOOLEAN, hash : Bytes \cup {-1, Level}]
Bindings == [Units -> Names]
Ops == {"active", "bind", "upload", "patch", "level", "attach", "delete", "draw"}
Requests ==
    {r \in [op : Ops, tex : Names, unit : Units, texels : Texels, meant : Names, gpu : BOOLEAN] :
        /\ r.op \in {"upload", "attach"} => r.tex \in Textures
        /\ r.op = "upload" => r.texels \in Bytes}
Draws == [meant : Names, gpu : BOOLEAN, tex : Names, texels : Texels, due : BOOLEAN,
          off : BOOLEAN]
Views == [active : Units, bind : Bindings, gpu : SUBSET Textures]
Images == [active : Units, bind : Bindings, off : SUBSET Units, tex : [Names -> Texels],
           up : SUBSET Names, drawn : SUBSET Draws]

(* The types of the frame queue's variables.                               *)
GlFrameTypeOK ==
    /\ resync \in BOOLEAN
    /\ mem \in [Textures -> Bytes]
    /\ texsrcs \in [Textures -> Sources]
    /\ gpu_textures \in SUBSET Textures
    /\ bound_texture \in Names /\ bound_at_swap \in Names
    /\ frame_q \in Seq(Requests)
    /\ host \in [active : Units, bind : Bindings, off : SUBSET Units, tex : [Names -> Texels]]
    /\ view \in Views
    /\ drawn \in SUBSET Draws

(* Host GL agrees with what the guest sees: the active unit, the bindings  *)
(* except where a re-upload put back another one, the GPU's content.       *)
Agrees(g, h) ==
    /\ h.active = g.active
    /\ \A u \in Units \ h.off : h.bind[u] = g.bind[u]
    /\ \A t \in g.gpu : h.tex[t] \in {Gpu, Other}

(* A request notes what the guest saw when it made the call.               *)
RequestOK(g, r) ==
    /\ r.op = "upload" => r.meant = g.bind[g.active]
    /\ r.op = "draw" => r.meant = g.bind[r.unit] /\ (r.gpu => r.meant \in g.gpu)

(* f has the views of the guest before each request of q and after all.    *)
Along(f, q) ==
    /\ f \in Seq(Views) /\ Len(f) = Len(q) + 1
    /\ \A i \in 1..Len(q) : f[i + 1] = GuestExec(f[i], q[i]) /\ RequestOK(f[i], q[i])

(* The queue leads from a view the host agrees with to the guest's own;    *)
(* what the GPU made at its start is not tracked unless it was deleted.    *)
TrailOK ==
    \E f : /\ Along(f, frame_q)
           /\ Agrees(f[1], Host) /\ f[Len(frame_q) + 1] = view
           /\ \A t \in f[1].gpu :
                 t \in gpu_textures \/ \E i \in 1..Len(frame_q) :
                                          frame_q[i].op = "delete" /\ frame_q[i].tex = t

(* The hooks know of every texture whose content the GPU makes.            *)
ViewOK == view.gpu \subseteq gpu_textures

(* The requests that give a texture content under its own name.            *)
Touches(r, t) == r.op \in {"upload", "attach", "delete"} /\ r.tex = t
UploadOf(r, t) == r.op = "upload" /\ r.tex = t

(* The hash of a tracked texture is that of its last queued upload, or, if *)
(* the queue does not touch it, of what the host holds.                    *)
HashOK ==
    \A t \in Textures : Tracked(t) =>
        \/ /\ \A i \in 1..Len(frame_q) : ~Touches(frame_q[i], t)
           /\ texsrcs[t].hash # Level => host.tex[t] \in {texsrcs[t].hash, Other}
        \/ \E i \in 1..Len(frame_q) :
              /\ UploadOf(frame_q[i], t) /\ frame_q[i].texels = texsrcs[t].hash
              /\ \A j \in 1..Len(frame_q) : j > i => ~Touches(frame_q[j], t)

(* The inductive invariant.                                                *)
FrameInv ==
    /\ GlFrameTypeOK /\ TrailOK /\ ViewOK /\ HashOK
    /\ FreshAtSwap /\ DrawBinding /\ GpuKept
-----------------------------------------------------------------------------
(* Induction over the naturals for a set.                                  *)
LEMMA NatInductionSet ==
    ASSUME NEW S, 0 \in S, \A n \in Nat : n \in S => n + 1 \in S
    PROVE  \A n \in Nat : n \in S
  <1> DEFINE lt == {p \in Nat \X Nat : p[1] < p[2]}
             T  == {n \in Nat : n \notin S}
  <1>1. IsWellFoundedOn(lt, Nat)
    <2>1. OpToRel(<, Nat) = lt
      BY DEF OpToRel
    <2> QED BY <2>1, NatLessThanWellFounded
  <1>2. SUFFICES ASSUME T # {} PROVE FALSE
    OBVIOUS
  <1>3. T \subseteq Nat
    OBVIOUS
  <1> HIDE DEF T
  <1>4. PICK x \in T : \A y \in T : ~(<<y, x>> \in lt)
    BY <1>1, <1>2, <1>3, WFMin
  <1>5. x \in Nat /\ x # 0 /\ x \notin S
    BY <1>3, <1>4 DEF T
  <1>6. x - 1 \in Nat /\ x - 1 \notin S
    BY <1>5
  <1>7. x - 1 \in T /\ <<x - 1, x>> \in lt
    BY <1>5, <1>6 DEF T
  <1> QED BY <1>4, <1>7

(* The image after each request, without the recursion.                    *)
LEMMA ReplayedDef ==
    ASSUME NEW h, NEW q, Len(q) \in Nat
    PROVE  /\ Replayed(h, q)[0] = h
           /\ \A n \in 1..Len(q) : Replayed(h, q)[n] = RenderExec(Replayed(h, q)[n - 1], q[n])
  <1> DEFINE S == {k \in Nat : \E f : f = [n \in 0..k |-> IF n = 0 THEN h ELSE RenderExec(f[n - 1], q[n])]}
  <1>1. 0 \in S
    <2> DEFINE f == [n \in 0..0 |-> h]
    <2>1. f = [n \in 0..0 |-> IF n = 0 THEN h ELSE RenderExec(f[n - 1], q[n])]
      OBVIOUS
    <2> QED BY <2>1
  <1>2. ASSUME NEW k \in Nat, k \in S PROVE k + 1 \in S
    <2>1. PICK f : f = [n \in 0..k |-> IF n = 0 THEN h ELSE RenderExec(f[n - 1], q[n])]
      BY <1>2
    <2> DEFINE g == [n \in 0..k + 1 |-> IF n <= k THEN f[n] ELSE RenderExec(f[k], q[k + 1])]
    <2>2. g = [n \in 0..k + 1 |-> IF n = 0 THEN h ELSE RenderExec(g[n - 1], q[n])]
      BY <2>1
    <2>3. k + 1 \in Nat
      OBVIOUS
    <2> HIDE DEF g
    <2> QED BY <2>2, <2>3
  <1>3. Len(q) \in S
    <2> HIDE DEF S
    <2> QED BY <1>1, <1>2, NatInductionSet
  <1>4. PICK f : f = [n \in 0..Len(q) |-> IF n = 0 THEN h ELSE RenderExec(f[n - 1], q[n])]
    BY <1>3
  <1>5. Replayed(h, q) = [n \in 0..Len(q) |-> IF n = 0 THEN h ELSE RenderExec(Replayed(h, q)[n - 1], q[n])]
    BY <1>4 DEF Replayed
  <1> QED BY <1>5

(* The image after each re-upload, without the recursion.                  *)
LEMMA ReuploadedDef ==
    ASSUME NEW order, Len(order) \in Nat
    PROVE  /\ Reuploaded(order)[0] = Host
           /\ \A n \in 1..Len(order) : Reuploaded(order)[n] = Flushed(Reuploaded(order)[n - 1], Reupload(order[n]))
  <1> DEFINE S == {k \in Nat : \E f : f = [n \in 0..k |-> IF n = 0 THEN Host ELSE Flushed(f[n - 1], Reupload(order[n]))]}
  <1>1. 0 \in S
    <2> DEFINE f == [n \in 0..0 |-> Host]
    <2>1. f = [n \in 0..0 |-> IF n = 0 THEN Host ELSE Flushed(f[n - 1], Reupload(order[n]))]
      OBVIOUS
    <2> QED BY <2>1
  <1>2. ASSUME NEW k \in Nat, k \in S PROVE k + 1 \in S
    <2>1. PICK f : f = [n \in 0..k |-> IF n = 0 THEN Host ELSE Flushed(f[n - 1], Reupload(order[n]))]
      BY <1>2
    <2> DEFINE g == [n \in 0..k + 1 |-> IF n <= k THEN f[n] ELSE Flushed(f[k], Reupload(order[k + 1]))]
    <2>2. g = [n \in 0..k + 1 |-> IF n = 0 THEN Host ELSE Flushed(g[n - 1], Reupload(order[n]))]
      BY <2>1
    <2>3. k + 1 \in Nat
      OBVIOUS
    <2> HIDE DEF g
    <2> QED BY <2>2, <2>3
  <1>3. Len(order) \in S
    <2> HIDE DEF S
    <2> QED BY <1>1, <1>2, NatInductionSet
  <1>4. PICK f : f = [n \in 0..Len(order) |-> IF n = 0 THEN Host ELSE Flushed(f[n - 1], Reupload(order[n]))]
    BY <1>3
  <1>5. Reuploaded(order) = [n \in 0..Len(order) |-> IF n = 0 THEN Host ELSE Flushed(Reuploaded(order)[n - 1], Reupload(order[n]))]
    BY <1>4 DEF Reuploaded
  <1> QED BY <1>5

(* An image of host GL and a request, field by field.                      *)
LEMMA ImageForm ==
    ASSUME NEW h \in Images
    PROVE  /\ h = [active |-> h.active, bind |-> h.bind, off |-> h.off, tex |-> h.tex,
                   up |-> h.up, drawn |-> h.drawn]
           /\ h.active \in Units /\ h.bind \in Bindings /\ h.off \in SUBSET Units
           /\ h.tex \in [Names -> Texels]
           /\ h.up \in SUBSET Names /\ h.drawn \in SUBSET Draws
           /\ h.bind[h.active] \in Names
  BY DEF Images, Bindings

LEMMA RequestForm ==
    ASSUME NEW r \in Requests
    PROVE  /\ r.op \in Ops /\ r.tex \in Names /\ r.unit \in Units /\ r.texels \in Texels
           /\ r.meant \in Names /\ r.gpu \in BOOLEAN
           /\ r.op \in {"upload", "attach"} => r.tex \in Textures
           /\ r.op = "upload" => r.texels \in Bytes
  BY DEF Requests

(* The constants of the model are what they are for.                       *)
LEMMA Values ==
    /\ \A t \in Textures : t \in Names /\ t # NoTexture
    /\ NoTexture \in Names /\ 0 \in Units /\ 0 \in Bytes
    /\ Bytes \subseteq Texels /\ Gpu \in Texels /\ Other \in Texels /\ Undefined \in Texels
    /\ Gpu # Other /\ Gpu # Undefined /\ Other # Undefined
    /\ Gpu \notin Bytes /\ Other \notin Bytes /\ Undefined \notin Bytes
    /\ NoSource \in Sources /\ ~NoSource.dirty_check /\ Level \notin Bytes
  BY GlFrameAssumption
     DEF Names, Units, Bytes, Texels, Gpu, Other, Undefined, NoSource, Sources, Level

(* The draw a request adds.                                                *)
DrawOf(h, r) ==
    [meant |-> r.meant, gpu |-> r.gpu, tex |-> h.bind[r.unit], texels |-> h.tex[h.bind[r.unit]],
     due |-> h.bind[r.unit] \in h.up, off |-> r.unit \in h.off]

(* An upload that finds its texture.                                       *)
Lands(h, r) == h.bind[h.active] = r.tex /\ r.tex = r.meant

(* RenderExec, one request at a time.                                      *)
LEMMA ExecForm ==
    ASSUME NEW h \in Images, NEW r \in Requests
    PROVE  /\ r.op = "active" => RenderExec(h, r) =
                  [active |-> r.unit, bind |-> h.bind, off |-> h.off, tex |-> h.tex,
                   up |-> h.up, drawn |-> h.drawn]
           /\ r.op = "bind" => RenderExec(h, r) =
                  [active |-> h.active, bind |-> [h.bind EXCEPT ![h.active] = r.tex],
                   off |-> h.off \ {h.active}, tex |-> h.tex, up |-> h.up, drawn |-> h.drawn]
           /\ r.op = "upload" /\ Lands(h, r) => RenderExec(h, r) =
                  [active |-> h.active, bind |-> h.bind, off |-> h.off,
                   tex |-> [h.tex EXCEPT ![r.tex] = r.texels],
                   up |-> h.up \cup {r.tex}, drawn |-> h.drawn]
           /\ r.op = "upload" /\ ~Lands(h, r) => RenderExec(h, r) =
                  [active |-> h.active, bind |-> h.bind, off |-> h.off,
                   tex |-> [[h.tex EXCEPT ![h.bind[h.active]] = Other] EXCEPT ![r.tex] = Other],
                   up |-> h.up, drawn |-> h.drawn]
           /\ r.op = "patch" => RenderExec(h, r) =
                  [active |-> h.active, bind |-> h.bind, off |-> h.off,
                   tex |-> [h.tex EXCEPT ![h.bind[h.active]] = Other],
                   up |-> h.up, drawn |-> h.drawn]
           /\ r.op = "attach" => RenderExec(h, r) =
                  [active |-> h.active, bind |-> h.bind, off |-> h.off,
                   tex |-> [h.tex EXCEPT ![r.tex] = Gpu],
                   up |-> h.up \ {r.tex}, drawn |-> h.drawn]
           /\ r.op = "delete" => RenderExec(h, r) =
                  [active |-> h.active, bind |-> Without(h.bind, r.tex), off |-> h.off,
                   tex |-> [h.tex EXCEPT ![r.tex] = Undefined],
                   up |-> h.up \ {r.tex}, drawn |-> h.drawn]
           /\ r.op = "draw" => RenderExec(h, r) =
                  [active |-> h.active, bind |-> h.bind, off |-> h.off, tex |-> h.tex,
                   up |-> h.up, drawn |-> h.drawn \cup {DrawOf(h, r)}]
           /\ r.op = "level" => RenderExec(h, r) = h
  <1>0. h = [active |-> h.active, bind |-> h.bind, off |-> h.off, tex |-> h.tex,
             up |-> h.up, drawn |-> h.drawn]
    BY ImageForm
  <1> DEFINE x == h.bind[h.active]
  <1>1. ASSUME r.op = "active"
        PROVE  RenderExec(h, r) =
                  [active |-> r.unit, bind |-> h.bind, off |-> h.off, tex |-> h.tex,
                   up |-> h.up, drawn |-> h.drawn]
    <2>1. RenderExec(h, r) = [h EXCEPT !.active = r.unit]
      BY <1>1, Zenon DEF RenderExec
    <2> QED BY <1>0, <2>1
  <1>2. ASSUME r.op = "bind"
        PROVE  RenderExec(h, r) =
                  [active |-> h.active, bind |-> [h.bind EXCEPT ![h.active] = r.tex],
                   off |-> h.off \ {h.active}, tex |-> h.tex, up |-> h.up, drawn |-> h.drawn]
    <2>1. RenderExec(h, r) = ExecBind(h, r)
      BY <1>2, Zenon DEF RenderExec
    <2> QED BY <1>0, <2>1 DEF ExecBind
  <1>3. ASSUME r.op = "upload", Lands(h, r)
        PROVE  RenderExec(h, r) =
                  [active |-> h.active, bind |-> h.bind, off |-> h.off,
                   tex |-> [h.tex EXCEPT ![r.tex] = r.texels],
                   up |-> h.up \cup {r.tex}, drawn |-> h.drawn]
    <2>1. RenderExec(h, r) = ExecUpload(h, r)
      BY <1>3, Zenon DEF RenderExec
    <2>2. ExecUpload(h, r) = [h EXCEPT !.tex[r.tex] = r.texels, !.up = @ \cup {r.tex}]
      BY <1>3 DEF ExecUpload, Lands
    <2> QED BY <1>0, <2>1, <2>2
  <1>4. ASSUME r.op = "upload", ~Lands(h, r)
        PROVE  RenderExec(h, r) =
                  [active |-> h.active, bind |-> h.bind, off |-> h.off,
                   tex |-> [[h.tex EXCEPT ![x] = Other] EXCEPT ![r.tex] = Other],
                   up |-> h.up, drawn |-> h.drawn]
    <2>1. RenderExec(h, r) = ExecUpload(h, r)
      BY <1>4, Zenon DEF RenderExec
    <2>2. ExecUpload(h, r) = [h EXCEPT !.tex[x] = Other, !.tex[r.tex] = Other]
      BY <1>4 DEF ExecUpload, Lands
    <2> HIDE DEF x
    <2> QED BY <1>0, <2>1, <2>2
  <1>5. ASSUME r.op = "patch"
        PROVE  RenderExec(h, r) =
                  [active |-> h.active, bind |-> h.bind, off |-> h.off,
                   tex |-> [h.tex EXCEPT ![x] = Other], up |-> h.up, drawn |-> h.drawn]
    <2>1. RenderExec(h, r) = ExecPatch(h)
      BY <1>5, Zenon DEF RenderExec
    <2>2. ExecPatch(h) = [h EXCEPT !.tex[x] = Other]
      BY DEF ExecPatch
    <2> HIDE DEF x
    <2> QED BY <1>0, <2>1, <2>2
  <1>6. ASSUME r.op = "attach"
        PROVE  RenderExec(h, r) =
                  [active |-> h.active, bind |-> h.bind, off |-> h.off,
                   tex |-> [h.tex EXCEPT ![r.tex] = Gpu],
                   up |-> h.up \ {r.tex}, drawn |-> h.drawn]
    <2>1. RenderExec(h, r) = ExecAttach(h, r)
      BY <1>6, Zenon DEF RenderExec
    <2> QED BY <1>0, <2>1 DEF ExecAttach
  <1>7. ASSUME r.op = "delete"
        PROVE  RenderExec(h, r) =
                  [active |-> h.active, bind |-> Without(h.bind, r.tex), off |-> h.off,
                   tex |-> [h.tex EXCEPT ![r.tex] = Undefined],
                   up |-> h.up \ {r.tex}, drawn |-> h.drawn]
    <2>1. RenderExec(h, r) = ExecDelete(h, r)
      BY <1>7, Zenon DEF RenderExec
    <2> QED BY <1>0, <2>1 DEF ExecDelete
  <1>8. ASSUME r.op = "draw"
        PROVE  RenderExec(h, r) =
                  [active |-> h.active, bind |-> h.bind, off |-> h.off, tex |-> h.tex,
                   up |-> h.up, drawn |-> h.drawn \cup {DrawOf(h, r)}]
    <2>1. RenderExec(h, r) = ExecDraw(h, r)
      BY <1>8, Zenon DEF RenderExec
    <2>2. ExecDraw(h, r) = [h EXCEPT !.drawn = @ \cup {DrawOf(h, r)}]
      BY DEF ExecDraw, DrawOf
    <2> QED BY <1>0, <2>1, <2>2
  <1>9. ASSUME r.op = "level" PROVE RenderExec(h, r) = h
    BY <1>9, Zenon DEF RenderExec
  <1> QED BY <1>1, <1>2, <1>3, <1>4, <1>5, <1>6, <1>7, <1>8, <1>9, Zenon

(* What a deletion leaves bound.                                           *)
LEMMA WithoutForm ==
    ASSUME NEW bind \in Bindings, NEW t
    PROVE  /\ Without(bind, t) \in Bindings
           /\ \A u \in Units : Without(bind, t)[u] = IF bind[u] = t THEN NoTexture ELSE bind[u]
  BY Values DEF Bindings, Without

(* A request leaves an image of host GL.                                   *)
LEMMA ExecTyped ==
    ASSUME NEW h \in Images, NEW r \in Requests
    PROVE  RenderExec(h, r) \in Images
  <1>0. /\ h.active \in Units /\ h.bind \in Bindings /\ h.off \in SUBSET Units
        /\ h.tex \in [Names -> Texels]
        /\ h.up \in SUBSET Names /\ h.drawn \in SUBSET Draws
        /\ h.bind[h.active] \in Names
        /\ r.op \in Ops /\ r.tex \in Names /\ r.unit \in Units /\ r.texels \in Texels
        /\ Gpu \in Texels /\ Other \in Texels /\ Undefined \in Texels
    BY ImageForm, RequestForm, Values
  <1>1. CASE r.op \in {"active", "level"}
    BY <1>0, <1>1, ExecForm DEF Images
  <1>2. CASE r.op = "bind"
    <2>1. [h.bind EXCEPT ![h.active] = r.tex] \in Bindings
      BY <1>0 DEF Bindings
    <2> QED BY <1>0, <1>2, <2>1, ExecForm DEF Images
  <1>3. CASE r.op = "upload" /\ Lands(h, r)
    <2>1. [h.tex EXCEPT ![r.tex] = r.texels] \in [Names -> Texels]
      BY <1>0
    <2> QED BY <1>0, <1>3, <2>1, ExecForm DEF Images
  <1>4. CASE r.op = "upload" /\ ~Lands(h, r)
    <2>1. [[h.tex EXCEPT ![h.bind[h.active]] = Other] EXCEPT ![r.tex] = Other] \in [Names -> Texels]
      BY <1>0
    <2> QED BY <1>0, <1>4, <2>1, ExecForm DEF Images
  <1>5. CASE r.op = "patch"
    <2>1. [h.tex EXCEPT ![h.bind[h.active]] = Other] \in [Names -> Texels]
      BY <1>0
    <2> QED BY <1>0, <1>5, <2>1, ExecForm DEF Images
  <1>6. CASE r.op = "attach"
    <2>1. [h.tex EXCEPT ![r.tex] = Gpu] \in [Names -> Texels]
      BY <1>0
    <2> QED BY <1>0, <1>6, <2>1, ExecForm DEF Images
  <1>7. CASE r.op = "delete"
    <2>1. [h.tex EXCEPT ![r.tex] = Undefined] \in [Names -> Texels]
      BY <1>0
    <2> QED BY <1>0, <1>7, <2>1, WithoutForm, ExecForm DEF Images
  <1>8. CASE r.op = "draw"
    <2>1. DrawOf(h, r) \in Draws
      <3>1. h.bind[r.unit] \in Names
        BY <1>0 DEF Bindings
      <3> QED BY <1>0, <3>1, RequestForm DEF DrawOf, Draws
    <2> QED BY <1>0, <1>8, <2>1, ExecForm DEF Images
  <1> QED BY <1>0, <1>1, <1>2, <1>3, <1>4, <1>5, <1>6, <1>7, <1>8 DEF Ops

(* GuestExec, and the views it leads to.                                   *)
LEMMA GuestForm ==
    ASSUME NEW g \in Views, NEW r \in Requests
    PROVE  /\ GuestExec(g, r) \in Views
           /\ GuestExec(g, r).active = IF r.op = "active" THEN r.unit ELSE g.active
           /\ GuestExec(g, r).bind = IF r.op = "bind" THEN [g.bind EXCEPT ![g.active] = r.tex]
                                     ELSE IF r.op = "delete" THEN Without(g.bind, r.tex) ELSE g.bind
           /\ GuestExec(g, r).gpu =
                 IF r.op \in {"upload", "patch"} THEN g.gpu \ {g.bind[g.active]}
                 ELSE IF r.op = "attach" THEN g.gpu \cup {r.tex}
                 ELSE IF r.op = "delete" THEN g.gpu \ {r.tex} ELSE g.gpu
  <1>0. /\ g = [active |-> g.active, bind |-> g.bind, gpu |-> g.gpu]
        /\ g.active \in Units /\ g.bind \in Bindings /\ g.gpu \in SUBSET Textures
        /\ r.op \in Ops /\ r.tex \in Names /\ r.unit \in Units
        /\ r.op = "attach" => r.tex \in Textures
    BY RequestForm DEF Views
  <1>1. CASE r.op = "active"
    <2>1. GuestExec(g, r) = [g EXCEPT !.active = r.unit]
      BY <1>1, Zenon DEF GuestExec
    <2>2. GuestExec(g, r) = [active |-> r.unit, bind |-> g.bind, gpu |-> g.gpu]
      BY <1>0, <2>1
    <2> QED BY <1>0, <1>1, <2>2 DEF Views
  <1>2. CASE r.op = "bind"
    <2>1. GuestExec(g, r) = [g EXCEPT !.bind[g.active] = r.tex]
      BY <1>2, Zenon DEF GuestExec
    <2>2. GuestExec(g, r) = [active |-> g.active, bind |-> [g.bind EXCEPT ![g.active] = r.tex], gpu |-> g.gpu]
      BY <1>0, <2>1
    <2>3. [g.bind EXCEPT ![g.active] = r.tex] \in Bindings
      BY <1>0 DEF Bindings
    <2> QED BY <1>0, <1>2, <2>2, <2>3 DEF Views
  <1>3. CASE r.op \in {"upload", "patch"}
    <2>1. GuestExec(g, r) = [g EXCEPT !.gpu = @ \ {g.bind[g.active]}]
      BY <1>3, Zenon DEF GuestExec
    <2>2. GuestExec(g, r) = [active |-> g.active, bind |-> g.bind, gpu |-> g.gpu \ {g.bind[g.active]}]
      BY <1>0, <2>1
    <2> QED BY <1>0, <1>3, <2>2 DEF Views
  <1>4. CASE r.op = "attach"
    <2>1. GuestExec(g, r) = [g EXCEPT !.gpu = @ \cup {r.tex}]
      BY <1>4, Zenon DEF GuestExec
    <2>2. GuestExec(g, r) = [active |-> g.active, bind |-> g.bind, gpu |-> g.gpu \cup {r.tex}]
      BY <1>0, <2>1
    <2> QED BY <1>0, <1>4, <2>2 DEF Views
  <1>5. CASE r.op = "delete"
    <2>1. GuestExec(g, r) = [g EXCEPT !.bind = Without(@, r.tex), !.gpu = @ \ {r.tex}]
      BY <1>5, Zenon DEF GuestExec
    <2>2. GuestExec(g, r) = [active |-> g.active, bind |-> Without(g.bind, r.tex), gpu |-> g.gpu \ {r.tex}]
      BY <1>0, <2>1
    <2> QED BY <1>0, <1>5, <2>2, WithoutForm DEF Views
  <1>6. CASE r.op \in {"level", "draw"}
    <2>1. GuestExec(g, r) = g
      BY <1>6, Zenon DEF GuestExec
    <2> QED BY <1>0, <1>6, <2>1
  <1> QED BY <1>0, <1>1, <1>2, <1>3, <1>4, <1>5, <1>6 DEF Ops

(* Host and guest stay in agreement: a bind puts its unit right, and what  *)
(* changes GPU content is an attachment, the guest's own upload or content *)
(* that is nobody's.                                                       *)
LEMMA ExecAgrees ==
    ASSUME NEW h \in Images, NEW g \in Views, NEW r \in Requests, RequestOK(g, r), Agrees(g, h)
    PROVE  Agrees(GuestExec(g, r), RenderExec(h, r))
  <1> DEFINE e == RenderExec(h, r)
             v == GuestExec(g, r)
  <1>0. /\ h.active \in Units /\ h.bind \in Bindings /\ h.off \in SUBSET Units
        /\ h.tex \in [Names -> Texels] /\ h.bind[h.active] \in Names
        /\ g.active \in Units /\ g.bind \in Bindings /\ g.gpu \in SUBSET Textures
        /\ r.op \in Ops /\ r.tex \in Names
        /\ \A t \in Textures : t \in Names
    BY ImageForm, RequestForm, Values DEF Views
  <1>1. /\ h.active = g.active
        /\ \A u \in Units \ h.off : h.bind[u] = g.bind[u]
        /\ \A t \in g.gpu : h.tex[t] \in {Gpu, Other}
    BY DEF Agrees
  <1>2. /\ v.active = IF r.op = "active" THEN r.unit ELSE g.active
        /\ v.bind = IF r.op = "bind" THEN [g.bind EXCEPT ![g.active] = r.tex]
                    ELSE IF r.op = "delete" THEN Without(g.bind, r.tex) ELSE g.bind
        /\ v.gpu = IF r.op \in {"upload", "patch"} THEN g.gpu \ {g.bind[g.active]}
                   ELSE IF r.op = "attach" THEN g.gpu \cup {r.tex}
                   ELSE IF r.op = "delete" THEN g.gpu \ {r.tex} ELSE g.gpu
    BY GuestForm
  <1> HIDE DEF e, v
  <1>3. CASE r.op \in {"active", "draw", "level"}
    <2>1. e.active = v.active /\ e.bind = h.bind /\ e.off = h.off /\ e.tex = h.tex
      BY <1>1, <1>2, <1>3, ExecForm DEF e
    <2> QED BY <1>1, <1>2, <1>3, <2>1 DEF Agrees, e, v
  <1>4. CASE r.op = "bind"
    <2>1. /\ e.active = h.active /\ e.bind = [h.bind EXCEPT ![h.active] = r.tex]
          /\ e.off = h.off \ {h.active} /\ e.tex = h.tex
      BY <1>4, ExecForm DEF e
    <2>2. v.bind = [g.bind EXCEPT ![h.active] = r.tex] /\ v.gpu = g.gpu /\ v.active = g.active
      BY <1>1, <1>2, <1>4
    <2>3. ASSUME NEW u \in Units \ e.off PROVE e.bind[u] = v.bind[u]
      BY <1>0, <1>1, <2>1, <2>2, <2>3 DEF Bindings
    <2> QED BY <1>1, <2>1, <2>2, <2>3 DEF Agrees, e, v
  <1>5. CASE r.op \in {"upload", "patch"}
    <2>1. e.active = h.active /\ e.bind = h.bind /\ e.off = h.off
      BY <1>5, ExecForm DEF e
    <2>2. v.active = g.active /\ v.bind = g.bind /\ v.gpu = g.gpu \ {g.bind[g.active]}
      BY <1>2, <1>5
    <2>3. ASSUME NEW t \in v.gpu PROVE e.tex[t] \in {Gpu, Other}
      <3>1. t \in g.gpu /\ t \in Names /\ t # g.bind[g.active] /\ h.tex[t] \in {Gpu, Other}
        BY <1>0, <1>1, <2>2, <2>3
      <3>2. CASE r.op = "patch"
        <4>1. e.tex = [h.tex EXCEPT ![h.bind[h.active]] = Other]
          BY <3>2, ExecForm DEF e
        <4> QED BY <1>0, <3>1, <4>1
      <3>3. CASE r.op = "upload" /\ Lands(h, r)
        <4>1. e.tex = [h.tex EXCEPT ![r.tex] = r.texels] /\ t # r.tex
          BY <3>1, <3>3, ExecForm DEF e, RequestOK, Lands
        <4> QED BY <1>0, <3>1, <4>1
      <3>4. CASE r.op = "upload" /\ ~Lands(h, r)
        <4>1. e.tex = [[h.tex EXCEPT ![h.bind[h.active]] = Other] EXCEPT ![r.tex] = Other]
          BY <3>4, ExecForm DEF e
        <4> QED BY <1>0, <3>1, <4>1
      <3> QED BY <1>5, <3>2, <3>3, <3>4
    <2> QED BY <1>1, <2>1, <2>2, <2>3 DEF Agrees, e, v
  <1>6. CASE r.op = "attach"
    <2>1. /\ e.active = h.active /\ e.bind = h.bind /\ e.off = h.off
          /\ e.tex = [h.tex EXCEPT ![r.tex] = Gpu]
      BY <1>6, ExecForm DEF e
    <2>2. v.active = g.active /\ v.bind = g.bind /\ v.gpu = g.gpu \cup {r.tex}
      BY <1>2, <1>6
    <2>3. ASSUME NEW t \in v.gpu PROVE e.tex[t] \in {Gpu, Other}
      BY <1>0, <1>1, <2>1, <2>2, <2>3
    <2> QED BY <1>1, <2>1, <2>2, <2>3 DEF Agrees, e, v
  <1>7. CASE r.op = "delete"
    <2>1. /\ e.active = h.active /\ e.bind = Without(h.bind, r.tex) /\ e.off = h.off
          /\ e.tex = [h.tex EXCEPT ![r.tex] = Undefined]
      BY <1>7, ExecForm DEF e
    <2>2. v.active = g.active /\ v.bind = Without(g.bind, r.tex) /\ v.gpu = g.gpu \ {r.tex}
      BY <1>2, <1>7
    <2>3. ASSUME NEW t \in v.gpu PROVE e.tex[t] \in {Gpu, Other}
      BY <1>0, <1>1, <2>1, <2>2, <2>3
    <2>4. ASSUME NEW u \in Units \ e.off PROVE e.bind[u] = v.bind[u]
      <3>1. h.bind[u] = g.bind[u]
        BY <1>1, <2>1, <2>4
      <3> QED BY <1>0, <2>1, <2>2, <2>4, <3>1, WithoutForm
    <2> QED BY <1>1, <2>1, <2>2, <2>3, <2>4 DEF Agrees, e, v
  <1> QED BY <1>0, <1>3, <1>4, <1>5, <1>6, <1>7 DEF Ops

(* What a request does to the content of a texture: nothing, unless it     *)
(* touches it or the content becomes nobody's; an upload leaves its texels *)
(* or nobody's; and only an upload makes a texture one of this replay.     *)
LEMMA ExecContent ==
    ASSUME NEW h \in Images, NEW r \in Requests, NEW t \in Textures
    PROVE  /\ ~Touches(r, t) => RenderExec(h, r).tex[t] \in {h.tex[t], Other}
           /\ UploadOf(r, t) => RenderExec(h, r).tex[t] \in {r.texels, Other}
           /\ t \in RenderExec(h, r).up =>
                 \/ t \in h.up /\ RenderExec(h, r).tex[t] \in {h.tex[t], Other}
                 \/ UploadOf(r, t) /\ RenderExec(h, r).tex[t] = r.texels
  <1> DEFINE e == RenderExec(h, r)
  <1>0. /\ h.tex \in [Names -> Texels] /\ h.bind[h.active] \in Names
        /\ r.op \in Ops /\ r.tex \in Names /\ t \in Names
    BY ImageForm, RequestForm, Values
  <1> HIDE DEF e
  <1>1. CASE r.op \in {"active", "bind", "draw", "level"}
    <2>1. e.tex = h.tex /\ e.up = h.up
      BY <1>1, ExecForm DEF e
    <2> QED BY <1>1, <2>1 DEF UploadOf, e
  <1>2. CASE r.op = "upload" /\ Lands(h, r)
    <2>1. e.tex = [h.tex EXCEPT ![r.tex] = r.texels] /\ e.up = h.up \cup {r.tex}
      BY <1>2, ExecForm DEF e
    <2> QED BY <1>0, <1>2, <2>1 DEF Touches, UploadOf, e
  <1>3. CASE r.op = "upload" /\ ~Lands(h, r)
    <2>1. /\ e.tex = [[h.tex EXCEPT ![h.bind[h.active]] = Other] EXCEPT ![r.tex] = Other]
          /\ e.up = h.up
      BY <1>3, ExecForm DEF e
    <2> QED BY <1>0, <1>3, <2>1 DEF UploadOf, e
  <1>4. CASE r.op = "patch"
    <2>1. e.tex = [h.tex EXCEPT ![h.bind[h.active]] = Other] /\ e.up = h.up
      BY <1>4, ExecForm DEF e
    <2> QED BY <1>0, <1>4, <2>1 DEF UploadOf, e
  <1>5. CASE r.op \in {"attach", "delete"}
    <2> DEFINE c == IF r.op = "attach" THEN Gpu ELSE Undefined
    <2>1. e.tex = [h.tex EXCEPT ![r.tex] = c] /\ e.up = h.up \ {r.tex}
      <3>1. CASE r.op = "attach"
        BY <3>1, ExecForm DEF e
      <3>2. CASE r.op = "delete"
        BY <3>2, ExecForm DEF e
      <3> QED BY <1>5, <3>1, <3>2
    <2> HIDE DEF c
    <2> QED BY <1>0, <1>5, <2>1 DEF Touches, UploadOf, e
  <1> QED BY <1>0, <1>1, <1>2, <1>3, <1>4, <1>5 DEF Ops

(* What a draw shows, if the host agrees with the guest.                   *)
Drawn(d) == (d.off \/ d.tex = d.meant) /\ (d.gpu /\ ~d.off => d.texels \in {Gpu, Other})

LEMMA ExecDraws ==
    ASSUME NEW h \in Images, NEW g \in Views, NEW r \in Requests, RequestOK(g, r), Agrees(g, h),
           NEW d \in RenderExec(h, r).drawn
    PROVE  \/ d \in h.drawn
           \/ /\ Drawn(d) /\ d.texels = h.tex[d.tex] /\ d.tex \in Names
              /\ d.due <=> d.tex \in h.up
  <1>1. r.op \in Ops /\ r.unit \in Units /\ h.bind \in Bindings
    BY ImageForm, RequestForm
  <1>2. CASE r.op # "draw"
    <2>1. RenderExec(h, r).drawn = h.drawn
      <3>1. CASE r.op = "upload"
        BY <3>1, ExecForm
      <3>2. CASE r.op # "upload"
        BY <1>1, <1>2, <3>2, ExecForm DEF Ops
      <3> QED BY <3>1, <3>2
    <2> QED BY <2>1
  <1>3. CASE r.op = "draw" /\ d \notin h.drawn
    <2>1. d = DrawOf(h, r)
      BY <1>3, ExecForm
    <2>2. /\ d.meant = r.meant /\ d.gpu = r.gpu /\ d.tex = h.bind[r.unit]
          /\ d.texels = h.tex[h.bind[r.unit]]
          /\ d.due = (h.bind[r.unit] \in h.up) /\ d.off = (r.unit \in h.off)
      BY <2>1 DEF DrawOf
    <2>3. d.tex \in Names
      BY <1>1, <2>2 DEF Bindings
    <2>4. d.off \/ d.tex = d.meant
      BY <1>1, <1>3, <2>2 DEF Agrees, RequestOK
    <2>5. d.gpu /\ ~d.off => d.texels \in {Gpu, Other}
      BY <1>1, <1>3, <2>2, <2>4 DEF Agrees, RequestOK
    <2> QED BY <2>2, <2>3, <2>4, <2>5 DEF Drawn
  <1> QED BY <1>2, <1>3

(* A queue carried out along the guest's views, from an image the guest    *)
(* agrees with.  F are textures whose every upload in the queue has the    *)
(* bytes of guest memory, K textures that the queue leaves alone and that  *)
(* have those bytes to start with.                                         *)
Fresh(t, x) == x \in {mem[t], Other}
ReplayOK(h, q, f, n, F, K, g) ==
    /\ g \in Images
    /\ Agrees(f[n + 1], g)
    /\ \A t \in Textures : (\A i \in 1..n : ~Touches(q[i], t)) => g.tex[t] \in {h.tex[t], Other}
    /\ \A t \in Textures : \A i \in 1..n :
          (UploadOf(q[i], t) /\ \A j \in 1..n : j > i => ~Touches(q[j], t))
              => g.tex[t] \in {q[i].texels, Other}
    /\ \A t \in F : t \in g.up => Fresh(t, g.tex[t])
    /\ \A d \in g.drawn : /\ Drawn(d)
                          /\ d.tex \in F /\ d.due => Fresh(d.tex, d.texels)
                          /\ d.tex \in K => Fresh(d.tex, d.texels)

LEMMA ReplayedOK ==
    ASSUME NEW h \in Images, h.drawn = {}, NEW q \in Seq(Requests), NEW f, Along(f, q),
           Agrees(f[1], h), NEW F \in SUBSET Textures, NEW K \in SUBSET Textures,
           \A t \in F : t \in h.up => Fresh(t, h.tex[t]),
           \A t \in F : \A i \in 1..Len(q) : UploadOf(q[i], t) => q[i].texels = mem[t],
           \A t \in K : Fresh(t, h.tex[t]) /\ \A i \in 1..Len(q) : ~Touches(q[i], t)
    PROVE  ReplayOK(h, q, f, Len(q), F, K, Flushed(h, q))
  <1> DEFINE im == Replayed(h, q)
             S == {n \in Nat : n <= Len(q) => ReplayOK(h, q, f, n, F, K, im[n])}
  <1>0. /\ Len(q) \in Nat /\ \A n \in 1..Len(q) : q[n] \in Requests
        /\ im[0] = h /\ \A n \in 1..Len(q) : im[n] = RenderExec(im[n - 1], q[n])
    BY ReplayedDef
  <1>f. /\ \A n \in 1..Len(q) + 1 : f[n] \in Views
        /\ \A i \in 1..Len(q) : f[i + 1] = GuestExec(f[i], q[i]) /\ RequestOK(f[i], q[i])
    BY <1>0 DEF Along
  <1> HIDE DEF im
  <1>1. 0 \in S
    <2>1. \A t \in F : t \in Textures
      OBVIOUS
    <2> QED BY <1>0 DEF ReplayOK
  <1>2. ASSUME NEW n \in Nat, n \in S PROVE n + 1 \in S
    <2>1. SUFFICES ASSUME n + 1 <= Len(q) PROVE ReplayOK(h, q, f, n + 1, F, K, im[n + 1])
      OBVIOUS
    <2> DEFINE m == n + 1
               g == im[n]
               e == im[m]
               r == q[m]
    <2>2. /\ m \in 1..Len(q) /\ m - 1 = n /\ n <= Len(q) /\ m \in 1..m /\ m \in Nat
          /\ \A i \in 1..m : i \in 1..n \/ i = m
          /\ \A i \in 1..n : i \in 1..m /\ m > i
          /\ m \in 1..Len(q) + 1
          /\ \A i \in 1..n : i \in 1..Len(q)
      BY <1>0, <2>1
    <2>3. e = RenderExec(g, r) /\ r \in Requests /\ f[m] \in Views
          /\ f[m + 1] = GuestExec(f[m], r) /\ RequestOK(f[m], r)
      BY <1>0, <1>f, <2>2
    <2>4. ReplayOK(h, q, f, n, F, K, g)
      BY <1>2, <2>2
    <2> HIDE DEF m, g, e, r
    <2>5. g \in Images /\ Agrees(f[m], g)
      BY <2>4 DEF ReplayOK, m
    <2>6. e \in Images /\ Agrees(f[m + 1], e)
      BY <2>3, <2>5, ExecTyped, ExecAgrees
    <2>7. ASSUME NEW t \in Textures
          PROVE  /\ ~Touches(r, t) => e.tex[t] \in {g.tex[t], Other}
                 /\ UploadOf(r, t) => e.tex[t] \in {r.texels, Other}
                 /\ t \in e.up => \/ t \in g.up /\ e.tex[t] \in {g.tex[t], Other}
                                  \/ UploadOf(r, t) /\ e.tex[t] = r.texels
      BY <2>3, <2>5, ExecContent
    <2>8. ASSUME NEW t \in Textures, \A i \in 1..m : ~Touches(q[i], t)
          PROVE  e.tex[t] \in {h.tex[t], Other}
      <3>1. g.tex[t] \in {h.tex[t], Other}
        BY <2>2, <2>4, <2>8 DEF ReplayOK
      <3>2. ~Touches(r, t)
        BY <2>2, <2>8 DEF r
      <3> QED BY <2>7, <3>1, <3>2
    <2>9. ASSUME NEW t \in Textures, NEW i \in 1..m, UploadOf(q[i], t),
                 \A j \in 1..m : j > i => ~Touches(q[j], t)
          PROVE  e.tex[t] \in {q[i].texels, Other}
      <3>1. CASE i = m
        BY <2>7, <2>9, <3>1 DEF r
      <3>2. CASE i \in 1..n
        <4>1. \A j \in 1..n : j > i => ~Touches(q[j], t)
          BY <2>2, <2>9
        <4>2. g.tex[t] \in {q[i].texels, Other}
          BY <2>4, <2>9, <3>2, <4>1 DEF ReplayOK
        <4>3. ~Touches(r, t)
          BY <2>2, <2>9, <3>2 DEF r
        <4> QED BY <2>7, <4>2, <4>3
      <3> QED BY <2>2, <3>1, <3>2
    <2>10. ASSUME NEW t \in F, t \in e.up PROVE Fresh(t, e.tex[t])
      <3>1. CASE t \in g.up /\ e.tex[t] \in {g.tex[t], Other}
        BY <2>4, <3>1 DEF ReplayOK, Fresh
      <3>2. CASE UploadOf(r, t) /\ e.tex[t] = r.texels
        <4>1. r.texels = mem[t]
          BY <2>2, <3>2 DEF r
        <4> QED BY <3>2, <4>1 DEF Fresh
      <3> QED BY <2>7, <2>10, <3>1, <3>2
    <2>11. ASSUME NEW d \in e.drawn
           PROVE  /\ Drawn(d)
                  /\ d.tex \in F /\ d.due => Fresh(d.tex, d.texels)
                  /\ d.tex \in K => Fresh(d.tex, d.texels)
      <3>1. CASE d \in g.drawn
        BY <2>4, <3>1 DEF ReplayOK
      <3>2. CASE d \notin g.drawn
        <4>1. Drawn(d) /\ d.texels = g.tex[d.tex] /\ (d.due <=> d.tex \in g.up)
          BY <2>3, <2>5, <2>11, <3>2, ExecDraws
        <4>2. d.tex \in F /\ d.due => Fresh(d.tex, d.texels)
          BY <2>4, <4>1 DEF ReplayOK
        <4>3. ASSUME d.tex \in K PROVE Fresh(d.tex, d.texels)
          <5>1. \A i \in 1..n : ~Touches(q[i], d.tex)
            BY <2>2, <4>3
          <5>2. g.tex[d.tex] \in {h.tex[d.tex], Other}
            BY <2>4, <4>3, <5>1 DEF ReplayOK
          <5> QED BY <4>1, <4>3, <5>2 DEF Fresh
        <4> QED BY <4>1, <4>2, <4>3
      <3> QED BY <3>1, <3>2
    <2> QED BY <2>6, <2>8, <2>9, <2>10, <2>11 DEF ReplayOK, m, e
  <1>3. \A n \in Nat : n \in S
    <2> HIDE DEF S
    <2> QED BY <1>1, <1>2, NatInductionSet
  <1> QED BY <1>0, <1>3 DEF Flushed, im

(* An empty queue changes nothing.                                         *)
LEMMA FlushedEmpty ==
    ASSUME NEW h
    PROVE  Flushed(h, << >>) = h
  BY ReplayedDef DEF Flushed
-----------------------------------------------------------------------------
(* sync_large_textures.                                                    *)
LEMMA HostTyped ==
    ASSUME GlFrameTypeOK
    PROVE  /\ Host \in Images
           /\ Host.active = host.active /\ Host.bind = host.bind /\ Host.off = host.off
           /\ Host.tex = host.tex /\ Host.up = {} /\ Host.drawn = {}
  BY DEF GlFrameTypeOK, Host, Images

(* A queue of three requests.                                              *)
LEMMA ReplayedThree ==
    ASSUME NEW h, NEW q, Len(q) = 3
    PROVE  /\ Replayed(h, q)[0] = h
           /\ Replayed(h, q)[1] = RenderExec(Replayed(h, q)[0], q[1])
           /\ Replayed(h, q)[2] = RenderExec(Replayed(h, q)[1], q[2])
           /\ Replayed(h, q)[3] = RenderExec(Replayed(h, q)[2], q[3])
  <1>1. /\ \A n \in 1..3 : Replayed(h, q)[n] = RenderExec(Replayed(h, q)[n - 1], q[n])
        /\ Replayed(h, q)[0] = h
    BY ReplayedDef
  <1>2. 1 \in 1..3 /\ 2 \in 1..3 /\ 3 \in 1..3 /\ 1 - 1 = 0 /\ 2 - 1 = 1 /\ 3 - 1 = 2
    OBVIOUS
  <1> QED BY <1>1, <1>2

(* The image after one re-upload: its texture has the bytes of guest       *)
(* memory, the active unit the binding of the last swap.                   *)
Again(h, t) ==
    [active |-> h.active, bind |-> [h.bind EXCEPT ![h.active] = bound_at_swap],
     off |-> h.off \ {h.active}, tex |-> [h.tex EXCEPT ![t] = mem[t]],
     up |-> h.up \cup {t}, drawn |-> h.drawn]

(* That is what the three requests of a re-upload lead to.                 *)
LEMMA ReuploadEffect ==
    ASSUME GlFrameTypeOK, NEW h \in Images, NEW t \in Textures
    PROVE  Flushed(h, Reupload(t)) = Again(h, t) /\ Again(h, t) \in Images
  <1> DEFINE q == Reupload(t)
             b1 == [h.bind EXCEPT ![h.active] = t]
             b3 == [h.bind EXCEPT ![h.active] = bound_at_swap]
             o == h.off \ {h.active}
             x == [h.tex EXCEPT ![t] = mem[t]]
             h1 == [active |-> h.active, bind |-> b1, off |-> o, tex |-> h.tex,
                    up |-> h.up, drawn |-> h.drawn]
             h2 == [active |-> h.active, bind |-> b1, off |-> o, tex |-> x,
                    up |-> h.up \cup {t}, drawn |-> h.drawn]
             h3 == [active |-> h.active, bind |-> b3, off |-> o, tex |-> x,
                    up |-> h.up \cup {t}, drawn |-> h.drawn]
  <1>0. /\ h.active \in Units /\ h.bind \in Bindings /\ h.off \in SUBSET Units
        /\ h.tex \in [Names -> Texels]
        /\ t \in Names /\ mem[t] \in Bytes /\ mem[t] \in Texels /\ bound_at_swap \in Names
    BY ImageForm, Values DEF GlFrameTypeOK
  <1>1. /\ Len(q) = 3
        /\ q[1] = Request("bind", t)
        /\ q[2] = Upload(t, mem[t], t)
        /\ q[3] = Request("bind", bound_at_swap)
    BY DEF Reupload
  <1>2. /\ q[1] \in Requests /\ q[1].op = "bind" /\ q[1].tex = t
        /\ q[2] \in Requests /\ q[2].op = "upload" /\ q[2].tex = t /\ q[2].texels = mem[t]
        /\ q[2].meant = t
        /\ q[3] \in Requests /\ q[3].op = "bind" /\ q[3].tex = bound_at_swap
    BY <1>0, <1>1, Values DEF Request, Upload, Requests, Ops
  <1> HIDE DEF q
  <1>3. /\ Replayed(h, q)[0] = h
        /\ Replayed(h, q)[1] = RenderExec(Replayed(h, q)[0], q[1])
        /\ Replayed(h, q)[2] = RenderExec(Replayed(h, q)[1], q[2])
        /\ Replayed(h, q)[3] = RenderExec(Replayed(h, q)[2], q[3])
    BY <1>1, ReplayedThree
  <1>4. b1 \in Bindings /\ b1[h.active] = t /\ [b1 EXCEPT ![h.active] = bound_at_swap] = b3
    BY <1>0 DEF Bindings
  <1>5. o \ {h.active} = o
    OBVIOUS
  <1>6. Replayed(h, q)[1] = h1 /\ h1 \in Images
    <2>1. RenderExec(h, q[1]) = h1
      BY <1>2, ExecForm
    <2> QED BY <1>2, <1>3, <2>1, ExecTyped
  <1>7. /\ h1.active = h.active /\ h1.bind = b1 /\ h1.off = o /\ h1.tex = h.tex
        /\ h1.up = h.up /\ h1.drawn = h.drawn
    OBVIOUS
  <1>8. /\ h2.active = h.active /\ h2.bind = b1 /\ h2.off = o /\ h2.tex = x
        /\ h2.up = h.up \cup {t} /\ h2.drawn = h.drawn
    OBVIOUS
  <1>9. h2 = [active |-> h1.active, bind |-> h1.bind, off |-> h1.off,
              tex |-> [h1.tex EXCEPT ![q[2].tex] = q[2].texels],
              up |-> h1.up \cup {q[2].tex}, drawn |-> h1.drawn]
    BY <1>2
  <1>10. h3 = [active |-> h2.active, bind |-> [h2.bind EXCEPT ![h2.active] = bound_at_swap],
              off |-> h2.off \ {h2.active}, tex |-> h2.tex, up |-> h2.up, drawn |-> h2.drawn]
    BY <1>4, <1>5
  <1>11. h3 = Again(h, t)
    BY DEF Again
  <1> HIDE DEF h1, h2, h3, b1, b3, o, x
  <1>12. Replayed(h, q)[2] = h2 /\ h2 \in Images
    <2>1. Lands(h1, q[2])
      BY <1>2, <1>4, <1>7 DEF Lands
    <2>2. RenderExec(h1, q[2]) = h2
      BY <1>2, <1>6, <1>9, <2>1, ExecForm
    <2> QED BY <1>2, <1>3, <1>6, <2>2, ExecTyped
  <1>13. RenderExec(h2, q[3]) = h3
    BY <1>2, <1>10, <1>12, ExecForm
  <1>14. h3 \in Images
    BY <1>2, <1>12, <1>13, ExecTyped
  <1> QED BY <1>1, <1>3, <1>11, <1>12, <1>13, <1>14 DEF Flushed, q

(* All of them.                                                            *)
LEMMA ReuploadsEffect ==
    ASSUME GlFrameTypeOK, NEW order \in Orders(Resynced)
    PROVE  LET s == Reuploaded(order)[Len(order)] IN
           /\ s \in Images /\ s.drawn = {} /\ s.up \subseteq Resynced
           /\ s.active = host.active
           /\ s.bind = IF Resynced = {} THEN host.bind
                       ELSE [host.bind EXCEPT ![host.active] = bound_at_swap]
           /\ \A t \in Names : s.tex[t] = IF t \in Resynced THEN mem[t] ELSE host.tex[t]
  <1>0. /\ Len(order) \in Nat
        /\ \A n \in 1..Len(order) : order[n] \in Resynced
        /\ \A t \in Resynced : \E n \in 1..Len(order) : order[n] = t
    <2>1. Resynced \in SUBSET Textures
      BY DEF Resynced
    <2>2. Cardinality(Resynced) \in Nat
      BY <2>1, GlFrameAssumption, FS_Subset, FS_CardinalityType
    <2>3. order \in [1..Cardinality(Resynced) -> Resynced]
      BY DEF Orders
    <2>4. order \in Seq(Resynced)
      BY <2>2, <2>3, SeqDef
    <2>5. /\ Len(order) \in Nat /\ DOMAIN order = 1..Len(order)
          /\ \A n \in 1..Len(order) : order[n] \in Resynced
      BY <2>4, LenProperties
    <2> QED BY <2>5 DEF Orders
  <1>h. host.active \in Units /\ host.bind \in Bindings
    BY DEF GlFrameTypeOK
  <1> DEFINE Done(n) == {order[i] : i \in 1..n}
             back == [host.bind EXCEPT ![host.active] = bound_at_swap]
             OK(n, s) ==
                /\ s \in Images /\ s.drawn = {} /\ s.up \subseteq Done(n)
                /\ s.active = host.active
                /\ s.bind = IF n = 0 THEN host.bind ELSE back
                /\ \A t \in Names : s.tex[t] = IF t \in Done(n) THEN mem[t] ELSE host.tex[t]
             S == {n \in Nat : n <= Len(order) => OK(n, Reuploaded(order)[n])}
  <1>1. 0 \in S
    <2>1. Reuploaded(order)[0] = Host
      BY <1>0, ReuploadedDef
    <2>2. Done(0) = {}
      OBVIOUS
    <2> QED BY <2>1, <2>2, HostTyped
  <1>2. ASSUME NEW n \in Nat, n \in S PROVE n + 1 \in S
    <2>1. SUFFICES ASSUME n + 1 <= Len(order) PROVE OK(n + 1, Reuploaded(order)[n + 1])
      OBVIOUS
    <2> DEFINE s == Reuploaded(order)[n]
               u == Reuploaded(order)[n + 1]
               t == order[n + 1]
    <2>2. n + 1 \in 1..Len(order) /\ (n + 1) - 1 = n /\ n <= Len(order) /\ n + 1 # 0
      BY <1>0, <2>1
    <2>3. u = Flushed(s, Reupload(t))
      BY <1>0, <2>2, ReuploadedDef
    <2>4. OK(n, s)
      BY <1>2, <2>2
    <2>5. t \in Textures
      BY <1>0, <2>2 DEF Resynced
    <2>6. Done(n + 1) = Done(n) \cup {t}
      OBVIOUS
    <2>7. [(IF n = 0 THEN host.bind ELSE back) EXCEPT ![host.active] = bound_at_swap] = back
      BY <1>h DEF Bindings
    <2> HIDE DEF Done, s, u, t, back
    <2>8. u = Again(s, t) /\ u \in Images
      BY <2>3, <2>4, <2>5, ReuploadEffect
    <2>9. /\ u.active = s.active /\ u.bind = [s.bind EXCEPT ![s.active] = bound_at_swap]
          /\ u.tex = [s.tex EXCEPT ![t] = mem[t]]
          /\ u.up = s.up \cup {t} /\ u.drawn = s.drawn
      BY <2>8 DEF Again
    <2>10. s.tex \in [Names -> Texels]
      BY <2>4, ImageForm
    <2>11. \A x \in Names : u.tex[x] = IF x \in Done(n + 1) THEN mem[x] ELSE host.tex[x]
      BY <2>4, <2>6, <2>9, <2>10
    <2>12. u.bind = back
      BY <2>4, <2>7, <2>9
    <2> QED BY <2>2, <2>4, <2>6, <2>8, <2>9, <2>11, <2>12 DEF u
  <1>3. OK(Len(order), Reuploaded(order)[Len(order)])
    <2>1. \A n \in Nat : n \in S
      <3> HIDE DEF S
      <3> QED BY <1>1, <1>2, NatInductionSet
    <2> QED BY <1>0, <2>1
  <1>4. Done(Len(order)) = Resynced
    BY <1>0
  <1>5. Len(order) = 0 <=> Resynced = {}
    BY <1>0
  <1> HIDE DEF Done
  <1> QED BY <1>3, <1>4, <1>5

(* The first loop changes only the texels of queued uploads.               *)
LEMMA RereadForm ==
    ASSUME GlFrameTypeOK, NEW r \in Requests
    PROVE  /\ Reread(r) \in Requests
           /\ Reread(r).op = r.op /\ Reread(r).tex = r.tex /\ Reread(r).unit = r.unit
           /\ Reread(r).meant = r.meant /\ Reread(r).gpu = r.gpu
           /\ r.op = "upload" /\ Tracked(r.tex) => Reread(r).texels = mem[r.tex]
  <1>1. CASE r.op = "upload" /\ Tracked(r.tex)
    <2>1. Reread(r) = [r EXCEPT !.texels = mem[r.tex]]
      BY <1>1 DEF Reread
    <2>2. r.tex \in Textures /\ mem[r.tex] \in Bytes /\ mem[r.tex] \in Texels
      BY <1>1, RequestForm, Values DEF GlFrameTypeOK
    <2>3. r = [op |-> r.op, tex |-> r.tex, unit |-> r.unit, texels |-> r.texels,
               meant |-> r.meant, gpu |-> r.gpu]
      BY DEF Requests
    <2>4. Reread(r) = [op |-> r.op, tex |-> r.tex, unit |-> r.unit, texels |-> mem[r.tex],
                       meant |-> r.meant, gpu |-> r.gpu]
      BY <2>1, <2>3
    <2> QED BY <1>1, <2>2, <2>4, RequestForm DEF Requests
  <1>2. CASE ~(r.op = "upload" /\ Tracked(r.tex))
    BY <1>2 DEF Reread
  <1> QED BY <1>1, <1>2

(* The queue after the first loop of sync_large_textures.                  *)
Rereads == [i \in DOMAIN frame_q |-> Reread(frame_q[i])]

(* An interval from 1 determines its length.                               *)
LEMMA IntervalLength ==
    ASSUME NEW a \in Nat, NEW b \in Nat, 1..a = 1..b
    PROVE  a = b
  <1>1. ASSUME a > b PROVE FALSE
    <2>1. a \in 1..a
      BY <1>1
    <2> QED BY <1>1, <2>1
  <1>2. ASSUME b > a PROVE FALSE
    <2>1. b \in 1..b
      BY <1>2
    <2> QED BY <1>2, <2>1
  <1> QED BY <1>1, <1>2

(* The reread queue is a queue of the same length.                         *)
LEMMA RereadsTyped ==
    ASSUME GlFrameTypeOK
    PROVE  /\ Rereads \in Seq(Requests) /\ Len(Rereads) = Len(frame_q) /\ Len(frame_q) \in Nat
           /\ \A i \in 1..Len(frame_q) : Rereads[i] = Reread(frame_q[i]) /\ frame_q[i] \in Requests
  <1>1. frame_q \in Seq(Requests)
    BY DEF GlFrameTypeOK
  <1>2. /\ Len(frame_q) \in Nat /\ DOMAIN frame_q = 1..Len(frame_q)
        /\ \A i \in 1..Len(frame_q) : frame_q[i] \in Requests
    BY <1>1, LenProperties
  <1>3. Rereads = [i \in 1..Len(frame_q) |-> Reread(frame_q[i])]
    BY <1>2 DEF Rereads
  <1>4. Rereads \in [1..Len(frame_q) -> Requests]
    BY <1>2, <1>3, RereadForm
  <1>5. Rereads \in Seq(Requests)
    BY <1>2, <1>4, SeqDef
  <1>6. Len(Rereads) \in Nat /\ DOMAIN Rereads = 1..Len(Rereads)
    BY <1>5, LenProperties
  <1>7. Len(Rereads) = Len(frame_q)
    <2>1. 1..Len(Rereads) = 1..Len(frame_q)
      BY <1>3, <1>6
    <2> QED BY <1>2, <1>6, <2>1, IntervalLength, Zenon
  <1> QED BY <1>2, <1>3, <1>5, <1>7

(* It leads along the same views of the guest.                             *)
LEMMA RereadsAlong ==
    ASSUME GlFrameTypeOK, NEW f, Along(f, frame_q)
    PROVE  Along(f, Rereads)
  <1>1. f \in Seq(Views) /\ Len(f) = Len(Rereads) + 1 /\ Len(Rereads) = Len(frame_q)
    BY RereadsTyped DEF Along
  <1>2. ASSUME NEW i \in 1..Len(frame_q)
        PROVE  f[i + 1] = GuestExec(f[i], Rereads[i]) /\ RequestOK(f[i], Rereads[i])
    <2> DEFINE r == frame_q[i]
               p == Rereads[i]
    <2>1. p = Reread(r) /\ r \in Requests
      BY RereadsTyped
    <2>2. f[i + 1] = GuestExec(f[i], r) /\ RequestOK(f[i], r)
      BY DEF Along
    <2> HIDE DEF r, p
    <2>3. /\ p.op = r.op /\ p.tex = r.tex /\ p.unit = r.unit /\ p.meant = r.meant
          /\ p.gpu = r.gpu
      BY <2>1, RereadForm
    <2>4. GuestExec(f[i], p) = GuestExec(f[i], r)
      BY <2>3, Zenon DEF GuestExec
    <2>5. RequestOK(f[i], p)
      BY <2>2, <2>3 DEF RequestOK
    <2> QED BY <2>2, <2>4, <2>5 DEF p
  <1> QED BY <1>1, <1>2 DEF Along
-----------------------------------------------------------------------------
(* The calls that queue a request.  The conditions are on what the hooks   *)
(* remember: they know of the GPU's textures, and a texture that is        *)
(* tracked after the call was so before or is uploaded by it.              *)
Remembered(r) ==
    /\ texsrcs' \in [Textures -> Sources]
    /\ gpu_textures' \in SUBSET Textures
    /\ bound_texture' \in Names
    /\ view'.gpu \subseteq gpu_textures'
    /\ \A t \in gpu_textures : t \in gpu_textures' \/ (r.op = "delete" /\ r.tex = t)
    /\ \A t \in Textures : Tracked(t)' =>
          \/ UploadOf(r, t) /\ r.texels = texsrcs'[t].hash
          \/ Tracked(t) /\ ~Touches(r, t) /\ texsrcs'[t].hash = texsrcs[t].hash

LEMMA PushInv ==
    ASSUME FrameInv, NEW r \in Requests, Push(r), RequestOK(view, r), Remembered(r)
    PROVE  FrameInv'
  <1> DEFINE N == Len(frame_q)
  <1>0. /\ frame_q \in Seq(Requests) /\ N \in Nat
        /\ frame_q' = Append(frame_q, r) /\ view' = GuestExec(view, r) /\ drawn' = {}
        /\ host' = host /\ mem' = mem /\ resync' = resync /\ bound_at_swap' = bound_at_swap
        /\ view \in Views
    BY DEF FrameInv, GlFrameTypeOK, Push
  <1>1. /\ frame_q' \in Seq(Requests) /\ Len(frame_q') = N + 1
        /\ \A i \in 1..N : frame_q'[i] = frame_q[i]
        /\ frame_q'[N + 1] = r
    BY <1>0
  <1>2. view' \in Views
    BY <1>0, GuestForm
  <1>3. GlFrameTypeOK'
    BY <1>0, <1>1, <1>2 DEF FrameInv, GlFrameTypeOK, Remembered
  <1>4. TrailOK'
    <2>1. PICK f : /\ Along(f, frame_q) /\ Agrees(f[1], Host) /\ f[N + 1] = view
                   /\ \A t \in f[1].gpu : t \in gpu_textures \/ \E i \in 1..N :
                                             frame_q[i].op = "delete" /\ frame_q[i].tex = t
      BY DEF FrameInv, TrailOK
    <2> DEFINE g == Append(f, view')
    <2>2. /\ f \in Seq(Views) /\ Len(f) = N + 1
          /\ \A i \in 1..N : f[i + 1] = GuestExec(f[i], frame_q[i]) /\ RequestOK(f[i], frame_q[i])
      BY <2>1 DEF Along
    <2>3. /\ g \in Seq(Views) /\ Len(g) = N + 2
          /\ \A i \in 1..N + 1 : g[i] = f[i]
          /\ g[N + 2] = view'
      BY <1>0, <1>2, <2>2
    <2> HIDE DEF g
    <2>4. ASSUME NEW i \in 1..N + 1
          PROVE  g[i + 1] = GuestExec(g[i], frame_q'[i]) /\ RequestOK(g[i], frame_q'[i])
      <3>1. CASE i = N + 1
        <4>1. g[i + 1] = view' /\ g[i] = view /\ frame_q'[i] = r
          BY <1>0, <1>1, <2>1, <2>3, <3>1
        <4> QED BY <1>0, <4>1
      <3>2. CASE i \in 1..N
        <4>1. g[i + 1] = f[i + 1] /\ g[i] = f[i] /\ frame_q'[i] = frame_q[i]
          BY <1>0, <1>1, <2>3, <3>2
        <4> QED BY <2>2, <3>2, <4>1
      <3> QED BY <1>0, <3>1, <3>2
    <2>5. Along(g, frame_q')
      BY <1>0, <1>1, <2>3, <2>4 DEF Along
    <2>6. Agrees(g[1], Host')
      <3>1. g[1] = f[1] /\ Host' = Host
        BY <1>0, <2>3 DEF Host
      <3> QED BY <2>1, <3>1
    <2>7. g[Len(frame_q') + 1] = view'
      BY <1>0, <1>1, <2>3
    <2>8. ASSUME NEW t \in g[1].gpu
          PROVE  t \in gpu_textures' \/ \E i \in 1..Len(frame_q') :
                                           frame_q'[i].op = "delete" /\ frame_q'[i].tex = t
      <3>1. t \in f[1].gpu
        BY <1>0, <2>3
      <3>2. CASE t \in gpu_textures
        <4>1. t \in gpu_textures' \/ (r.op = "delete" /\ r.tex = t)
          BY <3>2 DEF Remembered
        <4>2. N + 1 \in 1..Len(frame_q')
          BY <1>0, <1>1
        <4> QED BY <1>1, <4>1, <4>2
      <3>3. CASE t \notin gpu_textures
        <4>1. PICK i \in 1..N : frame_q[i].op = "delete" /\ frame_q[i].tex = t
          BY <2>1, <3>1, <3>3
        <4>2. i \in 1..Len(frame_q') /\ frame_q'[i] = frame_q[i]
          BY <1>0, <1>1
        <4> QED BY <4>1, <4>2
      <3> QED BY <3>2, <3>3
    <2> QED BY <2>5, <2>6, <2>7, <2>8 DEF TrailOK
  <1>5. ViewOK'
    BY DEF ViewOK, Remembered
  <1>6. HashOK'
    <2>1. SUFFICES ASSUME NEW t \in Textures, Tracked(t)'
                   PROVE  \/ /\ \A i \in 1..N + 1 : ~Touches(frame_q'[i], t)
                             /\ texsrcs'[t].hash # Level => host.tex[t] \in {texsrcs'[t].hash, Other}
                          \/ \E i \in 1..N + 1 :
                                /\ UploadOf(frame_q'[i], t) /\ frame_q'[i].texels = texsrcs'[t].hash
                                /\ \A j \in 1..N + 1 : j > i => ~Touches(frame_q'[j], t)
      BY <1>0, <1>1 DEF HashOK
    <2>2. CASE UploadOf(r, t) /\ r.texels = texsrcs'[t].hash
      <3>1. N + 1 \in 1..N + 1 /\ \A j \in 1..N + 1 : ~(j > N + 1)
        BY <1>0
      <3> QED BY <1>1, <2>2, <3>1
    <2>3. CASE Tracked(t) /\ ~Touches(r, t) /\ texsrcs'[t].hash = texsrcs[t].hash
      <3>1. CASE /\ \A i \in 1..N : ~Touches(frame_q[i], t)
                 /\ texsrcs[t].hash # Level => host.tex[t] \in {texsrcs[t].hash, Other}
        <4>1. ASSUME NEW i \in 1..N + 1 PROVE ~Touches(frame_q'[i], t)
          <5>1. i = N + 1 \/ i \in 1..N
            BY <1>0
          <5> QED BY <1>1, <2>3, <3>1, <5>1
        <4> QED BY <2>3, <3>1, <4>1
      <3>2. CASE \E i \in 1..N :
                    /\ UploadOf(frame_q[i], t) /\ frame_q[i].texels = texsrcs[t].hash
                    /\ \A j \in 1..N : j > i => ~Touches(frame_q[j], t)
        <4>1. PICK i \in 1..N : /\ UploadOf(frame_q[i], t) /\ frame_q[i].texels = texsrcs[t].hash
                                /\ \A j \in 1..N : j > i => ~Touches(frame_q[j], t)
          BY <3>2
        <4>2. i \in 1..N + 1 /\ frame_q'[i] = frame_q[i]
          BY <1>0, <1>1
        <4>3. ASSUME NEW j \in 1..N + 1, j > i PROVE ~Touches(frame_q'[j], t)
          <5>1. j = N + 1 \/ j \in 1..N
            BY <1>0
          <5> QED BY <1>1, <2>3, <4>1, <4>3, <5>1
        <4> QED BY <2>3, <4>1, <4>2, <4>3
      <3> QED BY <2>3, <3>1, <3>2 DEF FrameInv, HashOK
    <2> QED BY <2>1, <2>2, <2>3 DEF Remembered
  <1>7. FreshAtSwap' /\ DrawBinding' /\ GpuKept'
    BY <1>0 DEF FreshAtSwap, DrawBinding, GpuKept
  <1> QED BY <1>3, <1>4, <1>5, <1>6, <1>7 DEF FrameInv

(* The requests of the calls that leave the hooks' memory alone, or change *)
(* only the binding.                                                       *)
LEMMA PlainPush ==
    ASSUME FrameInv, NEW r \in Requests, Push(r), RequestOK(view, r),
           r.op \in {"active", "bind", "level", "patch", "draw"},
           texsrcs' = texsrcs, gpu_textures' = gpu_textures, bound_texture' \in Names
    PROVE  FrameInv'
  <1>1. view' = GuestExec(view, r) /\ view \in Views
    BY DEF Push, FrameInv, GlFrameTypeOK
  <1>2. view'.gpu \subseteq view.gpu
    BY <1>1, GuestForm
  <1>3. Remembered(r)
    BY <1>2 DEF Remembered, FrameInv, GlFrameTypeOK, ViewOK, Touches, Tracked
  <1> QED BY <1>3, PushInv

(* The requests the calls make.                                            *)
LEMMA RequestsTyped ==
    /\ \A op \in {"bind", "level", "delete"} : \A t \in Names :
          /\ Request(op, t) \in Requests
          /\ Request(op, t).op = op /\ Request(op, t).tex = t
    /\ Request("patch", NoTexture) \in Requests /\ Request("patch", NoTexture).op = "patch"
    /\ \A t \in Textures : /\ Request("attach", t) \in Requests
                           /\ Request("attach", t).op = "attach" /\ Request("attach", t).tex = t
    /\ \A u \in Units : Activate(u) \in Requests /\ Activate(u).op = "active"
    /\ \A t \in Textures : \A texels \in Bytes : \A meant \in Names :
          /\ Upload(t, texels, meant) \in Requests
          /\ Upload(t, texels, meant).op = "upload" /\ Upload(t, texels, meant).tex = t
          /\ Upload(t, texels, meant).texels = texels /\ Upload(t, texels, meant).meant = meant
    /\ \A u \in Units : \A meant \in Names : \A gpu \in BOOLEAN :
          /\ DrawWith(u, meant, gpu) \in Requests
          /\ DrawWith(u, meant, gpu).op = "draw" /\ DrawWith(u, meant, gpu).unit = u
          /\ DrawWith(u, meant, gpu).meant = meant /\ DrawWith(u, meant, gpu).gpu = gpu
  <1>0. /\ NoTexture \in Names /\ 0 \in Units /\ Undefined \in Texels /\ Bytes \subseteq Texels
        /\ Textures \subseteq Names
    BY Values
  <1>1. ASSUME NEW op \in {"bind", "level", "delete"}, NEW t \in Names
        PROVE  /\ Request(op, t) \in Requests
               /\ Request(op, t).op = op /\ Request(op, t).tex = t
    BY <1>0 DEF Request, Requests, Ops
  <1>2. Request("patch", NoTexture) \in Requests /\ Request("patch", NoTexture).op = "patch"
    BY <1>0 DEF Request, Requests, Ops
  <1>3. ASSUME NEW t \in Textures
        PROVE  /\ Request("attach", t) \in Requests
               /\ Request("attach", t).op = "attach" /\ Request("attach", t).tex = t
    BY <1>0 DEF Request, Requests, Ops
  <1>4. ASSUME NEW u \in Units PROVE Activate(u) \in Requests /\ Activate(u).op = "active"
    BY <1>0 DEF Activate, Requests, Ops
  <1>5. ASSUME NEW t \in Textures, NEW texels \in Bytes, NEW meant \in Names
        PROVE  /\ Upload(t, texels, meant) \in Requests
               /\ Upload(t, texels, meant).op = "upload" /\ Upload(t, texels, meant).tex = t
               /\ Upload(t, texels, meant).texels = texels /\ Upload(t, texels, meant).meant = meant
    BY <1>0 DEF Upload, Requests, Ops
  <1>6. ASSUME NEW u \in Units, NEW meant \in Names, NEW gpu \in BOOLEAN
        PROVE  /\ DrawWith(u, meant, gpu) \in Requests
               /\ DrawWith(u, meant, gpu).op = "draw" /\ DrawWith(u, meant, gpu).unit = u
               /\ DrawWith(u, meant, gpu).meant = meant /\ DrawWith(u, meant, gpu).gpu = gpu
    BY <1>0 DEF DrawWith, Requests, Ops
  <1> QED BY <1>1, <1>2, <1>3, <1>4, <1>5, <1>6

LEMMA ActiveTextureInv ==
    ASSUME FrameInv, NEW u \in Units, ActiveTexture(u)
    PROVE  FrameInv'
  <1>1. Activate(u) \in Requests /\ Activate(u).op = "active"
    BY RequestsTyped
  <1>2. RequestOK(view, Activate(u))
    BY <1>1 DEF RequestOK
  <1> QED BY <1>1, <1>2, PlainPush DEF ActiveTexture, FrameInv, GlFrameTypeOK

LEMMA BindTextureInv ==
    ASSUME FrameInv, NEW t \in Names, BindTexture(t)
    PROVE  FrameInv'
  <1>1. Request("bind", t) \in Requests /\ Request("bind", t).op = "bind"
    BY RequestsTyped
  <1>2. RequestOK(view, Request("bind", t))
    BY <1>1 DEF RequestOK
  <1> QED BY <1>1, <1>2, PlainPush DEF BindTexture

LEMMA TexImageLevelInv ==
    ASSUME FrameInv, TexImageLevel
    PROVE  FrameInv'
  <1>0. bound_texture \in Names
    BY DEF FrameInv, GlFrameTypeOK
  <1>1. /\ Request("level", bound_texture) \in Requests
        /\ Request("level", bound_texture).op = "level"
    BY <1>0, RequestsTyped
  <1>2. RequestOK(view, Request("level", bound_texture))
    BY <1>1 DEF RequestOK
  <1> QED BY <1>0, <1>1, <1>2, PlainPush DEF TexImageLevel

LEMMA OtherUploadInv ==
    ASSUME FrameInv, OtherUpload
    PROVE  FrameInv'
  <1>1. Request("patch", NoTexture) \in Requests /\ Request("patch", NoTexture).op = "patch"
    BY RequestsTyped
  <1>2. RequestOK(view, Request("patch", NoTexture))
    BY <1>1 DEF RequestOK
  <1> QED BY <1>1, <1>2, PlainPush DEF OtherUpload, FrameInv, GlFrameTypeOK

LEMMA DrawInv ==
    ASSUME FrameInv, NEW u \in Units, Draw(u)
    PROVE  FrameInv'
  <1>0. view.bind[u] \in Names
    BY DEF FrameInv, GlFrameTypeOK, Views, Bindings
  <1>1. ASSUME NEW meant, meant = view.bind[u],
               NEW gpu \in BOOLEAN, gpu => view.bind[u] \in view.gpu,
               Push(DrawWith(u, meant, gpu)), texsrcs' = texsrcs,
               gpu_textures' = gpu_textures, bound_texture' = bound_texture
        PROVE  FrameInv'
    <2> DEFINE r == DrawWith(u, meant, gpu)
    <2>1. /\ r \in Requests /\ r.op = "draw" /\ r.unit = u /\ r.meant = meant /\ r.gpu = gpu
      BY <1>0, <1>1, RequestsTyped
    <2>2. RequestOK(view, r)
      BY <1>1, <2>1 DEF RequestOK
    <2>3. bound_texture' \in Names
      BY <1>1 DEF FrameInv, GlFrameTypeOK
    <2> QED BY <1>1, <2>1, <2>2, <2>3, PlainPush
  <1>2. /\ Push(DrawWith(u, view.bind[u], view.bind[u] \in view.gpu))
        /\ texsrcs' = texsrcs /\ gpu_textures' = gpu_textures
        /\ bound_texture' = bound_texture
    BY Zenon DEF Draw
  <1>3. (view.bind[u] \in view.gpu) \in BOOLEAN
    OBVIOUS
  <1> QED BY <1>1, <1>2, <1>3, Zenon

(* The calls that change what the hooks remember of a texture.             *)
LEMMA TexImage2DInv ==
    ASSUME FrameInv, NEW large \in BOOLEAN, TexImage2D(large)
    PROVE  FrameInv'
  <1> DEFINE t == bound_texture
             m == view.bind[view.active]
             r == Upload(t, mem[t], m)
  <1>0. /\ t \in Textures /\ t \in Names /\ mem[t] \in Bytes /\ m \in Names
        /\ texsrcs \in [Textures -> Sources] /\ view \in Views
        /\ gpu_textures \in SUBSET Textures /\ view.gpu \subseteq gpu_textures
    BY GlFrameAssumption, Values DEF FrameInv, GlFrameTypeOK, ViewOK, TexImage2D, Views, Bindings
  <1>1. /\ r \in Requests /\ r.op = "upload" /\ r.tex = t /\ r.texels = mem[t] /\ r.meant = m
    BY <1>0, RequestsTyped
  <1>2. RequestOK(view, r)
    BY <1>1 DEF RequestOK
  <1>3. /\ Push(r) /\ gpu_textures' = gpu_textures /\ bound_texture' = t
        /\ texsrcs' = [texsrcs EXCEPT ![t] = [dirty_check |-> large /\ t \notin gpu_textures,
                                              hash |-> mem[t]]]
    BY DEF TexImage2D
  <1> HIDE DEF r, m, t
  <1>4. view'.gpu \subseteq gpu_textures'
    BY <1>0, <1>1, <1>3, GuestForm DEF Push
  <1>5. [dirty_check |-> large /\ t \notin gpu_textures, hash |-> mem[t]] \in Sources
    BY <1>0 DEF Sources
  <1>6. texsrcs' \in [Textures -> Sources]
    BY <1>0, <1>3, <1>5
  <1>7. ASSUME NEW s \in Textures, Tracked(s)'
        PROVE  \/ UploadOf(r, s) /\ r.texels = texsrcs'[s].hash
               \/ Tracked(s) /\ ~Touches(r, s) /\ texsrcs'[s].hash = texsrcs[s].hash
    <2>1. CASE s = t
      BY <1>0, <1>1, <1>3, <2>1 DEF UploadOf
    <2>2. CASE s # t
      <3>1. texsrcs'[s] = texsrcs[s]
        BY <1>0, <1>3, <2>2
      <3> QED BY <1>1, <1>3, <1>7, <2>2, <3>1 DEF Tracked, Touches
    <2> QED BY <2>1, <2>2
  <1>8. Remembered(r)
    BY <1>0, <1>3, <1>4, <1>6, <1>7 DEF Remembered
  <1> QED BY <1>1, <1>2, <1>3, <1>8, PushInv

LEMMA TexImage2DNullInv ==
    ASSUME FrameInv, TexImage2DNull
    PROVE  FrameInv'
  <1> DEFINE t == bound_texture
             r == Request("patch", NoTexture)
  <1>0. /\ t \in Textures /\ t \in Names
        /\ texsrcs \in [Textures -> Sources] /\ view \in Views
        /\ gpu_textures \in SUBSET Textures /\ view.gpu \subseteq gpu_textures
        /\ NoSource \in Sources /\ ~NoSource.dirty_check
    BY GlFrameAssumption, Values DEF FrameInv, GlFrameTypeOK, ViewOK, TexImage2DNull
  <1>1. r \in Requests /\ r.op = "patch"
    BY RequestsTyped
  <1>2. RequestOK(view, r)
    BY <1>1 DEF RequestOK
  <1>3. /\ Push(r) /\ gpu_textures' = gpu_textures /\ bound_texture' = t
        /\ texsrcs' = [texsrcs EXCEPT ![t] = NoSource]
    BY DEF TexImage2DNull
  <1> HIDE DEF r, t
  <1>4. view'.gpu \subseteq gpu_textures'
    BY <1>0, <1>1, <1>3, GuestForm DEF Push
  <1>5. ASSUME NEW s \in Textures, Tracked(s)'
        PROVE  Tracked(s) /\ ~Touches(r, s) /\ texsrcs'[s].hash = texsrcs[s].hash
    <2>1. texsrcs'[s] = IF s = t THEN NoSource ELSE texsrcs[s]
      BY <1>0, <1>3
    <2> QED BY <1>0, <1>1, <1>3, <1>5, <2>1 DEF Tracked, Touches
  <1>6. texsrcs' \in [Textures -> Sources]
    BY <1>0, <1>3
  <1>7. Remembered(r)
    BY <1>0, <1>3, <1>4, <1>5, <1>6 DEF Remembered
  <1> QED BY <1>1, <1>2, <1>3, <1>7, PushInv

LEMMA FramebufferTexture2DInv ==
    ASSUME FrameInv, NEW t \in Layers, FramebufferTexture2D(t)
    PROVE  FrameInv'
  <1> DEFINE r == Request("attach", t)
  <1>0. /\ t \in Textures /\ t \in Names
        /\ texsrcs \in [Textures -> Sources] /\ view \in Views
        /\ gpu_textures \in SUBSET Textures /\ view.gpu \subseteq gpu_textures
        /\ bound_texture \in Names
    BY GlFrameAssumption, Values DEF FrameInv, GlFrameTypeOK, ViewOK
  <1>1. r \in Requests /\ r.op = "attach" /\ r.tex = t
    BY <1>0, RequestsTyped
  <1>2. RequestOK(view, r)
    BY <1>1 DEF RequestOK
  <1>3. /\ Push(r) /\ gpu_textures' = gpu_textures \cup {t} /\ bound_texture' = bound_texture
        /\ texsrcs' = [texsrcs EXCEPT ![t].dirty_check = FALSE]
    BY DEF FramebufferTexture2D
  <1> HIDE DEF r
  <1>4. view'.gpu \subseteq gpu_textures'
    BY <1>0, <1>1, <1>3, GuestForm DEF Push
  <1>5. [texsrcs[t] EXCEPT !.dirty_check = FALSE] \in Sources
    BY <1>0 DEF Sources
  <1>6. /\ texsrcs' \in [Textures -> Sources]
        /\ \A s \in Textures : s # t => texsrcs'[s] = texsrcs[s]
    BY <1>0, <1>3, <1>5
  <1>7. ASSUME NEW s \in Textures, Tracked(s)'
        PROVE  Tracked(s) /\ ~Touches(r, s) /\ texsrcs'[s].hash = texsrcs[s].hash
    BY <1>1, <1>3, <1>6, <1>7 DEF Tracked, Touches
  <1>8. Remembered(r)
    BY <1>0, <1>3, <1>4, <1>6, <1>7 DEF Remembered
  <1> QED BY <1>1, <1>2, <1>3, <1>8, PushInv

LEMMA DeleteTexturesInv ==
    ASSUME FrameInv, NEW t \in Layers, DeleteTextures(t)
    PROVE  FrameInv'
  <1> DEFINE r == Request("delete", t)
  <1>0. /\ t \in Textures /\ t \in Names
        /\ texsrcs \in [Textures -> Sources] /\ view \in Views
        /\ gpu_textures \in SUBSET Textures /\ view.gpu \subseteq gpu_textures
        /\ bound_texture \in Names
        /\ NoSource \in Sources /\ ~NoSource.dirty_check
    BY GlFrameAssumption, Values DEF FrameInv, GlFrameTypeOK, ViewOK
  <1>1. r \in Requests /\ r.op = "delete" /\ r.tex = t
    BY <1>0, RequestsTyped
  <1>2. RequestOK(view, r)
    BY <1>1 DEF RequestOK
  <1>3. /\ Push(r) /\ gpu_textures' = gpu_textures \ {t} /\ bound_texture' = bound_texture
        /\ texsrcs' = [texsrcs EXCEPT ![t] = NoSource]
    BY DEF DeleteTextures
  <1> HIDE DEF r
  <1>4. view'.gpu \subseteq gpu_textures'
    <2>1. view' = GuestExec(view, r)
      BY <1>3 DEF Push
    <2>2. view'.gpu = view.gpu \ {t}
      BY <1>0, <1>1, <2>1, GuestForm
    <2> QED BY <1>0, <1>3, <2>2
  <1>5. ASSUME NEW s \in Textures, Tracked(s)'
        PROVE  Tracked(s) /\ ~Touches(r, s) /\ texsrcs'[s].hash = texsrcs[s].hash
    <2>1. texsrcs'[s] = IF s = t THEN NoSource ELSE texsrcs[s]
      BY <1>0, <1>3
    <2> QED BY <1>0, <1>1, <1>3, <1>5, <2>1 DEF Tracked, Touches
  <1>6. texsrcs' \in [Textures -> Sources]
    BY <1>0, <1>3
  <1>7. Remembered(r)
    BY <1>0, <1>1, <1>3, <1>4, <1>5, <1>6 DEF Remembered
  <1> QED BY <1>1, <1>2, <1>3, <1>7, PushInv
-----------------------------------------------------------------------------
(* The calls that execute the queue leave host GL as the guest sees it.    *)
LEMMA FlushInv ==
    ASSUME FrameInv, NEW h \in Images, Agrees(view, h), FrameFlush(h),
           resync' = resync, mem' = mem, view' = view,
           texsrcs' \in [Textures -> Sources], gpu_textures' \in SUBSET Textures,
           bound_texture' \in Names, bound_at_swap' \in Names,
           view.gpu \subseteq gpu_textures',
           \A t \in Textures : Tracked(t)' =>
               texsrcs'[t].hash = Level \/ h.tex[t] \in {texsrcs'[t].hash, Other},
           drawn' \in SUBSET Draws, \A d \in drawn' : Drawn(d), FreshAtSwap'
    PROVE  FrameInv'
  <1>0. /\ frame_q' = << >>
        /\ host' = [active |-> h.active, bind |-> h.bind, off |-> h.off, tex |-> h.tex]
        /\ view \in Views
    BY DEF FrameFlush, FrameInv, GlFrameTypeOK
  <1>1. /\ Len(frame_q') = 0 /\ frame_q' \in Seq(Requests) /\ \A i : i \notin 1..Len(frame_q')
    BY <1>0
  <1>2. /\ Host'.active = h.active /\ Host'.bind = h.bind /\ Host'.off = h.off
        /\ Host'.tex = h.tex /\ host'.tex = h.tex
    BY <1>0 DEF Host
  <1>3. GlFrameTypeOK'
    <2>1. host' \in [active : Units, bind : Bindings, off : SUBSET Units, tex : [Names -> Texels]]
      BY <1>0, ImageForm
    <2> QED BY <1>0, <1>1, <2>1 DEF FrameInv, GlFrameTypeOK
  <1>4. TrailOK'
    <2> DEFINE f == <<view>>
    <2>1. f \in Seq(Views) /\ Len(f) = 1 /\ f[1] = view
      BY <1>0
    <2> HIDE DEF f
    <2>2. Along(f, frame_q')
      BY <1>1, <2>1 DEF Along
    <2>3. Agrees(f[1], Host')
      BY <1>2, <2>1 DEF Agrees
    <2>4. f[Len(frame_q') + 1] = view'
      BY <1>1, <2>1
    <2>5. \A t \in f[1].gpu : t \in gpu_textures'
      BY <2>1
    <2> QED BY <2>2, <2>3, <2>4, <2>5 DEF TrailOK
  <1>5. ViewOK'
    BY DEF ViewOK
  <1>6. HashOK'
    BY <1>1, <1>2 DEF HashOK
  <1>7. DrawBinding' /\ GpuKept'
    BY DEF DrawBinding, GpuKept, Drawn
  <1> QED BY <1>3, <1>4, <1>5, <1>6, <1>7 DEF FrameInv

(* The queue carried out as it stands.                                     *)
LEMMA AsItStands ==
    ASSUME FrameInv
    PROVE  LET h == Flushed(Host, frame_q) IN
           /\ h \in Images /\ Agrees(view, h)
           /\ \A t \in Textures : Tracked(t) =>
                 texsrcs[t].hash = Level \/ h.tex[t] \in {texsrcs[t].hash, Other}
           /\ Shown(h) \in SUBSET Draws
           /\ \A d \in Shown(h) : Drawn(d) /\ ~d.due
  <1> DEFINE h == Flushed(Host, frame_q)
             N == Len(frame_q)
  <1>1. PICK f : Along(f, frame_q) /\ Agrees(f[1], Host) /\ f[N + 1] = view
    BY DEF FrameInv, TrailOK
  <1>2. Host \in Images /\ Host.drawn = {} /\ Host.tex = host.tex /\ frame_q \in Seq(Requests)
    BY HostTyped DEF FrameInv, GlFrameTypeOK
  <1>3. ReplayOK(Host, frame_q, f, N, {}, {}, h)
    BY <1>1, <1>2, ReplayedOK
  <1> HIDE DEF h
  <1>4. h \in Images /\ Agrees(view, h)
    BY <1>1, <1>3 DEF ReplayOK
  <1>5. ASSUME NEW t \in Textures, Tracked(t), texsrcs[t].hash # Level
        PROVE  h.tex[t] \in {texsrcs[t].hash, Other}
    <2>1. CASE /\ \A i \in 1..N : ~Touches(frame_q[i], t)
               /\ host.tex[t] \in {texsrcs[t].hash, Other}
      <3>1. h.tex[t] \in {host.tex[t], Other}
        BY <1>2, <1>3, <2>1 DEF ReplayOK
      <3> QED BY <2>1, <3>1
    <2>2. CASE \E i \in 1..N : /\ UploadOf(frame_q[i], t) /\ frame_q[i].texels = texsrcs[t].hash
                               /\ \A j \in 1..N : j > i => ~Touches(frame_q[j], t)
      BY <1>3, <2>2 DEF ReplayOK
    <2> QED BY <1>5, <2>1, <2>2 DEF FrameInv, HashOK
  <1>6. ASSUME NEW d \in Shown(h) PROVE d \in Draws /\ Drawn(d) /\ ~d.due
    <2>1. PICK e \in h.drawn : d = [e EXCEPT !.due = FALSE]
      BY DEF Shown
    <2>2. Drawn(e) /\ e \in Draws
      BY <1>3, <1>4, ImageForm DEF ReplayOK
    <2>3. d = [meant |-> e.meant, gpu |-> e.gpu, tex |-> e.tex, texels |-> e.texels,
               due |-> FALSE, off |-> e.off]
      BY <2>1, <2>2 DEF Draws
    <2> QED BY <2>2, <2>3 DEF Draws, Drawn
  <1> QED BY <1>4, <1>5, <1>6 DEF h

LEMMA QueryInv ==
    ASSUME FrameInv, Query
    PROVE  FrameInv'
  <1> DEFINE h == Flushed(Host, frame_q)
  <1>1. /\ FrameFlush(h) /\ drawn' = Shown(h)
        /\ resync' = resync /\ mem' = mem /\ texsrcs' = texsrcs /\ gpu_textures' = gpu_textures
        /\ bound_texture' = bound_texture /\ bound_at_swap' = bound_at_swap /\ view' = view
    BY DEF Query
  <1>2. /\ h \in Images /\ Agrees(view, h)
        /\ \A t \in Textures : Tracked(t) =>
              texsrcs[t].hash = Level \/ h.tex[t] \in {texsrcs[t].hash, Other}
        /\ Shown(h) \in SUBSET Draws
        /\ \A d \in Shown(h) : Drawn(d) /\ ~d.due
    BY AsItStands
  <1> HIDE DEF h
  <1>3. /\ \A t \in Textures : Tracked(t)' => Tracked(t)
        /\ view.gpu \subseteq gpu_textures'
        /\ texsrcs' \in [Textures -> Sources] /\ gpu_textures' \in SUBSET Textures
        /\ bound_texture' \in Names /\ bound_at_swap' \in Names
    BY <1>1 DEF Tracked, FrameInv, GlFrameTypeOK, ViewOK
  <1>4. FreshAtSwap'
    BY <1>1, <1>2 DEF FreshAtSwap
  <1> QED BY <1>1, <1>2, <1>3, <1>4, FlushInv

LEMMA GenTexturesInv ==
    ASSUME FrameInv, NEW t \in Layers, GenTextures(t)
    PROVE  FrameInv'
  <1> DEFINE h == Flushed(Host, frame_q)
  <1>1. /\ h.tex[t] = Undefined /\ FrameFlush(h) /\ drawn' = Shown(h)
        /\ resync' = resync /\ mem' = mem /\ gpu_textures' = gpu_textures \ {t}
        /\ texsrcs' = [texsrcs EXCEPT ![t] = NoSource]
        /\ bound_texture' = bound_texture /\ bound_at_swap' = bound_at_swap /\ view' = view
    BY DEF GenTextures
  <1>2. /\ h \in Images /\ Agrees(view, h)
        /\ \A s \in Textures : Tracked(s) =>
              texsrcs[s].hash = Level \/ h.tex[s] \in {texsrcs[s].hash, Other}
        /\ Shown(h) \in SUBSET Draws
        /\ \A d \in Shown(h) : Drawn(d) /\ ~d.due
    BY AsItStands
  <1> HIDE DEF h
  <1>3. /\ t \in Textures /\ NoSource \in Sources /\ ~NoSource.dirty_check
        /\ texsrcs \in [Textures -> Sources] /\ gpu_textures \in SUBSET Textures
        /\ bound_texture \in Names /\ bound_at_swap \in Names
        /\ view.gpu \subseteq gpu_textures
    BY GlFrameAssumption, Values DEF FrameInv, GlFrameTypeOK, ViewOK
  <1>4. t \notin view.gpu
    BY <1>1, <1>2, Values DEF Agrees
  <1>5. ASSUME NEW s \in Textures, Tracked(s)' PROVE Tracked(s) /\ texsrcs'[s] = texsrcs[s]
    <2>1. texsrcs'[s] = IF s = t THEN NoSource ELSE texsrcs[s]
      BY <1>1, <1>3
    <2> QED BY <1>1, <1>3, <1>5, <2>1 DEF Tracked
  <1>6. /\ view.gpu \subseteq gpu_textures' /\ gpu_textures' \in SUBSET Textures
        /\ texsrcs' \in [Textures -> Sources]
    BY <1>1, <1>3, <1>4
  <1>7. FreshAtSwap'
    BY <1>1, <1>2 DEF FreshAtSwap
  <1>8. \A s \in Textures : Tracked(s)' =>
           texsrcs'[s].hash = Level \/ h.tex[s] \in {texsrcs'[s].hash, Other}
    BY <1>2, <1>5
  <1> QED BY <1>1, <1>2, <1>3, <1>6, <1>7, <1>8, FlushInv

(* The image the synced queue starts from: host GL after the re-uploads.   *)
Resumed(order) == [Reuploaded(order)[Len(order)] EXCEPT !.off = Misplaced]

LEMMA ResumedOK ==
    ASSUME GlFrameTypeOK, NEW order \in Orders(Resynced)
    PROVE  LET s == Resumed(order) IN
           /\ s \in Images /\ s.drawn = {} /\ s.up \subseteq Resynced
           /\ s.active = host.active /\ s.off = Misplaced
           /\ \A u \in Units \ s.off : s.bind[u] = host.bind[u] /\ u \notin host.off
           /\ \A t \in Names : s.tex[t] = IF t \in Resynced THEN mem[t] ELSE host.tex[t]
  <1> DEFINE r == Reuploaded(order)[Len(order)]
             s == Resumed(order)
  <1>1. /\ r \in Images /\ r.drawn = {} /\ r.up \subseteq Resynced
        /\ r.active = host.active
        /\ r.bind = IF Resynced = {} THEN host.bind
                    ELSE [host.bind EXCEPT ![host.active] = bound_at_swap]
        /\ \A t \in Names : r.tex[t] = IF t \in Resynced THEN mem[t] ELSE host.tex[t]
    BY ReuploadsEffect
  <1>2. s = [r EXCEPT !.off = Misplaced]
    BY DEF Resumed
  <1>3. host.active \in Units /\ host.bind \in Bindings /\ host.off \in SUBSET Units
    BY DEF GlFrameTypeOK
  <1>4. Misplaced \in SUBSET Units
    BY <1>3 DEF Misplaced
  <1> HIDE DEF r, s
  <1>5. s = [active |-> r.active, bind |-> r.bind, off |-> Misplaced, tex |-> r.tex,
             up |-> r.up, drawn |-> r.drawn]
    BY <1>1, <1>2 DEF Images
  <1>6. s \in Images
    BY <1>1, <1>4, <1>5, ImageForm DEF Images
  <1>7. ASSUME NEW u \in Units \ s.off PROVE s.bind[u] = host.bind[u] /\ u \notin host.off
    <2>1. s.off = Misplaced /\ s.bind = r.bind
      BY <1>5
    <2>2. u \notin Misplaced /\ u \in Units
      BY <1>7, <2>1
    <2>3. u \notin host.off
      BY <2>2 DEF Misplaced
    <2>4. CASE Resynced = {}
      BY <1>1, <2>1, <2>3, <2>4
    <2>5. CASE Resynced # {}
      <3>1. host.bind[host.active] = bound_at_swap \/ u # host.active
        BY <2>2, <2>5 DEF Misplaced
      <3> QED BY <1>1, <1>3, <2>1, <2>2, <2>3, <2>5, <3>1 DEF Bindings
    <2> QED BY <2>4, <2>5
  <1> QED BY <1>1, <1>5, <1>6, <1>7 DEF s

(* A tracked texture that no queued upload names is left alone by the      *)
(* queue, and one that a queued upload names is last touched by one.       *)
LEMMA TrackedQueue ==
    ASSUME FrameInv, NEW t \in Textures, Tracked(t)
    PROVE  /\ (\A i \in 1..Len(frame_q) : ~UploadOf(frame_q[i], t)) =>
                 /\ \A i \in 1..Len(frame_q) : ~Touches(frame_q[i], t)
                 /\ texsrcs[t].hash # Level => host.tex[t] \in {texsrcs[t].hash, Other}
           /\ (\E i \in 1..Len(frame_q) : UploadOf(frame_q[i], t)) =>
                 \E i \in 1..Len(frame_q) :
                    /\ UploadOf(frame_q[i], t)
                    /\ \A j \in 1..Len(frame_q) : j > i => ~Touches(frame_q[j], t)
  <1>1. \A r : UploadOf(r, t) => Touches(r, t)
    BY DEF UploadOf, Touches
  <1> QED BY <1>1 DEF FrameInv, HashOK

(* What the code takes for an upload of the texture this frame.            *)
LEMMA UploadsThisFrame ==
    ASSUME GlFrameTypeOK, NEW t \in Textures
    PROVE  /\ (\E i \in 1..Len(frame_q) : UploadOf(frame_q[i], t)) => UploadedThisFrame(t)
           /\ UploadedThisFrame(t) /\ ~LevelLast(t) =>
                 \E i \in 1..Len(frame_q) : UploadOf(frame_q[i], t)
  <1>1. frame_q \in Seq(Requests) /\ DOMAIN frame_q = 1..Len(frame_q)
    BY DEF GlFrameTypeOK
  <1> QED BY <1>1 DEF UploadedThisFrame, LevelLast, Queued, UploadOf

LEMMA SwapInv ==
    ASSUME FrameInv, NEW order \in Orders(Resynced), SwapBuffers(SyncLargeTextures(order))
    PROVE  FrameInv'
  <1> DEFINE N == Len(frame_q)
             s == Resumed(order)
             h == SyncLargeTextures(order)
             q == Rereads
             F == {t \in Textures : Tracked(t)}
             K == {t \in Textures : Tracked(t) /\ resync /\ ~UploadedThisFrame(t)}
  <1>1. /\ FrameFlush(h)
        /\ drawn' = {[d EXCEPT !.due = @ \/ (resync /\ ~UploadedThisFrame(d.tex))] : d \in h.drawn}
        /\ texsrcs' = [t \in Textures |->
              IF Tracked(t) /\ LevelLast(t) THEN [texsrcs[t] EXCEPT !.hash = Level]
              ELSE IF t \in Resynced \/ (Tracked(t) /\ UploadedThisFrame(t))
              THEN [texsrcs[t] EXCEPT !.hash = mem[t]] ELSE texsrcs[t]]
        /\ bound_at_swap' = bound_texture
        /\ resync' = resync /\ mem' = mem /\ gpu_textures' = gpu_textures
        /\ bound_texture' = bound_texture /\ view' = view
    BY DEF SwapBuffers
  <1>2. h = Flushed(s, q)
    BY DEF SyncLargeTextures, Resumed, Rereads
  <1>3. /\ GlFrameTypeOK /\ mem \in [Textures -> Bytes] /\ texsrcs \in [Textures -> Sources]
        /\ gpu_textures \in SUBSET Textures /\ bound_texture \in Names
        /\ view.gpu \subseteq gpu_textures /\ Textures \subseteq Names
        /\ Level \notin Bytes
    BY Values DEF FrameInv, GlFrameTypeOK, ViewOK
  <1>4. /\ s \in Images /\ s.drawn = {} /\ s.up \subseteq Resynced
        /\ s.active = host.active
        /\ \A u \in Units \ s.off : s.bind[u] = host.bind[u] /\ u \notin host.off
        /\ \A t \in Names : s.tex[t] = IF t \in Resynced THEN mem[t] ELSE host.tex[t]
    BY <1>3, ResumedOK
  <1>5. /\ q \in Seq(Requests) /\ Len(q) = N /\ N \in Nat
        /\ \A i \in 1..N : /\ q[i].op = frame_q[i].op /\ q[i].tex = frame_q[i].tex
                           /\ q[i].op = "upload" /\ Tracked(q[i].tex) => q[i].texels = mem[q[i].tex]
    BY <1>3, RereadsTyped, RereadForm
  <1>6. PICK f : /\ Along(f, frame_q) /\ Agrees(f[1], Host) /\ f[N + 1] = view
                 /\ \A t \in f[1].gpu : t \in gpu_textures \/ \E i \in 1..N :
                                           frame_q[i].op = "delete" /\ frame_q[i].tex = t
    BY DEF FrameInv, TrailOK
  <1>7. Along(f, q) /\ f[1] \in Views
    <2>1. f \in Seq(Views) /\ Len(f) = N + 1
      BY <1>6 DEF Along
    <2> QED BY <1>3, <1>5, <1>6, <2>1, RereadsAlong
  <1> HIDE DEF h, s, q
  <1>8. \A t \in Textures : Tracked(t) =>
           /\ (\A i \in 1..N : ~UploadOf(frame_q[i], t)) =>
                 /\ \A i \in 1..N : ~Touches(frame_q[i], t)
                 /\ texsrcs[t].hash # Level => host.tex[t] \in {texsrcs[t].hash, Other}
           /\ (\E i \in 1..N : UploadOf(frame_q[i], t)) =>
                 \E i \in 1..N : /\ UploadOf(frame_q[i], t)
                                 /\ \A j \in 1..N : j > i => ~Touches(frame_q[j], t)
    BY TrackedQueue
  <1>9. \A t \in Textures :
           /\ (\E i \in 1..N : UploadOf(frame_q[i], t)) => UploadedThisFrame(t)
           /\ UploadedThisFrame(t) /\ ~LevelLast(t) => \E i \in 1..N : UploadOf(frame_q[i], t)
    BY <1>3, UploadsThisFrame
  <1>10. \A t \in Textures : \A i \in 1..N :
           /\ UploadOf(q[i], t) <=> UploadOf(frame_q[i], t)
           /\ Touches(q[i], t) <=> Touches(frame_q[i], t)
    BY <1>5 DEF UploadOf, Touches
  <1>11. \A t \in Resynced : /\ t \in Textures /\ resync /\ Tracked(t) /\ ~UploadedThisFrame(t)
                             /\ \A i \in 1..N : ~Touches(frame_q[i], t)
                             /\ s.tex[t] = mem[t]
    BY <1>3, <1>4, <1>8, <1>9 DEF Resynced
  <1>12. Agrees(f[1], s)
    <2>1. /\ f[1].active = host.active
          /\ \A u \in Units \ host.off : host.bind[u] = f[1].bind[u]
          /\ \A t \in f[1].gpu : host.tex[t] \in {Gpu, Other}
      BY <1>3, <1>6, HostTyped DEF Agrees
    <2>2. ASSUME NEW t \in f[1].gpu PROVE s.tex[t] \in {Gpu, Other}
      <3>1. t \in Textures
        BY <1>7 DEF Views
      <3>2. t \notin Resynced
        BY <1>6, <1>11 DEF Tracked, Touches
      <3> QED BY <1>3, <1>4, <2>1, <3>1, <3>2
    <2> QED BY <1>4, <2>1, <2>2 DEF Agrees
  <1>13. \A t \in F : t \in s.up => Fresh(t, s.tex[t])
    BY <1>4, <1>11 DEF Fresh
  <1>14. \A t \in F : \A i \in 1..Len(q) : UploadOf(q[i], t) => q[i].texels = mem[t]
    BY <1>5 DEF UploadOf
  <1>15. ASSUME NEW t \in K PROVE Fresh(t, s.tex[t]) /\ \A i \in 1..Len(q) : ~Touches(q[i], t)
    <2>1. t \in Textures /\ Tracked(t) /\ resync /\ ~UploadedThisFrame(t)
      OBVIOUS
    <2>2. /\ \A i \in 1..N : ~Touches(frame_q[i], t)
          /\ texsrcs[t].hash # Level => host.tex[t] \in {texsrcs[t].hash, Other}
      BY <1>8, <1>9, <2>1
    <2>3. CASE t \in Resynced
      BY <1>5, <1>10, <1>11, <2>1, <2>2, <2>3 DEF Fresh
    <2>4. CASE t \notin Resynced
      <3>1. texsrcs[t].hash = mem[t] /\ mem[t] \in Bytes
        BY <1>3, <2>1, <2>4 DEF Resynced
      <3>2. s.tex[t] = host.tex[t]
        BY <1>3, <1>4, <2>1, <2>4
      <3> QED BY <1>3, <1>5, <1>10, <2>1, <2>2, <3>1, <3>2 DEF Fresh
    <2> QED BY <2>3, <2>4
  <1>16. ReplayOK(s, q, f, N, F, K, h)
    <2> HIDE DEF F, K
    <2>1. F \in SUBSET Textures /\ K \in SUBSET Textures
      BY DEF F, K
    <2> QED BY <1>2, <1>4, <1>5, <1>7, <1>12, <1>13, <1>14, <1>15, <2>1, ReplayedOK
  <1>17. h \in Images /\ Agrees(view, h)
    BY <1>6, <1>16 DEF ReplayOK
  <1>18. /\ \A t \in Textures : (\A i \in 1..N : ~Touches(q[i], t)) => h.tex[t] \in {s.tex[t], Other}
         /\ \A t \in Textures : \A i \in 1..N :
               (UploadOf(q[i], t) /\ \A j \in 1..N : j > i => ~Touches(q[j], t))
                   => h.tex[t] \in {q[i].texels, Other}
         /\ \A d \in h.drawn : /\ Drawn(d)
                               /\ d.tex \in F /\ d.due => Fresh(d.tex, d.texels)
                               /\ d.tex \in K => Fresh(d.tex, d.texels)
    BY <1>16 DEF ReplayOK
  <1>19. ASSUME NEW t \in Textures
         PROVE  /\ texsrcs'[t] \in Sources /\ (Tracked(t)' => Tracked(t))
                /\ texsrcs'[t].hash = IF Tracked(t) /\ LevelLast(t) THEN Level
                                      ELSE IF t \in Resynced \/ (Tracked(t) /\ UploadedThisFrame(t))
                                      THEN mem[t] ELSE texsrcs[t].hash
    <2>1. texsrcs[t] \in Sources /\ mem[t] \in Bytes
      BY <1>3
    <2>2. texsrcs'[t] = IF Tracked(t) /\ LevelLast(t) THEN [texsrcs[t] EXCEPT !.hash = Level]
                        ELSE IF t \in Resynced \/ (Tracked(t) /\ UploadedThisFrame(t))
                        THEN [texsrcs[t] EXCEPT !.hash = mem[t]] ELSE texsrcs[t]
      BY <1>1
    <2>3. /\ texsrcs'[t].dirty_check = texsrcs[t].dirty_check
          /\ texsrcs'[t] \in Sources
          /\ texsrcs'[t].hash = IF Tracked(t) /\ LevelLast(t) THEN Level
                                ELSE IF t \in Resynced \/ (Tracked(t) /\ UploadedThisFrame(t))
                                THEN mem[t] ELSE texsrcs[t].hash
      BY <2>1, <2>2 DEF Sources
    <2> QED BY <1>1, <2>3 DEF Tracked
  <1>20. ASSUME NEW t \in Textures, Tracked(t)', texsrcs'[t].hash # Level
         PROVE  h.tex[t] \in {texsrcs'[t].hash, Other}
    <2>1. Tracked(t) /\ ~LevelLast(t) /\ t \in Names
      BY <1>3, <1>19, <1>20
    <2>2. CASE t \in Resynced
      <3>1. h.tex[t] \in {mem[t], Other}
        BY <1>10, <1>11, <1>18, <2>2
      <3> QED BY <1>19, <2>1, <2>2, <3>1
    <2>3. CASE UploadedThisFrame(t)
      <3>1. PICK i \in 1..N : /\ UploadOf(frame_q[i], t)
                              /\ \A j \in 1..N : j > i => ~Touches(frame_q[j], t)
        BY <1>8, <1>9, <2>1, <2>3
      <3>2. UploadOf(q[i], t) /\ \A j \in 1..N : j > i => ~Touches(q[j], t)
        BY <1>10, <3>1
      <3>3. q[i].texels = mem[t]
        BY <1>5, <2>1, <3>2 DEF UploadOf
      <3> QED BY <1>18, <1>19, <2>1, <2>3, <3>2, <3>3
    <2>4. CASE t \notin Resynced /\ ~UploadedThisFrame(t)
      <3>1. texsrcs'[t].hash = texsrcs[t].hash
        BY <1>19, <2>1, <2>4
      <3>2. /\ \A i \in 1..N : ~Touches(frame_q[i], t)
            /\ host.tex[t] \in {texsrcs[t].hash, Other}
        BY <1>8, <1>9, <1>20, <2>1, <2>4, <3>1
      <3>3. h.tex[t] \in {s.tex[t], Other} /\ s.tex[t] = host.tex[t]
        BY <1>4, <1>10, <1>18, <2>1, <2>4, <3>2
      <3> QED BY <3>1, <3>2, <3>3
    <2> QED BY <2>2, <2>3, <2>4
  <1>21. ASSUME NEW e \in drawn'
         PROVE  /\ e \in Draws /\ Drawn(e)
                /\ e.due /\ e.tex \in Textures /\ Tracked(e.tex) => e.texels \in {mem[e.tex], Other}
    <2>1. PICK d \in h.drawn : e = [d EXCEPT !.due = @ \/ (resync /\ ~UploadedThisFrame(d.tex))]
      BY <1>1
    <2>2. d \in Draws /\ Drawn(d)
      BY <1>17, <1>18, ImageForm
    <2>3. /\ e.meant = d.meant /\ e.gpu = d.gpu /\ e.tex = d.tex /\ e.texels = d.texels
          /\ e.off = d.off /\ (e.due <=> (d.due \/ (resync /\ ~UploadedThisFrame(d.tex))))
          /\ e \in Draws
      BY <2>1, <2>2 DEF Draws
    <2>4. Drawn(e)
      BY <2>2, <2>3 DEF Drawn
    <2>5. ASSUME e.due, e.tex \in Textures, Tracked(e.tex) PROVE Fresh(d.tex, d.texels)
      BY <1>18, <2>3, <2>5
    <2> QED BY <2>3, <2>4, <2>5 DEF Fresh
  <1>22. FreshAtSwap'
    BY <1>1, <1>19, <1>21 DEF FreshAtSwap
  <1>23. texsrcs' \in [Textures -> Sources]
    BY <1>1, <1>19
  <1>24. bound_at_swap' \in Names /\ bound_texture' \in Names
    BY <1>1, <1>3
  <1>25. drawn' \in SUBSET Draws /\ \A d \in drawn' : Drawn(d)
    BY <1>21
  <1> QED BY <1>1, <1>3, <1>17, <1>20, <1>22, <1>23, <1>24, <1>25, FlushInv

(* The firmware writes to a buffer.                                        *)
LEMMA GuestWriteInv ==
    ASSUME FrameInv, NEW t \in Layers, GuestWrite(t)
    PROVE  FrameInv'
  <1>1. /\ mem' = [mem EXCEPT ![t] = (@ + 1) % VERSIONS] /\ drawn' = {}
        /\ UNCHANGED <<resync, texsrcs, gpu_textures, bound_texture, bound_at_swap,
                       frame_q, host, view>>
    BY DEF GuestWrite
  <1>2. mem' \in [Textures -> Bytes]
    <2>1. t \in Textures /\ mem \in [Textures -> Bytes]
      BY GlFrameAssumption DEF FrameInv, GlFrameTypeOK
    <2>2. (mem[t] + 1) % VERSIONS \in Bytes
      BY <2>1, GlFrameAssumption DEF Bytes
    <2> QED BY <1>1, <2>1, <2>2
  <1>3. GlFrameTypeOK'
    BY <1>1, <1>2 DEF FrameInv, GlFrameTypeOK
  <1>4. (\A x \in Textures : Tracked(x)' <=> Tracked(x)) /\ Host' = Host
    BY <1>1 DEF Tracked, Host
  <1>5. TrailOK' /\ ViewOK'
    BY <1>1, <1>4 DEF FrameInv, TrailOK, ViewOK
  <1>6. HashOK'
    BY <1>1, <1>4 DEF FrameInv, HashOK
  <1>7. FreshAtSwap' /\ DrawBinding' /\ GpuKept'
    BY <1>1 DEF FreshAtSwap, DrawBinding, GpuKept
  <1> QED BY <1>3, <1>5, <1>6, <1>7 DEF FrameInv

(* The inductive invariant of the frame queue.  It relates three things:   *)
(* what the hooks remember (the hash of a tracked source, gpu_textures),   *)
(* what the guest sees after each queued request, and host GL, which       *)
(* agrees with the view the queue starts from.                             *)
THEOREM GlFrameCorrect == Spec => []FrameInv
  <1>1. Init => FrameInv
    <2> SUFFICES ASSUME Init PROVE FrameInv
      OBVIOUS
    <2>1. Unbound \in Bindings /\ 0 \in Units
      BY Values DEF Unbound, Bindings
    <2>2. /\ mem \in [Textures -> Bytes] /\ texsrcs \in [Textures -> Sources]
          /\ \A t \in Textures : ~Tracked(t)
      BY Values DEF Init, Tracked
    <2>3. /\ host = [active |-> 0, bind |-> Unbound, off |-> {}, tex |-> host.tex]
          /\ host.tex \in [Names -> Texels]
      BY Values DEF Init
    <2>4. view = [active |-> 0, bind |-> Unbound, gpu |-> {}] /\ view \in Views
      BY <2>1 DEF Init, Views
    <2>5. GlFrameTypeOK
      <3>1. host \in [active : Units, bind : Bindings, off : SUBSET Units, tex : [Names -> Texels]]
        BY <2>1, <2>3
      <3>2. NoTexture \in Names
        BY Values
      <3> QED BY <2>2, <2>4, <3>1, <3>2 DEF GlFrameTypeOK, Init
    <2>6. TrailOK
      <3> DEFINE f == <<view>>
      <3>1. f \in Seq(Views) /\ Len(f) = 1 /\ f[1] = view
        BY <2>4
      <3>2. Len(frame_q) = 0 /\ \A i : i \notin 1..Len(frame_q)
        BY DEF Init
      <3> HIDE DEF f
      <3>3. Along(f, frame_q)
        BY <3>1, <3>2 DEF Along
      <3>4. Agrees(f[1], Host)
        BY <2>3, <2>4, <3>1 DEF Agrees, Host
      <3>5. f[Len(frame_q) + 1] = view /\ f[1].gpu = {}
        BY <2>4, <3>1, <3>2
      <3> QED BY <3>3, <3>4, <3>5 DEF TrailOK
    <2>7. ViewOK /\ HashOK
      BY <2>2, <2>4 DEF ViewOK, HashOK
    <2>8. FreshAtSwap /\ DrawBinding /\ GpuKept
      BY DEF Init, FreshAtSwap, DrawBinding, GpuKept
    <2> QED BY <2>5, <2>6, <2>7, <2>8 DEF FrameInv
  <1>2. FrameInv /\ [Next]_glframe => FrameInv'
    <2> SUFFICES ASSUME FrameInv, [Next]_glframe PROVE FrameInv'
      OBVIOUS
    <2>1. ASSUME NEW t \in Names, BindTexture(t) PROVE FrameInv'
      BY <2>1, BindTextureInv
    <2>2. ASSUME NEW u \in Units, ActiveTexture(u) \/ Draw(u) PROVE FrameInv'
      BY <2>2, ActiveTextureInv, DrawInv
    <2>3. ASSUME NEW t \in Layers, GuestWrite(t) \/ DeleteTextures(t) PROVE FrameInv'
      BY <2>3, GuestWriteInv, DeleteTexturesInv
    <2>4. ASSUME NEW t \in Layers, FramebufferTexture2D(t) \/ GenTextures(t) PROVE FrameInv'
      BY <2>4, FramebufferTexture2DInv, GenTexturesInv
    <2>5. ASSUME NEW large \in BOOLEAN, TexImage2D(large) PROVE FrameInv'
      BY <2>5, TexImage2DInv
    <2>6. CASE TexImageLevel \/ TexImage2DNull
      BY <2>6, TexImageLevelInv, TexImage2DNullInv
    <2>7. CASE OtherUpload \/ Query
      BY <2>7, OtherUploadInv, QueryInv
    <2>8. ASSUME NEW order \in Orders(Resynced), SwapBuffers(SyncLargeTextures(order))
          PROVE  FrameInv'
      BY <2>8, SwapInv
    <2>9. CASE UNCHANGED glframe
      <3>1. (\A t : Tracked(t)' <=> Tracked(t)) /\ Host' = Host
        BY <2>9 DEF glframe, Tracked, Host
      <3>2. GlFrameTypeOK' /\ ViewOK'
        BY <2>9 DEF glframe, FrameInv, GlFrameTypeOK, ViewOK
      <3>3. TrailOK'
        BY <2>9, <3>1 DEF glframe, FrameInv, TrailOK
      <3>4. HashOK'
        BY <2>9, <3>1 DEF glframe, FrameInv, HashOK
      <3>5. FreshAtSwap' /\ DrawBinding' /\ GpuKept'
        BY <2>9, <3>1 DEF glframe, FrameInv, FreshAtSwap, DrawBinding, GpuKept
      <3> QED BY <3>2, <3>3, <3>4, <3>5 DEF FrameInv
    <2> QED BY <2>1, <2>2, <2>3, <2>4, <2>5, <2>6, <2>7, <2>8, <2>9 DEF Next
  <1> QED BY <1>1, <1>2, PTL DEF Spec

(* FreshAtSwap: a draw of a swap that samples a large texture which was    *)
(* uploaded in what the swap replays, or which GARMIN_GL_RESYNC keeps,     *)
(* shows what guest memory holds at the swap, unless the texture does not  *)
(* hold content from its recorded source at all.                           *)
THEOREM FreshAtSwapThm == Spec => []FreshAtSwap
  <1>1. FrameInv => FreshAtSwap
    BY DEF FrameInv
  <1> QED BY GlFrameCorrect, <1>1, PTL

(* DrawBinding: a draw is carried out with the texture that was bound on   *)
(* its unit when it was made, for any number of units, unless a re-upload  *)
(* of GARMIN_GL_RESYNC left another binding there.                         *)
THEOREM DrawBindingThm == Spec => []DrawBinding
  <1>1. FrameInv => DrawBinding
    BY DEF FrameInv
  <1> QED BY GlFrameCorrect, <1>1, PTL

(* GpuKept: what the GPU rendered into an attached texture is not          *)
(* overwritten with the texture's source before the firmware uploads to it.*)
THEOREM GpuKeptThm == Spec => []GpuKept
  <1>1. FrameInv => GpuKept
    BY DEF FrameInv
  <1> QED BY GlFrameCorrect, <1>1, PTL
=============================================================================
