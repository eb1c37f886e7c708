------------------------------ MODULE GlFrame ------------------------------
(***************************************************************************)
(* What the calls of the GL hooks do to textures (qemu/hw/arm/garmin_gl.c: *)
(* gl_dispatch, the frame queue, sync_large_textures).                     *)
(*                                                                         *)
(* Binds, uploads, draws, attachments and deletions are queued; a query    *)
(* executes the queue, and eglSwapBuffers executes it after it has read    *)
(* the texels of large textures from guest memory once more, because the   *)
(* firmware goes on drawing into a texture after it has handed it over.    *)
(* Carrying out a queue is one step: GlRender shows that it happens in     *)
(* order while the vCPU waits.                                             *)
(*                                                                         *)
(* A bind, an upload and a draw act on the texture unit that is active;    *)
(* the hooks forward glActiveTexture and remember one binding for all      *)
(* units, the last glBindTexture (bound_texture), under which they record  *)
(* the source of an upload.  Each texture has a buffer of its own in guest *)
(* memory, whose content is a version number; the hash of the code tells   *)
(* two versions apart.  Host GL is external: the active unit, the bindings *)
(* and what level 0 of each texture holds.  Content that did not come from *)
(* the source recorded under the texture's name is not told apart: parts   *)
(* of a texture, compressed and copied texels, an upload that was recorded *)
(* under another name.                                                     *)
(***************************************************************************)
EXTENDS Integers, Sequences, FiniteSets

CONSTANTS
    Textures,
    Layers,     \* the textures the firmware uploads, renders into and deletes
    NoTexture,  \* texture name 0
    UNITS,      \* texture units
    VERSIONS,   \* contents of a buffer in guest memory
    QMAX        \* bound: calls on the frame queue

ASSUME GlFrameAssumption ==
    /\ NoTexture \notin Textures
    /\ IsFiniteSet(Textures)
    /\ Layers \subseteq Textures
    /\ UNITS \in Nat \ {0}
    /\ VERSIONS \in Nat \ {0}
    /\ QMAX \in Nat

VARIABLES
    resync,         \* garmin_gl_resync, from the environment
    mem,            \* mem[t]: content of the buffer of t
    texsrcs,        \* texsrcs[t]: NoSource or [dirty_check, hash]
    gpu_textures,
    bound_texture, bound_at_swap,
    frame_q,
    host,           \* host GL: [active, bind, tex] and the ghost off
    view,           \* ghost: the guest's own [active, bind, gpu] after its calls
    drawn           \* ghost: the draws carried out by the last step

glframe == <<resync, mem, texsrcs, gpu_textures, bound_texture, bound_at_swap,
             frame_q, host, view, drawn>>

Names == Textures \cup {NoTexture}
Units == 0..UNITS - 1
Gpu == VERSIONS             \* content the GPU rendered into an attached texture
Other == VERSIONS + 1       \* not from the source recorded under its name
Undefined == VERSIONS + 2

NoSource == [dirty_check |-> FALSE, hash |-> -1]
Level == -2                 \* the hash of a mip level

Unbound == [u \in Units |-> NoTexture]

Init ==
    /\ resync \in BOOLEAN
    /\ mem = [t \in Textures |-> 0]
    /\ texsrcs = [t \in Textures |-> NoSource]
    /\ gpu_textures = {}
    /\ bound_texture = NoTexture /\ bound_at_swap = NoTexture
    /\ frame_q = <<>>
    /\ host = [active |-> 0, bind |-> Unbound, off |-> {},
               tex |-> [t \in Names |-> IF t = NoTexture THEN Other ELSE Undefined]]
    /\ view = [active |-> 0, bind |-> Unbound, gpu |-> {}]
    /\ drawn = {}

----------------------------------------------------------------------------
(* Requests.  meant is the texture the guest has bound where an upload or  *)
(* a draw acts, gpu tells whether the GPU makes what a draw shows.         *)

Request(op, t) == [op |-> op, tex |-> t, unit |-> 0, texels |-> Undefined,
                   meant |-> NoTexture, gpu |-> FALSE]
Activate(u) == [op |-> "active", tex |-> NoTexture, unit |-> u, texels |-> Undefined,
                meant |-> NoTexture, gpu |-> FALSE]
Upload(t, texels, meant) == [op |-> "upload", tex |-> t, unit |-> 0, texels |-> texels,
                             meant |-> meant, gpu |-> FALSE]
DrawWith(u, meant, gpu) == [op |-> "draw", tex |-> NoTexture, unit |-> u,
                            texels |-> Undefined, meant |-> meant, gpu |-> gpu]

\* What a deletion leaves bound.
Without(bind, t) == [u \in Units |-> IF bind[u] = t THEN NoTexture ELSE bind[u]]

(* Requests on host GL.  An image is host with up, the textures that were  *)
(* uploaded in this replay, and drawn: what each draw sampled and what the *)
(* guest meant.  off has the units that a re-upload left with another      *)
(* binding than it found.                                                  *)

\* A bind acts on the active unit, and puts it right.
ExecBind(h, r) == [h EXCEPT !.bind[h.active] = r.tex, !.off = @ \ {h.active}]

\* An upload goes to the texture bound on the active unit.  Unless that is the
\* one its source was recorded for, neither of the two has its own content now.
ExecUpload(h, r) ==
    LET x == h.bind[h.active] IN
    IF x = r.tex /\ x = r.meant
    THEN [h EXCEPT !.tex[x] = r.texels, !.up = @ \cup {x}]
    ELSE [h EXCEPT !.tex[x] = Other, !.tex[r.tex] = Other]

\* glTexSubImage2D, compressed texels, glCopyTex(Sub)Image2D, no texels.
ExecPatch(h) == [h EXCEPT !.tex[h.bind[h.active]] = Other]

ExecAttach(h, r) == [h EXCEPT !.tex[r.tex] = Gpu, !.up = @ \ {r.tex}]

ExecDelete(h, r) ==
    [h EXCEPT !.tex[r.tex] = Undefined, !.up = @ \ {r.tex}, !.bind = Without(@, r.tex)]

ExecDraw(h, r) ==
    LET x == h.bind[r.unit] IN
    [h EXCEPT !.drawn = @ \cup
        {[meant |-> r.meant, gpu |-> r.gpu, tex |-> x, texels |-> h.tex[x],
          due |-> x \in h.up, off |-> r.unit \in h.off]}]

\* render_exec; a mip level changes nothing of level 0.
RenderExec(h, r) ==
    CASE r.op = "active" -> [h EXCEPT !.active = r.unit]
      [] r.op = "bind" -> ExecBind(h, r)
      [] r.op = "upload" -> ExecUpload(h, r)
      [] r.op = "patch" -> ExecPatch(h)
      [] r.op = "attach" -> ExecAttach(h, r)
      [] r.op = "delete" -> ExecDelete(h, r)
      [] r.op = "draw" -> ExecDraw(h, r)
      [] OTHER -> h

\* What the call means to the guest, were it carried out at once.
GuestExec(v, r) ==
    CASE r.op = "active" -> [v EXCEPT !.active = r.unit]
      [] r.op = "bind" -> [v EXCEPT !.bind[v.active] = r.tex]
      [] r.op \in {"upload", "patch"} -> [v EXCEPT !.gpu = @ \ {v.bind[v.active]}]
      [] r.op = "attach" -> [v EXCEPT !.gpu = @ \cup {r.tex}]
      [] r.op = "delete" -> [v EXCEPT !.bind = Without(@, r.tex), !.gpu = @ \ {r.tex}]
      [] OTHER -> v

\* The image after each request of q.
Replayed(h, q) ==
    LET image[n \in 0..Len(q)] == IF n = 0 THEN h ELSE RenderExec(image[n - 1], q[n])
    IN image

Flushed(h, q) == Replayed(h, q)[Len(q)]

Host == [active |-> host.active, bind |-> host.bind, off |-> host.off, tex |-> host.tex,
         up |-> {}, drawn |-> {}]

\* frame_flush, which leaves host GL as the image h shows it
FrameFlush(h) ==
    /\ frame_q' = <<>>
    /\ host' = [active |-> h.active, bind |-> h.bind, off |-> h.off, tex |-> h.tex]

Push(r) ==
    /\ Len(frame_q) < QMAX
    /\ frame_q' = Append(frame_q, r)
    /\ view' = GuestExec(view, r)
    /\ drawn' = {}
    /\ UNCHANGED <<host, mem, resync, bound_at_swap>>

----------------------------------------------------------------------------
(* The calls *)

\* The firmware draws into the buffer of a texture.
GuestWrite(t) ==
    /\ mem' = [mem EXCEPT ![t] = (@ + 1) % VERSIONS]
    /\ drawn' = {}
    /\ UNCHANGED <<resync, texsrcs, gpu_textures, bound_texture, bound_at_swap,
                   frame_q, host, view>>

ActiveTexture(u) ==
    /\ Push(Activate(u))
    /\ UNCHANGED <<texsrcs, gpu_textures, bound_texture>>

BindTexture(t) ==
    /\ Push(Request("bind", t))
    /\ bound_texture' = t
    /\ UNCHANGED <<texsrcs, gpu_textures>>

\* glTexImage2D: the texels are read now, and the source of a named texture is
\* remembered; only a large one is read again later.
TexImage2D(large) ==
    LET t == bound_texture IN
    /\ t \in Layers
    /\ Push(Upload(t, mem[t], view.bind[view.active]))
    /\ texsrcs' = [texsrcs EXCEPT ![t] =
            [dirty_check |-> large /\ t \notin gpu_textures, hash |-> mem[t]]]
    /\ UNCHANGED <<gpu_textures, bound_texture>>

\* The same for a level other than 0: queued under the name, not recorded.
TexImageLevel ==
    /\ bound_texture \in Layers
    /\ Push(Request("level", bound_texture))
    /\ UNCHANGED <<texsrcs, gpu_textures, bound_texture>>

\* glTexImage2D without texels forgets the source.
TexImage2DNull ==
    LET t == bound_texture IN
    /\ t \in Layers
    /\ Push(Request("patch", NoTexture))
    /\ texsrcs' = [texsrcs EXCEPT ![t] = NoSource]
    /\ UNCHANGED <<gpu_textures, bound_texture>>

\* The uploads that no source is recorded for.
OtherUpload ==
    /\ Push(Request("patch", NoTexture))
    /\ UNCHANGED <<texsrcs, gpu_textures, bound_texture>>

\* Mutant: the attachment does not end the tracking of the texture's source.
FramebufferTexture2DUntracked(t) ==
    /\ Push(Request("attach", t))
    /\ UNCHANGED <<texsrcs, gpu_textures, bound_texture>>

\* glFramebufferTexture2D: from here on the GPU makes the texture's content.
FramebufferTexture2D(t) ==
    /\ Push(Request("attach", t))
    /\ gpu_textures' = gpu_textures \cup {t}
    /\ texsrcs' = [texsrcs EXCEPT ![t].dirty_check = FALSE]
    /\ UNCHANGED bound_texture

\* A draw that samples the texture on unit u.
Draw(u) ==
    /\ Push(DrawWith(u, view.bind[u], view.bind[u] \in view.gpu))
    /\ UNCHANGED <<texsrcs, gpu_textures, bound_texture>>

\* glDeleteTextures forgets the texture at once; the binding is not looked at.
DeleteTextures(t) ==
    /\ Push(Request("delete", t))
    /\ texsrcs' = [texsrcs EXCEPT ![t] = NoSource]
    /\ gpu_textures' = gpu_textures \ {t}
    /\ UNCHANGED bound_texture

\* The draws of an image that shows nothing due at a swap.
Shown(h) == {[d EXCEPT !.due = FALSE] : d \in h.drawn}

\* A query executes the queue as it stands.
Query ==
    LET h == Flushed(Host, frame_q) IN
    /\ FrameFlush(h)
    /\ drawn' = Shown(h)
    /\ UNCHANGED <<resync, mem, texsrcs, gpu_textures, bound_texture, bound_at_swap,
                   view>>

\* glGenTextures is a query that also forgets what was known of the name.
GenTextures(t) ==
    LET h == Flushed(Host, frame_q) IN
    /\ h.tex[t] = Undefined /\ \A u \in Units : h.bind[u] # t
    /\ FrameFlush(h)
    /\ drawn' = Shown(h)
    /\ texsrcs' = [texsrcs EXCEPT ![t] = NoSource]
    /\ gpu_textures' = gpu_textures \ {t}
    /\ UNCHANGED <<resync, mem, bound_texture, bound_at_swap, view>>

----------------------------------------------------------------------------
(* eglSwapBuffers *)

Tracked(t) == texsrcs[t].dirty_check /\ t \notin gpu_textures

\* Mutant: queued uploads keep the texels they were made with.
RereadNever(r) == r

\* The first loop of sync_large_textures: queued uploads are read again.
Reread(r) ==
    IF r.op = "upload" /\ Tracked(r.tex) THEN [r EXCEPT !.texels = mem[r.tex]] ELSE r

\* That loop takes every level for an upload of the texture, and the hash of
\* the last one.
Queued(op, t) == {i \in DOMAIN frame_q : frame_q[i].op = op /\ frame_q[i].tex = t}
UploadedThisFrame(t) == Queued("upload", t) \cup Queued("level", t) # {}
LevelLast(t) == \E i \in Queued("level", t) : \A j \in Queued("upload", t) : j < i

\* The second loop: the textures of earlier frames, when their bytes changed.
Resynced == {t \in Textures : /\ resync /\ Tracked(t)
                              /\ ~UploadedThisFrame(t) /\ texsrcs[t].hash # mem[t]}

\* Mutant: a re-upload leaves its texture bound.
ReuploadLeavesBound(t) == <<Request("bind", t), Upload(t, mem[t], t)>>

Reupload(t) == <<Request("bind", t), Upload(t, mem[t], t), Request("bind", bound_at_swap)>>

\* The re-uploads stand in front of the queue, in the order of the hash table,
\* which is any.
Orders(S) == {f \in [1..Cardinality(S) -> S] : \A t \in S : \E i \in DOMAIN f : f[i] = t}

Reuploaded(order) ==
    LET image[n \in 0..Len(order)] ==
            IF n = 0 THEN Host ELSE Flushed(image[n - 1], Reupload(order[n]))
    IN image

\* They bind on the unit that the last replay left active, and put back the
\* binding of the last swap: off, unless that is what they found.
Misplaced ==
    IF Resynced # {} /\ host.bind[host.active] # bound_at_swap
    THEN host.off \cup {host.active} ELSE host.off

\* The image after the queue that sync_large_textures leaves.
SyncLargeTextures(order) ==
    Flushed([Reuploaded(order)[Len(order)] EXCEPT !.off = Misplaced],
            [i \in DOMAIN frame_q |-> Reread(frame_q[i])])

SwapBuffers(h) ==
    /\ FrameFlush(h)
    /\ drawn' = {[d EXCEPT !.due = @ \/ (resync /\ ~UploadedThisFrame(d.tex))] :
                    d \in h.drawn}
    /\ texsrcs' = [t \in Textures |->
            IF Tracked(t) /\ LevelLast(t) THEN [texsrcs[t] EXCEPT !.hash = Level]
            ELSE IF t \in Resynced \/ (Tracked(t) /\ UploadedThisFrame(t))
            THEN [texsrcs[t] EXCEPT !.hash = mem[t]] ELSE texsrcs[t]]
    /\ bound_at_swap' = bound_texture
    /\ UNCHANGED <<resync, mem, gpu_textures, bound_texture, view>>

Next ==
    \/ \E t \in Names : BindTexture(t)
    \/ \E u \in Units : ActiveTexture(u) \/ Draw(u)
    \/ \E t \in Layers : \/ GuestWrite(t) \/ DeleteTextures(t)
                         \/ FramebufferTexture2D(t) \/ GenTextures(t)
    \/ \E large \in BOOLEAN : TexImage2D(large)
    \/ TexImageLevel \/ TexImage2DNull \/ OtherUpload \/ Query
    \/ \E order \in Orders(Resynced) : SwapBuffers(SyncLargeTextures(order))

Spec == Init /\ [][Next]_glframe
----------------------------------------------------------------------------
(* Properties *)

\* A frame shows a large texture as guest memory holds it when the frame is
\* swapped, although the firmware went on drawing after the upload call: if the
\* texture was uploaded in what the swap replays, or if it was uploaded earlier
\* and GARMIN_GL_RESYNC is set (sync_large_textures).  A texture is left out
\* while it does not hold what was recorded under its name, because its upload
\* went to the binding of another unit or part of it was changed.
FreshAtSwap ==
    \A d \in drawn : d.due /\ d.tex \in Textures /\ Tracked(d.tex)
                        => d.texels \in {mem[d.tex], Other}

\* A draw is carried out with the texture that was bound on its unit when the
\* firmware made the call.  Only a unit on which a re-upload of GARMIN_GL_RESYNC
\* found another binding than the last swap's and did not put it back is left
\* out, until the firmware binds there again.
DrawBinding == \A d \in drawn : d.off \/ d.tex = d.meant

\* What the GPU renders into a texture that is attached to a framebuffer is not
\* overwritten with the source recorded for the texture until the firmware
\* uploads to it again (gpu_textures).  Textures filled by glCopyTexImage2D are
\* not in gpu_textures and are not protected.
GpuKept == \A d \in drawn : d.gpu /\ ~d.off => d.texels \in {Gpu, Other}
=============================================================================
