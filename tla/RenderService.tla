--------------------------- MODULE RenderService ---------------------------
(***************************************************************************)
(* What the GL hooks promise the firmware: the calls it issues are carried *)
(* out one at a time in the order it issued them, a call that needs an     *)
(* answer comes back only when every earlier call has been carried out,    *)
(* and nothing is carried out behind the firmware's back.                  *)
(***************************************************************************)
EXTENDS Sequences

CONSTANTS
    Queued,     \* calls that return at once
    Answered    \* calls that wait for their answer

VARIABLES
    backlog,    \* calls issued and not carried out
    waiting     \* the firmware is inside a call that needs an answer

service == <<backlog, waiting>>

ServiceInit == backlog = <<>> /\ waiting = FALSE

Issue(c) ==
    /\ ~waiting
    /\ backlog' = Append(backlog, c)
    /\ waiting' = (c \in Answered)

Execute ==
    /\ waiting /\ backlog # <<>>
    /\ backlog' = Tail(backlog)
    /\ UNCHANGED waiting

Return ==
    /\ waiting /\ backlog = <<>>
    /\ waiting' = FALSE
    /\ UNCHANGED backlog

ServiceNext == (\E c \in Queued \cup Answered : Issue(c)) \/ Execute \/ Return

ServiceSpec == ServiceInit /\ [][ServiceNext]_service
=============================================================================
