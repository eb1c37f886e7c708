------------------------------- MODULE MCSgx -------------------------------
(* Two tasks that share a render context and two that share a transfer     *)
(* context; both contexts use the same texture and screen.                 *)
EXTENDS Sgx, TLC

CONSTANTS r, x, t1, t2, t3, t4

MCCtx == (t1 :> r) @@ (t2 :> r) @@ (t3 :> x) @@ (t4 :> x)
MCControls == {"cleanup"}
Interchangeable ==
    {p @@ q : p \in Permutations({t1, t2}), q \in Permutations({t3, t4})}
=============================================================================
