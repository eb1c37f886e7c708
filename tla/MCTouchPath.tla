---------------------------- MODULE MCTouchPath ----------------------------
(* The touch path for TLC: two frames of two bytes, a minimum hold of two  *)
(* repeat periods, commands of one or two chunks, one pin.                 *)
EXTENDS TouchPath

Ch(is03, n, decl, twice) ==
    [is03 |-> is03, n |-> n, decl |-> decl, twice |-> twice]

(* A command in one chunk, answered twice; the first and the last chunk of *)
(* a longer command; a write that is not a command.                        *)
MCChunks ==
    {Ch(TRUE, 3, 1, TRUE), Ch(TRUE, 3, 2, FALSE), Ch(TRUE, 1, 1, FALSE),
     Ch(FALSE, 0, 0, FALSE)}
MCReadLens == {1, 2}
MCPinMasks == {{PIN}}
=============================================================================
