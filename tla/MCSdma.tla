------------------------------- MODULE MCSdma -------------------------------
(* Two channels, counts around the limits: zero, two steps, more than      *)
(* BURST, and one that wraps.                                              *)
EXTENDS Sdma

MCTotals == {0, 2, 3, 5}
MCChanMasks == SUBSET Chans \ {{}}
=============================================================================
