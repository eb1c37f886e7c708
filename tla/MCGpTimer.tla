----------------------------- MODULE MCGpTimer -----------------------------
(* A counter of four values, ticks of two and a half and of five units.    *)
EXTENDS GpTimer

MCValues == {0, 2, 3}
MCIrqMasks == {{"OVF"}, {"MAT", "OVF"}}
=============================================================================
