------------------------------ MODULE MCDispc ------------------------------
(* One output of each control register, two frame buffers and two frames.  *)
EXTENDS Dispc

MCRegisters == {{"TV"}, {"LCD2"}}
=============================================================================
