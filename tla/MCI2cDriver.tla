---------------------------- MODULE MCI2cDriver ----------------------------
(* The I2C driver for TLC: writes of one to three bytes with and without   *)
(* STOP, to a slave and to nobody, reads of one and two bytes; the FIFO    *)
(* has two bytes, so that the longest write does not fit it.               *)
EXTENDS I2cDriver

MCOuts == {<<"a">>, <<"a", "b">>, <<"a", "b", "b">>}
MCJobs ==
    [addr : Addrs, out : MCOuts, n : {0}, stop : BOOLEAN]
      \cup [addr : Addrs, out : {<<>>}, n : {1, 2}, stop : {TRUE}]
MCBytes == {"a", "b"}
MCCounts == {1, 2, 3}
=============================================================================
