------------------------------- MODULE MCI2c -------------------------------
(* The I2C master for TLC under any guest: one slave and one address where *)
(* nobody answers, a FIFO of two bytes, transfers of up to three bytes.    *)
EXTENDS I2c

MCMasks == {{"ARDY", "BF", "NACK"}, {"XRDY", "RRDY"}}

MCCons == {{}, {"EN"}, {"EN", "MST", "STT"}, {"EN", "MST", "STT", "STP"},
           {"EN", "MST", "STT", "TRX"}, {"EN", "MST", "STT", "STP", "TRX"}}

(* `wire' is not read by the device: the run leaves its history out.       *)
MCView == <<stat, ie, cnt, con, sa, fifo, pos, tx_remaining, tx_active,
            rx_active, pend_stat, pend_finish, armed, irq, slave>>
=============================================================================
