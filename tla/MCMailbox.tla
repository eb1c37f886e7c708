----------------------------- MODULE MCMailbox -----------------------------
(* The mailbox and its echo protocol for TLC: the two mailboxes the        *)
(* protocol uses and a third one, FIFOs of two words; the guest writes the *)
(* client's interrupt bit, its room bit or all bits to an IRQ register.    *)
EXTENDS MailboxEcho

MCMasks == {{NEWMSG(RX)}, {NOTFULL(TX)}, Bits}
=============================================================================
