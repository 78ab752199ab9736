------------------------------ MODULE MCSerial ------------------------------
(***************************************************************************)
(* Short messages of distinct bytes for TLC, and a FIFO that they overrun. *)
(***************************************************************************)
EXTENDS Serial

MCMessages == {<<1, 2, 3>>}
MCPanicMessage == <<11, 12>>
MCInterruptMessage == <<21, 22>>
MCInput == <<31, 32, 33, 34>>

=============================================================================
