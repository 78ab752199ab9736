------------------------------ MODULE Library ------------------------------
(***************************************************************************)
(* The routines that the rest of the kernel calls and that call nothing of *)
(* it: the byte loops of Memory and the formatted output of Format.  There *)
(* is one thread of execution, so one of them runs at a time.              *)
(***************************************************************************)
EXTENDS Memory, Format

\* Formatting does not touch the buffers of Memory, so its calls are explored with
\* one content of them.
NoBuffers == call = Idle /\ mem = [a \in Addr |-> 0]

LibraryInit == Init /\ FormatInit

LibraryNext ==
  \/ pc = "idle" /\ Next /\ UNCHANGED formatVars
  \/ NoBuffers /\ FormatNext /\ UNCHANGED vars

LibrarySpec == LibraryInit /\ [][LibraryNext]_<<vars, formatVars>>

=============================================================================
