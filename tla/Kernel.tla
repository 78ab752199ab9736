------------------------------- MODULE Kernel -------------------------------
(***************************************************************************)
(* What the parts of the boot share: where the kernel is, which of its     *)
(* requests the bootloader has answered, and the halt.                     *)
(***************************************************************************)
EXTENDS Integers, Sequences

\* What the kernel asks the bootloader for.
Requests == {"memmap", "hhdm", "exe_addr", "rsdp", "framebuffer"}

VARIABLES
  pc,        \* the next step of kmain, "handler" or "hcf"
  answered   \* the requests that the bootloader has answered

GoTo(step) == pc' = step

\* kpanic, a failed kassert and hcf do not return.
hcf == GoTo("hcf")

=============================================================================
