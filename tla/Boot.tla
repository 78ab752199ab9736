-------------------------------- MODULE Boot --------------------------------
(***************************************************************************)
(* kmain and system_setup, with interrupts at any step: the order in which *)
(* streams, descriptor tables and the interrupt flag are set up, the       *)
(* programming of the legacy interrupt controllers, the stubs and the      *)
(* handler of interrupts, and the halt after a panic.  The descriptor      *)
(* tables and ACPI are the actions of Descriptors and Acpi; the inside of  *)
(* the paging setup is in PhysicalMemory and PageTables.                   *)
(***************************************************************************)
EXTENDS Descriptors, Acpi, SequencesExt

CONSTANTS
  Exceptions,  \* vectors that the CPU can raise by itself, NMI included
  IrqLines     \* lines of an interrupt controller with a device

ASSUME BootConstants == Exceptions \subseteq 0 .. 31 /\ IrqLines \subseteq 0 .. 7

VARIABLES
  pic,       \* the two interrupt controllers
  writes,    \* writes to them so far
  streams,   \* kpanic and printf have an output stream
  taken,     \* the last interrupt
  frame      \* what its handler sees on the stack

tableVars == <<gdt, idt, stub>>
acpiVars  == <<firmware, system_acpi, got>>
devVars   == <<pic, writes, streams>>
irqVars   == <<taken, frame>>
vars      == <<pc, answered, cpu, tableVars, acpiVars, devVars, irqVars>>

Nothing == [cause |-> "none", vector |-> 0, code |-> 0, at |-> "none"]

-----------------------------------------------------------------------------
(* Interrupts                                                              *)

\* Vectors with which the CPU pushes an error code.
CpuErrorVectors == {8, 10, 11, 12, 13, 14, 17, 21, 29, 30}

CpuPushes(t) ==
  <<<<"ss", 0>>, <<"rsp", 0>>, <<"rflags", 0>>, <<"cs", 0>>, <<"rip", 0>>>>
  \o (IF t.cause # "irq" /\ t.vector \in CpuErrorVectors THEN <<<<"code", t.code>>>> ELSE <<>>)

\* system_idt_interrupt_stub
system_idt_interrupt_stub ==
  <<"rax", "rbx", "rcx", "rdx", "rsi", "rdi", "rbp", "r8", "r9", "r10", "r11", "r12", "r13",
    "r14", "r15">>

\* The fields of the struct, from the stack pointer upwards.
System_Idt_Interrupt_Stack_Frame ==
  <<"r15", "r14", "r13", "r12", "r11", "r10", "r9", "r8", "rbp", "rdi", "rsi", "rdx", "rcx",
    "rbx", "rax", "vector", "error_code", "rip", "cs", "rflags", "rsp", "ss">>

\* The fields of the struct over what has been pushed.
FrameOf(t, pushes) ==
  LET registers == [k \in DOMAIN system_idt_interrupt_stub |-> <<system_idt_interrupt_stub[k], 0>>]
      stack     == Reverse(CpuPushes(t) \o pushes \o registers)
      fields    == System_Idt_Interrupt_Stack_Frame
  IN  [f \in ToSet(fields) |->
         LET k == CHOOSE k \in DOMAIN fields : fields[k] = f
         IN  IF k <= Len(stack) THEN stack[k] ELSE <<"beyond", 0>>]

\* What a gate that leads elsewhere makes the CPU execute is not known.
PushesBehind(vector) == IF LeadsToStub(vector) THEN StubPushes(vector) ELSE <<>>

\* The CPU goes through the gate, which switches interrupts off, and the stub.
Take(t) ==
  /\ cpu.idt_limit # -1
  /\ taken' = t /\ frame' = FrameOf(t, PushesBehind(t.vector))
  /\ cpu' = [cpu EXCEPT !.if = FALSE]
  /\ GoTo("handler")
  /\ UNCHANGED <<answered, tableVars, acpiVars, devVars>>

Interrupted(cause, vector, code) ==
  Take([cause |-> cause, vector |-> vector, code |-> code, at |-> pc])

\* An exception or NMI, at any step; before system_idt_setup the bootloader's
\* table is in place, and what happens then is not modelled.
Exception(vector) ==
  \E code \in IF vector \in CpuErrorVectors THEN {0, 5} ELSE {0} :
    Interrupted("exception", vector, code)

\* A chip passes a line on once its four initialisation words are complete; the
\* second chip goes through line 2 of the first.
Delivers(chip) ==
  /\ pic[chip].icw = 0 /\ ~ pic[chip].masked
  /\ chip = "slave" => pic["master"].icw = 0 /\ ~ pic["master"].masked

Irq(chip, line) ==
  /\ cpu.if /\ Delivers(chip)
  /\ Interrupted("irq", pic[chip].base + line, 0)

\* The handler prints the frame and panics; it never returns to the stub.
system_idt_interrupt_handler ==
  /\ pc = "handler"
  /\ hcf
  /\ UNCHANGED <<answered, cpu, tableVars, acpiVars, devVars, irqVars>>

-----------------------------------------------------------------------------
(* kmain and system_setup                                                  *)

\* A step that only goes on.
Goes(from, to) ==
  /\ pc = from /\ GoTo(to)
  /\ UNCHANGED <<answered, cpu, tableVars, acpiVars, devVars, irqVars>>

\* kpanic and kassert, and the tests of kmain that end in hcf.
Stops(from) == Goes(from, "hcf")

\* A response that is not there is read through NULL.
ReadsNULL(from, request) ==
  pc = from /\ request \notin answered /\ Interrupted("NULL", 14, 0)

serial_init == Goes("serial_init", "set_output_stream") \/ Stops("serial_init")

set_output_stream ==
  /\ pc = "set_output_stream"
  /\ streams' = [kpanic |-> TRUE, printf |-> TRUE]
  /\ GoTo("cli")
  /\ UNCHANGED <<answered, cpu, tableVars, acpiVars, pic, writes, irqVars>>

asm_disable_interrupts ==
  /\ pc = "cli"
  /\ cpu' = [cpu EXCEPT !.if = FALSE]
  /\ GoTo("gdt")
  /\ UNCHANGED <<answered, tableVars, acpiVars, devVars, irqVars>>

\* The steps that only change the descriptor tables and the CPU.
DescriptorStep ==
  /\ system_gdt_setup \/ system_idt_setup
  /\ UNCHANGED <<answered, acpiVars, devVars, irqVars>>

asm_enable_interrupts ==
  /\ pc = "sti"
  /\ cpu' = [cpu EXCEPT !.if = TRUE]
  /\ GoTo("paging")
  /\ UNCHANGED <<answered, tableVars, acpiVars, devVars, irqVars>>

\* kassert on the memory map; the other two responses are just read.
system_paging_setup ==
  \/ "memmap" \notin answered /\ Stops("paging")
  \/ "memmap" \in answered /\ (ReadsNULL("paging", "hhdm") \/ ReadsNULL("paging", "exe_addr"))
  \/ {"memmap", "hhdm", "exe_addr"} \subseteq answered
       /\ (Goes("paging", "acpi") \/ Stops("paging"))

\* The steps that only change what is known of ACPI.
AcpiStep ==
  /\ system_acpi_setup \/ \E item \in -1 .. MaxItem : system_acpi_sdt_get(item)
  /\ UNCHANGED <<answered, cpu, tableVars, devVars, irqVars>>

\* The initialisation words that system_apic_pic_disable sends to both chips.
PicInit ==
  << <<"master", "command", 17>>, <<"slave", "command", 17>>, <<"master", "data", 32>>,
     <<"slave", "data", 40>>, <<"master", "data", 4>>, <<"slave", "data", 2>>,
     <<"master", "data", 1>>, <<"slave", "data", 1>> >>

\* Bug variant: only the second chip is masked.
PicWritesMasterOpen == Append(PicInit, <<"slave", "data", 255>>)

PicWrites == PicInit \o << <<"master", "data", 255>>, <<"slave", "data", 255>> >>

\* The 8259: the first word clears the mask and opens the initialisation; the
\* next three are the vector base, the cascade and the mode; then the mask.
PicWrite(chip, port, value) ==
  CASE port = "command" -> [chip EXCEPT !.icw = 2, !.masked = FALSE]
    [] port = "data" /\ chip.icw = 2 -> [chip EXCEPT !.icw = 3, !.base = value]
    [] port = "data" /\ chip.icw = 3 -> [chip EXCEPT !.icw = 4]
    [] port = "data" /\ chip.icw = 4 -> [chip EXCEPT !.icw = 0]
    [] port = "data" /\ chip.icw = 0 -> [chip EXCEPT !.masked = value = 255]

system_apic_pic_disable ==
  /\ pc = "pic" /\ writes < Len(PicWrites)
  /\ LET w == PicWrites[writes + 1] IN pic' = [pic EXCEPT ![w[1]] = PicWrite(@, w[2], w[3])]
  /\ writes' = writes + 1
  /\ UNCHANGED <<pc, answered, cpu, tableVars, acpiVars, streams, irqVars>>

\* The rest of system_apic_setup panics if the MSR says that the APIC is off.
system_apic_setup == writes = Len(PicWrites) /\ (Goes("pic", "revision") \/ Stops("pic"))

\* The base revision is tested, then the framebuffer; the kernel paints and spins.
kmain ==
  \/ Goes("revision", "framebuffer") \/ Stops("revision")
  \/ "framebuffer" \in answered /\ Goes("framebuffer", "spin")
  \/ Stops("framebuffer")

\* hcf and the loop at the end of kmain.
Idle == pc \in {"hcf", "spin"} /\ UNCHANGED vars

\* As Limine enters the kernel: interrupts off, controllers masked.
Init ==
  /\ pc = "serial_init"
  /\ answered \in SUBSET Requests
  /\ DescriptorsInit /\ AcpiInit
  /\ \E base \in {8, 32} :
       pic = [master |-> [icw |-> 0, masked |-> TRUE, base |-> base],
              slave  |-> [icw |-> 0, masked |-> TRUE, base |-> 112]]
  /\ writes = 0
  /\ streams = [kpanic |-> FALSE, printf |-> FALSE]
  /\ taken = Nothing /\ frame = FrameOf(Nothing, <<>>)

Next ==
  \/ serial_init \/ set_output_stream
  \/ asm_disable_interrupts \/ DescriptorStep \/ asm_enable_interrupts
  \/ system_paging_setup \/ AcpiStep \/ system_apic_pic_disable \/ system_apic_setup
  \/ kmain \/ Idle
  \/ system_idt_interrupt_handler
  \/ \E vector \in Exceptions : Exception(vector)
  \/ \E chip \in {"master", "slave"}, line \in IrqLines : Irq(chip, line)

Spec == Init /\ [][Next]_vars

-----------------------------------------------------------------------------
(* Correctness properties, with those of Descriptors and Acpi              *)

\* An interrupt of any vector, taken at any step, reaches its own stub through the
\* gate as the CPU decodes it, and the handler finds every register, the vector and
\* the error code in the field of its name, pushed by the CPU or not; its output and
\* that of its kpanic have a stream to go to.
FrameMatchesCpu ==
  pc = "handler" =>
    /\ streams.kpanic /\ streams.printf
    /\ frame["vector"] = <<"vector", taken.vector>>
    /\ frame["error_code"] = <<"code", taken.code>>
    /\ \A f \in DOMAIN frame \ {"vector", "error_code"} : frame[f] = <<f, 0>>

\* Though interrupts are on long before, the interrupt of a device, which the handler
\* answers with a panic, can only come between the last initialisation word of the
\* first chip and its mask, and is never taken for an exception of the CPU.
IrqOnlyInPicWindow ==
  taken.cause = "irq" => taken.at = "pic" /\ writes \in {7, 8} /\ taken.vector \in 32 .. 47

=============================================================================
