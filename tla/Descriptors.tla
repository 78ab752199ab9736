----------------------------- MODULE Descriptors -----------------------------
(***************************************************************************)
(* The segment and interrupt descriptor tables: the encoding of entries    *)
(* byte by byte, the two setup functions, the loading of the tables and of *)
(* the segment registers, where the assembler has put the interrupt stubs, *)
(* and how the CPU reads what has been encoded.                            *)
(***************************************************************************)
EXTENDS Kernel

CONSTANT Stubs   \* addresses of system_idt_isr_stub_0, as four 16-bit words

\* The section of the stubs is aligned to 16 bytes.
ASSUME StubsAssumption == \A a \in Stubs : Len(a) = 4 /\ a[1] % 16 = 0

VARIABLES
  gdt,      \* system_gdt.data, eight bytes per segment
  idt,      \* system_idt.data, eight 16-bit words per gate
  stub,     \* system_idt_isr_stub_0
  cpu       \* interrupt flag, limits of the loaded tables, segment registers

KCODE_SEGMENT == 1
KDATA_SEGMENT == 2
UDATA_SEGMENT == 3
UCODE_SEGMENT == 4
SEGMENT_COUNT == 5
IDT_ENTRIES   == 256

SEGMENT_SELECTOR(index, rpl) == index * 8 + rpl

SEGFLAG_LONG_MODE   == 2
SEGFLAG_DB          == 4
SEGFLAG_GRANULARITY == 8

Entry(base, limit, access, flags) ==
  [base |-> base, limit |-> limit, access_byte |-> access, flags |-> flags]

\* The entries; the one that is not named is zero.
system_gdt ==
  [index \in 0 .. SEGMENT_COUNT - 1 |->
     CASE index = KCODE_SEGMENT ->
            Entry(0, 1048575, 154, SEGFLAG_LONG_MODE + SEGFLAG_GRANULARITY)
       [] index = KDATA_SEGMENT -> Entry(0, 1048575, 146, SEGFLAG_DB + SEGFLAG_GRANULARITY)
       [] index = UDATA_SEGMENT -> Entry(0, 1048575, 242, SEGFLAG_DB + SEGFLAG_GRANULARITY)
       [] index = UCODE_SEGMENT ->
            Entry(0, 1048575, 250, SEGFLAG_LONG_MODE + SEGFLAG_GRANULARITY)
       [] OTHER -> Entry(0, 0, 0, 0)]

\* (value >> shift) & (2^bits - 1)
Bits(value, shift, bits) == (value \div 2 ^ shift) % 2 ^ bits

-----------------------------------------------------------------------------
(* The segment descriptors                                                 *)

\* Bug variant: the flags are not moved to the upper half of their byte.
EncodeSegmentFlagsLow(target, e) ==
  [target EXCEPT ![0] = Bits(e.limit, 0, 8), ![1] = Bits(e.limit, 8, 8),
                 ![5] = e.access_byte, ![6] = Bits(e.limit, 16, 4) + e.flags]

\* system_gdt_entry_encode on the eight bytes of the target, in the order of the
\* assignments: byte 6 is written twice.
EncodeSegment(target, e) ==
  [target EXCEPT ![0] = Bits(e.limit, 0, 8), ![1] = Bits(e.limit, 8, 8),
                 ![6] = Bits(e.limit, 16, 4),
                 ![2] = Bits(e.base, 0, 8), ![3] = Bits(e.base, 8, 8),
                 ![4] = Bits(e.base, 16, 8), ![7] = Bits(e.base, 24, 8),
                 ![5] = e.access_byte, ![6] = Bits(e.flags * 16, 0, 8)]

LoadSelectors ==
  [cs |-> SEGMENT_SELECTOR(KCODE_SEGMENT, 0), ds |-> SEGMENT_SELECTOR(KDATA_SEGMENT, 0),
   es |-> SEGMENT_SELECTOR(KDATA_SEGMENT, 0), ss |-> SEGMENT_SELECTOR(KDATA_SEGMENT, 0),
   fs |-> 0, gs |-> 0]

\* lgdt with the size of the data minus one, then the segment registers.
system_gdt_load ==
  cpu' = [cpu EXCEPT !.gdt_limit = SEGMENT_COUNT * 8 - 1, !.segments = LoadSelectors]

system_gdt_setup ==
  /\ pc = "gdt"
  /\ IF \E index \in DOMAIN system_gdt : system_gdt[index].limit > 1048575
     THEN hcf /\ UNCHANGED <<gdt, cpu>>
     ELSE /\ gdt' = [index \in DOMAIN gdt |-> EncodeSegment(gdt[index], system_gdt[index])]
          /\ system_gdt_load
          /\ GoTo("idt")
  /\ UNCHANGED <<idt, stub>>

-----------------------------------------------------------------------------
(* The interrupt gates                                                     *)

\* An address n bytes further on, with the carries between its words.
Plus(a, n) ==
  LET s1 == a[1] + n
      s2 == a[2] + s1 \div 65536
      s3 == a[3] + s2 \div 65536
      s4 == a[4] + s3 \div 65536
  IN  <<s1 % 65536, s2 % 65536, s3 % 65536, s4 % 65536>>

\* system_idt_entry_encode; bytes 4 and 5 are the third word.
EncodeGate(offset, selector, ist, flags) ==
  <<offset[1], selector, (ist % 8) + 256 * flags, offset[2], offset[3], offset[4], 0, 0>>

\* Interrupt gate, descriptor privilege level, present.
GateFlags(dpl) == 14 + (dpl % 4) * 32 + 128

system_idt_interrupt_entry(vector, handler, dpl, ist) ==
  EncodeGate(handler, SEGMENT_SELECTOR(KCODE_SEGMENT, 0), ist, GateFlags(dpl))

\* All gates, then lidt; only the address of the first stub is known.
system_idt_setup ==
  /\ pc = "idt"
  /\ idt' = [vector \in DOMAIN idt |->
               system_idt_interrupt_entry(vector, Plus(stub, vector * 16), 0, 0)]
  /\ cpu' = [cpu EXCEPT !.idt_limit = IDT_ENTRIES * 16 - 1]
  /\ GoTo("sti")
  /\ UNCHANGED <<gdt, stub>>

-----------------------------------------------------------------------------
(* The stubs                                                               *)

\* Vectors whose stub is made by ISR_ERR.
StubErrorVectors == 10 .. 14 \cup {8, 17, 21, 29, 30}

\* The size of a stub: two pushes, or one where the CPU has pushed an error code,
\* of a byte or of a doubleword, and the jump.
StubSize(vector) ==
  (IF vector \in StubErrorVectors THEN 0 ELSE 2) + (IF vector < 128 THEN 2 ELSE 5) + 5

\* Bug variant: .align 8
Align8(n) == ((n + 7) \div 8) * 8

\* .align 16
Align(n) == ((n + 15) \div 16) * 16

\* Where the assembler puts the stubs, from the first one: each begins at the next
\* multiple of 16 after the end of the one before.
StubOffset[vector \in 0 .. IDT_ENTRIES - 1] ==
  IF vector = 0 THEN 0 ELSE Align(StubOffset[vector - 1] + StubSize(vector - 1))

\* The stub of a vector pushes a 0 in place of the error code and the vector.
StubPushes(vector) ==
  (IF vector \in StubErrorVectors THEN <<>> ELSE <<<<"code", 0>>>>) \o <<<<"vector", vector>>>>

\* The data of both tables is zero at the start; the bootloader's tables are loaded.
DescriptorsInit ==
  /\ stub \in Stubs
  /\ gdt = [index \in 0 .. SEGMENT_COUNT - 1 |-> [byte \in 0 .. 7 |-> 0]]
  /\ idt = [vector \in 0 .. IDT_ENTRIES - 1 |-> <<0, 0, 0, 0, 0, 0, 0, 0>>]
  /\ cpu = [if |-> FALSE, gdt_limit |-> -1, idt_limit |-> -1, segments |-> [r \in {} |-> 0]]

-----------------------------------------------------------------------------
(* How the CPU reads a descriptor                                          *)

Segment(index) ==
  LET d == gdt[index]
  IN  [base   |-> d[2] + d[3] * 256 + d[4] * 65536 + d[7] * 16777216,
       limit  |-> d[0] + d[1] * 256 + (d[6] % 16) * 65536,
       access |-> d[5],
       flags  |-> d[6] \div 16]

Present(s) == Bits(s.access, 7, 1) = 1
Dpl(s)     == Bits(s.access, 5, 2)
IsCode(s)  == Present(s) /\ Bits(s.access, 3, 2) = 3 /\ Bits(s.flags, 1, 2) = 1
IsData(s)  == Present(s) /\ Bits(s.access, 3, 2) = 2 /\ Bits(s.access, 1, 1) = 1

Gate(vector) ==
  LET w == idt[vector]
  IN  [offset |-> <<w[1], w[4], w[5], w[6]>>, selector |-> w[2], type |-> Bits(w[3], 8, 4),
       present |-> Bits(w[3], 15, 1) = 1]

\* The CPU follows a present interrupt gate inside the loaded table to code of
\* ring 0.
GateWorks(vector) ==
  LET g == Gate(vector)
      s == Segment(g.selector \div 8)
  IN  /\ vector * 16 + 15 <= cpu.idt_limit
      /\ g.present /\ g.type = 14
      /\ g.selector + 7 <= cpu.gdt_limit /\ IsCode(s) /\ Dpl(s) = 0

\* The gate of a vector leads to the vector's own stub.
LeadsToStub(vector) ==
  GateWorks(vector) /\ Gate(vector).offset = Plus(stub, StubOffset[vector])

-----------------------------------------------------------------------------
(* Correctness property                                                    *)

\* What system_gdt_load has put into the segment registers lies in the table and is
\* what the CPU asks for: 64-bit code of ring 0, writable data of ring 0; the user's
\* segments have ring 3, and all of them the base of their entry.
SegmentsUsable ==
  cpu.gdt_limit # -1 =>
    /\ \A r \in {"cs", "ds", "es", "ss"} : cpu.segments[r] + 7 <= cpu.gdt_limit
    /\ IsCode(Segment(cpu.segments.cs \div 8)) /\ Dpl(Segment(cpu.segments.cs \div 8)) = 0
    /\ \A r \in {"ds", "es", "ss"} :
         IsData(Segment(cpu.segments[r] \div 8)) /\ Dpl(Segment(cpu.segments[r] \div 8)) = 0
    /\ IsCode(Segment(UCODE_SEGMENT)) /\ Dpl(Segment(UCODE_SEGMENT)) = 3
    /\ IsData(Segment(UDATA_SEGMENT)) /\ Dpl(Segment(UDATA_SEGMENT)) = 3
    /\ \A index \in DOMAIN gdt : Segment(index).base = system_gdt[index].base

=============================================================================
