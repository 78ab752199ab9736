----------------------------- MODULE BootProofs -----------------------------
(***************************************************************************)
(* For every set of exceptions, of devices and of firmware: when the       *)
(* interrupt of a device can be taken, that the segments are usable as     *)
(* soon as they are loaded, that the handler reads every frame as it was   *)
(* pushed, and that ACPI entries are read only from checked tables.        *)
(***************************************************************************)
EXTENDS Boot, SequenceTheorems, WellFoundedInduction, TLAPS

-----------------------------------------------------------------------------
(* The interrupt controllers                                               *)

Chips == {"master", "slave"}
Chip  == [icw : {0, 2, 3, 4}, masked : BOOLEAN, base : Nat]

PicTypeOK ==
  /\ writes \in 0 .. 10
  /\ pic \in [Chips -> Chip]

\* Where the writes have brought the first chip: masked, in its initialisation,
\* open, masked again.
MasterInv ==
  /\ writes = 0 => pic["master"].icw = 0 /\ pic["master"].masked = TRUE
  /\ writes \in {1, 2} => pic["master"].icw = 2
  /\ writes \in {3, 4} => pic["master"].icw = 3
  /\ writes \in {5, 6} => pic["master"].icw = 4
  /\ writes \in {7, 8} => pic["master"].icw = 0
  /\ writes \in {9, 10} => pic["master"].icw = 0 /\ pic["master"].masked = TRUE
  /\ writes \in 3 .. 10 => pic["master"].base = 32

\* The second one follows one write behind.
SlaveInv ==
  /\ writes \in {0, 1} => pic["slave"].icw = 0
  /\ writes \in {2, 3} => pic["slave"].icw = 2
  /\ writes \in {4, 5} => pic["slave"].icw = 3
  /\ writes \in {6, 7} => pic["slave"].icw = 4
  /\ writes \in {8, 9, 10} => pic["slave"].icw = 0
  /\ writes \in 4 .. 10 => pic["slave"].base = 40

BeforePic == {"serial_init", "set_output_stream", "cli", "gdt", "idt", "sti", "paging", "acpi"}

\* The steps of the boot, how far they have come with the controllers, and what an
\* interrupt leaves behind: the controllers are not programmed any more, and
\* interrupts are off for good.
FlowInv ==
  /\ pc \in BeforePic \cup {"pic", "revision", "framebuffer", "spin", "handler", "hcf"}
  /\ pc \in BeforePic => writes = 0
  /\ pc \in {"revision", "framebuffer", "spin"} => writes = 10
  /\ pc = "hcf" /\ cpu.if = TRUE => writes \in {0, 10}
  /\ pc = "handler" => cpu.if = FALSE

\* What an interrupt of a device has come from.
IrqInv ==
  taken.cause = "irq" =>
    /\ pc \in {"handler", "hcf"}
    /\ taken.at = "pic" /\ writes \in {7, 8} /\ taken.vector \in 32 .. 47

\* Only the parts of the CPU's state that the boot sets.
CpuTypeOK ==
  cpu \in [if : BOOLEAN, gdt_limit : {-1, SEGMENT_COUNT * 8 - 1},
           idt_limit : {-1, IDT_ENTRIES * 16 - 1}, segments : {[r \in {} |-> 0], LoadSelectors}]

PicInv == PicTypeOK /\ MasterInv /\ SlaveInv /\ FlowInv /\ IrqInv /\ CpuTypeOK

\* The ten writes, one by one.
LEMMA PicWritesAre ==
  /\ Len(PicWrites) = 10
  /\ PicWrites[1] = <<"master", "command", 17>> /\ PicWrites[2] = <<"slave", "command", 17>>
  /\ PicWrites[3] = <<"master", "data", 32>> /\ PicWrites[4] = <<"slave", "data", 40>>
  /\ PicWrites[5] = <<"master", "data", 4>> /\ PicWrites[6] = <<"slave", "data", 2>>
  /\ PicWrites[7] = <<"master", "data", 1>> /\ PicWrites[8] = <<"slave", "data", 1>>
  /\ PicWrites[9] = <<"master", "data", 255>> /\ PicWrites[10] = <<"slave", "data", 255>>
BY DEF PicWrites, PicInit

\* The first word opens the initialisation.
LEMMA PicCommand ==
  ASSUME NEW chip \in Chip, NEW value \in Nat
  PROVE  PicWrite(chip, "command", value) \in Chip /\ PicWrite(chip, "command", value).icw = 2
BY DEF PicWrite, Chip

\* The next word is the vector base,
LEMMA PicBase ==
  ASSUME NEW chip \in Chip, NEW value \in Nat, chip.icw = 2
  PROVE  /\ PicWrite(chip, "data", value) \in Chip
         /\ PicWrite(chip, "data", value).icw = 3 /\ PicWrite(chip, "data", value).base = value
<1>1. PicWrite(chip, "data", value) = [chip EXCEPT !.icw = 3, !.base = value]
  BY DEF PicWrite
<1> QED BY <1>1 DEF Chip

\* then come the cascade
LEMMA PicCascade ==
  ASSUME NEW chip \in Chip, NEW value \in Nat, chip.icw = 3
  PROVE  /\ PicWrite(chip, "data", value) \in Chip
         /\ PicWrite(chip, "data", value).icw = 4
         /\ PicWrite(chip, "data", value).base = chip.base
BY DEF PicWrite, Chip

\* and the mode, which ends the initialisation.
LEMMA PicMode ==
  ASSUME NEW chip \in Chip, NEW value \in Nat, chip.icw = 4
  PROVE  /\ PicWrite(chip, "data", value) \in Chip
         /\ PicWrite(chip, "data", value).icw = 0
         /\ PicWrite(chip, "data", value).base = chip.base
BY DEF PicWrite, Chip

\* After it, the word is the mask:
LEMMA PicMask ==
  ASSUME NEW chip \in Chip, NEW value \in Nat, chip.icw = 0
  PROVE  /\ PicWrite(chip, "data", value) \in Chip
         /\ PicWrite(chip, "data", value).icw = 0
         /\ PicWrite(chip, "data", value).base = chip.base
<1>1. PicWrite(chip, "data", value) = [chip EXCEPT !.masked = value = 255]
  BY DEF PicWrite
<1>2. PICK mask \in BOOLEAN : mask = (value = 255)
  BY Zenon
<1>3. PicWrite(chip, "data", value) = [chip EXCEPT !.masked = mask]
  BY <1>1, <1>2, Zenon
<1> QED BY <1>3 DEF Chip

\* 0xFF masks every line.
LEMMA PicMasked ==
  ASSUME NEW chip \in Chip, chip.icw = 0
  PROVE  PicWrite(chip, "data", 255).masked = TRUE
<1>1. PicWrite(chip, "data", 255) = [chip EXCEPT !.masked = 255 = 255]
  BY DEF PicWrite
<1>2. (255 = 255) = TRUE
  OBVIOUS
<1>3. PicWrite(chip, "data", 255) = [chip EXCEPT !.masked = TRUE]
  BY <1>1, <1>2, Zenon
<1>4. [chip EXCEPT !.masked = TRUE].masked = TRUE
  BY DEF Chip
<1> QED BY <1>3, <1>4, Zenon

\* Only an open first chip lets an interrupt through, and only with its new vector base.
LEMMA DeliversInWindow ==
  ASSUME PicInv, cpu.if = TRUE, NEW chip \in Chips, Delivers(chip), NEW line \in IrqLines
  PROVE  pc = "pic" /\ writes \in {7, 8} /\ pic[chip].base + line \in 32 .. 47
<1>1. pic["master"].icw = 0 /\ pic["master"].masked = FALSE
  BY DEF Delivers, PicInv, PicTypeOK, Chips
<1>2. writes \in {7, 8}
  BY <1>1 DEF PicInv, PicTypeOK, MasterInv
<1>3. pc = "pic"
  BY <1>2 DEF PicInv, FlowInv
<1>4. CASE chip = "master"
  <2>1. pic[chip].base = 32
    BY <1>2, <1>4 DEF PicInv, MasterInv
  <2> QED BY <2>1, <1>2, <1>3, BootConstants
<1>5. CASE chip = "slave"
  <2>1. pic[chip].base = 40
    BY <1>2, <1>5 DEF PicInv, SlaveInv
  <2> QED BY <2>1, <1>2, <1>3, BootConstants
<1> QED BY <1>4, <1>5 DEF Chips

\* One write to a controller takes both chips to where the next write finds them.
LEMMA PicDisablePreserves ==
  ASSUME PicInv, system_apic_pic_disable
  PROVE  PicInv'
<1> DEFINE n == writes + 1
           w == PicWrites[n]
<1>1. writes \in 0 .. 9 /\ n \in 1 .. 10 /\ pc = "pic"
  BY PicWritesAre DEF PicInv, PicTypeOK, system_apic_pic_disable
<1>2. pic' = [pic EXCEPT ![w[1]] = PicWrite(pic[w[1]], w[2], w[3])] /\ writes' = n
  BY DEF system_apic_pic_disable
<1>3. UNCHANGED <<pc, cpu, taken>>
  BY DEF system_apic_pic_disable, irqVars
<1>4. \A chip \in Chips : pic[chip] \in Chip
  BY DEF PicInv, PicTypeOK
<1>5. w[1] \in Chips /\ w[3] \in Nat
  BY <1>1, PicWritesAre DEF Chips
<1>8. /\ pic' = [chip \in Chips |-> pic'[chip]]
      /\ \A chip \in Chips : chip = w[1] => pic'[chip] = PicWrite(pic[chip], w[2], w[3])
      /\ \A chip \in Chips : chip # w[1] => pic'[chip] = pic[chip]
  BY <1>2, <1>5 DEF PicInv, PicTypeOK
<1>9. "master" # "slave"
  OBVIOUS
<1> HIDE DEF w
<1>6. PicTypeOK' /\ MasterInv' /\ SlaveInv'
  <2>0. CASE writes = 0
    <3> DEFINE chip == PicWrite(pic["master"], "command", w[3])
    <3>1. writes' = 1 /\ w[1] = "master" /\ w[2] = "command" /\ w[3] = 17
      BY <2>0, <1>2, PicWritesAre DEF w
    <3>2. pic["master"] \in Chip
      BY <2>0, <1>4 DEF Chips, PicInv, MasterInv
    <3>3. chip \in Chip /\ chip.icw = 2
      BY <3>1, <3>2, <1>5, PicCommand
    <3>4. pic'["master"] = chip /\ pic'["slave"] = pic["slave"]
      BY <3>1, <1>8, <1>9, Zenon DEF Chips
    <3>5. pic' \in [Chips -> Chip]
      BY <3>3, <3>4, <1>4, <1>8, Zenon DEF Chips
    <3> QED BY <2>0, <3>1, <3>3, <3>4, <3>5 DEF PicInv, PicTypeOK, MasterInv, SlaveInv
  <2>1. CASE writes = 1
    <3> DEFINE chip == PicWrite(pic["slave"], "command", w[3])
    <3>1. writes' = 2 /\ w[1] = "slave" /\ w[2] = "command" /\ w[3] = 17
      BY <2>1, <1>2, PicWritesAre DEF w
    <3>2. pic["slave"] \in Chip
      BY <2>1, <1>4 DEF Chips, PicInv, SlaveInv
    <3>3. chip \in Chip /\ chip.icw = 2
      BY <3>1, <3>2, <1>5, PicCommand
    <3>4. pic'["slave"] = chip /\ pic'["master"] = pic["master"]
      BY <3>1, <1>8, <1>9, Zenon DEF Chips
    <3>5. pic' \in [Chips -> Chip]
      BY <3>3, <3>4, <1>4, <1>8, Zenon DEF Chips
    <3> QED BY <2>1, <3>1, <3>3, <3>4, <3>5 DEF PicInv, PicTypeOK, MasterInv, SlaveInv
  <2>2. CASE writes = 2
    <3> DEFINE chip == PicWrite(pic["master"], "data", w[3])
    <3>1. writes' = 3 /\ w[1] = "master" /\ w[2] = "data" /\ w[3] = 32
      BY <2>2, <1>2, PicWritesAre DEF w
    <3>2. pic["master"] \in Chip /\ pic["master"].icw = 2
      BY <2>2, <1>4 DEF Chips, PicInv, MasterInv
    <3>3. chip \in Chip /\ chip.icw = 3 /\ chip.base = w[3]
      BY <3>1, <3>2, <1>5, PicBase
    <3>4. pic'["master"] = chip /\ pic'["slave"] = pic["slave"]
      BY <3>1, <1>8, <1>9, Zenon DEF Chips
    <3>5. pic' \in [Chips -> Chip]
      BY <3>3, <3>4, <1>4, <1>8, Zenon DEF Chips
    <3> QED BY <2>2, <3>1, <3>3, <3>4, <3>5 DEF PicInv, PicTypeOK, MasterInv, SlaveInv
  <2>3. CASE writes = 3
    <3> DEFINE chip == PicWrite(pic["slave"], "data", w[3])
    <3>1. writes' = 4 /\ w[1] = "slave" /\ w[2] = "data" /\ w[3] = 40
      BY <2>3, <1>2, PicWritesAre DEF w
    <3>2. pic["slave"] \in Chip /\ pic["slave"].icw = 2
      BY <2>3, <1>4 DEF Chips, PicInv, SlaveInv
    <3>3. chip \in Chip /\ chip.icw = 3 /\ chip.base = w[3]
      BY <3>1, <3>2, <1>5, PicBase
    <3>4. pic'["slave"] = chip /\ pic'["master"] = pic["master"]
      BY <3>1, <1>8, <1>9, Zenon DEF Chips
    <3>5. pic' \in [Chips -> Chip]
      BY <3>3, <3>4, <1>4, <1>8, Zenon DEF Chips
    <3> QED BY <2>3, <3>1, <3>3, <3>4, <3>5 DEF PicInv, PicTypeOK, MasterInv, SlaveInv
  <2>4. CASE writes = 4
    <3> DEFINE chip == PicWrite(pic["master"], "data", w[3])
    <3>1. writes' = 5 /\ w[1] = "master" /\ w[2] = "data" /\ w[3] = 4
      BY <2>4, <1>2, PicWritesAre DEF w
    <3>2. pic["master"] \in Chip /\ pic["master"].icw = 3
      BY <2>4, <1>4 DEF Chips, PicInv, MasterInv
    <3>3. chip \in Chip /\ chip.icw = 4 /\ chip.base = pic["master"].base
      BY <3>1, <3>2, <1>5, PicCascade
    <3>4. pic'["master"] = chip /\ pic'["slave"] = pic["slave"]
      BY <3>1, <1>8, <1>9, Zenon DEF Chips
    <3>5. pic' \in [Chips -> Chip]
      BY <3>3, <3>4, <1>4, <1>8, Zenon DEF Chips
    <3> QED BY <2>4, <3>1, <3>3, <3>4, <3>5 DEF PicInv, PicTypeOK, MasterInv, SlaveInv
  <2>5. CASE writes = 5
    <3> DEFINE chip == PicWrite(pic["slave"], "data", w[3])
    <3>1. writes' = 6 /\ w[1] = "slave" /\ w[2] = "data" /\ w[3] = 2
      BY <2>5, <1>2, PicWritesAre DEF w
    <3>2. pic["slave"] \in Chip /\ pic["slave"].icw = 3
      BY <2>5, <1>4 DEF Chips, PicInv, SlaveInv
    <3>3. chip \in Chip /\ chip.icw = 4 /\ chip.base = pic["slave"].base
      BY <3>1, <3>2, <1>5, PicCascade
    <3>4. pic'["slave"] = chip /\ pic'["master"] = pic["master"]
      BY <3>1, <1>8, <1>9, Zenon DEF Chips
    <3>5. pic' \in [Chips -> Chip]
      BY <3>3, <3>4, <1>4, <1>8, Zenon DEF Chips
    <3> QED BY <2>5, <3>1, <3>3, <3>4, <3>5 DEF PicInv, PicTypeOK, MasterInv, SlaveInv
  <2>6. CASE writes = 6
    <3> DEFINE chip == PicWrite(pic["master"], "data", w[3])
    <3>1. writes' = 7 /\ w[1] = "master" /\ w[2] = "data" /\ w[3] = 1
      BY <2>6, <1>2, PicWritesAre DEF w
    <3>2. pic["master"] \in Chip /\ pic["master"].icw = 4
      BY <2>6, <1>4 DEF Chips, PicInv, MasterInv
    <3>3. chip \in Chip /\ chip.icw = 0 /\ chip.base = pic["master"].base
      BY <3>1, <3>2, <1>5, PicMode
    <3>4. pic'["master"] = chip /\ pic'["slave"] = pic["slave"]
      BY <3>1, <1>8, <1>9, Zenon DEF Chips
    <3>5. pic' \in [Chips -> Chip]
      BY <3>3, <3>4, <1>4, <1>8, Zenon DEF Chips
    <3> QED BY <2>6, <3>1, <3>3, <3>4, <3>5 DEF PicInv, PicTypeOK, MasterInv, SlaveInv
  <2>7. CASE writes = 7
    <3> DEFINE chip == PicWrite(pic["slave"], "data", w[3])
    <3>1. writes' = 8 /\ w[1] = "slave" /\ w[2] = "data" /\ w[3] = 1
      BY <2>7, <1>2, PicWritesAre DEF w
    <3>2. pic["slave"] \in Chip /\ pic["slave"].icw = 4
      BY <2>7, <1>4 DEF Chips, PicInv, SlaveInv
    <3>3. chip \in Chip /\ chip.icw = 0 /\ chip.base = pic["slave"].base
      BY <3>1, <3>2, <1>5, PicMode
    <3>4. pic'["slave"] = chip /\ pic'["master"] = pic["master"]
      BY <3>1, <1>8, <1>9, Zenon DEF Chips
    <3>5. pic' \in [Chips -> Chip]
      BY <3>3, <3>4, <1>4, <1>8, Zenon DEF Chips
    <3> QED BY <2>7, <3>1, <3>3, <3>4, <3>5 DEF PicInv, PicTypeOK, MasterInv, SlaveInv
  <2>8. CASE writes = 8
    <3> DEFINE chip == PicWrite(pic["master"], "data", w[3])
    <3>1. writes' = 9 /\ w[1] = "master" /\ w[2] = "data" /\ w[3] = 255
      BY <2>8, <1>2, PicWritesAre DEF w
    <3>2. pic["master"] \in Chip /\ pic["master"].icw = 0
      BY <2>8, <1>4 DEF Chips, PicInv, MasterInv
    <3>3. chip \in Chip /\ chip.icw = 0 /\ chip.base = pic["master"].base /\ chip.masked = TRUE
      <4>1. chip \in Chip /\ chip.icw = 0 /\ chip.base = pic["master"].base
        BY <3>2, <1>5, PicMask
      <4>2. chip.masked = TRUE
        BY <3>1, <3>2, PicMasked
      <4> QED BY <4>1, <4>2
    <3>4. pic'["master"] = chip /\ pic'["slave"] = pic["slave"]
      BY <3>1, <1>8, <1>9, Zenon DEF Chips
    <3>5. pic' \in [Chips -> Chip]
      BY <3>3, <3>4, <1>4, <1>8, Zenon DEF Chips
    <3> QED BY <2>8, <3>1, <3>3, <3>4, <3>5 DEF PicInv, PicTypeOK, MasterInv, SlaveInv
  <2>9. CASE writes = 9
    <3> DEFINE chip == PicWrite(pic["slave"], "data", w[3])
    <3>1. writes' = 10 /\ w[1] = "slave" /\ w[2] = "data" /\ w[3] = 255
      BY <2>9, <1>2, PicWritesAre DEF w
    <3>2. pic["slave"] \in Chip /\ pic["slave"].icw = 0
      BY <2>9, <1>4 DEF Chips, PicInv, SlaveInv
    <3>3. chip \in Chip /\ chip.icw = 0 /\ chip.base = pic["slave"].base
      BY <3>2, <1>5, PicMask
    <3>4. pic'["slave"] = chip /\ pic'["master"] = pic["master"]
      BY <3>1, <1>8, <1>9, Zenon DEF Chips
    <3>5. pic' \in [Chips -> Chip]
      BY <3>3, <3>4, <1>4, <1>8, Zenon DEF Chips
    <3> QED BY <2>9, <3>1, <3>3, <3>4, <3>5 DEF PicInv, PicTypeOK, MasterInv, SlaveInv
  <2>10. \/ writes = 0 \/ writes = 1 \/ writes = 2 \/ writes = 3 \/ writes = 4
         \/ writes = 5 \/ writes = 6 \/ writes = 7 \/ writes = 8 \/ writes = 9
    BY <1>1
  <2> QED BY <2>0, <2>1, <2>2, <2>3, <2>4, <2>5, <2>6, <2>7, <2>8, <2>9, <2>10, Zenon
<1>7. FlowInv' /\ IrqInv' /\ CpuTypeOK'
  BY <1>1, <1>2, <1>3 DEF PicInv, FlowInv, IrqInv, CpuTypeOK, BeforePic
<1> QED BY <1>6, <1>7 DEF PicInv

\* An interrupt of any cause, taken with the controllers where they are.
LEMMA TakePreserves ==
  ASSUME PicInv, NEW t, Take(t),
         t.cause = "irq" => t.at = "pic" /\ writes \in {7, 8} /\ t.vector \in 32 .. 47
  PROVE  PicInv'
<1>1. pc' = "handler" /\ taken' = t /\ UNCHANGED <<pic, writes>>
  BY DEF Take, GoTo, devVars
<1>2. cpu' = [cpu EXCEPT !.if = FALSE]
  BY DEF Take
<1>3. CpuTypeOK' /\ cpu'.if = FALSE
  BY <1>2 DEF PicInv, CpuTypeOK
<1>4. PicTypeOK' /\ MasterInv' /\ SlaveInv'
  BY <1>1 DEF PicInv, PicTypeOK, MasterInv, SlaveInv
<1>5. FlowInv'
  BY <1>1, <1>3 DEF FlowInv, BeforePic
<1>6. IrqInv'
  BY <1>1 DEF IrqInv
<1> QED BY <1>3, <1>4, <1>5, <1>6 DEF PicInv

\* A step of the boot that leaves the controllers alone and takes no interrupt.
LEMMA FlowPreserves ==
  ASSUME PicInv, UNCHANGED <<pic, writes, taken>>, CpuTypeOK', FlowInv',
         pc \notin {"handler", "hcf"} \/ pc' = "hcf"
  PROVE  PicInv'
<1>1. PicTypeOK' /\ MasterInv' /\ SlaveInv'
  BY DEF PicInv, PicTypeOK, MasterInv, SlaveInv
<1>2. IrqInv'
  BY DEF PicInv, IrqInv
<1> QED BY <1>1, <1>2 DEF PicInv

\* A step that only goes on.
LEMMA GoesPreserves ==
  ASSUME PicInv, NEW from, NEW to, Goes(from, to),
         \/ from \in BeforePic /\ to \in BeforePic \cup {"hcf"}
         \/ from \in {"pic", "revision", "framebuffer"} /\ writes = 10
              /\ to \in {"revision", "framebuffer", "spin", "hcf"}
  PROVE  PicInv'
<1>1. pc = from /\ pc' = to /\ UNCHANGED <<pic, writes, taken, cpu>>
  BY DEF Goes, GoTo, devVars, irqVars
<1>2. CpuTypeOK' /\ FlowInv'
  BY <1>1 DEF PicInv, CpuTypeOK, FlowInv, BeforePic
<1>3. pc \notin {"handler", "hcf"}
  BY <1>1 DEF BeforePic
<1> QED BY <1>1, <1>2, <1>3, FlowPreserves

\* PicInv is inductive: it holds at the entry of the kernel,
LEMMA InitPicInv ==
  ASSUME Init
  PROVE  PicInv
<1>1. PICK base \in {8, 32} :
        pic = [master |-> [icw |-> 0, masked |-> TRUE, base |-> base],
               slave  |-> [icw |-> 0, masked |-> TRUE, base |-> 112]]
  BY DEF Init
<1>2. writes = 0 /\ pc = "serial_init" /\ taken.cause = "none"
  BY DEF Init, Nothing
<1>3. pic["master"].icw = 0 /\ pic["master"].masked = TRUE /\ pic["slave"].icw = 0
  BY <1>1
<1>4. pic \in [Chips -> Chip]
  <2>1. base \in Nat /\ 112 \in Nat /\ 0 \in {0, 2, 3, 4} /\ TRUE \in BOOLEAN
    OBVIOUS
  <2>2. /\ [icw |-> 0, masked |-> TRUE, base |-> base] \in Chip
        /\ [icw |-> 0, masked |-> TRUE, base |-> 112] \in Chip
    BY <2>1, SMT DEF Chip
  <2>3. \A a, b \in Chip : [master |-> a, slave |-> b] \in [Chips -> Chip]
    BY SMT DEF Chips
  <2> QED BY <1>1, <2>2, <2>3
<1>5. CpuTypeOK /\ cpu.if = FALSE
  BY DEF Init, DescriptorsInit, CpuTypeOK
<1>6. MasterInv /\ SlaveInv
  BY <1>2, <1>3 DEF MasterInv, SlaveInv
<1>7. FlowInv /\ IrqInv
  BY <1>2 DEF FlowInv, IrqInv, BeforePic
<1> QED BY <1>2, <1>4, <1>5, <1>6, <1>7 DEF PicInv, PicTypeOK

\* and every step preserves it.
LEMMA NextPicInv ==
  ASSUME PicInv, [Next]_vars
  PROVE  PicInv'
<1>1. CASE serial_init
  BY <1>1, GoesPreserves DEF serial_init, Stops, BeforePic
<1>2. CASE set_output_stream
  <2>1. UNCHANGED <<pic, writes, taken, cpu>> /\ pc = "set_output_stream" /\ pc' = "cli"
    BY <1>2 DEF set_output_stream, GoTo, irqVars
  <2>2. CpuTypeOK' /\ FlowInv'
    BY <2>1 DEF PicInv, CpuTypeOK, FlowInv, BeforePic
  <2> QED BY <2>1, <2>2, FlowPreserves
<1>3. CASE asm_disable_interrupts
  <2>1. UNCHANGED <<pic, writes, taken>> /\ pc = "cli" /\ pc' = "gdt"
    BY <1>3 DEF asm_disable_interrupts, GoTo, irqVars, devVars
  <2>2. CpuTypeOK'
    BY <1>3 DEF asm_disable_interrupts, PicInv, CpuTypeOK
  <2>3. FlowInv'
    BY <2>1 DEF PicInv, FlowInv, BeforePic
  <2> QED BY <2>1, <2>2, <2>3, FlowPreserves
<1>4. CASE DescriptorStep
  <2>1. UNCHANGED <<pic, writes, taken>>
    BY <1>4 DEF DescriptorStep, irqVars, devVars
  <2>2. CASE system_gdt_setup
    <3>1. UNCHANGED cpu \/ system_gdt_load
      BY <2>2, SMT DEF system_gdt_setup
    <3>2. pc = "gdt" /\ pc' \in {"idt", "hcf"}
      BY <2>2, SMT DEF system_gdt_setup, hcf, GoTo
    <3>4. CpuTypeOK'
      BY <3>1 DEF system_gdt_load, PicInv, CpuTypeOK
    <3>3. FlowInv'
      BY <2>1, <3>2 DEF PicInv, FlowInv, BeforePic
    <3> QED BY <2>1, <3>2, <3>3, <3>4, FlowPreserves
  <2>3. CASE system_idt_setup
    <3>1. CpuTypeOK'
      BY <2>3 DEF system_idt_setup, PicInv, CpuTypeOK
    <3>2. pc = "idt" /\ pc' = "sti"
      BY <2>3 DEF system_idt_setup, GoTo
    <3>3. FlowInv'
      BY <2>1, <3>2 DEF PicInv, FlowInv, BeforePic
    <3> QED BY <2>1, <3>1, <3>2, <3>3, FlowPreserves
  <2> QED BY <1>4, <2>2, <2>3 DEF DescriptorStep
<1>5. CASE asm_enable_interrupts
  <2>1. UNCHANGED <<pic, writes, taken>> /\ pc = "sti" /\ pc' = "paging"
    BY <1>5 DEF asm_enable_interrupts, GoTo, irqVars, devVars
  <2>2. CpuTypeOK'
    BY <1>5 DEF asm_enable_interrupts, PicInv, CpuTypeOK
  <2>3. FlowInv'
    BY <2>1 DEF PicInv, FlowInv, BeforePic
  <2> QED BY <2>1, <2>2, <2>3, FlowPreserves
<1>6. CASE system_paging_setup
  <2>1. CASE Goes("paging", "acpi") \/ Stops("paging")
    BY <2>1, GoesPreserves DEF Stops, BeforePic
  <2>2. CASE \E request \in {"hhdm", "exe_addr"} : ReadsNULL("paging", request)
    BY <2>2, TakePreserves DEF ReadsNULL, Interrupted
  <2> QED BY <1>6, <2>1, <2>2 DEF system_paging_setup
<1>7. CASE AcpiStep
  <2>1. UNCHANGED <<pic, writes, taken, cpu>>
    BY <1>7 DEF AcpiStep, irqVars, devVars
  <2>2. \/ pc = "acpi" /\ pc' \in {"pic", "hcf", "acpi"}
        \/ pc = "spin" /\ pc' \in {"spin", "hcf"}
    BY <1>7 DEF AcpiStep, system_acpi_setup, system_acpi_sdt_get, hcf, GoTo
  <2>3. CpuTypeOK' /\ FlowInv'
    BY <2>1, <2>2 DEF PicInv, CpuTypeOK, FlowInv, BeforePic
  <2> QED BY <2>1, <2>2, <2>3, FlowPreserves
<1>8. CASE system_apic_pic_disable
  BY <1>8, PicDisablePreserves
<1>9. CASE system_apic_setup
  BY <1>9, PicWritesAre, GoesPreserves DEF system_apic_setup, Stops
<1>10. CASE kmain
  <2>1. pc \in {"revision", "framebuffer"} => writes = 10
    BY DEF PicInv, FlowInv
  <2> QED BY <1>10, <2>1, GoesPreserves DEF kmain, Stops, Goes
<1>11. CASE system_idt_interrupt_handler
  <2>1. UNCHANGED <<pic, writes, taken, cpu>> /\ pc = "handler" /\ pc' = "hcf"
    BY <1>11 DEF system_idt_interrupt_handler, hcf, GoTo, irqVars, devVars
  <2>2. CpuTypeOK' /\ FlowInv'
    BY <2>1 DEF PicInv, CpuTypeOK, FlowInv, BeforePic
  <2> QED BY <2>1, <2>2, FlowPreserves
<1>12. CASE \E vector \in Exceptions : Exception(vector)
  BY <1>12, TakePreserves DEF Exception, Interrupted
<1>13. CASE \E chip \in {"master", "slave"}, line \in IrqLines : Irq(chip, line)
  <2>1. PICK chip \in Chips, line \in IrqLines : Irq(chip, line)
    BY <1>13 DEF Chips
  <2>2. cpu.if = TRUE
    BY <2>1 DEF Irq, PicInv, CpuTypeOK
  <2>3. pc = "pic" /\ writes \in {7, 8} /\ pic[chip].base + line \in 32 .. 47
    BY <2>1, <2>2, DeliversInWindow DEF Irq
  <2> QED BY <2>1, <2>3, TakePreserves DEF Irq, Interrupted
<1>14. CASE Idle \/ UNCHANGED vars
  <2>1. UNCHANGED <<pc, cpu, pic, writes, taken>>
    BY <1>14 DEF Idle, vars, devVars, irqVars
  <2> QED BY <2>1 DEF PicInv, PicTypeOK, MasterInv, SlaveInv, FlowInv, IrqInv, CpuTypeOK
<1> QED
  BY <1>1, <1>2, <1>3, <1>4, <1>5, <1>6, <1>7, <1>8, <1>9, <1>10, <1>11, <1>12, <1>13, <1>14
  DEF Next

\* The window in which the interrupt of a device can be taken, with its cause: where
\* the ten writes of system_apic_pic_disable have brought the two chips.
THEOREM PicInvHolds == Spec => []PicInv
BY InitPicInv, NextPicInv, PTL DEF Spec

\* Whatever devices there are, none of them interrupts the boot outside the two
\* writes of system_apic_pic_disable between the end of the first chip's
\* initialisation and its mask, and always above the exceptions of the CPU.
THEOREM IrqsOnlyInPicWindow == Spec => []IrqOnlyInPicWindow
<1>1. PicInv => IrqOnlyInPicWindow
  BY DEF PicInv, IrqInv, IrqOnlyInPicWindow
<1> QED BY <1>1, PicInvHolds, PTL

-----------------------------------------------------------------------------
(* ACPI                                                                    *)

\* Until the setup there is nothing to read entries from.  After it the chosen
\* table is the one whose checksums have passed, and an access was inside it.
AcpiInv ==
  /\ firmware \in Firmware
  /\ system_acpi \in [rsdp : BOOLEAN, use_extended : BOOLEAN, sdt : {"none", "rsdt", "xsdt"}]
  /\ pc \in BeforePic => system_acpi.rsdp = FALSE
  /\ system_acpi.rsdp = TRUE =>
       /\ ChecksPass(firmware)
       /\ system_acpi.sdt = ChosenTable(firmware)
  /\ got # None =>
       /\ system_acpi.rsdp = TRUE
       /\ got.from + got.size <= firmware.sdt[system_acpi.sdt].length
       /\ firmware.sdt[system_acpi.sdt].length > 0

\* The boot never comes back to the steps before the controllers.
LEMMA NeverBackBeforePic ==
  ASSUME [Next]_vars, pc' \in BeforePic
  PROVE  pc \in BeforePic
<1>1. ASSUME NEW from, NEW to, Goes(from, to)
      PROVE  pc = from /\ pc' = to
  BY <1>1 DEF Goes, GoTo
<1>2. ASSUME NEW t, Take(t)
      PROVE  pc' = "handler"
  BY <1>2 DEF Take, GoTo
<1>3. CASE serial_init \/ set_output_stream \/ asm_disable_interrupts \/ asm_enable_interrupts
  BY <1>1, <1>3 DEF serial_init, Stops, set_output_stream, asm_disable_interrupts,
     asm_enable_interrupts, BeforePic
<1>4. CASE DescriptorStep
  BY <1>4, SMT DEF DescriptorStep, system_gdt_setup, system_idt_setup, BeforePic
<1>5. CASE system_paging_setup
  BY <1>1, <1>2, <1>5 DEF system_paging_setup, Stops, ReadsNULL, Interrupted, BeforePic
<1>6. CASE AcpiStep
  BY <1>6 DEF AcpiStep, system_acpi_setup, system_acpi_sdt_get, hcf, GoTo, BeforePic
<1>7. CASE system_apic_setup \/ kmain
  BY <1>1, <1>7 DEF system_apic_setup, kmain, Stops, BeforePic
<1>8. CASE system_apic_pic_disable \/ Idle \/ UNCHANGED vars
  BY <1>8 DEF system_apic_pic_disable, Idle, vars
<1>9. CASE system_idt_interrupt_handler
  BY <1>9 DEF system_idt_interrupt_handler, hcf, GoTo, BeforePic
<1>10. CASE \E vector \in Exceptions : Exception(vector)
  BY <1>2, <1>10 DEF Exception, Interrupted, BeforePic
<1>11. CASE \E chip \in {"master", "slave"}, line \in IrqLines : Irq(chip, line)
  BY <1>2, <1>11 DEF Irq, Interrupted, BeforePic
<1> QED
  BY <1>3, <1>4, <1>5, <1>6, <1>7, <1>8, <1>9, <1>10, <1>11 DEF Next

\* Nothing but the ACPI functions changes what is known of ACPI.
LEMMA AcpiChangesInAcpiStep ==
  ASSUME [Next]_vars
  PROVE  AcpiStep \/ UNCHANGED <<firmware, system_acpi, got>>
<1>1. ASSUME NEW from, NEW to, Goes(from, to)
      PROVE  UNCHANGED <<firmware, system_acpi, got>>
  BY <1>1 DEF Goes, acpiVars
<1>2. ASSUME NEW t, Take(t)
      PROVE  UNCHANGED <<firmware, system_acpi, got>>
  BY <1>2 DEF Take, acpiVars
<1>3. CASE serial_init \/ set_output_stream \/ asm_disable_interrupts \/ asm_enable_interrupts
  BY <1>1, <1>3 DEF serial_init, Stops, set_output_stream, asm_disable_interrupts,
     asm_enable_interrupts, acpiVars
<1>4. CASE DescriptorStep
  BY <1>4 DEF DescriptorStep, acpiVars
<1>5. CASE system_paging_setup
  BY <1>1, <1>2, <1>5 DEF system_paging_setup, Stops, ReadsNULL, Interrupted
<1>7. CASE system_apic_setup \/ kmain
  BY <1>1, <1>7 DEF system_apic_setup, kmain, Stops
<1>8. CASE system_apic_pic_disable \/ Idle \/ UNCHANGED vars
  BY <1>8 DEF system_apic_pic_disable, Idle, vars, acpiVars
<1>9. CASE system_idt_interrupt_handler
  BY <1>9 DEF system_idt_interrupt_handler, acpiVars
<1>10. CASE \E vector \in Exceptions : Exception(vector)
  BY <1>2, <1>10 DEF Exception, Interrupted
<1>11. CASE \E chip \in {"master", "slave"}, line \in IrqLines : Irq(chip, line)
  BY <1>2, <1>11 DEF Irq, Interrupted
<1> QED
  BY <1>3, <1>4, <1>5, <1>7, <1>8, <1>9, <1>10, <1>11 DEF Next

\* An item below the count ends inside the table, also where the length is shorter
\* than a header and the quotient is rounded towards zero.
LEMMA ItemsEndInTable ==
  ASSUME NEW length \in Nat, NEW size \in {4, 8},
         NEW item \in 0 .. Quotient(length - HEADER_SIZE, size) - 1
  PROVE  HEADER_SIZE + item * size + size <= length
<1>1. HEADER_SIZE = 29
  BY DEF HEADER_SIZE
<1>2. CASE length < 29
  <2>1. Quotient(length - HEADER_SIZE, size) = -((29 - length) \div size)
    BY <1>1, <1>2 DEF Quotient
  <2>2. (29 - length) \div size >= 0
    BY <1>2
  <2> QED BY <2>1, <2>2
<1>3. CASE length >= 29
  <2>1. Quotient(length - HEADER_SIZE, size) = (length - 29) \div size
    BY <1>1, <1>3 DEF Quotient
  <2>2. CASE size = 4
    BY <1>1, <1>3, <2>1, <2>2
  <2>3. CASE size = 8
    BY <1>1, <1>3, <2>1, <2>3
  <2> QED BY <2>2, <2>3
<1> QED BY <1>2, <1>3

\* AcpiInv is preserved: the setup runs once, before any access.
LEMMA NextAcpiInv ==
  ASSUME AcpiInv, [Next]_vars
  PROVE  AcpiInv'
<1>1. CASE UNCHANGED <<firmware, system_acpi, got>>
  BY <1>1, NeverBackBeforePic DEF AcpiInv, ChecksPass, ChosenTable, system_acpi_sdt_validate
<1>2. CASE AcpiStep /\ system_acpi_setup
  <2>1. system_acpi.rsdp = FALSE /\ got = None
    BY <1>2 DEF AcpiInv, system_acpi_setup, BeforePic
  <2>2. firmware' \in Firmware /\ got' = None
    BY <1>2, <2>1, AcpiConstants DEF system_acpi_setup
  <2>3. CASE {"rsdp", "hhdm"} \subseteq answered /\ ChecksPass(firmware')
    <3>1. pc' = "pic" /\ system_acpi' = [rsdp |-> TRUE, use_extended |-> firmware'.revision = 2,
                                         sdt |-> ChosenTable(firmware')]
      BY <1>2, <2>3 DEF system_acpi_setup, GoTo
    <3>2. PICK extended \in BOOLEAN : extended = (firmware'.revision = 2)
      BY Zenon
    <3>3. system_acpi' = [rsdp |-> TRUE, use_extended |-> extended, sdt |-> ChosenTable(firmware')]
      BY <3>1, <3>2, Zenon
    <3>4. ChosenTable(firmware') \in {"rsdt", "xsdt"}
      BY DEF ChosenTable
    <3>5. pc' \notin BeforePic
      BY <3>1 DEF BeforePic
    <3> QED BY <2>2, <2>3, <3>3, <3>4, <3>5 DEF AcpiInv
  <2>4. CASE ~({"rsdp", "hhdm"} \subseteq answered /\ ChecksPass(firmware'))
    <3>1. UNCHANGED system_acpi
      BY <1>2, <2>4 DEF system_acpi_setup
    <3> QED BY <2>1, <2>2, <3>1 DEF AcpiInv
  <2> QED BY <2>3, <2>4
<1>3. CASE AcpiStep /\ \E item \in -1 .. MaxItem : system_acpi_sdt_get(item)
  <2>1. PICK item \in -1 .. MaxItem : system_acpi_sdt_get(item)
    BY <1>3
  <2>2. UNCHANGED <<firmware, system_acpi>>
    BY <2>1 DEF system_acpi_sdt_get
  <2>3. CASE system_acpi.rsdp /\ item \in 0 .. system_acpi_sdt_count - 1
    <3> DEFINE table == firmware.sdt[system_acpi.sdt]
    <3>1. got' = [item |-> item, from |-> EntryAt(item), size |-> EntrySize]
      BY <2>1, <2>3 DEF system_acpi_sdt_get
    <3>2. system_acpi.rsdp = TRUE /\ system_acpi.sdt \in {"rsdt", "xsdt"}
      BY <2>3 DEF AcpiInv, ChosenTable
    <3>3. table.length \in Nat
      BY <3>2 DEF AcpiInv, Firmware
    <3>4. EntrySize \in {4, 8}
      BY DEF EntrySize
    <3>5. item \in 0 .. Quotient(table.length - HEADER_SIZE, EntrySize) - 1
      BY <2>3 DEF system_acpi_sdt_count
    <3>6. HEADER_SIZE + item * EntrySize + EntrySize <= table.length
      BY <3>3, <3>4, <3>5, ItemsEndInTable
    <3>7. EntryAt(item) + EntrySize <= table.length
      BY <3>6 DEF EntryAt
    <3>8. got'.from + got'.size <= table.length
      BY <3>1, <3>7
    <3>9. table.length > 0
      BY <3>3, <3>4, <3>5, <3>6 DEF HEADER_SIZE
    <3> QED BY <2>2, <3>2, <3>8, <3>9, NeverBackBeforePic DEF AcpiInv, ChecksPass, ChosenTable, system_acpi_sdt_validate
  <2>4. CASE ~(system_acpi.rsdp /\ item \in 0 .. system_acpi_sdt_count - 1)
    <3>1. UNCHANGED got
      BY <2>1, <2>4 DEF system_acpi_sdt_get
    <3> QED BY <2>2, <3>1, NeverBackBeforePic DEF AcpiInv, ChecksPass, ChosenTable, system_acpi_sdt_validate
  <2> QED BY <2>3, <2>4
<1> QED BY <1>1, <1>2, <1>3, AcpiChangesInAcpiStep DEF AcpiStep

\* Whatever the firmware has put into its tables, also a length shorter than the
\* header: system_acpi_sdt_get reads inside the root table that system_acpi_setup
\* has chosen, and only after the checksums on the way to it have passed.
THEOREM AcpiReadsAreChecked == Spec => []ReadsInsideCheckedTable
<1>1. Init => AcpiInv
  BY DEF Init, AcpiInit, AcpiInv, FirmwareWith, Firmware, Unset
<1>2. AcpiInv => ReadsInsideCheckedTable
  BY DEF AcpiInv, ReadsInsideCheckedTable, ChecksPass, ChosenTable, system_acpi_sdt_validate,
         system_acpi_validate
<1> QED BY <1>1, <1>2, NextAcpiInv, PTL DEF Spec

-----------------------------------------------------------------------------
(* The segments                                                            *)

\* The eight bytes of a descriptor with base 0 as system_gdt_entry_encode leaves them.
Encoded(d, e) ==
  /\ d[2] = 0 /\ d[3] = 0 /\ d[4] = 0 /\ d[7] = 0
  /\ d[5] = e.access_byte /\ d[6] = e.flags * 16

Indices == 0 .. SEGMENT_COUNT - 1

FlatEntry == [base : {0}, limit : Nat, access_byte : Nat, flags : 0 .. 15]

\* Where a table has been loaded, it is the encoded one, with its selectors.
GdtInv ==
  /\ gdt \in [Indices -> [0 .. 7 -> Int]]
  /\ CpuTypeOK
  /\ cpu.gdt_limit # -1 =>
       cpu.gdt_limit = 39 /\ cpu.segments = LoadSelectors
         /\ \A index \in Indices : Encoded(gdt[index], system_gdt[index])

\* Nothing but system_gdt_setup changes the table, its limit or the registers.
LEMMA GdtChangesInSetup ==
  ASSUME CpuTypeOK, [Next]_vars
  PROVE  system_gdt_setup \/ (gdt' = gdt /\ cpu'.gdt_limit = cpu.gdt_limit
                                 /\ cpu'.segments = cpu.segments)
<1> DEFINE Same == gdt' = gdt /\ cpu'.gdt_limit = cpu.gdt_limit /\ cpu'.segments = cpu.segments
<1>1. ASSUME UNCHANGED <<gdt, cpu>>
      PROVE  Same
  BY <1>1
<1>2. ASSUME gdt' = gdt, NEW b \in BOOLEAN, cpu' = [cpu EXCEPT !.if = b]
      PROVE  Same
  BY <1>2, SMT DEF CpuTypeOK
<1>3. ASSUME NEW from, NEW to, Goes(from, to)
      PROVE  Same
  BY <1>1, <1>3 DEF Goes, tableVars
<1>4. ASSUME NEW t, Take(t)
      PROVE  Same
  BY <1>2, <1>4 DEF Take, tableVars
<1>5. CASE serial_init \/ set_output_stream
  BY <1>1, <1>3, <1>5 DEF serial_init, Stops, set_output_stream, tableVars
<1>6. CASE asm_disable_interrupts \/ asm_enable_interrupts
  BY <1>2, <1>6 DEF asm_disable_interrupts, asm_enable_interrupts, tableVars
<1>7. CASE system_idt_setup
  <2>1. gdt' = gdt /\ cpu' = [cpu EXCEPT !.idt_limit = IDT_ENTRIES * 16 - 1]
    BY <1>7, Zenon DEF system_idt_setup
  <2> QED BY <2>1, SMT DEF CpuTypeOK
<1>8. CASE system_paging_setup
  BY <1>3, <1>4, <1>8 DEF system_paging_setup, Stops, ReadsNULL, Interrupted
<1>9. CASE AcpiStep \/ system_apic_pic_disable \/ Idle \/ UNCHANGED vars
  BY <1>1, <1>9 DEF AcpiStep, system_apic_pic_disable, Idle, vars, tableVars
<1>10. CASE system_apic_setup \/ kmain
  BY <1>3, <1>10 DEF system_apic_setup, kmain, Stops
<1>11. CASE system_idt_interrupt_handler
  BY <1>1, <1>11 DEF system_idt_interrupt_handler, tableVars
<1>12. CASE \E vector \in Exceptions : Exception(vector)
  BY <1>4, <1>12 DEF Exception, Interrupted
<1>13. CASE \E chip \in {"master", "slave"}, line \in IrqLines : Irq(chip, line)
  BY <1>4, <1>13 DEF Irq, Interrupted
<1> HIDE DEF Same
<1>14. CASE DescriptorStep
  BY <1>7, <1>14 DEF DescriptorStep, Same
<1>15. system_gdt_setup \/ Same
  BY <1>5, <1>6, <1>8, <1>9, <1>10, <1>11, <1>12, <1>13, <1>14 DEF Next, Same
<1> QED BY <1>15 DEF Same

\* The encoding of an entry with base 0 over any eight bytes.
LEMMA EncodeSegmentBytes ==
  ASSUME NEW d \in [0 .. 7 -> Int], NEW e \in FlatEntry
  PROVE  EncodeSegment(d, e) \in [0 .. 7 -> Int] /\ Encoded(EncodeSegment(d, e), e)
<1>1. e.base = 0 /\ e.limit \in Nat /\ e.access_byte \in Nat /\ e.flags \in 0 .. 15
  BY DEF FlatEntry
<1>2. /\ 2 ^ 0 = 1 /\ 2 ^ 4 = 16 /\ 2 ^ 8 = 256 /\ 2 ^ 16 = 65536 /\ 2 ^ 24 = 16777216
  BY SMT
<1>3. /\ Bits(e.limit, 0, 8) \in Int /\ Bits(e.limit, 8, 8) \in Int /\ Bits(e.limit, 16, 4) \in Int
  BY <1>1, <1>2, SMT DEF Bits
<1>4. /\ Bits(e.base, 0, 8) = 0 /\ Bits(e.base, 8, 8) = 0 /\ Bits(e.base, 16, 8) = 0
      /\ Bits(e.base, 24, 8) = 0
  BY <1>1, <1>2, SMT DEF Bits
<1>5. Bits(e.flags * 16, 0, 8) = e.flags * 16
  BY <1>1, <1>2, SMT DEF Bits
<1>6. EncodeSegment(d, e) =
        [d EXCEPT ![0] = Bits(e.limit, 0, 8), ![1] = Bits(e.limit, 8, 8),
                  ![6] = Bits(e.limit, 16, 4), ![2] = 0, ![3] = 0, ![4] = 0, ![7] = 0,
                  ![5] = e.access_byte, ![6] = e.flags * 16]
  BY <1>4, <1>5, Zenon DEF EncodeSegment
<1> QED BY <1>1, <1>3, <1>6, SMT DEF Encoded

\* The five entries of system_gdt.
LEMMA GdtEntries ==
  /\ system_gdt[0] = Entry(0, 0, 0, 0)
  /\ system_gdt[1] = Entry(0, 1048575, 154, 10) /\ system_gdt[2] = Entry(0, 1048575, 146, 12)
  /\ system_gdt[3] = Entry(0, 1048575, 242, 12) /\ system_gdt[4] = Entry(0, 1048575, 250, 10)
BY SMT DEF system_gdt, SEGMENT_COUNT, KCODE_SEGMENT, KDATA_SEGMENT, UDATA_SEGMENT, UCODE_SEGMENT,
       SEGFLAG_LONG_MODE, SEGFLAG_DB, SEGFLAG_GRANULARITY

\* system_gdt_setup preserves GdtInv, whatever was in the table before.
LEMMA SetupEncodes ==
  ASSUME GdtInv, system_gdt_setup
  PROVE  GdtInv'
<1>1. CASE UNCHANGED <<gdt, cpu>>
  BY <1>1 DEF GdtInv, CpuTypeOK
<1>2. CASE /\ gdt' = [index \in DOMAIN gdt |-> EncodeSegment(gdt[index], system_gdt[index])]
           /\ system_gdt_load
  <2>1. DOMAIN gdt = Indices /\ Indices = 0 .. 4
    BY SMT DEF GdtInv, Indices, SEGMENT_COUNT
  <2>2. \A index \in Indices : system_gdt[index] \in FlatEntry
    BY <2>1, GdtEntries, SMT DEF Entry, FlatEntry
  <2>3. \A index \in Indices : gdt[index] \in [0 .. 7 -> Int]
    BY Zenon DEF GdtInv
  <2>4. gdt' = [index \in Indices |-> EncodeSegment(gdt[index], system_gdt[index])]
    BY <1>2, <2>1, Zenon
  <2>5. \A index \in Indices :
          gdt'[index] \in [0 .. 7 -> Int] /\ Encoded(gdt'[index], system_gdt[index])
    BY <2>2, <2>3, <2>4, EncodeSegmentBytes, Zenon
  <2>6. gdt' \in [Indices -> [0 .. 7 -> Int]]
    BY <2>4, <2>5, Zenon
  <2>7. cpu'.gdt_limit = 39 /\ cpu'.segments = LoadSelectors /\ CpuTypeOK'
    <3>1. CpuTypeOK'
      BY <1>2 DEF system_gdt_load, GdtInv, CpuTypeOK
    <3>2. cpu'.gdt_limit = SEGMENT_COUNT * 8 - 1 /\ cpu'.segments = LoadSelectors
      BY <1>2, SMT DEF system_gdt_load, GdtInv, CpuTypeOK
    <3> QED BY <3>1, <3>2, SMT DEF SEGMENT_COUNT
  <2> QED BY <2>5, <2>6, <2>7, Zenon DEF GdtInv
<1> QED BY <1>1, <1>2, SMT DEF system_gdt_setup

\* With a loaded table, the CPU finds in it what the registers ask for.
LEMMA GdtInvUsable == GdtInv => SegmentsUsable
<1> SUFFICES ASSUME GdtInv, cpu.gdt_limit # -1
             PROVE  SegmentsUsable
  BY DEF SegmentsUsable
<1>1. cpu.gdt_limit = 39 /\ cpu.segments = LoadSelectors
  BY DEF GdtInv
<1>2. \A index \in 0 .. 4 : Encoded(gdt[index], system_gdt[index])
  BY SMT DEF GdtInv, Indices, SEGMENT_COUNT
<1>3. /\ \A index \in 0 .. 4 : Segment(index).base = 0
      /\ Segment(1).access = 154 /\ Segment(1).flags = 10
      /\ Segment(2).access = 146 /\ Segment(2).flags = 12
      /\ Segment(3).access = 242 /\ Segment(3).flags = 12
      /\ Segment(4).access = 250 /\ Segment(4).flags = 10
  BY <1>2, GdtEntries, SMT DEF Encoded, Segment, Entry
<1>4. /\ 2 ^ 1 = 2 /\ 2 ^ 2 = 4 /\ 2 ^ 3 = 8 /\ 2 ^ 5 = 32 /\ 2 ^ 7 = 128
  BY SMT
<1>5. IsCode(Segment(1)) /\ Dpl(Segment(1)) = 0 /\ IsData(Segment(2)) /\ Dpl(Segment(2)) = 0
  BY <1>3, <1>4, SMT DEF IsCode, IsData, Present, Dpl, Bits
<1>6. IsData(Segment(3)) /\ Dpl(Segment(3)) = 3 /\ IsCode(Segment(4)) /\ Dpl(Segment(4)) = 3
  BY <1>3, <1>4, SMT DEF IsCode, IsData, Present, Dpl, Bits
<1>7. /\ cpu.segments.cs = 8 /\ cpu.segments.ds = 16 /\ cpu.segments.es = 16
      /\ cpu.segments.ss = 16
  BY <1>1, SMT DEF LoadSelectors, SEGMENT_SELECTOR, KCODE_SEGMENT, KDATA_SEGMENT
<1>8. 8 \div 8 = 1 /\ 16 \div 8 = 2 /\ 8 + 7 <= 39 /\ 16 + 7 <= 39
  BY SMT
<1>9. \A r \in {"cs", "ds", "es", "ss"} : cpu.segments[r] + 7 <= cpu.gdt_limit
  BY <1>1, <1>7, SMT
<1>10. IsCode(Segment(cpu.segments.cs \div 8)) /\ Dpl(Segment(cpu.segments.cs \div 8)) = 0
  BY <1>5, <1>7, <1>8, Zenon
<1>11. \A r \in {"ds", "es", "ss"} :
         IsData(Segment(cpu.segments[r] \div 8)) /\ Dpl(Segment(cpu.segments[r] \div 8)) = 0
  BY <1>5, <1>7, <1>8, Zenon
<1>12. \A index \in DOMAIN gdt : Segment(index).base = system_gdt[index].base
  BY <1>3, GdtEntries, SMT DEF GdtInv, Indices, SEGMENT_COUNT, Entry
<1> QED
  BY <1>6, <1>9, <1>10, <1>11, <1>12, Zenon DEF SegmentsUsable, UCODE_SEGMENT, UDATA_SEGMENT

\* The table stays what system_gdt_setup has made it.
LEMMA NextGdtInv == GdtInv /\ PicInv /\ PicInv' /\ [Next]_vars => GdtInv'
<1> SUFFICES ASSUME GdtInv, CpuTypeOK', [Next]_vars
             PROVE  GdtInv'
  BY DEF PicInv
<1>1. CASE system_gdt_setup
  BY <1>1, SetupEncodes
<1>2. CASE gdt' = gdt /\ cpu'.gdt_limit = cpu.gdt_limit /\ cpu'.segments = cpu.segments
  BY <1>2 DEF GdtInv
<1>3. CpuTypeOK
  BY DEF GdtInv
<1> QED BY <1>1, <1>2, <1>3, GdtChangesInSetup

\* The loaded table is the encoded one, at every step.
THEOREM GdtInvHolds == Spec => []GdtInv
<1>1. Init => GdtInv
  BY SMT DEF Init, DescriptorsInit, GdtInv, CpuTypeOK, Indices, SEGMENT_COUNT
<1> QED BY <1>1, NextGdtInv, PicInvHolds, PTL DEF Spec

\* From system_gdt_load on, every segment register selects a descriptor of the kind
\* and privilege that the CPU demands, also while interrupts come in.
THEOREM SegmentsAreUsable == Spec => []SegmentsUsable
BY GdtInvHolds, GdtInvUsable, PTL

-----------------------------------------------------------------------------
(* The stubs                                                               *)

\* A set of numbers that is not empty has a least one.
LEMMA LeastNumber ==
  ASSUME NEW S, S \subseteq Nat, S # {}
  PROVE  \E m \in S : \A k \in S : m <= k
<1> DEFINE R == OpToRel(<, Nat)
<1>1. IsWellFoundedOn(R, Nat)
  BY NatLessThanWellFounded
<1>2. \A x, y \in Nat : y < x => <<y, x>> \in R
  BY Zenon DEF OpToRel
<1> HIDE DEF R
<1>3. PICK m \in S : \A k \in S : <<k, m>> \notin R
  BY <1>1, WFMin
<1>4. \A k \in S : ~ (k < m)
  BY <1>2, <1>3
<1> QED BY <1>3, <1>4, SMT

\* A stub that begins at a multiple of 16 is followed by one at the next.
LEMMA AlignedEnd ==
  ASSUME NEW vector \in 0 .. 255, NEW n \in Nat
  PROVE  Align(n * 16 + StubSize(vector)) = (n + 1) * 16
<1>1. StubSize(vector) \in 1 .. 16
  BY SMT DEF StubSize
<1>2. \A s \in 1 .. 16 : ((n * 16 + s + 15) \div 16) * 16 = (n + 1) * 16
  BY SMT
<1> HIDE DEF StubSize
<1> QED BY <1>1, <1>2, Zenon DEF Align

\* The stubs lie 16 bytes apart, as system_idt_setup assumes: the equation that
\* defines their places has this solution, and no other.
LEMMA StubsSixteenApart ==
  \A vector \in 0 .. 255 : StubOffset[vector] = vector * 16
<1> DEFINE Vectors == 0 .. IDT_ENTRIES - 1
           After(f, v) == Align(f[v - 1] + StubSize(v - 1))
           Placed(f) == [v \in Vectors |-> IF v = 0 THEN 0 ELSE After(f, v)]
           even == [v \in Vectors |-> v * 16]
           odd == {v \in Vectors : StubOffset[v] # v * 16}
<1>1. Vectors = 0 .. 255
  BY SMT DEF IDT_ENTRIES
<1>2. ASSUME NEW v \in Vectors, v # 0, NEW f, f[v - 1] = (v - 1) * 16
      PROVE  After(f, v) = v * 16
  <2>1. v - 1 \in 0 .. 255 /\ v - 1 \in Nat /\ (v - 1 + 1) * 16 = v * 16
    BY <1>1, <1>2, SMT
  <2> QED BY <1>2, <2>1, AlignedEnd, Zenon
<1> HIDE DEF After
<1>3. even = Placed(even)
  <2>1. ASSUME NEW v \in Vectors
        PROVE  even[v] = IF v = 0 THEN 0 ELSE After(even, v)
    <3>1. even[v] = v * 16 /\ v \in Int
      BY <1>1, SMT
    <3>2. ASSUME v # 0
          PROVE  even[v - 1] = (v - 1) * 16
      <4>1. v - 1 \in Vectors
        BY <1>1, <3>2, SMT
      <4> QED BY <4>1, Zenon
    <3> HIDE DEF even
    <3> QED BY <1>2, <3>1, <3>2, SMT
  <2>2. even = [v \in Vectors |-> even[v]]
    BY Zenon
  <2> HIDE DEF even
  <2> QED BY <2>1, <2>2, Zenon
<1>4. StubOffset = Placed(StubOffset)
  <2>1. StubOffset = CHOOSE f : f = Placed(f)
    BY Zenon DEF StubOffset, After
  <2> HIDE DEF Placed, even
  <2> QED BY <1>3, <2>1, Zenon
<1> SUFFICES ASSUME odd # {}
             PROVE  FALSE
  BY <1>1, Zenon
<1>5. odd \subseteq Nat
  BY <1>1, SMT
<1> HIDE DEF odd
<1>6. PICK v \in odd : \A k \in odd : v <= k
  BY <1>5, LeastNumber
<1>7. v \in Vectors /\ StubOffset[v] # v * 16
  BY <1>6 DEF odd
<1>8. v # 0 => StubOffset[v - 1] = (v - 1) * 16
  BY <1>1, <1>6, <1>7, SMT DEF odd
<1>9. StubOffset[v] = IF v = 0 THEN 0 ELSE After(StubOffset, v)
  BY <1>4, <1>7, Zenon
<1> QED BY <1>1, <1>2, <1>7, <1>8, <1>9, SMT

-----------------------------------------------------------------------------
(* The frame of an interrupt                                               *)

\* What lies on the stack when the common stub begins, for every vector.
Pushed(code, vector) ==
  << <<"ss", 0>>, <<"rsp", 0>>, <<"rflags", 0>>, <<"cs", 0>>, <<"rip", 0>>,
     <<"code", code>>, <<"vector", vector>> >>

\* An interrupt that the CPU can take.
Possible(t) ==
  /\ t.vector \in 0 .. 255
  /\ \/ t.cause # "irq" /\ t.vector \in CpuErrorVectors
     \/ t.vector \notin CpuErrorVectors /\ t.code = 0

\* The elements of a concatenation.
LEMMA ConcatAt ==
  ASSUME NEW m \in Nat, NEW n \in Nat, NEW s, NEW t,
         s = [k \in 1 .. m |-> s[k]], t = [k \in 1 .. n |-> t[k]]
  PROVE  s \o t = [k \in 1 .. m + n |-> IF k <= m THEN s[k] ELSE t[k - m]]
<1> DEFINE S == {s[k] : k \in 1 .. m} \cup {t[k] : k \in 1 .. n}
<1>1. s \in [1 .. m -> S] /\ t \in [1 .. n -> S]
  BY Zenon
<1> HIDE DEF S
<1>2. s \in Seq(S) /\ Len(s) = m /\ t \in Seq(S) /\ Len(t) = n
  BY <1>1, SMT
<1>3. /\ s \o t \in Seq(S) /\ Len(s \o t) = m + n
      /\ \A k \in 1 .. m + n : (s \o t)[k] = IF k <= m THEN s[k] ELSE t[k - m]
  BY <1>2, ConcatProperties
<1>4. s \o t = [k \in 1 .. m + n |-> (s \o t)[k]]
  BY <1>3, SMT
<1> QED BY <1>3, <1>4, Zenon

\* The stubs make up for the error code exactly where the CPU pushes none.
LEMMA PushesAlike ==
  ASSUME NEW t, Possible(t)
  PROVE  CpuPushes(t) \o StubPushes(t.vector) = Pushed(t.code, t.vector)
<1>1. StubErrorVectors = CpuErrorVectors
  BY SMT DEF StubErrorVectors, CpuErrorVectors
<1> DEFINE cpus == << <<"ss", 0>>, <<"rsp", 0>>, <<"rflags", 0>>, <<"cs", 0>>, <<"rip", 0>> >>
           code == << <<"code", t.code>> >>
           vector == << <<"vector", t.vector>> >>
           none == <<>>
           pushed == Pushed(t.code, t.vector)
<1>2. /\ cpus = [k \in 1 .. 5 |-> cpus[k]] /\ none = [k \in 1 .. 0 |-> none[k]]
      /\ code = [k \in 1 .. 1 |-> code[k]] /\ vector = [k \in 1 .. 1 |-> vector[k]]
  BY SMT
<1>3. pushed = [k \in 1 .. 7 |-> pushed[k]]
  BY SMT DEF Pushed
<1>4. /\ \A k \in 1 .. 5 : pushed[k] = cpus[k]
      /\ pushed[6] = code[1] /\ pushed[7] = vector[1]
  BY SMT DEF Pushed
<1> HIDE DEF cpus, code, vector, none, pushed
<1>5. CASE t.cause # "irq" /\ t.vector \in CpuErrorVectors
  <2>1. CpuPushes(t) = cpus \o code /\ StubPushes(t.vector) = none \o vector
    BY <1>1, <1>5, Zenon DEF CpuPushes, StubPushes, cpus, code, vector, none
  <2>2. /\ cpus \o code = [k \in 1 .. 6 |-> IF k <= 5 THEN cpus[k] ELSE code[k - 5]]
        /\ none \o vector = [k \in 1 .. 1 |-> IF k <= 0 THEN none[k] ELSE vector[k - 0]]
    BY <1>2, ConcatAt, 5 + 1 = 6, 0 + 1 = 1
  <2> DEFINE a == cpus \o code
             b == none \o vector
  <2>3. /\ a = [k \in 1 .. 6 |-> a[k]] /\ b = [k \in 1 .. 1 |-> b[k]]
        /\ \A k \in 1 .. 5 : a[k] = cpus[k]
        /\ a[6] = code[1] /\ b[1] = vector[1]
    BY <2>2, SMT
  <2> HIDE DEF a, b
  <2>4. a \o b = [k \in 1 .. 7 |-> IF k <= 6 THEN a[k] ELSE b[k - 6]]
    BY <2>3, ConcatAt, 6 + 1 = 7
  <2>5. a \o b = pushed
    BY <1>3, <1>4, <2>3, <2>4, SMT
  <2> QED BY <2>1, <2>5 DEF a, b, pushed
<1>6. CASE t.vector \notin CpuErrorVectors /\ t.code = 0
  <2>1. CpuPushes(t) = cpus \o none /\ StubPushes(t.vector) = code \o vector
    BY <1>1, <1>6, Zenon DEF CpuPushes, StubPushes, cpus, code, vector, none
  <2>2. /\ cpus \o none = [k \in 1 .. 5 |-> IF k <= 5 THEN cpus[k] ELSE none[k - 5]]
        /\ code \o vector = [k \in 1 .. 2 |-> IF k <= 1 THEN code[k] ELSE vector[k - 1]]
    BY <1>2, ConcatAt, 5 + 0 = 5, 1 + 1 = 2
  <2> DEFINE a == cpus \o none
             b == code \o vector
  <2>3. /\ a = [k \in 1 .. 5 |-> a[k]] /\ b = [k \in 1 .. 2 |-> b[k]]
        /\ \A k \in 1 .. 5 : a[k] = cpus[k]
        /\ b[1] = code[1] /\ b[2] = vector[1]
    BY <2>2, SMT
  <2> HIDE DEF a, b
  <2>4. a \o b = [k \in 1 .. 7 |-> IF k <= 5 THEN a[k] ELSE b[k - 5]]
    BY <2>3, ConcatAt, 5 + 2 = 7
  <2>5. a \o b = pushed
    BY <1>3, <1>4, <2>3, <2>4, SMT
  <2> QED BY <2>1, <2>5 DEF a, b, pushed
<1> QED BY <1>5, <1>6 DEF Possible

\* No two fields of the struct have the same name.
LEMMA FieldsDistinct ==
  /\ Len(System_Idt_Interrupt_Stack_Frame) = 22
  /\ DOMAIN System_Idt_Interrupt_Stack_Frame = 1 .. 22
  /\ \A j, k \in 1 .. 22 :
       System_Idt_Interrupt_Stack_Frame[j] = System_Idt_Interrupt_Stack_Frame[k] => j = k
BY SMT DEF System_Idt_Interrupt_Stack_Frame

\* The struct is the stack read from its top: the registers of the common stub in
\* the opposite order, then what was there before.
LEMMA StackUnderStruct ==
  ASSUME NEW code, NEW vector
  PROVE  LET registers == [k \in DOMAIN system_idt_interrupt_stub |->
                             <<system_idt_interrupt_stub[k], 0>>]
             stack == Reverse(Pushed(code, vector) \o registers)
         IN  /\ Len(stack) = 22
             /\ stack[16] = <<"vector", vector>> /\ stack[17] = <<"code", code>>
             /\ \A k \in (1 .. 22) \ {16, 17} :
                  stack[k] = <<System_Idt_Interrupt_Stack_Frame[k], 0>>
<1> DEFINE registers == [k \in DOMAIN system_idt_interrupt_stub |->
                           <<system_idt_interrupt_stub[k], 0>>]
           pushed == Pushed(code, vector)
           all == pushed \o registers
           stack == Reverse(all)
<1>1. DOMAIN system_idt_interrupt_stub = 1 .. 15
  BY SMT DEF system_idt_interrupt_stub
<1>2. registers = [k \in 1 .. 15 |-> <<system_idt_interrupt_stub[k], 0>>]
  BY <1>1
<1>3. /\ registers = [k \in 1 .. 15 |-> registers[k]]
      /\ \A k \in 1 .. 15 : registers[k] = <<system_idt_interrupt_stub[k], 0>>
  BY <1>2, Zenon
<1>4. pushed = [k \in 1 .. 7 |-> pushed[k]]
  BY SMT DEF Pushed
<1>5. /\ pushed[1] = <<"ss", 0>> /\ pushed[2] = <<"rsp", 0>> /\ pushed[3] = <<"rflags", 0>>
      /\ pushed[4] = <<"cs", 0>> /\ pushed[5] = <<"rip", 0>>
      /\ pushed[6] = <<"code", code>> /\ pushed[7] = <<"vector", vector>>
  BY SMT DEF Pushed
<1> HIDE DEF registers, pushed
<1>6. Len(all) = 22 /\ \A k \in 1 .. 22 : all[k] = IF k <= 7 THEN pushed[k] ELSE registers[k - 7]
  <2>1. registers = [k \in 1 .. 15 |-> registers[k]]
    BY <1>3
  <2>2. \A m, n \in Nat :
          pushed = [k \in 1 .. m |-> pushed[k]] /\ registers = [k \in 1 .. n |-> registers[k]] =>
            all = [k \in 1 .. m + n |-> IF k <= m THEN pushed[k] ELSE registers[k - m]]
    BY ConcatAt
  <2> DEFINE m == 7
             n == 15
  <2> HIDE DEF m, n, all
  <2>3. m \in Nat /\ n \in Nat /\ m + n = 22
    BY SMT DEF m, n
  <2>4. all = [k \in 1 .. 22 |-> IF k <= m THEN pushed[k] ELSE registers[k - m]]
    BY <1>4, <2>1, <2>2, <2>3, Zenon DEF m, n
  <2> QED BY <2>4, SMT DEF m
<1> HIDE DEF all
<1>7. Len(stack) = 22 /\ \A k \in 1 .. 22 : stack[k] = all[23 - k]
  BY <1>6, SMT DEF Reverse
<1> HIDE DEF stack
<1>8. /\ stack[16] = pushed[7] /\ stack[17] = pushed[6] /\ stack[18] = pushed[5]
      /\ stack[19] = pushed[4] /\ stack[20] = pushed[3] /\ stack[21] = pushed[2]
      /\ stack[22] = pushed[1]
  BY <1>6, <1>7, SMT
<1>9. \A k \in 1 .. 15 : stack[k] = <<system_idt_interrupt_stub[16 - k], 0>>
  BY <1>3, <1>6, <1>7, SMT
<1>10. \A k \in 1 .. 15 :
         system_idt_interrupt_stub[16 - k] = System_Idt_Interrupt_Stack_Frame[k]
  BY SMT DEF system_idt_interrupt_stub, System_Idt_Interrupt_Stack_Frame
<1>11. /\ System_Idt_Interrupt_Stack_Frame[18] = "rip" /\ System_Idt_Interrupt_Stack_Frame[19] = "cs"
       /\ System_Idt_Interrupt_Stack_Frame[20] = "rflags"
       /\ System_Idt_Interrupt_Stack_Frame[21] = "rsp" /\ System_Idt_Interrupt_Stack_Frame[22] = "ss"
  BY SMT DEF System_Idt_Interrupt_Stack_Frame
<1>12. \A k \in (1 .. 22) \ {16, 17} : stack[k] = <<System_Idt_Interrupt_Stack_Frame[k], 0>>
  <2>1. \A k \in 18 .. 22 : stack[k] = <<System_Idt_Interrupt_Stack_Frame[k], 0>>
    BY <1>5, <1>8, <1>11, SMT
  <2>2. \A k \in 1 .. 15 : stack[k] = <<System_Idt_Interrupt_Stack_Frame[k], 0>>
    BY <1>9, <1>10, Zenon
  <2>3. \A k \in (1 .. 22) \ {16, 17} : k \in 1 .. 15 \/ k \in 18 .. 22
    BY SMT
  <2> QED BY <2>1, <2>2, <2>3, Zenon
<1> QED BY <1>5, <1>7, <1>8, <1>12, Zenon DEF stack, all, pushed, registers

\* Read through the struct, the stack of every interrupt that goes through its stub
\* has each value in the field of its name.
LEMMA FrameOfPushes ==
  ASSUME NEW t, Possible(t)
  PROVE  LET f == FrameOf(t, StubPushes(t.vector))
         IN  /\ f["vector"] = <<"vector", t.vector>> /\ f["error_code"] = <<"code", t.code>>
             /\ \A name \in DOMAIN f \ {"vector", "error_code"} : f[name] = <<name, 0>>
<1> DEFINE fields == System_Idt_Interrupt_Stack_Frame
           f == FrameOf(t, StubPushes(t.vector))
           registers == [k \in DOMAIN system_idt_interrupt_stub |->
                           <<system_idt_interrupt_stub[k], 0>>]
           stack == Reverse((CpuPushes(t) \o StubPushes(t.vector)) \o registers)
           At(name) == CHOOSE k \in DOMAIN fields : fields[k] = name
<1>1. f = [name \in ToSet(fields) |->
             IF At(name) <= Len(stack) THEN stack[At(name)] ELSE <<"beyond", 0>>]
  BY Zenon DEF FrameOf
<1>2. /\ Len(stack) = 22
      /\ stack[16] = <<"vector", t.vector>> /\ stack[17] = <<"code", t.code>>
      /\ \A k \in (1 .. 22) \ {16, 17} : stack[k] = <<fields[k], 0>>
  <2>1. stack = Reverse(Pushed(t.code, t.vector) \o registers)
    BY PushesAlike, Zenon
  <2> HIDE DEF stack
  <2> QED BY <2>1, StackUnderStruct
<1>3. DOMAIN fields = 1 .. 22 /\ fields[16] = "vector" /\ fields[17] = "error_code"
  BY FieldsDistinct, SMT DEF System_Idt_Interrupt_Stack_Frame
<1>4. \A j, k \in 1 .. 22 : fields[j] = fields[k] => j = k
  BY FieldsDistinct
<1> HIDE DEF f, stack, fields
<1>5. ASSUME NEW k \in 1 .. 22
      PROVE  At(fields[k]) = k /\ fields[k] \in ToSet(fields)
  <2>1. At(fields[k]) \in 1 .. 22 /\ fields[At(fields[k])] = fields[k]
    BY <1>3, Zenon
  <2>2. At(fields[k]) = k
    BY <1>4, <2>1, Zenon
  <2> QED BY <1>3, <2>2, Zenon DEF ToSet
<1> HIDE DEF At
<1>6. ASSUME NEW k \in 1 .. 22
      PROVE  f[fields[k]] = stack[k]
  <2>1. At(fields[k]) = k /\ k <= Len(stack)
    BY <1>2, <1>5, SMT
  <2> QED BY <1>1, <1>5, <2>1, Zenon
<1>7. f["vector"] = <<"vector", t.vector>> /\ f["error_code"] = <<"code", t.code>>
  BY <1>2, <1>3, <1>6, 16 \in 1 .. 22, 17 \in 1 .. 22, Zenon
<1>8. ASSUME NEW name \in DOMAIN f \ {"vector", "error_code"}
      PROVE  f[name] = <<name, 0>>
  <2>1. PICK k \in 1 .. 22 : fields[k] = name
    BY <1>1, <1>3, Zenon DEF ToSet
  <2>2. k # 16 /\ k # 17
    BY <1>3, <2>1
  <2> QED BY <1>2, <1>6, <2>1, <2>2, Zenon
<1> QED BY <1>7, <1>8, Zenon DEF f

Outputs == [kpanic |-> TRUE, printf |-> TRUE]

\* Where the kernel's IDT has been loaded, its gates lead to the stubs, the segment
\* they name is there, and the streams have been set.
IdtInv ==
  /\ DOMAIN idt = 0 .. 255
  /\ pc \in {"cli", "gdt", "idt"} => streams = Outputs
  /\ pc = "idt" => cpu.gdt_limit # -1
  /\ cpu.idt_limit # -1 =>
       /\ cpu.idt_limit = 4095 /\ cpu.gdt_limit # -1 /\ streams = Outputs
       /\ \A vector \in 0 .. 255 :
            idt[vector] = system_idt_interrupt_entry(vector, Plus(stub, vector * 16), 0, 0)

\* Every gate of the loaded table leads to its own stub, as the CPU decodes it.
LEMMA GatesLeadToStubs ==
  ASSUME GdtInv, IdtInv, cpu.idt_limit # -1, NEW vector \in 0 .. 255
  PROVE  LeadsToStub(vector)
<1> DEFINE address == Plus(stub, vector * 16)
           w == idt[vector]
<1>1. cpu.idt_limit = 4095 /\ cpu.gdt_limit # -1
  BY DEF IdtInv
<1>2. idt[vector] = system_idt_interrupt_entry(vector, address, 0, 0)
  BY DEF IdtInv
<1>3. GateFlags(0) = 142 /\ SEGMENT_SELECTOR(KCODE_SEGMENT, 0) = 8 /\ 0 % 8 = 0
  BY SMT DEF GateFlags, SEGMENT_SELECTOR, KCODE_SEGMENT
<1>4. w = <<address[1], 8, (0 % 8) + 256 * 142, address[2], address[3], address[4], 0, 0>>
  BY <1>2, <1>3, Zenon DEF system_idt_interrupt_entry, EncodeGate
<1>5. address = <<address[1], address[2], address[3], address[4]>>
  BY SMT DEF Plus
<1> HIDE DEF address
<1>6. /\ w[1] = address[1] /\ w[2] = 8 /\ w[3] = 36352 /\ w[4] = address[2]
      /\ w[5] = address[3] /\ w[6] = address[4]
  BY <1>4, SMT
<1> HIDE DEF w
<1>7. Gate(vector).offset = address /\ Gate(vector).selector = 8
  <2>1. Gate(vector).offset = <<w[1], w[4], w[5], w[6]>> /\ Gate(vector).selector = w[2]
    BY SMT DEF Gate, w
  <2> QED BY <1>5, <1>6, <2>1, SMT
<1>8. Gate(vector).type = 14 /\ Gate(vector).present
  <2>1. Gate(vector).type = Bits(w[3], 8, 4) /\ Gate(vector).present = (Bits(w[3], 15, 1) = 1)
    BY SMT DEF Gate, w
  <2>2. 2 ^ 8 = 256 /\ 2 ^ 4 = 16 /\ 2 ^ 15 = 32768 /\ 2 ^ 1 = 2
    BY SMT
  <2>3. (36352 \div 256) % 16 = 14 /\ (36352 \div 32768) % 2 = 1
    BY SMT
  <2>4. Bits(w[3], 8, 4) = 14 /\ Bits(w[3], 15, 1) = 1
    BY <1>6, <2>2, <2>3, SMT DEF Bits
  <2> QED BY <2>1, <2>4, Zenon
<1>9. cpu.gdt_limit = 39 /\ cpu.segments = LoadSelectors
  BY <1>1 DEF GdtInv
<1>10. IsCode(Segment(1)) /\ Dpl(Segment(1)) = 0
  <2>1. IsCode(Segment(cpu.segments.cs \div 8)) /\ Dpl(Segment(cpu.segments.cs \div 8)) = 0
    <3>1. SegmentsUsable
      BY GdtInvUsable
    <3> QED BY <1>1, <3>1 DEF SegmentsUsable
  <2>2. cpu.segments.cs = 8 /\ 8 \div 8 = 1
    BY <1>9, SMT DEF LoadSelectors, SEGMENT_SELECTOR, KCODE_SEGMENT
  <2> QED BY <2>1, <2>2, Zenon
<1>11. vector * 16 + 15 <= 4095 /\ 8 + 7 <= 39 /\ 8 \div 8 = 1
  BY SMT
<1>12. GateWorks(vector)
  BY <1>1, <1>7, <1>8, <1>9, <1>10, <1>11, SMT DEF GateWorks
<1>13. StubOffset[vector] = vector * 16
  BY StubsSixteenApart
<1> QED BY <1>7, <1>12, <1>13, Zenon DEF LeadsToStub, address

\* Taking an interrupt that can happen gives the handler the right frame.
LEMMA TakeGivesFrame ==
  ASSUME GdtInv, IdtInv, NEW t, Possible(t), Take(t)
  PROVE  IdtInv' /\ FrameMatchesCpu'
<1>1. /\ cpu.idt_limit # -1 /\ taken' = t /\ frame' = FrameOf(t, PushesBehind(t.vector))
      /\ cpu' = [cpu EXCEPT !.if = FALSE] /\ pc' = "handler"
      /\ idt' = idt /\ stub' = stub /\ streams' = streams
  BY Zenon DEF Take, GoTo, tableVars, devVars
<1>2. cpu'.gdt_limit = cpu.gdt_limit /\ cpu'.idt_limit = cpu.idt_limit
  BY <1>1, SMT DEF GdtInv, CpuTypeOK
<1>3. IdtInv'
  BY <1>1, <1>2 DEF IdtInv
<1>4. LeadsToStub(t.vector)
  BY <1>1, GatesLeadToStubs DEF Possible
<1>5. frame' = FrameOf(t, StubPushes(t.vector))
  BY <1>1, <1>4, Zenon DEF PushesBehind
<1>6. /\ frame'["vector"] = <<"vector", t.vector>> /\ frame'["error_code"] = <<"code", t.code>>
      /\ \A name \in DOMAIN frame' \ {"vector", "error_code"} : frame'[name] = <<name, 0>>
  BY <1>5, FrameOfPushes, Zenon
<1>7. streams'.kpanic /\ streams'.printf
  <2>1. streams' = Outputs
    BY <1>1 DEF IdtInv
  <2> QED BY <2>1, SMT DEF Outputs
<1> QED BY <1>1, <1>3, <1>6, <1>7, Zenon DEF FrameMatchesCpu

\* The interrupts that the model raises can all happen: devices, by PicInv, only with
\* vectors behind those of the CPU.
LEMMA InterruptsArePossible ==
  ASSUME PicInv', NEW cause \in {"exception", "irq", "NULL"}, NEW vector, NEW code,
         Interrupted(cause, vector, code),
         \/ cause = "exception" /\ vector \in Exceptions /\ (vector \in CpuErrorVectors \/ code = 0)
         \/ cause = "irq" /\ code = 0
         \/ cause = "NULL" /\ vector = 14
  PROVE  \E t : Possible(t) /\ Take(t)
<1> DEFINE t == [cause |-> cause, vector |-> vector, code |-> code, at |-> pc]
<1>1. Take(t) /\ taken' = t
  BY DEF Interrupted, Take
<1>2. t.cause = cause /\ t.vector = vector /\ t.code = code
  BY SMT
<1>3. cause = "irq" => vector \in 32 .. 47
  BY <1>1, <1>2 DEF PicInv, IrqInv
<1> HIDE DEF t
<1>4. CASE cause = "exception"
  <2>1. vector \in 0 .. 31 /\ (vector \in CpuErrorVectors \/ code = 0)
    BY <1>4, BootConstants
  <2>2. Possible(t)
    BY <1>2, <1>4, <2>1, SMT DEF Possible
  <2> QED BY <1>1, <2>2
<1>5. CASE cause = "irq"
  <2>1. vector \in 0 .. 255 /\ vector \notin CpuErrorVectors
    BY <1>3, <1>5, SMT DEF CpuErrorVectors
  <2>2. Possible(t)
    BY <1>2, <1>5, <2>1 DEF Possible
  <2> QED BY <1>1, <2>2
<1>6. CASE cause = "NULL"
  <2>1. vector \in 0 .. 255 /\ vector \in CpuErrorVectors
    BY <1>6, SMT DEF CpuErrorVectors
  <2>2. Possible(t)
    BY <1>2, <1>6, <2>1 DEF Possible
  <2> QED BY <1>1, <2>2
<1> QED BY <1>4, <1>5, <1>6

\* A step inside the boot that leaves the IDT alone, after which the streams are set
\* where they were and no interrupt is being handled that was not before.
LEMMA OtherStepsKeepIdt ==
  ASSUME IdtInv, FrameMatchesCpu,
         UNCHANGED <<idt, stub, taken, frame>>, cpu'.idt_limit = cpu.idt_limit,
         cpu'.gdt_limit = cpu.gdt_limit \/ cpu'.gdt_limit # -1,
         streams' = streams \/ streams' = Outputs,
         pc' = "handler" => pc = "handler" /\ streams' = streams,
         pc' \in {"cli", "gdt", "idt"} => streams' = Outputs,
         pc' = "idt" => cpu'.gdt_limit # -1
  PROVE  IdtInv' /\ FrameMatchesCpu'
BY DEF IdtInv, FrameMatchesCpu

\* The steps one by one.
LEMMA NextIdtInv ==
  ASSUME GdtInv, PicInv, PicInv', IdtInv, FrameMatchesCpu, [Next]_vars
  PROVE  IdtInv' /\ FrameMatchesCpu'
<1> USE DEF GoTo, tableVars, devVars, irqVars
<1>1. ASSUME NEW t, Possible(t), Take(t)
      PROVE  IdtInv' /\ FrameMatchesCpu'
  BY <1>1, TakeGivesFrame
<1>2. ASSUME NEW from, NEW to, to \notin {"handler", "cli", "gdt", "idt"}, Goes(from, to)
      PROVE  IdtInv' /\ FrameMatchesCpu'
  BY <1>2, OtherStepsKeepIdt DEF Goes
<1>3. ASSUME NEW from, Stops(from)
      PROVE  IdtInv' /\ FrameMatchesCpu'
  BY <1>2, <1>3 DEF Stops
<1>4. CpuTypeOK
  BY DEF GdtInv
<1>5. \A b \in BOOLEAN : cpu' = [cpu EXCEPT !.if = b] =>
        cpu'.idt_limit = cpu.idt_limit /\ cpu'.gdt_limit = cpu.gdt_limit
  BY <1>4, SMT DEF CpuTypeOK
<1>6. CASE serial_init
  BY <1>2, <1>3, <1>6 DEF serial_init
<1>7. CASE set_output_stream
  BY <1>7, OtherStepsKeepIdt DEF set_output_stream, Outputs
<1>8. CASE asm_disable_interrupts
  <2>1. streams = Outputs
    BY <1>8 DEF asm_disable_interrupts, IdtInv
  <2> QED BY <1>5, <1>8, <2>1, OtherStepsKeepIdt DEF asm_disable_interrupts
<1>9. CASE asm_enable_interrupts
  BY <1>5, <1>9, OtherStepsKeepIdt DEF asm_enable_interrupts
<1>10. CASE DescriptorStep /\ system_gdt_setup
  <2>1. streams = Outputs /\ UNCHANGED <<idt, stub, streams, taken, frame>>
    BY <1>10 DEF DescriptorStep, system_gdt_setup, IdtInv
  <2>2. CASE pc' = "hcf" /\ cpu' = cpu
    BY <2>1, <2>2, OtherStepsKeepIdt
  <2>3. CASE pc' = "idt" /\ system_gdt_load
    <3>1. cpu'.idt_limit = cpu.idt_limit /\ cpu'.gdt_limit = SEGMENT_COUNT * 8 - 1
      BY <1>4, <2>3, SMT DEF system_gdt_load, CpuTypeOK
    <3>2. cpu'.gdt_limit # -1
      BY <3>1, SMT DEF SEGMENT_COUNT
    <3> QED BY <2>1, <2>3, <3>1, <3>2, OtherStepsKeepIdt
  <2> QED BY <1>10, <2>2, <2>3 DEF system_gdt_setup, hcf
<1>11. CASE DescriptorStep /\ system_idt_setup
  <2>1. /\ pc = "idt" /\ pc' = "sti" /\ UNCHANGED <<gdt, stub, streams, taken, frame>>
        /\ cpu' = [cpu EXCEPT !.idt_limit = IDT_ENTRIES * 16 - 1]
        /\ idt' = [vector \in 0 .. 255 |->
                     system_idt_interrupt_entry(vector, Plus(stub, vector * 16), 0, 0)]
    <3>1. DOMAIN idt = 0 .. 255
      BY DEF IdtInv
    <3>2. idt' = [vector \in DOMAIN idt |->
                    system_idt_interrupt_entry(vector, Plus(stub, vector * 16), 0, 0)]
      BY <1>11 DEF system_idt_setup
    <3>3. /\ pc = "idt" /\ pc' = "sti" /\ UNCHANGED <<gdt, stub, streams, taken, frame>>
          /\ cpu' = [cpu EXCEPT !.idt_limit = IDT_ENTRIES * 16 - 1]
      BY <1>11 DEF DescriptorStep, system_idt_setup
    <3> HIDE DEF GoTo, tableVars, devVars, irqVars
    <3> QED BY <3>1, <3>2, <3>3
  <2>2. cpu'.idt_limit = 4095 /\ cpu'.gdt_limit = cpu.gdt_limit
    BY <1>4, <2>1, SMT DEF CpuTypeOK, IDT_ENTRIES
  <2>3. streams = Outputs /\ cpu.gdt_limit # -1
    BY <2>1 DEF IdtInv
  <2>4. DOMAIN idt' = 0 .. 255 /\ \A vector \in 0 .. 255 :
          idt'[vector] = system_idt_interrupt_entry(vector, Plus(stub', vector * 16), 0, 0)
    BY <2>1, Zenon
  <2> QED BY <2>1, <2>2, <2>3, <2>4 DEF IdtInv, FrameMatchesCpu
<1>12. CASE system_paging_setup
  <2>1. ASSUME NEW request, ReadsNULL("paging", request)
        PROVE  IdtInv' /\ FrameMatchesCpu'
    <3>1. \E t : Possible(t) /\ Take(t)
      BY <2>1, InterruptsArePossible DEF ReadsNULL
    <3> QED BY <1>1, <3>1
  <2> QED BY <1>2, <1>3, <1>12, <2>1 DEF system_paging_setup
<1>13. CASE AcpiStep
  <2>1. UNCHANGED <<cpu, idt, stub, streams, taken, frame>>
    BY <1>13 DEF AcpiStep
  <2>2. pc' \notin {"handler", "cli", "gdt", "idt"} \/ pc' = pc
    BY <1>13 DEF AcpiStep, system_acpi_setup, system_acpi_sdt_get, hcf
  <2> QED BY <2>1, <2>2, OtherStepsKeepIdt DEF IdtInv
<1>14. CASE system_apic_pic_disable
  BY <1>14, OtherStepsKeepIdt DEF system_apic_pic_disable, IdtInv
<1>15. CASE system_apic_setup \/ kmain
  BY <1>2, <1>3, <1>15 DEF system_apic_setup, kmain
<1>16. CASE Idle \/ UNCHANGED vars
  BY <1>16, OtherStepsKeepIdt DEF Idle, vars, IdtInv
<1>17. CASE system_idt_interrupt_handler
  BY <1>17, OtherStepsKeepIdt DEF system_idt_interrupt_handler, hcf
<1>18. CASE \E vector \in Exceptions : Exception(vector)
  <2>1. PICK vector \in Exceptions : Exception(vector)
    BY <1>18
  <2>2. PICK code :
          (vector \in CpuErrorVectors \/ code = 0) /\ Interrupted("exception", vector, code)
    BY <2>1 DEF Exception
  <2>3. \E t : Possible(t) /\ Take(t)
    BY <2>2, InterruptsArePossible
  <2> QED BY <1>1, <2>3
<1>19. CASE \E chip \in {"master", "slave"}, line \in IrqLines : Irq(chip, line)
  <2>1. PICK vector : Interrupted("irq", vector, 0)
    BY <1>19 DEF Irq
  <2>2. \E t : Possible(t) /\ Take(t)
    BY <2>1, InterruptsArePossible
  <2> QED BY <1>1, <2>2
<1> QED BY <1>6, <1>7, <1>8, <1>9, <1>10, <1>11, <1>12, <1>13, <1>14, <1>15, <1>16, <1>17, <1>18,
           <1>19 DEF Next, DescriptorStep

\* Through whatever gate an interrupt comes, at whatever step: the handler finds the
\* vector, the error code and every register in the field of its name, and its
\* output has a stream.
THEOREM FramesMatchTheCpu == Spec => []FrameMatchesCpu
<1>1. Init => IdtInv /\ FrameMatchesCpu
  BY SMT DEF Init, DescriptorsInit, IdtInv, FrameMatchesCpu, IDT_ENTRIES
<1>2. GdtInv /\ PicInv /\ PicInv' /\ IdtInv /\ FrameMatchesCpu /\ [Next]_vars
        => IdtInv' /\ FrameMatchesCpu'
  BY NextIdtInv
<1> QED BY <1>1, <1>2, GdtInvHolds, PicInvHolds, PTL DEF Spec

=============================================================================
