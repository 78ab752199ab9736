---------------------------- MODULE SerialProofs ----------------------------
(***************************************************************************)
(* For messages, inputs and FIFOs of every length: no byte that the code   *)
(* puts out is lost, whatever interrupts the output, and what reads        *)
(* deliver is what has arrived and found room in the FIFO.                 *)
(***************************************************************************)
EXTENDS Serial, SequenceTheorems, TLAPS

-----------------------------------------------------------------------------
(* Sequences                                                               *)

\* Moving the first element of a queue to the end of the one before it.
LEMMA MoveHead ==
  ASSUME NEW S, NEW s \in Seq(S), NEW t \in Seq(S), t # <<>>
  PROVE  Append(s, Head(t)) \o Tail(t) = s \o t
<1>1. /\ Head(t) \in S /\ Tail(t) \in Seq(S) /\ Len(Tail(t)) = Len(t) - 1
      /\ \A i \in 1 .. Len(Tail(t)) : Tail(t)[i] = t[i + 1]
  BY HeadTailProperties
<1>2. Len(s) \in Nat /\ Len(t) \in Nat \ {0} /\ Head(t) = t[1]
  BY EmptySeq
<1>3. /\ Append(s, Head(t)) \in Seq(S) /\ Len(Append(s, Head(t))) = Len(s) + 1
      /\ \A i \in 1 .. Len(s) : Append(s, Head(t))[i] = s[i]
      /\ Append(s, Head(t))[Len(s) + 1] = t[1]
  BY <1>1, <1>2, AppendProperties
<1> DEFINE l == Append(s, Head(t)) \o Tail(t)
           r == s \o t
<1>4. /\ l \in Seq(S) /\ Len(l) = Len(s) + Len(t)
      /\ \A i \in 1 .. Len(s) + Len(t) :
           l[i] = IF i <= Len(s) + 1 THEN Append(s, Head(t))[i] ELSE Tail(t)[i - (Len(s) + 1)]
  BY <1>1, <1>2, <1>3, ConcatProperties
<1>5. /\ r \in Seq(S) /\ Len(r) = Len(s) + Len(t)
      /\ \A i \in 1 .. Len(s) + Len(t) : r[i] = IF i <= Len(s) THEN s[i] ELSE t[i - Len(s)]
  BY ConcatProperties
<1>6. \A i \in 1 .. Len(l) : l[i] = r[i]
  <2> SUFFICES ASSUME NEW i \in 1 .. Len(s) + Len(t) PROVE l[i] = r[i]
    BY <1>4
  <2>1. CASE i <= Len(s)
    BY <1>2, <1>3, <1>4, <1>5, <2>1
  <2>2. CASE i = Len(s) + 1
    BY <1>2, <1>3, <1>4, <1>5, <2>2
  <2>3. CASE i > Len(s) + 1
    <3>1. i - (Len(s) + 1) \in 1 .. Len(Tail(t)) /\ i - (Len(s) + 1) + 1 = i - Len(s)
      BY <1>1, <1>2, <2>3
    <3> QED BY <1>1, <1>2, <1>4, <1>5, <2>3, <3>1
  <2> QED BY <1>2, <2>1, <2>2, <2>3
<1> HIDE DEF l, r
<1>7. l = r
  BY <1>4, <1>5, <1>6, SeqEqual
<1> QED BY <1>7 DEF l, r

\* Appending to the second part appends to the whole.
LEMMA AppendConcat ==
  ASSUME NEW S, NEW s \in Seq(S), NEW t \in Seq(S), NEW e \in S
  PROVE  s \o Append(t, e) = Append(s \o t, e)
<1>1. Append(t, e) = t \o <<e>> /\ <<e>> \in Seq(S) /\ s \o t \in Seq(S)
  BY AppendIsConcat, ConcatProperties
<1>2. Append(s \o t, e) = (s \o t) \o <<e>>
  BY <1>1, AppendIsConcat
<1>3. (s \o t) \o <<e>> = s \o (t \o <<e>>)
  BY <1>1, ConcatAssociative
<1> QED BY <1>1, <1>2, <1>3

\* What is appended does not change the parts before it.
LEMMA PartOfAppend ==
  ASSUME NEW S, NEW s \in Seq(S), NEW e \in S, NEW m \in 1 .. Len(s) + 1
  PROVE  SubSeq(Append(s, e), m, Len(s)) = SubSeq(s, m, Len(s))
<1>1. Append(s, e) = s \o <<e>> /\ <<e>> \in Seq(S) /\ Len(s) \in Nat
  BY AppendIsConcat, LenProperties
<1>2. CASE m \in 1 .. Len(s)
  <2>1. Len(s) \in 1 .. Len(s)
    BY <1>1, <1>2
  <2> QED BY <1>1, <1>2, <2>1, SubSeqOfConcat1
<1>3. CASE m = Len(s) + 1
  <2>1. m \in Int /\ Len(s) \in Int /\ Len(s) < m
    BY <1>1, <1>3
  <2> QED BY <2>1, SubSeqEmpty
<1> QED BY <1>1, <1>2, <1>3

\* The second part of a concatenation is a suffix of it.
LEMMA ConcatSuffix ==
  ASSUME NEW S, NEW u \in Seq(S), NEW s \in Seq(S)
  PROVE  IsSuffix(s, u \o s)
<1> DEFINE t == u \o s
           rs == Reverse(s)
           rt == Reverse(t)
<1>1. /\ t \in Seq(S) /\ Len(t) = Len(u) + Len(s)
      /\ \A i \in 1 .. Len(u) + Len(s) : t[i] = IF i <= Len(u) THEN u[i] ELSE s[i - Len(u)]
  BY ConcatProperties
<1>2. Len(s) \in Nat /\ Len(u) \in Nat /\ Len(t) \in Nat
  BY <1>1, LenProperties
<1> HIDE DEF t
<1>3. Len(rs) = Len(s) /\ \A i \in 1 .. Len(s) : rs[i] = s[(Len(s) - i) + 1]
  BY <1>2 DEF Reverse
<1>4. Len(rt) = Len(t) /\ \A i \in 1 .. Len(t) : rt[i] = t[(Len(t) - i) + 1]
  BY <1>2 DEF Reverse
<1> HIDE DEF rs, rt
<1>5. \A i \in 1 .. Len(s) : rs[i] = rt[i]
  <2> SUFFICES ASSUME NEW i \in 1 .. Len(s) PROVE rs[i] = rt[i]
    OBVIOUS
  <2>1. i \in 1 .. Len(t) /\ (Len(t) - i) + 1 \in 1 .. Len(u) + Len(s)
        /\ ~ ((Len(t) - i) + 1 <= Len(u)) /\ (Len(t) - i) + 1 - Len(u) = (Len(s) - i) + 1
    BY <1>1, <1>2
  <2> DEFINE j == (Len(t) - i) + 1
  <2>2. rs[i] = s[(Len(s) - i) + 1] /\ rt[i] = t[j]
    BY <1>3, <1>4, <2>1
  <2> HIDE DEF j
  <2>3. t[j] = s[j - Len(u)]
    BY <1>1, <2>1 DEF j
  <2> QED BY <2>1, <2>2, <2>3 DEF j
<1>6. SubSeq(rs, 1, Len(s)) = SubSeq(rt, 1, Len(s))
  BY <1>2, <1>5
<1> QED BY <1>1, <1>2, <1>3, <1>4, <1>6 DEF IsSuffix, IsPrefix, t, rs, rt

-----------------------------------------------------------------------------
(* The inductive invariant for the output                                  *)

\* The states of a UART whose buffers hold bytes.
Uarts ==
  [dlab : BOOLEAN, loopback : BOOLEAN, irqs : BOOLEAN, divisor : [1 .. 2 -> Byte],
   tx : Seq(Byte), rx : Seq(Byte), arrived : Nat, accepted : Seq(Byte)]

Kernels ==
  [pc : {"init", "idle", "write", "read wait", "read", "panic", "interrupt", "halted", "dead"},
   buffer : Seq(Byte), i : Nat, ready : BOOLEAN, size : Nat, result : Nat, calls : Nat,
   skipped : Nat]

TypeOK ==
  /\ uart \in Uarts
  /\ kernel \in Kernels
  /\ wire \in Seq(Byte) /\ sent \in Seq(Byte) /\ got \in Seq(Byte)

\* How far serial_init is tells what the registers are; nothing has been sent.
InitRegisters ==
  kernel.pc = "init" =>
    /\ kernel.i \in 0 .. 9 /\ kernel.ready = FALSE
    /\ sent = <<>> /\ got = <<>>
    /\ kernel.i \in 2 .. 4 => uart.dlab = TRUE
    /\ kernel.i \notin 2 .. 4 => uart.dlab = FALSE
    /\ kernel.i \in 8 .. 9 => uart.loopback = TRUE
    /\ kernel.i \notin 8 .. 9 => uart.loopback = FALSE

\* After a successful serial_init the data register is the transmit buffer, and
\* what is sent goes to the line.
RunRegisters ==
  /\ kernel.pc \notin {"init", "dead"} => uart.dlab = FALSE /\ uart.loopback = FALSE
  /\ uart.loopback = TRUE => sent = <<>>

\* The bytes sent are the last ones on the line and in the transmitter, and a
\* transmitter that was found empty stays so until a byte is put into it.
Output ==
  /\ \E u \in Seq(Byte) : wire \o uart.tx = u \o sent
  /\ kernel.ready = TRUE => uart.tx = <<>>

OutputInv == TypeOK /\ InitRegisters /\ RunRegisters /\ Output

-----------------------------------------------------------------------------
(* The registers                                                           *)

\* A byte put into an empty transmitter stays in it.
LEMMA PutIntoEmpty ==
  ASSUME NEW u \in Uarts, NEW v \in Byte, u.dlab = FALSE, u.tx = <<>>
  PROVE  /\ asm_port_outb(u, 0, v) \in Uarts
         /\ asm_port_outb(u, 0, v) = [u EXCEPT !.tx = Append(u.tx, v)]
<1>1. Len(u.tx) < FifoSize
  BY SerialConstants
<1>2. asm_port_outb(u, 0, v) = [u EXCEPT !.tx = Append(u.tx, v)]
  BY <1>1 DEF asm_port_outb
<1>3. Append(u.tx, v) \in Seq(Byte)
  BY AppendProperties DEF Uarts
<1>4. [u EXCEPT !.tx = Append(u.tx, v)] \in Uarts
  BY <1>3 DEF Uarts
<1> QED BY <1>2, <1>4

\* The divisor latch takes the two registers over.
LEMMA PutDivisor ==
  ASSUME NEW u \in Uarts, NEW v \in Byte, u.dlab = TRUE
  PROVE  /\ asm_port_outb(u, 0, v) = [u EXCEPT !.divisor[1] = v]
         /\ asm_port_outb(u, 1, v) = [u EXCEPT !.divisor[2] = v]
BY DEF asm_port_outb

\* The other registers that serial_init writes.
LEMMA PutOthers ==
  ASSUME NEW u \in Uarts
  PROVE  /\ u.dlab = FALSE => asm_port_outb(u, 1, 0) = [u EXCEPT !.irqs = FALSE]
         /\ asm_port_outb(u, 3, 128) = [u EXCEPT !.dlab = TRUE]
         /\ asm_port_outb(u, 3, 3) = [u EXCEPT !.dlab = FALSE]
         /\ asm_port_outb(u, 2, 199) = [u EXCEPT !.rx = <<>>, !.tx = <<>>]
         /\ asm_port_outb(u, 4, 11) = [u EXCEPT !.loopback = FALSE]
         /\ asm_port_outb(u, 4, 30) = [u EXCEPT !.loopback = TRUE]
         /\ asm_port_outb(u, 4, 15) = [u EXCEPT !.loopback = FALSE]
<1>1. /\ HasBit(128, 128) = TRUE /\ HasBit(3, 128) = FALSE
      /\ HasBit(199, 2) = TRUE /\ HasBit(199, 4) = TRUE
      /\ HasBit(11, 16) = FALSE /\ HasBit(30, 16) = TRUE /\ HasBit(15, 16) = FALSE
  BY DEF HasBit
<1>2. u.dlab = FALSE => asm_port_outb(u, 1, 0) = [u EXCEPT !.irqs = FALSE]
  <2> SUFFICES ASSUME u.dlab = FALSE PROVE asm_port_outb(u, 1, 0) = [u EXCEPT !.irqs = FALSE]
    OBVIOUS
  <2>1. asm_port_outb(u, 1, 0) = [u EXCEPT !.irqs = 0 # 0]
    BY DEF asm_port_outb
  <2>2. (0 # 0) = FALSE
    OBVIOUS
  <2> QED BY <2>1, <2>2, Zenon
<1>3. /\ asm_port_outb(u, 3, 128) = [u EXCEPT !.dlab = HasBit(128, 128)]
      /\ asm_port_outb(u, 3, 3) = [u EXCEPT !.dlab = HasBit(3, 128)]
  BY DEF asm_port_outb
<1>4. asm_port_outb(u, 2, 199) = [u EXCEPT !.rx = <<>>, !.tx = <<>>]
  BY <1>1 DEF asm_port_outb
<1>5. /\ asm_port_outb(u, 4, 11) = [u EXCEPT !.loopback = HasBit(11, 16)]
      /\ asm_port_outb(u, 4, 30) = [u EXCEPT !.loopback = HasBit(30, 16)]
      /\ asm_port_outb(u, 4, 15) = [u EXCEPT !.loopback = HasBit(15, 16)]
  BY DEF asm_port_outb
<1> QED BY <1>1, <1>2, <1>3, <1>4, <1>5, Zenon

\* A byte put into the transmitter is appended or, if the FIFO is full, lost.
LEMMA PutData ==
  ASSUME NEW u \in Uarts, NEW v \in Byte, u.dlab = FALSE
  PROVE  asm_port_outb(u, 0, v) \in {u, [u EXCEPT !.tx = Append(u.tx, v)]}
BY DEF asm_port_outb

-----------------------------------------------------------------------------
(* The steps                                                               *)

\* As long as nothing has been sent, whatever is in the transmitter will do.
LEMMA NothingSentYet ==
  TypeOK /\ sent = <<>> => \E u \in Seq(Byte) : wire \o uart.tx = u \o sent
<1> SUFFICES ASSUME TypeOK, sent = <<>>
             PROVE  \E u \in Seq(Byte) : wire \o uart.tx = u \o sent
  OBVIOUS
<1>1. wire \in Seq(Byte) /\ uart.tx \in Seq(Byte)
  BY DEF TypeOK, Uarts
<1>2. wire \o uart.tx \in Seq(Byte)
  BY <1>1, ConcatProperties
<1>3. wire \o uart.tx = (wire \o uart.tx) \o <<>>
  BY <1>2, ConcatEmptySeq
<1> QED BY <1>2, <1>3, Zenon

\* The same for the registers as a whole.
Registers(u, dlab, loopback) == u \in Uarts /\ u.dlab = dlab /\ u.loopback = loopback

\* What the writes of serial_init do to the registers.
LEMMA InitWriteEffects ==
  ASSUME NEW u, NEW d \in BOOLEAN, NEW l \in BOOLEAN, Registers(u, d, l)
  PROVE  /\ Registers(asm_port_outb(u, 1, 0), d, l)
         /\ Registers(asm_port_outb(u, 3, 128), TRUE, l)
         /\ Registers(asm_port_outb(u, 0, 3), d, l)
         /\ Registers(asm_port_outb(u, 3, 3), FALSE, l)
         /\ Registers(asm_port_outb(u, 2, 199), d, l)
         /\ Registers(asm_port_outb(u, 4, 11), d, FALSE)
         /\ Registers(asm_port_outb(u, 4, 30), d, TRUE)
         /\ Registers(asm_port_outb(u, 0, TestByte), d, l)
         /\ Registers(asm_port_outb(u, 4, 15), d, FALSE)
<1> USE DEF Registers
<1>1. u \in Uarts /\ u.dlab = d /\ u.loopback = l /\ (u.dlab = TRUE \/ u.dlab = FALSE)
  BY DEF Uarts
<1>2. /\ <<>> \in Seq(Byte) /\ 3 \in Byte /\ 0 \in Byte /\ TestByte \in Byte
      /\ Append(u.tx, TestByte) \in Seq(Byte) /\ Append(u.tx, 3) \in Seq(Byte)
  BY <1>1, AppendProperties, EmptySeq DEF Uarts, Byte, TestByte
<1>3. ASSUME NEW v \in Byte
      PROVE  /\ Registers([u EXCEPT !.divisor[1] = v], d, l)
             /\ Registers([u EXCEPT !.divisor[2] = v], d, l)
  BY <1>1, <1>3 DEF Uarts
<1>4. ASSUME NEW t \in Seq(Byte) PROVE Registers([u EXCEPT !.tx = t], d, l)
  BY <1>1, <1>4 DEF Uarts
<1>5. Registers(asm_port_outb(u, 1, 0), d, l)
  <2>1. CASE u.dlab = TRUE
    <3>1. asm_port_outb(u, 1, 0) = [u EXCEPT !.divisor[2] = 0]
      BY <1>1, <1>2, <2>1, PutDivisor
    <3> QED BY <1>2, <1>3, <3>1, Zenon
  <2>2. CASE u.dlab = FALSE
    <3>1. asm_port_outb(u, 1, 0) = [u EXCEPT !.irqs = FALSE]
      BY <1>1, <2>2, PutOthers
    <3> QED BY <1>1, <3>1 DEF Uarts
  <2> QED BY <1>1, <2>1, <2>2
<1>6. ASSUME NEW v \in {3, TestByte} PROVE Registers(asm_port_outb(u, 0, v), d, l)
  <2>0. v \in Byte /\ Append(u.tx, v) \in Seq(Byte)
    BY <1>2, <1>6
  <2>1. CASE u.dlab = TRUE
    <3>1. asm_port_outb(u, 0, v) = [u EXCEPT !.divisor[1] = v]
      BY <1>1, <2>0, <2>1, PutDivisor
    <3> QED BY <1>3, <2>0, <3>1, Zenon
  <2>2. CASE u.dlab = FALSE
    BY <1>1, <1>4, <2>0, <2>2, PutData
  <2> QED BY <1>1, <2>1, <2>2
<1>7. ASSUME NEW b \in BOOLEAN
      PROVE  Registers([u EXCEPT !.dlab = b], b, l) /\ Registers([u EXCEPT !.loopback = b], d, b)
  BY <1>1, <1>7 DEF Uarts
<1>8. Registers([u EXCEPT !.rx = <<>>, !.tx = <<>>], d, l)
  BY <1>1, <1>2 DEF Uarts
<1>9. TRUE \in BOOLEAN /\ FALSE \in BOOLEAN
  OBVIOUS
<1> HIDE DEF Registers
<1>10. Registers(asm_port_outb(u, 0, 3), d, l) /\ Registers(asm_port_outb(u, 0, TestByte), d, l)
  BY <1>6
<1> QED BY <1>1, <1>5, <1>7, <1>8, <1>9, <1>10, PutOthers, Zenon

\* Each write of serial_init leaves the registers as the next one expects them.
LEMMA InitWriteRegisters ==
  ASSUME OutputInv, InitWrite
  PROVE  /\ uart' \in Uarts
         /\ kernel.i + 1 \in 2 .. 4 => uart'.dlab = TRUE
         /\ kernel.i + 1 \notin 2 .. 4 => uart'.dlab = FALSE
         /\ kernel.i + 1 \in 8 .. 9 => uart'.loopback = TRUE
         /\ kernel.i + 1 \notin 8 .. 9 => uart'.loopback = FALSE
<1>1. /\ kernel.i \in 0 .. 8
      /\ kernel.i \in 2 .. 4 => uart.dlab = TRUE
      /\ kernel.i \notin 2 .. 4 => uart.dlab = FALSE
      /\ kernel.i \in 8 .. 9 => uart.loopback = TRUE
      /\ kernel.i \notin 8 .. 9 => uart.loopback = FALSE
  BY DEF OutputInv, InitRegisters, InitWrite, InitWrites
<1>2. uart \in Uarts
  BY DEF OutputInv, TypeOK
<1>3. uart' = asm_port_outb(uart, InitWrites[kernel.i + 1][1], InitWrites[kernel.i + 1][2])
  BY DEF InitWrite
<1>4. TRUE \in BOOLEAN /\ FALSE \in BOOLEAN
  OBVIOUS
<1>5. CASE kernel.i = 0
  <2>1. uart' = asm_port_outb(uart, 1, 0) /\ Registers(uart, FALSE, FALSE)
    BY <1>1, <1>2, <1>3, <1>5 DEF InitWrites, Registers
  <2>2. Registers(uart', FALSE, FALSE)
    BY <1>4, <2>1, InitWriteEffects, Zenon
  <2> QED BY <1>5, <2>2 DEF Registers
<1>6. CASE kernel.i = 1
  <2>1. uart' = asm_port_outb(uart, 3, 128) /\ Registers(uart, FALSE, FALSE)
    BY <1>1, <1>2, <1>3, <1>6 DEF InitWrites, Registers
  <2>2. Registers(uart', TRUE, FALSE)
    BY <1>4, <2>1, InitWriteEffects, Zenon
  <2> QED BY <1>6, <2>2 DEF Registers
<1>7. CASE kernel.i \in {2, 3}
  <2>1. /\ uart' = asm_port_outb(uart, 0, 3) \/ uart' = asm_port_outb(uart, 1, 0)
        /\ Registers(uart, TRUE, FALSE)
    BY <1>1, <1>2, <1>3, <1>7 DEF InitWrites, Registers
  <2>2. Registers(uart', TRUE, FALSE)
    BY <1>4, <2>1, InitWriteEffects, Zenon
  <2> QED BY <1>7, <2>2 DEF Registers
<1>8. CASE kernel.i = 4
  <2>1. uart' = asm_port_outb(uart, 3, 3) /\ Registers(uart, TRUE, FALSE)
    BY <1>1, <1>2, <1>3, <1>8 DEF InitWrites, Registers
  <2>2. Registers(uart', FALSE, FALSE)
    BY <1>4, <2>1, InitWriteEffects, Zenon
  <2> QED BY <1>8, <2>2 DEF Registers
<1>9. CASE kernel.i \in {5, 6}
  <2>1. /\ uart' = asm_port_outb(uart, 2, 199) \/ uart' = asm_port_outb(uart, 4, 11)
        /\ Registers(uart, FALSE, FALSE)
    BY <1>1, <1>2, <1>3, <1>9 DEF InitWrites, Registers
  <2>2. Registers(uart', FALSE, FALSE)
    BY <1>4, <2>1, InitWriteEffects, Zenon
  <2> QED BY <1>9, <2>2 DEF Registers
<1>10. CASE kernel.i = 7
  <2>1. uart' = asm_port_outb(uart, 4, 30) /\ Registers(uart, FALSE, FALSE)
    BY <1>1, <1>2, <1>3, <1>10 DEF InitWrites, Registers
  <2>2. Registers(uart', FALSE, TRUE)
    BY <1>4, <2>1, InitWriteEffects, Zenon
  <2> QED BY <1>10, <2>2 DEF Registers
<1>11. CASE kernel.i = 8
  <2>1. uart' = asm_port_outb(uart, 0, TestByte) /\ Registers(uart, FALSE, TRUE)
    BY <1>1, <1>2, <1>3, <1>11 DEF InitWrites, Registers
  <2>2. Registers(uart', FALSE, TRUE)
    BY <1>4, <2>1, InitWriteEffects, Zenon
  <2> QED BY <1>11, <2>2 DEF Registers
<1>12. kernel.i = 0 \/ kernel.i = 1 \/ kernel.i \in {2, 3} \/ kernel.i = 4 \/ kernel.i \in {5, 6}
         \/ kernel.i = 7 \/ kernel.i = 8
  BY <1>1
<1> QED BY <1>5, <1>6, <1>7, <1>8, <1>9, <1>10, <1>11, <1>12, Zenon

\* serial_init sends nothing that counts.
LEMMA InitWritePreserves ==
  ASSUME OutputInv, InitWrite
  PROVE  OutputInv'
<1>1. /\ kernel.pc = "init" /\ kernel.i \in 0 .. 8
      /\ kernel.ready = FALSE /\ sent = <<>> /\ got = <<>>
  BY DEF OutputInv, InitRegisters, InitWrite, InitWrites
<1>2. /\ kernel' = [kernel EXCEPT !.i = kernel.i + 1]
      /\ wire' = wire /\ sent' = sent /\ got' = got
  BY DEF InitWrite
<1>3. TypeOK'
  <2>1. uart' \in Uarts
    BY InitWriteRegisters
  <2>2. kernel.i + 1 \in Nat
    BY <1>1
  <2> QED BY <1>2, <2>1, <2>2 DEF OutputInv, TypeOK, Kernels
<1>4. kernel'.pc = "init" /\ kernel'.i = kernel.i + 1 /\ kernel'.ready = FALSE
  BY <1>1, <1>2 DEF OutputInv, TypeOK, Kernels
<1>5. kernel'.i \in 0 .. 9
  BY <1>1, <1>4
<1>6. InitRegisters'
  BY <1>1, <1>2, <1>4, <1>5, InitWriteRegisters DEF InitRegisters
<1>7. RunRegisters'
  BY <1>1, <1>2, <1>4 DEF RunRegisters
<1>8. (TypeOK /\ sent = <<>> => \E u \in Seq(Byte) : wire \o uart.tx = u \o sent)'
  BY NothingSentYet, PTL
<1>9. Output'
  BY <1>1, <1>2, <1>3, <1>4, <1>8 DEF Output
<1> QED BY <1>3, <1>6, <1>7, <1>9 DEF OutputInv

\* The test reads the receive buffer and, if it succeeds, ends loopback.
LEMMA InitTestPreserves ==
  ASSUME OutputInv, InitTest
  PROVE  OutputInv'
<1> DEFINE rest == [uart EXCEPT !.rx = IF uart.rx = <<>> THEN uart.rx ELSE Tail(uart.rx)]
<1>1. /\ kernel.pc = "init" /\ kernel.i = 9 /\ kernel.ready = FALSE
      /\ sent = <<>> /\ got = <<>> /\ uart.dlab = FALSE /\ uart.loopback = TRUE
  BY DEF OutputInv, InitRegisters, InitTest, InitWrites
<1>2. /\ wire' = wire /\ sent' = sent /\ got' = got
      /\ \/ uart' = rest /\ kernel' = [kernel EXCEPT !.pc = "dead"]
         \/ /\ uart' = asm_port_outb(rest, 4, 15)
            /\ kernel' = [kernel EXCEPT !.pc = "idle", !.skipped = Len(uart.accepted)]
  BY Zenon DEF InitTest
<1>3. Registers(rest, FALSE, TRUE)
  <2>1. (IF uart.rx = <<>> THEN uart.rx ELSE Tail(uart.rx)) \in Seq(Byte)
    BY HeadTailProperties DEF OutputInv, TypeOK, Uarts
  <2> QED BY <1>1, <2>1 DEF Registers, OutputInv, TypeOK, Uarts
<1>4. Registers(asm_port_outb(rest, 4, 15), FALSE, FALSE)
  <2>1. TRUE \in BOOLEAN /\ FALSE \in BOOLEAN
    OBVIOUS
  <2> QED BY <1>3, <2>1, InitWriteEffects, Zenon
<1> HIDE DEF rest
<1>5. kernel \in Kernels /\ Len(uart.accepted) \in Nat
  BY LenProperties DEF OutputInv, TypeOK, Uarts
<1>6. /\ kernel' \in Kernels /\ uart' \in Uarts /\ kernel'.ready = FALSE
      /\ \/ kernel'.pc = "dead"
         \/ kernel'.pc = "idle" /\ uart'.dlab = FALSE /\ uart'.loopback = FALSE
  <2>1. CASE uart' = rest /\ kernel' = [kernel EXCEPT !.pc = "dead"]
    <3>1. kernel' \in Kernels /\ kernel'.pc = "dead" /\ kernel'.ready = FALSE
      BY <1>1, <1>5, <2>1 DEF Kernels
    <3> QED BY <1>3, <2>1, <3>1, Zenon DEF Registers
  <2>2. CASE /\ uart' = asm_port_outb(rest, 4, 15)
             /\ kernel' = [kernel EXCEPT !.pc = "idle", !.skipped = Len(uart.accepted)]
    <3>1. kernel' \in Kernels /\ kernel'.pc = "idle" /\ kernel'.ready = FALSE
      BY <1>1, <1>5, <2>2 DEF Kernels
    <3> QED BY <1>4, <2>2, <3>1, Zenon DEF Registers
  <2> QED BY <1>2, <2>1, <2>2
<1>7. TypeOK'
  BY <1>2, <1>6 DEF OutputInv, TypeOK
<1>8. InitRegisters' /\ RunRegisters'
  BY <1>1, <1>2, <1>6 DEF InitRegisters, RunRegisters
<1>9. (TypeOK /\ sent = <<>> => \E u \in Seq(Byte) : wire \o uart.tx = u \o sent)'
  BY NothingSentYet, PTL
<1>10. Output'
  BY <1>1, <1>2, <1>6, <1>7, <1>9 DEF Output
<1> QED BY <1>7, <1>8, <1>10 DEF OutputInv

\* A byte goes from the transmitter to the line and stays where it was in the
\* order, or goes round in loopback, when nothing has been sent.
LEMMA TransmitPreserves ==
  ASSUME OutputInv, Transmit
  PROVE  OutputInv'
<1> DEFINE rx == IF uart.loopback /\ Len(uart.rx) < FifoSize
                 THEN Append(uart.rx, Head(uart.tx)) ELSE uart.rx
<1>1. /\ uart.tx # <<>> /\ kernel' = kernel /\ sent' = sent /\ got' = got
      /\ uart' = [uart EXCEPT !.tx = Tail(uart.tx), !.rx = rx]
      /\ wire' = IF uart.loopback THEN wire ELSE Append(wire, Head(uart.tx))
  BY Zenon DEF Transmit
<1>2. /\ uart \in Uarts /\ uart.tx \in Seq(Byte) /\ uart.rx \in Seq(Byte)
      /\ wire \in Seq(Byte) /\ sent \in Seq(Byte)
      /\ uart.loopback = TRUE \/ uart.loopback = FALSE
  BY DEF OutputInv, TypeOK, Uarts
<1>3. Head(uart.tx) \in Byte /\ Tail(uart.tx) \in Seq(Byte)
  BY <1>1, <1>2, HeadTailProperties
<1>4. rx \in Seq(Byte) /\ Append(wire, Head(uart.tx)) \in Seq(Byte)
  BY <1>2, <1>3, AppendProperties
<1> HIDE DEF rx
<1>5. /\ uart' \in Uarts /\ uart'.tx = Tail(uart.tx)
      /\ uart'.dlab = uart.dlab /\ uart'.loopback = uart.loopback
  BY <1>1, <1>2, <1>3, <1>4 DEF Uarts
<1>6. wire' \in Seq(Byte)
  BY <1>1, <1>2, <1>4
<1>7. TypeOK'
  BY <1>1, <1>5, <1>6 DEF OutputInv, TypeOK
<1>8. InitRegisters' /\ RunRegisters'
  BY <1>1, <1>5, Zenon DEF OutputInv, InitRegisters, RunRegisters
<1>9. \E u \in Seq(Byte) : wire' \o uart'.tx = u \o sent'
  <2>1. CASE uart.loopback = TRUE
    <3>1. sent' = <<>>
      BY <1>1, <2>1 DEF OutputInv, RunRegisters
    <3>2. (TypeOK /\ sent = <<>> => \E u \in Seq(Byte) : wire \o uart.tx = u \o sent)'
      BY NothingSentYet, PTL
    <3> QED BY <1>7, <3>1, <3>2
  <2>2. CASE uart.loopback = FALSE
    <3>1. wire' = Append(wire, Head(uart.tx))
      BY <1>1, <2>2
    <3>2. wire' \o uart'.tx = wire \o uart.tx
      BY <1>1, <1>2, <1>5, <3>1, MoveHead
    <3> QED BY <1>1, <3>2, Zenon DEF OutputInv, Output
  <2> QED BY <1>2, <2>1, <2>2
<1>10. Output'
  BY <1>1, <1>9 DEF OutputInv, Output
<1> QED BY <1>7, <1>8, <1>10 DEF OutputInv

\* A byte that arrives has nothing to do with the output.
LEMMA ReceivePreserves ==
  ASSUME OutputInv, Receive
  PROVE  OutputInv'
<1>1. /\ wire' = wire /\ kernel' = kernel /\ sent' = sent /\ got' = got
      /\ \/ uart' = [uart EXCEPT !.arrived = uart.arrived + 1,
                                 !.rx = Append(uart.rx, Input[uart.arrived + 1]),
                                 !.accepted = Append(uart.accepted, Input[uart.arrived + 1])]
         \/ uart' = [uart EXCEPT !.arrived = uart.arrived + 1]
      /\ uart.arrived < Len(Input)
  BY DEF Receive
<1>2. /\ uart \in Uarts /\ uart.rx \in Seq(Byte) /\ uart.arrived \in Nat
      /\ uart.accepted \in Seq(Byte)
  BY DEF OutputInv, TypeOK, Uarts
<1>3. Input[uart.arrived + 1] \in Byte
  <2>1. Input \in Seq(Byte) /\ Len(Input) \in Nat
    BY SerialConstants, LenProperties
  <2>2. uart.arrived + 1 \in 1 .. Len(Input)
    BY <1>1, <1>2, <2>1
  <2> QED BY <2>1, <2>2, ElementOfSeq
<1>4. /\ Append(uart.rx, Input[uart.arrived + 1]) \in Seq(Byte) /\ uart.arrived + 1 \in Nat
      /\ Append(uart.accepted, Input[uart.arrived + 1]) \in Seq(Byte)
  BY <1>2, <1>3, AppendProperties
<1>5. /\ uart' \in Uarts /\ uart'.tx = uart.tx
      /\ uart'.dlab = uart.dlab /\ uart'.loopback = uart.loopback
  BY <1>1, <1>2, <1>4 DEF Uarts
<1>6. TypeOK'
  BY <1>1, <1>5 DEF OutputInv, TypeOK
<1> QED BY <1>1, <1>5, <1>6, Zenon DEF OutputInv, InitRegisters, RunRegisters, Output

\* A step that does not touch the port, after serial_init: it is enough that no
\* transmitter is taken for empty that is not.
LEMMA KernelStepPreserves ==
  ASSUME OutputInv, UNCHANGED <<uart, wire, sent, got>>, kernel' \in Kernels,
         kernel.pc \notin {"init", "dead"}, kernel'.pc # "init",
         kernel'.ready = TRUE => uart.tx = <<>>
  PROVE  OutputInv'
<1>1. TypeOK'
  BY DEF OutputInv, TypeOK
<1>2. InitRegisters' /\ RunRegisters'
  BY DEF OutputInv, InitRegisters, RunRegisters
<1>3. Output'
  BY DEF OutputInv, Output
<1> QED BY <1>1, <1>2, <1>3 DEF OutputInv

\* The beginnings and the ends of calls, the polls and the panics.
CallStep ==
  \/ WritePoll \/ WriteReturn \/ ReadWait \/ ReadReturn \/ hcf
  \/ \E message \in Messages : WriteBegin(message)
  \/ \E size \in ReadSizes : ReadBegin(size)
  \/ kpanic \/ Interrupt

\* What these steps do to the state of the kernel.
LEMMA CallStepKernel ==
  ASSUME OutputInv, CallStep
  PROVE  /\ UNCHANGED <<uart, wire, sent, got>> /\ kernel' \in Kernels
         /\ kernel.pc \notin {"init", "dead"} /\ kernel'.pc # "init"
         /\ kernel'.ready = TRUE => uart.tx = <<>>
         /\ kernel'.skipped = kernel.skipped
         /\ kernel'.pc \in {"read wait", "read"} =>
              \/ kernel'.i = 0
              \/ kernel.pc = "read wait" /\ kernel'.i = kernel.i /\ kernel'.size = kernel.size
<1>1. /\ kernel \in Kernels
      /\ kernel.ready = TRUE => uart.tx = <<>>
      /\ kernel.calls + 1 \in Nat
  <2>1. /\ kernel \in Kernels
        /\ kernel.ready = TRUE => uart.tx = <<>>
    BY DEF OutputInv, TypeOK, Output
  <2>2. kernel.calls \in Nat
    BY <2>1 DEF Kernels
  <2> QED BY <2>1, <2>2
<1>2. Messages \subseteq Seq(Byte) /\ ReadSizes \subseteq Nat
      /\ PanicMessage \in Seq(Byte) /\ InterruptMessage \in Seq(Byte)
  BY SerialConstants
<1>3. CASE WritePoll
  BY <1>1, <1>3 DEF WritePoll, KernelStep, Kernels, Writing, serial_write_available
<1>4. CASE WriteReturn
  <2>1. Len(kernel.buffer) \in Nat
    BY <1>1, LenProperties DEF Kernels
  <2> QED BY <1>1, <1>4, <2>1 DEF WriteReturn, KernelStep, Kernels
<1>5. CASE ReadWait
  BY <1>1, <1>5 DEF ReadWait, KernelStep, Kernels
<1>6. CASE ReadReturn
  BY <1>1, <1>6 DEF ReadReturn, KernelStep, Kernels
<1>7. CASE hcf
  BY <1>1, <1>7 DEF hcf, KernelStep, Kernels
<1>8. CASE \E message \in Messages : WriteBegin(message)
  <2> PICK message \in Messages : WriteBegin(message)
    BY <1>8
  <2>1. message \in Seq(Byte)
    BY <1>2
  <2>2. /\ kernel' = [kernel EXCEPT !.pc = "write", !.buffer = message, !.i = 0,
                                    !.calls = kernel.calls + 1]
        /\ UNCHANGED <<uart, wire, sent, got>> /\ kernel.pc = "idle"
    BY DEF WriteBegin, KernelStep
  <2> QED BY <1>1, <2>1, <2>2 DEF Kernels
<1>9. CASE \E size \in ReadSizes : ReadBegin(size)
  <2> PICK size \in ReadSizes : ReadBegin(size)
    BY <1>9
  <2>1. <<>> \in Seq(Byte) /\ size \in Nat
    BY <1>2, EmptySeq
  <2>2. /\ kernel' = [kernel EXCEPT !.pc = "read wait", !.buffer = <<>>, !.i = 0, !.size = size,
                                    !.calls = kernel.calls + 1]
        /\ UNCHANGED <<uart, wire, sent, got>> /\ kernel.pc = "idle"
    BY DEF ReadBegin, KernelStep
  <2>3. kernel' \in Kernels
    BY <1>1, <2>1, <2>2 DEF Kernels
  <2>4. /\ kernel'.pc = "read wait" /\ kernel'.ready = kernel.ready
        /\ kernel'.skipped = kernel.skipped /\ kernel'.i = 0
    BY <1>1, <2>2 DEF Kernels
  <2> QED BY <1>1, <2>2, <2>3, <2>4
<1>10. CASE kpanic
  BY <1>1, <1>2, <1>10 DEF kpanic, PanicWith, KernelStep, Kernels
<1>11. CASE Interrupt
  BY <1>1, <1>2, <1>11 DEF Interrupt, PanicWith, KernelStep, Kernels
<1> QED BY <1>3, <1>4, <1>5, <1>6, <1>7, <1>8, <1>9, <1>10, <1>11 DEF CallStep

\* A byte is put into a transmitter that is still as empty as the poll found it.
LEMMA WriteBytePreserves ==
  ASSUME OutputInv, WriteByte
  PROVE  OutputInv'
<1> DEFINE byte == kernel.buffer[kernel.i + 1]
<1>1. /\ kernel.pc \in {"write", "panic", "interrupt"} /\ kernel.i < Len(kernel.buffer)
      /\ kernel.ready = TRUE
      /\ kernel' = [kernel EXCEPT !.i = kernel.i + 1, !.ready = FALSE]
      /\ uart' = asm_port_outb(uart, 0, byte) /\ sent' = Append(sent, byte)
      /\ wire' = wire /\ got' = got
  BY DEF WriteByte, Writing, PutByte, OutputInv, TypeOK, Kernels
<1>2. /\ uart \in Uarts /\ kernel \in Kernels /\ wire \in Seq(Byte) /\ sent \in Seq(Byte)
      /\ kernel.buffer \in Seq(Byte) /\ kernel.i \in Nat
  BY DEF OutputInv, TypeOK, Kernels
<1>3. uart.tx = <<>> /\ uart.dlab = FALSE /\ uart.loopback = FALSE
  BY <1>1 DEF OutputInv, Output, RunRegisters
<1>4. byte \in Byte
  <2>1. kernel.i + 1 \in 1 .. Len(kernel.buffer)
    BY <1>1, <1>2, LenProperties
  <2> QED BY <1>2, <2>1, ElementOfSeq
<1> HIDE DEF byte
<1>5. uart' \in Uarts /\ uart' = [uart EXCEPT !.tx = Append(uart.tx, byte)]
  BY <1>1, <1>2, <1>3, <1>4, PutIntoEmpty, Zenon
<1>6. uart'.tx = Append(<<>>, byte) /\ uart'.dlab = FALSE /\ uart'.loopback = FALSE
  BY <1>2, <1>3, <1>5 DEF Uarts
<1>7. kernel' \in Kernels /\ kernel'.pc = kernel.pc /\ kernel'.ready = FALSE
  <2>1. kernel.i + 1 \in Nat
    BY <1>2
  <2> QED BY <1>1, <1>2, <2>1 DEF Kernels
<1>8. TypeOK'
  <2>1. sent' \in Seq(Byte)
    BY <1>1, <1>2, <1>4, AppendProperties
  <2> QED BY <1>1, <1>5, <1>7, <2>1 DEF OutputInv, TypeOK
<1>9. InitRegisters' /\ RunRegisters'
  BY <1>1, <1>6, <1>7 DEF InitRegisters, RunRegisters
<1>10. PICK u \in Seq(Byte) : wire \o uart.tx = u \o sent
  BY DEF OutputInv, Output
<1>11. wire' \o uart'.tx = u \o sent'
  <2>1. <<>> \in Seq(Byte)
    BY EmptySeq
  <2>2. wire' \o uart'.tx = Append(wire \o <<>>, byte)
    <3>1. wire \o Append(<<>>, byte) = Append(wire \o <<>>, byte)
      BY <1>2, <1>4, <2>1, AppendConcat
    <3> QED BY <1>1, <1>6, <3>1
  <2>3. u \o sent' = Append(u \o sent, byte)
    BY <1>1, <1>2, <1>4, <1>10, AppendConcat
  <2> QED BY <1>3, <1>10, <2>2, <2>3
<1>12. Output'
  BY <1>7, <1>10, <1>11, Zenon DEF Output
<1> QED BY <1>8, <1>9, <1>12 DEF OutputInv

\* Taking a byte from the receive buffer has nothing to do with the output.
LEMMA ReadBytePreserves ==
  ASSUME OutputInv, ReadByte
  PROVE  OutputInv'
<1>1. /\ kernel.pc = "read" /\ uart.rx # <<>>
      /\ got' = Append(got, Head(uart.rx))
      /\ uart' = [uart EXCEPT !.rx = Tail(uart.rx)]
      /\ kernel' = [kernel EXCEPT !.i = kernel.i + 1]
      /\ wire' = wire /\ sent' = sent
  BY DEF ReadByte, GetByte, serial_read_available
<1>2. uart \in Uarts /\ kernel \in Kernels /\ got \in Seq(Byte) /\ uart.rx \in Seq(Byte)
  BY DEF OutputInv, TypeOK, Uarts
<1>3. Head(uart.rx) \in Byte /\ Tail(uart.rx) \in Seq(Byte)
  BY <1>1, <1>2, HeadTailProperties
<1>4. /\ uart' \in Uarts /\ uart'.tx = uart.tx
      /\ uart'.dlab = uart.dlab /\ uart'.loopback = uart.loopback
  BY <1>1, <1>2, <1>3 DEF Uarts
<1>5. kernel' \in Kernels /\ kernel'.pc = "read" /\ kernel'.ready = kernel.ready
  <2>1. kernel.i \in Nat
    BY <1>2 DEF Kernels
  <2>2. kernel.i + 1 \in Nat
    BY <2>1
  <2> QED BY <1>1, <1>2, <2>2 DEF Kernels
<1>6. got' \in Seq(Byte)
  BY <1>1, <1>2, <1>3, AppendProperties
<1>7. TypeOK'
  BY <1>1, <1>4, <1>5, <1>6 DEF OutputInv, TypeOK
<1> QED BY <1>1, <1>4, <1>5, <1>7 DEF OutputInv, InitRegisters, RunRegisters, Output

-----------------------------------------------------------------------------
(* Nothing is lost                                                         *)

\* Every step of the specification is one of those above.
LEMMA StepKinds ==
  ASSUME [Next]_vars
  PROVE  \/ InitWrite \/ InitTest \/ Transmit \/ Receive \/ CallStep \/ WriteByte \/ ReadByte
         \/ UNCHANGED vars
BY DEF Next, Driver, CallStep, Spin, Rest

\* The invariant for the output is inductive.
LEMMA OutputInvInductive == OutputInv /\ [Next]_vars => OutputInv'
<1> SUFFICES ASSUME OutputInv, [Next]_vars PROVE OutputInv'
  OBVIOUS
<1>1. CASE CallStep
  BY <1>1, CallStepKernel, KernelStepPreserves
<1>2. CASE UNCHANGED vars
  BY <1>2 DEF vars, OutputInv, TypeOK, InitRegisters, RunRegisters, Output
<1> QED BY <1>1, <1>2, StepKinds, InitWritePreserves, InitTestPreserves, TransmitPreserves,
           ReceivePreserves, WriteBytePreserves, ReadBytePreserves

\* Whatever the firmware has left in the transmitter.
LEMMA OutputInvInitial == Init => OutputInv
<1> SUFFICES ASSUME Init PROVE OutputInv
  OBVIOUS
<1>1. /\ uart \in [dlab : {FALSE}, loopback : {FALSE}, irqs : BOOLEAN,
                   divisor : {<<1, 0>>, <<0, 1>>}, tx : {<<>>, <<7>>}, rx : {<<>>}, arrived : {0},
                   accepted : {<<>>}]
      /\ wire = <<>> /\ sent = <<>> /\ got = <<>>
      /\ kernel = [pc |-> "init", buffer |-> <<>>, i |-> 0, ready |-> FALSE, size |-> 0,
                   result |-> 0, calls |-> 0, skipped |-> 0]
  BY DEF Init
<1>2. <<>> \in Seq(Byte) /\ <<7>> \in Seq(Byte)
  BY EmptySeq DEF Byte
<1>3. <<1, 0>> \in [1 .. 2 -> Byte] /\ <<0, 1>> \in [1 .. 2 -> Byte]
  BY DEF Byte
<1>4. uart \in Uarts /\ uart.dlab = FALSE /\ uart.loopback = FALSE
  <2>1. uart.tx \in Seq(Byte) /\ uart.rx \in Seq(Byte) /\ uart.arrived \in Nat
        /\ uart.accepted \in Seq(Byte)
    <3>1. uart.tx \in {<<>>, <<7>>} /\ uart.rx = <<>> /\ uart.arrived = 0 /\ uart.accepted = <<>>
      BY <1>1
    <3>2. uart.arrived \in Nat
      BY <3>1
    <3> QED BY <1>2, <3>1, <3>2, Zenon
  <2>2. uart.divisor \in [1 .. 2 -> Byte]
    BY <1>1, <1>3, Zenon
  <2> QED BY <1>1, <2>1, <2>2 DEF Uarts
<1>5. kernel \in Kernels /\ kernel.pc = "init" /\ kernel.i = 0 /\ kernel.ready = FALSE
  BY <1>1, <1>2 DEF Kernels
<1>6. TypeOK
  BY <1>1, <1>2, <1>4, <1>5 DEF TypeOK
<1>7. InitRegisters /\ RunRegisters
  BY <1>1, <1>4, <1>5 DEF InitRegisters, RunRegisters
<1>8. Output
  BY <1>1, <1>5, <1>6, NothingSentYet DEF Output
<1> QED BY <1>6, <1>7, <1>8 DEF OutputInv

\* The invariant for the output holds in every reachable state.
THEOREM OutputInvHolds == Spec => []OutputInv
BY OutputInvInitial, OutputInvInductive, PTL DEF Spec

\* No byte that the code has put out after serial_init is lost or overtaken, by a
\* panic or an interrupt in the middle of a write either.
THEOREM NothingIsLost == Spec => []NothingLost
<1>1. OutputInv => NothingLost
  BY ConcatSuffix DEF OutputInv, TypeOK, Output, NothingLost
<1> QED BY <1>1, OutputInvHolds, PTL

-----------------------------------------------------------------------------
(* Input                                                                   *)

\* Nobody types the byte that serial_init tests with: one that arrives between
\* the clearing of the FIFOs and loopback would be taken for the echo, and the
\* echo for input.
TestByteNotTyped == \A k \in 1 .. Len(Input) : Input[k] # TestByte

\* Other input is in front.
NoEchoFirst == uart.rx = <<>> \/ Head(uart.rx) # TestByte

\* From the clearing of the FIFOs on, the test byte is read back only if nothing
\* else is in the buffers.
Echo ==
  kernel.pc = "init" =>
    /\ kernel.i \in 6 .. 8 => uart.tx = <<>> /\ NoEchoFirst
    /\ kernel.i = 9 => \/ uart.tx = <<>> /\ uart.rx = <<TestByte>>
                       \/ uart.tx = <<>> /\ NoEchoFirst
                       \/ uart.tx = <<TestByte>> /\ NoEchoFirst

\* What has been delivered and what waits is what has been accepted since.
Delivered ==
  kernel.pc \notin {"init", "dead"} =>
    /\ kernel.skipped <= Len(uart.accepted)
    /\ got \o uart.rx = SubSeq(uart.accepted, kernel.skipped + 1, Len(uart.accepted))

InBuffer == kernel.pc \in {"read wait", "read"} => kernel.i <= kernel.size

InputInv == Echo /\ Delivered /\ InBuffer

\* A byte goes round in loopback behind whatever is in the receive buffer.
LEMMA TransmitInput ==
  ASSUME OutputInv, InputInv, Transmit
  PROVE  InputInv'
<1>1. /\ uart.tx # <<>> /\ kernel' = kernel /\ got' = got
      /\ uart' = [uart EXCEPT !.tx = Tail(uart.tx),
                              !.rx = IF uart.loopback /\ Len(uart.rx) < FifoSize
                                     THEN Append(uart.rx, Head(uart.tx)) ELSE uart.rx]
  BY Zenon DEF Transmit
<1>2. uart \in Uarts /\ uart.rx \in Seq(Byte) /\ uart.tx \in Seq(Byte) /\ got \in Seq(Byte)
      /\ (uart.loopback = TRUE \/ uart.loopback = FALSE)
  BY DEF OutputInv, TypeOK, Uarts
<1>3. /\ uart'.tx = Tail(uart.tx) /\ uart'.accepted = uart.accepted
      /\ uart'.rx = uart.rx \/ uart'.rx = Append(uart.rx, Head(uart.tx))
      /\ uart.loopback = FALSE => uart'.rx = uart.rx
  BY <1>1, <1>2 DEF Uarts
<1>4. Echo'
  <2> SUFFICES ASSUME kernel.pc = "init", kernel.i = 9 PROVE Echo'
    BY <1>1 DEF Echo, InputInv
  <2>1. uart.tx = <<TestByte>> /\ NoEchoFirst
    BY <1>1 DEF InputInv, Echo
  <2>2. Head(uart.tx) = TestByte /\ Tail(uart.tx) = <<>>
    BY <2>1
  <2>3. uart'.tx = <<>>
    BY <1>3, <2>2
  <2>4. uart'.rx = <<TestByte>> \/ uart'.rx = <<>> \/ Head(uart'.rx) # TestByte
    <3>1. CASE uart'.rx = uart.rx
      BY <2>1, <3>1 DEF NoEchoFirst
    <3>2. CASE uart'.rx = Append(uart.rx, TestByte) /\ uart.rx = <<>>
      BY <3>2
    <3>3. CASE uart'.rx = Append(uart.rx, TestByte) /\ uart.rx # <<>>
      <4>1. Head(uart'.rx) = Head(uart.rx)
        BY <1>2, <3>3, HeadTailAppend
      <4> QED BY <2>1, <3>3, <4>1 DEF NoEchoFirst
    <3> QED BY <1>3, <2>2, <3>1, <3>2, <3>3
  <2>5. kernel.i \notin 6 .. 8
    OBVIOUS
  <2> QED BY <1>1, <2>3, <2>4, <2>5, Zenon DEF Echo, NoEchoFirst
<1>5. Delivered'
  <2> SUFFICES ASSUME kernel.pc \notin {"init", "dead"} PROVE Delivered'
    BY <1>1 DEF Delivered
  <2>1. uart'.rx = uart.rx
    BY <1>3 DEF OutputInv, RunRegisters
  <2> QED BY <1>1, <1>3, <2>1 DEF InputInv, Delivered
<1> QED BY <1>1, <1>3, <1>4, <1>5 DEF InputInv, InBuffer

\* What is accepted goes to the end of the input that has been delivered or waits;
\* a byte that meets a full FIFO changes nothing of it.
LEMMA ReceiveInput ==
  ASSUME TestByteNotTyped, OutputInv, InputInv, Receive
  PROVE  InputInv'
<1> DEFINE x == Input[uart.arrived + 1]
<1>1. /\ kernel' = kernel /\ got' = got
      /\ uart.arrived < Len(Input)
      /\ uart.loopback # TRUE
      /\ \/ uart' = [uart EXCEPT !.arrived = uart.arrived + 1, !.rx = Append(uart.rx, x),
                                 !.accepted = Append(uart.accepted, x)]
         \/ uart' = [uart EXCEPT !.arrived = uart.arrived + 1]
  BY DEF Receive
<1>2. /\ uart \in Uarts /\ uart.rx \in Seq(Byte) /\ uart.arrived \in Nat /\ got \in Seq(Byte)
      /\ uart.accepted \in Seq(Byte) /\ Len(uart.accepted) \in Nat
      /\ kernel.skipped \in Nat /\ Input \in Seq(Byte) /\ Len(Input) \in Nat
  BY SerialConstants, LenProperties DEF OutputInv, TypeOK, Uarts, Kernels
<1>3. uart.arrived + 1 \in 1 .. Len(Input)
  BY <1>1, <1>2
<1>4. x \in Byte /\ x # TestByte
  BY <1>2, <1>3, ElementOfSeq DEF TestByteNotTyped
<1> HIDE DEF x
<1>5. CASE uart' = [uart EXCEPT !.arrived = uart.arrived + 1]
  <2>1. uart'.rx = uart.rx /\ uart'.tx = uart.tx /\ uart'.accepted = uart.accepted
    BY <1>2, <1>5 DEF Uarts
  <2> QED BY <1>1, <2>1 DEF InputInv, Echo, NoEchoFirst, Delivered, InBuffer
<1>6. CASE uart' = [uart EXCEPT !.arrived = uart.arrived + 1, !.rx = Append(uart.rx, x),
                                !.accepted = Append(uart.accepted, x)]
  <2>1. /\ uart'.rx = Append(uart.rx, x) /\ uart'.accepted = Append(uart.accepted, x)
        /\ uart'.tx = uart.tx
    BY <1>2, <1>6 DEF Uarts
  <2>2. Echo'
    <3> SUFFICES ASSUME kernel.pc = "init", kernel.i \in 6 .. 9 PROVE Echo'
      BY <1>1 DEF Echo
    <3>1. kernel.i \in 6 .. 8 /\ kernel.i # 9
      <4>1. kernel.i \notin 8 .. 9
        BY <1>1, Zenon DEF OutputInv, InitRegisters
      <4> QED BY <4>1
    <3>2. uart.tx = <<>> /\ NoEchoFirst
      BY <3>1 DEF InputInv, Echo
    <3>3. Head(uart'.rx) = IF uart.rx = <<>> THEN x ELSE Head(uart.rx)
      BY <1>2, <1>4, <2>1, HeadTailAppend
    <3>4. uart'.tx = <<>> /\ NoEchoFirst'
      BY <1>4, <2>1, <3>2, <3>3 DEF NoEchoFirst
    <3> QED BY <1>1, <3>1, <3>4, Zenon DEF Echo
  <2>3. Delivered'
    <3> DEFINE a == Append(uart.accepted, x)
               m == kernel.skipped + 1
               n == Len(uart.accepted) + 1
    <3>1. /\ a \in Seq(Byte) /\ Len(a) = n /\ a[n] = x
          /\ \A i \in 1 .. Len(uart.accepted) : a[i] = uart.accepted[i]
      BY <1>2, <1>4, AppendProperties
    <3> SUFFICES ASSUME kernel.pc \notin {"init", "dead"}
                 PROVE  kernel.skipped <= n /\ got \o Append(uart.rx, x) = SubSeq(a, m, n)
      BY <1>1, <2>1, <3>1, Zenon DEF Delivered
    <3>2. /\ kernel.skipped <= Len(uart.accepted)
          /\ got \o uart.rx = SubSeq(uart.accepted, m, Len(uart.accepted))
      BY DEF InputInv, Delivered
    <3>3. kernel.skipped <= n
      BY <1>2, <3>2
    <3>4. got \o Append(uart.rx, x) = Append(got \o uart.rx, x)
      BY <1>2, <1>4, AppendConcat
    <3>5. Append(got \o uart.rx, x) = (got \o uart.rx) \o <<x>>
      BY <1>2, <1>4, ConcatProperties, AppendIsConcat
    <3>6. m \in 1 .. Len(a) /\ n \in m .. Len(a) /\ n - 1 = Len(uart.accepted)
      BY <1>2, <3>1, <3>2
    <3>7. SubSeq(a, m, Len(uart.accepted)) = SubSeq(uart.accepted, m, Len(uart.accepted))
      <4>1. m \in 1 .. Len(uart.accepted) + 1
        BY <1>2, <3>2
      <4> HIDE DEF m
      <4> QED BY <1>2, <1>4, <4>1, PartOfAppend
    <3> HIDE DEF a, m, n
    <3>8. SubSeq(a, m, n) = SubSeq(a, m, n - 1) \o <<a[n]>>
      BY <3>1, <3>6, SubSeqRecursiveSecond
    <3> QED BY <3>1, <3>2, <3>3, <3>4, <3>5, <3>6, <3>7, <3>8
  <2> QED BY <1>1, <2>2, <2>3 DEF InputInv, InBuffer
<1> QED BY <1>1, <1>5, <1>6 DEF x

\* A read takes the oldest byte.
LEMMA ReadByteInput ==
  ASSUME OutputInv, InputInv, ReadByte
  PROVE  InputInv'
<1>1. /\ kernel.pc = "read" /\ uart.rx # <<>> /\ kernel.i < kernel.size
      /\ got' = Append(got, Head(uart.rx))
      /\ uart' = [uart EXCEPT !.rx = Tail(uart.rx)]
      /\ kernel' = [kernel EXCEPT !.i = kernel.i + 1]
  BY DEF ReadByte, GetByte, serial_read_available
<1>2. /\ uart \in Uarts /\ kernel \in Kernels /\ got \in Seq(Byte) /\ uart.rx \in Seq(Byte)
      /\ kernel.i \in Nat /\ kernel.size \in Nat
  BY DEF OutputInv, TypeOK, Uarts, Kernels
<1>3. /\ uart'.rx = Tail(uart.rx) /\ uart'.accepted = uart.accepted
      /\ kernel'.pc = "read" /\ kernel'.skipped = kernel.skipped
      /\ kernel'.i = kernel.i + 1 /\ kernel'.size = kernel.size
  BY <1>1, <1>2 DEF Uarts, Kernels
<1>4. got' \o uart'.rx = got \o uart.rx
  BY <1>1, <1>2, <1>3, MoveHead
<1>5. kernel.i + 1 <= kernel.size
  BY <1>1, <1>2
<1> QED BY <1>1, <1>3, <1>4, <1>5 DEF InputInv, Echo, Delivered, InBuffer

\* No write to a register changes what the line has delivered.
LEMMA PutAccepted ==
  ASSUME NEW u \in Uarts, NEW reg \in 0 .. 4, NEW v
  PROVE  asm_port_outb(u, reg, v).accepted = u.accepted
<1>1. u.dlab = TRUE \/ u.dlab = FALSE
  BY DEF Uarts
<1>2. CASE reg \in {0, 1} /\ u.dlab = TRUE
  BY <1>2 DEF asm_port_outb, Uarts
<1>3. CASE reg \in {0, 1} /\ u.dlab = FALSE
  BY <1>3 DEF asm_port_outb, Uarts
<1>4. CASE reg \in {2, 3, 4}
  BY <1>4 DEF asm_port_outb, Uarts
<1>5. reg \in {0, 1} \/ reg \in {2, 3, 4}
  OBVIOUS
<1> QED BY <1>1, <1>2, <1>3, <1>4, <1>5, Zenon

\* The clearing of the FIFOs, and the test byte put into the empty one.
LEMMA InitWriteInput ==
  ASSUME OutputInv, InputInv, InitWrite
  PROVE  InputInv'
<1>1. /\ kernel.pc = "init" /\ kernel.i \in 0 .. 8
      /\ kernel.i \notin 2 .. 4 => uart.dlab = FALSE
  BY DEF OutputInv, InitRegisters, InitWrite, InitWrites
<1>2. kernel' = [kernel EXCEPT !.i = kernel.i + 1]
      /\ uart' = asm_port_outb(uart, InitWrites[kernel.i + 1][1], InitWrites[kernel.i + 1][2])
  BY DEF InitWrite
<1>3. uart \in Uarts /\ kernel \in Kernels
  BY DEF OutputInv, TypeOK
<1>4. kernel'.pc = "init" /\ kernel'.i = kernel.i + 1
  BY <1>1, <1>2, <1>3 DEF Kernels
<1>5. uart'.accepted = uart.accepted
  <2> DEFINE reg == InitWrites[kernel.i + 1][1]
  <2>1. reg \in 0 .. 4
    BY <1>1 DEF InitWrites
  <2> HIDE DEF reg
  <2>2. uart' = asm_port_outb(uart, reg, InitWrites[kernel.i + 1][2])
    BY <1>2 DEF reg
  <2> QED BY <1>3, <2>1, <2>2, PutAccepted
<1>6. Echo'
  <2>1. CASE kernel.i \in 0 .. 4
    <3>1. kernel'.i \notin 6 .. 8 /\ kernel'.i # 9
      BY <1>4, <2>1
    <3> QED BY <3>1, Zenon DEF Echo
  <2>2. CASE kernel.i = 5
    <3>1. uart' = [uart EXCEPT !.rx = <<>>, !.tx = <<>>]
      <4>1. uart' = asm_port_outb(uart, 2, 199)
        BY <1>2, <2>2 DEF InitWrites
      <4> QED BY <1>3, <4>1, PutOthers, Zenon
    <3>2. uart'.rx = <<>> /\ uart'.tx = <<>>
      BY <1>3, <3>1 DEF Uarts
    <3>3. kernel'.i # 9
      BY <1>4, <2>2
    <3> QED BY <3>2, <3>3, Zenon DEF Echo, NoEchoFirst
  <2>3. CASE kernel.i \in {6, 7}
    <3>1. uart' = [uart EXCEPT !.loopback = FALSE] \/ uart' = [uart EXCEPT !.loopback = TRUE]
      <4>1. uart' = asm_port_outb(uart, 4, 11) \/ uart' = asm_port_outb(uart, 4, 30)
        BY <1>2, <2>3 DEF InitWrites
      <4> QED BY <1>3, <4>1, PutOthers, Zenon
    <3>2. uart'.rx = uart.rx /\ uart'.tx = uart.tx
      BY <1>3, <3>1 DEF Uarts
    <3>3. kernel'.i # 9 /\ kernel.i \in 6 .. 8
      BY <1>4, <2>3
    <3> QED BY <1>1, <3>2, <3>3, Zenon DEF InputInv, Echo, NoEchoFirst
  <2>4. CASE kernel.i = 8
    <3>1. kernel.i \in 6 .. 8 /\ kernel.i \notin 2 .. 4 /\ TestByte \in Byte
      BY <2>4 DEF TestByte, Byte
    <3>2. uart.tx = <<>> /\ NoEchoFirst /\ uart.dlab = FALSE
      BY <1>1, <3>1 DEF InputInv, Echo
    <3>3. uart' = [uart EXCEPT !.tx = Append(uart.tx, TestByte)]
      <4>1. uart' = asm_port_outb(uart, 0, TestByte)
        BY <1>2, <2>4 DEF InitWrites
      <4> QED BY <1>3, <3>1, <3>2, <4>1, PutIntoEmpty, Zenon
    <3>4. uart'.tx = Append(<<>>, TestByte) /\ uart'.rx = uart.rx
      BY <1>3, <3>2, <3>3 DEF Uarts
    <3>5. Append(<<>>, TestByte) = <<TestByte>>
      OBVIOUS
    <3>6. kernel'.i \notin 6 .. 8
      BY <1>4, <2>4
    <3> QED BY <3>2, <3>4, <3>5, <3>6, Zenon DEF Echo, NoEchoFirst
  <2> QED BY <1>1, <2>1, <2>2, <2>3, <2>4
<1> QED BY <1>4, <1>5, <1>6 DEF InputInv, Delivered, InBuffer

\* The test succeeds only with the receive buffer empty after it.
LEMMA InitTestInput ==
  ASSUME OutputInv, InputInv, InitTest
  PROVE  InputInv'
<1> DEFINE rest == [uart EXCEPT !.rx = IF uart.rx = <<>> THEN uart.rx ELSE Tail(uart.rx)]
           byte == IF uart.rx = <<>> THEN NoData ELSE Head(uart.rx)
<1>1. /\ kernel.pc = "init" /\ kernel.i = 9 /\ got = <<>> /\ got' = got
  BY DEF OutputInv, InitRegisters, InitTest, InitWrites
<1>2. \/ uart' = rest /\ kernel' = [kernel EXCEPT !.pc = "dead"]
      \/ /\ byte = TestByte
         /\ uart' = asm_port_outb(rest, 4, 15)
         /\ kernel' = [kernel EXCEPT !.pc = "idle", !.skipped = Len(uart.accepted)]
  BY Zenon DEF InitTest
<1>3. uart \in Uarts /\ kernel \in Kernels /\ Len(uart.accepted) \in Nat
      /\ uart.accepted \in Seq(Byte)
  BY LenProperties DEF OutputInv, TypeOK, Uarts
<1>4. rest.accepted = uart.accepted /\ rest.rx = IF uart.rx = <<>> THEN uart.rx ELSE Tail(uart.rx)
  BY <1>3 DEF Uarts
<1>5. rest \in Uarts
  <2>1. (IF uart.rx = <<>> THEN uart.rx ELSE Tail(uart.rx)) \in Seq(Byte)
    BY <1>3, HeadTailProperties DEF Uarts
  <2> QED BY <1>3, <2>1 DEF Uarts
<1> HIDE DEF rest
<1>6. CASE uart' = rest /\ kernel' = [kernel EXCEPT !.pc = "dead"]
  <2>1. kernel'.pc = "dead"
    BY <1>3, <1>6 DEF Kernels
  <2> QED BY <1>4, <1>6, <2>1 DEF InputInv, Echo, Delivered, InBuffer
<1>7. CASE /\ byte = TestByte
           /\ uart' = asm_port_outb(rest, 4, 15)
           /\ kernel' = [kernel EXCEPT !.pc = "idle", !.skipped = Len(uart.accepted)]
  <2>1. uart.rx # <<>> /\ Head(uart.rx) = TestByte
    BY <1>7 DEF NoData, TestByte
  <2>2. uart.rx = <<TestByte>>
    BY <1>1, <2>1 DEF InputInv, Echo, NoEchoFirst
  <2>3. rest.rx = <<>>
    BY <1>4, <2>2
  <2>4. uart' = [rest EXCEPT !.loopback = FALSE]
    BY <1>5, <1>7, PutOthers, Zenon
  <2>5. uart'.rx = <<>> /\ uart'.accepted = uart.accepted
    BY <1>4, <1>5, <2>3, <2>4 DEF Uarts
  <2>6. kernel'.pc = "idle" /\ kernel'.skipped = Len(uart.accepted)
    BY <1>3, <1>7 DEF Kernels
  <2>7. SubSeq(uart.accepted, Len(uart.accepted) + 1, Len(uart.accepted)) = <<>>
    BY <1>3, SubSeqEmpty
  <2>8. got' \o uart'.rx = <<>>
    BY <1>1, <2>5
  <2>9. Len(uart.accepted) <= Len(uart.accepted)
    BY <1>3
  <2> QED BY <2>5, <2>6, <2>7, <2>8, <2>9 DEF InputInv, Echo, Delivered, InBuffer
<1> QED BY <1>2, <1>6, <1>7

\* The other steps leave the buffers alone.
LEMMA CallStepInput ==
  ASSUME OutputInv, InputInv, CallStep
  PROVE  InputInv'
<1>1. /\ UNCHANGED <<uart, wire, sent, got>> /\ kernel' \in Kernels
      /\ kernel.pc \notin {"init", "dead"} /\ kernel'.pc # "init"
      /\ kernel'.skipped = kernel.skipped
      /\ kernel'.pc \in {"read wait", "read"} =>
           \/ kernel'.i = 0
           \/ kernel.pc = "read wait" /\ kernel'.i = kernel.i /\ kernel'.size = kernel.size
  BY CallStepKernel
<1>2. 0 <= kernel'.size
  <2>1. kernel'.size \in Nat
    BY <1>1 DEF Kernels
  <2> QED BY <2>1
<1>3. InBuffer'
  <2> SUFFICES ASSUME kernel'.pc \in {"read wait", "read"} PROVE kernel'.i <= kernel'.size
    BY Zenon DEF InBuffer
  <2>1. CASE kernel'.i = 0
    BY <1>2, <2>1, Zenon
  <2>2. CASE kernel.pc = "read wait" /\ kernel'.i = kernel.i /\ kernel'.size = kernel.size
    <3>1. kernel.i <= kernel.size
      BY <2>2 DEF InputInv, InBuffer
    <3> QED BY <2>2, <3>1, Zenon
  <2> QED BY <1>1, <2>1, <2>2
<1> QED BY <1>1, <1>3 DEF InputInv, Echo, Delivered

\* The invariant for the input is inductive, given that for the output.
LEMMA InputInvInductive ==
  ASSUME TestByteNotTyped
  PROVE  OutputInv /\ InputInv /\ [Next]_vars => InputInv'
<1> SUFFICES ASSUME OutputInv, InputInv, [Next]_vars PROVE InputInv'
  OBVIOUS
<1>1. CASE WriteByte
  <2>1. /\ kernel.pc \in {"write", "panic", "interrupt"}
        /\ kernel.ready = TRUE /\ got' = got
        /\ kernel' = [kernel EXCEPT !.i = kernel.i + 1, !.ready = FALSE]
        /\ uart' = asm_port_outb(uart, 0, kernel.buffer[kernel.i + 1])
    BY <1>1 DEF WriteByte, Writing, PutByte, OutputInv, TypeOK, Kernels
  <2>2. uart \in Uarts /\ kernel \in Kernels
    BY DEF OutputInv, TypeOK
  <2>3. kernel'.pc = kernel.pc /\ kernel'.skipped = kernel.skipped
    BY <2>1, <2>2 DEF Kernels
  <2>4. uart'.rx = uart.rx /\ uart'.accepted = uart.accepted
    <3>1. uart.dlab = FALSE
      BY <2>1 DEF OutputInv, RunRegisters
    <3> QED BY <2>1, <2>2, <3>1 DEF asm_port_outb, Uarts
  <2> QED BY <2>1, <2>3, <2>4 DEF InputInv, Echo, Delivered, InBuffer
<1>2. CASE UNCHANGED vars
  BY <1>2 DEF vars, InputInv, Echo, NoEchoFirst, Delivered, InBuffer
<1> QED BY <1>1, <1>2, StepKinds, InitWriteInput, InitTestInput, TransmitInput, ReceiveInput,
           ReadByteInput, CallStepInput

\* If nobody types the test byte, what reads deliver is every byte that has arrived
\* since serial_init and found room in the receive FIFO, in order and without the
\* test byte, and reads stay inside their buffers.
THEOREM InputIsInOrder ==
  ASSUME TestByteNotTyped
  PROVE  Spec => []InputInOrder
<1>1. Init => InputInv
  <2> SUFFICES ASSUME Init PROVE InputInv
    OBVIOUS
  <2>1. kernel.pc = "init" /\ kernel.i = 0
    BY DEF Init
  <2> QED BY <2>1 DEF InputInv, Echo, Delivered, InBuffer
<1>2. OutputInv /\ InputInv /\ [Next]_vars => InputInv'
  BY InputInvInductive
<1>3. InputInv => InputInOrder
  BY DEF InputInv, Delivered, InBuffer, InputInOrder
<1> QED BY <1>1, <1>2, <1>3, OutputInvHolds, PTL DEF Spec

=============================================================================
