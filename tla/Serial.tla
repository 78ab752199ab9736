------------------------------- MODULE Serial -------------------------------
(***************************************************************************)
(* serial/serial.c and the streams on top of it: serial_init, the polling  *)
(* loops of writes and reads, and the panic that takes the port over from  *)
(* whatever was being written.  The 16550 UART and its line are external;  *)
(* between any two port accesses it may send or receive a byte.            *)
(***************************************************************************)
EXTENDS Integers, Sequences, SequencesExt

CONSTANTS
  Messages,          \* what the kernel writes
  PanicMessage,      \* what kpanic writes
  InterruptMessage,  \* what the interrupt handler writes, its kpanic included
  FifoSize,          \* depth of the FIFOs of the UART (16)
  Input,             \* the bytes that arrive on the line, in order
  ReadSizes,         \* buffer lengths of reads
  MaxCalls           \* bound on the number of calls of the kernel

Byte == 0 .. 255

ASSUME SerialConstants ==
  /\ FifoSize \in Nat \ {0} /\ MaxCalls \in Nat /\ ReadSizes \subseteq Nat
  /\ Messages \subseteq Seq(Byte)
  /\ {PanicMessage, InterruptMessage, Input} \subseteq Seq(Byte)

VARIABLES
  uart,   \* the device, and what it has accepted from the line
  wire,   \* the bytes that left on the line
  kernel, \* the code that uses the port
  sent,   \* the bytes that the code has put out, after serial_init
  got     \* the bytes that reads have put into buffers

vars == <<uart, wire, kernel, sent, got>>

TestByte == 174   \* 0xAE
NoData == 0       \* what a read of the empty receive buffer gives

-----------------------------------------------------------------------------
(* The UART                                                                *)

\* The bit of that weight is set.
HasBit(v, weight) == (v \div weight) % 2 = 1

\* A write to a register.  The divisor latch hides the transmit buffer; a byte
\* that meets a full FIFO is lost.
asm_port_outb(u, reg, v) ==
  CASE reg = 0 /\ u.dlab -> [u EXCEPT !.divisor[1] = v]
    [] reg = 0 /\ ~ u.dlab -> IF Len(u.tx) < FifoSize THEN [u EXCEPT !.tx = Append(@, v)] ELSE u
    [] reg = 1 /\ u.dlab -> [u EXCEPT !.divisor[2] = v]
    [] reg = 1 /\ ~ u.dlab -> [u EXCEPT !.irqs = v # 0]
    [] reg = 2 -> [u EXCEPT !.rx = IF HasBit(v, 2) THEN <<>> ELSE @,
                            !.tx = IF HasBit(v, 4) THEN <<>> ELSE @]
    [] reg = 3 -> [u EXCEPT !.dlab = HasBit(v, 128)]
    [] reg = 4 -> [u EXCEPT !.loopback = HasBit(v, 16)]

\* A step of the kernel that does not touch the port.
KernelStep(k) == kernel' = k /\ UNCHANGED <<uart, wire, sent, got>>

\* The UART sends a byte, to the line or back to itself.
Transmit ==
  /\ uart.tx # <<>>
  /\ uart' = [uart EXCEPT !.tx = Tail(@),
                          !.rx = IF uart.loopback /\ Len(@) < FifoSize
                                 THEN Append(@, Head(uart.tx)) ELSE @]
  /\ wire' = IF uart.loopback THEN wire ELSE Append(wire, Head(uart.tx))
  /\ UNCHANGED <<kernel, sent, got>>

\* A byte arrives; in loopback the line is cut off.  The line has no flow control:
\* a byte that meets a full FIFO is lost, and the driver does not look at the
\* overrun bit of the line status.
Receive ==
  /\ uart.arrived < Len(Input) /\ ~ uart.loopback
  /\ LET byte == Input[uart.arrived + 1]
     IN  uart' = IF Len(uart.rx) < FifoSize
                 THEN [uart EXCEPT !.arrived = @ + 1, !.rx = Append(@, byte),
                                   !.accepted = Append(@, byte)]
                 ELSE [uart EXCEPT !.arrived = @ + 1]
  /\ UNCHANGED <<wire, kernel, sent, got>>

-----------------------------------------------------------------------------
(* serial_init                                                             *)

\* The registers it writes before the test, in order: interrupts off, divisor 3,
\* 8N1, FIFOs cleared, modem lines, loopback, the test byte.
InitWrites ==
  << <<1, 0>>, <<3, 128>>, <<0, 3>>, <<1, 0>>, <<3, 3>>, <<2, 199>>, <<4, 11>>,
     <<4, 30>>, <<0, TestByte>> >>

InitWrite ==
  /\ kernel.pc = "init" /\ kernel.i < Len(InitWrites)
  /\ LET w == InitWrites[kernel.i + 1] IN uart' = asm_port_outb(uart, w[1], w[2])
  /\ kernel' = [kernel EXCEPT !.i = @ + 1]
  /\ UNCHANGED <<wire, sent, got>>

\* The test byte is read back at once.  Without it kmain halts.
InitTest ==
  /\ kernel.pc = "init" /\ kernel.i = Len(InitWrites)
  /\ LET byte == IF uart.rx = <<>> THEN NoData ELSE Head(uart.rx)
         rest == [uart EXCEPT !.rx = IF @ = <<>> THEN @ ELSE Tail(@)]
     IN  IF byte # TestByte
         THEN uart' = rest /\ kernel' = [kernel EXCEPT !.pc = "dead"]
         ELSE /\ uart' = asm_port_outb(rest, 4, 15)
              /\ kernel' = [kernel EXCEPT !.pc = "idle", !.skipped = Len(uart.accepted)]
  /\ UNCHANGED <<wire, sent, got>>

-----------------------------------------------------------------------------
(* Writes                                                                  *)

serial_write_available == uart.tx = <<>>

\* stream_write, serial_stream_func with STREAM_OP_WRITE.
WriteBegin(message) ==
  /\ kernel.pc = "idle" /\ kernel.calls < MaxCalls
  /\ KernelStep([kernel EXCEPT !.pc = "write", !.buffer = message, !.i = 0, !.calls = @ + 1])

\* In the loop of serial_write_bytes, for a write or for a panic.
Writing == kernel.pc \in {"write", "panic", "interrupt"} /\ kernel.i < Len(kernel.buffer)

\* serial_write_blocking polls the line status until the transmitter is empty.
WritePoll ==
  /\ Writing /\ ~ kernel.ready /\ serial_write_available
  /\ KernelStep([kernel EXCEPT !.ready = TRUE])

PutByte ==
  /\ LET byte == kernel.buffer[kernel.i + 1]
     IN  uart' = asm_port_outb(uart, 0, byte) /\ sent' = Append(sent, byte)
  /\ kernel' = [kernel EXCEPT !.i = @ + 1, !.ready = FALSE]
  /\ UNCHANGED <<wire, got>>

\* Bug variant: no wait for the transmitter.
WriteByteAnyway == Writing /\ PutByte

WriteByte == Writing /\ kernel.ready /\ PutByte

WriteReturn ==
  /\ kernel.pc = "write" /\ kernel.i = Len(kernel.buffer)
  /\ KernelStep([kernel EXCEPT !.pc = "idle", !.result = Len(kernel.buffer)])

-----------------------------------------------------------------------------
(* Reads                                                                   *)

serial_read_available == uart.rx # <<>>

ReadBegin(size) ==
  /\ kernel.pc = "idle" /\ kernel.calls < MaxCalls
  /\ KernelStep([kernel EXCEPT !.pc = "read wait", !.buffer = <<>>, !.i = 0, !.size = size,
                              !.calls = @ + 1])

\* Bug variant: the data register is polled, not the line status.
ReadWaitConsumes ==
  /\ kernel.pc = "read wait" /\ serial_read_available
  /\ uart' = [uart EXCEPT !.rx = Tail(@)]
  /\ kernel' = [kernel EXCEPT !.pc = "read"]
  /\ UNCHANGED <<wire, sent, got>>

\* while(!serial_read_available(port));
ReadWait ==
  /\ kernel.pc = "read wait" /\ serial_read_available
  /\ KernelStep([kernel EXCEPT !.pc = "read"])

GetByte ==
  /\ got' = Append(got, Head(uart.rx))
  /\ uart' = [uart EXCEPT !.rx = Tail(@)]
  /\ kernel' = [kernel EXCEPT !.i = @ + 1]
  /\ UNCHANGED <<wire, sent>>

ReadByte == kernel.pc = "read" /\ serial_read_available /\ kernel.i < kernel.size /\ GetByte

ReadReturn ==
  /\ kernel.pc = "read" /\ (~ serial_read_available \/ kernel.i >= kernel.size)
  /\ KernelStep([kernel EXCEPT !.pc = "idle", !.result = kernel.i])

-----------------------------------------------------------------------------
(* Panics                                                                  *)

PanicWith(pc, message) ==
  KernelStep([kernel EXCEPT !.pc = pc, !.buffer = message, !.i = 0, !.ready = FALSE])

\* The kernel panics between two calls.
kpanic == kernel.pc = "idle" /\ PanicWith("panic", PanicMessage)

\* An interrupt stops what runs, a write, a panic or the halted loop after one,
\* and never returns to it.  The gate has switched further interrupts off.
Interrupt ==
  /\ kernel.pc \notin {"init", "interrupt", "dead"}
  /\ PanicWith("interrupt", InterruptMessage)

\* Bug variant: the last byte is not waited for.
HcfEarly ==
  /\ kernel.pc \in {"panic", "interrupt"} /\ kernel.i + 1 >= Len(kernel.buffer)
  /\ KernelStep([kernel EXCEPT !.pc = IF @ = "panic" THEN "halted" ELSE "dead"])

\* After a panic interrupts are still on, and end the hlt.
hcf ==
  /\ kernel.pc \in {"panic", "interrupt"} /\ kernel.i = Len(kernel.buffer)
  /\ KernelStep([kernel EXCEPT !.pc = IF @ = "panic" THEN "halted" ELSE "dead"])

-----------------------------------------------------------------------------

\* Firmware and bootloader have used the UART: output may be on its way, and
\* interrupts be enabled.
Init ==
  /\ uart \in [dlab : {FALSE}, loopback : {FALSE}, irqs : BOOLEAN, divisor : {<<1, 0>>, <<0, 1>>},
               tx : {<<>>, <<7>>}, rx : {<<>>}, arrived : {0}, accepted : {<<>>}]
  /\ wire = <<>> /\ sent = <<>> /\ got = <<>>
  /\ kernel = [pc |-> "init", buffer |-> <<>>, i |-> 0, ready |-> FALSE, size |-> 0,
               result |-> 0, calls |-> 0, skipped |-> 0]

\* A poll that has to be repeated.
Spin ==
  /\ \/ Writing /\ ~ kernel.ready /\ ~ serial_write_available
     \/ kernel.pc = "read wait" /\ ~ serial_read_available
  /\ UNCHANGED vars

\* The halted CPU; the bound on the number of calls is reached.
Rest ==
  /\ kernel.pc \in {"halted", "dead"} \/ (kernel.pc = "idle" /\ kernel.calls = MaxCalls)
  /\ UNCHANGED vars

Driver ==
  \/ InitWrite \/ InitTest \/ WritePoll \/ WriteByte \/ WriteReturn
  \/ ReadWait \/ ReadByte \/ ReadReturn \/ hcf

Next ==
  \/ Transmit \/ Receive
  \/ Driver
  \/ \E message \in Messages : WriteBegin(message)
  \/ \E size \in ReadSizes : ReadBegin(size)
  \/ kpanic \/ Interrupt \/ Spin \/ Rest

\* The CPU keeps executing and the UART keeps sending; nobody need type anything.
Spec == Init /\ [][Next]_vars /\ WF_vars(Driver) /\ WF_vars(Transmit)

-----------------------------------------------------------------------------
(* Correctness properties                                                  *)

\* Every byte that the code puts out after serial_init is on the line or on its
\* way, in order: none meets a full transmitter, in the middle of a panic either.
NothingLost == kernel.pc # "init" => IsSuffix(sent, wire \o uart.tx)

\* What reads deliver is every byte that has arrived since a successful serial_init
\* and found room in the receive FIFO, in order and without the test byte: the only
\* bytes of the line that are missing are those that met a full FIFO.  No read goes
\* past the end of its buffer.
InputInOrder ==
  kernel.pc \notin {"init", "dead"} =>
    /\ got \o uart.rx = SubSeq(uart.accepted, kernel.skipped + 1, Len(uart.accepted))
    /\ kernel.pc = "read" => kernel.i <= kernel.size

\* The message of the panic that halts the kernel comes out whole and last,
\* whatever output it has interrupted.
PanicReachesWire ==
  \A pc \in {"panic", "interrupt"} :
    [](kernel.pc = pc => <>(\/ kernel.pc = "interrupt" /\ pc = "panic"
                            \/ IsSuffix(IF pc = "panic" THEN PanicMessage ELSE InterruptMessage, wire)))

=============================================================================
