------------------------------- MODULE Memory -------------------------------
(***************************************************************************)
(* The routines of kernel/src/memory.c, which the compiler calls too: the  *)
(* loops byte by byte, on buffers that may overlap where C allows it.      *)
(***************************************************************************)
EXTENDS Integers

CONSTANTS
  MaxAddr,   \* the memory is 0 .. MaxAddr
  Values,    \* a byte is a number below Values (256)
  SetArgs    \* the int arguments of memset

ASSUME MemoryConstants ==
  MaxAddr \in Nat /\ Values \in Nat \ {0} /\ SetArgs \subseteq Int

VARIABLES
  mem,     \* the memory
  call,    \* the running call
  before   \* the memory at the time of the call

vars == <<mem, call, before>>

Addr == 0 .. MaxAddr
Byte == 0 .. Values - 1

Idle == [op |-> "none", dest |-> 0, src |-> 0, n |-> 0, i |-> 0, c |-> 0, result |-> 0]

\* The n bytes from a on.
Region(a, n) == a .. a + n - 1

Begin(op, dest, src, n, c, i) ==
  /\ call.op = "none"
  /\ Region(dest, n) \cup Region(src, n) \subseteq Addr
  /\ call' = [op |-> op, dest |-> dest, src |-> src, n |-> n, i |-> i, c |-> c, result |-> 0]
  /\ before' = mem
  /\ UNCHANGED mem

\* One iteration, which copies byte k and leaves the loop variable at i.
CopyByte(k, i) ==
  /\ mem' = [mem EXCEPT ![call.dest + k] = mem[call.src + k]]
  /\ call' = [call EXCEPT !.i = i]
  /\ UNCHANGED before

\* restrict: the caller promises that the buffers do not overlap.
memcpy(dest, src, n) ==
  /\ Region(dest, n) \cap Region(src, n) = {}
  /\ Begin("memcpy", dest, src, n, 0, 0)

\* The conversion to uint8_t.
ToByte(c) == c % Values

memset(dest, n, c) == Begin("memset", dest, dest, n, c, 0)

\* Bug variant: always from the front.
MemmoveForward(dest, src, n) == Begin("memmove up", dest, src, n, 0, 0)

\* From the front if the source is above, from the back if it is below; nothing
\* is to be done if they are the same.
memmove(dest, src, n) ==
  IF src > dest THEN Begin("memmove up", dest, src, n, 0, 0)
  ELSE Begin("memmove down", dest, src, n, 0, IF src < dest THEN n ELSE 0)

memcmp(s1, s2, n) == Begin("memcmp", s1, s2, n, 0, 0)

-----------------------------------------------------------------------------
(* Iterations                                                              *)

Up ==
  /\ call.op \in {"memcpy", "memmove up"} /\ call.i < call.n
  /\ CopyByte(call.i, call.i + 1)

Down ==
  /\ call.op = "memmove down" /\ call.i > 0
  /\ CopyByte(call.i - 1, call.i - 1)

Set ==
  /\ call.op = "memset" /\ call.i < call.n
  /\ mem' = [mem EXCEPT ![call.dest + call.i] = ToByte(call.c)]
  /\ call' = [call EXCEPT !.i = @ + 1]
  /\ UNCHANGED before

Differ(k) == mem[call.dest + k] # mem[call.src + k]

\* Bug variant: the loop goes on after a difference.
CompareGoesOn ==
  /\ call.op = "memcmp" /\ call.i < call.n
  /\ call' = [call EXCEPT
       !.i = @ + 1,
       !.result = CASE mem[call.dest + call.i] < mem[call.src + call.i] -> -1
                    [] mem[call.dest + call.i] > mem[call.src + call.i] -> 1
                    [] OTHER -> @]
  /\ UNCHANGED <<mem, before>>

\* The first difference ends the loop.
Compare ==
  /\ call.op = "memcmp" /\ call.i < call.n /\ call.result = 0
  /\ call' = IF Differ(call.i)
             THEN [call EXCEPT !.result = IF mem[call.dest + call.i] < mem[call.src + call.i]
                                          THEN -1 ELSE 1]
             ELSE [call EXCEPT !.i = @ + 1]
  /\ UNCHANGED <<mem, before>>

\* The loop is over.
Finished ==
  CASE call.op = "memmove down" -> call.i = 0
    [] call.op = "memcmp"       -> call.i = call.n \/ call.result # 0
    [] OTHER                    -> call.i = call.n

Return ==
  /\ call.op # "none" /\ Finished
  /\ call' = Idle
  /\ before' = mem
  /\ UNCHANGED mem

Init ==
  /\ mem \in [Addr -> Byte]
  /\ before = mem
  /\ call = Idle

Step == Up \/ Down \/ Set \/ Compare \/ Return

Next ==
  \/ \E dest, src \in Addr, n \in 0 .. MaxAddr + 1 :
       \/ memcpy(dest, src, n)
       \/ memmove(dest, src, n)
       \/ memcmp(dest, src, n)
       \/ \E c \in SetArgs : memset(dest, n, c)
  \/ Step

Spec == Init /\ [][Next]_vars

-----------------------------------------------------------------------------
(* Correctness properties: "They must be implemented as the C              *)
(* specification mandates."                                                *)

\* What the C standard says that the call leaves in memory.
Mandated ==
  [a \in Addr |->
     IF a \notin Region(call.dest, call.n) \/ call.op = "memcmp" THEN before[a]
     ELSE IF call.op = "memset" THEN ToByte(call.c)
     ELSE before[call.src + (a - call.dest)]]

\* When a call returns, the destination holds what the source held when it was
\* called, overlap or not, and nothing else has changed.
ResultsInMemory == call.op # "none" /\ Finished => mem = Mandated

\* memcmp returns the order of the first bytes that differ, 0 if none do.
CompareIsLexicographic ==
  call.op = "memcmp" /\ Finished =>
    IF \A k \in 0 .. call.n - 1 : ~ Differ(k) THEN call.result = 0
    ELSE \E k \in 0 .. call.n - 1 :
           /\ Differ(k)
           /\ \A j \in 0 .. k - 1 : ~ Differ(j)
           /\ call.result = IF mem[call.dest + k] < mem[call.src + k] THEN -1 ELSE 1

=============================================================================
