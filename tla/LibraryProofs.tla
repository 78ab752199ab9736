---------------------------- MODULE LibraryProofs ----------------------------
(***************************************************************************)
(* The routines of Memory do what C mandates, for memories and bytes of    *)
(* every size: in every state of a loop the part of the destination that   *)
(* it has gone over holds the result and everything else is as it was when *)
(* the routine was called.                                                 *)
(*                                                                         *)
(* The formatted output of Format is right for every format, every number  *)
(* and every width: the divisions of format_number are undone by reading   *)
(* the digits, and vformat knows at every character whether it is in a     *)
(* conversion.  The recursive functions of Format are reasoned about by    *)
(* least counterexamples.                                                  *)
(***************************************************************************)
EXTENDS Library, SequenceTheorems, WellFoundedInduction, TLAPS

Copies == {"memcpy", "memmove up", "memmove down"}

Ops == Copies \cup {"none", "memset", "memcmp"}

CallTypeOK ==
  /\ mem \in [Addr -> Byte]
  /\ before \in [Addr -> Byte]
  /\ call \in [op : Ops, dest : Addr, src : Addr, n : Nat, i : Nat, c : Int, result : {-1, 0, 1}]
  /\ call.i <= call.n

\* The loops stay inside the buffers that the caller has passed.
BuffersInMemory ==
  \A k \in 0 .. call.n - 1 : call.dest + k \in Addr /\ call.src + k \in Addr

\* The bytes lo .. hi - 1 of the destination are those of the source as it was at
\* the call, and no other byte has changed.
Copied(lo, hi) ==
  \A a \in Addr :
    mem[a] = IF a \in call.dest + lo .. call.dest + hi - 1
             THEN before[call.src + (a - call.dest)] ELSE before[a]

\* What each loop has done so far.  An upward copy never reads what it has
\* overwritten: the buffers are disjoint, or the source is above.
UpInv ==
  call.op \in {"memcpy", "memmove up"} =>
    /\ Copied(0, call.i)
    /\ \/ call.src > call.dest
       \/ \A j, k \in 0 .. call.n - 1 : call.dest + j # call.src + k

DownInv ==
  call.op = "memmove down" =>
    /\ Copied(call.i, call.n)
    /\ call.src <= call.dest

SetInv ==
  call.op = "memset" =>
    \A a \in Addr :
      mem[a] = IF a \in call.dest .. call.dest + call.i - 1 THEN ToByte(call.c) ELSE before[a]

CompareInv ==
  call.op = "memcmp" =>
    /\ mem = before
    /\ \A k \in 0 .. call.i - 1 : ~ Differ(k)
    /\ call.result # 0 =>
         /\ call.i < call.n /\ Differ(call.i)
         /\ call.result = IF mem[call.dest + call.i] < mem[call.src + call.i] THEN -1 ELSE 1

\* The inductive invariant.
LoopInv == CallTypeOK /\ BuffersInMemory /\ UpInv /\ DownInv /\ SetInv /\ CompareInv

-----------------------------------------------------------------------------
(* A call starts with an empty part gone over                              *)

\* What every call is given: its buffers lie in memory.
LEMMA BeginTyped ==
  ASSUME LoopInv, NEW op \in Ops \ {"none"}, NEW dest \in Addr, NEW src \in Addr,
         NEW n \in 0 .. MaxAddr + 1, NEW c \in Int, NEW first \in Nat, first <= n,
         Begin(op, dest, src, n, c, first)
  PROVE  /\ CallTypeOK' /\ BuffersInMemory'
         /\ mem' = mem /\ before' = mem
         /\ call'.op = op /\ call'.dest = dest /\ call'.src = src /\ call'.n = n
         /\ call'.i = first /\ call'.result = 0
<1>1. /\ call' = [op |-> op, dest |-> dest, src |-> src, n |-> n, i |-> first, c |-> c, result |-> 0]
      /\ before' = mem /\ mem' = mem
      /\ dest .. dest + n - 1 \subseteq Addr /\ src .. src + n - 1 \subseteq Addr
  BY DEF Begin, Region
<1>2. n \in Nat
  BY MemoryConstants
<1>3. CallTypeOK'
  BY <1>1, <1>2 DEF LoopInv, CallTypeOK
<1>4. BuffersInMemory'
  <2> SUFFICES ASSUME NEW k \in 0 .. n - 1
               PROVE  dest + k \in Addr /\ src + k \in Addr
    BY <1>1 DEF BuffersInMemory
  <2> QED BY <1>1, <1>2, MemoryConstants DEF Addr
<1> QED BY <1>1, <1>3, <1>4

\* The loop of every routine starts with its part of the invariant.
LEMMA CallsPreserveLoopInv ==
  ASSUME LoopInv, NEW dest \in Addr, NEW src \in Addr, NEW n \in 0 .. MaxAddr + 1,
         \/ memcpy(dest, src, n)
         \/ memmove(dest, src, n)
         \/ memcmp(dest, src, n)
         \/ \E c \in SetArgs : memset(dest, n, c)
  PROVE  LoopInv'
<1>0. n \in Nat /\ dest \in Int /\ src \in Int
  BY MemoryConstants DEF Addr
<1>a. /\ 0 \in Int /\ 0 \in Nat /\ 0 <= n
      /\ \A op \in {"memcpy", "memmove up", "memmove down", "memset", "memcmp"} : op \in Ops \ {"none"}
  BY <1>0 DEF Ops, Copies
<1>1. CASE memcpy(dest, src, n)
  <2>1. Begin("memcpy", dest, src, n, 0, 0)
    BY <1>1 DEF memcpy
  <2>2. /\ CallTypeOK' /\ BuffersInMemory'
        /\ mem' = mem /\ before' = mem
        /\ call'.op = "memcpy" /\ call'.dest = dest /\ call'.src = src /\ call'.n = n
        /\ call'.i = 0
    BY <1>a, <2>1, BeginTyped, Zenon
  <2>3. \A j, k \in 0 .. n - 1 : dest + j # src + k
    <3> SUFFICES ASSUME NEW j \in 0 .. n - 1, NEW k \in 0 .. n - 1, dest + j = src + k
                 PROVE  FALSE
      OBVIOUS
    <3>1. dest + j \in Region(dest, n) \cap Region(src, n)
      BY <1>0 DEF Region
    <3> QED BY <3>1, <1>1 DEF memcpy
  <2>4. UpInv'
    BY <1>0, <2>2, <2>3 DEF UpInv, Copied
  <2> QED BY <2>2, <2>4 DEF LoopInv, DownInv, SetInv, CompareInv
<1>2. CASE memmove(dest, src, n)
  <2>1. CASE src > dest
    <3>1. Begin("memmove up", dest, src, n, 0, 0)
      BY <1>2, <2>1 DEF memmove
    <3>2. /\ CallTypeOK' /\ BuffersInMemory'
          /\ mem' = mem /\ before' = mem
          /\ call'.op = "memmove up" /\ call'.dest = dest /\ call'.src = src /\ call'.n = n
          /\ call'.i = 0
      BY <1>a, <3>1, BeginTyped, Zenon
    <3>3. call'.src > call'.dest
      BY <2>1, <3>2
    <3>4. Copied(0, call.i)'
      <4> SUFFICES ASSUME NEW a \in Addr
                   PROVE  a \notin dest + 0 .. dest + 0 - 1
        BY <3>2, Zenon DEF Copied
      <4> QED BY <1>0
    <3>5. UpInv'
      BY <3>3, <3>4 DEF UpInv
    <3> QED BY <3>2, <3>5 DEF LoopInv, DownInv, SetInv, CompareInv
  <2>2. CASE ~ (src > dest)
    <3>1. PICK first \in {0, n} : /\ Begin("memmove down", dest, src, n, 0, first)
                                  /\ first < n => src = dest
      <4>1. Begin("memmove down", dest, src, n, 0, IF src < dest THEN n ELSE 0)
        BY <1>2, <2>2, Zenon DEF memmove
      <4>2. CASE src < dest
        <5>1. Begin("memmove down", dest, src, n, 0, n)
          BY <4>1, <4>2, Zenon
        <5>2. ~ (n < n)
          BY <1>0
        <5> QED BY <5>1, <5>2, Zenon
      <4>3. CASE ~ (src < dest)
        <5>1. Begin("memmove down", dest, src, n, 0, 0)
          BY <4>1, <4>3, Zenon
        <5>2. src = dest
          BY <1>0, <2>2, <4>3
        <5> QED BY <5>1, <5>2, Zenon
      <4> QED BY <4>2, <4>3
    <3>2. first \in Nat /\ first <= n
      BY <1>0
    <3>3. /\ CallTypeOK' /\ BuffersInMemory'
          /\ mem' = mem /\ before' = mem
          /\ call'.op = "memmove down" /\ call'.dest = dest /\ call'.src = src /\ call'.n = n
          /\ call'.i = first
      BY <1>a, <3>1, <3>2, BeginTyped, Zenon
    <3>4. Copied(call.i, call.n)'
      <4> SUFFICES ASSUME NEW a \in Addr, a \in dest + first .. dest + n - 1
                   PROVE  mem[a] = mem[src + (a - dest)]
        BY <3>3 DEF Copied
      <4>1. dest + n - 1 \in Int /\ dest + first \in Int /\ a \in Int
        BY <1>0, <3>2 DEF Addr
      <4>2. first < n
        BY <4>1, <1>0, <3>2
      <4>3. src = dest
        BY <4>2, <3>1
      <4> QED BY <4>1, <4>3, <1>0
    <3>5. call'.src <= call'.dest
      <4>1. src <= dest
        BY <1>0, <2>2
      <4> QED BY <4>1, <3>3, Zenon
    <3>6. DownInv'
      BY <3>4, <3>5 DEF DownInv
    <3> QED BY <3>3, <3>6 DEF LoopInv, UpInv, SetInv, CompareInv
  <2> QED BY <2>1, <2>2
<1>3. CASE memcmp(dest, src, n)
  <2>1. /\ CallTypeOK' /\ BuffersInMemory'
        /\ mem' = mem /\ before' = mem
        /\ call'.op = "memcmp" /\ call'.i = 0 /\ call'.result = 0
    BY <1>a, <1>3, BeginTyped, Zenon DEF memcmp
  <2>2. CompareInv'
    BY <2>1 DEF CompareInv
  <2> QED BY <2>1, <2>2 DEF LoopInv, UpInv, DownInv, SetInv
<1>4. CASE \E c \in SetArgs : memset(dest, n, c)
  <2> PICK c \in SetArgs : memset(dest, n, c)
    BY <1>4
  <2>1. c \in Int
    BY MemoryConstants
  <2>2. /\ CallTypeOK' /\ BuffersInMemory'
        /\ mem' = mem /\ before' = mem
        /\ call'.op = "memset" /\ call'.dest = dest /\ call'.i = 0
    BY <1>a, <2>1, BeginTyped, Zenon DEF memset
  <2>3. SetInv'
    BY <1>0, <2>2 DEF SetInv
  <2> QED BY <2>2, <2>3 DEF LoopInv, UpInv, DownInv, CompareInv
<1> QED BY <1>1, <1>2, <1>3, <1>4

-----------------------------------------------------------------------------
(* The iterations                                                          *)

\* The types of the parts of a running call, and where its loop is.
LEMMA CallParts ==
  ASSUME LoopInv
  PROVE  /\ call.dest \in Int /\ call.src \in Int /\ call.n \in Nat /\ call.i \in Nat
         /\ call.i <= call.n /\ call.c \in Int
         /\ DOMAIN mem = Addr
         /\ \A a \in Addr : a \in Int /\ mem[a] \in Byte
BY MemoryConstants DEF LoopInv, CallTypeOK, Addr

\* A step of a copy, upwards or downwards, gives one byte of the destination its
\* value and leaves the rest alone.
LEMMA CopyByteTyped ==
  ASSUME LoopInv, NEW k \in 0 .. call.n - 1, NEW next \in Nat, next <= call.n,
         CopyByte(k, next)
  PROVE  /\ CallTypeOK' /\ BuffersInMemory'
         /\ before' = before
         /\ call'.op = call.op /\ call'.dest = call.dest /\ call'.src = call.src
         /\ call'.n = call.n /\ call'.i = next
         /\ \A a \in Addr : mem'[a] = IF a = call.dest + k THEN mem[call.src + k] ELSE mem[a]
<1>1. /\ mem' = [mem EXCEPT ![call.dest + k] = mem[call.src + k]]
      /\ call' = [call EXCEPT !.i = next]
      /\ before' = before
  BY DEF CopyByte
<1>2. call.dest + k \in Addr /\ call.src + k \in Addr
  BY DEF LoopInv, BuffersInMemory
<1>3. mem' \in [Addr -> Byte]
  BY <1>1, <1>2 DEF LoopInv, CallTypeOK
<1>4. CallTypeOK'
  BY <1>1, <1>3 DEF LoopInv, CallTypeOK
<1>5. /\ call'.op = call.op /\ call'.dest = call.dest /\ call'.src = call.src
      /\ call'.n = call.n /\ call'.i = next
  BY <1>1 DEF LoopInv, CallTypeOK
<1>6. BuffersInMemory'
  BY <1>5 DEF LoopInv, BuffersInMemory
<1>7. \A a \in Addr : mem'[a] = IF a = call.dest + k THEN mem[call.src + k] ELSE mem[a]
  BY <1>1, <1>2 DEF LoopInv, CallTypeOK
<1> QED BY <1>1, <1>4, <1>5, <1>6, <1>7

\* An upward copy reads a byte that it has not overwritten.
LEMMA UpPreserves ==
  ASSUME LoopInv, Up
  PROVE  LoopInv'
<1>1. /\ call.op \in {"memcpy", "memmove up"} /\ call.i < call.n
      /\ CopyByte(call.i, call.i + 1)
  BY DEF Up
<1>2. /\ call.dest \in Int /\ call.src \in Int /\ call.n \in Nat /\ call.i \in Nat
      /\ \A a \in Addr : a \in Int
  BY CallParts
<1>3. call.i \in 0 .. call.n - 1 /\ call.i + 1 \in Nat /\ call.i + 1 <= call.n
  <2>1. call.i < call.n
    BY DEF Up
  <2> QED BY <1>2, <2>1
<1>4. /\ CallTypeOK' /\ BuffersInMemory'
      /\ before' = before
      /\ call'.op = call.op /\ call'.dest = call.dest /\ call'.src = call.src
      /\ call'.n = call.n /\ call'.i = call.i + 1
      /\ \A a \in Addr : mem'[a] = IF a = call.dest + call.i THEN mem[call.src + call.i] ELSE mem[a]
  BY <1>1, <1>3, CopyByteTyped, Zenon
<1>5. /\ Copied(0, call.i)
      /\ \/ call.src > call.dest
         \/ \A j, k \in 0 .. call.n - 1 : call.dest + j # call.src + k
  BY <1>1 DEF LoopInv, UpInv
<1>6. mem[call.src + call.i] = before[call.src + call.i]
  <2>1. call.src + call.i \in Addr
    BY <1>3 DEF LoopInv, BuffersInMemory
  <2>2. call.src + call.i \notin call.dest + 0 .. call.dest + call.i - 1
    <3>1. CASE call.src > call.dest
      BY <1>2, <3>1
    <3>2. CASE \A j, k \in 0 .. call.n - 1 : call.dest + j # call.src + k
      <4> SUFFICES ASSUME call.src + call.i \in call.dest + 0 .. call.dest + call.i - 1
                   PROVE  FALSE
        OBVIOUS
      <4> DEFINE j == call.src + call.i - call.dest
      <4>1. j \in 0 .. call.n - 1 /\ call.dest + j = call.src + call.i
        BY <1>2, <1>3
      <4> QED BY <3>2, <4>1, <1>3
    <3> QED BY <1>5, <3>1, <3>2
  <2> QED BY <1>5, <2>1, <2>2, Zenon DEF Copied
<1>7. Copied(0, call.i)'
  <2> SUFFICES ASSUME NEW a \in Addr
               PROVE  mem'[a] = IF a \in call.dest + 0 .. call.dest + (call.i + 1) - 1
                                THEN before[call.src + (a - call.dest)] ELSE before[a]
    BY <1>4, Zenon DEF Copied
  <2>1. a \in Int
    BY <1>2
  <2>2. CASE a = call.dest + call.i
    <3>1. /\ a \in call.dest + 0 .. call.dest + (call.i + 1) - 1
          /\ call.src + (a - call.dest) = call.src + call.i
      BY <1>2, <2>2
    <3> QED BY <1>4, <1>6, <2>2, <3>1, Zenon
  <2>3. CASE a # call.dest + call.i
    <3>1. a \in call.dest + 0 .. call.dest + (call.i + 1) - 1
            <=> a \in call.dest + 0 .. call.dest + call.i - 1
      BY <1>2, <2>1, <2>3
    <3>2. mem[a] = IF a \in call.dest + 0 .. call.dest + call.i - 1
                   THEN before[call.src + (a - call.dest)] ELSE before[a]
      BY <1>5, Zenon DEF Copied
    <3> QED BY <1>4, <2>3, <3>1, <3>2, Zenon
  <2> QED BY <2>2, <2>3
<1>8. UpInv'
  BY <1>4, <1>5, <1>7, Zenon DEF UpInv
<1> QED BY <1>1, <1>4, <1>8 DEF LoopInv, DownInv, SetInv, CompareInv

\* A downward copy has only overwritten bytes above the one that it reads.
LEMMA DownPreserves ==
  ASSUME LoopInv, Down
  PROVE  LoopInv'
<1> DEFINE k == call.i - 1
<1>1. /\ call.op = "memmove down" /\ call.i > 0
      /\ CopyByte(k, k)
  BY DEF Down
<1>2. /\ call.dest \in Int /\ call.src \in Int /\ call.n \in Nat /\ call.i \in Nat
      /\ call.i <= call.n
      /\ \A a \in Addr : a \in Int
  BY CallParts
<1>3. k \in 0 .. call.n - 1 /\ k \in Nat /\ k <= call.n /\ call.i = k + 1
  <2>1. call.i > 0
    BY DEF Down
  <2> QED BY <1>2, <2>1
<1> HIDE DEF k
<1>4. /\ CallTypeOK' /\ BuffersInMemory'
      /\ before' = before
      /\ call'.op = call.op /\ call'.dest = call.dest /\ call'.src = call.src
      /\ call'.n = call.n /\ call'.i = k
      /\ \A a \in Addr : mem'[a] = IF a = call.dest + k THEN mem[call.src + k] ELSE mem[a]
  BY <1>1, <1>3, CopyByteTyped, Zenon
<1>5. Copied(call.i, call.n) /\ call.src <= call.dest
  BY <1>1 DEF LoopInv, DownInv
<1>6. mem[call.src + k] = before[call.src + k]
  <2>1. call.src + k \in Addr
    BY <1>3 DEF LoopInv, BuffersInMemory
  <2>2. call.src + k \notin call.dest + call.i .. call.dest + call.n - 1
    <3>1. call.src <= call.dest
      BY <1>5
    <3> QED BY <1>2, <1>3, <3>1
  <2> QED BY <1>5, <2>1, <2>2, Zenon DEF Copied
<1>7. Copied(call.i, call.n)'
  <2> SUFFICES ASSUME NEW a \in Addr
               PROVE  mem'[a] = IF a \in call.dest + k .. call.dest + call.n - 1
                                THEN before[call.src + (a - call.dest)] ELSE before[a]
    BY <1>4, Zenon DEF Copied
  <2>1. a \in Int
    BY <1>2
  <2>2. CASE a = call.dest + k
    <3>1. /\ a \in call.dest + k .. call.dest + call.n - 1
          /\ call.src + (a - call.dest) = call.src + k
      BY <1>2, <1>3, <2>2
    <3> QED BY <1>4, <1>6, <2>2, <3>1, Zenon
  <2>3. CASE a # call.dest + k
    <3>1. a \in call.dest + k .. call.dest + call.n - 1
            <=> a \in call.dest + call.i .. call.dest + call.n - 1
      BY <1>2, <1>3, <2>1, <2>3
    <3>2. mem[a] = IF a \in call.dest + call.i .. call.dest + call.n - 1
                   THEN before[call.src + (a - call.dest)] ELSE before[a]
      BY <1>5, Zenon DEF Copied
    <3> QED BY <1>4, <2>3, <3>1, <3>2, Zenon
  <2> QED BY <2>2, <2>3
<1>8. DownInv'
  BY <1>4, <1>5, <1>7, Zenon DEF DownInv
<1> QED BY <1>1, <1>4, <1>8 DEF LoopInv, UpInv, SetInv, CompareInv

\* memset writes the converted argument, which is a byte.
LEMMA SetPreserves ==
  ASSUME LoopInv, Set
  PROVE  LoopInv'
<1>1. /\ call.op = "memset"
      /\ mem' = [mem EXCEPT ![call.dest + call.i] = ToByte(call.c)]
      /\ call' = [call EXCEPT !.i = call.i + 1]
      /\ before' = before
  BY DEF Set
<1>2. /\ call.dest \in Int /\ call.n \in Nat /\ call.i \in Nat /\ call.c \in Int
      /\ \A a \in Addr : a \in Int
  BY CallParts
<1>3. call.i < call.n
  BY DEF Set
<1>4. call.i \in 0 .. call.n - 1 /\ call.i + 1 \in Nat /\ call.i + 1 <= call.n
  BY <1>2, <1>3
<1>5. call.dest + call.i \in Addr
  BY <1>4 DEF LoopInv, BuffersInMemory
<1>6. ToByte(call.c) \in Byte
  BY <1>2, MemoryConstants DEF ToByte, Byte
<1>7. mem' \in [Addr -> Byte]
  BY <1>1, <1>5, <1>6 DEF LoopInv, CallTypeOK
<1>8. CallTypeOK'
  BY <1>1, <1>4, <1>7 DEF LoopInv, CallTypeOK
<1>9. /\ call'.op = call.op /\ call'.dest = call.dest /\ call'.src = call.src
      /\ call'.n = call.n /\ call'.i = call.i + 1 /\ call'.c = call.c
  BY <1>1 DEF LoopInv, CallTypeOK
<1>10. BuffersInMemory'
  BY <1>9 DEF LoopInv, BuffersInMemory
<1>11. \A a \in Addr : mem'[a] = IF a = call.dest + call.i THEN ToByte(call.c) ELSE mem[a]
  BY <1>1, <1>5 DEF LoopInv, CallTypeOK
<1>12. SetInv'
  <2> SUFFICES ASSUME NEW a \in Addr
               PROVE  mem'[a] = IF a \in call.dest .. call.dest + (call.i + 1) - 1
                                THEN ToByte(call.c) ELSE before[a]
    BY <1>1, <1>9, Zenon DEF SetInv, ToByte
  <2>1. mem[a] = IF a \in call.dest .. call.dest + call.i - 1 THEN ToByte(call.c) ELSE before[a]
    BY <1>1, Zenon DEF LoopInv, SetInv
  <2>2. CASE a = call.dest + call.i
    <3>1. a \in call.dest .. call.dest + (call.i + 1) - 1
      BY <1>2, <2>2
    <3> QED BY <1>11, <2>2, <3>1, Zenon
  <2>3. CASE a # call.dest + call.i
    <3>1. a \in call.dest .. call.dest + (call.i + 1) - 1
            <=> a \in call.dest .. call.dest + call.i - 1
      BY <1>2, <2>3
    <3> QED BY <1>11, <2>1, <2>3, <3>1, Zenon
  <2> QED BY <2>2, <2>3
<1> QED BY <1>1, <1>8, <1>9, <1>10, <1>12 DEF LoopInv, UpInv, DownInv, CompareInv

\* memcmp stops at the first difference, or goes one byte further.
LEMMA ComparePreserves ==
  ASSUME LoopInv, Compare
  PROVE  LoopInv'
<1>1. /\ call.op = "memcmp" /\ call.result = 0 /\ mem' = mem /\ before' = before
      /\ mem = before
      /\ \A k \in 0 .. call.i - 1 : mem[call.dest + k] = mem[call.src + k]
  BY DEF Compare, LoopInv, CompareInv, Differ
<1>2. call.dest \in Int /\ call.n \in Nat /\ call.i \in Nat
  BY CallParts
<1>3. call.i < call.n
  BY DEF Compare
<1>4. CASE Differ(call.i)
  <2> DEFINE r == IF mem[call.dest + call.i] < mem[call.src + call.i] THEN -1 ELSE 1
  <2>1. call' = [call EXCEPT !.result = r]
    BY <1>4 DEF Compare
  <2>2. r \in {-1, 1}
    OBVIOUS
  <2> HIDE DEF r
  <2>3. CallTypeOK'
    BY <1>1, <2>1, <2>2 DEF LoopInv, CallTypeOK
  <2>4. /\ call'.op = call.op /\ call'.dest = call.dest /\ call'.src = call.src
        /\ call'.n = call.n /\ call'.i = call.i /\ call'.result = r
    BY <2>1 DEF LoopInv, CallTypeOK
  <2>5. BuffersInMemory'
    BY <2>4 DEF LoopInv, BuffersInMemory
  <2>6. CompareInv'
    BY <1>1, <1>3, <1>4, <2>4, Zenon DEF CompareInv, Differ, r
  <2> QED BY <1>1, <2>3, <2>4, <2>5, <2>6 DEF LoopInv, UpInv, DownInv, SetInv
<1>5. CASE ~ Differ(call.i)
  <2>1. call' = [call EXCEPT !.i = call.i + 1]
    BY <1>5 DEF Compare
  <2>2. call.i + 1 \in Nat /\ call.i + 1 <= call.n
    BY <1>2, <1>3
  <2>3. CallTypeOK'
    BY <1>1, <2>1, <2>2 DEF LoopInv, CallTypeOK
  <2>4. /\ call'.op = call.op /\ call'.dest = call.dest /\ call'.src = call.src
        /\ call'.n = call.n /\ call'.i = call.i + 1 /\ call'.result = call.result
    BY <2>1 DEF LoopInv, CallTypeOK
  <2>5. BuffersInMemory'
    BY <2>4 DEF LoopInv, BuffersInMemory
  <2>6. ASSUME NEW k \in 0 .. (call.i + 1) - 1
        PROVE  mem[call.dest + k] = mem[call.src + k]
    <3>1. k \in 0 .. call.i - 1 \/ k = call.i
      BY <1>2
    <3> QED BY <1>1, <1>5, <3>1, Zenon DEF Differ
  <2>7. CompareInv'
    BY <1>1, <2>4, <2>6, Zenon DEF CompareInv, Differ
  <2> QED BY <1>1, <2>3, <2>4, <2>5, <2>7 DEF LoopInv, UpInv, DownInv, SetInv
<1> QED BY <1>4, <1>5

\* Between two calls no loop is running.
NoCall == mem \in [Addr -> Byte] /\ before = mem /\ call = Idle

\* A memory in which no routine is running satisfies the invariant.
LEMMA NoCallIsLoopInv == NoCall => LoopInv
<1> SUFFICES ASSUME NoCall PROVE LoopInv
  OBVIOUS
<1>1. /\ call.op = "none" /\ call.n = 0 /\ call.i = 0
      /\ 0 \in Addr
  BY MemoryConstants DEF NoCall, Idle, Addr
<1>2. CallTypeOK
  BY <1>1 DEF NoCall, CallTypeOK, Idle, Ops, Copies
<1>3. BuffersInMemory
  BY <1>1 DEF BuffersInMemory
<1> QED BY <1>1, <1>2, <1>3 DEF LoopInv, UpInv, DownInv, SetInv, CompareInv

\* The invariant is inductive.
LEMMA LoopInvInductive == LoopInv /\ [Next]_vars => LoopInv'
<1> SUFFICES ASSUME LoopInv, [Next]_vars PROVE LoopInv'
  OBVIOUS
<1>1. CASE \E dest, src \in Addr, n \in 0 .. MaxAddr + 1 :
             \/ memcpy(dest, src, n)
             \/ memmove(dest, src, n)
             \/ memcmp(dest, src, n)
             \/ \E c \in SetArgs : memset(dest, n, c)
  BY <1>1, CallsPreserveLoopInv
<1>2. CASE Up
  BY <1>2, UpPreserves
<1>3. CASE Down
  BY <1>3, DownPreserves
<1>4. CASE Set
  BY <1>4, SetPreserves
<1>5. CASE Compare
  BY <1>5, ComparePreserves
<1>6. CASE Return
  <2>1. NoCall'
    BY <1>6 DEF Return, NoCall, LoopInv, CallTypeOK
  <2>2. (NoCall => LoopInv)'
    BY NoCallIsLoopInv, PTL
  <2> QED BY <2>1, <2>2
<1>7. CASE UNCHANGED vars
  BY <1>7 DEF vars, LoopInv, CallTypeOK, BuffersInMemory, UpInv, DownInv, SetInv, CompareInv,
              Copied, Differ
<1> QED BY <1>1, <1>2, <1>3, <1>4, <1>5, <1>6, <1>7 DEF Next, Step

\* A loop that is over has gone over all of the destination.
LEMMA LoopInvGivesResults == LoopInv => ResultsInMemory
<1> SUFFICES ASSUME LoopInv, call.op # "none", Finished PROVE mem = Mandated
  BY DEF ResultsInMemory
<1>1. /\ call.dest \in Int /\ call.src \in Int /\ call.n \in Nat /\ call.i \in Nat
      /\ \A a \in Addr : a \in Int
  BY CallParts
<1>2. call.op \in {"memcpy", "memmove up", "memmove down", "memset", "memcmp"}
  BY DEF LoopInv, CallTypeOK, Ops, Copies
<1>3. mem = [a \in Addr |-> mem[a]]
  BY DEF LoopInv, CallTypeOK
<1>4. ASSUME NEW a \in Addr
      PROVE  mem[a] = IF a \notin Region(call.dest, call.n) \/ call.op = "memcmp" THEN before[a]
                      ELSE IF call.op = "memset" THEN ToByte(call.c)
                      ELSE before[call.src + (a - call.dest)]
  <2>1. CASE call.op \in {"memcpy", "memmove up"}
    <3>1. call.i = call.n /\ Copied(0, call.i)
      BY <2>1 DEF Finished, LoopInv, UpInv
    <3>2. mem[a] = IF a \in call.dest + 0 .. call.dest + call.n - 1
                   THEN before[call.src + (a - call.dest)] ELSE before[a]
      BY <3>1, Zenon DEF Copied
    <3>3. call.dest + 0 = call.dest
      BY <1>1
    <3> QED BY <2>1, <3>2, <3>3 DEF Region
  <2>2. CASE call.op = "memmove down"
    <3>1. call.i = 0 /\ Copied(call.i, call.n)
      BY <2>2 DEF Finished, LoopInv, DownInv
    <3>2. mem[a] = IF a \in call.dest + 0 .. call.dest + call.n - 1
                   THEN before[call.src + (a - call.dest)] ELSE before[a]
      BY <3>1, Zenon DEF Copied
    <3>3. call.dest + 0 = call.dest
      BY <1>1
    <3> QED BY <2>2, <3>2, <3>3 DEF Region
  <2>3. CASE call.op = "memset"
    <3>1. call.i = call.n
      BY <2>3 DEF Finished
    <3>2. mem[a] = IF a \in call.dest .. call.dest + call.n - 1 THEN ToByte(call.c) ELSE before[a]
      BY <2>3, <3>1, Zenon DEF LoopInv, SetInv
    <3> QED BY <2>3, <3>2 DEF Region
  <2>4. CASE call.op = "memcmp"
    BY <2>4 DEF LoopInv, CompareInv
  <2> QED BY <1>2, <2>1, <2>2, <2>3, <2>4
<1> QED BY <1>3, <1>4, Zenon DEF Mandated

\* The result of memcmp is about the first byte that differs.
LEMMA LoopInvGivesCompare == LoopInv => CompareIsLexicographic
<1> SUFFICES ASSUME LoopInv, call.op = "memcmp", Finished
             PROVE  IF \A k \in 0 .. call.n - 1 : ~ Differ(k) THEN call.result = 0
                    ELSE \E k \in 0 .. call.n - 1 :
                           /\ Differ(k)
                           /\ \A j \in 0 .. k - 1 : ~ Differ(j)
                           /\ call.result = IF mem[call.dest + k] < mem[call.src + k] THEN -1 ELSE 1
  BY Zenon DEF CompareIsLexicographic
<1>1. call.n \in Nat /\ call.i \in Nat
  BY CallParts
<1>2. call.i = call.n \/ call.result # 0
  BY DEF Finished
<1>3. /\ \A k \in 0 .. call.i - 1 : ~ Differ(k)
      /\ call.result # 0 =>
           /\ call.i < call.n /\ Differ(call.i)
           /\ call.result = IF mem[call.dest + call.i] < mem[call.src + call.i] THEN -1 ELSE 1
  BY DEF LoopInv, CompareInv
<1>4. CASE call.result = 0
  <2>1. call.i = call.n
    BY <1>2, <1>4
  <2> QED BY <1>3, <1>4, <2>1, Zenon
<1>5. CASE call.result # 0
  <2>1. call.i < call.n
    BY <1>3, <1>5
  <2>2. call.i \in 0 .. call.n - 1
    BY <1>1, <2>1
  <2> QED BY <1>3, <1>5, <2>2, Zenon
<1> QED BY <1>4, <1>5

-----------------------------------------------------------------------------
(* The theorems                                                            *)

\* The inductive invariant holds in every state of every sequence of calls.
THEOREM LoopInvHolds == Spec => []LoopInv
<1>1. Init => LoopInv
  BY NoCallIsLoopInv DEF Init, NoCall
<1> QED BY <1>1, LoopInvInductive, PTL DEF Spec

\* memcpy, memmove and memset leave in memory what C mandates, overlap or not, and
\* memcmp leaves it alone, for every size of the memory and of a byte.
THEOREM ResultsAreMandated == Spec => []ResultsInMemory
BY LoopInvHolds, LoopInvGivesResults, PTL

\* memcmp returns the order of the first bytes that differ.
THEOREM CompareIsRight == Spec => []CompareIsLexicographic
BY LoopInvHolds, LoopInvGivesCompare, PTL

\* Formatting in between does not touch the buffers: the library behaves as Memory
\* says, so that the results hold for it as well.
THEOREM LibraryImplementsMemory == LibrarySpec => Spec
<1>1. LibraryInit => Init
  BY DEF LibraryInit
<1>2. [LibraryNext]_<<vars, formatVars>> => [Next]_vars
  BY DEF LibraryNext
<1> QED BY <1>1, <1>2, PTL DEF LibrarySpec, Spec

\* The results of the routines, for a caller that formats in between.
THEOREM LibraryResults == LibrarySpec => [](ResultsInMemory /\ CompareIsLexicographic)
BY LibraryImplementsMemory, ResultsAreMandated, CompareIsRight, PTL

-----------------------------------------------------------------------------
(* Induction over numbers                                                  *)

\* A set of numbers has a least one.
LEMMA LeastNumber ==
  ASSUME NEW S, S \subseteq Nat, S # {}
  PROVE  \E m \in S : \A k \in S : m <= k
<1> DEFINE R == OpToRel(<, Nat)
<1>1. IsWellFoundedOn(R, Nat)
  BY NatLessThanWellFounded
<1>2. \A x, y \in Nat : y < x => <<y, x>> \in R
  BY Zenon DEF OpToRel
<1> HIDE DEF R
<1>3. PICK m \in S : \A k \in S : <<k, m>> \notin R
  BY <1>1, WFMin
<1>4. \A k \in S : ~ (k < m)
  BY <1>2, <1>3
<1> QED BY <1>3, <1>4, SMT

\* Induction up to n, over the set of the numbers that have a property.
LEMMA UpTo ==
  ASSUME NEW n \in Nat, NEW S, 0 \in S, \A k \in 1 .. n : k - 1 \in S => k \in S
  PROVE  \A k \in 0 .. n : k \in S
<1> DEFINE bad == (0 .. n) \ S
<1> SUFFICES ASSUME bad # {}
             PROVE  FALSE
  BY Zenon
<1>1. bad \subseteq Nat
  BY SMT
<1>2. \A k \in bad : k \in 0 .. n /\ k \notin S
  BY Zenon
<1>3. \A k \in 0 .. n : k \notin S => k \in bad
  BY Zenon
<1> HIDE DEF bad
<1>4. PICK m \in bad : \A k \in bad : m <= k
  BY <1>1, LeastNumber
<1> QED BY <1>2, <1>3, <1>4, SMT

\* The function that iterates a step from x exists.
Iterable(D, x, step, n) ==
  \E g \in [0 .. n -> D] : g[0] = x /\ \A k \in 1 .. n : g[k] = step[g[k - 1]]

LEMMA Iterates ==
  ASSUME NEW D, NEW x \in D, NEW step \in [D -> D], NEW n \in Nat
  PROVE  Iterable(D, x, step, n)
<1> DEFINE Iterated(m, g) == g[0] = x /\ \A k \in 1 .. m : g[k] = step[g[k - 1]]
           S == {m \in 0 .. n : \E g \in [0 .. m -> D] : Iterated(m, g)}
<1>1. 0 \in S
  <2> DEFINE g == [k \in 0 .. 0 |-> x]
  <2>1. g \in [0 .. 0 -> D] /\ Iterated(0, g)
    BY SMT
  <2>2. 0 \in 0 .. n
    BY SMT
  <2> HIDE DEF Iterated, g
  <2> QED BY <2>1, <2>2, Zenon
<1>2. ASSUME NEW m \in 1 .. n, m - 1 \in S
      PROVE  m \in S
  <2>1. PICK g \in [0 .. m - 1 -> D] : Iterated(m - 1, g)
    BY <1>2, Zenon
  <2> DEFINE h == [k \in 0 .. m |-> IF k = m THEN step[g[m - 1]] ELSE g[k]]
  <2>2. g[m - 1] \in D
    BY SMT
  <2>3. h \in [0 .. m -> D]
    BY <2>2, SMT
  <2>4. Iterated(m, h)
    BY <2>1, SMT
  <2> HIDE DEF Iterated, h
  <2>5. m \in 0 .. n
    BY SMT
  <2> QED BY <2>3, <2>4, <2>5, Zenon
<1> HIDE DEF S
<1>3. n \in S
  <2>1. n \in 0 .. n
    BY SMT
  <2> QED BY <1>1, <1>2, <2>1, UpTo
<1> QED BY <1>3, Zenon DEF S, Iterable


-----------------------------------------------------------------------------
(* Numbers and their digits                                                *)

\* The equation that defines TwoTo has a solution, and it doubles.
LEMMA TwoToFacts ==
  /\ TwoTo \in [0 .. Width -> Nat \ {0}]
  /\ TwoTo[0] = 1
  /\ \A k \in 1 .. Width : TwoTo[k] = 2 * TwoTo[k - 1]
<1> DEFINE D == Nat \ {0}
           step == [x \in D |-> 2 * x]
           Doubled(f) == [n \in 0 .. Width |-> IF n = 0 THEN 1 ELSE 2 * f[n - 1]]
<1>1. step \in [D -> D] /\ 1 \in D /\ Width \in Nat
  BY FormatConstants, SMT
<1>2. PICK g \in [0 .. Width -> D] : g[0] = 1 /\ \A k \in 1 .. Width : g[k] = step[g[k - 1]]
  <2> HIDE DEF D, step
  <2>1. Iterable(D, 1, step, Width)
    BY <1>1, Iterates, Zenon
  <2> QED BY <2>1, Zenon DEF Iterable
<1>3. g = Doubled(g)
  <2>1. \A k \in 0 .. Width : k # 0 => k \in 1 .. Width /\ k - 1 \in 0 .. Width
    BY <1>1, SMT
  <2>2. \A k \in 0 .. Width : g[k] = IF k = 0 THEN 1 ELSE 2 * g[k - 1]
    BY <1>2, <2>1, Zenon
  <2>3. g = [k \in 0 .. Width |-> g[k]]
    BY Zenon
  <2> QED BY <2>2, <2>3, Zenon
<1>4. TwoTo = Doubled(TwoTo)
  <2>1. TwoTo = CHOOSE f : f = Doubled(f)
    BY Zenon DEF TwoTo
  <2> HIDE DEF Doubled
  <2> QED BY <1>3, <2>1, Zenon
<1>5. TwoTo[0] = 1 /\ \A k \in 1 .. Width : TwoTo[k] = 2 * TwoTo[k - 1]
  BY <1>1, <1>4, SMT
<1> DEFINE S == {k \in 0 .. Width : TwoTo[k] \in D}
<1>6. 0 \in S
  BY <1>1, <1>5, SMT
<1>7. \A k \in 1 .. Width : k - 1 \in S => k \in S
  <2>1. \A k \in 1 .. Width : k \in 0 .. Width
    BY <1>1, SMT
  <2>2. \A d \in D : 2 * d \in D
    BY SMT
  <2> QED BY <1>5, <2>1, <2>2, Zenon
<1> HIDE DEF S
<1>8. \A k \in 0 .. Width : k \in S
  BY <1>1, <1>6, <1>7, UpTo
<1>9. \A k \in 0 .. Width : TwoTo[k] \in D
  BY <1>8 DEF S
<1>10. TwoTo = [n \in 0 .. Width |-> TwoTo[n]]
  BY <1>4, Zenon
<1> QED BY <1>5, <1>9, <1>10, Zenon

\* What the divisions leave.
LEMMA QuotientFacts ==
  ASSUME NEW v \in Nat, NEW b \in {2, 10, 16}
  PROVE  /\ Quotients(v, b) \in [0 .. Width -> Nat]
         /\ Quotients(v, b)[0] = v
         /\ \A k \in 1 .. Width : Quotients(v, b)[k] = Quotients(v, b)[k - 1] \div b
<1> DEFINE step == [x \in Nat |-> x \div b]
           Divided(f) == [k \in 0 .. Width |-> IF k = 0 THEN v ELSE f[k - 1] \div b]
           q == Quotients(v, b)
<1>1. \A x \in Nat : x \div b \in Nat
  BY SMT
<1>2. step \in [Nat -> Nat] /\ Width \in Nat
  BY <1>1, FormatConstants, Zenon
<1>3. PICK g \in [0 .. Width -> Nat] : g[0] = v /\ \A k \in 1 .. Width : g[k] = step[g[k - 1]]
  <2> HIDE DEF step
  <2>1. Iterable(Nat, v, step, Width)
    BY <1>2, Iterates, Zenon
  <2> QED BY <2>1, Zenon DEF Iterable
<1>4. \A k \in 0 .. Width : k # 0 => k \in 1 .. Width /\ k - 1 \in 0 .. Width
  BY <1>2, SMT
<1>5. g = Divided(g)
  <2>1. \A k \in 0 .. Width : g[k] = IF k = 0 THEN v ELSE g[k - 1] \div b
    BY <1>3, <1>4, Zenon
  <2>2. g = [k \in 0 .. Width |-> g[k]]
    BY Zenon
  <2> QED BY <2>1, <2>2, Zenon
<1>6. q = Divided(q)
  <2>1. q = CHOOSE f : f = Divided(f)
    BY Zenon DEF Quotients
  <2> HIDE DEF Divided, q
  <2> QED BY <1>5, <2>1, Zenon
<1> HIDE DEF q
<1>7. q[0] = v /\ \A k \in 1 .. Width : q[k] = q[k - 1] \div b
  <2>1. 0 \in 0 .. Width /\ \A k \in 1 .. Width : k \in 0 .. Width /\ k # 0
    BY <1>2, SMT
  <2> QED BY <1>6, <2>1, Zenon
<1> DEFINE S == {k \in 0 .. Width : q[k] \in Nat}
<1>8. 0 \in S /\ \A k \in 1 .. Width : k - 1 \in S => k \in S
  <2>1. 0 \in 0 .. Width /\ \A k \in 1 .. Width : k \in 0 .. Width
    BY <1>2, SMT
  <2> QED BY <1>1, <1>7, <2>1, Zenon
<1> HIDE DEF S
<1>9. \A k \in 0 .. Width : k \in S
  BY <1>2, <1>8, UpTo
<1>10. q = [k \in 0 .. Width |-> q[k]]
  BY <1>6, Zenon
<1>11. q \in [0 .. Width -> Nat]
  BY <1>9, <1>10, Zenon DEF S
<1> QED BY <1>7, <1>11, Zenon DEF q

\* A number of Width bits has at most Width digits, four times fewer in base 16.
LEMMA QuotientsVanish ==
  ASSUME NEW v \in Nat, v < TwoTo[Width], NEW b \in {2, 10, 16}
  PROVE  /\ Quotients(v, b)[Width] = 0
         /\ b = 16 => Quotients(v, b)[Width \div 4] = 0
<1> DEFINE q == Quotients(v, b)
<1>1. /\ q \in [0 .. Width -> Nat] /\ q[0] = v
      /\ \A k \in 1 .. Width : q[k] = q[k - 1] \div b
  BY QuotientFacts, Zenon
<1> HIDE DEF q
<1>2. Width \in Nat /\ Width >= 8 /\ Width % 4 = 0
  BY FormatConstants, Zenon
<1>3. \A x, y \in Nat : x < 2 * y => x \div b < y
  BY SMT
<1> DEFINE S == {k \in 0 .. Width : q[k] < TwoTo[Width - k]}
<1>4. 0 \in S
  <2>1. Width - 0 = Width /\ 0 \in 0 .. Width
    BY <1>2, SMT
  <2> QED BY <1>1, <2>1, Zenon
<1>5. ASSUME NEW k \in 1 .. Width, k - 1 \in S
      PROVE  k \in S
  <2>1. /\ k \in 0 .. Width /\ k - 1 \in 0 .. Width /\ Width - k \in 0 .. Width
        /\ Width - (k - 1) \in 1 .. Width /\ Width - (k - 1) - 1 = Width - k
    BY <1>2, SMT
  <2>2. TwoTo[Width - (k - 1)] = 2 * TwoTo[Width - k]
    BY <2>1, TwoToFacts, Zenon
  <2>3. TwoTo[Width - k] \in Nat /\ q[k - 1] \in Nat
    BY <1>1, <2>1, TwoToFacts, Zenon
  <2>4. q[k - 1] < 2 * TwoTo[Width - k]
    BY <1>5, <2>2, Zenon
  <2> QED BY <1>1, <1>3, <2>1, <2>3, <2>4, Zenon
<1>6. q[Width] = 0
  <2> HIDE DEF S
  <2>1. Width \in S
    BY <1>2, <1>4, <1>5, UpTo, SMT
  <2>2. q[Width] < TwoTo[Width - Width] /\ Width - Width = 0 /\ Width \in 0 .. Width
    BY <1>2, <2>1, SMT DEF S
  <2> QED BY <1>1, <2>2, TwoToFacts, SMT
<1> DEFINE H == {k \in 0 .. Width \div 4 : q[k] < TwoTo[Width - 4 * k]}
<1>7. Width \div 4 \in Nat /\ 4 * (Width \div 4) = Width
  BY <1>2, SMT
<1>8. 0 \in H
  BY <1>1, <1>2, <1>7, SMT
<1>9. ASSUME b = 16, NEW k \in 1 .. Width \div 4, k - 1 \in H
      PROVE  k \in H
  <2> DEFINE w == Width - 4 * k
  <2>1. /\ k \in 1 .. Width /\ k - 1 \in 0 .. Width /\ k \in 0 .. Width \div 4
        /\ w \in 0 .. Width /\ w + 1 \in 1 .. Width /\ w + 2 \in 1 .. Width
        /\ w + 3 \in 1 .. Width /\ w + 4 \in 1 .. Width
        /\ w + 1 - 1 = w /\ w + 2 - 1 = w + 1 /\ w + 3 - 1 = w + 2 /\ w + 4 - 1 = w + 3
        /\ Width - 4 * (k - 1) = w + 4
    BY <1>7, SMT
  <2>2. q[k - 1] < TwoTo[w + 4]
    BY <1>9, <2>1, Zenon
  <2> HIDE DEF w
  <2>3. /\ TwoTo[w + 4] = 2 * TwoTo[w + 3] /\ TwoTo[w + 3] = 2 * TwoTo[w + 2]
        /\ TwoTo[w + 2] = 2 * TwoTo[w + 1] /\ TwoTo[w + 1] = 2 * TwoTo[w]
        /\ TwoTo[w] \in Nat /\ TwoTo[w + 1] \in Nat /\ TwoTo[w + 2] \in Nat
        /\ TwoTo[w + 3] \in Nat
    <3>1. \A j \in 1 .. Width : TwoTo[j] = 2 * TwoTo[j - 1] /\ TwoTo[j - 1] \in Nat
      <4>1. \A j \in 1 .. Width : j - 1 \in 0 .. Width
        BY <1>2, SMT
      <4> QED BY <4>1, TwoToFacts, Zenon
    <3>2. /\ TwoTo[w + 4] = 2 * TwoTo[w + 3] /\ TwoTo[w + 3] \in Nat
      BY <2>1, <3>1, SMT
    <3>3. /\ TwoTo[w + 3] = 2 * TwoTo[w + 2] /\ TwoTo[w + 2] \in Nat
      BY <2>1, <3>1, SMT
    <3>4. /\ TwoTo[w + 2] = 2 * TwoTo[w + 1] /\ TwoTo[w + 1] \in Nat
      BY <2>1, <3>1, SMT
    <3>5. /\ TwoTo[w + 1] = 2 * TwoTo[w] /\ TwoTo[w] \in Nat
      BY <2>1, <3>1, SMT
    <3> QED BY <3>2, <3>3, <3>4, <3>5, Zenon
  <2>4. q[k] = q[k - 1] \div 16 /\ q[k - 1] \in Nat
    BY <1>1, <1>9, <2>1, Zenon
  <2>5. q[k - 1] < 16 * TwoTo[w]
    BY <2>2, <2>3, <2>4, SMT
  <2>6. q[k] < TwoTo[w]
    BY <2>3, <2>4, <2>5, SMT
  <2> QED BY <2>1, <2>6, Zenon DEF w
<1>10. ASSUME b = 16
       PROVE  q[Width \div 4] = 0
  <2> HIDE DEF H
  <2>1. Width \div 4 \in H
    <3>1. \A k \in 0 .. Width \div 4 : k \in H
      BY <1>7, <1>8, <1>9, <1>10, UpTo, Zenon
    <3> QED BY <1>7, <3>1, SMT
  <2>2. q[Width \div 4] < TwoTo[Width - 4 * (Width \div 4)]
    BY <2>1, Zenon DEF H
  <2>3. Width - 4 * (Width \div 4) = 0 /\ Width \div 4 \in 0 .. Width
    BY <1>2, <1>7, SMT
  <2>4. q[Width \div 4] < 1 /\ q[Width \div 4] \in Nat
    BY <1>1, <2>2, <2>3, TwoToFacts, Zenon
  <2> QED BY <2>4, SMT
<1> QED BY <1>6, <1>10, Zenon DEF q

\* The loop ends, and what is left then stays zero.
LEMMA DigitCountFacts ==
  ASSUME NEW v \in Nat, v < TwoTo[Width], NEW b \in {2, 10, 16}
  PROVE  /\ DigitCount(v, b) \in 1 .. Width
         /\ b = 16 => DigitCount(v, b) <= Width \div 4
         /\ \A k \in DigitCount(v, b) .. Width : Quotients(v, b)[k] = 0
<1> DEFINE q == Quotients(v, b)
           Ends(n) == q[n] = 0 /\ \A k \in 1 .. n - 1 : q[k] > 0
           n == DigitCount(v, b)
<1>1. /\ q \in [0 .. Width -> Nat]
      /\ \A k \in 1 .. Width : q[k] = q[k - 1] \div b
  BY QuotientFacts, Zenon
<1>2. q[Width] = 0 /\ (b = 16 => q[Width \div 4] = 0)
  BY QuotientsVanish, Zenon
<1>3. n = CHOOSE m \in 1 .. Width : Ends(m)
  BY Zenon DEF DigitCount
<1> HIDE DEF q, n
<1>4. Width \in Nat /\ Width >= 8 /\ Width % 4 = 0
  BY FormatConstants, Zenon
<1>5. \E m \in 1 .. Width : Ends(m)
  <2> DEFINE S == {m \in 1 .. Width : q[m] = 0}
  <2>1. S \subseteq Nat /\ Width \in S
    BY <1>2, <1>4, SMT
  <2> HIDE DEF S
  <2>2. PICK m \in S : \A k \in S : m <= k
    BY <2>1, LeastNumber, Zenon
  <2>3. m \in 1 .. Width /\ q[m] = 0
    BY <2>2, Zenon DEF S
  <2>4. ASSUME NEW k \in 1 .. m - 1
        PROVE  q[k] > 0
    <3>1. k \in 1 .. Width /\ k \in 0 .. Width /\ ~ (m <= k)
      BY <1>4, <2>3, SMT
    <3>2. q[k] # 0 /\ q[k] \in Nat
      BY <1>1, <2>2, <3>1, Zenon DEF S
    <3> QED BY <3>2, SMT
  <2> QED BY <2>3, <2>4, Zenon
<1>6. n \in 1 .. Width /\ Ends(n)
  <2> HIDE DEF Ends
  <2> QED BY <1>3, <1>5, Zenon
<1>7. b = 16 => n <= Width \div 4
  <2>1. Width \div 4 \in 1 .. Width /\ Width \div 4 \in Int
    BY <1>4, SMT
  <2> QED BY <1>2, <1>6, <2>1, SMT
<1> DEFINE Z == {k \in 0 .. Width : k >= n => q[k] = 0}
<1>8. 0 \in Z
  BY <1>4, <1>6, SMT
<1>9. ASSUME NEW k \in 1 .. Width, k - 1 \in Z
      PROVE  k \in Z
  <2>1. k \in 0 .. Width /\ n \in Int /\ (k >= n => k = n \/ k - 1 >= n)
    BY <1>4, <1>6, SMT
  <2>2. 0 \div b = 0
    BY SMT
  <2> QED BY <1>1, <1>6, <1>9, <2>1, <2>2, Zenon
<1> HIDE DEF Z
<1>10. \A k \in 0 .. Width : k \in Z
  BY <1>4, <1>8, <1>9, UpTo, Zenon
<1>11. \A k \in n .. Width : k \in 0 .. Width /\ k >= n
  BY <1>4, <1>6, SMT
<1>12. \A k \in n .. Width : q[k] = 0
  BY <1>10, <1>11, Zenon DEF Z
<1> QED BY <1>6, <1>7, <1>12, Zenon DEF n, q

\* A sequence of n elements.
Sequence(s, n) == s = [k \in 1 .. n |-> s[k]]

\* The elements of a concatenation.
LEMMA ConcatAt ==
  ASSUME NEW m \in Nat, NEW n \in Nat, NEW s, NEW t, Sequence(s, m), Sequence(t, n)
  PROVE  /\ s \o t = [k \in 1 .. m + n |-> IF k <= m THEN s[k] ELSE t[k - m]]
         /\ Len(s) = m /\ Len(t) = n /\ Len(s \o t) = m + n
<1> DEFINE S == {s[k] : k \in 1 .. m} \cup {t[k] : k \in 1 .. n}
<1>1. s \in [1 .. m -> S] /\ t \in [1 .. n -> S]
  BY Zenon DEF Sequence
<1> HIDE DEF S
<1>2. s \in Seq(S) /\ Len(s) = m /\ t \in Seq(S) /\ Len(t) = n
  BY <1>1, SMT
<1>3. /\ s \o t \in Seq(S) /\ Len(s \o t) = m + n
      /\ \A k \in 1 .. m + n : (s \o t)[k] = IF k <= m THEN s[k] ELSE t[k - m]
  BY <1>2, ConcatProperties
<1>4. s \o t = [k \in 1 .. m + n |-> (s \o t)[k]]
  <2> DEFINE c == s \o t
  <2> HIDE DEF c
  <2>1. c \in [1 .. Len(c) -> S]
    BY <1>3, LenProperties, Zenon DEF c
  <2> QED BY <1>3, <2>1, Zenon DEF c
<1> QED BY <1>2, <1>3, <1>4, Zenon

\* The number of digits with the zeros on the left.
FullLength(v, b) ==
  IF b = 16 THEN Width \div 4 ELSE IF b = 2 THEN Width ELSE DigitCount(v, b)

\* The digit of weight b ^ (k - 1).
DigitAt(v, b, k) == format_digit(Quotients(v, b)[k - 1] % b)

\* Beyond the digits of the number, up to the full length, nothing is left of it.
LEMMA FullLengthFacts ==
  ASSUME NEW v \in Nat, v < TwoTo[Width], NEW b \in {2, 10, 16}
  PROVE  /\ FullLength(v, b) \in 1 .. Width
         /\ DigitCount(v, b) \in 1 .. FullLength(v, b)
         /\ \A k \in DigitCount(v, b) .. FullLength(v, b) : Quotients(v, b)[k] = 0
<1>1. Width \in Nat /\ Width >= 8 /\ Width % 4 = 0
  BY FormatConstants, Zenon
<1> DEFINE n == DigitCount(v, b)
           q == Quotients(v, b)
<1>2. /\ n \in 1 .. Width /\ (b = 16 => n <= Width \div 4)
      /\ \A k \in n .. Width : q[k] = 0
  BY DigitCountFacts, Zenon
<1> HIDE DEF n, q
<1> DEFINE N == IF b = 16 THEN Width \div 4 ELSE IF b = 2 THEN Width ELSE n
<1>3. N \in 1 .. Width /\ n \in 1 .. N
  BY <1>1, <1>2, SMT
<1>4. \A k \in n .. N : q[k] = 0
  <2> HIDE DEF N
  <2>1. \A k \in n .. N : k \in n .. Width
    BY <1>1, <1>3, SMT
  <2> QED BY <1>2, <2>1, Zenon
<1>5. N = FullLength(v, b)
  BY Zenon DEF n, FullLength
<1> QED BY <1>3, <1>4, <1>5, Zenon DEF n, q

\* A zero on the left is the digit of what is left of the number there.
LEMMA PaddedDigits ==
  ASSUME NEW v \in Nat, v < TwoTo[Width], NEW b \in {2, 10, 16}
  PROVE  Digits(v, b) \o LeftZeros(b, Len(Digits(v, b)))
           = [k \in 1 .. FullLength(v, b) |-> DigitAt(v, b, k)]
<1> DEFINE n == DigitCount(v, b)
           N == FullLength(v, b)
           d == Digits(v, b)
           z == LeftZeros(b, Len(d))
<1>1. N \in 1 .. Width /\ n \in 1 .. N /\ \A k \in n .. N : Quotients(v, b)[k] = 0
  BY FullLengthFacts, Zenon
<1>2. Width \in Nat
  BY FormatConstants, Zenon
<1>3. d = [k \in 1 .. n |-> DigitAt(v, b, k)]
  BY Zenon DEF Digits, DigitAt
<1> HIDE DEF n, d
<1>4. n \in Nat /\ N \in Nat /\ N - n \in Nat /\ n + (N - n) = N
  BY <1>1, <1>2, SMT
<1>5. d = [k \in 1 .. n |-> d[k]] /\ Len(d) = n
  BY <1>3, <1>4, SMT
<1>6. z = [k \in 1 .. N - n |-> "0"]
  <2>1. LeftZeros(b, n) = [k \in 1 .. N - n |-> "0"]
    <3>1. CASE b = 16
      BY <3>1, SMT DEF LeftZeros, FullLength
    <3>2. CASE b = 2
      BY <3>2, SMT DEF LeftZeros, FullLength
    <3>3. CASE b = 10
      <4>1. N = n
        BY <3>3, SMT DEF FullLength, n
      <4>2. LeftZeros(b, n) = <<>>
        BY <3>3, SMT DEF LeftZeros
      <4>3. 1 .. N - n = {}
        BY <1>4, <4>1, SMT
      <4> HIDE DEF N
      <4> QED BY <4>2, <4>3, SMT
    <3> QED BY <3>1, <3>2, <3>3
  <2> QED BY <1>5, <2>1, Zenon
<1> HIDE DEF N, z
<1>7. Sequence(z, N - n) /\ Sequence(d, n)
  BY <1>5, <1>6, Zenon DEF Sequence
<1>8. d \o z = [k \in 1 .. N |-> IF k <= n THEN d[k] ELSE z[k - n]]
  <2>1. d \o z = [k \in 1 .. n + (N - n) |-> IF k <= n THEN d[k] ELSE z[k - n]]
    BY <1>4, <1>7, ConcatAt
  <2> QED BY <1>4, <2>1, Zenon
<1>9. ASSUME NEW k \in 1 .. N
      PROVE  (IF k <= n THEN d[k] ELSE z[k - n]) = DigitAt(v, b, k)
  <2>1. CASE k <= n
    <3>1. k \in 1 .. n
      BY <1>4, <2>1, SMT
    <3> QED BY <1>3, <2>1, <3>1, Zenon
  <2>2. CASE ~ (k <= n)
    <3>1. k - n \in 1 .. N - n /\ k - 1 \in n .. N
      BY <1>4, <2>2, SMT
    <3>2. z[k - n] = "0" /\ Quotients(v, b)[k - 1] = 0
      BY <1>1, <1>6, <3>1, Zenon
    <3>3. (0 % b) + 1 = 1 /\ HexDigits[1] = "0"
      BY SMT DEF HexDigits
    <3> QED BY <2>2, <3>2, <3>3, Zenon DEF DigitAt, format_digit
  <2> QED BY <2>1, <2>2
<1> QED BY <1>8, <1>9, Zenon DEF N, d, z

\* The digits from the left.
AllDigits(v, b) ==
  [k \in 1 .. FullLength(v, b) |-> DigitAt(v, b, FullLength(v, b) + 1 - k)]

\* What a number is written as, after the prefix.
Body(v, negative, b) ==
  LET N == FullLength(v, b)
  IN  IF negative THEN [k \in 1 .. N + 1 |-> IF k = 1 THEN "-" ELSE DigitAt(v, b, N + 2 - k)]
      ELSE [k \in 1 .. N |-> DigitAt(v, b, N + 1 - k)]

\* The buffer is large enough, and the number is what it should be.
LEMMA NumberIsBody ==
  ASSUME NEW v \in Nat, v < TwoTo[Width], NEW b \in {2, 10, 16}, NEW negative \in BOOLEAN,
         NEW b0, b = IF b0 = 0 THEN 10 ELSE b0
  PROVE  format_number(v, negative, b0) = Prefix(b) \o Body(v, negative, b)
<1> DEFINE N == FullLength(v, b)
           d == Digits(v, b) \o LeftZeros(b, Len(Digits(v, b)))
           sign == IF negative THEN <<"-">> ELSE <<>>
           l == IF negative THEN 1 ELSE 0
           buffer == NumberBuffer(v, negative, b)
<1>1. d = [k \in 1 .. N |-> DigitAt(v, b, k)]
  BY PaddedDigits, Zenon
<1>2. Width \in Nat /\ Width >= 8 /\ N \in 1 .. Width
  BY FormatConstants, FullLengthFacts, Zenon
<1>3. buffer = d \o sign
  BY Zenon DEF NumberBuffer
<1>4. format_number(v, negative, b0)
        = IF Len(buffer) > BufferLen THEN Overrun ELSE Prefix(b) \o bytes_reverse(buffer)
  BY Zenon DEF format_number
<1> HIDE DEF N, d, buffer
<1>5. Sequence(sign, l) /\ l \in Nat /\ (negative => sign[1] = "-")
  BY SMT DEF Sequence
<1>6. Sequence(d, N) /\ N \in Nat
  BY <1>1, <1>2, SMT DEF Sequence
<1> HIDE DEF sign, l
<1>7. /\ buffer = [k \in 1 .. N + l |-> IF k <= N THEN d[k] ELSE sign[k - N]]
      /\ Len(buffer) = N + l
  <2>1. /\ d \o sign = [k \in 1 .. N + l |-> IF k <= N THEN d[k] ELSE sign[k - N]]
        /\ Len(d \o sign) = N + l
    BY <1>5, <1>6, ConcatAt
  <2> QED BY <1>3, <2>1, Zenon
<1>8. ~ (Len(buffer) > BufferLen)
  BY <1>2, <1>7, SMT DEF BufferLen, l
<1>9. bytes_reverse(buffer) = [k \in 1 .. N + l |-> buffer[N + l + 1 - k]]
  <2>1. DOMAIN buffer = 1 .. N + l
    BY <1>7, Zenon
  <2>2. Len(buffer) = N + l
    BY <1>7
  <2> HIDE DEF buffer
  <2> QED BY <2>1, <2>2 DEF bytes_reverse
<1>10. CASE negative
  <2>1. l = 1
    BY <1>10 DEF l
  <2>2. ASSUME NEW k \in 1 .. N + 1
        PROVE  buffer[N + 1 + 1 - k] = IF k = 1 THEN "-" ELSE DigitAt(v, b, N + 2 - k)
    <3>1. N + 1 + 1 - k \in 1 .. N + 1 /\ N + 1 + 1 - k = N + 2 - k
      BY <1>2, SMT
    <3>2. buffer[N + 1 + 1 - k] = IF N + 2 - k <= N THEN d[N + 2 - k] ELSE sign[(N + 2 - k) - N]
      <4>1. \A j \in 1 .. N + 1 : buffer[j] = IF j <= N THEN d[j] ELSE sign[j - N]
        BY <1>7, <2>1, Zenon
      <4>2. N + 2 - k \in 1 .. N + 1
        BY <3>1, Zenon
      <4>3. buffer[N + 2 - k] = IF N + 2 - k <= N THEN d[N + 2 - k] ELSE sign[(N + 2 - k) - N]
        BY <4>1, <4>2, Zenon
      <4> QED BY <3>1, <4>3, Zenon
    <3>3. CASE k = 1
      BY <1>2, <1>5, <1>10, <3>2, <3>3, SMT
    <3>4. CASE k # 1
      <4>1. N + 2 - k <= N /\ N + 2 - k \in 1 .. N
        BY <1>2, <3>4, SMT
      <4> QED BY <1>1, <3>2, <3>4, <4>1, Zenon
    <3> QED BY <3>3, <3>4
  <2>3. bytes_reverse(buffer) = [k \in 1 .. N + 1 |-> IF k = 1 THEN "-" ELSE DigitAt(v, b, N + 2 - k)]
    BY <1>9, <2>1, <2>2, Zenon
  <2> QED BY <1>4, <1>8, <1>10, <2>3, Zenon DEF Body, N
<1>11. CASE ~ negative
  <2>1. N + l = N
    BY <1>2, <1>11, SMT DEF l
  <2>2. ASSUME NEW k \in 1 .. N
        PROVE  buffer[N + 1 - k] = DigitAt(v, b, N + 1 - k)
    <3>1. N + 1 - k \in 1 .. N /\ N + 1 - k <= N
      BY <1>2, SMT
    <3> QED BY <1>1, <1>7, <2>1, <3>1, Zenon
  <2>3. bytes_reverse(buffer) = [k \in 1 .. N |-> DigitAt(v, b, N + 1 - k)]
    BY <1>9, <2>1, <2>2, Zenon
  <2> QED BY <1>4, <1>8, <1>11, <2>3, Zenon DEF Body, N
<1> QED BY <1>10, <1>11

\* The digit that a character stands for, and what the first characters read as.
DigitOf(c, b) == CHOOSE d \in 0 .. b - 1 : HexDigits[d + 1] = c

Reading(digits, b) ==
  CHOOSE f : f = [k \in 0 .. Len(digits) |->
                    IF k = 0 THEN 0 ELSE f[k - 1] * b + DigitOf(digits[k], b)]

ReadBody(chars, b) == SubSeq(chars, Len(Prefix(b)) + 1, Len(chars))

ReadDigits(chars, b) ==
  IF ReadBody(chars, b)[1] = "-" THEN Tail(ReadBody(chars, b)) ELSE ReadBody(chars, b)

ReadValue(chars, b) == Reading(ReadDigits(chars, b), b)[Len(ReadDigits(chars, b))]

\* ReadBack in these terms.
LEMMA ReadBackParts ==
  ASSUME NEW chars, NEW b
  PROVE  ReadBack(chars, b)
           = [prefix |-> SubSeq(chars, 1, Len(Prefix(b))),
              value |-> IF ReadBody(chars, b)[1] = "-" THEN - ReadValue(chars, b)
                        ELSE ReadValue(chars, b),
              length |-> Len(ReadDigits(chars, b))]
  BY Zenon DEF ReadBack, ReadBody, ReadDigits, ReadValue, Reading, DigitOf

\* A character stands for one digit, and is not the sign.
LEMMA DigitsAreRead ==
  ASSUME NEW b \in {2, 10, 16}, NEW d \in 0 .. b - 1
  PROVE  DigitOf(format_digit(d), b) = d /\ format_digit(d) # "-"
<1>1. d \in 0 .. 15
  BY SMT
<1>2. HexDigits[d + 1] # "-"
  BY <1>1, SMT DEF HexDigits
<1>3. \A e \in 0 .. 15 : HexDigits[e + 1] = HexDigits[d + 1] => e = d
  BY <1>1, SMT DEF HexDigits
<1>4. \A e \in 0 .. b - 1 : e \in 0 .. 15
  BY SMT
<1>5. DigitOf(format_digit(d), b) = CHOOSE e \in 0 .. b - 1 : HexDigits[e + 1] = HexDigits[d + 1]
  BY Zenon DEF DigitOf, format_digit
<1> HIDE DEF HexDigits
<1>6. DigitOf(format_digit(d), b) = d
  BY <1>3, <1>4, <1>5, Zenon
<1> QED BY <1>2, <1>6, Zenon DEF format_digit

\* Reading the digits from the left undoes the divisions, one for each digit.
LEMMA ReadingUndoes ==
  ASSUME NEW v \in Nat, v < TwoTo[Width], NEW b \in {2, 10, 16}
  PROVE  /\ Len(AllDigits(v, b)) = FullLength(v, b)
         /\ Reading(AllDigits(v, b), b)[FullLength(v, b)] = v
<1> DEFINE N == FullLength(v, b)
           digits == AllDigits(v, b)
           q == Quotients(v, b)
           Read(f) == [k \in 0 .. N |-> IF k = 0 THEN 0 ELSE f[k - 1] * b + DigitOf(digits[k], b)]
           g == [k \in 0 .. N |-> q[N - k]]
           r == Reading(digits, b)
<1>1. Width \in Nat /\ N \in 1 .. Width /\ q[N] = 0
  <2>1. /\ N \in 1 .. Width /\ DigitCount(v, b) \in 1 .. N
        /\ \A k \in DigitCount(v, b) .. N : q[k] = 0
    BY FullLengthFacts, Zenon
  <2>2. Width \in Nat
    BY FormatConstants, Zenon
  <2>3. N \in DigitCount(v, b) .. N
    BY <2>1, <2>2, SMT
  <2> QED BY <2>1, <2>2, <2>3, Zenon
<1>2. q \in [0 .. Width -> Nat] /\ q[0] = v /\ \A k \in 1 .. Width : q[k] = q[k - 1] \div b
  BY QuotientFacts, Zenon
<1>3. \A k \in 1 .. N : digits[k] = format_digit(q[(N + 1 - k) - 1] % b)
  BY Zenon DEF AllDigits, DigitAt
<1>4. Len(digits) = N
  BY <1>1, SMT DEF AllDigits
<1>5. r = CHOOSE f : f = Read(f)
  BY <1>4, Zenon DEF Reading
<1> HIDE DEF N, q, r, digits
<1>6. ASSUME NEW k \in 1 .. N
      PROVE  q[N - k] = q[N - (k - 1)] * b + DigitOf(digits[k], b)
  <2>1. /\ (N + 1 - k) - 1 = N - k /\ N - (k - 1) \in 1 .. Width
        /\ N - (k - 1) - 1 = N - k /\ N - k \in 0 .. Width
    BY <1>1, SMT
  <2>2. digits[k] = format_digit(q[N - k] % b)
    BY <1>3, <2>1, Zenon
  <2>3. q[N - (k - 1)] = q[N - k] \div b /\ q[N - k] \in Nat
    BY <1>2, <2>1, Zenon
  <2>4. \A x \in Nat : x = (x \div b) * b + (x % b) /\ x % b \in 0 .. b - 1
    <3>1. CASE b = 2
      <4>1. \A x \in Nat : x = (x \div 2) * 2 + (x % 2) /\ x % 2 \in 0 .. 2 - 1
        BY SMT
      <4> QED BY <3>1, <4>1, Zenon
    <3>2. CASE b = 10
      <4>1. \A x \in Nat : x = (x \div 10) * 10 + (x % 10) /\ x % 10 \in 0 .. 10 - 1
        BY SMT
      <4> QED BY <3>2, <4>1, Zenon
    <3>3. CASE b = 16
      <4>1. \A x \in Nat : x = (x \div 16) * 16 + (x % 16) /\ x % 16 \in 0 .. 16 - 1
        BY SMT
      <4> QED BY <3>3, <4>1, Zenon
    <3> QED BY <3>1, <3>2, <3>3, Zenon
  <2>5. DigitOf(digits[k], b) = q[N - k] % b
    BY <2>2, <2>3, <2>4, DigitsAreRead, Zenon
  <2>6. q[N - k] = (q[N - k] \div b) * b + (q[N - k] % b)
    BY <2>3, <2>4, Zenon
  <2> QED BY <2>3, <2>5, <2>6, Zenon
<1>7. \A k \in 0 .. N : k # 0 => k \in 1 .. N /\ k - 1 \in 0 .. N
  BY <1>1, SMT
<1>8. g = Read(g)
  <2>1. \A k \in 0 .. N : g[k] = q[N - k] /\ N - 0 = N
    BY <1>1, SMT
  <2>2. g = [k \in 0 .. N |-> g[k]]
    BY Zenon
  <2> HIDE DEF g
  <2>3. \A k \in 0 .. N : g[k] = IF k = 0 THEN 0 ELSE g[k - 1] * b + DigitOf(digits[k], b)
    BY <1>1, <1>6, <1>7, <2>1, Zenon
  <2> QED BY <2>2, <2>3, Zenon
<1>9. r = Read(r)
  <2> HIDE DEF Read, g
  <2> QED BY <1>5, <1>8, Zenon
<1> DEFINE S == {k \in 0 .. N : r[k] = g[k]}
<1>10. 0 \in S /\ \A k \in 1 .. N : k - 1 \in S => k \in S
  <2>1. \A k \in 0 .. N : r[k] = IF k = 0 THEN 0 ELSE r[k - 1] * b + DigitOf(digits[k], b)
    BY <1>9, Zenon
  <2>2. \A k \in 0 .. N : g[k] = IF k = 0 THEN 0 ELSE g[k - 1] * b + DigitOf(digits[k], b)
    BY <1>8, Zenon
  <2>3. 0 \in 0 .. N /\ \A k \in 1 .. N : k \in 0 .. N /\ k # 0
    BY <1>1, SMT
  <2> HIDE DEF g
  <2>4. ASSUME NEW k \in 1 .. N, r[k - 1] = g[k - 1]
        PROVE  r[k] = g[k]
    <3>1. /\ r[k] = r[k - 1] * b + DigitOf(digits[k], b)
          /\ g[k] = g[k - 1] * b + DigitOf(digits[k], b)
      BY <2>1, <2>2, <2>3, Zenon
    <3> QED BY <2>4, <3>1, Zenon
  <2>5. r[0] = g[0]
    BY <2>1, <2>2, <2>3, Zenon
  <2> QED BY <2>3, <2>4, <2>5, Zenon
<1> HIDE DEF S
<1>11. N \in S
  <2>1. N \in Nat /\ N \in 0 .. N
    BY <1>1, SMT
  <2>2. \A k \in 0 .. N : k \in S
    BY <1>10, <2>1, UpTo, Zenon
  <2> QED BY <2>1, <2>2, Zenon
<1>12. r[N] = q[N - N] /\ N - N = 0
  BY <1>1, <1>11, SMT DEF S
<1> QED BY <1>2, <1>4, <1>12, Zenon DEF N, r, digits

\* The elements of a tail.
LEMMA TailAt ==
  ASSUME NEW n \in Nat, NEW s, Sequence(s, n + 1)
  PROVE  Tail(s) = [k \in 1 .. n |-> s[k + 1]]
<1> DEFINE S == {s[k] : k \in 1 .. n + 1}
<1>1. s \in [1 .. n + 1 -> S]
  BY Zenon DEF Sequence
<1> HIDE DEF S
<1>2. s \in Seq(S) /\ Len(s) = n + 1
  BY <1>1, SMT
<1>3. Tail(s) \in Seq(S) /\ Len(Tail(s)) = n /\ \A k \in 1 .. n : Tail(s)[k] = s[k + 1]
  BY <1>2, HeadTailProperties, SMT
<1> DEFINE t == Tail(s)
<1> HIDE DEF t
<1>4. t \in [1 .. Len(t) -> S]
  BY <1>3, LenProperties, Zenon DEF t
<1>5. t = [k \in 1 .. n |-> t[k]]
  BY <1>3, <1>4, Zenon DEF t
<1> QED BY <1>3, <1>5, Zenon DEF t

\* A number that has been written reads back.
LEMMA BodyReadsBack ==
  ASSUME NEW v \in Nat, v < TwoTo[Width], NEW b \in {2, 10, 16}, NEW negative \in BOOLEAN
  PROVE  ReadBack(Prefix(b) \o Body(v, negative, b), b)
           = [prefix |-> Prefix(b), value |-> IF negative THEN - v ELSE v,
              length |-> FullLength(v, b)]
<1> DEFINE N == FullLength(v, b)
           p == Prefix(b)
           m == IF b = 10 THEN 0 ELSE 2
           l == IF negative THEN N + 1 ELSE N
           body == Body(v, negative, b)
           chars == p \o body
           digits == [k \in 1 .. N |-> DigitAt(v, b, N + 1 - k)]
<1>1. Width \in Nat /\ N \in 1 .. Width
  BY FullLengthFacts, FormatConstants, Zenon
<1>2. Sequence(p, m) /\ m \in Nat
  <2>1. CASE b = 10
    BY <2>1, SMT DEF Prefix, Sequence
  <2>2. CASE b = 2
    BY <2>2, SMT DEF Prefix, Sequence
  <2>3. CASE b = 16
    BY <2>3, SMT DEF Prefix, Sequence
  <2> QED BY <2>1, <2>2, <2>3, Zenon
<1>3. /\ negative => body = [k \in 1 .. N + 1 |-> IF k = 1 THEN "-" ELSE DigitAt(v, b, N + 2 - k)]
      /\ ~ negative => body = digits
  BY Zenon DEF Body
<1>4. ASSUME NEW k \in 1 .. N
      PROVE  DigitAt(v, b, k) # "-"
  <2> DEFINE q == Quotients(v, b)
  <2>1. q \in [0 .. Width -> Nat]
    BY QuotientFacts, Zenon
  <2>2. k - 1 \in 0 .. Width
    BY <1>1, SMT
  <2>3. q[k - 1] \in Nat
    BY <2>1, <2>2, Zenon
  <2>4. \A x \in Nat : x % b \in 0 .. b - 1
    BY SMT
  <2> QED BY <2>3, <2>4, DigitsAreRead, Zenon DEF DigitAt
<1> HIDE DEF N, p, body
<1>5. Sequence(body, l) /\ l \in Nat
  <2>1. CASE negative
    BY <1>1, <1>3, <2>1, SMT DEF Sequence
  <2>2. CASE ~ negative
    BY <1>1, <1>3, <2>2, SMT DEF Sequence
  <2> QED BY <2>1, <2>2
<1> HIDE DEF l, m, digits
<1>6. /\ chars = [k \in 1 .. m + l |-> IF k <= m THEN p[k] ELSE body[k - m]]
      /\ Len(p) = m /\ Len(body) = l /\ Len(chars) = m + l
  BY <1>2, <1>5, ConcatAt
<1> HIDE DEF chars
<1>7. SubSeq(chars, 1, Len(p)) = p
  <2>1. SubSeq(chars, 1, m) = [k \in 1 .. m |-> chars[k]]
    BY <1>2, <1>5, <1>6, SMT
  <2>2. \A k \in 1 .. m : chars[k] = p[k]
    BY <1>2, <1>5, <1>6, SMT
  <2> QED BY <1>2, <1>6, <2>1, <2>2, Zenon DEF Sequence
<1>8. SubSeq(chars, Len(p) + 1, Len(chars)) = body
  <2>1. SubSeq(chars, m + 1, m + l) = [k \in 1 .. l |-> chars[k + m]]
    BY <1>2, <1>5, <1>6, SMT
  <2>2. \A k \in 1 .. l : chars[k + m] = body[k]
    BY <1>2, <1>5, <1>6, SMT
  <2> QED BY <1>5, <1>6, <2>1, <2>2, Zenon DEF Sequence
<1>9. negative = (body[1] = "-")
  <2>1. CASE negative
    <3>1. 1 \in 1 .. N + 1
      BY <1>1, SMT
    <3> QED BY <1>3, <2>1, <3>1, Zenon
  <2>2. CASE ~ negative
    <3>1. 1 \in 1 .. N /\ N + 1 - 1 \in 1 .. N
      BY <1>1, SMT
    <3>2. body[1] = DigitAt(v, b, N + 1 - 1)
      BY <1>3, <2>2, <3>1, Zenon DEF digits
    <3>3. body[1] # "-"
      BY <1>4, <3>1, <3>2, Zenon
    <3> QED BY <2>2, <3>3
  <2> QED BY <2>1, <2>2
<1>10. digits = IF negative THEN Tail(body) ELSE body
  <2>1. CASE negative
    <3>1. Tail(body) = [k \in 1 .. N |-> body[k + 1]]
      BY <1>1, <1>5, <2>1, TailAt DEF l
    <3>2. \A k \in 1 .. N : body[k + 1] = DigitAt(v, b, N + 1 - k)
      <4>1. \A k \in 1 .. N : k + 1 \in 1 .. N + 1 /\ k + 1 # 1 /\ N + 2 - (k + 1) = N + 1 - k
        BY <1>1, SMT
      <4> QED BY <1>3, <2>1, <4>1, Zenon
    <3> QED BY <2>1, <3>1, <3>2, Zenon DEF digits
  <2>2. CASE ~ negative
    BY <1>3, <2>2, Zenon
  <2> QED BY <2>1, <2>2
<1>11. Len(digits) = N /\ Reading(digits, b)[Len(digits)] = v
  <2>1. digits = AllDigits(v, b)
    BY Zenon DEF digits, N, AllDigits
  <2>2. Len(AllDigits(v, b)) = N /\ Reading(AllDigits(v, b), b)[N] = v
    BY ReadingUndoes, Zenon DEF N
  <2>3. Len(digits) = N
    BY <2>1, <2>2, Zenon
  <2> QED BY <2>1, <2>2, <2>3, Zenon
<1>12. ReadBody(chars, b) = body /\ ReadDigits(chars, b) = digits
  BY <1>8, <1>9, <1>10, Zenon DEF ReadBody, ReadDigits, p
<1>13. /\ ReadValue(chars, b) = v /\ Len(ReadDigits(chars, b)) = N
       /\ ReadBody(chars, b)[1] = "-" <=> negative
       /\ SubSeq(chars, 1, Len(Prefix(b))) = p
  BY <1>7, <1>9, <1>11, <1>12, Zenon DEF ReadValue, p
<1>14. ReadBack(chars, b) = [prefix |-> p, value |-> IF negative THEN - v ELSE v, length |-> N]
  BY <1>13, ReadBackParts, Zenon
<1> QED BY <1>14, Zenon DEF chars, p, body, N

\* Some characters read back as a value, at full length where the base has one.
ReadAs(chars, value, b) ==
  LET r == ReadBack(chars, b)
  IN  /\ r.prefix = Prefix(b)
      /\ r.value = value
      /\ b = 16 => r.length = Width \div 4
      /\ b = 2 => r.length = Width

\* What NumbersReadBack says of one argument.
ReadsBack(u) ==
  u.spec \in NumberSpecifiers /\ ~ (u.spec \in {"i", "I"} /\ u.arg = LeastI64) =>
    ReadAs(u.chars,
           IF u.spec \in {"i", "I"} /\ u.arg > LeastI64
           THEN u.arg - TwoTo[Width] ELSE u.arg,
           IF u.base # 0 THEN u.base ELSE IF u.spec = "p" THEN 16 ELSE 10)

\* format_number writes what reads back.
LEMMA NumberReadsBack ==
  ASSUME NEW v \in Nat, v < TwoTo[Width], NEW negative \in BOOLEAN, NEW b0 \in {0, 2, 10, 16},
         NEW b, b = IF b0 = 0 THEN 10 ELSE b0
  PROVE  ReadAs(format_number(v, negative, b0), IF negative THEN - v ELSE v, b)
<1>1. b \in {2, 10, 16}
  BY SMT
<1>2. format_number(v, negative, b0) = Prefix(b) \o Body(v, negative, b)
  BY <1>1, NumberIsBody, Zenon
<1>3. ReadBack(Prefix(b) \o Body(v, negative, b), b)
        = [prefix |-> Prefix(b), value |-> IF negative THEN - v ELSE v,
           length |-> FullLength(v, b)]
  BY <1>1, BodyReadsBack, Zenon
<1> DEFINE r == ReadBack(format_number(v, negative, b0), b)
<1>4. /\ r.prefix = Prefix(b) /\ r.value = (IF negative THEN - v ELSE v)
      /\ r.length = FullLength(v, b)
  <2>1. r = [prefix |-> Prefix(b), value |-> IF negative THEN - v ELSE v,
             length |-> FullLength(v, b)]
    BY <1>2, <1>3, Zenon
  <2> HIDE DEF r
  <2> QED BY <2>1, SMT
<1>5. /\ b = 16 => FullLength(v, b) = Width \div 4
      /\ b = 2 => FullLength(v, b) = Width
  BY SMT DEF FullLength
<1> QED BY <1>4, <1>5, Zenon DEF ReadAs

\* So does every conversion, signed or not, unless its negation overflows.
LEMMA ConversionReadsBack ==
  ASSUME base \in {0, 2, 16}, NEW spec \in NumberSpecifiers,
         NEW arg \in Nat, arg < TwoTo[Width], NEW chars \in Written(spec, arg)
  PROVE  ReadsBack([spec |-> spec, base |-> base, arg |-> arg, chars |-> chars])
<1> DEFINE b == IF base # 0 THEN base ELSE IF spec = "p" THEN 16 ELSE 10
           signed == spec \in {"i", "I"}
           half == LeastI64
           all == TwoTo[Width]
           negative == signed /\ arg > half
           v == IF negative THEN all - arg ELSE arg
           b0 == IF spec = "p" /\ base = 0 THEN 16 ELSE base
<1> SUFFICES ASSUME ~ (signed /\ arg = half)
             PROVE  ReadAs(chars, IF negative THEN arg - all ELSE arg, b)
  BY Zenon DEF ReadsBack
<1>1. half \in Nat /\ all \in Nat /\ half > 0
  <2>1. Width \in 0 .. Width /\ Width - 1 \in 0 .. Width
    BY FormatConstants, SMT
  <2>2. all \in Nat \ {0} /\ half \in Nat \ {0}
    BY <2>1, TwoToFacts, Zenon DEF LeastI64
  <2> QED BY <2>2, SMT
<1>2. chars = format_number(v, negative, b0)
  <2>1. CASE spec = "p"
    BY <2>1, Zenon DEF Written
  <2>2. CASE signed
    <3>1. chars \in format_number_i64(arg, base) /\ b0 = base
      BY <2>2, Zenon DEF Written
    <3>2. CASE arg < half
      <4>1. ~ (arg > half)
        BY <1>1, <3>2, SMT
      <4>2. chars = format_number(arg, FALSE, base)
        BY <3>1, <3>2, Zenon DEF format_number_i64
      <4>3. negative = FALSE
        BY <4>1, Zenon
      <4> HIDE DEF negative, b0
      <4> QED BY <3>1, <4>2, <4>3, Zenon
    <3>3. CASE arg > half
      <4>1. ~ (arg < half) /\ arg # half
        BY <1>1, <3>3, SMT
      <4>2. chars = format_number(all - arg, TRUE, base)
        BY <3>1, <4>1, Zenon DEF format_number_i64, Negations
      <4>3. negative = TRUE
        BY <2>2, <3>3, Zenon
      <4> HIDE DEF negative, b0
      <4> QED BY <3>1, <4>2, <4>3, Zenon
    <3>4. arg < half \/ arg > half
      BY <1>1, <2>2, SMT
    <3> QED BY <3>2, <3>3, <3>4, Zenon
  <2>3. CASE spec \in {"u", "U"}
    BY <2>3, Zenon DEF Written
  <2> QED BY <2>1, <2>2, <2>3, Zenon DEF NumberSpecifiers
<1> HIDE DEF half, all
<1>3. v \in Nat /\ v < all
  BY <1>1, SMT DEF all
<1>4. b0 \in {0, 2, 10, 16} /\ b = (IF b0 = 0 THEN 10 ELSE b0)
  BY SMT
<1>5. negative \in BOOLEAN
  BY Zenon
<1> HIDE DEF v, b0, b, negative
<1>6. ReadAs(chars, IF negative THEN - v ELSE v, b)
  <2>1. ReadAs(format_number(v, negative, b0), IF negative THEN - v ELSE v, b)
    BY <1>3, <1>4, <1>5, NumberReadsBack, Zenon DEF all
  <2> QED BY <1>2, <2>1, Zenon
<1>7. (IF negative THEN - v ELSE v) = (IF negative THEN arg - all ELSE arg)
  BY <1>1, SMT DEF v
<1> QED BY <1>6, <1>7, Zenon

-----------------------------------------------------------------------------
(* vformat, step by step                                                   *)

\* The calls of vformat: only the header of a log line has arguments that are known.
Texts == Formats \cup {HeaderFormat, <<"\n">>}

CallSet ==
  {c \in [format : Texts, args : {<<>>} \cup Headers] :
     c.args # <<>> => c.format = HeaderFormat}

FormatTypeOK ==
  /\ calls \in Seq(CallSet)
  /\ i \in Nat
  /\ base \in {0, 2, 16}
  /\ used \in Seq({used[k] : k \in DOMAIN used})
  /\ pc = "idle" <=> calls = <<>>
  /\ calls = <<>> => i = 0 /\ used = <<>>

\* What vformat knows of the characters before the one it looks at.
PositionInv ==
  /\ pc = "for" /\ i \in DOMAIN Fmt =>
       /\ Fmt[i] # "%"
       /\ i > 1 /\ Fmt[i] \in {"x", "b"} => Fmt[i - 1] # "%"
  /\ pc = "percent" => i \in DOMAIN Fmt /\ Fmt[i] = "%"
  /\ pc = "base" => /\ i \in DOMAIN Fmt /\ i > 1
                    /\ Fmt[i] \in {"x", "b"} /\ Fmt[i - 1] = "%"

\* The arguments of the header that have been taken: its conversions end at 2, 6, 11
\* and 14, and the last one is the number of the line.
HeaderInv ==
  calls # <<>> /\ Head(calls).args # <<>> =>
    Len(used) = IF i < 2 THEN 0 ELSE IF i < 6 THEN 1 ELSE IF i < 11 THEN 2
                ELSE IF i < 14 THEN 3 ELSE 4

FormatInv == FormatTypeOK /\ PositionInv /\ HeaderInv

\* The position k holds a conversion.
Converts(k) ==
  /\ k \in DOMAIN Fmt /\ k > 1 /\ Fmt[k] \in Specifiers
  /\ \/ Fmt[k - 1] = "%"
     \/ k > 2 /\ Fmt[k - 1] \in {"x", "b"} /\ Fmt[k - 2] = "%"

\* The length of a sequence of n elements.
LEMMA SequenceLength ==
  ASSUME NEW n \in Nat, NEW s, Sequence(s, n)
  PROVE  Len(s) = n /\ DOMAIN s = 1 .. n
<1> DEFINE S == {s[k] : k \in 1 .. n}
<1>1. s \in [1 .. n -> S]
  BY Zenon DEF Sequence
<1> HIDE DEF S
<1> QED BY <1>1, SMT

\* Every format that vformat is given is a sequence of characters.
LEMMA TextsAreSequences ==
  /\ \A f \in Texts : Len(f) \in Nat /\ DOMAIN f = 1 .. Len(f)
  /\ Len(HeaderFormat) = 17
<1>1. ASSUME NEW f \in Formats
      PROVE  Len(f) \in Nat /\ DOMAIN f = 1 .. Len(f)
  BY FormatConstants, LenProperties
<1>2. Len(HeaderFormat) = 17 /\ DOMAIN HeaderFormat = 1 .. 17
  <2>1. Sequence(HeaderFormat, 17)
    BY SMT DEF Sequence, HeaderFormat
  <2> QED BY <2>1, SequenceLength
<1>3. Len(<<"\n">>) = 1 /\ DOMAIN <<"\n">> = 1 .. 1
  <2>1. Sequence(<<"\n">>, 1)
    BY SMT DEF Sequence
  <2> QED BY <2>1, SequenceLength
<1> QED BY <1>1, <1>2, <1>3 DEF Texts

\* What is known of the call that is running.
LEMMA RunningCall ==
  ASSUME FormatTypeOK, calls # <<>>
  PROVE  /\ Head(calls) \in CallSet
         /\ Len(Fmt) \in Nat /\ DOMAIN Fmt = 1 .. Len(Fmt)
<1>1. Head(calls) \in CallSet
  BY HeadTailProperties DEF FormatTypeOK
<1>2. Fmt \in Texts
  BY <1>1 DEF CallSet, Fmt
<1> QED BY <1>1, <1>2, TextsAreSequences

\* A step over a character that is no conversion takes no argument.
LEMMA TakesNone ==
  ASSUME FormatTypeOK, ArgumentsInOrder, calls # <<>>, calls' = calls, used' = used,
         i' = i \/ (i' = i + 1 /\ ~ Converts(i + 1))
  PROVE  ArgumentsInOrder'
<1>1. i \in Nat /\ Fmt' = Fmt /\ DOMAIN Fmt = 1 .. Len(Fmt) /\ Len(Fmt) \in Nat
  BY RunningCall DEF FormatTypeOK, Fmt
<1>2. Conversions = {k \in DOMAIN Fmt : k <= i /\ Converts(k)}
  BY Zenon DEF Conversions, Converts
<1>3. Conversions' = {k \in DOMAIN Fmt : k <= i' /\ Converts(k)}
  BY <1>1, Zenon DEF Conversions, Converts
<1>4. \A k \in DOMAIN Fmt : Converts(k) => (k <= i' <=> k <= i)
  <2>1. \A k \in DOMAIN Fmt : k = i + 1 \/ (k <= i + 1 <=> k <= i)
    BY <1>1, SMT
  <2> QED BY <2>1, Zenon
<1>5. Conversions' = Conversions
  <2> HIDE DEF Converts
  <2> QED BY <1>2, <1>3, <1>4, Zenon
<1> QED BY <1>1, <1>5 DEF ArgumentsInOrder

\* A conversion takes the next one.
LEMMA TakesOne ==
  ASSUME FormatTypeOK, ArgumentsInOrder, calls # <<>>, calls' = calls, i' = i + 1,
         Converts(i + 1), NEW u, used' = Append(used, u), u.spec = Fmt[i + 1]
  PROVE  ArgumentsInOrder'
<1>1. i \in Nat /\ Fmt' = Fmt /\ DOMAIN Fmt = 1 .. Len(Fmt) /\ Len(Fmt) \in Nat
  BY RunningCall DEF FormatTypeOK, Fmt
<1>2. /\ Conversions' = Conversions \cup {i + 1}
      /\ \A c \in Conversions : c \in Nat /\ c < i + 1
  <2>1. Conversions = {k \in DOMAIN Fmt : k <= i /\ Converts(k)}
    BY Zenon DEF Conversions, Converts
  <2>2. Conversions' = {k \in DOMAIN Fmt : k <= i + 1 /\ Converts(k)}
    BY <1>1, Zenon DEF Conversions, Converts
  <2>3. \A k \in DOMAIN Fmt : (k <= i + 1 <=> k <= i \/ k = i + 1) /\ (k <= i => k < i + 1) /\ k \in Nat
    BY <1>1, SMT
  <2>4. i + 1 \in DOMAIN Fmt
    BY Zenon DEF Converts
  <2> HIDE DEF Converts
  <2> QED BY <2>1, <2>2, <2>3, <2>4, Zenon
<1> DEFINE n == Len(used)
<1>3. n \in Nat /\ DOMAIN used = 1 .. n
  BY LenProperties DEF FormatTypeOK
<1>4. /\ DOMAIN used' = 1 .. n + 1
      /\ \A k \in 1 .. n : used'[k] = used[k]
      /\ used'[n + 1] = u
  <2> DEFINE S == {used[k] : k \in DOMAIN used} \cup {u}
  <2>1. used \in Seq(S) /\ u \in S
    BY DEF FormatTypeOK
  <2> HIDE DEF S
  <2>2. /\ Append(used, u) \in Seq(S) /\ Len(Append(used, u)) = n + 1
        /\ \A k \in 1 .. n : Append(used, u)[k] = used[k]
        /\ Append(used, u)[n + 1] = u
    BY <2>1, AppendProperties
  <2> QED BY <2>2, LenProperties
<1>5. PICK at \in [1 .. n -> Conversions] :
        /\ \A j, k \in 1 .. n : j < k => at[j] < at[k]
        /\ \A c \in Conversions : \E k \in 1 .. n : at[k] = c
        /\ \A k \in 1 .. n : used[k].spec = Fmt[at[k]]
  BY <1>3, Zenon DEF ArgumentsInOrder
<1> HIDE DEF n
<1> DEFINE next == [k \in 1 .. n + 1 |-> IF k = n + 1 THEN i + 1 ELSE at[k]]
<1>6. \A k \in 1 .. n + 1 : k # n + 1 => k \in 1 .. n
  BY <1>3, SMT
<1>7. /\ \A k \in 1 .. n : k \in 1 .. n + 1 /\ k # n + 1 /\ next[k] = at[k]
      /\ n + 1 \in 1 .. n + 1 /\ next[n + 1] = i + 1
  BY <1>3, SMT
<1>8. next \in [1 .. n + 1 -> Conversions']
  BY <1>2, <1>6, Zenon
<1> HIDE DEF next
<1>9. ASSUME NEW j \in 1 .. n + 1, NEW k \in 1 .. n + 1, j < k
      PROVE  next[j] < next[k]
  <2>1. j \in 1 .. n
    BY <1>3, <1>9, SMT
  <2>2. CASE k = n + 1
    <3>1. at[j] \in Conversions
      BY <2>1, Zenon
    <3> QED BY <1>2, <1>7, <2>1, <2>2, <3>1, Zenon
  <2>3. CASE k # n + 1
    BY <1>5, <1>6, <1>7, <1>9, <2>1, <2>3, Zenon
  <2> QED BY <2>2, <2>3
<1>10. \A c \in Conversions' : \E k \in 1 .. n + 1 : next[k] = c
  BY <1>2, <1>5, <1>7, Zenon
<1>11. \A k \in 1 .. n + 1 : used'[k].spec = Fmt[next[k]]
  BY <1>4, <1>5, <1>6, <1>7, Zenon
<1>12. /\ next \in [DOMAIN used' -> Conversions']
       /\ \A j, k \in DOMAIN used' : j < k => next[j] < next[k]
       /\ \A c \in Conversions' : \E k \in DOMAIN used' : next[k] = c
       /\ \A k \in DOMAIN used' : used'[k].spec = Fmt'[next[k]]
  BY <1>1, <1>4, <1>8, <1>9, <1>10, <1>11, Zenon
<1> QED BY <1>12, Zenon DEF ArgumentsInOrder

\* The characters of the header of a log line, and the conversions in it.
LEMMA HeaderCharacters ==
  /\ \A k \in {1, 5, 10, 13} : HeaderFormat[k] = "%"
  /\ \A k \in {2, 6, 11} : HeaderFormat[k] = "S"
  /\ HeaderFormat[14] = "i"
  /\ \A k \in 1 .. 17 \ {2, 6, 11, 14} : HeaderFormat[k] \notin Specifiers
<1>1. /\ HeaderFormat[1] = "%" /\ HeaderFormat[5] = "%" /\ HeaderFormat[10] = "%"
      /\ HeaderFormat[13] = "%"
  BY SMT DEF HeaderFormat
<1>2. /\ HeaderFormat[2] = "S" /\ HeaderFormat[6] = "S" /\ HeaderFormat[11] = "S"
      /\ HeaderFormat[14] = "i"
  BY SMT DEF HeaderFormat
<1>3. /\ HeaderFormat[3] = ":" /\ HeaderFormat[12] = ":"
      /\ HeaderFormat[8] = "-" /\ HeaderFormat[16] = "-"
  BY SMT DEF HeaderFormat
<1>4. /\ HeaderFormat[4] = " " /\ HeaderFormat[7] = " " /\ HeaderFormat[9] = " "
      /\ HeaderFormat[15] = " " /\ HeaderFormat[17] = " "
  BY SMT DEF HeaderFormat
<1>5. ASSUME NEW k \in 1 .. 17 \ {2, 6, 11, 14}
      PROVE  HeaderFormat[k] \notin Specifiers
  <2>1. k \in {1, 5, 10, 13} \/ k \in {3, 12} \/ k \in {8, 16} \/ k \in {4, 7, 9, 15, 17}
    BY SMT
  <2>2. HeaderFormat[k] \in {"%", ":", "-", " "}
    BY <1>1, <1>3, <1>4, <2>1, Zenon
  <2>3. \A c \in {"%", ":", "-", " "} : c \notin Specifiers
    BY Zenon DEF Specifiers, NumberSpecifiers
  <2> QED BY <2>2, <2>3, Zenon
<1> QED BY <1>1, <1>2, <1>5, Zenon

\* Its conversions are its specifiers, and one of them is of a number.
LEMMA HeaderConversions ==
  ASSUME Fmt = HeaderFormat, NEW k \in Nat
  PROVE  /\ Converts(k) <=> k \in {2, 6, 11, 14}
         /\ Converts(k) /\ Fmt[k] \in NumberSpecifiers => k = 14
<1>1. DOMAIN Fmt = 1 .. 17
  BY TextsAreSequences DEF Texts
<1>2. k \in {2, 6, 11, 14} =>
        /\ k \in 1 .. 17 /\ k > 1 /\ k - 1 \in {1, 5, 10, 13}
  BY SMT
<1>3. \A c \in {"S", "i"} : c \in Specifiers
  BY Zenon DEF Specifiers, NumberSpecifiers
<1>4. k \in {2, 6, 11, 14} => Fmt[k] \in {"S", "i"}
  BY HeaderCharacters, Zenon
<1>5. k \in {2, 6, 11, 14} => Converts(k)
  BY <1>1, <1>2, <1>3, <1>4, HeaderCharacters, Zenon DEF Converts
<1>6. Converts(k) => k \in {2, 6, 11, 14}
  BY <1>1, HeaderCharacters, Zenon DEF Converts
<1>7. "S" \notin NumberSpecifiers
  BY Zenon DEF NumberSpecifiers
<1> QED BY <1>5, <1>6, <1>7, HeaderCharacters, Zenon

\* A step over a character that is no conversion leaves the count of them.
LEMMA HeaderTakesNone ==
  ASSUME FormatTypeOK, HeaderInv, calls # <<>>, calls' = calls, used' = used,
         i' = i \/ (i' = i + 1 /\ ~ Converts(i + 1))
  PROVE  HeaderInv'
<1> SUFFICES ASSUME Head(calls).args # <<>>
             PROVE  HeaderInv'
  BY Zenon DEF HeaderInv
<1>1. Fmt = HeaderFormat /\ i \in Nat
  BY RunningCall DEF CallSet, Fmt, FormatTypeOK
<1>2. i' = i + 1 => i + 1 \notin {2, 6, 11, 14}
  <2>1. i + 1 \in Nat
    BY <1>1, SMT
  <2> QED BY <1>1, <2>1, HeaderConversions, SMT
<1> QED BY <1>1, <1>2, SMT DEF HeaderInv

\* A conversion of the header adds one to the count.
LEMMA HeaderTakesOne ==
  ASSUME FormatTypeOK, HeaderInv, calls # <<>>, calls' = calls, i' = i + 1,
         Converts(i + 1), NEW u, used' = Append(used, u)
  PROVE  HeaderInv'
<1> SUFFICES ASSUME Head(calls).args # <<>>
             PROVE  HeaderInv'
  BY Zenon DEF HeaderInv
<1>1. Fmt = HeaderFormat /\ i \in Nat
  BY RunningCall DEF CallSet, Fmt, FormatTypeOK
<1>2. i + 1 \in {2, 6, 11, 14}
  <2>1. i + 1 \in Nat
    BY <1>1, SMT
  <2> QED BY <1>1, <2>1, HeaderConversions, Zenon
<1>3. Len(used') = Len(used) + 1
  <2> DEFINE S == {used[k] : k \in DOMAIN used} \cup {u}
  <2>1. used \in Seq(S) /\ u \in S
    BY DEF FormatTypeOK
  <2> HIDE DEF S
  <2> QED BY <2>1, AppendProperties
<1> DEFINE Taken(k) == IF k < 2 THEN 0 ELSE IF k < 6 THEN 1 ELSE IF k < 11 THEN 2
                       ELSE IF k < 14 THEN 3 ELSE 4
<1>4. Len(used) = Taken(i)
  BY Zenon DEF HeaderInv
<1>5. Taken(i) + 1 = Taken(i + 1)
  BY <1>1, <1>2, SMT
<1> HIDE DEF Taken
<1>6. Len(used') = Taken(i')
  BY <1>3, <1>4, <1>5, Zenon
<1> QED BY <1>6, Zenon DEF HeaderInv, Taken

\* The number of the line fits in Width bits.
LEMMA LineFits == 57 < TwoTo[Width]
<1>1. Width \in Nat /\ Width >= 8
  BY FormatConstants, Zenon
<1>2. /\ TwoTo[0] = 1 /\ \A k \in 1 .. Width : TwoTo[k] = 2 * TwoTo[k - 1]
      /\ \A k \in 0 .. Width : TwoTo[k] \in Nat
  BY TwoToFacts, Zenon
<1>3. TwoTo[6] = 64
  <2>1. TwoTo[1] = 2
    BY <1>1, <1>2, SMT
  <2>2. TwoTo[2] = 4
    BY <1>1, <1>2, <2>1, SMT
  <2>3. TwoTo[3] = 8
    BY <1>1, <1>2, <2>2, SMT
  <2>4. TwoTo[4] = 16
    BY <1>1, <1>2, <2>3, SMT
  <2>5. TwoTo[5] = 32
    BY <1>1, <1>2, <2>4, SMT
  <2> QED BY <1>1, <1>2, <2>5, SMT
<1> DEFINE S == {k \in 0 .. Width : k >= 6 => TwoTo[k] >= 64}
<1>4. 0 \in S
  BY <1>1, SMT
<1>5. ASSUME NEW k \in 1 .. Width, k - 1 \in S
      PROVE  k \in S
  <2>1. TwoTo[k] = 2 * TwoTo[k - 1] /\ k - 1 \in 0 .. Width /\ TwoTo[k - 1] \in Nat
    BY <1>1, <1>2, SMT
  <2> QED BY <1>1, <1>3, <1>5, <2>1, SMT
<1> HIDE DEF S
<1>6. \A k \in 0 .. Width : k \in S
  BY <1>1, <1>4, <1>5, UpTo, Zenon
<1>7. TwoTo[Width] >= 64 /\ TwoTo[Width] \in Nat
  BY <1>1, <1>2, <1>6, SMT DEF S
<1> QED BY <1>7, SMT

\* The argument of a number's conversion is a number of Width bits.
LEMMA NumbersFit ==
  ASSUME FormatInv, calls # <<>>, Converts(i + 1), Fmt[i + 1] \in NumberSpecifiers,
         NEW arg \in Arguments(Fmt[i + 1])
  PROVE  arg \in Nat /\ arg < TwoTo[Width]
<1>1. CASE Head(calls).args # <<>>
  <2>1. Fmt = HeaderFormat /\ i \in Nat /\ Head(calls).args \in Headers
    BY <1>1, RunningCall DEF CallSet, Fmt, FormatTypeOK, FormatInv
  <2>2. i + 1 = 14
    <3>1. i + 1 \in Nat
      BY <2>1, SMT
    <3> QED BY <2>1, <3>1, HeaderConversions, Zenon
  <2>3. Len(used) = 3
    BY <1>1, <2>1, <2>2, SMT DEF FormatInv, HeaderInv
  <2>4. arg = Head(calls).args[4]
    BY <1>1, <2>3, SMT DEF Arguments
  <2>5. Head(calls).args[4] = 57
    BY <2>1, SMT DEF Headers
  <2> QED BY <2>4, <2>5, LineFits, SMT
<1>2. CASE Head(calls).args = <<>>
  <2>1. arg \in Numbers
    <3>1. ASSUME NEW c \in NumberSpecifiers
          PROVE  Arguments(c) = Numbers
      <4>1. c # "s" /\ c # "S"
        BY Zenon DEF NumberSpecifiers
      <4>2. Arguments(c) = CASE c \in NumberSpecifiers -> Numbers
                             [] c = "s" -> Strings
                             [] c = "S" -> CStrings
        BY <1>2, Zenon DEF Arguments
      <4> QED BY <4>1, <4>2, Zenon
    <3> QED BY <3>1, Zenon
  <2>2. arg \in 0 .. TwoTo[Width] - 1
    BY <2>1, FormatConstants, Zenon
  <2>3. TwoTo[Width] \in Nat
    <3>1. Width \in 0 .. Width
      BY FormatConstants, SMT
    <3> QED BY <3>1, TwoToFacts, Zenon
  <2> QED BY <2>2, <2>3, SMT
<1> QED BY <1>1, <1>2

\* The inductive invariant.
FormattingInv == FormatInv /\ ArgumentsInOrder /\ NumbersReadBack

\* NumbersReadBack is about each argument by itself.
LEMMA ReadBackOfEach == NumbersReadBack <=> \A k \in DOMAIN used : ReadsBack(used[k])
  BY Zenon DEF NumbersReadBack, ReadsBack, ReadAs

\* What is left to show of a step that takes no argument.
LEMMA StepTakesNone ==
  ASSUME FormattingInv, calls # <<>>, calls' = calls, used' = used, pc' # "idle",
         base' \in {0, 2, 16}, i' = i \/ (i' = i + 1 /\ ~ Converts(i + 1)), PositionInv'
  PROVE  FormattingInv'
<1>1. ArgumentsInOrder'
  BY TakesNone DEF FormattingInv, FormatInv
<1>2. HeaderInv'
  BY HeaderTakesNone DEF FormattingInv, FormatInv
<1>3. FormatTypeOK'
  <2>1. i \in Nat /\ i' \in Nat
    BY SMT DEF FormattingInv, FormatInv, FormatTypeOK
  <2> QED BY <2>1, Zenon DEF FormattingInv, FormatInv, FormatTypeOK
<1>4. NumbersReadBack'
  BY Zenon DEF FormattingInv, NumbersReadBack
<1> QED BY <1>1, <1>2, <1>3, <1>4 DEF FormattingInv, FormatInv

\* A function on 1 .. n is a sequence.
LEMMA FunctionIsSeq ==
  ASSUME NEW S, NEW n \in Nat, NEW s \in [1 .. n -> S]
  PROVE  s \in Seq(S)
  BY SMT

\* What is left to show of a conversion.
LEMMA StepTakesOne ==
  ASSUME FormattingInv, calls # <<>>, calls' = calls, pc' # "idle",
         base' \in {0, 2, 16}, i' = i + 1, Converts(i + 1), PositionInv',
         NEW u, used' = Append(used, u), u.spec = Fmt[i + 1], ReadsBack(u)
  PROVE  FormattingInv'
<1>1. ArgumentsInOrder'
  BY TakesOne DEF FormattingInv, FormatInv
<1>2. HeaderInv'
  BY HeaderTakesOne DEF FormattingInv, FormatInv
<1> DEFINE n == Len(used)
<1>3. n \in Nat /\ DOMAIN used = 1 .. n
  BY LenProperties DEF FormattingInv, FormatInv, FormatTypeOK
<1>4. /\ DOMAIN used' = 1 .. n + 1
      /\ \A k \in 1 .. n : used'[k] = used[k]
      /\ used'[n + 1] = u /\ Len(used') = n + 1
      /\ used' = [k \in 1 .. n + 1 |-> used'[k]]
  <2> DEFINE S == {used[k] : k \in DOMAIN used} \cup {u}
  <2>1. used \in Seq(S) /\ u \in S
    BY DEF FormattingInv, FormatInv, FormatTypeOK
  <2> HIDE DEF S
  <2>2. /\ Append(used, u) \in Seq(S) /\ Len(Append(used, u)) = n + 1
        /\ \A k \in 1 .. n : Append(used, u)[k] = used[k]
        /\ Append(used, u)[n + 1] = u
    BY <2>1, AppendProperties
  <2>3. used' \in [1 .. n + 1 -> S]
    BY <2>2, LenProperties
  <2> QED BY <2>2, <2>3, Zenon
<1> HIDE DEF n
<1>5. FormatTypeOK'
  <2>1. i \in Nat /\ i' \in Nat
    BY SMT DEF FormattingInv, FormatInv, FormatTypeOK
  <2> DEFINE S == {used'[k] : k \in DOMAIN used'}
  <2>2. used' \in [1 .. n + 1 -> S]
    BY <1>4, Zenon
  <2>3. used' \in Seq(S)
    <3> HIDE DEF S
    <3>1. n + 1 \in Nat
      BY <1>3, SMT
    <3> QED BY <2>2, <3>1, FunctionIsSeq, Zenon
  <2> QED BY <2>1, <2>3, Zenon DEF FormattingInv, FormatInv, FormatTypeOK
<1>6. NumbersReadBack'
  <2>1. \A k \in 1 .. n : ReadsBack(used[k])
    BY <1>3, ReadBackOfEach, Zenon DEF FormattingInv
  <2>2. \A k \in 1 .. n + 1 : k \in 1 .. n \/ k = n + 1
    BY <1>3, SMT
  <2>3. \A k \in DOMAIN used' : ReadsBack(used'[k])
    BY <1>4, <2>1, <2>2, Zenon
  <2> QED BY <2>3, ReadBackOfEach, Zenon DEF NumbersReadBack, ReadsBack, ReadAs
<1> QED BY <1>1, <1>2, <1>5, <1>6 DEF FormattingInv, FormatInv

\* A character that vformat meets outside a conversion is none.
LEMMA OutsideConversions ==
  ASSUME FormatInv, calls # <<>>, pc = "for"
  PROVE  ~ Converts(i + 1)
<1>1. i \in Nat /\ DOMAIN Fmt = 1 .. Len(Fmt) /\ Len(Fmt) \in Nat
  BY RunningCall DEF FormatInv, FormatTypeOK
<1>2. ASSUME Converts(i + 1)
      PROVE  FALSE
  <2>1. i \in DOMAIN Fmt /\ (i + 1) - 1 = i /\ (i + 1) - 2 = i - 1 /\ (i + 1 > 2 => i > 1)
    BY <1>1, <1>2, SMT DEF Converts
  <2>2. Fmt[i] = "%" \/ (i > 1 /\ Fmt[i] \in {"x", "b"} /\ Fmt[i - 1] = "%")
    BY <1>2, <2>1 DEF Converts
  <2> QED BY <2>1, <2>2, Zenon DEF FormatInv, PositionInv
<1> QED BY <1>2

\* The characters that are no specifiers.
LEMMA NoSpecifiers == \A c \in {"%", "x", "b"} : c \notin Specifiers
  BY Zenon DEF Specifiers, NumberSpecifiers

\* The steps of vformat, one by one.
LEMMA LiteralKeeps == FormattingInv /\ Literal => FormattingInv'
<1> SUFFICES ASSUME FormattingInv, Literal
             PROVE  FormattingInv'
  OBVIOUS
<1> USE DEF FormattingInv
<1>1. /\ calls # <<>> /\ calls' = calls /\ used' = used /\ base' = base /\ i' = i + 1
      /\ pc = "for" /\ pc' \in {"for", "kassert"} /\ Fmt' = Fmt
  BY Zenon DEF Literal, Write, FormatInv, FormatTypeOK, Fmt
<1>2. i \in Nat /\ DOMAIN Fmt = 1 .. Len(Fmt) /\ Len(Fmt) \in Nat
  BY <1>1, RunningCall DEF FormatInv, FormatTypeOK
<1>3. ~ Converts(i + 1)
  BY <1>1, OutsideConversions
<1>4. PositionInv'
  <2>1. Fmt[i + 1] # "%" /\ i + 1 \in DOMAIN Fmt
    BY <1>2, SMT DEF Literal, Char, AtEnd
  <2>2. i + 1 > 1 => i \in DOMAIN Fmt /\ (i + 1) - 1 = i
    BY <1>2, <2>1, SMT
  <2>3. i + 1 > 1 => Fmt[(i + 1) - 1] # "%"
    BY <1>1, <2>2, Zenon DEF FormatInv, PositionInv
  <2> QED BY <1>1, <2>1, <2>3 DEF PositionInv
<1> QED BY <1>1, <1>3, <1>4, StepTakesNone DEF FormatInv, FormatTypeOK

LEMMA PercentKeeps == FormattingInv /\ Percent => FormattingInv'
<1> SUFFICES ASSUME FormattingInv, Percent
             PROVE  FormattingInv'
  OBVIOUS
<1> USE DEF FormattingInv
<1>1. /\ calls # <<>> /\ calls' = calls /\ used' = used /\ base' = 0 /\ i' = i + 1
      /\ pc = "for" /\ pc' = "percent" /\ Fmt' = Fmt
  BY Zenon DEF Percent, FormatInv, FormatTypeOK, Fmt
<1>2. i \in Nat /\ DOMAIN Fmt = 1 .. Len(Fmt) /\ Len(Fmt) \in Nat
  BY <1>1, RunningCall DEF FormatInv, FormatTypeOK
<1>3. ~ Converts(i + 1)
  BY <1>1, OutsideConversions
<1>4. PositionInv'
  <2>1. Fmt[i + 1] = "%" /\ i + 1 \in DOMAIN Fmt
    BY <1>2, SMT DEF Percent, Char, AtEnd
  <2> QED BY <1>1, <2>1 DEF PositionInv
<1> QED BY <1>1, <1>3, <1>4, StepTakesNone DEF FormatInv, FormatTypeOK

LEMMA OutOfBoundsKeeps == FormattingInv /\ OutOfBounds => FormattingInv'
<1> SUFFICES ASSUME FormattingInv, OutOfBounds
             PROVE  FormattingInv'
  OBVIOUS
<1> USE DEF FormattingInv
<1>1. /\ calls # <<>> /\ calls' = calls /\ used' = used /\ base' = base /\ i' = i + 1
      /\ pc' \in {"for", "kassert"} /\ Fmt' = Fmt
  BY Zenon DEF OutOfBounds, Write, FormatInv, FormatTypeOK, Fmt
<1>2. i \in Nat /\ DOMAIN Fmt = 1 .. Len(Fmt) /\ Len(Fmt) \in Nat
  BY <1>1, RunningCall DEF FormatInv, FormatTypeOK
<1>3. i + 1 \notin DOMAIN Fmt
  <2>1. i >= Len(Fmt)
    BY Zenon DEF OutOfBounds, AtEnd
  <2> QED BY <1>2, <2>1, SMT
<1>4. ~ Converts(i + 1)
  BY <1>3 DEF Converts
<1>5. PositionInv'
  BY <1>1, <1>3 DEF PositionInv
<1> QED BY <1>1, <1>4, <1>5, StepTakesNone DEF FormatInv, FormatTypeOK

LEMMA BaseKeeps == FormattingInv /\ Base => FormattingInv'
<1> SUFFICES ASSUME FormattingInv, Base
             PROVE  FormattingInv'
  OBVIOUS
<1> USE DEF FormattingInv
<1>1. /\ calls # <<>> /\ calls' = calls /\ used' = used /\ base' \in {0, 2, 16} /\ i' = i + 1
      /\ pc = "percent" /\ pc' = "base" /\ Fmt' = Fmt
  BY Zenon DEF Base, FormatInv, FormatTypeOK, Fmt
<1>2. i \in Nat /\ DOMAIN Fmt = 1 .. Len(Fmt) /\ Len(Fmt) \in Nat
  BY <1>1, RunningCall DEF FormatInv, FormatTypeOK
<1>3. /\ Fmt[i + 1] \in {"x", "b"} /\ i + 1 \in DOMAIN Fmt
  BY <1>2, SMT DEF Base, Char, AtEnd
<1>4. ~ Converts(i + 1)
  BY <1>3, NoSpecifiers, Zenon DEF Converts
<1>5. PositionInv'
  <2>1. i \in DOMAIN Fmt /\ Fmt[i] = "%"
    BY <1>1, Zenon DEF FormatInv, PositionInv
  <2>2. i + 1 > 1 /\ (i + 1) - 1 = i
    BY <1>2, <2>1, SMT
  <2> QED BY <1>1, <1>3, <2>1, <2>2 DEF PositionInv
<1> QED BY <1>1, <1>4, <1>5, StepTakesNone

LEMMA ConvertKeeps == FormattingInv /\ Convert => FormattingInv'
<1> SUFFICES ASSUME FormattingInv, Convert
             PROVE  FormattingInv'
  OBVIOUS
<1> USE DEF FormattingInv
<1>0. PICK arg \in Arguments(Char) : \E chars \in Written(Char, arg) :
        /\ Write(chars)
        /\ used' = Append(used, [spec |-> Char, base |-> base, arg |-> arg, chars |-> chars])
  BY Zenon DEF Convert
<1>1. PICK chars \in Written(Char, arg) :
        /\ Write(chars)
        /\ used' = Append(used, [spec |-> Char, base |-> base, arg |-> arg, chars |-> chars])
  BY <1>0, Zenon
<1>2. /\ calls # <<>> /\ calls' = calls /\ base' = base /\ i' = i + 1
      /\ pc \in {"percent", "base"} /\ pc' \in {"for", "kassert"} /\ Fmt' = Fmt
  BY <1>1, Zenon DEF Convert, AtSpecifier, Write, FormatInv, FormatTypeOK, Fmt
<1>3. i \in Nat /\ DOMAIN Fmt = 1 .. Len(Fmt) /\ Len(Fmt) \in Nat /\ base \in {0, 2, 16}
  BY <1>2, RunningCall DEF FormatInv, FormatTypeOK
<1>4. Char = Fmt[i + 1] /\ Fmt[i + 1] \in Specifiers /\ i + 1 \in DOMAIN Fmt
  BY <1>3, SMT DEF Convert, AtSpecifier, Char, AtEnd
<1>5. Fmt[i + 1] \notin {"%", "x", "b"}
  BY <1>4, NoSpecifiers, Zenon
<1>6. PositionInv'
  BY <1>2, <1>5, Zenon DEF PositionInv
<1>7. Converts(i + 1)
  <2>1. \/ i \in DOMAIN Fmt /\ Fmt[i] = "%"
        \/ i \in DOMAIN Fmt /\ i > 1 /\ Fmt[i] \in {"x", "b"} /\ Fmt[i - 1] = "%"
    BY <1>2, Zenon DEF FormatInv, PositionInv
  <2>2. i \in DOMAIN Fmt
    BY <2>1, Zenon
  <2>3. i + 1 > 1 /\ (i + 1) - 1 = i /\ (i + 1) - 2 = i - 1 /\ (i > 1 => i + 1 > 2)
    BY <1>3, <2>2, SMT
  <2> QED BY <1>4, <2>1, <2>3 DEF Converts
<1> DEFINE u == [spec |-> Char, base |-> base, arg |-> arg, chars |-> chars]
<1>8. ReadsBack(u)
  <2>1. u.spec = Char
    BY Zenon
  <2>2. CASE Char \in NumberSpecifiers
    <3>1. arg \in Nat /\ arg < TwoTo[Width]
      BY <1>2, <1>4, <1>7, <2>2, NumbersFit
    <3> QED BY <1>3, <2>2, <3>1, ConversionReadsBack
  <2>3. CASE Char \notin NumberSpecifiers
    BY <2>1, <2>3, Zenon DEF ReadsBack
  <2> QED BY <2>2, <2>3
<1>9. u.spec = Fmt[i + 1] /\ used' = Append(used, u)
  BY <1>1, <1>4, Zenon
<1> HIDE DEF u
<1> QED BY <1>2, <1>3, <1>6, <1>7, <1>8, <1>9, StepTakesOne

LEMMA ReturnKeeps == FormattingInv /\ (Unsupported \/ EndOfFormat) => FormattingInv'
<1> SUFFICES ASSUME FormattingInv, Unsupported \/ EndOfFormat
             PROVE  FormattingInv'
  OBVIOUS
<1> USE DEF FormattingInv
<1>1. /\ calls # <<>> /\ calls' = calls /\ used' = used /\ base' = base /\ i' = i
      /\ pc' = "return"
  BY Zenon DEF Unsupported, EndOfFormat, AtSpecifier, FormatInv, FormatTypeOK
<1>2. PositionInv'
  BY <1>1, Zenon DEF PositionInv
<1> QED BY <1>1, <1>2, StepTakesNone DEF FormatInv, FormatTypeOK

\* At the start of a call nothing has been read or taken.
Starting ==
  /\ calls \in Seq(CallSet)
  /\ i = 0 /\ used = <<>> /\ base \in {0, 2, 16}
  /\ pc = IF calls = <<>> THEN "idle" ELSE "for"

\* That is enough for the invariant.
LEMMA StartOfCall == Starting => FormattingInv
<1> SUFFICES ASSUME Starting
             PROVE  FormattingInv
  OBVIOUS
<1> USE DEF Starting
<1>1. FormatTypeOK
  <2>1. used \in Seq({used[k] : k \in DOMAIN used})
    BY SMT
  <2> QED BY <2>1, SMT DEF FormatTypeOK
<1>2. calls # <<>> => DOMAIN Fmt = 1 .. Len(Fmt) /\ Len(Fmt) \in Nat
  BY <1>1, RunningCall
<1>3. PositionInv
  <2>1. calls # <<>> => i \notin DOMAIN Fmt
    BY <1>2, SMT
  <2> QED BY <2>1, Zenon DEF PositionInv
<1>4. HeaderInv
  BY SMT DEF HeaderInv
<1>5. DOMAIN used = {}
  BY SMT
<1>6. NumbersReadBack
  BY <1>5, Zenon DEF NumbersReadBack
<1>7. ArgumentsInOrder
  <2> SUFFICES ASSUME calls # <<>>
               PROVE  ArgumentsInOrder
    BY Zenon DEF ArgumentsInOrder
  <2>1. Conversions = {}
    <3>1. \A k \in DOMAIN Fmt : ~ (k <= i)
      BY <1>2, SMT
    <3> QED BY <3>1, Zenon DEF Conversions
  <2> DEFINE at == [k \in {} |-> 0]
  <2>2. at \in [DOMAIN used -> Conversions]
    BY <1>5, <2>1, Zenon
  <2> QED BY <1>5, <2>1, <2>2, Zenon DEF ArgumentsInOrder
<1> QED BY <1>1, <1>3, <1>4, <1>6, <1>7 DEF FormattingInv, FormatInv

LEMMA StartOfNextCall == Starting' => FormattingInv'
  BY StartOfCall, PTL

\* The next call begins, or the caller is done.
LEMMA EndCallKeeps == FormattingInv /\ EndCall => FormattingInv'
<1> SUFFICES ASSUME FormattingInv, EndCall
             PROVE  Starting'
  BY StartOfNextCall
<1>1. calls \in Seq(CallSet) /\ calls # <<>>
  BY Zenon DEF EndCall, FormattingInv, FormatInv, FormatTypeOK
<1>2. /\ calls' = Tail(calls) /\ calls' \in Seq(CallSet)
      /\ Len(calls) > 1 <=> calls' # <<>>
  <2>1. Tail(calls) \in Seq(CallSet) /\ Len(Tail(calls)) = Len(calls) - 1
    BY <1>1, HeadTailProperties
  <2>2. Tail(calls) = <<>> <=> Len(Tail(calls)) = 0
    BY <2>1, EmptySeq
  <2>3. Len(calls) \in Nat /\ Len(Tail(calls)) \in Nat
    BY <1>1, <2>1, LenProperties
  <2>4. calls' = Tail(calls)
    BY Zenon DEF EndCall
  <2>5. Len(calls) > 1 <=> Len(Tail(calls)) # 0
    BY <2>1, <2>3, SMT
  <2> QED BY <2>1, <2>2, <2>4, <2>5, Zenon
<1>3. i' = 0 /\ used' = <<>> /\ base' = 0 /\ pc' = IF Len(calls) > 1 THEN "for" ELSE "idle"
  BY Zenon DEF EndCall
<1> QED BY <1>2, <1>3, Zenon DEF Starting

\* A caller begins with a sequence of calls.
LEMMA BeginCallsKeeps ==
  ASSUME FormattingInv, NEW cs, NEW h, cs \in Seq(CallSet), cs # <<>>, BeginCalls(cs, h)
  PROVE  FormattingInv'
<1>1. calls' = cs /\ pc' = "for" /\ i' = 0 /\ used' = <<>> /\ base' \in {0, 2, 16}
  BY Zenon DEF BeginCalls, FormattingInv, FormatInv, FormatTypeOK
<1>2. Starting'
  BY <1>1, Zenon DEF Starting
<1> QED BY <1>2, StartOfNextCall

\* printf makes one call and logger_printf three.
LEMMA CallerKeeps ==
  ASSUME FormattingInv, NEW format \in Formats,
         printf(format) \/ \E h \in Headers : logger_printf(format, h)
  PROVE  FormattingInv'
<1>1. Call(format, <<>>) \in CallSet /\ Call(<<"\n">>, <<>>) \in CallSet
  BY SMT DEF Call, CallSet, Texts
<1>2. CASE printf(format)
  <2> DEFINE cs == <<Call(format, <<>>)>>
  <2>1. cs \in Seq(CallSet) /\ cs # <<>>
    <3> DEFINE c == Call(format, <<>>)
    <3> HIDE DEF c
    <3>1. c \in CallSet
      BY <1>1, Zenon DEF c
    <3>2. <<c>> \in Seq(CallSet) /\ <<c>> # <<>>
      BY <3>1, SMT
    <3> QED BY <3>2, Zenon DEF c
  <2>2. BeginCalls(cs, <<>>)
    BY <1>2, Zenon DEF printf
  <2> HIDE DEF cs
  <2> QED BY <2>1, <2>2, BeginCallsKeeps
<1>3. ASSUME NEW h \in Headers, logger_printf(format, h)
      PROVE  FormattingInv'
  <2> DEFINE cs == <<Call(HeaderFormat, h), Call(format, <<>>), Call(<<"\n">>, <<>>)>>
  <2>1. Call(HeaderFormat, h) \in CallSet
    BY Zenon DEF Call, CallSet, Texts
  <2>2. cs \in Seq(CallSet) /\ cs # <<>>
    <3> DEFINE c == Call(HeaderFormat, h)
               d == Call(format, <<>>)
               e == Call(<<"\n">>, <<>>)
    <3> HIDE DEF c, d, e
    <3>1. c \in CallSet /\ d \in CallSet /\ e \in CallSet
      BY <1>1, <2>1, Zenon DEF c, d, e
    <3>2. <<c, d, e>> \in Seq(CallSet) /\ <<c, d, e>> # <<>>
      BY <3>1, SMT
    <3> QED BY <3>2, Zenon DEF c, d, e
  <2>3. BeginCalls(cs, h)
    BY <1>3, Zenon DEF logger_printf
  <2> HIDE DEF cs
  <2> QED BY <2>2, <2>3, BeginCallsKeeps
<1> QED BY <1>2, <1>3

\* Every step of vformat and its callers keeps the invariant.
LEMMA FormattingInvInductive == FormattingInv /\ [FormatNext]_formatVars => FormattingInv'
<1> SUFFICES ASSUME FormattingInv, [FormatNext]_formatVars
             PROVE  FormattingInv'
  OBVIOUS
<1>1. CASE UNCHANGED formatVars
  <2>1. /\ pc' = pc /\ calls' = calls /\ i' = i /\ base' = base /\ used' = used
    BY <1>1, Zenon DEF formatVars
  <2>2. Fmt' = Fmt /\ Conversions' = Conversions
    BY <2>1, Zenon DEF Fmt, Conversions
  <2>3. FormatTypeOK'
    BY <2>1, Zenon DEF FormattingInv, FormatInv, FormatTypeOK
  <2>4. PositionInv' /\ HeaderInv'
    BY <2>1, <2>2, Zenon DEF FormattingInv, FormatInv, PositionInv, HeaderInv
  <2>5. ArgumentsInOrder'
    BY <2>1, <2>2, Zenon DEF FormattingInv, ArgumentsInOrder
  <2>6. NumbersReadBack'
    BY <2>1, Zenon DEF FormattingInv, NumbersReadBack
  <2> QED BY <2>3, <2>4, <2>5, <2>6, Zenon DEF FormattingInv, FormatInv
<1>2. CASE \E format \in Formats :
              printf(format) \/ \E h \in Headers : logger_printf(format, h)
  BY <1>2, CallerKeeps
<1> QED BY <1>1, <1>2, LiteralKeeps, PercentKeeps, OutOfBoundsKeeps, BaseKeeps, ConvertKeeps,
           ReturnKeeps, EndCallKeeps, Zenon DEF FormatNext

\* Before the first call the invariant holds.
LEMMA FormatInitIsInv == FormatInit => FormattingInv
<1>1. ASSUME FormatInit
      PROVE  Starting
  <2>1. <<>> \in Seq(CallSet)
    BY EmptySeq
  <2>2. 0 \in {0, 2, 16}
    BY SMT
  <2> QED BY <1>1, <2>1, <2>2, Zenon DEF FormatInit, Starting
<1> QED BY <1>1, StartOfCall

\* The inductive invariant of vformat holds in every state of the library: where the
\* loop of vformat stands in the format, and the two properties below.
THEOREM FormattingInvHolds == LibrarySpec => []FormattingInv
<1>1. LibraryInit => FormattingInv
  BY FormatInitIsInv DEF LibraryInit
<1>2. FormattingInv /\ [LibraryNext]_<<vars, formatVars>> => FormattingInv'
  <2>1. [LibraryNext]_<<vars, formatVars>> => [FormatNext]_formatVars
    BY Zenon DEF LibraryNext
  <2> QED BY <2>1, FormattingInvInductive, Zenon
<1> QED BY <1>1, <1>2, PTL DEF LibrarySpec

\* format_number and format_number_i64 write every number of every width so that it
\* reads back, with all its digits in hexadecimal and binary, and their buffer is
\* large enough; but of the least signed number, whose negation is undefined, nothing
\* is said.
THEOREM WrittenNumbersReadBack == LibrarySpec => []NumbersReadBack
  BY FormattingInvHolds, PTL DEF FormattingInv

\* vformat takes its arguments with va_arg one for each conversion, in their order and
\* with the type of the specifier, for every format.
THEOREM ArgumentsAreInOrder == LibrarySpec => []ArgumentsInOrder
  BY FormattingInvHolds, PTL DEF FormattingInv

=============================================================================
