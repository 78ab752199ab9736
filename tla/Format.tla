------------------------------- MODULE Format -------------------------------
(***************************************************************************)
(* Formatted output and logging: vformat step by step over a format string *)
(* and the arguments it takes from the caller, numbers in the three bases  *)
(* it knows, and the log line of logger_printf, which is made by three     *)
(* calls.  Characters are TLA+ strings; the fixed messages of vformat are  *)
(* one character each.                                                     *)
(***************************************************************************)
EXTENDS Integers, Sequences, Functions

CONSTANTS
  Width,     \* bits of a number (64)
  Formats,   \* format strings of callers
  Numbers,   \* arguments, as bit patterns of Width bits
  Strings    \* arguments of type String, and the characters of C strings

\* 2 ^ n, by doubling.
TwoTo[n \in 0 .. Width] == IF n = 0 THEN 1 ELSE 2 * TwoTo[n - 1]

ASSUME FormatConstants ==
  /\ Width \in Nat /\ Width >= 8 /\ Width % 4 = 0
  /\ Numbers \subseteq 0 .. TwoTo[Width] - 1
  /\ \A f \in Formats : f \in Seq(Range(f))

VARIABLES
  pc,      \* where vformat is, "idle" between calls, "kassert" after a failed one
  calls,   \* calls of vformat still to be made, the running one first
  i,       \* its loop variable
  base,    \* the base of the running conversion, 0 for none
  out,     \* what the caller's stream has been given since it is running
  used,    \* arguments taken by the running call, with the output for each
  header   \* what a running log call says of itself

formatVars == <<pc, calls, i, base, out, used, header>>

NULL == <<"NULL">>
NUL == "NUL"

-----------------------------------------------------------------------------
(* Numbers                                                                 *)

\* buffer_data: 96 bytes for 64 bits.
BufferLen == (3 * Width) \div 2

HexDigits == <<"0", "1", "2", "3", "4", "5", "6", "7", "8", "9", "A", "B", "C", "D", "E", "F">>

format_digit(value) == HexDigits[value + 1]

\* What is left of the value after each division.
Quotients(value, b) ==
  LET q[k \in 0 .. Width] == IF k = 0 THEN value ELSE q[k - 1] \div b IN q

\* The loop tests after a division, so that zero has one digit.
DigitCount(value, b) ==
  LET q == Quotients(value, b)
  IN  CHOOSE n \in 1 .. Width : q[n] = 0 /\ \A k \in 1 .. n - 1 : q[k] > 0

\* The digits from the last to the first.
Digits(value, b) ==
  LET q == Quotients(value, b)
  IN  [k \in 1 .. DigitCount(value, b) |-> format_digit(q[k - 1] % b)]

\* Hexadecimal and binary numbers have all their digits.
LeftZeros(b, n) ==
  CASE b = 16 -> [k \in 1 .. (Width \div 4) - n |-> "0"]
    [] b = 2  -> [k \in 1 .. Width - n |-> "0"]
    [] OTHER  -> <<>>

\* Swapping from both ends until they meet.
bytes_reverse(b) == [k \in DOMAIN b |-> b[Len(b) + 1 - k]]

Prefix(b) == CASE b = 2 -> <<"0", "b">> [] b = 8 -> <<"0", "o">> [] b = 16 -> <<"0", "x">>
               [] OTHER -> <<>>

\* What ends up in the buffer, before it is reversed.
NumberBuffer(value, is_signed, b) ==
  LET digits == Digits(value, b)
  IN  digits \o LeftZeros(b, Len(digits)) \o (IF is_signed THEN <<"-">> ELSE <<>>)

\* The kassert of bytes_set fails.
Overrun == <<"kassert">>

\* A base of 0 is 10.
format_number(value, is_signed, b0) ==
  LET b == IF b0 = 0 THEN 10 ELSE b0
      buffer == NumberBuffer(value, is_signed, b)
  IN  IF Len(buffer) > BufferLen THEN Overrun ELSE Prefix(b) \o bytes_reverse(buffer)

\* The least I64; its negation overflows.
LeastI64 == TwoTo[Width - 1]

\* What -value may be, of a negative value.  The overflow is undefined in C, and the
\* kernel is not built with -fwrapv: any number may come of it.
Negations(value) == IF value = LeastI64 THEN Numbers ELSE {TwoTo[Width] - value}

\* Bug variant: the value is not negated.
FormatI64NoNegation(value, b) == {format_number(value, value >= LeastI64, b)}

\* What it may write.
format_number_i64(value, b) ==
  IF value < LeastI64 THEN {format_number(value, FALSE, b)}
  ELSE {format_number(v, TRUE, b) : v \in Negations(value)}

\* A C string is its characters, with a NUL at its end.
string_from_char(s) ==
  IF s = NULL THEN <<>>
  ELSE LET len == CHOOSE n \in 0 .. Len(s) - 1 :
                    s[n + 1] = NUL /\ \A k \in 1 .. n : s[k] # NUL
       IN  SubSeq(s, 1, len)

-----------------------------------------------------------------------------
(* vformat                                                                 *)

Fmt == Head(calls).format

\* string_get, with the index counting from zero; its kassert is AtEnd.
Char == Fmt[i + 1]
AtEnd == i >= Len(Fmt)

NumberSpecifiers == {"p", "i", "u", "I", "U"}
Specifiers == NumberSpecifiers \cup {"s", "S"}

CStrings == {Append(s, NUL) : s \in Strings} \cup {NULL}

\* va_arg: the next of the arguments that are known, or any of its type.
Arguments(spec) ==
  IF Head(calls).args # <<>> THEN {Head(calls).args[Len(used) + 1]}
  ELSE CASE spec \in NumberSpecifiers -> Numbers
         [] spec = "s" -> Strings
         [] spec = "S" -> CStrings

\* What the conversion of an argument may write.
Written(spec, arg) ==
  CASE spec = "p"          -> {format_number(arg, FALSE, IF base = 0 THEN 16 ELSE base)}
    [] spec \in {"i", "I"} -> format_number_i64(arg, base)
    [] spec \in {"u", "U"} -> {format_number(arg, FALSE, base)}
    [] spec = "s"          -> {arg}
    [] spec = "S"          -> {string_from_char(arg)}

\* stream_write of some characters; the loop goes on with the next one.
Write(chars) ==
  /\ out' = out \o chars
  /\ pc' = IF chars = Overrun THEN "kassert" ELSE "for"
  /\ i' = i + 1
  /\ UNCHANGED <<calls, base, header>>

Literal ==
  /\ pc = "for" /\ ~ AtEnd /\ Char # "%"
  /\ Write(<<Char>>)
  /\ UNCHANGED used

Percent ==
  /\ pc = "for" /\ ~ AtEnd /\ Char = "%"
  /\ i' = i + 1 /\ base' = 0 /\ pc' = "percent"
  /\ UNCHANGED <<calls, out, used, header>>

\* The format ends after the percent sign, or after the base.
OutOfBounds ==
  /\ pc \in {"percent", "base"} /\ AtEnd
  /\ Write(<<IF pc = "percent" THEN "%(<out of bounds>)" ELSE "%x(<out of bounds>)">>)
  /\ UNCHANGED used

Base ==
  /\ pc = "percent" /\ ~ AtEnd /\ Char \in {"x", "b"}
  /\ base' = (IF Char = "x" THEN 16 ELSE 2)
  /\ i' = i + 1 /\ pc' = "base"
  /\ UNCHANGED <<calls, out, used, header>>

\* After a base, another x or b is a specifier, though none that is known.
AtSpecifier ==
  /\ pc \in {"percent", "base"} /\ ~ AtEnd
  /\ pc = "percent" => Char \notin {"x", "b"}

Convert ==
  /\ AtSpecifier /\ Char \in Specifiers
  /\ \E arg \in Arguments(Char) : \E chars \in Written(Char, arg) :
       /\ Write(chars)
       /\ used' = Append(used, [spec |-> Char, base |-> base, arg |-> arg, chars |-> chars])

\* Bug variant: continue in place of return.
UnsupportedGoesOn ==
  /\ AtSpecifier /\ Char \notin Specifiers
  /\ Write(<<"%(<unsupported format specifier>)">>)
  /\ UNCHANGED used

Unsupported ==
  /\ AtSpecifier /\ Char \notin Specifiers
  /\ out' = Append(out, "%(<unsupported format specifier>)")
  /\ pc' = "return"
  /\ UNCHANGED <<calls, i, base, used, header>>

EndOfFormat ==
  /\ pc = "for" /\ AtEnd
  /\ pc' = "return"
  /\ UNCHANGED <<calls, i, base, out, used, header>>

-----------------------------------------------------------------------------
(* The callers                                                             *)

Call(format, args) == [format |-> format, args |-> args]

BeginCalls(cs, h) ==
  /\ pc = "idle"
  /\ calls' = cs /\ header' = h /\ pc' = "for"
  /\ UNCHANGED <<i, base, out, used>>

\* format and printf
printf(format) == BeginCalls(<<Call(format, <<>>)>>, <<>>)

\* "%S: %S - %S:%i - "
HeaderFormat ==
  <<"%", "S", ":", " ", "%", "S", " ", "-", " ", "%", "S", ":", "%", "i", " ", "-", " ">>

\* The header, the message and the end of the line are three calls.
logger_printf(format, h) ==
  BeginCalls(<<Call(HeaderFormat, h), Call(format, <<>>), Call(<<"\n">>, <<>>)>>, h)

\* vformat returns; the caller goes on with its next call or is done.
EndCall ==
  /\ pc = "return"
  /\ calls' = Tail(calls)
  /\ i' = 0 /\ base' = 0 /\ used' = <<>>
  /\ IF Len(calls) > 1 THEN pc' = "for" /\ UNCHANGED <<out, header>>
     ELSE pc' = "idle" /\ out' = <<>> /\ header' = <<>>

\* Subsystem (none is NULL), level, file and line of a log call.
Headers ==
  {<<subsystem, <<"W", NUL>>, <<"f", ".", "c", NUL>>, n>> :
     subsystem \in {NULL, <<"I", "D", "T", NUL>>}, n \in {57}}

FormatInit ==
  /\ pc = "idle" /\ calls = <<>>
  /\ i = 0 /\ base = 0
  /\ out = <<>> /\ used = <<>> /\ header = <<>>

FormatNext ==
  \/ \E format \in Formats :
       printf(format) \/ \E h \in Headers : logger_printf(format, h)
  \/ Literal \/ Percent \/ OutOfBounds \/ Base \/ Convert \/ Unsupported \/ EndOfFormat
  \/ EndCall

-----------------------------------------------------------------------------
(* Correctness properties                                                  *)

\* What a reader makes of a written number: base, sign, digits.
ReadBack(chars, b) ==
  LET body     == SubSeq(chars, Len(Prefix(b)) + 1, Len(chars))
      negative == body[1] = "-"
      digits   == IF negative THEN Tail(body) ELSE body
      DigitOf(c) == CHOOSE d \in 0 .. b - 1 : HexDigits[d + 1] = c
      read[k \in 0 .. Len(digits)] == IF k = 0 THEN 0 ELSE read[k - 1] * b + DigitOf(digits[k])
      value    == read[Len(digits)]
  IN  [prefix |-> SubSeq(chars, 1, Len(Prefix(b))),
       value |-> IF negative THEN -value ELSE value, length |-> Len(digits)]

\* Every number that has been written reads back as the argument, in the base that
\* its prefix names, at full length in hexadecimal and binary; signed arguments as
\* the signed number.  Of the least signed number nothing is said: format_number_i64
\* negates it, which C leaves undefined.
NumbersReadBack ==
  \A k \in DOMAIN used :
    LET u == used[k]
        b == IF u.base # 0 THEN u.base ELSE IF u.spec = "p" THEN 16 ELSE 10
        r == ReadBack(u.chars, b)
        signed == u.spec \in {"i", "I"}
    IN  u.spec \in NumberSpecifiers /\ ~ (signed /\ u.arg = LeastI64) =>
          /\ r.prefix = Prefix(b)
          /\ r.value = IF signed /\ u.arg > LeastI64
                       THEN u.arg - TwoTo[Width] ELSE u.arg
          /\ b = 16 => r.length = Width \div 4
          /\ b = 2 => r.length = Width

\* The positions of the conversions in the part of the format that has been read.
Conversions ==
  {k \in DOMAIN Fmt : /\ k <= i /\ k > 1 /\ Fmt[k] \in Specifiers
                      /\ \/ Fmt[k - 1] = "%"
                         \/ k > 2 /\ Fmt[k - 1] \in {"x", "b"} /\ Fmt[k - 2] = "%"}

\* Arguments are taken one for each conversion, in their order, with the type the
\* specifier names; after a format that is not understood none is taken.
ArgumentsInOrder ==
  calls # <<>> =>
    \E at \in [DOMAIN used -> Conversions] :
      /\ \A j, k \in DOMAIN used : j < k => at[j] < at[k]
      /\ \A c \in Conversions : \E k \in DOMAIN used : at[k] = c
      /\ \A k \in DOMAIN used : used[k].spec = Fmt[at[k]]

=============================================================================
