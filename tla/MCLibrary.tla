----------------------------- MODULE MCLibrary -----------------------------
(***************************************************************************)
(* Five bytes of three values and arguments of memset inside and outside   *)
(* the range of a byte; every format of up to four characters over a small *)
(* alphabet, every conversion of a number on its own, and the numbers at   *)
(* which the digits, the padding and the sign change.                      *)
(***************************************************************************)
EXTENDS Library

MCSetArgs == {-1, 1, 4}

SmallFormats ==
  UNION {[1 .. n -> {"a", "%", "x", "i", "S"}] : n \in 0 .. 4} \cup {<<"%", "s", "%", "U">>}

Conversion == {<<"%">>, <<"%", "x">>, <<"%", "b">>}

MCFormats == SmallFormats \cup {Append(c, s) : c \in Conversion, s \in NumberSpecifiers}

MCNumbers == {0, 9, 10, 15, 16, 100, 127, 128, 255}

MCStrings == {<<>>, <<"%", "t">>}

=============================================================================
