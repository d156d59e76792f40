------------------------------ MODULE Strings ------------------------------
(***************************************************************************)
(* The conversions of src/io/vgaio/vgaio.c that end up on the screen, as   *)
(* operators on sequences of characters.  All of them build their result   *)
(* in heap blocks that are never freed.                                    *)
(***************************************************************************)
EXTENDS Integers, SequencesExt

CONSTANTS
    Digits,     \* the ten decimal digits, the one for zero first
    HexDigits   \* the sixteen hexadecimal ones

ASSUME DigitsAssumption ==
    /\ Digits \in Seq(STRING) /\ Len(Digits) > 1 /\ IsInjective(Digits)
    /\ HexDigits \in Seq(STRING) /\ Len(HexDigits) > 1 /\ IsInjective(HexDigits)

\* The digits of n as the loops of inttostr and hex produce them, the lowest first.
LowestFirst(n, digits) ==
    LET rest[m \in Nat] ==
            IF m = 0 THEN <<>>
            ELSE <<digits[(m % Len(digits)) + 1]>> \o rest[m \div Len(digits)]
    IN  rest[n]

\* Mutant: the digits stay in the order in which the loop has found them.
inttostr_Unreversed(n) ==
    IF n = 0 THEN <<Head(Digits)>> ELSE LowestFirst(n, Digits)

inttostr(n) ==
    IF n = 0 THEN <<Head(Digits)>>
    ELSE Reverse(LowestFirst(IF n < 0 THEN -n ELSE n, Digits)
                 \o (IF n < 0 THEN <<"-">> ELSE <<>>))

\* hex ends its buffer with nothing: what happens to lie behind the digits, up to
\* the next zero byte, is turned round together with them.
hex(n, behind) ==
    LET number == LowestFirst(n, HexDigits) \o behind
    IN  <<"0", "x">> \o (IF n = 0 \/ Len(number) = 1 THEN <<"0">> ELSE <<>>)
                     \o (IF n = 0 THEN <<"0">> ELSE Reverse(number))

\* The number that a string of decimal digits denotes.
DigitOf(c) == (CHOOSE k \in DOMAIN Digits : Digits[k] = c) - 1

Denoted(s) ==
    LET value[n \in 0..Len(s)] ==
            IF n = 0 THEN 0 ELSE value[n - 1] * Len(Digits) + DigitOf(s[n])
    IN  value[Len(s)]
=============================================================================
