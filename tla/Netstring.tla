----------------------------- MODULE Netstring ------------------------------
(***************************************************************************)
(* Netstrings, as sequences of characters: what one is, and what           *)
(* ParseNetstring() makes of an input.                                     *)
(***************************************************************************)
EXTENDS SequencesExt

DigitChars == <<"0", "1", "2", "3", "4", "5", "6", "7", "8", "9">>

(* The decimal representation of n.                                        *)
Decimal[n \in Nat] ==
  IF n < 10 THEN <<DigitChars[n + 1]>>
            ELSE Append(Decimal[n \div 10], DigitChars[(n % 10) + 1])

Netstring(value) == Decimal[Len(value)] \o <<":">> \o value \o <<",">>

-----------------------------------------------------------------------------
DigitValue(c) == CHOOSE d \in 0..9 : DigitChars[d + 1] = c

(* Digits to a number.  std::size_t never overflows here: a length that    *)
(* large is refused in any case, being longer than the input.              *)
Number(digits) ==
  LET n[i \in 0..Len(digits)] ==
        IF i = 0 THEN 0 ELSE 10 * n[i - 1] + DigitValue(digits[i])
  IN  n[Len(digits)]

(* Mutant: the leading zeroes are not looked for.                          *)
LengthAnyZeroes(digits) ==
  digits # << >> /\ Range(digits) \subseteq Range(DigitChars)

(* Is this accepted as a length?  Zero may have more than one digit.       *)
Length(digits) ==
  /\ digits # << >>
  /\ Range(digits) \subseteq Range(DigitChars)
  /\ ~(Number(digits) > 0 /\ Head(digits) = "0")

(* ParseNetstring(): the value at the start of the input and the rest of   *)
(* it, or nothing.                                                         *)
ParseNetstring(input) ==
  LET colon == SelectInSeq(input, LAMBDA c : c = ":")
      digits == SubSeq(input, 1, colon - 1)
      rest == SubSeq(input, colon + 1, Len(input))
      size == Number(digits)
  IN  IF colon > 0 /\ Length(digits) /\ size < Len(rest) /\ rest[size + 1] = ","
      THEN {[value |-> SubSeq(rest, 1, size),
             rest |-> SubSeq(rest, size + 2, Len(rest))]}
      ELSE {}
=============================================================================
