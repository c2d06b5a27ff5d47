--------------------------- MODULE QmqpMailProofs ---------------------------
(***************************************************************************)
(* Theorems about QmqpMail and Netstring, for any payloads, addresses,     *)
(* header lines and limits: QmqpMail::Parse() accepts a payload if and     *)
(* only if it is the encoding of a mail whose addresses and number of      *)
(* recipients are admitted (or one that "00:," sets apart), finds in it    *)
(* what the mail was made of, and what BasicRelay puts together for the    *)
(* next hop is the encoding of that mail again, with the edits of the      *)
(* script.                                                                 *)
(*                                                                         *)
(* Soundness (Accepted, Relayed) is by an inductive invariant which says   *)
(* that the payload is the encoding of what was found so far, followed by  *)
(* what is left. Completeness (EveryMailUnderstood) is by one that says,   *)
(* of a payload that encodes a given mail, how far Parse() has come in it. *)
(*                                                                         *)
(* Before them come facts about the functions on sequences that the model  *)
(* is built from. Induction over the numbers is in the form of least       *)
(* elements of sets, and a recursive function is what it should be because *)
(* one that satisfies its equation exists.                                 *)
(***************************************************************************)
EXTENDS MCQmqpMail, SequenceTheorems, WellFoundedInduction, TLAPS

-----------------------------------------------------------------------------
(* Induction over the natural numbers, and functions defined by recursion. *)

(* The order of the numbers, which is well-founded.                        *)
Less == {pair \in Nat \X Nat : pair[1] < pair[2]}

(* A set of numbers that is not empty has a least element.                 *)
LEMMA NatMin ==
  ASSUME NEW T, T \subseteq Nat, T # {}
  PROVE  \E n \in T : \A m \in T : n <= m
<1>1. IsWellFoundedOn(Less, Nat)
  BY NatLessThanWellFounded DEF OpToRel, Less
<1>2. PICK n \in T : \A m \in T : <<m, n>> \notin Less
  BY <1>1, WFMin, Zenon
<1>3. ASSUME NEW m \in T PROVE n <= m
  <2>1. m \in Nat /\ n \in Nat
    OBVIOUS
  <2>2. <<m, n>> \notin Less
    BY <1>2
  <2>3. ~ (m < n)
    BY <2>1, <2>2 DEF Less
  <2> QED BY <2>1, <2>3
<1> QED BY <1>2, <1>3

(* Induction, over membership in a set.                                    *)
LEMMA Induction ==
  ASSUME NEW T, 0 \in T, \A n \in Nat : n \in T => n + 1 \in T
  PROVE  \A n \in Nat : n \in T
<1> DEFINE U == Nat \ T
<1>1. SUFFICES ASSUME U # {} PROVE FALSE
  OBVIOUS
<1>2. PICK n \in U : \A m \in U : n <= m
  BY <1>1, NatMin
<1>3. n \in Nat \ {0} /\ n - 1 \in Nat /\ n - 1 \notin U
  BY <1>2
<1> QED BY <1>2, <1>3

(* The same, from all smaller numbers.                                     *)
LEMMA StrongInduction ==
  ASSUME NEW T, \A n \in Nat : (\A m \in 0..n-1 : m \in T) => n \in T
  PROVE  \A n \in Nat : n \in T
<1> DEFINE U == Nat \ T
<1>1. SUFFICES ASSUME U # {} PROVE FALSE
  OBVIOUS
<1>2. PICK n \in U : \A m \in U : n <= m
  BY <1>1, NatMin
<1>3. \A m \in 0..n-1 : m \in T
  BY <1>2
<1> QED BY <1>2, <1>3

(* g has the first n values of the iteration of a step that starts with    *)
(* base.                                                                   *)
Iterates(g, n, S, base, step) ==
  /\ g \in [0..n -> S]
  /\ g[0] = base
  /\ \A i \in 0..n-1 : g[i + 1] = step[<<g[i], i>>]

(* Two of them agree as far as both go.                                    *)
LEMMA IteratesAgree ==
  ASSUME NEW S, NEW base \in S, NEW step \in [S \X Nat -> S],
         NEW n \in Nat, NEW m \in Nat, n <= m,
         NEW g, Iterates(g, n, S, base, step), NEW h, Iterates(h, m, S, base, step)
  PROVE  \A i \in 0..n : g[i] = h[i]
<1> DEFINE T == {i \in Nat : i <= n => g[i] = h[i]}
<1>1. 0 \in T
  BY DEF Iterates
<1>2. ASSUME NEW i \in Nat, i \in T PROVE i + 1 \in T
  <2>1. SUFFICES ASSUME i + 1 <= n PROVE g[i + 1] = h[i + 1]
    OBVIOUS
  <2>2. i \in 0..n-1 /\ i \in 0..m-1 /\ g[i] = h[i]
    BY <1>2, <2>1
  <2> QED BY <2>2 DEF Iterates
<1> HIDE DEF T
<1>3. \A i \in Nat : i \in T
  BY <1>1, <1>2, Induction
<1> QED BY <1>3 DEF T

(* There is one, for every n.                                              *)
LEMMA IteratesExist ==
  ASSUME NEW S, NEW base \in S, NEW step \in [S \X Nat -> S]
  PROVE  \A n \in Nat : \E g : Iterates(g, n, S, base, step)
<1> DEFINE T == {n \in Nat : \E g : Iterates(g, n, S, base, step)}
<1>1. 0 \in T
  <2>1. Iterates([i \in 0..0 |-> base], 0, S, base, step)
    BY DEF Iterates
  <2> QED BY <2>1
<1>2. ASSUME NEW n \in Nat, n \in T PROVE n + 1 \in T
  <2>1. PICK g : Iterates(g, n, S, base, step)
    BY <1>2
  <2> DEFINE h == [i \in 0..n+1 |-> IF i = n + 1 THEN step[<<g[n], n>>] ELSE g[i]]
  <2>2. g[n] \in S /\ step[<<g[n], n>>] \in S
    BY <2>1 DEF Iterates
  <2>3. h \in [0..n+1 -> S] /\ h[0] = base
    BY <2>1, <2>2 DEF Iterates
  <2>4. ASSUME NEW i \in 0..n PROVE h[i + 1] = step[<<h[i], i>>]
    <3>1. h[i] = g[i]
      OBVIOUS
    <3>2. CASE i = n
      <4>1. h[n + 1] = step[<<g[n], n>>]
        OBVIOUS
      <4> QED BY <4>1, <3>1, <3>2
    <3>3. CASE i # n
      <4>1. i \in 0..n-1 /\ h[i + 1] = g[i + 1]
        BY <3>3
      <4> QED BY <4>1, <3>1, <2>1 DEF Iterates
    <3> QED BY <3>2, <3>3
  <2>5. Iterates(h, n + 1, S, base, step)
    <3>1. (n + 1) - 1 = n
      OBVIOUS
    <3> HIDE DEF h
    <3> QED BY <2>3, <2>4, <3>1 DEF Iterates
  <2> QED BY <2>5
<1> HIDE DEF T
<1>3. \A n \in Nat : n \in T
  BY <1>1, <1>2, Induction
<1> QED BY <1>3 DEF T

(* f has all values of it.                                                 *)
Iterated(f, S, base, step) ==
  f \in [Nat -> S] /\ f[0] = base /\ \A n \in Nat : f[n + 1] = step[<<f[n], n>>]

(* A function can be defined by primitive recursion.                       *)
LEMMA Iteration ==
  ASSUME NEW S, NEW base, base \in S, NEW step, step \in [S \X Nat -> S]
  PROVE  \E f : Iterated(f, S, base, step)
<1> DEFINE G(n) == CHOOSE g : Iterates(g, n, S, base, step)
           f == [n \in Nat |-> G(n)[n]]
<1>1. ASSUME NEW n \in Nat PROVE Iterates(G(n), n, S, base, step)
  BY IteratesExist
<1> HIDE DEF G
<1>2. f \in [Nat -> S]
  BY <1>1 DEF Iterates
<1>3. f[0] = base
  BY <1>1 DEF Iterates
<1>4. ASSUME NEW n \in Nat PROVE f[n + 1] = step[<<f[n], n>>]
  <2>1. Iterates(G(n), n, S, base, step) /\ Iterates(G(n + 1), n + 1, S, base, step)
    BY <1>1
  <2>2. G(n)[n] = G(n + 1)[n]
    <3>1. n + 1 \in Nat /\ n <= n + 1 /\ n \in 0..n
      OBVIOUS
    <3>2. PICK g, h : g = G(n) /\ h = G(n + 1)
      OBVIOUS
    <3>3. Iterates(g, n, S, base, step) /\ Iterates(h, n + 1, S, base, step)
      BY <2>1, <3>2
    <3>4. \A i \in 0..n : g[i] = h[i]
      BY <3>1, <3>3, IteratesAgree
    <3> QED BY <3>1, <3>2, <3>4
  <2>3. G(n + 1)[n + 1] = step[<<G(n + 1)[n], n>>]
    BY <2>1 DEF Iterates
  <2> QED BY <2>2, <2>3
<1>5. Iterated(f, S, base, step)
  <2> HIDE DEF f
  <2> QED BY <1>2, <1>3, <1>4 DEF Iterated
<1> QED BY <1>5

-----------------------------------------------------------------------------
(* Decimal numbers: what Decimal writes, Number reads, and the other way   *)
(* round if there are no leading zeroes.                                   *)

(* The characters a length is made of.                                     *)
Digits == Range(DigitChars)

(* The two parts of a number that Decimal uses.                            *)
LEMMA DivisionByTen ==
  ASSUME NEW n \in Nat
  PROVE  /\ n \div 10 \in Nat /\ n % 10 \in 0..9
         /\ n = 10 * (n \div 10) + (n % 10)
         /\ n >= 10 => n \div 10 > 0 /\ n \div 10 < n
OBVIOUS

(* DigitValue is the inverse of DigitChars; the colon is no digit.         *)
LEMMA DigitFacts ==
  /\ ":" \notin Digits
  /\ \A d \in 0..9 : DigitChars[d + 1] \in Digits /\ DigitValue(DigitChars[d + 1]) = d
  /\ \A c \in Digits : DigitValue(c) \in 0..9 /\ DigitChars[DigitValue(c) + 1] = c
  /\ DigitChars[1] = "0"
<1>1. DOMAIN DigitChars = 1..10
  BY DEF DigitChars
<1>2. \A d \in 0..9 : DigitChars[d + 1] # ":"
  BY DEF DigitChars
<1>3. \A d, e \in 0..9 : DigitChars[d + 1] = DigitChars[e + 1] => d = e
  BY DEF DigitChars
<1>4. DigitChars[1] = "0"
  BY DEF DigitChars
<1> HIDE DEF DigitChars
<1>5. \A c \in Digits : \E d \in 0..9 : c = DigitChars[d + 1]
  <2>1. SUFFICES ASSUME NEW i \in 1..10 PROVE \E d \in 0..9 : DigitChars[i] = DigitChars[d + 1]
    BY <1>1 DEF Digits, Range
  <2>2. i - 1 \in 0..9 /\ i = (i - 1) + 1
    OBVIOUS
  <2> QED BY <2>2
<1>6. \A d \in 0..9 : DigitChars[d + 1] \in Digits
  BY <1>1 DEF Digits, Range
<1>7. \A d \in 0..9 : DigitValue(DigitChars[d + 1]) = d
  BY <1>3 DEF DigitValue
<1> QED BY <1>2, <1>4, <1>5, <1>6, <1>7

(* The equation of Decimal.                                                *)
DecimalStep(f, n) ==
  IF n < 10 THEN <<DigitChars[n + 1]>>
            ELSE Append(f[n \div 10], DigitChars[(n % 10) + 1])

(* It has a solution, whose recursion is over smaller numbers and not over *)
(* the predecessor: the functions on 0..n are iterated, and their last     *)
(* values taken.                                                           *)
LEMMA DecimalExists ==
  \E f \in [Nat -> Seq(Digits)] : \A n \in Nat : f[n] = DecimalStep(f, n)
<1> DEFINE S == [Nat -> Seq(Digits)]
           base == [n \in Nat |-> << >>]
           Step(f) == [n \in Nat |-> DecimalStep(f, n)]
           step == [p \in S \X Nat |-> Step(p[1])]
<1>1. base \in S
  OBVIOUS
<1>2. ASSUME NEW f \in S PROVE Step(f) \in S
  <2>1. ASSUME NEW n \in Nat PROVE DecimalStep(f, n) \in Seq(Digits)
    <3>1. CASE n < 10
      <4>1. n \in 0..9
        BY <3>1
      <4>2. DigitChars[n + 1] \in Digits
        BY <4>1, DigitFacts
      <4> QED BY <3>1, <4>2 DEF DecimalStep
    <3>2. CASE n >= 10
      <4>1. f[n \div 10] \in Seq(Digits) /\ DigitChars[(n % 10) + 1] \in Digits
        BY DivisionByTen, DigitFacts
      <4> QED BY <3>2, <4>1 DEF DecimalStep
    <3> QED BY <3>1, <3>2
  <2> QED BY <2>1
<1>3. step \in [S \X Nat -> S]
  BY <1>2
<1>4. PICK F \in [Nat -> S] :
        F[0] = base /\ \A k \in Nat : F[k + 1] = step[<<F[k], k>>]
  <2> HIDE DEF base, step, S
  <2>1. PICK F : Iterated(F, S, base, step)
    BY <1>1, <1>3, Iteration, Zenon
  <2> QED BY <2>1 DEF Iterated
<1>5. \A k \in Nat, n \in Nat : F[k + 1][n] = DecimalStep(F[k], n)
  <2>1. SUFFICES ASSUME NEW k \in Nat, NEW n \in Nat
                 PROVE  F[k + 1][n] = DecimalStep(F[k], n)
    OBVIOUS
  <2>2. F[k] \in S /\ <<F[k], k>> \in S \X Nat
    OBVIOUS
  <2>3. F[k + 1] = Step(F[k])
    BY <1>4, <2>2
  <2> QED BY <2>3
<1> HIDE DEF step, base, Step
<1> DEFINE T == {k \in Nat : \A n \in 0..k : F[k + 2][n] = F[k + 1][n]}
<1>6. ASSUME NEW k \in Nat, \A j \in 0..k-1 : j \in T PROVE k \in T
  <2>1. SUFFICES ASSUME NEW n \in 0..k PROVE F[k + 2][n] = F[k + 1][n]
    OBVIOUS
  <2>2. F[k + 2][n] = DecimalStep(F[k + 1], n) /\ F[k + 1][n] = DecimalStep(F[k], n)
    <3>1. k + 1 \in Nat /\ (k + 1) + 1 = k + 2 /\ n \in Nat
      OBVIOUS
    <3> QED BY <1>5, <3>1
  <2>3. n >= 10 => F[k + 1][n \div 10] = F[k][n \div 10]
    <3>1. SUFFICES ASSUME n >= 10 PROVE F[k + 1][n \div 10] = F[k][n \div 10]
      OBVIOUS
    <3>2. k - 1 \in 0..k-1 /\ n \div 10 \in 0..k-1 /\ (k - 1) + 1 = k /\ (k - 1) + 2 = k + 1
      BY <3>1, DivisionByTen
    <3>3. k - 1 \in T
      BY <1>6, <3>2
    <3> QED BY <3>2, <3>3
  <2> QED BY <2>2, <2>3 DEF DecimalStep
<1> HIDE DEF T
<1>7. \A k \in Nat : k \in T
  BY <1>6, StrongInduction
<1>8. ASSUME NEW n \in Nat PROVE \A j \in Nat : F[n + j + 1][n] = F[n + 1][n]
  <2> DEFINE U == {j \in Nat : F[n + j + 1][n] = F[n + 1][n]}
  <2>1. 0 \in U
    OBVIOUS
  <2>2. ASSUME NEW j \in Nat, j \in U PROVE j + 1 \in U
    <3>1. n + j \in Nat /\ n \in 0..(n + j)
      OBVIOUS
    <3>2. n + j \in T
      BY <1>7, <3>1
    <3>3. F[(n + j) + 2][n] = F[(n + j) + 1][n]
      BY <3>1, <3>2 DEF T
    <3>4. (n + j) + 2 = n + (j + 1) + 1
      OBVIOUS
    <3> QED BY <2>2, <3>3, <3>4
  <2> HIDE DEF U
  <2>3. \A j \in Nat : j \in U
    BY <2>1, <2>2, Induction
  <2> QED BY <2>3 DEF U
<1> DEFINE f == [n \in Nat |-> F[n + 1][n]]
<1>9. f \in [Nat -> Seq(Digits)]
  <2>1. ASSUME NEW n \in Nat PROVE F[n + 1][n] \in Seq(Digits)
    <3>1. F[n + 1] \in S
      OBVIOUS
    <3> QED BY <3>1
  <2> QED BY <2>1
<1>10. ASSUME NEW n \in Nat PROVE f[n] = DecimalStep(f, n)
  <2>1. f[n] = DecimalStep(F[n], n)
    BY <1>5
  <2>2. n >= 10 => f[n \div 10] = F[n][n \div 10]
    <3>1. SUFFICES ASSUME n >= 10 PROVE f[n \div 10] = F[n][n \div 10]
      OBVIOUS
    <3> DEFINE m == n \div 10
               j == n - 1 - m
    <3>2. m \in Nat /\ j \in Nat /\ m + j + 1 = n
      BY <3>1, DivisionByTen
    <3>3. F[m + j + 1][m] = F[m + 1][m]
      BY <1>8, <3>2
    <3>4. f[m] = F[m + 1][m]
      BY <3>2
    <3> QED BY <3>2, <3>3, <3>4
  <2> HIDE DEF f
  <2> QED BY <2>1, <2>2 DEF DecimalStep
<1> HIDE DEF f
<1> QED BY <1>9, <1>10

(* A sequence of one.                                                      *)
LEMMA Singleton ==
  ASSUME NEW S, NEW x \in S
  PROVE  <<x>> \in Seq(S) /\ Len(<<x>>) = 1 /\ <<x>>[1] = x
OBVIOUS

(* The type and length of an extended sequence.                            *)
LEMMA Appended ==
  ASSUME NEW S, NEW s \in Seq(S), NEW x \in S
  PROVE  Append(s, x) \in Seq(S) /\ Len(Append(s, x)) = Len(s) + 1
OBVIOUS

(* So Decimal satisfies it.                                                *)
LEMMA DecimalEquation ==
  \A n \in Nat : Decimal[n] \in Seq(Digits) /\ Decimal[n] = DecimalStep(Decimal, n)
<1>1. PICK f \in [Nat -> Seq(Digits)] : \A n \in Nat : f[n] = DecimalStep(f, n)
  BY DecimalExists
<1>2. f = [n \in Nat |-> IF n < 10 THEN <<DigitChars[n + 1]>>
                         ELSE Append(f[n \div 10], DigitChars[(n % 10) + 1])]
  BY <1>1 DEF DecimalStep
<1>3. Decimal = [n \in Nat |-> IF n < 10 THEN <<DigitChars[n + 1]>>
                         ELSE Append(Decimal[n \div 10], DigitChars[(n % 10) + 1])]
  BY <1>2 DEF Decimal
<1>4. \A n \in Nat : Decimal[n] = DecimalStep(Decimal, n)
  BY <1>3 DEF DecimalStep
<1> DEFINE T == {n \in Nat : Decimal[n] \in Seq(Digits)}
<1>5. ASSUME NEW n \in Nat, \A m \in 0..n-1 : m \in T PROVE n \in T
  <2>1. CASE n < 10
    <3>1. n \in 0..9
      BY <2>1
    <3>2. DigitChars[n + 1] \in Digits
      BY <3>1, DigitFacts
    <3>3. Decimal[n] = <<DigitChars[n + 1]>>
      BY <2>1, <1>4 DEF DecimalStep
    <3>4. Decimal[n] \in Seq(Digits)
      BY <3>2, <3>3, Singleton
    <3> QED BY <3>4
  <2>2. CASE n >= 10
    <3>1. n \div 10 \in 0..n-1 /\ n % 10 \in 0..9
      BY <2>2, DivisionByTen
    <3>2. Decimal[n \div 10] \in Seq(Digits) /\ DigitChars[(n % 10) + 1] \in Digits
      BY <1>5, <3>1, DigitFacts
    <3>3. Decimal[n] = Append(Decimal[n \div 10], DigitChars[(n % 10) + 1])
      <4>1. ~ (n < 10)
        BY <2>2
      <4> QED BY <4>1, <1>4 DEF DecimalStep
    <3>4. Decimal[n] \in Seq(Digits)
      BY <3>2, <3>3, Appended
    <3> QED BY <3>4
  <2> QED BY <2>1, <2>2
<1> HIDE DEF T
<1>6. \A n \in Nat : n \in T
  BY <1>5, StrongInduction
<1> QED BY <1>4, <1>6 DEF T

(* Shifting a number by a digit gives a number.                            *)
LEMMA ShiftedIsNat ==
  ASSUME NEW n \in Nat, NEW d \in 0..9
  PROVE  10 * n + d \in Nat
OBVIOUS

(* The equation of the function within Number.                             *)
Values(digits, n) ==
  /\ n \in [0..Len(digits) -> Nat]
  /\ n[0] = 0
  /\ \A i \in 1..Len(digits) : n[i] = 10 * n[i - 1] + DigitValue(digits[i])

(* Number is the last value of a solution.                                 *)
LEMMA NumberExists ==
  ASSUME NEW digits \in Seq(Digits)
  PROVE  \E n : Values(digits, n) /\ Number(digits) = n[Len(digits)]
<1> DEFINE value(i) == IF i + 1 \in 1..Len(digits) THEN DigitValue(digits[i + 1]) ELSE 0
           step == [p \in Nat \X Nat |-> 10 * p[1] + value(p[2])]
<1>1. \A i \in Nat : value(i) \in Nat
  BY DigitFacts
<1>2. step \in [Nat \X Nat -> Nat]
  <2> HIDE DEF value
  <2>1. ASSUME NEW p \in Nat \X Nat PROVE 10 * p[1] + value(p[2]) \in Nat
    <3>1. p[1] \in Nat /\ value(p[2]) \in Nat
      BY <1>1
    <3> QED BY <3>1
  <2> QED BY <2>1
<1>3. PICK f \in [Nat -> Nat] : f[0] = 0 /\ \A i \in Nat : f[i + 1] = step[<<f[i], i>>]
  <2> HIDE DEF step
  <2>1. 0 \in Nat
    OBVIOUS
  <2>2. PICK f : Iterated(f, Nat, 0, step)
    BY <1>2, <2>1, Iteration, Zenon
  <2> QED BY <2>2 DEF Iterated
<1> DEFINE g == [i \in 0..Len(digits) |-> f[i]]
<1>4. ASSUME NEW i \in 1..Len(digits) PROVE g[i] = 10 * g[i - 1] + DigitValue(digits[i])
  <2>1. i - 1 \in Nat /\ (i - 1) + 1 = i /\ f[i - 1] \in Nat
    OBVIOUS
  <2>2. f[i] = step[<<f[i - 1], i - 1>>]
    BY <1>3, <2>1
  <2>3. step[<<f[i - 1], i - 1>>] = 10 * f[i - 1] + DigitValue(digits[i])
    BY <2>1
  <2> QED BY <2>1, <2>2, <2>3
<1> DEFINE body(h) == [i \in 0..Len(digits) |->
                         IF i = 0 THEN 0 ELSE 10 * h[i - 1] + DigitValue(digits[i])]
           n == CHOOSE h : h = body(h)
<1>5. g = body(g)
  <2>1. g[0] = 0
    BY <1>3
  <2>2. g = [i \in 0..Len(digits) |-> g[i]]
    OBVIOUS
  <2>3. ASSUME NEW i \in 0..Len(digits)
        PROVE  g[i] = IF i = 0 THEN 0 ELSE 10 * g[i - 1] + DigitValue(digits[i])
    <3>1. CASE i = 0
      BY <2>1, <3>1
    <3>2. CASE i # 0
      <4>1. i \in 1..Len(digits)
        BY <3>2
      <4>2. g[i] = 10 * g[i - 1] + DigitValue(digits[i])
        BY <1>4, <4>1
      <4> HIDE DEF g
      <4> QED BY <3>2, <4>2
    <3> HIDE DEF g
    <3> QED BY <3>1, <3>2
  <2> HIDE DEF g
  <2> QED BY <2>2, <2>3
<1>6. n = body(n)
  <2> HIDE DEF g, body
  <2> QED BY <1>5
<1>7. n[0] = 0 /\ \A i \in 1..Len(digits) : n[i] = 10 * n[i - 1] + DigitValue(digits[i])
  <2> HIDE DEF n
  <2>1. \A i \in 0..Len(digits) :
          n[i] = IF i = 0 THEN 0 ELSE 10 * n[i - 1] + DigitValue(digits[i])
    BY <1>6
  <2>2. 0 \in 0..Len(digits) /\ 1..Len(digits) \subseteq 0..Len(digits) \ {0}
    OBVIOUS
  <2> QED BY <2>1, <2>2
<1>8. Number(digits) = n[Len(digits)]
  BY DEF Number
<1> HIDE DEF n
<1> DEFINE T == {i \in Nat : i <= Len(digits) => n[i] \in Nat}
<1>9. 0 \in T
  BY <1>7
<1>10. ASSUME NEW i \in Nat, i \in T PROVE i + 1 \in T
  <2>1. SUFFICES ASSUME i + 1 <= Len(digits) PROVE n[i + 1] \in Nat
    OBVIOUS
  <2>2. i + 1 \in 1..Len(digits) /\ (i + 1) - 1 = i /\ n[i] \in Nat
    BY <1>10, <2>1
  <2>3. DigitValue(digits[i + 1]) \in 0..9
    <3>1. digits[i + 1] \in Digits
      BY <2>2
    <3> QED BY <3>1, DigitFacts
  <2>4. n[i + 1] = 10 * n[i] + DigitValue(digits[i + 1])
    BY <2>2, <1>7
  <2>5. 10 * n[i] + DigitValue(digits[i + 1]) \in Nat
    BY <2>2, <2>3, ShiftedIsNat
  <2> QED BY <2>4, <2>5
<1> HIDE DEF T
<1>11. \A i \in Nat : i \in T
  BY <1>9, <1>10, Induction
<1>12. n \in [0..Len(digits) -> Nat]
  <2>1. n = [i \in 0..Len(digits) |-> n[i]]
    BY <1>6
  <2>2. \A i \in 0..Len(digits) : n[i] \in Nat
    BY <1>11 DEF T
  <2> QED BY <2>1, <2>2
<1> QED BY <1>7, <1>8, <1>12 DEF Values

(* What the digits of a length mean is a number.                           *)
LEMMA NumberIsNat ==
  ASSUME NEW digits \in Seq(Digits)
  PROVE  Number(digits) \in Nat
BY NumberExists DEF Values

(* No digits are zero.                                                     *)
LEMMA NumberOfNone == Number(<< >>) = 0
<1>1. << >> \in Seq(Digits) /\ Len(<< >>) = 0
  OBVIOUS
<1> QED BY <1>1, NumberExists DEF Values

(* One more digit shifts the others.                                       *)
LEMMA NumberOfAppend ==
  ASSUME NEW digits \in Seq(Digits), NEW c \in Digits
  PROVE  Number(Append(digits, c)) = 10 * Number(digits) + DigitValue(c)
<1> DEFINE more == Append(digits, c)
<1>1. /\ more \in Seq(Digits) /\ Len(more) = Len(digits) + 1 /\ Len(digits) \in Nat
      /\ more[Len(digits) + 1] = c
      /\ \A i \in 1..Len(digits) : more[i] = digits[i]
  OBVIOUS
<1> HIDE DEF more
<1>2. PICK n : Values(digits, n) /\ Number(digits) = n[Len(digits)]
  BY NumberExists
<1>3. PICK m : Values(more, m) /\ Number(more) = m[Len(more)]
  BY <1>1, NumberExists
<1> DEFINE T == {i \in Nat : i <= Len(digits) => n[i] = m[i]}
<1>4. 0 \in T
  BY <1>2, <1>3 DEF Values
<1>5. ASSUME NEW i \in Nat, i \in T PROVE i + 1 \in T
  <2>1. SUFFICES ASSUME i + 1 <= Len(digits) PROVE n[i + 1] = m[i + 1]
    OBVIOUS
  <2>2. /\ i + 1 \in 1..Len(digits) /\ i + 1 \in 1..Len(more) /\ (i + 1) - 1 = i
        /\ n[i] = m[i]
    BY <1>1, <1>5, <2>1
  <2>3. n[i + 1] = 10 * n[i] + DigitValue(digits[i + 1])
    BY <2>2, <1>2 DEF Values
  <2>4. m[i + 1] = 10 * m[i] + DigitValue(more[i + 1])
    BY <2>2, <1>3 DEF Values
  <2> QED BY <2>2, <2>3, <2>4, <1>1
<1> HIDE DEF T
<1>6. \A i \in Nat : i \in T
  BY <1>4, <1>5, Induction
<1>7. n[Len(digits)] = m[Len(digits)]
  BY <1>1, <1>6 DEF T
<1>8. m[Len(more)] = 10 * m[Len(digits)] + DigitValue(c)
  <2>1. Len(more) \in 1..Len(more) /\ Len(more) - 1 = Len(digits)
    BY <1>1
  <2> QED BY <1>1, <2>1, <1>3 DEF Values
<1>9. Number(more) = 10 * Number(digits) + DigitValue(c)
  BY <1>2, <1>3, <1>7, <1>8
<1> QED BY <1>9 DEF more

(* The number of a single digit is its value.                              *)
LEMMA NumberOfOne ==
  ASSUME NEW c \in Digits
  PROVE  Number(<<c>>) = DigitValue(c)
<1>1. << >> \in Seq(Digits) /\ Append(<< >>, c) = <<c>>
  OBVIOUS
<1>2. Number(<<c>>) = 10 * 0 + DigitValue(c)
  BY <1>1, NumberOfNone, NumberOfAppend
<1> QED BY <1>2, DigitFacts

(* Number reads what Decimal writes, which has no leading zero unless it   *)
(* is zero itself.                                                         *)
LEMMA NumberOfDecimal ==
  \A n \in Nat : /\ Number(Decimal[n]) = n
                 /\ Len(Decimal[n]) > 0
                 /\ n > 0 => Decimal[n][1] # "0"
<1> DEFINE T == {n \in Nat : /\ Number(Decimal[n]) = n
                             /\ Len(Decimal[n]) > 0
                             /\ n > 0 => Decimal[n][1] # "0"}
<1>1. ASSUME NEW n \in Nat, \A m \in 0..n-1 : m \in T PROVE n \in T
  <2>1. CASE n < 10
    <3> DEFINE c == DigitChars[n + 1]
    <3>1. n \in 0..9
      BY <2>1
    <3>2. c \in Digits /\ DigitValue(c) = n
      BY <3>1, DigitFacts
    <3>3. Decimal[n] = <<c>>
      BY <2>1, DecimalEquation DEF DecimalStep
    <3>4. n > 0 => c # "0"
      <4>1. 0 \in 0..9 /\ 0 + 1 = 1
        OBVIOUS
      <4>2. DigitValue("0") = 0
        BY <4>1, DigitFacts
      <4> QED BY <3>2, <4>2
    <3> HIDE DEF c
    <3>5. Number(Decimal[n]) = n
      BY <3>2, <3>3, NumberOfOne
    <3> QED BY <3>3, <3>4, <3>5
  <2>2. CASE n >= 10
    <3> DEFINE m == n \div 10
               c == DigitChars[(n % 10) + 1]
    <3>1. m \in 0..n-1 /\ m > 0 /\ n % 10 \in 0..9 /\ n = 10 * m + (n % 10)
      BY <2>2, DivisionByTen
    <3>2. c \in Digits /\ DigitValue(c) = n % 10
      BY <3>1, DigitFacts
    <3>3. Decimal[n] = Append(Decimal[m], c)
      <4>1. ~ (n < 10)
        BY <2>2
      <4> QED BY <4>1, DecimalEquation DEF DecimalStep
    <3>4. Number(Decimal[m]) = m /\ Len(Decimal[m]) > 0 /\ Decimal[m][1] # "0"
      BY <1>1, <3>1
    <3> HIDE DEF m, c
    <3>5. Decimal[m] \in Seq(Digits)
      BY <3>1, DecimalEquation
    <3>6. Number(Decimal[n]) = n
      BY <3>1, <3>2, <3>3, <3>4, <3>5, NumberOfAppend
    <3>7. Len(Decimal[n]) > 0 /\ Decimal[n][1] # "0"
      BY <3>2, <3>3, <3>4, <3>5
    <3> QED BY <3>6, <3>7
  <2> QED BY <2>1, <2>2
<1> HIDE DEF T
<1>2. \A n \in Nat : n \in T
  BY <1>1, StrongInduction
<1> QED BY <1>2 DEF T

(* Decimal writes what Number reads, if there is no leading zero.          *)
LEMMA DecimalOfNumber ==
  ASSUME NEW digits \in Seq(Digits), Len(digits) > 0, digits[1] # "0"
  PROVE  Decimal[Number(digits)] = digits
<1> DEFINE prefix(i) == SubSeq(digits, 1, i)
<1>1. prefix(Len(digits)) = digits /\ Len(digits) \in Nat
  OBVIOUS
<1>2. ASSUME NEW i \in Nat, i + 1 <= Len(digits)
      PROVE  /\ prefix(i) \in Seq(Digits) /\ digits[i + 1] \in Digits
             /\ prefix(i + 1) = Append(prefix(i), digits[i + 1])
  <2>1. i + 1 \in 1..Len(digits)
    BY <1>2
  <2>2. prefix(i) \in Seq(Digits) /\ Len(prefix(i)) = i
        /\ prefix(i + 1) \in Seq(Digits) /\ Len(prefix(i + 1)) = i + 1
    BY <2>1
  <2>3. \A j \in 1..i+1 : prefix(i + 1)[j] = Append(prefix(i), digits[i + 1])[j]
    BY <2>1, <2>2
  <2> QED BY <2>1, <2>2, <2>3, SeqEqual
<1> DEFINE T == {i \in Nat : 0 < i /\ i <= Len(digits) =>
                   Number(prefix(i)) > 0 /\ Decimal[Number(prefix(i))] = prefix(i)}
<1>3. 0 \in T
  OBVIOUS
<1>4. ASSUME NEW i \in Nat, i \in T PROVE i + 1 \in T
  <2>1. SUFFICES ASSUME i + 1 <= Len(digits)
                 PROVE  /\ Number(prefix(i + 1)) > 0
                        /\ Decimal[Number(prefix(i + 1))] = prefix(i + 1)
    OBVIOUS
  <2> DEFINE c == digits[i + 1]
             v == DigitValue(c)
  <2>2. /\ prefix(i) \in Seq(Digits) /\ c \in Digits
        /\ prefix(i + 1) = Append(prefix(i), c)
    BY <1>2, <2>1
  <2>3. v \in 0..9 /\ DigitChars[v + 1] = c
    BY <2>2, DigitFacts
  <2>4. CASE i = 0
    <3>1. prefix(i) = << >> /\ prefix(i + 1) = <<c>>
      <4>1. Len(prefix(i)) = 0
        BY <2>4
      <4>2. prefix(i) = << >>
        BY <2>2, <4>1, EmptySeq
      <4> HIDE DEF prefix, c
      <4> QED BY <2>2, <4>2
    <3>2. Number(prefix(i + 1)) = v
      BY <2>2, <3>1, NumberOfOne
    <3>3. c # "0"
      BY <2>4
    <3>4. v # 0
      BY <2>3, <3>3, DigitFacts
    <3> HIDE DEF prefix, c, v
    <3>5. Decimal[v] = <<c>>
      <4>1. v \in Nat /\ v < 10
        BY <2>3
      <4> QED BY <4>1, <2>3, DecimalEquation DEF DecimalStep
    <3> QED BY <2>3, <3>1, <3>2, <3>4, <3>5
  <2>5. CASE i > 0
    <3> DEFINE m == Number(prefix(i))
               n == Number(prefix(i + 1))
    <3>1. m > 0 /\ Decimal[m] = prefix(i)
      BY <1>4, <2>1, <2>5
    <3>2. m \in Nat /\ n = 10 * m + v
      BY <2>2, NumberIsNat, NumberOfAppend
    <3> HIDE DEF prefix, c, v, m, n
    <3>3. n \in Nat /\ n >= 10 /\ n \div 10 = m /\ n % 10 = v
      BY <2>3, <3>1, <3>2
    <3>4. Decimal[n] = Append(Decimal[m], DigitChars[v + 1])
      <4>1. ~ (n < 10)
        BY <3>3
      <4> QED BY <4>1, <3>3, DecimalEquation DEF DecimalStep
    <3>5. n > 0 /\ Decimal[n] = prefix(i + 1)
      BY <2>2, <2>3, <3>1, <3>3, <3>4
    <3> QED BY <3>5 DEF n
  <2> QED BY <2>4, <2>5
<1> HIDE DEF T
<1>5. \A i \in Nat : i \in T
  BY <1>3, <1>4, Induction
<1> HIDE DEF prefix
<1>6. Decimal[Number(prefix(Len(digits)))] = prefix(Len(digits))
  BY <1>1, <1>5 DEF T
<1> QED BY <1>1, <1>6

(* Zero is written with nothing but zeroes.                                *)
LEMMA AllZeroes ==
  ASSUME NEW digits \in Seq(Digits), Number(digits) = 0
  PROVE  \A i \in 1..Len(digits) : digits[i] = "0"
<1> DEFINE T == {k \in Nat : \A s \in Seq(Digits) :
                   Len(s) = k /\ Number(s) = 0 => \A i \in 1..k : s[i] = "0"}
<1>1. 0 \in T
  OBVIOUS
<1>2. ASSUME NEW k \in Nat, k \in T PROVE k + 1 \in T
  <2>1. SUFFICES ASSUME NEW s \in Seq(Digits), Len(s) = k + 1, Number(s) = 0
                 PROVE  \A i \in 1..k+1 : s[i] = "0"
    OBVIOUS
  <2>2. PICK t \in Seq(Digits), c \in Digits : s = Append(t, c)
    <3>1. s # << >>
      BY <2>1
    <3> QED BY <3>1, SequenceEmptyOrAppend
  <2>3. Number(t) \in Nat /\ DigitValue(c) \in 0..9 /\ 10 * Number(t) + DigitValue(c) = 0
    BY <2>1, <2>2, NumberIsNat, NumberOfAppend, DigitFacts
  <2>4. Number(t) = 0 /\ DigitValue(c) = 0
    BY <2>3
  <2>5. c = "0"
    BY <2>4, DigitFacts
  <2>6. Len(t) = k
    BY <2>1, <2>2
  <2>7. \A i \in 1..k : t[i] = "0"
    BY <1>2, <2>4, <2>6
  <2> QED BY <2>2, <2>5, <2>6, <2>7
<1> HIDE DEF T
<1>3. \A k \in Nat : k \in T
  BY <1>1, <1>2, Induction
<1> QED BY <1>3 DEF T

-----------------------------------------------------------------------------
(* Netstrings: what ParseNetstring() takes apart is a netstring and the    *)
(* rest, and it takes every netstring apart.                               *)

(* The character that ends a netstring, under a name that can be left      *)
(* unexpanded.                                                             *)
Comma == ","

(* Payloads may hold all that the encoding uses.                           *)
LEMMA CharacterFacts ==
  /\ Digits \subseteq Characters /\ ":" \in Characters /\ Comma \in Characters
  /\ \A s \in Seq(Digits) : s \in Seq(Characters)
<1>1. Digits \subseteq Characters /\ ":" \in Characters /\ Comma \in Characters
  BY CharactersAssumption DEF Digits, Comma
<1> QED BY <1>1, SeqMonotonic

(* The type and length of a concatenation.                                 *)
LEMMA Concat ==
  ASSUME NEW S, NEW s \in Seq(S), NEW t \in Seq(S)
  PROVE  s \o t \in Seq(S) /\ Len(s \o t) = Len(s) + Len(t)
OBVIOUS

(* A sequence is what is before one of its elements, that element, and     *)
(* what is after it.                                                       *)
LEMMA SplitAt ==
  ASSUME NEW S, NEW s \in Seq(S), NEW i \in 1..Len(s)
  PROVE  /\ SubSeq(s, 1, i - 1) \in Seq(S) /\ Len(SubSeq(s, 1, i - 1)) = i - 1
         /\ SubSeq(s, i + 1, Len(s)) \in Seq(S)
         /\ Len(SubSeq(s, i + 1, Len(s))) = Len(s) - i
         /\ s = SubSeq(s, 1, i - 1) \o <<s[i]>> \o SubSeq(s, i + 1, Len(s))
<1> DEFINE a == SubSeq(s, 1, i - 1)
           b == SubSeq(s, i + 1, Len(s))
<1>1. /\ a \in Seq(S) /\ Len(a) = i - 1 /\ \A j \in 1..i-1 : a[j] = s[j]
      /\ b \in Seq(S) /\ Len(b) = Len(s) - i /\ \A j \in 1..Len(s)-i : b[j] = s[i + j]
  OBVIOUS
<1> HIDE DEF a, b
<1>2. <<s[i]>> \in Seq(S) /\ Len(<<s[i]>>) = 1 /\ <<s[i]>>[1] = s[i]
  OBVIOUS
<1> DEFINE c == <<s[i]>>
           t == a \o c
           u == t \o b
<1>3. t \in Seq(S) /\ Len(t) = i /\ \A j \in 1..i : t[j] = s[j]
  BY <1>1, <1>2
<1> HIDE DEF t
<1>4. u \in Seq(S) /\ Len(u) = Len(s)
  <2>1. t \in Seq(S) /\ b \in Seq(S) /\ Len(t) + Len(b) = Len(s)
    BY <1>1, <1>3
  <2> QED BY <2>1, ConcatProperties
<1>5. ASSUME NEW j \in 1..Len(s) PROVE u[j] = s[j]
  <2>1. CASE j <= i
    <3>1. j \in 1..Len(t) /\ j \in 1..i
      BY <1>3, <2>1
    <3> QED BY <3>1, <1>1, <1>3
  <2>2. CASE j > i
    <3>1. j - i \in 1..Len(s)-i /\ i + (j - i) = j
      BY <2>2
    <3>2. u[j] = b[j - i]
      BY <1>1, <1>3, <2>2
    <3> QED BY <3>1, <3>2, <1>1
  <2>3. j <= i \/ j > i
    OBVIOUS
  <2> QED BY <2>1, <2>2, <2>3
<1>6. s = u
  <2> HIDE DEF u
  <2> QED BY <1>4, <1>5, SeqEqual
<1> QED BY <1>1, <1>6 DEF a, b, t

(* Where ParseNetstring() looks for the end of the length.                 *)
Colon(s) == SelectInSeq(s, LAMBDA c : c = ":")

(* It finds the first colon, if there is one.                              *)
LEMMA ColonFacts ==
  ASSUME NEW s \in Seq(Characters)
  PROVE  /\ Colon(s) \in 0..Len(s)
         /\ Colon(s) > 0 => /\ s[Colon(s)] = ":"
                            /\ \A i \in 1..Colon(s)-1 : s[i] # ":"
         /\ Colon(s) = 0 => \A i \in 1..Len(s) : s[i] # ":"
<1> DEFINE I == {i \in 1..Len(s) : s[i] = ":"}
<1>1. Colon(s) = IF I # {} THEN Min(I) ELSE 0
  BY DEF Colon, SelectInSeq
<1>2. CASE I = {}
  BY <1>1, <1>2
<1>3. CASE I # {}
  <2>1. I \subseteq Nat
    OBVIOUS
  <2>2. \E i \in I : \A j \in I : i <= j
    BY <1>3, <2>1, NatMin
  <2>3. Min(I) \in I /\ \A j \in I : Min(I) <= j
    BY <2>2 DEF Min
  <2>4. Colon(s) \in I /\ \A j \in I : Colon(s) <= j
    BY <1>1, <1>3, <2>3
  <2> QED BY <2>4
<1> QED BY <1>2, <1>3

(* The first colon is found.                                               *)
LEMMA ColonAt ==
  ASSUME NEW s \in Seq(Characters), NEW k \in 1..Len(s), s[k] = ":",
         \A i \in 1..k-1 : s[i] # ":"
  PROVE  Colon(s) = k
BY ColonFacts

(* Leading zeroes.                                                         *)
Zeroes(n) == [i \in 1..n |-> "0"]

(* Their type and number.                                                  *)
LEMMA ZeroesFacts ==
  ASSUME NEW n \in Nat
  PROVE  /\ Zeroes(n) \in Seq(Characters) /\ Len(Zeroes(n)) = n
         /\ \A i \in 1..n : Zeroes(n)[i] = "0"
         /\ Zeroes(0) = << >>
         /\ "0" \in Characters
<1>1. "0" \in Characters
  <2>1. 0 \in 0..9 /\ 0 + 1 = 1
    OBVIOUS
  <2> QED BY <2>1, DigitFacts, CharacterFacts
<1> QED BY <1>1 DEF Zeroes

(* What is accepted as a length is decimal, except that zero may have      *)
(* zeroes before it.                                                       *)
LEMMA LengthIsDecimal ==
  ASSUME NEW digits \in Seq(Digits), Len(digits) > 0,
         ~ (Number(digits) > 0 /\ Head(digits) = "0")
  PROVE  \E zeroes \in Nat : /\ zeroes > 0 => Number(digits) = 0
                             /\ digits = Zeroes(zeroes) \o Decimal[Number(digits)]
<1>1. digits[1] = Head(digits) /\ Number(digits) \in Nat
  BY NumberIsNat
<1>2. CASE Number(digits) > 0
  <2>1. Decimal[Number(digits)] = digits
    BY <1>1, <1>2, DecimalOfNumber
  <2>2. digits = << >> \o digits
    OBVIOUS
  <2>3. 0 \in Nat /\ Zeroes(0) = << >>
    BY ZeroesFacts
  <2> QED BY <1>2, <2>1, <2>2, <2>3
<1>3. CASE Number(digits) = 0
  <2> DEFINE z == Len(digits) - 1
  <2>1. \A i \in 1..Len(digits) : digits[i] = "0"
    BY <1>3, AllZeroes
  <2>2. Decimal[0] = <<"0">>
    <3>1. 0 \in Nat /\ 0 < 10 /\ 0 + 1 = 1
      OBVIOUS
    <3> QED BY <3>1, DecimalEquation, DigitFacts DEF DecimalStep
  <2>3. z \in Nat /\ Len(digits) = z + 1
    OBVIOUS
  <2> HIDE DEF z
  <2> DEFINE d == Zeroes(z) \o <<"0">>
  <2>4. d \in Seq(Characters) /\ Len(d) = z + 1 /\ \A i \in 1..z+1 : d[i] = "0"
    <3>1. /\ Zeroes(z) \in Seq(Characters) /\ Len(Zeroes(z)) = z
          /\ \A i \in 1..z : Zeroes(z)[i] = "0"
          /\ "0" \in Characters
      BY <2>3, ZeroesFacts
    <3>2. <<"0">> \in Seq(Characters) /\ Len(<<"0">>) = 1 /\ <<"0">>[1] = "0"
      BY <3>1, Singleton
    <3> QED BY <2>3, <3>1, <3>2
  <2>5. digits \in Seq(Characters)
    BY CharacterFacts
  <2>6. digits = d
    <3> HIDE DEF d
    <3> QED BY <2>1, <2>3, <2>4, <2>5, SeqEqual
  <2> QED BY <1>3, <2>2, <2>3, <2>6
<1>4. Number(digits) > 0 \/ Number(digits) = 0
  BY <1>1
<1> QED BY <1>2, <1>3, <1>4

(* To have nothing but digits, said in two ways.                           *)
LEMMA DigitsAreSeq ==
  ASSUME NEW s \in Seq(Characters)
  PROVE  Range(s) \subseteq Digits <=> s \in Seq(Digits)
<1>1. ASSUME Range(s) \subseteq Digits PROVE s \in Seq(Digits)
  <2>1. \A i \in 1..Len(s) : s[i] \in Digits
    BY <1>1 DEF Range
  <2> QED BY <2>1
<1>2. ASSUME s \in Seq(Digits) PROVE Range(s) \subseteq Digits
  <2>1. \A i \in DOMAIN s : s[i] \in Digits
    BY <1>2
  <2> QED BY <2>1 DEF Range
<1> QED BY <1>1, <1>2

(* A netstring is never empty.                                             *)
LEMMA NetstringFacts ==
  ASSUME NEW v \in Seq(Characters)
  PROVE  /\ Decimal[Len(v)] \in Seq(Characters)
         /\ Netstring(v) \in Seq(Characters)
         /\ Len(Netstring(v)) > 0
<1> DEFINE d == Decimal[Len(v)]
<1>1. d \in Seq(Characters)
  <2>1. Len(v) \in Nat
    OBVIOUS
  <2> QED BY <2>1, DecimalEquation, CharacterFacts
<1> HIDE DEF d
<1>2. <<":">> \in Seq(Characters) /\ <<Comma>> \in Seq(Characters) /\ Len(<<Comma>>) = 1
  BY CharacterFacts, Singleton
<1> DEFINE colon == <<":">>
           comma == <<Comma>>
<1> HIDE DEF colon, comma
<1>3. colon \in Seq(Characters) /\ comma \in Seq(Characters) /\ Len(comma) = 1
  BY <1>2 DEF colon, comma
<1>4. (d \o colon) \o v \in Seq(Characters)
  BY <1>1, <1>3, ConcatProperties
<1>5. /\ ((d \o colon) \o v) \o comma \in Seq(Characters)
      /\ Len(((d \o colon) \o v) \o comma) = Len((d \o colon) \o v) + 1
  <2>1. \A s, t \in Seq(Characters) : s \o t \in Seq(Characters) /\ Len(s \o t) = Len(s) + Len(t)
    BY Concat
  <2>2. PICK s : s = (d \o colon) \o v
    OBVIOUS
  <2> QED BY <1>3, <1>4, <2>1, <2>2
<1>6. Netstring(v) = ((d \o colon) \o v) \o comma
  BY DEF d, Netstring, colon, comma, Comma
<1>7. Len((d \o colon) \o v) \in Nat
  BY <1>4
<1> QED BY <1>1, <1>5, <1>6, <1>7 DEF d

(* What the fields of a mail hold.                                         *)
Texts == Seq(Characters)

(* Concat for texts.                                                       *)
LEMMA TextConcat ==
  \A s, t \in Texts : /\ s \o t \in Texts /\ Len(s \o t) = Len(s) + Len(t)
                      /\ Len(s) \in Nat /\ Len(t) \in Nat
BY Concat DEF Texts

(* Joining texts is associative.                                           *)
LEMMA TextAssociative ==
  \A s, t, u \in Texts : (s \o t) \o u = s \o (t \o u)
BY ConcatAssociative DEF Texts

(* Concatenation under a name of its own. The proofs below only need that  *)
(* it is associative, and unfold the name where they need more.            *)
Cat(s, t) == s \o t

(* Joining texts gives a text, in any order.                               *)
LEMMA CatFacts ==
  /\ \A s, t \in Texts : Cat(s, t) \in Texts
  /\ \A s, t, u \in Texts : Cat(Cat(s, t), u) = Cat(s, Cat(t, u))
BY TextConcat, TextAssociative DEF Cat

(* Lengths add up.                                                         *)
LEMMA CatLength ==
  \A s, t \in Texts : /\ Len(Cat(s, t)) = Len(s) + Len(t)
                      /\ Len(s) \in Nat /\ Len(t) \in Nat
BY TextConcat DEF Cat

(* Joining is associative for other sequences, too.                        *)
LEMMA CatAssociative ==
  ASSUME NEW S
  PROVE  \A s, t, u \in Seq(S) : Cat(Cat(s, t), u) = Cat(s, Cat(t, u))
BY ConcatAssociative DEF Cat

(* What ParseNetstring() accepts starts with the netstring of the value it *)
(* returns (empty, if the length has leading zeroes), and what it leaves   *)
(* is what comes after.                                                    *)
LEMMA ParseIsSound ==
  ASSUME NEW bytes \in Seq(Characters), NEW netstring \in ParseNetstring(bytes)
  PROVE  /\ netstring.value \in Seq(Characters) /\ netstring.rest \in Seq(Characters)
         /\ \E zeroes \in Nat :
              /\ zeroes > 0 => netstring.value = << >>
              /\ bytes = Zeroes(zeroes) \o Netstring(netstring.value) \o netstring.rest
<1> DEFINE colon == Colon(bytes)
           digits == SubSeq(bytes, 1, colon - 1)
           rest == SubSeq(bytes, colon + 1, Len(bytes))
           size == Number(digits)
           value == SubSeq(rest, 1, size)
           rest2 == SubSeq(rest, size + 2, Len(rest))
<1>1. /\ colon > 0 /\ Length(digits) /\ size < Len(rest) /\ rest[size + 1] = Comma
      /\ netstring.value = value /\ netstring.rest = rest2
  <2>1. ParseNetstring(bytes)
          = IF colon > 0 /\ Length(digits) /\ size < Len(rest) /\ rest[size + 1] = Comma
            THEN {[value |-> value, rest |-> rest2]} ELSE {}
    BY DEF ParseNetstring, Colon, Comma
  <2>2. netstring = [value |-> value, rest |-> rest2]
        /\ colon > 0 /\ Length(digits) /\ size < Len(rest) /\ rest[size + 1] = Comma
    <3> HIDE DEF colon, digits, rest, size, value, rest2
    <3> QED BY <2>1
  <2> HIDE DEF colon, digits, rest, size, value, rest2
  <2> QED BY <2>2
<1>2. colon \in 1..Len(bytes) /\ bytes[colon] = ":"
  <2>1. colon > 0
    BY <1>1
  <2> HIDE DEF digits, rest, size, value, rest2
  <2> QED BY <2>1, ColonFacts
<1>3. /\ digits \in Seq(Characters) /\ rest \in Seq(Characters)
      /\ bytes = digits \o <<":">> \o rest
  BY <1>2, SplitAt
<1> HIDE DEF colon, digits, rest
<1>4. digits \in Seq(Digits) /\ Len(digits) > 0
      /\ ~ (Number(digits) > 0 /\ Head(digits) = "0")
  <2>1. /\ digits # << >> /\ Range(digits) \subseteq Digits
        /\ ~ (Number(digits) > 0 /\ Head(digits) = "0")
    BY <1>1 DEF Length, Digits
  <2>2. digits \in Seq(Digits)
    BY <1>3, <2>1, DigitsAreSeq
  <2> QED BY <2>1, <2>2
<1>5. size \in Nat
  BY <1>4, NumberIsNat
<1> HIDE DEF size
<1>6. /\ value \in Seq(Characters) /\ rest2 \in Seq(Characters) /\ Len(value) = size
      /\ rest = value \o <<Comma>> \o rest2
  <2> DEFINE i == size + 1
  <2>1. i \in 1..Len(rest) /\ i - 1 = size /\ i + 1 = size + 2 /\ rest[i] = Comma
    <3>1. Len(rest) \in Nat /\ size < Len(rest) /\ rest[size + 1] = Comma
      <4>1. size < Len(rest) /\ rest[size + 1] = Comma
        BY <1>1
      <4>2. Len(rest) \in Nat
        BY <1>3
      <4> QED BY <4>1, <4>2
    <3>2. size + 1 \in 1..Len(rest) /\ (size + 1) - 1 = size /\ (size + 1) + 1 = size + 2
      BY <3>1, <1>5
    <3> QED BY <3>1, <3>2
  <2> HIDE DEF i
  <2>2. /\ SubSeq(rest, 1, i - 1) \in Seq(Characters)
        /\ SubSeq(rest, i + 1, Len(rest)) \in Seq(Characters)
        /\ Len(SubSeq(rest, 1, i - 1)) = i - 1
        /\ rest = SubSeq(rest, 1, i - 1) \o <<rest[i]>> \o SubSeq(rest, i + 1, Len(rest))
    BY <1>3, <2>1, SplitAt
  <2> QED BY <2>1, <2>2
<1> HIDE DEF value, rest2
<1>7. PICK zeroes \in Nat : /\ zeroes > 0 => size = 0
                            /\ digits = Zeroes(zeroes) \o Decimal[size]
  BY <1>4, LengthIsDecimal DEF size
<1>8. zeroes > 0 => value = << >>
  BY <1>6, <1>7, EmptySeq
<1>9. bytes = Zeroes(zeroes) \o Netstring(value) \o rest2
  <2> DEFINE z == Zeroes(zeroes)
             d == Decimal[size]
             colons == <<":">>
             comma == <<Comma>>
  <2>1. /\ z \in Seq(Characters) /\ d \in Seq(Characters)
        /\ colons \in Seq(Characters) /\ comma \in Seq(Characters)
    BY <1>5, <1>7, ZeroesFacts, CharacterFacts, Singleton, DecimalEquation
  <2> HIDE DEF z, d, colons, comma
  <2>2. bytes = (z \o d) \o colons \o (value \o comma \o rest2)
    BY <1>3, <1>6, <1>7 DEF z, d, colons, comma
  <2>3. (z \o d) \o colons \o (value \o comma \o rest2)
          = z \o (d \o colons \o value \o comma) \o rest2
    <3>1. z \in Texts /\ d \in Texts /\ colons \in Texts /\ comma \in Texts
      BY <2>1 DEF Texts
    <3>2. value \in Texts /\ rest2 \in Texts
      BY <1>6 DEF Texts
    <3> HIDE DEF value, rest2
    <3>3. /\ Cat(d, colons) \in Texts /\ Cat(value, comma) \in Texts
          /\ Cat(Cat(z, d), colons) = Cat(z, Cat(d, colons))
      BY <3>1, <3>2, CatFacts
    <3>4. /\ Cat(z, Cat(d, colons)) \in Texts
          /\ Cat(Cat(d, colons), Cat(value, comma)) = Cat(Cat(Cat(d, colons), value), comma)
      BY <3>1, <3>2, <3>3, CatFacts
    <3>5. Cat(Cat(z, Cat(d, colons)), Cat(Cat(value, comma), rest2))
            = Cat(Cat(Cat(z, Cat(d, colons)), Cat(value, comma)), rest2)
      BY <3>2, <3>3, <3>4, CatFacts
    <3>6. Cat(Cat(z, Cat(d, colons)), Cat(value, comma))
            = Cat(z, Cat(Cat(d, colons), Cat(value, comma)))
      BY <3>1, <3>3, CatFacts
    <3>7. Cat(Cat(Cat(z, d), colons), Cat(Cat(value, comma), rest2))
            = Cat(Cat(z, Cat(Cat(Cat(d, colons), value), comma)), rest2)
      BY <3>3, <3>4, <3>5, <3>6
    <3> QED BY <3>7 DEF Cat
  <2>4. Netstring(value) = d \o colons \o value \o comma
    BY <1>6 DEF Netstring, d, colons, comma, Comma
  <2> QED BY <2>2, <2>3, <2>4 DEF z
<1> QED BY <1>1, <1>6, <1>8, <1>9

(* A sequence made of three pieces has these pieces.                       *)
LEMMA ConcatParts ==
  ASSUME NEW S, NEW s \in Seq(S), NEW c \in S, NEW t \in Seq(S),
         NEW whole, whole = s \o <<c>> \o t
  PROVE  /\ whole \in Seq(S) /\ Len(whole) = Len(s) + 1 + Len(t)
         /\ whole[Len(s) + 1] = c
         /\ \A i \in 1..Len(s) : whole[i] = s[i]
         /\ SubSeq(whole, 1, Len(s)) = s
         /\ SubSeq(whole, Len(s) + 2, Len(whole)) = t
<1> DEFINE k == <<c>>
           a == s \o k
           n == Len(s)
<1>1. k \in Seq(S) /\ Len(k) = 1 /\ k[1] = c /\ n \in Nat /\ Len(t) \in Nat
  BY Singleton
<1> HIDE DEF k
<1>2. /\ a \in Seq(S) /\ Len(a) = n + 1 /\ a[n + 1] = c
      /\ \A i \in 1..n : a[i] = s[i]
  <2>1. a \in Seq(S) /\ Len(a) = n + 1
    BY <1>1, Concat
  <2>2. \A i \in 1..n+1 : a[i] = IF i <= n THEN s[i] ELSE k[i - n]
    BY <1>1, ConcatProperties
  <2>3. n + 1 \in 1..n+1 /\ ~ (n + 1 <= n) /\ (n + 1) - n = 1
    BY <1>1
  <2>4. \A i \in 1..n : i \in 1..n+1 /\ i <= n
    BY <1>1
  <2> HIDE DEF a
  <2> QED BY <1>1, <2>1, <2>2, <2>3, <2>4
<1> HIDE DEF a
<1>3. /\ whole \in Seq(S) /\ Len(whole) = n + 1 + Len(t) /\ whole[n + 1] = c
      /\ \A i \in 1..n : whole[i] = s[i]
      /\ \A i \in 1..Len(t) : whole[n + 1 + i] = t[i]
  <2>1. whole = a \o t
    BY DEF a, k
  <2>2. whole \in Seq(S) /\ Len(whole) = n + 1 + Len(t)
    BY <1>1, <1>2, <2>1, Concat
  <2>3. \A i \in 1..n+1+Len(t) : whole[i] = IF i <= n + 1 THEN a[i] ELSE t[i - (n + 1)]
    BY <1>2, <2>1, ConcatProperties
  <2>4. ASSUME NEW i \in 1..n+1 PROVE whole[i] = a[i]
    BY <1>1, <2>3
  <2>5. ASSUME NEW i \in 1..Len(t) PROVE whole[n + 1 + i] = t[i]
    <3>1. n + 1 + i \in 1..n+1+Len(t) /\ ~ (n + 1 + i <= n + 1) /\ n + 1 + i - (n + 1) = i
      BY <1>1
    <3> QED BY <2>3, <3>1
  <2>6. n + 1 \in 1..n+1 /\ 1..n \subseteq 1..n+1
    BY <1>1
  <2> QED BY <1>2, <2>2, <2>4, <2>5, <2>6
<1>4. SubSeq(whole, 1, n) = s
  <2>1. SubSeq(whole, 1, n) \in Seq(S) /\ Len(SubSeq(whole, 1, n)) = n
    BY <1>1, <1>3
  <2>2. \A i \in 1..n : SubSeq(whole, 1, n)[i] = s[i]
    BY <1>1, <1>3
  <2> QED BY <2>1, <2>2, SeqEqual
<1>5. SubSeq(whole, n + 2, Len(whole)) = t
  <2> DEFINE u == SubSeq(whole, n + 2, Len(whole))
  <2>1. u \in Seq(S) /\ Len(u) = Len(t)
    BY <1>1, <1>3
  <2>2. \A i \in 1..Len(t) : u[i] = t[i]
    BY <1>1, <1>3
  <2> HIDE DEF u
  <2>3. u = t
    BY <2>1, <2>2, SeqEqual
  <2> QED BY <2>3 DEF u
<1> QED BY <1>3, <1>4, <1>5

(* ParseNetstring() accepts every netstring, whatever follows, and returns *)
(* just its value and what follows: commas, colons and digits in the value *)
(* do not mislead it.                                                      *)
LEMMA ParseIsComplete ==
  ASSUME NEW v \in Seq(Characters), NEW after \in Seq(Characters)
  PROVE  ParseNetstring(Netstring(v) \o after) = {[value |-> v, rest |-> after]}
<1> DEFINE bytes == Netstring(v) \o after
           digits == Decimal[Len(v)]
           rest == v \o <<Comma>> \o after
<1>1. Len(v) \in Nat
  OBVIOUS
<1>2. /\ digits \in Seq(Digits) /\ Number(digits) = Len(v) /\ Len(digits) > 0
      /\ Len(v) > 0 => digits[1] # "0"
  BY <1>1, DecimalEquation, NumberOfDecimal
<1>3. digits \in Seq(Characters)
  BY <1>2, CharacterFacts
<1>4. /\ rest \in Seq(Characters) /\ Len(rest) = Len(v) + 1 + Len(after)
      /\ rest[Len(v) + 1] = Comma /\ SubSeq(rest, 1, Len(v)) = v
      /\ SubSeq(rest, Len(v) + 2, Len(rest)) = after
  BY CharacterFacts, ConcatParts
<1> HIDE DEF digits
<1>5. bytes = digits \o <<":">> \o rest
  <2> DEFINE colons == <<":">>
             comma == <<Comma>>
  <2>1. colons \in Seq(Characters) /\ comma \in Seq(Characters)
    BY CharacterFacts, Singleton
  <2>2. Netstring(v) = digits \o colons \o v \o comma
    BY DEF Netstring, digits, Comma
  <2> HIDE DEF colons, comma
  <2>3. digits \o colons \o v \o comma \o after = digits \o colons \o (v \o comma \o after)
    <3>1. /\ digits \in Texts /\ colons \in Texts /\ v \in Texts
          /\ comma \in Texts /\ after \in Texts
      BY <1>3, <2>1 DEF Texts
    <3>2. Cat(digits, colons) \in Texts /\ Cat(v, comma) \in Texts
      BY <3>1, CatFacts
    <3>3. Cat(Cat(Cat(digits, colons), v), comma) = Cat(Cat(digits, colons), Cat(v, comma))
      BY <3>1, <3>2, CatFacts
    <3>4. Cat(Cat(Cat(digits, colons), Cat(v, comma)), after)
            = Cat(Cat(digits, colons), Cat(Cat(v, comma), after))
      BY <3>1, <3>2, CatFacts
    <3>5. Cat(Cat(Cat(Cat(digits, colons), v), comma), after)
            = Cat(Cat(digits, colons), Cat(Cat(v, comma), after))
      BY <3>3, <3>4
    <3> QED BY <3>5 DEF Cat
  <2> QED BY <2>2, <2>3 DEF colons, comma
<1> HIDE DEF bytes, rest
<1> DEFINE k == Len(digits) + 1
<1>6. /\ bytes \in Seq(Characters) /\ Len(bytes) = Len(digits) + 1 + Len(rest)
      /\ bytes[k] = ":" /\ \A i \in 1..Len(digits) : bytes[i] = digits[i]
      /\ SubSeq(bytes, 1, Len(digits)) = digits
      /\ SubSeq(bytes, Len(digits) + 2, Len(bytes)) = rest
  <2>1. digits \in Seq(Characters) /\ rest \in Seq(Characters) /\ ":" \in Characters
    BY <1>3, <1>4, CharacterFacts
  <2> QED BY <1>5, <2>1, ConcatParts
<1>7. Colon(bytes) = k
  <2>1. k \in 1..Len(bytes) /\ k - 1 = Len(digits)
    BY <1>3, <1>4, <1>6
  <2>2. \A i \in 1..k-1 : bytes[i] # ":"
    <3>1. SUFFICES ASSUME NEW i \in 1..Len(digits) PROVE bytes[i] # ":"
      BY <2>1
    <3>2. digits[i] \in Digits
      BY <1>2
    <3>3. bytes[i] = digits[i]
      BY <1>6
    <3> QED BY <3>2, <3>3, DigitFacts, Zenon
  <2> HIDE DEF k
  <2> QED BY <1>6, <2>1, <2>2, ColonAt
<1>8. Length(digits)
  <2>1. digits # << >> /\ Head(digits) = digits[1]
    BY <1>2
  <2>2. Range(digits) \subseteq Digits
    BY <1>2, <1>3, DigitsAreSeq
  <2> QED BY <1>2, <2>1, <2>2 DEF Length, Digits
<1>9. /\ k > 0 /\ k - 1 = Len(digits) /\ k + 1 = Len(digits) + 2
      /\ Len(v) < Len(rest)
  BY <1>1, <1>2, <1>4
<1> HIDE DEF k
<1>10. digits = SubSeq(bytes, 1, k - 1) /\ rest = SubSeq(bytes, k + 1, Len(bytes))
  BY <1>6, <1>9
<1>11. ParseNetstring(bytes) = {[value |-> SubSeq(rest, 1, Len(v)),
                                 rest |-> SubSeq(rest, Len(v) + 2, Len(rest))]}
  <2>1. k = Colon(bytes) /\ Len(v) = Number(digits)
    BY <1>2, <1>7
  <2>2. k > 0 /\ Length(digits) /\ Len(v) < Len(rest) /\ rest[Len(v) + 1] = Comma
    BY <1>4, <1>8, <1>9
  <2> DEFINE Result(digit, remains, size) ==
               IF Colon(bytes) > 0 /\ Length(digit) /\ size < Len(remains)
                    /\ remains[size + 1] = Comma
               THEN {[value |-> SubSeq(remains, 1, size),
                      rest |-> SubSeq(remains, size + 2, Len(remains))]}
               ELSE {}
  <2>3. ParseNetstring(bytes)
          = Result(SubSeq(bytes, 1, Colon(bytes) - 1),
                   SubSeq(bytes, Colon(bytes) + 1, Len(bytes)),
                   Number(SubSeq(bytes, 1, Colon(bytes) - 1)))
    BY Zenon DEF ParseNetstring, Colon, Comma
  <2>4. Result(digits, rest, Len(v)) = {[value |-> SubSeq(rest, 1, Len(v)),
                                         rest |-> SubSeq(rest, Len(v) + 2, Len(rest))]}
    BY <2>1, <2>2
  <2> HIDE DEF Result
  <2> QED BY <1>10, <2>1, <2>3, <2>4
<1> QED BY <1>4, <1>11 DEF bytes

-----------------------------------------------------------------------------
(* FlattenSeq, the concatenation of a sequence of sequences.               *)

(* f has the concatenations of the first elements of seqs.                 *)
Parts(seqs, f) ==
  /\ f[1] = seqs[1]
  /\ \A i \in 1..Len(seqs)-1 : f[i + 1] = f[i] \o seqs[i + 1]

(* FlattenSeq is the last of them.                                         *)
LEMMA FlattenExists ==
  ASSUME NEW S, NEW seqs \in Seq(Seq(S)), Len(seqs) > 0
  PROVE  \E f : Parts(seqs, f) /\ FlattenSeq(seqs) = f[Len(seqs)]
<1> DEFINE n == Len(seqs)
           Body(h, i) == IF i = 1 THEN seqs[i] ELSE h[i - 1] \o seqs[i]
           more(i) == IF i + 2 \in 1..n THEN seqs[i + 2] ELSE << >>
           step == [p \in Seq(S) \X Nat |-> p[1] \o more(p[2])]
<1>1. n \in Nat /\ n > 0 /\ seqs[1] \in Seq(S) /\ \A i \in 1..n : seqs[i] \in Seq(S)
  OBVIOUS
<1>2. \A i \in Nat : more(i) \in Seq(S)
  OBVIOUS
<1>3. step \in [Seq(S) \X Nat -> Seq(S)]
  <2> HIDE DEF more
  <2>1. ASSUME NEW p \in Seq(S) \X Nat PROVE p[1] \o more(p[2]) \in Seq(S)
    <3>1. p[1] \in Seq(S) /\ more(p[2]) \in Seq(S)
      BY <1>2
    <3> QED BY <3>1, Concat
  <2> QED BY <2>1
<1>4. PICK f : Iterated(f, Seq(S), seqs[1], step)
  <2> HIDE DEF step
  <2> QED BY <1>1, <1>3, Iteration, Zenon
<1>5. ASSUME NEW i \in Nat, i + 2 \in 1..n PROVE f[i + 1] = f[i] \o seqs[i + 2]
  <2>1. f[i] \in Seq(S) /\ f[i + 1] = step[<<f[i], i>>]
    <3> HIDE DEF step
    <3> QED BY <1>4 DEF Iterated
  <2>2. step[<<f[i], i>>] = f[i] \o more(i)
    <3> HIDE DEF more
    <3> QED BY <2>1
  <2>3. more(i) = seqs[i + 2]
    BY <1>5
  <2> QED BY <2>1, <2>2, <2>3
<1> HIDE DEF step, more
<1> DEFINE g == [i \in 1..n |-> f[i - 1]]
<1>6. ASSUME NEW i \in 1..n PROVE g[i] = Body(g, i)
  <2>1. CASE i = 1
    BY <1>4, <2>1 DEF Iterated
  <2>2. CASE i # 1
    <3>1. i - 2 \in Nat /\ (i - 2) + 2 \in 1..n /\ i - 1 \in 1..n
          /\ (i - 2) + 1 = i - 1 /\ (i - 2) + 2 = i /\ (i - 1) - 1 = i - 2
      BY <2>2
    <3>2. f[i - 1] = f[i - 2] \o seqs[i]
      BY <1>5, <3>1
    <3>3. g[i] = f[i - 1] /\ g[i - 1] = f[i - 2]
      BY <3>1
    <3> HIDE DEF g
    <3> QED BY <2>2, <3>2, <3>3
  <2> QED BY <2>1, <2>2
<1>7. g = [i \in 1..n |-> Body(g, i)]
  <2>1. g = [i \in 1..n |-> g[i]]
    OBVIOUS
  <2> HIDE DEF g, Body
  <2> QED BY <1>6, <2>1
<1> DEFINE flatten == CHOOSE h : h = [i \in 1..n |-> Body(h, i)]
<1>8. flatten = [i \in 1..n |-> Body(flatten, i)]
  <2> HIDE DEF g, Body
  <2> QED BY <1>7
<1>9. FlattenSeq(seqs) = flatten[n]
  <2>1. ~ (Len(seqs) = 0)
    BY <1>1
  <2> QED BY <2>1 DEF FlattenSeq
<1> HIDE DEF flatten
<1>10. \A i \in 1..n : flatten[i] = Body(flatten, i)
  <2> HIDE DEF Body
  <2> QED BY <1>8
<1>11. flatten[1] = seqs[1]
  <2>1. 1 \in 1..n
    BY <1>1
  <2>2. flatten[1] = Body(flatten, 1)
    BY <1>10, <2>1
  <2> QED BY <2>2
<1>12. ASSUME NEW i \in 1..n-1 PROVE flatten[i + 1] = flatten[i] \o seqs[i + 1]
  <2>1. i + 1 \in 1..n /\ (i + 1) - 1 = i /\ i + 1 # 1
    BY <1>1
  <2>2. flatten[i + 1] = Body(flatten, i + 1)
    BY <1>10, <2>1
  <2> QED BY <2>1, <2>2
<1> QED BY <1>9, <1>11, <1>12 DEF Parts

(* Nothing, flattened.                                                     *)
LEMMA FlattenNone == FlattenSeq(<< >>) = << >>
BY DEF FlattenSeq

(* A single sequence, flattened.                                           *)
LEMMA FlattenOne ==
  ASSUME NEW S, NEW x \in Seq(S)
  PROVE  FlattenSeq(<<x>>) = x
<1>1. <<x>> \in Seq(Seq(S)) /\ Len(<<x>>) = 1 /\ <<x>>[1] = x
  BY Singleton
<1>2. Len(<<x>>) > 0
  BY <1>1
<1>3. PICK f : Parts(<<x>>, f) /\ FlattenSeq(<<x>>) = f[Len(<<x>>)]
  BY <1>1, <1>2, FlattenExists
<1>4. FlattenSeq(<<x>>) = f[1] /\ f[1] = <<x>>[1]
  BY <1>1, <1>3 DEF Parts
<1> QED BY <1>1, <1>4

(* One more sequence goes to the end.                                      *)
LEMMA FlattenAppend ==
  ASSUME NEW S, NEW seqs \in Seq(Seq(S)), NEW x \in Seq(S)
  PROVE  FlattenSeq(Append(seqs, x)) = FlattenSeq(seqs) \o x
<1>1. CASE seqs = << >>
  <2>1. Append(seqs, x) = <<x>> /\ << >> \o x = x
    BY <1>1
  <2> QED BY <1>1, <2>1, FlattenNone, FlattenOne
<1>2. CASE seqs # << >>
  <2> DEFINE more == Append(seqs, x)
             n == Len(seqs)
  <2>1. /\ more \in Seq(Seq(S)) /\ Len(more) = n + 1 /\ n \in Nat /\ n > 0
        /\ more[n + 1] = x /\ \A i \in 1..n : more[i] = seqs[i]
    BY <1>2
  <2> HIDE DEF more
  <2>2. PICK f : Parts(seqs, f) /\ FlattenSeq(seqs) = f[n]
    BY <2>1, FlattenExists
  <2>3. PICK g : Parts(more, g) /\ FlattenSeq(more) = g[n + 1]
    <3>1. Len(more) > 0
      BY <2>1
    <3>2. PICK g : Parts(more, g) /\ FlattenSeq(more) = g[Len(more)]
      BY <2>1, <3>1, FlattenExists
    <3> QED BY <2>1, <3>2
  <2> DEFINE T == {i \in Nat : 1 <= i /\ i <= n => f[i] = g[i]}
  <2>4. 0 \in T
    OBVIOUS
  <2>5. ASSUME NEW i \in Nat, i \in T PROVE i + 1 \in T
    <3>1. CASE i = 0
      <4>1. 1 \in 1..n
        BY <2>1
      <4> QED BY <2>1, <2>2, <2>3, <3>1, <4>1 DEF Parts
    <3>2. CASE i > 0 /\ i + 1 <= n
      <4>1. i \in 1..n-1 /\ i \in 1..Len(more)-1 /\ i + 1 \in 1..n /\ f[i] = g[i]
        BY <2>1, <2>5, <3>2
      <4>2. f[i + 1] = f[i] \o seqs[i + 1]
        BY <2>2, <4>1 DEF Parts
      <4>3. g[i + 1] = g[i] \o more[i + 1]
        BY <2>3, <4>1 DEF Parts
      <4>4. f[i + 1] = g[i + 1]
        BY <2>1, <4>1, <4>2, <4>3
      <4> QED BY <4>4
    <3>3. CASE i + 1 > n
      BY <3>3
    <3>4. i = 0 \/ (i > 0 /\ i + 1 <= n) \/ i + 1 > n
      OBVIOUS
    <3> QED BY <3>1, <3>2, <3>3, <3>4
  <2> HIDE DEF T
  <2>6. \A i \in Nat : i \in T
    BY <2>4, <2>5, Induction
  <2>7. f[n] = g[n]
    BY <2>1, <2>6 DEF T
  <2>8. g[n + 1] = g[n] \o x
    <3>1. n \in 1..Len(more)-1
      BY <2>1
    <3> QED BY <2>1, <2>3, <3>1 DEF Parts
  <2> QED BY <2>2, <2>3, <2>7, <2>8 DEF more
<1> QED BY <1>1, <1>2

(* What is flattened has the elements of its parts.                        *)
LEMMA FlattenType ==
  ASSUME NEW S
  PROVE  \A seqs \in Seq(Seq(S)) : FlattenSeq(seqs) \in Seq(S)
<1> DEFINE T == {n \in Nat : \A seqs \in Seq(Seq(S)) :
                   Len(seqs) = n => FlattenSeq(seqs) \in Seq(S)}
<1>1. 0 \in T
  <2>1. ASSUME NEW seqs \in Seq(Seq(S)), Len(seqs) = 0 PROVE FlattenSeq(seqs) \in Seq(S)
    <3>1. seqs = << >>
      BY <2>1, EmptySeq
    <3>2. << >> \in Seq(S)
      OBVIOUS
    <3> QED BY <3>1, <3>2, FlattenNone
  <2> QED BY <2>1
<1>2. ASSUME NEW n \in Nat, n \in T PROVE n + 1 \in T
  <2>1. SUFFICES ASSUME NEW seqs \in Seq(Seq(S)), Len(seqs) = n + 1
                 PROVE  FlattenSeq(seqs) \in Seq(S)
    OBVIOUS
  <2>2. PICK most \in Seq(Seq(S)), x \in Seq(S) : seqs = Append(most, x)
    <3>1. seqs # << >>
      BY <2>1
    <3> QED BY <3>1, SequenceEmptyOrAppend
  <2>3. Len(most) = n
    BY <2>1, <2>2
  <2>4. FlattenSeq(most) \in Seq(S)
    BY <1>2, <2>3
  <2>5. FlattenSeq(seqs) = FlattenSeq(most) \o x
    BY <2>2, FlattenAppend
  <2> QED BY <2>4, <2>5, Concat
<1> HIDE DEF T
<1>3. \A n \in Nat : n \in T
  BY <1>1, <1>2, Induction
<1> QED BY <1>3 DEF T

(* Two sequences may be flattened one after the other.                     *)
LEMMA FlattenConcat ==
  ASSUME NEW S, NEW s \in Seq(Seq(S))
  PROVE  \A t \in Seq(Seq(S)) : FlattenSeq(s \o t) = FlattenSeq(s) \o FlattenSeq(t)
<1> DEFINE T == {n \in Nat : \A t \in Seq(Seq(S)) :
                   Len(t) = n => FlattenSeq(s \o t) = FlattenSeq(s) \o FlattenSeq(t)}
<1>0. FlattenSeq(s) \in Seq(S)
  BY FlattenType
<1>1. 0 \in T
  <2>1. ASSUME NEW t \in Seq(Seq(S)), Len(t) = 0
        PROVE  FlattenSeq(s \o t) = FlattenSeq(s) \o FlattenSeq(t)
    <3>1. t = << >>
      BY <2>1, EmptySeq
    <3>2. s \o << >> = s /\ FlattenSeq(s) \o << >> = FlattenSeq(s)
      BY <1>0, ConcatEmptySeq
    <3> QED BY <3>1, <3>2, FlattenNone
  <2> QED BY <2>1
<1>2. ASSUME NEW n \in Nat, n \in T PROVE n + 1 \in T
  <2>1. SUFFICES ASSUME NEW t \in Seq(Seq(S)), Len(t) = n + 1
                 PROVE  FlattenSeq(s \o t) = FlattenSeq(s) \o FlattenSeq(t)
    OBVIOUS
  <2>2. PICK most \in Seq(Seq(S)), x \in Seq(S) : t = Append(most, x)
    <3>1. t # << >>
      BY <2>1
    <3> QED BY <3>1, SequenceEmptyOrAppend
  <2>3. Len(most) = n /\ s \o most \in Seq(Seq(S)) /\ FlattenSeq(most) \in Seq(S)
    BY <2>1, <2>2, Concat, FlattenType
  <2>4. s \o t = Append(s \o most, x)
    <3>1. \A u \in Seq(Seq(S)) : Append(u, x) = u \o <<x>>
      BY AppendIsConcat
    <3>2. <<x>> \in Seq(Seq(S))
      BY Singleton
    <3>3. (s \o most) \o <<x>> = s \o (most \o <<x>>)
      <4>1. PICK last \in Seq(Seq(S)) : last = <<x>>
        BY <3>2
      <4>2. Cat(Cat(s, most), last) = Cat(s, Cat(most, last))
        BY CatAssociative
      <4> QED BY <4>1, <4>2 DEF Cat
    <3> QED BY <2>2, <2>3, <3>1, <3>3
  <2>5. FlattenSeq(s \o t) = FlattenSeq(s \o most) \o x
    BY <2>3, <2>4, FlattenAppend
  <2>6. FlattenSeq(t) = FlattenSeq(most) \o x
    BY <2>2, FlattenAppend
  <2>7. FlattenSeq(s \o most) = FlattenSeq(s) \o FlattenSeq(most)
    BY <1>2, <2>3
  <2>8. (FlattenSeq(s) \o FlattenSeq(most)) \o x = FlattenSeq(s) \o (FlattenSeq(most) \o x)
    <3>1. Cat(Cat(FlattenSeq(s), FlattenSeq(most)), x)
            = Cat(FlattenSeq(s), Cat(FlattenSeq(most), x))
      BY <1>0, <2>3, CatAssociative
    <3> QED BY <3>1 DEF Cat
  <2> QED BY <2>5, <2>6, <2>7, <2>8
<1> HIDE DEF T
<1>3. \A n \in Nat : n \in T
  BY <1>1, <1>2, Induction
<1> QED BY <1>3 DEF T

-----------------------------------------------------------------------------
(* Texts and how they are joined.                                          *)

(* StripLeft() leaves characters of the text.                              *)
LEMMA StripLeftType ==
  ASSUME NEW S, NEW text \in Seq(S)
  PROVE  StripLeft(text) \in Seq(S)
<1> DEFINE I(c) == {i \in 1..Len(text) : text[i] # c}
<1>1. PICK space : space = " "
  OBVIOUS
<1>2. Stripped(text) = IF I(space) # {} THEN Min(I(space)) ELSE 0
  BY <1>1, Zenon DEF Stripped, SelectInSeq
<1>3. CASE I(space) = {}
  <2>1. Stripped(text) = 0
    BY <1>2, <1>3
  <2>2. << >> \in Seq(S)
    OBVIOUS
  <2> QED BY <2>1, <2>2 DEF StripLeft
<1>4. CASE I(space) # {}
  <2>1. I(space) \subseteq Nat
    OBVIOUS
  <2>2. \E i \in I(space) : \A j \in I(space) : i <= j
    BY <1>4, <2>1, NatMin
  <2>3. Min(I(space)) \in I(space)
    <3> HIDE DEF I
    <3> QED BY <2>2 DEF Min
  <2>4. Stripped(text) \in 1..Len(text)
    BY <1>2, <1>4, <2>3
  <2>5. SubSeq(text, Stripped(text), Len(text)) \in Seq(S)
    BY <2>4
  <2> QED BY <2>4, <2>5 DEF StripLeft
<1> QED BY <1>3, <1>4

(* The elements of a concatenation that come from its left part.           *)
LEMMA ConcatPrefix ==
  ASSUME NEW S, NEW s \in Seq(S), NEW t \in Seq(S), NEW i \in 1..Len(s)
  PROVE  (s \o t)[i] = s[i]
OBVIOUS

(* And those from its right part.                                          *)
LEMMA ConcatSuffix ==
  ASSUME NEW S, NEW s \in Seq(S), NEW t \in Seq(S), NEW i \in 1..Len(t)
  PROVE  (s \o t)[Len(s) + i] = t[i]
<1>1. /\ Len(s) \in Nat /\ Len(t) \in Nat /\ Len(s) + i \in 1..Len(s)+Len(t)
      /\ ~ (Len(s) + i <= Len(s)) /\ (Len(s) + i) - Len(s) = i
  OBVIOUS
<1> QED BY <1>1, ConcatProperties

(* The middle of three pieces is a subsequence.                            *)
LEMMA Middle ==
  ASSUME NEW S, NEW s \in Seq(S), NEW t \in Seq(S), NEW u \in Seq(S),
         NEW whole, whole = s \o (t \o u)
  PROVE  SubSeq(whole, Len(s) + 1, Len(s) + Len(t)) = t
<1> DEFINE tu == t \o u
           part == SubSeq(whole, Len(s) + 1, Len(s) + Len(t))
<1>1. /\ tu \in Seq(S) /\ Len(tu) = Len(t) + Len(u)
      /\ Len(s) \in Nat /\ Len(t) \in Nat /\ Len(u) \in Nat
      /\ \A i \in 1..Len(t) : tu[i] = t[i]
  BY Concat, ConcatPrefix
<1> HIDE DEF tu
<1>2. whole \in Seq(S) /\ Len(whole) = Len(s) + Len(tu)
  BY <1>1, Concat DEF tu
<1>3. ASSUME NEW i \in 1..Len(t) PROVE whole[Len(s) + i] = t[i]
  <2>1. i \in 1..Len(tu)
    BY <1>1
  <2>2. (s \o tu)[Len(s) + i] = tu[i]
    BY <1>1, <2>1, ConcatSuffix
  <2> QED BY <1>1, <2>2 DEF tu
<1>4. part \in Seq(S) /\ Len(part) = Len(t)
  BY <1>1, <1>2
<1>5. ASSUME NEW i \in 1..Len(t) PROVE part[i] = t[i]
  <2>1. part[i] = whole[Len(s) + i]
    BY <1>1, <1>2
  <2> QED BY <1>3, <2>1
<1> HIDE DEF part
<1>6. part = t
  BY <1>4, <1>5, SeqEqual
<1> QED BY <1>6 DEF part

(* The netstrings of the recipients.                                       *)
Nets(to) == [i \in DOMAIN to |-> Netstring(to[i])]

(* The part of a request that names the recipients.                        *)
Envelope(to) == FlattenSeq(Nets(to))

(* A recipient more is a netstring more.                                   *)
LEMMA EnvelopeFacts ==
  ASSUME NEW to \in Seq(Texts)
  PROVE  /\ Nets(to) \in Seq(Texts) /\ Len(Nets(to)) = Len(to)
         /\ Envelope(to) \in Texts
         /\ \A v \in Texts : Envelope(Append(to, v)) = Envelope(to) \o Netstring(v)
<1>1. Nets(to) \in Seq(Texts) /\ Len(Nets(to)) = Len(to)
  <2>1. \A i \in 1..Len(to) : Netstring(to[i]) \in Texts
    BY NetstringFacts DEF Texts
  <2>2. DOMAIN to = 1..Len(to) /\ Len(to) \in Nat
    OBVIOUS
  <2> QED BY <2>1, <2>2 DEF Nets
<1>2. Envelope(to) \in Texts
  BY <1>1, FlattenType DEF Envelope, Texts
<1>3. ASSUME NEW v \in Texts PROVE Envelope(Append(to, v)) = Envelope(to) \o Netstring(v)
  <2> DEFINE more == Append(to, v)
             n == Len(to)
  <2>1. /\ more \in Seq(Texts) /\ Len(more) = n + 1 /\ n \in Nat
        /\ more[n + 1] = v /\ \A i \in 1..n : more[i] = to[i]
        /\ DOMAIN more = 1..n+1 /\ DOMAIN to = 1..n
    OBVIOUS
  <2> HIDE DEF more
  <2>2. Netstring(v) \in Texts
    BY NetstringFacts DEF Texts
  <2>3. \A i \in 1..n+1 : Netstring(more[i]) \in Texts
    BY <2>1, NetstringFacts DEF Texts
  <2>4. Nets(more) \in Seq(Texts) /\ Len(Nets(more)) = n + 1
    BY <2>1, <2>3 DEF Nets
  <2> DEFINE nets == Nets(to)
             added == Append(nets, Netstring(v))
  <2>5. /\ added \in Seq(Texts) /\ Len(added) = n + 1
        /\ added[n + 1] = Netstring(v) /\ \A i \in 1..n : added[i] = nets[i]
    <3> HIDE DEF nets
    <3> QED BY <1>1, <2>2 DEF nets
  <2>6. ASSUME NEW i \in 1..n+1 PROVE Nets(more)[i] = added[i]
    <3>1. CASE i = n + 1
      <4>1. Nets(more)[n + 1] = Netstring(v)
        BY <2>1 DEF Nets
      <4> QED BY <3>1, <4>1, <2>5
    <3>2. CASE i \in 1..n
      <4>1. Nets(more)[i] = Netstring(to[i]) /\ nets[i] = Netstring(to[i])
        BY <2>1, <3>2 DEF Nets
      <4> QED BY <3>2, <4>1, <2>5
    <3>3. i = n + 1 \/ i \in 1..n
      BY <2>1
    <3> QED BY <3>1, <3>2, <3>3
  <2> HIDE DEF added, nets
  <2>7. Nets(more) = added
    BY <2>4, <2>5, <2>6, SeqEqual
  <2>8. FlattenSeq(added) = FlattenSeq(nets) \o Netstring(v)
    BY <1>1, <2>2, FlattenAppend DEF added, nets, Texts
  <2> QED BY <2>7, <2>8 DEF Envelope, nets, more
<1> QED BY <1>1, <1>2, <1>3

(* No recipients, no netstrings.                                           *)
LEMMA EmptyNets == Nets(<< >>) = << >>
<1>1. << >> \in Seq(Texts) /\ Len(<< >>) = 0
  OBVIOUS
<1>2. Nets(<< >>) \in Seq(Texts) /\ Len(Nets(<< >>)) = 0
  BY <1>1, EnvelopeFacts
<1> QED BY <1>2, EmptySeq

(* No netstrings, no bytes.                                                *)
LEMMA EmptyEnvelope == Envelope(<< >>) = << >>
BY EmptyNets, FlattenNone DEF Envelope

(* The empty text is neutral.                                              *)
LEMMA TextEmpty ==
  << >> \in Texts /\ \A s \in Texts : s \o << >> = s /\ << >> \o s = s
BY ConcatEmptySeq, EmptySeq DEF Texts

(* Middle for texts.                                                       *)
LEMMA TextMiddle ==
  \A s, t, u \in Texts : SubSeq(s \o (t \o u), Len(s) + 1, Len(s) + Len(t)) = t
BY Middle DEF Texts

(* What ParseSender takes for the tail.                                    *)
Ending(text, rest) == SubSeq(text, Len(text) - Len(rest), Len(text))

(* It starts with a character, if the text has one before its last piece.  *)
LEMMA TailOf ==
  ASSUME NEW s \in Texts, NEW c \in Characters, NEW t \in Texts,
         NEW whole, whole = Cat(s, Cat(<<c>>, t))
  PROVE  Ending(whole, t) = Cat(<<c>>, t)
<1> DEFINE k == <<c>>
           ct == k \o t
<1>1. k \in Texts /\ Len(k) = 1
  BY Singleton DEF Texts
<1> HIDE DEF k
<1>2. /\ ct \in Texts /\ Len(ct) = 1 + Len(t)
      /\ Len(s) \in Nat /\ Len(t) \in Nat
  BY <1>1, TextConcat
<1> HIDE DEF ct
<1>3. << >> \in Texts /\ ct \o << >> = ct
  BY <1>2, TextEmpty
<1>4. whole = s \o ct /\ whole = s \o (ct \o << >>)
  BY <1>3 DEF ct, k, Cat
<1>5. Len(whole) = Len(s) + 1 + Len(t)
  <2>1. Len(Cat(s, ct)) = Len(s) + Len(ct)
    BY <1>2, CatLength
  <2> QED BY <1>2, <1>4, <2>1 DEF Cat
<1>6. SubSeq(whole, Len(s) + 1, Len(s) + Len(ct)) = ct
  <2>1. SubSeq(s \o (ct \o << >>), Len(s) + 1, Len(s) + Len(ct)) = ct
    BY <1>2, <1>3, TextMiddle
  <2> QED BY <1>4, <2>1
<1>7. Len(whole) - Len(t) = Len(s) + 1 /\ Len(s) + Len(ct) = Len(whole)
  BY <1>2, <1>5
<1> QED BY <1>6, <1>7 DEF ct, k, Cat, Ending

(* The encoding of a mail by its three parts.                              *)
LEMMA EncodingIs ==
  ASSUME NEW text, NEW from, NEW to
  PROVE  Encoding(text, from, to) = Netstring(text) \o Netstring(from) \o Envelope(to)
BY DEF Encoding, Envelope, Nets

(* If the payload is the encoding of a text, it is that of a part of the   *)
(* payload, in the form that AcceptedIsMail asks for.                      *)
LEMMA EncodesWitness ==
  ASSUME NEW z \in Nat, NEW text \in Texts, NEW from \in Addresses,
         recipients \in Seq(Texts), z > 0 => text = << >>, message = StripLeft(text),
         payload = Zeroes(z) \o Encoding(text, from, recipients)
  PROVE  \E zeroes \in 0..Len(payload) : Encodes(zeroes)
<1> DEFINE d == Decimal[Len(text)]
           colons == <<":">>
           comma == <<Comma>>
           s == Zeroes(z) \o d \o colons
           u == comma \o Netstring(from) \o Envelope(recipients)
           zs == Zeroes(z)
           f == Netstring(from)
           e == Envelope(recipients)
<1>1. /\ zs \in Texts /\ Len(zs) = z /\ d \in Texts /\ f \in Texts /\ e \in Texts
      /\ colons \in Texts /\ comma \in Texts /\ Len(colons) = 1 /\ Len(comma) = 1
  <2>1. from \in Texts
    BY AddressesAssumption DEF Texts
  <2>2. colons \in Texts /\ comma \in Texts /\ Len(colons) = 1 /\ Len(comma) = 1
    BY CharacterFacts, Singleton DEF Texts
  <2>3. zs \in Texts /\ Len(zs) = z
    BY ZeroesFacts DEF Texts
  <2> HIDE DEF colons, comma
  <2> QED BY <2>1, <2>2, <2>3, NetstringFacts, EnvelopeFacts DEF Texts
<1>2. Netstring(text) = d \o colons \o text \o comma
  BY DEF Netstring, Comma
<1>3. payload = zs \o (d \o colons \o text \o comma \o f \o e)
  BY <1>2, EncodingIs
<1> HIDE DEF d, colons, comma, zs, f, e
<1>4. payload = (zs \o d \o colons) \o (text \o (comma \o f \o e))
  <2>1. payload = Cat(zs, Cat(Cat(Cat(Cat(Cat(d, colons), text), comma), f), e))
    BY <1>3 DEF Cat
  <2>2. /\ Cat(d, colons) \in Texts /\ Cat(Cat(d, colons), text) \in Texts
        /\ Cat(comma, f) \in Texts
    BY <1>1, CatFacts
  <2>3. Cat(Cat(comma, f), e) \in Texts
    BY <1>1, <2>2, CatFacts
  <2>4. Cat(Cat(Cat(Cat(d, colons), text), comma), f)
          = Cat(Cat(Cat(d, colons), text), Cat(comma, f))
    BY <1>1, <2>2, CatFacts
  <2>5. Cat(Cat(Cat(Cat(d, colons), text), Cat(comma, f)), e)
          = Cat(Cat(d, colons), Cat(text, Cat(Cat(comma, f), e)))
    BY <1>1, <2>2, <2>3, CatFacts
  <2>6. Cat(text, Cat(Cat(comma, f), e)) \in Texts
    BY <2>3, CatFacts
  <2>7. Cat(zs, Cat(Cat(d, colons), Cat(text, Cat(Cat(comma, f), e))))
          = Cat(Cat(Cat(zs, d), colons), Cat(text, Cat(Cat(comma, f), e)))
    <3>1. Cat(Cat(zs, d), colons) = Cat(zs, Cat(d, colons))
      BY <1>1, CatFacts
    <3> QED BY <1>1, <2>2, <2>6, <3>1, CatFacts
  <2>8. payload = Cat(Cat(Cat(zs, d), colons), Cat(text, Cat(Cat(comma, f), e)))
    BY <2>1, <2>4, <2>5, <2>7
  <2> QED BY <2>8 DEF Cat
<1> DEFINE ss == zs \o d \o colons
           uu == comma \o f \o e
<1>5. ss \in Texts /\ Len(ss) = z + Len(d) + 1 /\ Len(d) \in Nat
  <2>1. zs \o d \in Texts /\ Len(zs \o d) = Len(zs) + Len(d) /\ Len(d) \in Nat
    <3>1. Cat(zs, d) \in Texts /\ Len(Cat(zs, d)) = Len(zs) + Len(d) /\ Len(d) \in Nat
      BY <1>1, CatFacts, CatLength
    <3> QED BY <3>1 DEF Cat
  <2>2. PICK front \in Texts : front = zs \o d
    BY <2>1
  <2>3. Len(Cat(front, colons)) = Len(front) + 1 /\ Cat(front, colons) \in Texts
    BY <1>1, CatFacts, CatLength
  <2> QED BY <1>1, <2>1, <2>2, <2>3 DEF Cat
<1>6. uu \in Texts /\ Len(uu) = 1 + Len(f) + Len(e) /\ Len(f) \in Nat /\ Len(e) \in Nat
  <2>1. comma \o f \in Texts /\ Len(comma \o f) = 1 + Len(f)
    BY <1>1, TextConcat
  <2> QED BY <1>1, <2>1, TextConcat
<1> HIDE DEF ss, uu
<1>7. payload = ss \o (text \o uu)
  BY <1>4 DEF ss, uu
<1>8. text \o uu \in Texts /\ Len(text \o uu) = Len(text) + Len(uu) /\ Len(text) \in Nat
  BY <1>6, TextConcat
<1>9. Len(payload) = Len(ss) + Len(text) + Len(uu)
  <2>1. Len(ss \o (text \o uu)) = Len(ss) + Len(text \o uu)
    <3>1. Len(Cat(ss, text \o uu)) = Len(ss) + Len(text \o uu)
      BY <1>5, <1>8, CatLength
    <3> QED BY <3>1 DEF Cat
  <2> QED BY <1>5, <1>6, <1>7, <1>8, <2>1
<1> DEFINE i == Len(ss) + 1
           j == Len(ss) + Len(text)
<1>10. i \in 1..Len(payload) /\ j \in 0..Len(payload) /\ z \in 0..Len(payload)
  BY <1>5, <1>6, <1>8, <1>9
<1>11. SubSeq(payload, i, j) = text
  BY <1>5, <1>6, <1>7, TextMiddle
<1>12. payload = [n \in 1..z |-> "0"] \o Encoding(SubSeq(payload, i, j), from, recipients)
  BY <1>11 DEF Zeroes
<1> HIDE DEF i, j
<1>13. Encodes(z)
  BY <1>10, <1>11, <1>12 DEF Encodes
<1> QED BY <1>10, <1>13

-----------------------------------------------------------------------------
(* The invariant: what Parse() has consumed, and what the fields point to. *)

(* What Parse() expects next, or its result.                               *)
States == {"message", "sender", "recipients", "SUCCESS"} \cup Failures

(* The type invariant: all fields are texts or sequences of texts, made of *)
(* the same characters as the payload.                                     *)
TypeOK ==
  /\ payload \in Texts /\ input \in Texts /\ state \in States
  /\ message \in Texts /\ sender \in Texts /\ tail \in Texts
  /\ recipients \in Seq(Texts) /\ headers \in Seq(Texts) /\ request \in Seq(Texts)

(* The payload is the encoding of what was found, with z zeroes too many,  *)
(* and of what is left; the message is stripped in the end.                *)
Parsed(z, text, from) ==
  /\ z > 0 => text = << >>
  /\ payload = Zeroes(z) \o Encoding(text, from, recipients) \o input
  /\ message = IF state = "recipients" THEN text ELSE StripLeft(text)

(* The same at each stage. The tail has the comma of the sender, the       *)
(* recipients found so far, and what is left: in the end, all of them.     *)
Consumed ==
  /\ state = "message" => input = payload
  /\ state = "sender" =>
       \E z \in Nat : /\ z > 0 => message = << >>
                      /\ payload = Zeroes(z) \o Netstring(message) \o input
  /\ state \in {"message", "sender"} => recipients = << >>
  /\ state \in {"recipients", "SUCCESS"} =>
       /\ \E z \in Nat, text \in Texts, from \in Addresses : Parsed(z, text, from)
       /\ tail = <<Comma>> \o Envelope(recipients) \o input
  /\ state = "SUCCESS" => input = << >>

(* RelayedMail needs that a request is made after Parse() has ended only.  *)
IInv ==
  /\ TypeOK
  /\ Consumed
  /\ request # << >> => state = "SUCCESS"
  /\ RelayedMail

-----------------------------------------------------------------------------
(* Each step preserves it.                                                 *)

(* At first, everything is left.                                           *)
LEMMA InitIInv == Init => IInv
<1> SUFFICES ASSUME Init PROVE IInv
  OBVIOUS
<1>1. << >> \in Texts /\ << >> \in Seq(Texts)
  BY DEF Texts
<1>2. payload \in Texts
  BY CharactersAssumption DEF Init, Texts
<1> QED BY <1>1, <1>2 DEF Init, IInv, TypeOK, Consumed, RelayedMail, States

(* When nothing is left, the payload is the encoding of what was found.    *)
LEMMA AcceptedFromIInv == IInv => AcceptedIsMail
<1> SUFFICES ASSUME IInv, state = "SUCCESS"
             PROVE  \E zeroes \in 0..Len(payload) : Encodes(zeroes)
  BY DEF AcceptedIsMail
<1>1. recipients \in Seq(Texts) /\ input = << >>
  BY DEF IInv, TypeOK, Consumed
<1>2. PICK z \in Nat, text \in Texts, from \in Addresses : Parsed(z, text, from)
  BY DEF IInv, Consumed
<1>3. from \in Texts
  BY AddressesAssumption DEF Texts
<1> DEFINE whole == Zeroes(z) \o Encoding(text, from, recipients)
<1>4. whole \in Texts
  <2>1. Netstring(text) \in Texts /\ Netstring(from) \in Texts /\ Envelope(recipients) \in Texts
    BY <1>1, <1>3, NetstringFacts, EnvelopeFacts DEF Texts
  <2>2. Encoding(text, from, recipients) \in Texts
    <3>1. Netstring(text) \o Netstring(from) \in Texts
      BY <2>1, TextConcat
    <3> QED BY <2>1, <3>1, TextConcat, EncodingIs
  <2>3. Zeroes(z) \in Texts
    BY ZeroesFacts DEF Texts
  <2> QED BY <2>2, <2>3, TextConcat
<1>5. payload = whole /\ message = StripLeft(text) /\ (z > 0 => text = << >>)
  <2>1. payload = whole \o << >>
    BY <1>1, <1>2 DEF Parsed
  <2>2. whole \o << >> = whole
    <3> HIDE DEF whole
    <3> QED BY <1>4, TextEmpty
  <2> QED BY <1>2, <2>1, <2>2 DEF Parsed
<1> QED BY <1>1, <1>5, EncodesWitness

(* TextEmpty, for Cat.                                                     *)
LEMMA CatEmpty == << >> \in Texts /\ \A s \in Texts : Cat(s, << >>) = s /\ Cat(<< >>, s) = s
BY TextEmpty DEF Cat

(* ParseIsSound, for Cat.                                                  *)
LEMMA TextParse ==
  ASSUME NEW bytes \in Texts, NEW netstring \in ParseNetstring(bytes)
  PROVE  /\ netstring.value \in Texts /\ netstring.rest \in Texts
         /\ \E z \in Nat :
              /\ z > 0 => netstring.value = << >>
              /\ bytes = Cat(Cat(Zeroes(z), Netstring(netstring.value)), netstring.rest)
BY ParseIsSound DEF Texts, Cat

(* The netstring of a text is a text.                                      *)
LEMMA NetstringText == \A v \in Texts : Netstring(v) \in Texts
BY NetstringFacts DEF Texts

(* An address is not empty, therefore its length has no leading zero.      *)
LEMMA AddressParse ==
  ASSUME NEW bytes \in Texts, NEW netstring \in ParseNetstring(bytes),
         netstring.value \in Addresses
  PROVE  bytes = Cat(Netstring(netstring.value), netstring.rest)
<1>1. PICK z \in Nat : /\ z > 0 => netstring.value = << >>
                       /\ bytes = Cat(Cat(Zeroes(z), Netstring(netstring.value)), netstring.rest)
  BY TextParse
<1>2. netstring.value # << >> /\ netstring.value \in Texts
  BY AddressesAssumption DEF Texts
<1>3. z = 0 /\ Zeroes(0) = << >>
  BY <1>1, <1>2, ZeroesFacts
<1>4. Cat(<< >>, Netstring(netstring.value)) = Netstring(netstring.value)
  BY <1>2, NetstringText, CatEmpty
<1> QED BY <1>1, <1>3, <1>4

(* Where the tail starts: at the comma of the netstring before it.         *)
LEMMA TailAfter ==
  ASSUME NEW s \in Texts, NEW v \in Texts, NEW rest \in Texts,
         NEW whole, whole = Cat(s, Cat(Netstring(v), rest))
  PROVE  Ending(whole, rest) = Cat(<<Comma>>, rest)
<1> DEFINE d == Decimal[Len(v)]
           colon == <<":">>
           comma == <<Comma>>
           head == Cat(Cat(d, colon), v)
<1>1. Netstring(v) = Cat(head, comma)
  BY DEF Netstring, Comma, Cat
<1>2. d \in Texts /\ colon \in Texts /\ comma \in Texts
  BY NetstringFacts, CharacterFacts, Singleton DEF Texts
<1> HIDE DEF d, colon, comma
<1>3. Cat(d, colon) \in Texts
  BY <1>2, CatFacts
<1>4. head \in Texts
  BY <1>3, CatFacts
<1> HIDE DEF head
<1>5. Cat(comma, rest) \in Texts /\ Cat(s, head) \in Texts
  BY <1>2, <1>4, CatFacts
<1>6. Cat(Netstring(v), rest) = Cat(head, Cat(comma, rest))
  BY <1>1, <1>2, <1>4, CatFacts
<1>7. Cat(s, Cat(head, Cat(comma, rest))) = Cat(Cat(s, head), Cat(comma, rest))
  BY <1>4, <1>5, CatFacts
<1>8. PICK before \in Texts : before = Cat(s, head)
  BY <1>5
<1>9. whole = Cat(before, Cat(<<Comma>>, rest))
  BY <1>6, <1>7, <1>8 DEF comma
<1>10. Comma \in Characters
  BY CharacterFacts
<1> HIDE DEF Cat
<1> QED BY <1>9, <1>10, TailOf

(* The message may be preceded by zeroes, in which case it is empty.       *)
LEMMA ParseMessageStep == IInv /\ ParseMessage => IInv'
<1> SUFFICES ASSUME IInv, ParseMessage PROVE IInv'
  OBVIOUS
<1>1. /\ state = "message" /\ TypeOK /\ input = payload /\ recipients = << >>
      /\ request = << >> /\ payload \in Texts /\ input \in Texts
  BY DEF IInv, TypeOK, Consumed, ParseMessage
<1>2. UNCHANGED <<payload, sender, tail, recipients, headers, request>>
  BY DEF ParseMessage
<1>3. RelayedMail' /\ (request # << >> => state = "SUCCESS")'
  BY <1>1, <1>2 DEF RelayedMail
<1>4. CASE state' = "MALFORMED" /\ UNCHANGED <<input, message>>
  <2>1. TypeOK'
    BY <1>1, <1>2, <1>4 DEF TypeOK, States, Failures
  <2>2. Consumed'
    BY <1>4 DEF Consumed
  <2> QED BY <1>3, <2>1, <2>2 DEF IInv
<1>5. ASSUME NEW netstring \in ParseNetstring(input),
             message' = netstring.value, input' = netstring.rest, state' = "sender"
      PROVE  IInv'
  <2>1. netstring.value \in Texts /\ netstring.rest \in Texts
    BY <1>1, TextParse
  <2>2. PICK z \in Nat :
          /\ z > 0 => netstring.value = << >>
          /\ input = Cat(Cat(Zeroes(z), Netstring(netstring.value)), netstring.rest)
    BY <1>1, TextParse
  <2>3. TypeOK'
    BY <1>1, <1>2, <1>5, <2>1 DEF TypeOK, States
  <2>4. payload' = Zeroes(z) \o Netstring(message') \o input'
    <3>1. payload' = Cat(Cat(Zeroes(z), Netstring(message')), input')
      BY <1>1, <1>2, <1>5, <2>2
    <3> QED BY <3>1 DEF Cat
  <2>5. Consumed'
    BY <1>1, <1>2, <1>5, <2>2, <2>4 DEF Consumed
  <2> QED BY <1>3, <2>3, <2>5 DEF IInv
<1> QED BY <1>4, <1>5 DEF ParseMessage

(* The sender is an address; the tail starts at its comma.                 *)
LEMMA ParseSenderStep == IInv /\ ParseSender => IInv'
<1> SUFFICES ASSUME IInv, ParseSender PROVE IInv'
  OBVIOUS
<1>1. /\ state = "sender" /\ TypeOK /\ recipients = << >> /\ request = << >>
      /\ payload \in Texts /\ input \in Texts /\ message \in Texts
  BY DEF IInv, TypeOK, Consumed, ParseSender
<1>2. UNCHANGED <<payload, message, recipients, headers, request>>
  BY DEF ParseSender
<1>3. RelayedMail' /\ (request # << >> => state = "SUCCESS")'
  BY <1>1, <1>2 DEF RelayedMail
<1>4. CASE state' \in Failures /\ input' \in Texts /\ UNCHANGED <<sender, tail>>
  <2>1. TypeOK'
    BY <1>1, <1>2, <1>4 DEF TypeOK, States
  <2>2. Consumed'
    BY <1>4 DEF Consumed, Failures
  <2> QED BY <1>3, <2>1, <2>2 DEF IInv
<1>5. ASSUME NEW netstring \in ParseNetstring(input), netstring.value \in Addresses,
             input' = netstring.rest, sender' = netstring.value,
             tail' = TailFrom(netstring.rest), state' = "recipients"
      PROVE  IInv'
  <2> DEFINE from == netstring.value
             rest == netstring.rest
             n == Netstring(message)
             f == Netstring(from)
  <2>1. from \in Texts /\ rest \in Texts /\ from \in Addresses
    BY <1>1, <1>5, TextParse
  <2>2. PICK z \in Nat : /\ z > 0 => message = << >>
                         /\ payload = Zeroes(z) \o Netstring(message) \o input
    BY <1>1 DEF IInv, Consumed
  <2>3. input = Cat(f, rest)
    BY <1>1, <1>5, AddressParse
  <2> DEFINE zs == Zeroes(z)
  <2>4. n \in Texts /\ f \in Texts /\ zs \in Texts
    BY <1>1, <2>1, NetstringText, ZeroesFacts DEF Texts
  <2>5. payload = Cat(Cat(zs, n), Cat(f, rest))
    BY <2>2, <2>3 DEF Cat
  <2> HIDE DEF zs, f, n, rest, from
  <2>6. Cat(zs, n) \in Texts /\ Cat(n, f) \in Texts
    BY <2>4, CatFacts
  <2>7. tail' = Cat(<<Comma>>, rest)
    <3>1. PICK before \in Texts : before = Cat(zs, n)
      BY <2>6
    <3>2. payload = Cat(before, Cat(Netstring(from), rest))
      BY <2>5, <3>1 DEF f
    <3>3. Ending(payload, rest) = Cat(<<Comma>>, rest)
      BY <2>1, <3>2, TailAfter
    <3> QED BY <1>5, <3>3 DEF TailFrom, Ending, rest
  <2>8. <<Comma>> \in Texts
    BY CharacterFacts, Singleton DEF Texts
  <2>9. Envelope(recipients') = << >> /\ Nets(recipients') = << >>
    <3>1. Nets(<< >>) = << >>
      BY EmptyNets
    <3> QED BY <1>1, <1>2, <3>1, EmptyEnvelope
  <2>10. tail' = <<Comma>> \o Envelope(recipients') \o input'
    <3>1. tail' = Cat(Cat(<<Comma>>, Envelope(recipients')), input')
      BY <1>5, <2>7, <2>8, <2>9, CatEmpty DEF rest
    <3> QED BY <3>1 DEF Cat
  <2>11. Parsed(z, message, from)'
    <3>1. Encoding(message, from, recipients') = Cat(n, f)
      <4>1. Encoding(message, from, recipients') = Cat(Cat(n, f), Envelope(recipients'))
        BY EncodingIs DEF Cat, n, f
      <4> QED BY <2>6, <2>9, <4>1, CatEmpty
    <3>2. payload = Cat(Cat(zs, Cat(n, f)), rest)
      <4>1. Cat(Cat(zs, n), Cat(f, rest)) = Cat(Cat(Cat(zs, n), f), rest)
        <5>1. rest \in Texts
          BY <2>1 DEF rest
        <5> QED BY <2>4, <2>6, <5>1, CatFacts
      <4>2. Cat(Cat(zs, n), f) = Cat(zs, Cat(n, f))
        BY <2>4, CatFacts
      <4> QED BY <2>5, <4>1, <4>2
    <3>3. payload' = Zeroes(z) \o Encoding(message', from, recipients') \o input'
      <4>1. payload' = Cat(Cat(Zeroes(z), Encoding(message', from, recipients')), input')
        BY <1>2, <1>5, <3>1, <3>2 DEF zs, rest
      <4> QED BY <4>1 DEF Cat
    <3> QED BY <1>2, <1>5, <2>2, <3>3 DEF Parsed, from
  <2>12. TypeOK'
    <3>1. tail' \in Texts
      BY <2>1, <2>7, <2>8, CatFacts DEF rest
    <3> QED BY <1>1, <1>2, <1>5, <2>1, <3>1 DEF TypeOK, States, from, rest
  <2>13. Consumed'
    <3>1. message' \in Texts /\ from \in Addresses
      BY <1>1, <1>2, <2>1
    <3>2. \E z1 \in Nat, text1 \in Texts, from1 \in Addresses : Parsed(z1, text1, from1)'
      BY <2>1, <2>11, <1>1, <1>2
    <3> QED BY <1>5, <2>10, <3>2 DEF Consumed
  <2> QED BY <1>3, <2>12, <2>13 DEF IInv
<1>6. ASSUME NEW netstring \in ParseNetstring(input), input' = netstring.rest
      PROVE  input' \in Texts
  BY <1>1, <1>6, TextParse
<1> QED BY <1>1, <1>4, <1>5, <1>6 DEF ParseSender, Failures

(* A recipient moves from what is left to what was found, and the tail     *)
(* stays what it is. The last one ends Parse(), and the message is         *)
(* stripped.                                                               *)
LEMMA ParseRecipientStep == IInv /\ ParseRecipient => IInv'
<1> SUFFICES ASSUME IInv, ParseRecipient PROVE IInv'
  OBVIOUS
<1>1. /\ state = "recipients" /\ TypeOK /\ request = << >>
      /\ payload \in Texts /\ input \in Texts /\ message \in Texts
      /\ recipients \in Seq(Texts)
  BY DEF IInv, TypeOK, ParseRecipient
<1>2. UNCHANGED <<payload, sender, tail, headers, request>>
  BY DEF ParseRecipient
<1>3. RelayedMail' /\ (request # << >> => state = "SUCCESS")'
  BY <1>1, <1>2 DEF RelayedMail
<1>4. CASE state' \in Failures /\ input' \in Texts /\ UNCHANGED <<recipients, message>>
  <2>1. TypeOK'
    BY <1>1, <1>2, <1>4 DEF TypeOK, States
  <2>2. Consumed'
    BY <1>4 DEF Consumed, Failures
  <2> QED BY <1>3, <2>1, <2>2 DEF IInv
<1>5. ASSUME NEW netstring \in ParseNetstring(input), netstring.value \in Addresses,
             input' = netstring.rest,
             recipients' = Append(recipients, netstring.value),
             IF input' = << >>
             THEN state' = "SUCCESS" /\ message' = StripLeft(message)
             ELSE UNCHANGED <<state, message>>
      PROVE  IInv'
  <2> DEFINE to == netstring.value
             rest == netstring.rest
             e == Envelope(recipients)
             t == Netstring(to)
  <2>1. to \in Texts /\ rest \in Texts
    BY <1>1, <1>5, TextParse
  <2>2. PICK z \in Nat, text \in Texts, from \in Addresses : Parsed(z, text, from)
    BY <1>1 DEF IInv, Consumed
  <2> DEFINE zs == Zeroes(z)
             m == Netstring(text)
             f == Netstring(from)
             comma == <<Comma>>
  <2>3. /\ payload = zs \o Encoding(text, from, recipients) \o input
        /\ tail = comma \o e \o input
        /\ message = text
    BY <1>1, <2>2 DEF IInv, Consumed, Parsed
  <2>4. /\ zs \in Texts /\ m \in Texts /\ f \in Texts /\ e \in Texts /\ t \in Texts
        /\ comma \in Texts
    <3>1. from \in Texts
      BY AddressesAssumption DEF Texts
    <3>2. comma \in Texts
      BY CharacterFacts, Singleton DEF Texts
    <3>3. zs \in Texts
      BY ZeroesFacts DEF Texts
    <3> HIDE DEF comma, zs
    <3> QED BY <1>1, <2>1, <3>1, <3>2, <3>3, NetstringText, EnvelopeFacts
  <2>5. input = Cat(t, rest)
    BY <1>1, <1>5, AddressParse
  <2>6. Envelope(recipients') = Cat(e, t)
    <3>1. Envelope(Append(recipients, to)) = Envelope(recipients) \o Netstring(to)
      BY <1>1, <2>1, EnvelopeFacts
    <3> QED BY <1>5, <3>1 DEF Cat
  <2>7. Encoding(text, from, recipients) = Cat(Cat(m, f), e)
    BY EncodingIs DEF Cat
  <2>8. Encoding(text, from, recipients') = Cat(Cat(m, f), Cat(e, t))
    <3>1. Encoding(text, from, recipients') = Cat(Cat(m, f), Envelope(recipients'))
      BY EncodingIs DEF Cat
    <3> QED BY <2>6, <3>1
  <2>9. /\ payload = Cat(Cat(zs, Encoding(text, from, recipients)), input)
        /\ tail = Cat(Cat(comma, e), input)
    BY <2>3 DEF Cat
  <2> HIDE DEF zs, m, f, e, t, comma, rest, to
  <2>10. Cat(m, f) \in Texts /\ Cat(e, t) \in Texts /\ Cat(comma, e) \in Texts
    BY <2>4, CatFacts
  <2>11. Cat(Cat(m, f), e) \in Texts
    BY <2>4, <2>10, CatFacts
  <2>12. tail' = Cat(Cat(comma, Envelope(recipients')), input')
    <3>1. Cat(Cat(comma, e), Cat(t, rest)) = Cat(Cat(Cat(comma, e), t), rest)
      BY <2>1, <2>4, <2>10, CatFacts
    <3>2. Cat(Cat(comma, e), t) = Cat(comma, Cat(e, t))
      BY <2>4, CatFacts
    <3> QED BY <1>2, <1>5, <2>5, <2>6, <2>9, <3>1, <3>2 DEF rest
  <2>13. payload' = Cat(Cat(zs, Encoding(text, from, recipients')), input')
    <3> DEFINE mf == Cat(m, f)
    <3>1. Cat(Cat(zs, Cat(mf, e)), Cat(t, rest)) = Cat(Cat(Cat(zs, Cat(mf, e)), t), rest)
      <4>1. Cat(zs, Cat(mf, e)) \in Texts
        BY <2>4, <2>11, CatFacts
      <4> QED BY <2>1, <2>4, <4>1, CatFacts
    <3>2. Cat(Cat(zs, Cat(mf, e)), t) = Cat(zs, Cat(Cat(mf, e), t))
      BY <2>4, <2>11, CatFacts
    <3>3. Cat(Cat(mf, e), t) = Cat(mf, Cat(e, t))
      BY <2>4, <2>10, CatFacts
    <3> QED BY <1>2, <1>5, <2>5, <2>7, <2>8, <2>9, <3>1, <3>2, <3>3 DEF rest
  <2>14. TypeOK'
    <3>1. recipients' \in Seq(Texts)
      BY <1>1, <1>5, <2>1, Appended DEF to
    <3>2. message' \in Texts /\ state' \in {"recipients", "SUCCESS"}
      BY <1>1, <1>5, StripLeftType DEF Texts
    <3> QED BY <1>1, <1>2, <1>5, <2>1, <3>1, <3>2 DEF TypeOK, States, rest
  <2>15. Parsed(z, text, from)'
    <3>1. message' = IF state' = "recipients" THEN text ELSE StripLeft(text)
      BY <1>1, <1>5, <2>3
    <3>2. payload' = Zeroes(z) \o Encoding(text, from, recipients') \o input'
      BY <2>13 DEF Cat, zs
    <3> QED BY <2>2, <3>1, <3>2 DEF Parsed
  <2>16. Consumed'
    <3>1. \E z1 \in Nat, text1 \in Texts, from1 \in Addresses : Parsed(z1, text1, from1)'
      BY <2>2, <2>15
    <3>2. tail' = <<Comma>> \o Envelope(recipients') \o input'
      BY <2>12 DEF Cat, comma
    <3>3. state' \in {"recipients", "SUCCESS"} /\ (state' = "SUCCESS" => input' = << >>)
      BY <1>1, <1>5
    <3> QED BY <3>1, <3>2, <3>3 DEF Consumed
  <2> QED BY <1>3, <2>14, <2>16 DEF IInv
<1>6. ASSUME NEW netstring \in ParseNetstring(input), input' = netstring.rest
      PROVE  input' \in Texts
  BY <1>1, <1>6, TextParse
<1> QED BY <1>1, <1>4, <1>5, <1>6 DEF ParseRecipient, Failures

-----------------------------------------------------------------------------
(* The script, and the request for the next hop.                           *)

(* The script changes neither what was found nor the tail.                 *)
LEMMA ScriptStep == IInv /\ (InsertHeader \/ SetSender) => IInv'
<1> SUFFICES ASSUME IInv, InsertHeader \/ SetSender PROVE IInv'
  OBVIOUS
<1>1. /\ UNCHANGED <<payload, input, state, message, tail, recipients, request>>
      /\ request = << >> /\ TypeOK
  BY DEF IInv, InsertHeader, SetSender, Editable
<1>2. Consumed'
  BY <1>1 DEF IInv, Consumed, Parsed
<1>3. sender' \in Texts /\ headers' \in Seq(Texts)
  <2>1. CASE InsertHeader
    <3>1. PICK line \in HeaderLines : headers' = <<line>> \o headers
      BY <2>1 DEF InsertHeader
    <3>2. line \in Texts
      BY CharactersAssumption DEF Texts
    <3>3. <<line>> \in Seq(Texts)
      BY <3>2, Singleton
    <3> QED BY <1>1, <2>1, <3>1, <3>3, Concat DEF TypeOK, InsertHeader
  <2>2. CASE SetSender
    BY <1>1, <2>2, AddressesAssumption DEF TypeOK, SetSender, Texts
  <2> QED BY <2>1, <2>2
<1>4. TypeOK'
  BY <1>1, <1>3 DEF TypeOK
<1> QED BY <1>1, <1>2, <1>4 DEF IInv, RelayedMail

(* Four texts, flattened.                                                  *)
LEMMA FlattenFour ==
  ASSUME NEW a \in Texts, NEW b \in Texts, NEW c \in Texts, NEW d \in Texts
  PROVE  /\ <<a, b, c, d>> \in Seq(Texts)
         /\ FlattenSeq(<<a, b, c, d>>) = Cat(Cat(Cat(a, b), c), d)
<1>1. <<a>> \in Seq(Texts) /\ FlattenSeq(<<a>>) = a
  BY Singleton, FlattenOne DEF Texts
<1>2. <<a, b>> \in Seq(Texts) /\ FlattenSeq(<<a, b>>) = Cat(a, b)
  <2>1. <<a, b>> = Append(<<a>>, b)
    OBVIOUS
  <2>2. FlattenSeq(Append(<<a>>, b)) = FlattenSeq(<<a>>) \o b
    BY <1>1, FlattenAppend DEF Texts
  <2> QED BY <1>1, <2>1, <2>2, Appended DEF Cat
<1>3. <<a, b, c>> \in Seq(Texts) /\ FlattenSeq(<<a, b, c>>) = Cat(Cat(a, b), c)
  <2>1. <<a, b, c>> = Append(<<a, b>>, c)
    OBVIOUS
  <2>2. FlattenSeq(Append(<<a, b>>, c)) = FlattenSeq(<<a, b>>) \o c
    BY <1>2, FlattenAppend DEF Texts
  <2> QED BY <1>2, <2>1, <2>2, Appended DEF Cat
<1>4. <<a, b, c, d>> = Append(<<a, b, c>>, d)
  OBVIOUS
<1>5. FlattenSeq(Append(<<a, b, c>>, d)) = FlattenSeq(<<a, b, c>>) \o d
  BY <1>3, FlattenAppend DEF Texts
<1> QED BY <1>3, <1>4, <1>5, Appended DEF Cat

(* The buffers of a request, flattened: the first, those of the text, and  *)
(* the last ones.                                                          *)
LEMMA FlattenPieces ==
  ASSUME NEW first \in Texts, NEW pieces \in Seq(Texts), NEW last \in Seq(Texts)
  PROVE  /\ (<<first>> \o pieces) \o last \in Seq(Texts)
         /\ (<<first>> \o pieces) \o last # << >>
         /\ FlattenSeq((<<first>> \o pieces) \o last)
              = Cat(Cat(first, FlattenSeq(pieces)), FlattenSeq(last))
<1> DEFINE one == <<first>>
<1>1. one \in Seq(Texts) /\ Len(one) = 1 /\ FlattenSeq(one) = first
  BY Singleton, FlattenOne DEF Texts
<1> HIDE DEF one
<1>2. PICK both \in Seq(Texts) : both = one \o pieces /\ Len(both) = 1 + Len(pieces)
  <2>1. one \o pieces \in Seq(Texts) /\ Len(one \o pieces) = 1 + Len(pieces)
    BY <1>1, Concat
  <2> QED BY <2>1, Zenon
<1>3. FlattenSeq(both) = FlattenSeq(one) \o FlattenSeq(pieces)
  BY <1>1, <1>2, FlattenConcat DEF Texts
<1>4. both \o last \in Seq(Texts) /\ Len(both \o last) = Len(both) + Len(last)
  BY <1>2, Concat
<1>5. FlattenSeq(both \o last) = FlattenSeq(both) \o FlattenSeq(last)
  BY <1>2, FlattenConcat DEF Texts
<1>6. both \o last # << >>
  <2>1. Len(both \o last) > 0
    BY <1>2, <1>4
  <2> QED BY <2>1
<1>7. both = <<first>> \o pieces
  BY <1>2 DEF one
<1> QED BY <1>1, <1>3, <1>4, <1>5, <1>6, <1>7 DEF Cat

(* The buffers that BasicRelay collects, in this form.                     *)
LEMMA BasicRelayPieces ==
  ASSUME NEW h
  PROVE  BasicRelay(h)
           = (<<Cat(Decimal[Len(FlattenSeq(Append(h, message)))], <<":">>)>>
                \o Append(h, message))
             \o <<<<Comma>>, Cat(Decimal[Len(sender)], <<":">>), sender, tail>>
BY Zenon DEF BasicRelay, Comma, Cat

(* Together they are a netstring for headers and message, one for the      *)
(* sender, and the recipients, if the tail has a comma before them.        *)
LEMMA BasicRelayIs ==
  ASSUME TypeOK, NEW h \in Seq(Texts), NEW e \in Texts, tail = Cat(<<Comma>>, e)
  PROVE  /\ BasicRelay(h) \in Seq(Texts) /\ BasicRelay(h) # << >>
         /\ FlattenSeq(BasicRelay(h))
              = Cat(Cat(Netstring(Cat(FlattenSeq(h), message)), Netstring(sender)), e)
<1> DEFINE pieces == Append(h, message)
           body == FlattenSeq(pieces)
           colon == <<":">>
           comma == <<Comma>>
           d == Decimal[Len(body)]
           ds == Decimal[Len(sender)]
           first == Cat(d, colon)
           second == Cat(ds, colon)
           last == <<comma, second, sender, tail>>
<1>1. message \in Texts /\ sender \in Texts /\ tail \in Texts
  BY DEF TypeOK
<1>2. pieces \in Seq(Texts) /\ body \in Texts /\ body = Cat(FlattenSeq(h), message)
  <2>1. pieces \in Seq(Texts)
    BY <1>1, Appended
  <2>2. FlattenSeq(Append(h, message)) = FlattenSeq(h) \o message
    BY <1>1, FlattenAppend DEF Texts
  <2> QED BY <2>1, <2>2, FlattenType DEF Texts, Cat
<1>3. colon \in Texts /\ comma \in Texts
  BY CharacterFacts, Singleton DEF Texts
<1> HIDE DEF pieces, body, colon, comma
<1>4. d \in Texts /\ ds \in Texts
  BY <1>1, <1>2, NetstringFacts DEF Texts
<1>5. /\ Netstring(body) = Cat(Cat(first, body), comma)
      /\ Netstring(sender) = Cat(Cat(second, sender), comma)
  BY DEF Netstring, Comma, Cat, colon, comma
<1> HIDE DEF d, ds
<1>6. first \in Texts /\ second \in Texts
  BY <1>3, <1>4, CatFacts
<1> HIDE DEF first, second
<1>7. last \in Seq(Texts) /\ FlattenSeq(last) = Cat(Cat(Cat(comma, second), sender), tail)
  BY <1>1, <1>3, <1>6, FlattenFour
<1> HIDE DEF last
<1>8. BasicRelay(h) = (<<first>> \o pieces) \o last
  BY BasicRelayPieces DEF pieces, body, colon, comma, d, ds, first, second, last
<1>9. /\ BasicRelay(h) \in Seq(Texts) /\ BasicRelay(h) # << >>
      /\ FlattenSeq(BasicRelay(h)) = Cat(Cat(first, body), FlattenSeq(last))
  <2>1. /\ (<<first>> \o pieces) \o last \in Seq(Texts)
        /\ (<<first>> \o pieces) \o last # << >>
        /\ FlattenSeq((<<first>> \o pieces) \o last)
             = Cat(Cat(first, FlattenSeq(pieces)), FlattenSeq(last))
    BY <1>2, <1>6, <1>7, FlattenPieces
  <2> QED BY <1>8, <2>1 DEF body
<1>10. Cat(Cat(first, body), Cat(Cat(Cat(comma, second), sender), tail))
         = Cat(Cat(Cat(Cat(first, body), comma), Cat(Cat(second, sender), comma)), e)
  <2>1. PICK b \in Texts : b = Cat(first, body)
    BY <1>2, <1>6, CatFacts
  <2>2. PICK s \in Texts : s = Cat(second, sender)
    BY <1>1, <1>6, CatFacts
  <2>3. Cat(Cat(comma, second), sender) = Cat(comma, s)
    BY <1>1, <1>3, <1>6, <2>2, CatFacts
  <2>4. Cat(Cat(comma, s), tail) = Cat(comma, Cat(s, tail))
    BY <1>1, <1>3, <2>2, CatFacts
  <2>5. Cat(s, tail) \in Texts /\ Cat(s, comma) \in Texts /\ Cat(b, comma) \in Texts
    BY <1>1, <1>3, CatFacts
  <2>6. Cat(b, Cat(comma, Cat(s, tail))) = Cat(Cat(b, comma), Cat(s, tail))
    BY <1>3, <2>5, CatFacts
  <2>7. Cat(s, Cat(comma, e)) = Cat(Cat(s, comma), e)
    BY <1>3, CatFacts
  <2>8. Cat(Cat(b, comma), Cat(Cat(s, comma), e)) = Cat(Cat(Cat(b, comma), Cat(s, comma)), e)
    BY <2>5, CatFacts
  <2>9. tail = Cat(comma, e)
    BY DEF comma
  <2> QED BY <2>1, <2>2, <2>3, <2>4, <2>6, <2>7, <2>8, <2>9
<1> QED BY <1>2, <1>5, <1>7, <1>9, <1>10

(* What BasicRelay collects is the encoding of the mail with the headers   *)
(* of AssembleHeaders().                                                   *)
LEMMA RelayStep == IInv /\ Relay => IInv'
<1> SUFFICES ASSUME IInv, Relay PROVE IInv'
  OBVIOUS
<1>1. /\ UNCHANGED <<payload, input, state, message, sender, tail, recipients, headers>>
      /\ state = "SUCCESS" /\ TypeOK
      /\ input = << >> /\ recipients \in Seq(Texts) /\ headers \in Seq(Texts)
      /\ message \in Texts /\ sender \in Texts
  BY DEF IInv, TypeOK, Consumed, Relay, Editable
<1>2. PICK credentials \in BOOLEAN : request' = BasicRelay(AssembleHeaders(credentials))
  BY DEF Relay
<1> DEFINE received == IF credentials THEN ReceivedLine ELSE << >>
           h == AssembleHeaders(credentials)
           e == Envelope(recipients)
<1>3. /\ h \in Seq(Texts) /\ received \in Texts
      /\ FlattenSeq(h) = Cat(FlattenSeq(headers), received)
  <2>1. ReceivedLine \in Texts
    BY CharactersAssumption DEF Texts
  <2>2. CASE credentials
    <3>1. h = headers \o <<ReceivedLine>> /\ received = ReceivedLine
      BY <2>2 DEF AssembleHeaders
    <3>2. <<ReceivedLine>> \in Seq(Texts) /\ FlattenSeq(<<ReceivedLine>>) = ReceivedLine
      BY <2>1, Singleton, FlattenOne DEF Texts
    <3>3. FlattenSeq(headers \o <<ReceivedLine>>)
            = FlattenSeq(headers) \o FlattenSeq(<<ReceivedLine>>)
      BY <1>1, <3>2, FlattenConcat DEF Texts
    <3>4. headers \o <<ReceivedLine>> \in Seq(Texts)
      BY <1>1, <3>2, Concat
    <3> QED BY <2>1, <3>1, <3>2, <3>3, <3>4 DEF Cat
  <2>3. CASE ~credentials
    <3>1. h = headers \o << >> /\ received = << >>
      BY <2>3 DEF AssembleHeaders
    <3>2. headers \o << >> = headers
      BY <1>1, ConcatEmptySeq
    <3>3. FlattenSeq(headers) \in Texts
      BY <1>1, FlattenType DEF Texts
    <3> QED BY <1>1, <3>1, <3>2, <3>3, CatEmpty
  <2> QED BY <2>2, <2>3
<1>4. e \in Texts /\ tail = Cat(<<Comma>>, e)
  <2>1. e \in Texts
    BY <1>1, EnvelopeFacts
  <2>2. tail = Cat(Cat(<<Comma>>, e), << >>)
    BY <1>1 DEF IInv, Consumed, Cat
  <2>3. <<Comma>> \in Texts
    BY CharacterFacts, Singleton DEF Texts
  <2>4. Cat(<<Comma>>, e) \in Texts
    BY <2>1, <2>3, CatFacts
  <2> QED BY <2>1, <2>2, <2>4, CatEmpty
<1> HIDE DEF received, h, e
<1>5. /\ BasicRelay(h) \in Seq(Texts) /\ BasicRelay(h) # << >>
      /\ FlattenSeq(BasicRelay(h))
           = Cat(Cat(Netstring(Cat(FlattenSeq(h), message)), Netstring(sender)), e)
  BY <1>1, <1>3, <1>4, BasicRelayIs
<1>6. TypeOK'
  BY <1>1, <1>2, <1>5 DEF TypeOK, h
<1>7. Consumed'
  BY <1>1 DEF IInv, Consumed, Parsed
<1>8. FlattenSeq(request')
        = Encoding(FlattenSeq(headers) \o received \o message, sender, recipients)
  <2>1. FlattenSeq(request')
          = Cat(Cat(Netstring(Cat(Cat(FlattenSeq(headers), received), message)),
                    Netstring(sender)), e)
    BY <1>2, <1>3, <1>5 DEF h
  <2>2. Cat(Cat(FlattenSeq(headers), received), message)
          = FlattenSeq(headers) \o received \o message
    BY DEF Cat
  <2>3. Encoding(FlattenSeq(headers) \o received \o message, sender, recipients)
          = Cat(Cat(Netstring(FlattenSeq(headers) \o received \o message),
                    Netstring(sender)), e)
    BY EncodingIs DEF Cat, e
  <2> QED BY <2>1, <2>2, <2>3
<1>9. received \in {<< >>, ReceivedLine}
  BY DEF received
<1>10. RelayedMail'
  BY <1>1, <1>8, <1>9 DEF RelayedMail
<1> QED BY <1>1, <1>6, <1>7, <1>10 DEF IInv

(* Nothing changes.                                                        *)
LEMMA StutteringStep == IInv /\ UNCHANGED vars => IInv'
BY DEF IInv, TypeOK, Consumed, Parsed, RelayedMail, vars

-----------------------------------------------------------------------------
(* What Parse() accepts, and what the next hop gets.                       *)

(* The inductive invariant holds: at every stage of QmqpMail::Parse(), and *)
(* after it, the fields are what the payload encodes.                      *)
THEOREM Invariance == Spec => []IInv
<1>1. IInv /\ [Next]_vars => IInv'
  BY ParseMessageStep, ParseSenderStep, ParseRecipientStep, ScriptStep, RelayStep,
     StutteringStep DEF Next
<1> QED BY InitIInv, <1>1, PTL DEF Spec

(* QmqpMail::Parse() accepts nothing but mails: the payload is the         *)
(* encoding of the text (before StripLeft()), of an address, and of the    *)
(* recipients, except that the length of an empty text may be written with *)
(* several zeroes.                                                         *)
THEOREM Accepted == Spec => []AcceptedIsMail
BY Invariance, AcceptedFromIInv, PTL

(* The request of BasicRelay is well-formed: all its buffers, one after    *)
(* the other, are the encoding of the new headers, the Received header if  *)
(* there is one, and the message, of the sender that the script has left,  *)
(* and of all recipients; though it is made of a length that is computed,  *)
(* a header made by hand, and a tail that Parse() has never copied.        *)
THEOREM Relayed == Spec => []RelayedMail
<1>1. IInv => RelayedMail
  BY DEF IInv
<1> QED BY Invariance, <1>1, PTL

-----------------------------------------------------------------------------
(* Completeness: every mail is understood.                                 *)

(* ParseIsComplete, for Cat.                                               *)
LEMMA ParseText ==
  ASSUME NEW v \in Texts, NEW after \in Texts
  PROVE  \E netstring : /\ ParseNetstring(Cat(Netstring(v), after)) = {netstring}
                        /\ netstring.value = v /\ netstring.rest = after
<1>1. ParseNetstring(Netstring(v) \o after) = {[value |-> v, rest |-> after]}
  BY ParseIsComplete DEF Texts
<1> DEFINE netstring == [value |-> v, rest |-> after]
<1>2. netstring.value = v /\ netstring.rest = after
  OBVIOUS
<1>3. ParseNetstring(Cat(Netstring(v), after)) = {netstring}
  BY <1>1 DEF Cat
<1> HIDE DEF netstring
<1> QED BY <1>2, <1>3

(* Nothing is no netstring.                                                *)
LEMMA ParseNone == ParseNetstring(<< >>) = {}
<1>1. << >> \in Seq(Characters) /\ Len(<< >>) = 0
  OBVIOUS
<1>2. Colon(<< >>) \in 0..Len(<< >>)
  BY <1>1, ColonFacts
<1>3. ~ (Colon(<< >>) > 0)
  BY <1>1, <1>2
<1> QED BY <1>3, Zenon DEF ParseNetstring, Colon

(* A sequence of texts with one more at its top.                           *)
LEMMA Prepended ==
  ASSUME NEW x \in Texts, NEW t \in Seq(Texts)
  PROVE  /\ <<x>> \o t \in Seq(Texts) /\ Len(<<x>> \o t) = 1 + Len(t)
         /\ (<<x>> \o t)[1] = x
         /\ \A j \in 1..Len(t) : (<<x>> \o t)[1 + j] = t[j]
<1> DEFINE one == <<x>>
<1>1. one \in Seq(Texts) /\ Len(one) = 1 /\ one[1] = x
  BY Singleton
<1> HIDE DEF one
<1>2. one \o t \in Seq(Texts) /\ Len(one \o t) = 1 + Len(t)
  BY <1>1, Concat
<1>3. (one \o t)[1] = x
  <2>1. ASSUME NEW i \in 1..Len(one) PROVE (one \o t)[i] = one[i]
    BY <1>1, ConcatPrefix
  <2> QED BY <1>1, <2>1
<1>4. ASSUME NEW j \in 1..Len(t) PROVE (one \o t)[1 + j] = t[j]
  <2>1. (one \o t)[Len(one) + j] = t[j]
    BY <1>1, ConcatSuffix
  <2> QED BY <1>1, <2>1
<1> QED BY <1>2, <1>3, <1>4 DEF one

(* A first recipient is a netstring at the top of the envelope.            *)
LEMMA EnvelopePrepend ==
  ASSUME NEW x \in Texts, NEW t \in Seq(Texts)
  PROVE  Envelope(<<x>> \o t) = Cat(Netstring(x), Envelope(t))
<1> DEFINE whole == <<x>> \o t
           net == <<Netstring(x)>>
           nets == net \o Nets(t)
<1>1. Netstring(x) \in Texts
  BY NetstringText
<1>2. Nets(t) \in Seq(Texts) /\ Len(Nets(t)) = Len(t) /\ Len(t) \in Nat
  BY EnvelopeFacts
<1>3. /\ whole \in Seq(Texts) /\ Len(whole) = 1 + Len(t) /\ whole[1] = x
      /\ \A j \in 1..Len(t) : whole[1 + j] = t[j]
  BY Prepended
<1>4. /\ nets \in Seq(Texts) /\ Len(nets) = 1 + Len(t) /\ nets[1] = Netstring(x)
      /\ \A j \in 1..Len(t) : nets[1 + j] = Nets(t)[j]
  BY <1>1, <1>2, Prepended
<1>5. net \in Seq(Texts) /\ FlattenSeq(net) = Netstring(x)
  BY <1>1, Singleton, FlattenOne DEF Texts
<1>6. FlattenSeq(nets) = FlattenSeq(net) \o FlattenSeq(Nets(t))
  BY <1>2, <1>5, FlattenConcat DEF Texts
<1> HIDE DEF whole, nets, net
<1>7. Nets(whole) \in Seq(Texts) /\ Len(Nets(whole)) = 1 + Len(t)
  BY <1>3, EnvelopeFacts
<1>8. ASSUME NEW i \in 1..1+Len(t) PROVE Nets(whole)[i] = nets[i]
  <2>1. Nets(whole)[i] = Netstring(whole[i])
    BY <1>3 DEF Nets
  <2>2. CASE i = 1
    BY <1>3, <1>4, <2>1, <2>2
  <2>3. CASE i # 1
    <3> DEFINE j == i - 1
    <3>1. j \in 1..Len(t) /\ i = 1 + j
      BY <1>2, <2>3
    <3> HIDE DEF j
    <3>2. Nets(t)[j] = Netstring(t[j])
      BY <3>1 DEF Nets
    <3> QED BY <1>3, <1>4, <2>1, <3>1, <3>2
  <2> QED BY <2>2, <2>3
<1>9. Nets(whole) = nets
  BY <1>4, <1>7, <1>8, SeqEqual
<1> QED BY <1>5, <1>6, <1>9 DEF Envelope, Cat, whole

(* The envelope without the first k recipients.                            *)
Remaining(to, k) == Envelope(SubSeq(to, k + 1, Len(to)))

(* It starts with all and ends with none, one netstring at a time.         *)
LEMMA RemainingFacts ==
  ASSUME NEW to \in Seq(Texts)
  PROVE  /\ Remaining(to, 0) = Envelope(to)
         /\ Remaining(to, Len(to)) = << >>
         /\ \A k \in 0..Len(to) : Remaining(to, k) \in Texts
         /\ \A k \in 0..Len(to)-1 :
              Remaining(to, k) = Cat(Netstring(to[k + 1]), Remaining(to, k + 1))
<1>1. Remaining(to, 0) = Envelope(to)
  <2>1. SubSeq(to, 0 + 1, Len(to)) = to
    OBVIOUS
  <2> QED BY <2>1 DEF Remaining
<1>2. Remaining(to, Len(to)) = << >>
  <2>1. SubSeq(to, Len(to) + 1, Len(to)) = << >>
    OBVIOUS
  <2> QED BY <2>1, EmptyEnvelope DEF Remaining
<1>3. ASSUME NEW k \in 0..Len(to) PROVE Remaining(to, k) \in Texts
  <2>1. SubSeq(to, k + 1, Len(to)) \in Seq(Texts)
    OBVIOUS
  <2> QED BY <2>1, EnvelopeFacts DEF Remaining
<1>4. ASSUME NEW k \in 0..Len(to)-1
      PROVE  Remaining(to, k) = Cat(Netstring(to[k + 1]), Remaining(to, k + 1))
  <2> DEFINE s == SubSeq(to, k + 1, Len(to))
             r == SubSeq(to, (k + 1) + 1, Len(to))
             t == <<to[k + 1]>> \o r
             n == Len(to) - k
  <2>1. /\ to[k + 1] \in Texts /\ n \in Nat
        /\ s \in Seq(Texts) /\ Len(s) = n /\ \A i \in 1..n : s[i] = to[k + i]
        /\ r \in Seq(Texts) /\ Len(r) = n - 1
        /\ \A i \in 1..n-1 : r[i] = to[(k + 1) + i]
    OBVIOUS
  <2> HIDE DEF s, r
  <2>2. 1 + Len(r) = n
    BY <2>1
  <2>3. /\ t \in Seq(Texts) /\ Len(t) = n /\ t[1] = to[k + 1]
        /\ \A j \in 1..Len(r) : t[1 + j] = r[j]
    BY <2>1, <2>2, Prepended
  <2> HIDE DEF t
  <2>4. ASSUME NEW i \in 1..n PROVE s[i] = t[i]
    <3>1. CASE i = 1
      BY <2>1, <2>3, <3>1
    <3>2. CASE i # 1
      <4> DEFINE j == i - 1
      <4>1. j \in 1..n-1 /\ i = 1 + j /\ k + i = (k + 1) + j /\ j \in 1..Len(r)
        BY <2>1, <3>2
      <4> HIDE DEF j
      <4> QED BY <2>1, <2>3, <4>1
    <3> QED BY <3>1, <3>2
  <2> HIDE DEF t
  <2>5. s = t
    BY <2>1, <2>3, <2>4, SeqEqual
  <2>6. Envelope(<<to[k + 1]>> \o r) = Cat(Netstring(to[k + 1]), Envelope(r))
    BY <2>1, EnvelopePrepend
  <2> QED BY <2>5, <2>6 DEF Remaining, s, t, r
<1> QED BY <1>1, <1>2, <1>3, <1>4

(* As long as a netstring is left, the input is not empty.                 *)
LEMMA NotEmpty ==
  ASSUME NEW v \in Texts, NEW after \in Texts
  PROVE  Cat(Netstring(v), after) # << >>
<1>1. Netstring(v) \in Texts /\ Len(Netstring(v)) > 0
  BY NetstringFacts DEF Texts
<1>2. Len(Cat(Netstring(v), after)) = Len(Netstring(v)) + Len(after) /\ Len(after) \in Nat
  BY <1>1, TextConcat DEF Cat
<1> QED BY <1>1, <1>2

(* The first k recipients are admitted.                                    *)
Taken(to, k) ==
  /\ k \in 0..Len(to) /\ k <= MaxRecipients
  /\ \A i \in 1..k : to[i] \in Addresses

(* The first recipient that is not admitted decides.                       *)
LEMMA VerdictRefused ==
  ASSUME NEW from \in Addresses, NEW to \in Seq(Texts), NEW k \in Nat, Taken(to, k),
         k < Len(to), k + 1 > MaxRecipients \/ to[k + 1] \notin Addresses
  PROVE  Verdict(from, to) = IF to[k + 1] \notin Addresses THEN "BAD_ADDRESS"
                             ELSE "TOO_MANY_RECIPIENTS"
<1> DEFINE R == {i \in DOMAIN to : i > MaxRecipients \/ to[i] \notin Addresses}
           first == CHOOSE i \in R : \A j \in R : i <= j
<1>1. DOMAIN to = 1..Len(to) /\ Len(to) \in Nat /\ MaxRecipients \in Nat
  BY LimitsAssumption
<1>2. k + 1 \in R
  BY <1>1
<1>3. \A i \in R : k + 1 <= i
  BY <1>1 DEF Taken
<1>4. R \subseteq Nat
  BY <1>1
<1> HIDE DEF R
<1>5. first = k + 1
  <2>1. first \in R /\ \A j \in R : first <= j
    BY <1>2, <1>3, <1>4
  <2>2. first <= k + 1 /\ k + 1 <= first /\ first \in Nat
    BY <1>2, <1>3, <1>4, <2>1
  <2> HIDE DEF first
  <2> QED BY <2>2
<1>6. to # << >> /\ R # {}
  BY <1>1, <1>2
<1>7. Verdict(from, to) = IF to[first] \notin Addresses THEN "BAD_ADDRESS"
                          ELSE "TOO_MANY_RECIPIENTS"
  BY <1>6, Zenon DEF Verdict, R
<1> QED BY <1>5, <1>7

(* If all are admitted, so is the mail.                                    *)
LEMMA VerdictAccepted ==
  ASSUME NEW from \in Addresses, NEW to \in Seq(Texts), Taken(to, Len(to)), Len(to) > 0
  PROVE  Verdict(from, to) = "SUCCESS"
<1> DEFINE R == {i \in DOMAIN to : i > MaxRecipients \/ to[i] \notin Addresses}
<1>1. R = {}
  BY LimitsAssumption DEF Taken
<1>2. to # << >>
  OBVIOUS
<1> HIDE DEF R
<1> QED BY <1>1, <1>2, Zenon DEF Verdict, R

(* Mails that are refused before any recipient is looked at.               *)
LEMMA VerdictOthers ==
  ASSUME NEW from
  PROVE  /\ from \notin Addresses => \A to : Verdict(from, to) = "BAD_ADDRESS"
         /\ from \in Addresses => Verdict(from, << >>) = "MALFORMED"
BY Zenon DEF Verdict

(* How far Parse() has come in the encoding of a mail: what it found is    *)
(* what the mail was made of, what is left is the encoding of the rest,    *)
(* and what it says in the end is what should be said.                     *)
Progress(text, from, to) ==
  /\ state = "message" => input = payload
  /\ state = "sender" =>
       message = text /\ input = Cat(Netstring(from), Envelope(to)) /\ recipients = << >>
  /\ state = "recipients" =>
       /\ message = text /\ sender = from /\ from \in Addresses
       /\ Taken(to, Len(recipients))
       /\ \A i \in 1..Len(recipients) : recipients[i] = to[i]
       /\ Len(recipients) > 0 => Len(recipients) < Len(to)
       /\ input = Remaining(to, Len(recipients))
  /\ state = "SUCCESS" =>
       message = StripLeft(text) /\ recipients = to /\ Verdict(from, to) = "SUCCESS"
  /\ state \in Failures => state = Verdict(from, to)

(* In a payload that encodes this mail, that is.                           *)
Advancing(text, from, to) ==
  payload = Encoding(text, from, to) => Progress(text, from, to)

(* The first netstring is the text.                                        *)
LEMMA AdvancingFirst ==
  ASSUME NEW text \in Texts, NEW from \in Texts, NEW to \in Seq(Texts),
         IInv, Advancing(text, from, to), ParseMessage
  PROVE  Advancing(text, from, to)'
<1> SUFFICES ASSUME payload' = Encoding(text, from, to)
             PROVE  Progress(text, from, to)'
  BY DEF Advancing
<1>1. payload' = payload /\ state = "message" /\ input = payload /\ recipients = << >>
      /\ recipients' = recipients
  BY DEF IInv, Consumed, ParseMessage
<1> DEFINE f == Netstring(from)
           e == Envelope(to)
<1>2. f \in Texts /\ e \in Texts /\ Netstring(text) \in Texts
  BY NetstringText, EnvelopeFacts
<1>3. input = Cat(Cat(Netstring(text), f), e)
  BY <1>1, EncodingIs DEF Cat
<1> HIDE DEF f, e
<1>4. Cat(f, e) \in Texts /\ input = Cat(Netstring(text), Cat(f, e))
  BY <1>2, <1>3, CatFacts
<1>5. PICK netstring : /\ ParseNetstring(input) = {netstring}
                       /\ netstring.value = text /\ netstring.rest = Cat(f, e)
  BY <1>4, ParseText
<1>6. message' = text /\ input' = Cat(f, e) /\ state' = "sender"
  BY <1>5 DEF ParseMessage
<1> QED BY <1>1, <1>6 DEF Progress, Failures, f, e

(* The second is the sender, or is refused as the Verdict says.            *)
LEMMA AdvancingSecond ==
  ASSUME NEW text \in Texts, NEW from \in Texts, NEW to \in Seq(Texts),
         IInv, Advancing(text, from, to), ParseSender
  PROVE  Advancing(text, from, to)'
<1> SUFFICES ASSUME payload' = Encoding(text, from, to)
             PROVE  Progress(text, from, to)'
  BY DEF Advancing
<1>1. UNCHANGED <<payload, message, recipients>> /\ state = "sender"
  BY DEF ParseSender
<1>2. message = text /\ recipients = << >> /\ input = Cat(Netstring(from), Envelope(to))
  BY <1>1 DEF Advancing, Progress
<1>3. Envelope(to) \in Texts
  BY EnvelopeFacts
<1>4. PICK netstring : /\ ParseNetstring(input) = {netstring}
                       /\ netstring.value = from /\ netstring.rest = Envelope(to)
  BY <1>2, <1>3, ParseText
<1>5. CASE from \notin Addresses
  <2>1. state' = "BAD_ADDRESS"
    BY <1>4, <1>5 DEF ParseSender
  <2>2. Verdict(from, to) = "BAD_ADDRESS"
    BY <1>5, VerdictOthers
  <2> QED BY <2>1, <2>2 DEF Progress, Failures
<1>6. CASE from \in Addresses
  <2>1. state' = "recipients" /\ sender' = from /\ input' = Envelope(to)
    BY <1>4, <1>6 DEF ParseSender
  <2>2. Len(recipients') = 0 /\ Len(to) \in Nat /\ MaxRecipients \in Nat
    BY <1>1, <1>2, LimitsAssumption
  <2>3. Taken(to, Len(recipients'))
    BY <2>2 DEF Taken
  <2>4. input' = Remaining(to, Len(recipients'))
    BY <2>1, <2>2, RemainingFacts
  <2> QED BY <1>1, <1>2, <1>6, <2>1, <2>2, <2>3, <2>4 DEF Progress, Failures
<1> QED BY <1>5, <1>6

(* The others are the recipients, the first of which that is not admitted  *)
(* ends Parse(), as does the end of the input. A mail without any is       *)
(* malformed.                                                              *)
LEMMA AdvancingLast ==
  ASSUME NEW text \in Texts, NEW from \in Texts, NEW to \in Seq(Texts),
         IInv, Advancing(text, from, to), ParseRecipient
  PROVE  Advancing(text, from, to)'
<1> SUFFICES ASSUME payload' = Encoding(text, from, to)
             PROVE  Progress(text, from, to)'
  BY DEF Advancing
<1> DEFINE k == Len(recipients)
<1>1. UNCHANGED <<payload, sender>> /\ state = "recipients"
  BY DEF ParseRecipient
<1>2. /\ message = text /\ sender = from /\ from \in Addresses
      /\ Taken(to, k)
      /\ \A i \in 1..k : recipients[i] = to[i]
      /\ k > 0 => k < Len(to)
      /\ input = Remaining(to, k)
  BY <1>1 DEF Advancing, Progress
<1>3. /\ recipients \in Seq(Texts) /\ k \in 0..Len(to) /\ k \in Nat /\ Len(to) \in Nat
      /\ MaxRecipients \in Nat
  BY <1>2, LimitsAssumption DEF IInv, TypeOK, Taken
<1> HIDE DEF k
<1>4. CASE k = Len(to)
  <2>1. k = 0 /\ to = << >>
    BY <1>2, <1>3, <1>4
  <2>2. ParseNetstring(input) = {}
    BY <1>2, <1>4, RemainingFacts, ParseNone
  <2>3. state' = "MALFORMED"
    BY <2>2 DEF ParseRecipient
  <2>4. Verdict(from, to) = "MALFORMED"
    BY <1>2, <2>1, VerdictOthers
  <2> QED BY <2>3, <2>4 DEF Progress, Failures
<1>5. CASE k < Len(to)
  <2> DEFINE v == to[k + 1]
             rest == Remaining(to, k + 1)
  <2>1. k \in 0..Len(to)-1 /\ k + 1 \in 0..Len(to) /\ k + 1 \in 1..Len(to)
    BY <1>3, <1>5
  <2>2. v \in Texts /\ rest \in Texts /\ input = Cat(Netstring(v), rest)
    BY <1>2, <2>1, RemainingFacts
  <2> HIDE DEF v, rest
  <2>3. PICK netstring : /\ ParseNetstring(input) = {netstring}
                         /\ netstring.value = v /\ netstring.rest = rest
    BY <2>2, ParseText
  <2>4. CASE v \notin Addresses
    <3>1. state' = "BAD_ADDRESS"
      BY <2>3, <2>4 DEF ParseRecipient
    <3>2. Verdict(from, to) = "BAD_ADDRESS"
      BY <1>2, <1>3, <1>5, <2>4, VerdictRefused DEF v
    <3> QED BY <3>1, <3>2 DEF Progress, Failures
  <2>5. CASE v \in Addresses /\ Full
    <3>1. state' = "TOO_MANY_RECIPIENTS"
      BY <2>3, <2>5 DEF ParseRecipient
    <3>2. k + 1 > MaxRecipients
      BY <1>3, <2>5 DEF Full, k
    <3>3. Verdict(from, to) = "TOO_MANY_RECIPIENTS"
      BY <1>2, <1>3, <1>5, <2>5, <3>2, VerdictRefused DEF v
    <3> QED BY <3>1, <3>3 DEF Progress, Failures
  <2>6. CASE v \in Addresses /\ ~Full
    <3>1. /\ input' = rest /\ recipients' = Append(recipients, v)
          /\ IF input' = << >> THEN state' = "SUCCESS" /\ message' = StripLeft(message)
             ELSE UNCHANGED <<state, message>>
      BY <2>3, <2>6 DEF ParseRecipient
    <3>2. /\ recipients' \in Seq(Texts) /\ Len(recipients') = k + 1
          /\ \A i \in 1..k+1 : recipients'[i] = to[i]
      BY <1>2, <1>3, <2>2, <3>1 DEF v, k
    <3>3. k + 1 <= MaxRecipients
      BY <1>3, <2>6 DEF Full, k
    <3>4. Taken(to, k + 1)
      BY <1>2, <1>3, <2>1, <2>6, <3>3 DEF Taken, v
    <3>5. CASE rest = << >>
      <4>1. k + 1 = Len(to)
        <5>1. SUFFICES ASSUME k + 1 # Len(to) PROVE FALSE
          OBVIOUS
        <5>2. /\ k + 1 \in 0..Len(to)-1 /\ (k + 1) + 1 \in 0..Len(to)
              /\ (k + 1) + 1 \in 1..Len(to)
          BY <1>3, <2>1, <5>1
        <5>3. rest = Cat(Netstring(to[(k + 1) + 1]), Remaining(to, (k + 1) + 1))
          BY <5>2, RemainingFacts DEF rest
        <5>4. to[(k + 1) + 1] \in Texts /\ Remaining(to, (k + 1) + 1) \in Texts
          BY <5>2, RemainingFacts
        <5> QED BY <3>5, <5>3, <5>4, NotEmpty
      <4>2. state' = "SUCCESS" /\ message' = StripLeft(text)
        BY <1>2, <3>1, <3>5
      <4>3. recipients' = to
        BY <3>2, <4>1, SeqEqual
      <4>4. Verdict(from, to) = "SUCCESS"
        <5>1. Len(to) > 0 /\ Taken(to, Len(to))
          BY <1>3, <3>4, <4>1
        <5> QED BY <1>2, <5>1, VerdictAccepted
      <4> QED BY <4>2, <4>3, <4>4 DEF Progress, Failures
    <3>6. CASE rest # << >>
      <4>1. k + 1 < Len(to)
        <5>1. k + 1 # Len(to)
          BY <3>6, RemainingFacts DEF rest
        <5> QED BY <1>3, <2>1, <5>1
      <4>2. state' = "recipients" /\ message' = text
        BY <1>1, <1>2, <3>1, <3>6
      <4>3. input' = Remaining(to, Len(recipients'))
        BY <3>1, <3>2 DEF rest
      <4> QED BY <1>1, <1>2, <3>2, <3>4, <4>1, <4>2, <4>3 DEF Progress, Failures
    <3> QED BY <3>5, <3>6
  <2> QED BY <2>4, <2>5, <2>6
<1> QED BY <1>3, <1>4, <1>5

(* Later steps leave alone what Parse() has found; but SetSender only      *)
(* comes after SUCCESS.                                                    *)
LEMMA AdvancingOthers ==
  ASSUME NEW text, NEW from, NEW to, IInv, Advancing(text, from, to),
         InsertHeader \/ SetSender \/ Relay \/ UNCHANGED vars
  PROVE  Advancing(text, from, to)'
<1>1. UNCHANGED <<payload, input, state, message, recipients>>
  BY DEF InsertHeader, SetSender, Relay, vars
<1>2. state = "SUCCESS" \/ sender' = sender
  BY DEF InsertHeader, SetSender, Relay, Editable, vars
<1> QED BY <1>1, <1>2 DEF Advancing, Progress, Failures

(* All mails there are, with any text and any number of recipients,        *)
(* whether their addresses are valid or not.                               *)
AllMails == [text : Texts, from : Texts, to : Seq(Texts)]

(* The invariant, for all of them.                                         *)
UInv == \A mail \in AllMails : Advancing(mail.text, mail.from, mail.to)

(* QmqpMail::Parse() understands every mail: a payload that is the         *)
(* encoding of one is taken apart into its text, its sender and its        *)
(* recipients, or it is refused for the right reason, that is, for the     *)
(* first address VerifyEmailAddress() refuses, for a recipient too many,   *)
(* or for having none.                                                     *)
THEOREM EveryMailUnderstood == Spec => []Understands(AllMails)
<1>1. Init => UInv
  BY DEF Init, UInv, Advancing, Progress, Failures
<1>2. IInv /\ UInv /\ [Next]_vars => UInv'
  <2> SUFFICES ASSUME IInv, UInv, [Next]_vars, NEW mail \in AllMails
               PROVE  Advancing(mail.text, mail.from, mail.to)'
    BY DEF UInv
  <2>1. mail.text \in Texts /\ mail.from \in Texts /\ mail.to \in Seq(Texts)
    BY DEF AllMails
  <2>2. Advancing(mail.text, mail.from, mail.to)
    BY DEF UInv
  <2>3. CASE ParseMessage
    BY <2>1, <2>2, <2>3, AdvancingFirst
  <2>4. CASE ParseSender
    BY <2>1, <2>2, <2>4, AdvancingSecond
  <2>5. CASE ParseRecipient
    BY <2>1, <2>2, <2>5, AdvancingLast
  <2>6. CASE InsertHeader \/ SetSender \/ Relay \/ UNCHANGED vars
    BY <2>2, <2>6, AdvancingOthers
  <2> QED BY <2>3, <2>4, <2>5, <2>6 DEF Next
<1>3. UInv => Understands(AllMails)
  BY DEF UInv, Understands, Advancing, Progress, Failures
<1> QED BY Invariance, <1>1, <1>2, <1>3, PTL DEF Spec

(* Texts of two characters at most.                                        *)
LEMMA SmallTexts ==
  ASSUME NEW a \in Characters, NEW b \in Characters
  PROVE  <<a>> \in Texts /\ <<a, b>> \in Texts /\ << >> \in Texts
BY DEF Texts

(* The mails that MCQmqpMail names are among them.                         *)
LEMMA MailsAreMails == {"x", "y", "z"} \subseteq Characters => Mails \subseteq AllMails
<1> SUFFICES ASSUME {"x", "y", "z"} \subseteq Characters PROVE Mails \subseteq AllMails
  OBVIOUS
<1> DEFINE T == {<< >>, <<"x">>, <<" ">>, <<" ", "x">>, <<":", ",">>}
           A == MCAddresses \cup {<<"z">>}
           F == MCAddresses \cup {<<"z">>, << >>}
           R == UNION {[1..n -> A] : n \in 0..3}
<1>1. Mails = [text : T, from : F, to : R]
  BY DEF Mails
<1>2. /\ " " \in Characters /\ "," \in Characters /\ ":" \in Characters
      /\ "x" \in Characters /\ "y" \in Characters /\ "z" \in Characters
  BY CharactersAssumption, Zenon
<1>3. /\ <<"x">> \in Texts /\ <<" ">> \in Texts /\ <<" ", "x">> \in Texts
      /\ <<":", ",">> \in Texts /\ << >> \in Texts
  BY <1>2, SmallTexts, Zenon
<1>4. <<"x">> \in Texts /\ <<"y", "y">> \in Texts /\ <<"z">> \in Texts /\ << >> \in Texts
  BY <1>2, SmallTexts, Zenon
<1>5. T \subseteq Texts
  BY <1>3, Zenon
<1>6. F \subseteq Texts /\ A \subseteq Texts
  BY <1>4 DEF MCAddresses
<1> HIDE DEF A
<1>7. R \subseteq Seq(Texts)
  <2>1. \A n \in 0..3 : [1..n -> A] \subseteq Seq(Texts)
    BY <1>6
  <2> QED BY <2>1
<1> HIDE DEF T, F, R
<1> QED BY <1>1, <1>5, <1>6, <1>7 DEF AllMails

(* In particular QmqpMail::Parse() understands the mails which are         *)
(* enumerated when the property is model-checked, provided that the        *)
(* letters they are made of are characters.                                *)
THEOREM SmallMailsUnderstood ==
  ASSUME {"x", "y", "z"} \subseteq Characters
  PROVE  Spec => []MailsUnderstood
<1>1. Understands(AllMails) => MailsUnderstood
  BY MailsAreMails DEF Understands, MailsUnderstood
<1> QED BY EveryMailUnderstood, <1>1, PTL
=============================================================================
