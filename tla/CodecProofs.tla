----------------------------- MODULE CodecProofs ----------------------------
(***************************************************************************)
(* Numbers, base64, strings, doubles and dates are read back from the text *)
(* that is written of them (rpcInternal.c, rpcBase64.c, rpcUtils.c), for   *)
(* every number, text and sequence of bytes.  Each reader and each writer  *)
(* is a recursive function; Recursion makes it what its definition says,   *)
(* and an induction over the text or the bytes relates the two.            *)
(***************************************************************************)
EXTENDS Codec, TextProofs, FiniteSetTheorems

-----------------------------------------------------------------------------
(* The recursive functions are what their definitions say.                 *)

Itself(n) == n
Length(s) == Len(s)

DigitsDef(f, n) == IF n < 10 THEN <<Numerals[n + 1]>>
                   ELSE Append(f[n \div 10], Numerals[(n % 10) + 1])
DigitsR == INSTANCE Recursion WITH Domain <- Nat, Measure <- Itself, Def <- DigitsDef

(* Digits (encodeInt) is what its definition says.                         *)
LEMMA DigitsDefined ==
  \A n \in Nat : Digits[n] = IF n < 10 THEN <<Numerals[n + 1]>>
                             ELSE Append(Digits[n \div 10], Numerals[(n % 10) + 1])
<1>1. DigitsR!IsMeasure
  BY DEF DigitsR!IsMeasure, Itself
<1>2. DigitsR!IsRecursive
  BY DEF DigitsR!IsRecursive, Itself, DigitsDef
<1>3. \E f : f = [n \in Nat |-> DigitsDef(f, n)]
  BY <1>1, <1>2, DigitsR!RecursionDefines
<1>4. Digits = [n \in Nat |-> DigitsDef(Digits, n)]
  BY <1>3, Zenon DEF Digits, DigitsDef
<1> QED BY <1>4 DEF DigitsDef

NumberDef(f, s) == IF s = <<>> THEN 0 ELSE 10 * f[Front(s)] + Numeral[Last(s)]
NumberR == INSTANCE Recursion WITH Domain <- Seq(DOMAIN Numeral), Measure <- Length, Def <- NumberDef

(* NumberOf (decodeActLong) is what its definition says.                   *)
LEMMA NumberDefined ==
  \A s \in Seq(DOMAIN Numeral) :
    NumberOf[s] = IF s = <<>> THEN 0 ELSE 10 * NumberOf[Front(s)] + Numeral[Last(s)]
<1> DEFINE D == DOMAIN Numeral
<1>1. NumberR!IsMeasure
  BY LenProperties DEF NumberR!IsMeasure, Length
<1>2. NumberR!IsRecursive
  <2> SUFFICES ASSUME NEW s \in Seq(D), NEW g, NEW h,
                      \A t \in Seq(D) : Length(t) < Length(s) => g[t] = h[t]
               PROVE  NumberDef(g, s) = NumberDef(h, s)
    BY Zenon DEF NumberR!IsRecursive
  <2> HIDE DEF D
  <2>1. s # <<>> => Front(s) \in Seq(D) /\ Len(Front(s)) < Len(s)
    BY FrontLast
  <2> QED BY <2>1 DEF NumberDef, Length
<1>3. \E f : f = [s \in Seq(D) |-> NumberDef(f, s)]
  BY <1>1, <1>2, NumberR!RecursionDefines
<1>4. NumberOf = [s \in Seq(D) |-> NumberDef(NumberOf, s)]
  BY <1>3, Zenon DEF NumberOf, NumberDef
<1> QED BY <1>4 DEF NumberDef

ShiftedDef(f, b) == IF b = <<>> THEN NoBits ELSE ShiftByte(f[Front(b)], Last(b))
ShiftedR == INSTANCE Recursion WITH Domain <- Seq(0..255), Measure <- Length, Def <- ShiftedDef

(* Shifted (binascii_b2a_base64) is what its definition says.              *)
LEMMA ShiftedDefined ==
  \A b \in Seq(0..255) :
    Shifted[b] = IF b = <<>> THEN NoBits ELSE ShiftByte(Shifted[Front(b)], Last(b))
<1> DEFINE D == 0..255
<1>1. ShiftedR!IsMeasure
  BY LenProperties DEF ShiftedR!IsMeasure, Length
<1>2. ShiftedR!IsRecursive
  <2> SUFFICES ASSUME NEW s \in Seq(D), NEW g, NEW h,
                      \A t \in Seq(D) : Length(t) < Length(s) => g[t] = h[t]
               PROVE  ShiftedDef(g, s) = ShiftedDef(h, s)
    BY Zenon DEF ShiftedR!IsRecursive
  <2> HIDE DEF D
  <2>1. s # <<>> => Front(s) \in Seq(D) /\ Len(Front(s)) < Len(s)
    BY FrontLast
  <2> QED BY <2>1 DEF ShiftedDef, Length
<1>3. \E f : f = [s \in Seq(D) |-> ShiftedDef(f, s)]
  BY <1>1, <1>2, ShiftedR!RecursionDefines
<1>4. Shifted = [s \in Seq(D) |-> ShiftedDef(Shifted, s)]
  BY <1>3, Zenon DEF Shifted, ShiftedDef
<1> QED BY <1>4 DEF ShiftedDef

UnshiftedDef(f, t) == IF t = <<>> THEN NothingRead ELSE ShiftSextet(f[Front(t)], Last(t))
UnshiftedR == INSTANCE Recursion WITH Domain <- Texts, Measure <- Length, Def <- UnshiftedDef

(* Unshifted (binascii_a2b_base64) is what its definition says.            *)
LEMMA UnshiftedDefined ==
  \A t \in Texts :
    Unshifted[t] = IF t = <<>> THEN NothingRead ELSE ShiftSextet(Unshifted[Front(t)], Last(t))
<1>1. UnshiftedR!IsMeasure
  BY LenProperties DEF UnshiftedR!IsMeasure, Length, Texts
<1>2. UnshiftedR!IsRecursive
  <2> SUFFICES ASSUME NEW s \in Texts, NEW g, NEW h,
                      \A t \in Texts : Length(t) < Length(s) => g[t] = h[t]
               PROVE  UnshiftedDef(g, s) = UnshiftedDef(h, s)
    BY Zenon DEF UnshiftedR!IsRecursive
  <2>1. s # <<>> => Front(s) \in Texts /\ Len(Front(s)) < Len(s)
    BY FrontLast DEF Texts
  <2> QED BY <2>1 DEF UnshiftedDef, Length
<1>3. \E f : f = [s \in Texts |-> UnshiftedDef(f, s)]
  BY <1>1, <1>2, UnshiftedR!RecursionDefines
<1>4. Unshifted = [s \in Texts |-> UnshiftedDef(Unshifted, s)]
  BY <1>3, Zenon DEF Unshifted, UnshiftedDef
<1> QED BY <1>4 DEF UnshiftedDef

EscapeDef(f, t) == IF t = <<>> THEN <<>> ELSE EscapeChar(Head(t)) \o f[Tail(t)]
EscapeR == INSTANCE Recursion WITH Domain <- Texts, Measure <- Length, Def <- EscapeDef

(* Escape (escapeString) is what its definition says.                      *)
LEMMA EscapeDefined ==
  \A t \in Texts : Escape[t] = IF t = <<>> THEN <<>> ELSE EscapeChar(Head(t)) \o Escape[Tail(t)]
<1>1. EscapeR!IsMeasure
  BY LenProperties DEF EscapeR!IsMeasure, Length, Texts
<1>2. EscapeR!IsRecursive
  <2> SUFFICES ASSUME NEW s \in Texts, NEW g, NEW h,
                      \A t \in Texts : Length(t) < Length(s) => g[t] = h[t]
               PROVE  EscapeDef(g, s) = EscapeDef(h, s)
    BY Zenon DEF EscapeR!IsRecursive
  <2>1. s # <<>> => Tail(s) \in Texts /\ Len(Tail(s)) < Len(s)
    BY HeadTail DEF Texts
  <2>2. s # <<>> => g[Tail(s)] = h[Tail(s)]
    BY <2>1 DEF Length
  <2> QED BY <2>2, Zenon DEF EscapeDef
<1>3. \E f : f = [s \in Texts |-> EscapeDef(f, s)]
  BY <1>1, <1>2, EscapeR!RecursionDefines
<1>4. Escape = [s \in Texts |-> EscapeDef(Escape, s)]
  BY <1>3, Zenon DEF Escape, EscapeDef
<1> QED BY <1>4 DEF EscapeDef

UnescapeR == INSTANCE Recursion WITH Domain <- Texts, Measure <- Length, Def <- UnescapeWith

(* Unescape (unescapeString) is what its definition says.                  *)
LEMMA UnescapeDefined == \A t \in Texts : Unescape[t] = UnescapeWith(Unescape, t)
<1>1. UnescapeR!IsMeasure
  BY LenProperties DEF UnescapeR!IsMeasure, Length, Texts
<1>2. UnescapeR!IsRecursive
  <2> SUFFICES ASSUME NEW s \in Texts, NEW g, NEW h,
                      \A t \in Texts : Length(t) < Length(s) => g[t] = h[t]
               PROVE  UnescapeWith(g, s) = UnescapeWith(h, s)
    BY Zenon DEF UnescapeR!IsRecursive
  <2>0. Len(s) \in Nat /\ (s # <<>> => Len(s) # 0)
    BY Nothing
  <2>1. s # <<>> => g[Tail(s)] = h[Tail(s)]
    BY HeadTail DEF Texts, Length
  <2>2. Len(s) > 1 => g[Drop(s, 2)] = h[Drop(s, 2)]
    BY <2>0, TakeDrop DEF Length
  <2>3. CASE s = <<>>
    BY <2>3 DEF UnescapeWith
  <2>4. CASE s # <<>> /\ s[1] # "&"
    BY <2>1, <2>4 DEF UnescapeWith
  <2>5. CASE s # <<>> /\ ~(s[1] # "&")
    BY <2>2, <2>5 DEF UnescapeWith
  <2> QED BY <2>3, <2>4, <2>5
<1>3. \E f : f = [s \in Texts |-> UnescapeWith(f, s)]
  BY <1>1, <1>2, UnescapeR!RecursionDefines
<1>4. Unescape = [s \in Texts |-> UnescapeWith(Unescape, s)]
  BY <1>3, Zenon DEF Unescape
<1> QED BY <1>4

-----------------------------------------------------------------------------
(* Numbers.                                                                *)

NumeralSet == {"0", "1", "2", "3", "4", "5", "6", "7", "8", "9"}

(* The characters that are digits.                                         *)
LEMMA NumeralDomain == DOMAIN Numeral = NumeralSet
<1>1. DOMAIN Numeral = {Numerals[i] : i \in 1..Len(Numerals)}
  BY DEF Numeral, ToSet
<1>2. Len(Numerals) = 10
  BY DEF Numerals
<1>3. {Numerals[i] : i \in 1..10} = NumeralSet
  BY DEF Numerals, NumeralSet
<1> QED BY <1>1, <1>2, <1>3

(* The digit of a number stands for it.                                    *)
LEMMA NumeralOf ==
  ASSUME NEW k \in 0..9
  PROVE  Numerals[k + 1] \in DOMAIN Numeral /\ Numeral[Numerals[k + 1]] = k
<1>1. Numerals[k + 1] \in NumeralSet
  BY DEF Numerals, NumeralSet
<1>2. \A i \in 0..9 : Numerals[i + 1] = Numerals[k + 1] => i = k
  BY DEF Numerals
<1>3. Numeral[Numerals[k + 1]] = CHOOSE i \in 0..9 : Numerals[i + 1] = Numerals[k + 1]
  BY <1>1, NumeralDomain DEF Numeral
<1> DEFINE C == CHOOSE i \in 0..9 : Numerals[i + 1] = Numerals[k + 1]
<1>4. C \in 0..9 /\ Numerals[C + 1] = Numerals[k + 1]
  OBVIOUS
<1> HIDE DEF C
<1>5. C = k
  BY <1>2, <1>4
<1> QED BY <1>1, <1>3, <1>5, NumeralDomain DEF C

DigitTexts == Seq(DOMAIN Numeral)
(* A text of digits is a text.                                             *)
LEMMA DigitText == DigitTexts \subseteq Texts
<1>1. NumeralSet \subseteq STRING
  BY StringsAssumption DEF NumeralSet, Alphabet, ToSet
<1> QED BY <1>1, NumeralDomain, SeqMonotonic DEF DigitTexts, Texts

(* A text of digits is read as a natural number.                           *)
LEMMA NumberType == \A s \in DigitTexts : NumberOf[s] \in Nat
<1> DEFINE S == {s \in DigitTexts : NumberOf[s] \in Nat}
<1>1. <<>> \in S
  <2>1. <<>> \in DigitTexts /\ NumberOf[<<>>] = 0
    BY NumberDefined, EmptySeq DEF DigitTexts
  <2> QED BY <2>1
<1>2. ASSUME NEW s \in DigitTexts, NEW e \in DOMAIN Numeral, s \in S
      PROVE  Append(s, e) \in S
  <2>1. Numeral[e] \in Nat
    <3>1. PICK k \in 0..9 : e = Numerals[k + 1]
      BY NumeralDomain DEF NumeralSet, Numerals
    <3> QED BY <3>1, NumeralOf
  <2>2. Append(s, e) \in DigitTexts /\ Append(s, e) # <<>> /\ Front(Append(s, e)) = s /\ Last(Append(s, e)) = e
    BY AppendFront DEF DigitTexts
  <2>3. NumberOf[Append(s, e)] = 10 * NumberOf[s] + Numeral[e]
    BY <2>2, NumberDefined DEF DigitTexts
  <2>4. NumberOf[s] \in Nat
    BY <1>2
  <2> QED BY <2>1, <2>2, <2>3, <2>4
<1> HIDE DEF S
<1>3. DigitTexts \subseteq S
  BY <1>1, <1>2, FrontInduction DEF DigitTexts
<1> QED BY <1>3 DEF S

(* A digit more makes ten times the number and the digit.                  *)
LEMMA NumberAppend ==
  ASSUME NEW s \in DigitTexts, NEW k \in 0..9
  PROVE  /\ Append(s, Numerals[k + 1]) \in DigitTexts
         /\ NumberOf[Append(s, Numerals[k + 1])] = 10 * NumberOf[s] + k
<1> DEFINE e == Numerals[k + 1]
<1>1. e \in DOMAIN Numeral /\ Numeral[e] = k
  BY NumeralOf
<1> HIDE DEF e
<1>2. Append(s, e) \in DigitTexts /\ Append(s, e) # <<>> /\ Front(Append(s, e)) = s /\ Last(Append(s, e)) = e
  BY <1>1, AppendFront DEF DigitTexts
<1>3. NumberOf[Append(s, e)] = 10 * NumberOf[s] + Numeral[e]
  BY <1>2, NumberDefined DEF DigitTexts
<1> QED BY <1>1, <1>2, <1>3 DEF e

(* The digits of a number are its own (encodeInt, decodeActLong).          *)
LEMMA DigitsRead ==
  \A n \in Nat : Digits[n] \in DigitTexts /\ Digits[n] # <<>> /\ NumberOf[Digits[n]] = n
<1> DEFINE S == {n \in Nat : Digits[n] \in DigitTexts /\ Digits[n] # <<>> /\ NumberOf[Digits[n]] = n}
<1>1. ASSUME NEW n \in Nat, \A m \in Nat : m < n => m \in S
      PROVE  n \in S
  <2>1. CASE n < 10
    <3>1. n \in 0..9 /\ n + 1 \in 1..10
      BY <2>1
    <3>2. Digits[n] = <<Numerals[n + 1]>>
      BY <2>1, DigitsDefined
    <3>3. <<>> \in DigitTexts /\ NumberOf[<<>>] = 0
      BY EmptySeq, NumberDefined DEF DigitTexts
    <3>4. Append(<<>>, Numerals[n + 1]) = <<Numerals[n + 1]>>
      OBVIOUS
    <3> HIDE DEF S
    <3>5. /\ Append(<<>>, Numerals[n + 1]) \in DigitTexts
          /\ NumberOf[Append(<<>>, Numerals[n + 1])] = 10 * NumberOf[<<>>] + n
      BY <3>1, <3>3, NumberAppend
    <3>6. Digits[n] \in DigitTexts /\ NumberOf[Digits[n]] = n /\ Digits[n] # <<>>
      BY <3>2, <3>3, <3>4, <3>5
    <3> QED BY <3>6 DEF S
  <2>2. CASE ~(n < 10)
    <3>1. n % 10 \in 0..9 /\ n \div 10 \in Nat /\ n \div 10 < n /\ n = 10 * (n \div 10) + (n % 10)
      BY <2>2
    <3>2. Digits[n] = Append(Digits[n \div 10], Numerals[(n % 10) + 1])
      BY <2>2, DigitsDefined
    <3>3. Digits[n \div 10] \in DigitTexts /\ NumberOf[Digits[n \div 10]] = n \div 10
      BY <1>1, <3>1
    <3> HIDE DEF S
    <3>4. Digits[n] \in DigitTexts /\ NumberOf[Digits[n]] = 10 * (n \div 10) + (n % 10)
      BY <3>1, <3>2, <3>3, NumberAppend
    <3>5. Numerals[(n % 10) + 1] \in DOMAIN Numeral
      BY <3>1, NumeralOf
    <3>6. Digits[n] # <<>>
      BY <3>2, <3>3, <3>5, AppendProperties DEF DigitTexts
    <3> QED BY <3>1, <3>4, <3>6 DEF S
  <2> QED BY <2>1, <2>2
<1> HIDE DEF S
<1>2. Nat \subseteq S
  BY <1>1, StrongInduction
<1> QED BY <1>2 DEF S

(* A sign and what follows it, up to what cannot be part of a number.      *)
LEMMA SignedRun ==
  ASSUME NEW n \in Int, NEW D, "-" \notin D, NEW y \in Texts, y # <<>>, \A i \in 1..Len(y) : y[i] \in D,
         NEW w \in Texts, w # <<>>, w[1] \notin D
  PROVE  /\ Minus(n) \in Texts /\ Minus(n) \o y \in Texts /\ (Minus(n) \o y) \o w \in Texts
         /\ Len(Minus(n)) = (IF n < 0 THEN 1 ELSE 0)
         /\ Sign((Minus(n) \o y) \o w) = Len(Minus(n))
         /\ EndOfRun(D, Len(Minus(n)), (Minus(n) \o y) \o w) = Len(Minus(n) \o y)
         /\ SubSeq((Minus(n) \o y) \o w, Len(Minus(n)) + 1, Len(Minus(n) \o y)) = y
         /\ Len(Minus(n) \o y) \in Nat \ {0} /\ Sign(Minus(n) \o y) = Len(Minus(n))
<1> DEFINE x == Minus(n)
           a == x \o y
           s == a \o w
<1>2. x = (IF n < 0 THEN <<"-">> ELSE <<>>)
  BY DEF Minus
<1>5. x \in Texts /\ Len(x) = (IF n < 0 THEN 1 ELSE 0)
  <2>1. "-" \in STRING
    BY StringsAssumption DEF Marks
  <2>2. <<"-">> \in Texts /\ Len(<<"-">>) = 1
    BY <2>1 DEF Texts
  <2>3. <<>> \in Texts /\ Len(<<>>) = 0
    BY Nothing
  <2> QED BY <1>2, <2>2, <2>3
<1> HIDE DEF x
<1>6. /\ a \in Texts /\ Len(a) = Len(x) + Len(y) /\ Len(x) \in Nat /\ Len(y) \in Nat
      /\ \A i \in 1..Len(x) : a[i] = x[i]
      /\ \A i \in 1..Len(y) : a[Len(x) + i] = y[i]
  BY <1>5, Concat
<1>7. SubSeq(s, Len(x) + 1, Len(a)) = y
  BY <1>5, Middle
<1> HIDE DEF a
<1>8. s \in Texts /\ Len(s) = Len(a) + Len(w) /\ Len(w) \in Nat /\ \A i \in 1..Len(a) : s[i] = a[i]
  BY <1>6, Concat
<1>9. Len(y) # 0 /\ Len(a) # 0 /\ a # <<>> /\ Len(s) # 0 /\ s # <<>> /\ 1 \in 1..Len(a)
  <2>1. Len(y) # 0
    BY Nothing
  <2>2. Len(s) # 0 /\ Len(a) # 0 /\ 1 \in 1..Len(a)
    BY <2>1, <1>6, <1>8
  <2> QED BY <1>6, <1>8, <2>1, <2>2, Nothing
<1> HIDE DEF s
<1>10. ASSUME NEW r \in Texts, r # <<>>, r[1] = a[1]
       PROVE  Sign(r) = Len(x)
  <2>1. CASE n < 0
    <3>1. x[1] = "-" /\ 1 \in 1..Len(x)
      BY <1>2, <1>5, <2>1
    <3>2. r[1] = "-"
      BY <1>6, <1>9, <1>10, <3>1
    <3> QED BY <1>5, <1>10, <2>1, <3>2, PrefixOne DEF Sign
  <2>2. CASE ~(n < 0)
    <3>1. r[1] = y[1] /\ 1 \in 1..Len(y)
      <4>1. 1 \in 1..Len(y) /\ Len(x) + 1 = 1
        BY <1>5, <1>6, <1>9, <2>2
      <4> QED BY <1>6, <1>9, <1>10, <4>1
    <3>2. r[1] # "-"
      BY <3>1
    <3> QED BY <1>5, <1>10, <2>2, <3>2, PrefixOne DEF Sign
  <2> QED BY <2>1, <2>2
<1>11. EndOfRun(D, Len(x), s) = Len(a)
  <2>1. \A j \in (Len(x) + 1)..Len(a) : a[j] \in D
    <3> SUFFICES ASSUME NEW j \in (Len(x) + 1)..Len(a) PROVE a[j] \in D
      OBVIOUS
    <3>1. j - Len(x) \in 1..Len(y) /\ Len(x) + (j - Len(x)) = j
      BY <1>6
    <3> QED BY <1>6, <3>1
  <2>2. Len(x) \in 0..Len(a)
    BY <1>6
  <2> QED BY <1>6, <2>1, <2>2, RunEnd DEF s
<1>12. Sign(s) = Len(x) /\ Sign(a) = Len(x)
  BY <1>6, <1>8, <1>9, <1>10
<1>13. Len(a) \in Nat \ {0}
  BY <1>6, <1>9
<1> QED BY <1>5, <1>6, <1>7, <1>8, <1>11, <1>12, <1>13 DEF s, a, x

(* A number is its magnitude, with its sign.                               *)
LEMMA MagnitudeOf ==
  ASSUME NEW n \in Int
  PROVE  Magnitude(n) \in Nat /\ n = (IF n < 0 THEN -Magnitude(n) ELSE Magnitude(n))
  BY DEF Magnitude

(* decodeActLong reads back what encodeInt has written, up to what is not  *)
(* a digit.                                                                *)
THEOREM DecimalRead ==
  ASSUME NEW n \in Int, NEW w \in Texts, w # <<>>, w[1] \notin DOMAIN Numeral
  PROVE  /\ Decimal(n) \in Texts /\ Len(Decimal(n)) \in Nat
         /\ NumberEnd(Decimal(n) \o w) = Len(Decimal(n))
         /\ NumberAt(Decimal(n) \o w) = {n}
<1> DEFINE m == Magnitude(n)
           x == Minus(n)
           y == Digits[m]
           D == DOMAIN Numeral
<1>1. m \in Nat /\ n = (IF n < 0 THEN -m ELSE m)
  BY MagnitudeOf
<1>2. y \in DigitTexts /\ y # <<>> /\ NumberOf[y] = m /\ y \in Texts
  BY <1>1, DigitsRead, DigitText
<1> HIDE DEF y
<1>3. "-" \notin D /\ \A i \in 1..Len(y) : y[i] \in D
  <2>1. "-" \notin NumeralSet
    BY DEF NumeralSet
  <2> QED BY <1>2, <2>1, NumeralDomain, ElementOfSeq DEF DigitTexts
<1>4. /\ x \o y \in Texts /\ Len(x \o y) \in Nat \ {0} /\ Len(x) = (IF n < 0 THEN 1 ELSE 0)
      /\ Sign((x \o y) \o w) = Len(x) /\ EndOfRun(D, Len(x), (x \o y) \o w) = Len(x \o y)
      /\ SubSeq((x \o y) \o w, Len(x) + 1, Len(x \o y)) = y
  <2> HIDE DEF D
  <2> QED BY <1>2, <1>3, SignedRun DEF D
<1>5. Decimal(n) = x \o y
  BY DEF Decimal, y
<1>6. NumberEnd((x \o y) \o w) = Len(x \o y)
  BY <1>4 DEF NumberEnd
<1>7. NumberAt((x \o y) \o w) = {n}
  <2> DEFINE s == (x \o y) \o w
  <2>1. NumberEnd(s) # 0
    BY <1>4, <1>6
  <2>2. NumberOf[SubSeq(s, Sign(s) + 1, NumberEnd(s))] = m
    BY <1>2, <1>4, <1>6
  <2>3. Sign(s) = 1 <=> n < 0
    BY <1>4
  <2> HIDE DEF s, m
  <2>4. NumberAt(s) = {IF Sign(s) = 1 THEN -m ELSE m}
    BY <2>1, <2>2, Zenon DEF NumberAt
  <2>5. (IF Sign(s) = 1 THEN -m ELSE m) = n
    BY <1>1, <2>3
  <2> QED BY <2>4, <2>5 DEF s
<1> QED BY <1>4, <1>5, <1>6, <1>7

-----------------------------------------------------------------------------
(* Base64.                                                                 *)

(* No two sextets have one character.                                      *)
LEMMA AlphabetInjective == \A i, j \in 1..64 : Alphabet[i] = Alphabet[j] => i = j
  BY DEF Alphabet

(* The names of the header lines that frame a message.                     *)
Framers == LengthNames \cup {"Transfer-Encoding"}

(* A character of the alphabet stands for its sextet, and is no padding,   *)
(* no start of a tag, and no such name.                                    *)
LEMMA SextetOf ==
  ASSUME NEW k \in 0..63
  PROVE  /\ Alphabet[k + 1] \in DOMAIN Sextet /\ Sextet[Alphabet[k + 1]] = k
         /\ Alphabet[k + 1] \in STRING /\ Alphabet[k + 1] \notin {"=", "<", "\n"} \cup Framers
<1> DEFINE a == Alphabet[k + 1]
           C == CHOOSE n \in 0..63 : Alphabet[n + 1] = a
<1>1. Len(Alphabet) = 64
  BY DEF Alphabet
<1>2. a \in ToSet(Alphabet)
  BY <1>1 DEF ToSet
<1>3. \A i \in 1..64 : Alphabet[i] \notin {"=", "<", "\n"} \cup Framers
  BY DEF Alphabet, Framers, LengthNames
<1>4. a \notin {"=", "<", "\n"} \cup Framers
  <2>1. k + 1 \in 1..64
    OBVIOUS
  <2> QED BY <1>3, <2>1
<1>5. a \in STRING
  BY <1>2, StringsAssumption
<1>6. C \in 0..63 /\ Alphabet[C + 1] = a
  OBVIOUS
<1>7. C = k
  <2> HIDE DEF C
  <2>1. C + 1 \in 1..64 /\ k + 1 \in 1..64
    BY <1>6
  <2>2. C + 1 = k + 1
    BY <1>6, <2>1, AlphabetInjective
  <2> QED BY <1>6, <2>2
<1>8. a \in DOMAIN Sextet /\ Sextet[a] = C
  <2> HIDE DEF a
  <2>1. a \in ToSet(Alphabet) \cup {"="} /\ a # "="
    BY <1>2, <1>4
  <2> QED BY <2>1 DEF Sextet, C
<1> QED BY <1>4, <1>5, <1>7, <1>8

(* How many numbers there are of so many bits.                             *)
LEMMA Powers == Power(0) = 1 /\ Power(2) = 4 /\ Power(4) = 16 /\ Power(6) = 64
  BY DEF Power

Byte == 0..255
Bits2 == 0..3
Bits4 == 0..15
Bits6 == 0..63
(* What a byte adds to the text, as the bits are that are left of the last.*)
Writing(left, bits, out) == [left |-> left, bits |-> bits, out |-> out]
(* binascii_b2a_base64 writes one or two characters for a byte and keeps   *)
(* what is left of its bits.                                               *)
LEMMA ByteShifted ==
  ASSUME NEW y \in Byte, NEW out
  PROVE  /\ ShiftByte(Writing(0, 0, out), y) = Writing(y % 4, 2, out \o <<Alphabet[y \div 4 + 1]>>)
         /\ \A l \in Bits2 : ShiftByte(Writing(l, 2, out), y) =
              Writing(y % 16, 4, out \o <<Alphabet[l * 16 + y \div 16 + 1]>>)
         /\ \A l \in Bits4 : ShiftByte(Writing(l, 4, out), y) =
              Writing(0, 0, out \o <<Alphabet[l * 4 + y \div 64 + 1], Alphabet[(y % 64) + 1]>>)
<1> DEFINE sextet(left, bits, i) == Alphabet[((left \div Power(bits - 6 * i)) % 64) + 1]
<1>1. ASSUME NEW l, NEW b
      PROVE  ShiftByte(Writing(l, b, out), y) =
               Writing((l * 256 + y) % Power((b + 8) % 6), (b + 8) % 6,
                 out \o [i \in 1..((b + 8) \div 6) |-> sextet(l * 256 + y, b + 8, i)])
  BY DEF ShiftByte, Writing
<1>2. \A f : [i \in 1..1 |-> f[i]] = <<f[1]>> /\ [i \in 1..2 |-> f[i]] = <<f[1], f[2]>>
  OBVIOUS
<1>3. ShiftByte(Writing(0, 0, out), y) = Writing(y % 4, 2, out \o <<Alphabet[y \div 4 + 1]>>)
  <2>1. /\ (0 + 8) % 6 = 2 /\ (0 + 8) \div 6 = 1 /\ 0 * 256 + y = y /\ 0 + 8 = 8
        /\ 8 - 6 * 1 = 2 /\ (y \div 4) % 64 = y \div 4
    BY DEF Byte, Bits2, Bits4, Bits6
  <2>2. ShiftByte(Writing(0, 0, out), y) =
          Writing(y % Power(2), 2, out \o [i \in 1..1 |-> sextet(y, 8, i)])
    <3>1. ShiftByte(Writing(0, 0, out), y) =
            Writing((0 * 256 + y) % Power((0 + 8) % 6), (0 + 8) % 6,
              out \o [i \in 1..((0 + 8) \div 6) |-> sextet(0 * 256 + y, 0 + 8, i)])
      BY <1>1
    <3> QED BY <2>1, <3>1
  <2>3. [i \in 1..1 |-> sextet(y, 8, i)] = <<sextet(y, 8, 1)>>
    OBVIOUS
  <2>4. sextet(y, 8, 1) = Alphabet[y \div 4 + 1]
    BY <2>1, Powers
  <2> QED BY <2>1, <2>2, <2>3, <2>4, Powers
<1>4. ASSUME NEW l \in Bits2
      PROVE  ShiftByte(Writing(l, 2, out), y) =
               Writing(y % 16, 4, out \o <<Alphabet[l * 16 + y \div 16 + 1]>>)
  <2> DEFINE left == l * 256 + y
  <2>1. /\ (2 + 8) % 6 = 4 /\ (2 + 8) \div 6 = 1 /\ 2 + 8 = 10 /\ left % 16 = y % 16
        /\ 10 - 6 * 1 = 4 /\ (left \div 16) % 64 = l * 16 + y \div 16
    BY DEF Byte, Bits2, Bits4, Bits6
  <2>2. ShiftByte(Writing(l, 2, out), y) =
          Writing(left % Power(4), 4, out \o [i \in 1..1 |-> sextet(left, 10, i)])
    <3>1. ShiftByte(Writing(l, 2, out), y) =
            Writing(left % Power((2 + 8) % 6), (2 + 8) % 6,
              out \o [i \in 1..((2 + 8) \div 6) |-> sextet(left, 2 + 8, i)])
      BY <1>1
    <3> HIDE DEF left
    <3> QED BY <2>1, <3>1
  <2> HIDE DEF left
  <2>3. [i \in 1..1 |-> sextet(left, 10, i)] = <<sextet(left, 10, 1)>>
    OBVIOUS
  <2>4. sextet(left, 10, 1) = Alphabet[l * 16 + y \div 16 + 1]
    BY <2>1, Powers
  <2> QED BY <2>1, <2>2, <2>3, <2>4, Powers
<1>5. ASSUME NEW l \in Bits4
      PROVE  ShiftByte(Writing(l, 4, out), y) =
               Writing(0, 0, out \o <<Alphabet[l * 4 + y \div 64 + 1], Alphabet[(y % 64) + 1]>>)
  <2> DEFINE left == l * 256 + y
  <2>1. /\ (4 + 8) % 6 = 0 /\ (4 + 8) \div 6 = 2 /\ 4 + 8 = 12 /\ left % 1 = 0 /\ 12 - 6 * 1 = 6
        /\ 12 - 6 * 2 = 0 /\ (left \div 64) % 64 = l * 4 + y \div 64 /\ (left \div 1) % 64 = y % 64
    BY DEF Byte, Bits2, Bits4, Bits6
  <2>2. ShiftByte(Writing(l, 4, out), y) =
          Writing(left % Power(0), 0, out \o [i \in 1..2 |-> sextet(left, 12, i)])
    <3>1. ShiftByte(Writing(l, 4, out), y) =
            Writing(left % Power((4 + 8) % 6), (4 + 8) % 6,
              out \o [i \in 1..((4 + 8) \div 6) |-> sextet(left, 4 + 8, i)])
      BY <1>1
    <3> HIDE DEF left
    <3> QED BY <2>1, <3>1
  <2> HIDE DEF left
  <2>3. [i \in 1..2 |-> sextet(left, 12, i)] = <<sextet(left, 12, 1), sextet(left, 12, 2)>>
    OBVIOUS
  <2>4. /\ sextet(left, 12, 1) = Alphabet[l * 4 + y \div 64 + 1]
        /\ sextet(left, 12, 2) = Alphabet[(y % 64) + 1]
    BY <2>1, Powers
  <2> QED BY <2>1, <2>2, <2>3, <2>4, Powers
<1> QED BY <1>3, <1>4, <1>5

(* What a character of the text adds to the bytes.                         *)
Reading(left, bits, npad, out) == [left |-> left, bits |-> bits, npad |-> npad, out |-> out]
(* binascii_a2b_base64 keeps the bits of a character until there are       *)
(* eight, and puts out a byte then.                                        *)
LEMMA SextetShifted ==
  ASSUME NEW k \in Bits6, NEW l, NEW b, NEW out
  PROVE  ShiftSextet(Reading(l, b, 0, out), Alphabet[k + 1]) =
           IF b + 6 < 8 THEN Reading(l * 64 + k, b + 6, 0, out)
           ELSE Reading((l * 64 + k) % Power((b + 6) - 8), (b + 6) - 8, 0,
                        Append(out, (l * 64 + k) \div Power((b + 6) - 8)))
<1> DEFINE a == Alphabet[k + 1]
<1>1. a \in DOMAIN Sextet /\ Sextet[a] = k /\ a # "="
  BY SextetOf DEF Bits6
<1> HIDE DEF a
<1> DEFINE s == Reading(l, b, 0, out)
<1>2. s.left = l /\ s.bits = b /\ s.npad = 0 /\ s.out = out
  BY DEF Reading
<1> HIDE DEF s
<1>3. ShiftSextet(s, a) = IF s.bits + 6 < 8 THEN Reading(s.left * 64 + k, s.bits + 6, s.npad, s.out)
             ELSE Reading((s.left * 64 + k) % Power((s.bits + 6) - 8), (s.bits + 6) - 8, s.npad,
                          Append(s.out, (s.left * 64 + k) \div Power((s.bits + 6) - 8)))
  <2>1. CASE s.bits + 6 < 8
    BY <1>1, <2>1 DEF ShiftSextet, Reading
  <2>2. CASE ~(s.bits + 6 < 8)
    BY <1>1, <2>2 DEF ShiftSextet, Reading
  <2> QED BY <2>1, <2>2
<1> QED BY <1>2, <1>3 DEF s, a

(* The first of four characters makes no byte.                             *)
LEMMA FirstSextet ==
  ASSUME NEW k \in Bits6, NEW out
  PROVE  ShiftSextet(Reading(0, 0, 0, out), Alphabet[k + 1]) = Reading(k, 6, 0, out)
<1>1. 0 + 6 = 6 /\ 6 < 8 /\ 0 * 64 + k = k
  BY DEF Bits6
<1>2. ShiftSextet(Reading(0, 0, 0, out), Alphabet[k + 1]) =
        IF 0 + 6 < 8 THEN Reading(0 * 64 + k, 0 + 6, 0, out)
        ELSE Reading((0 * 64 + k) % Power((0 + 6) - 8), (0 + 6) - 8, 0,
                     Append(out, (0 * 64 + k) \div Power((0 + 6) - 8)))
  BY SextetShifted, Zenon
<1> QED BY <1>1, <1>2

(* The second of four characters completes the first byte.                 *)
LEMMA SecondSextet ==
  ASSUME NEW k \in Bits6, NEW l \in Bits6, NEW out
  PROVE  ShiftSextet(Reading(l, 6, 0, out), Alphabet[k + 1]) =
           Reading(k % 16, 4, 0, Append(out, l * 4 + k \div 16))
<1> DEFINE left == l * 64 + k
<1>1. ~(6 + 6 < 8) /\ (6 + 6) - 8 = 4 /\ left % 16 = k % 16 /\ left \div 16 = l * 4 + k \div 16
  BY DEF Bits2, Bits4, Bits6
<1>2. ShiftSextet(Reading(l, 6, 0, out), Alphabet[k + 1]) =
        Reading(left % Power(4), 4, 0, Append(out, left \div Power(4)))
  <2>1. ShiftSextet(Reading(l, 6, 0, out), Alphabet[k + 1]) =
          IF 6 + 6 < 8 THEN Reading(left, 6 + 6, 0, out)
          ELSE Reading(left % Power((6 + 6) - 8), (6 + 6) - 8, 0,
                       Append(out, left \div Power((6 + 6) - 8)))
    BY SextetShifted, Zenon
  <2> HIDE DEF left
  <2> QED BY <1>1, <2>1
<1> HIDE DEF left
<1> QED BY <1>1, <1>2, Powers

(* The third of four characters completes the second byte.                 *)
LEMMA ThirdSextet ==
  ASSUME NEW k \in Bits6, NEW l \in Bits4, NEW out
  PROVE  ShiftSextet(Reading(l, 4, 0, out), Alphabet[k + 1]) =
           Reading(k % 4, 2, 0, Append(out, l * 16 + k \div 4))
<1> DEFINE left == l * 64 + k
<1>1. ~(4 + 6 < 8) /\ (4 + 6) - 8 = 2 /\ left % 4 = k % 4 /\ left \div 4 = l * 16 + k \div 4
  BY DEF Bits2, Bits4, Bits6
<1>2. ShiftSextet(Reading(l, 4, 0, out), Alphabet[k + 1]) =
        Reading(left % Power(2), 2, 0, Append(out, left \div Power(2)))
  <2>1. ShiftSextet(Reading(l, 4, 0, out), Alphabet[k + 1]) =
          IF 4 + 6 < 8 THEN Reading(left, 4 + 6, 0, out)
          ELSE Reading(left % Power((4 + 6) - 8), (4 + 6) - 8, 0,
                       Append(out, left \div Power((4 + 6) - 8)))
    BY SextetShifted, Zenon
  <2> HIDE DEF left
  <2> QED BY <1>1, <2>1
<1> HIDE DEF left
<1> QED BY <1>1, <1>2, Powers

(* The fourth of four characters completes the third byte.                 *)
LEMMA FourthSextet ==
  ASSUME NEW k \in Bits6, NEW l \in Bits2, NEW out
  PROVE  ShiftSextet(Reading(l, 2, 0, out), Alphabet[k + 1]) =
           Reading(0, 0, 0, Append(out, l * 64 + k))
<1> DEFINE left == l * 64 + k
<1>1. ~(2 + 6 < 8) /\ (2 + 6) - 8 = 0 /\ left % 1 = 0 /\ left \div 1 = l * 64 + k
  BY DEF Bits2, Bits4, Bits6
<1>2. ShiftSextet(Reading(l, 2, 0, out), Alphabet[k + 1]) =
        Reading(left % Power(0), 0, 0, Append(out, left \div Power(0)))
  <2>1. ShiftSextet(Reading(l, 2, 0, out), Alphabet[k + 1]) =
          IF 2 + 6 < 8 THEN Reading(left, 2 + 6, 0, out)
          ELSE Reading(left % Power((2 + 6) - 8), (2 + 6) - 8, 0,
                       Append(out, left \div Power((2 + 6) - 8)))
    BY SextetShifted, Zenon
  <2> HIDE DEF left
  <2> QED BY <1>1, <2>1
<1> HIDE DEF left
<1> QED BY <1>1, <1>2, Powers

(* Padding counts as a zero and is counted.                                *)
LEMMA PaddingShifted ==
  ASSUME NEW n \in Nat, NEW out
  PROVE  /\ ShiftSextet(Reading(0, 4, n, out), "=") = Reading(0, 2, n + 1, Append(out, 0))
         /\ ShiftSextet(Reading(0, 2, n, out), "=") = Reading(0, 0, n + 1, Append(out, 0))
<1>1. "=" \in DOMAIN Sextet /\ Sextet["="] = 0
  BY DEF Sextet
<1>2. ASSUME NEW b
      PROVE  ShiftSextet(Reading(0, b, n, out), "=") =
               IF b + 6 < 8 THEN Reading(0 * 64 + 0, b + 6, n + 1, out)
               ELSE Reading((0 * 64 + 0) % Power((b + 6) - 8), (b + 6) - 8, n + 1,
                            Append(out, (0 * 64 + 0) \div Power((b + 6) - 8)))
  <2> DEFINE s == Reading(0, b, n, out)
  <2>1. s.left = 0 /\ s.bits = b /\ s.npad = n /\ s.out = out
    BY DEF Reading
  <2> HIDE DEF s
  <2>2. ShiftSextet(s, "=") =
          IF s.bits + 6 < 8 THEN Reading(s.left * 64 + 0, s.bits + 6, s.npad + 1, s.out)
          ELSE Reading((s.left * 64 + 0) % Power((s.bits + 6) - 8), (s.bits + 6) - 8, s.npad + 1,
                       Append(s.out, (s.left * 64 + 0) \div Power((s.bits + 6) - 8)))
    <3>1. CASE s.bits + 6 < 8
      BY <1>1, <3>1 DEF ShiftSextet, Reading
    <3>2. CASE ~(s.bits + 6 < 8)
      BY <1>1, <3>2 DEF ShiftSextet, Reading
    <3> QED BY <3>1, <3>2
  <2> QED BY <2>1, <2>2 DEF s
<1>3. /\ ~(4 + 6 < 8) /\ (4 + 6) - 8 = 2 /\ ~(2 + 6 < 8) /\ (2 + 6) - 8 = 0
      /\ (0 * 64 + 0) % 4 = 0 /\ (0 * 64 + 0) \div 4 = 0
      /\ (0 * 64 + 0) % 1 = 0 /\ (0 * 64 + 0) \div 1 = 0
  OBVIOUS
<1> QED BY <1>2, <1>3, Powers

(* What is in a text before the next tag.                                  *)
Plain == STRING \ {"<"}
(* What is in a text before the next tag is a text.                        *)
LEMMA PlainText == Seq(Plain) \subseteq Texts
  BY SeqMonotonic DEF Plain, Texts

(* A character that starts no tag is a character.                          *)
LEMMA PlainString == \A c \in Plain : c \in STRING
  BY DEF Plain

(* What is in a text of base64, besides.                                   *)
Coded == STRING \ ({"<", "\n"} \cup Framers)
(* It is a text without a tag.                                             *)
LEMMA CodedText == Seq(Coded) \subseteq Texts /\ Seq(Coded) \subseteq Seq(Plain)
<1>1. Coded \subseteq STRING /\ Coded \subseteq Plain
  BY DEF Coded, Plain
<1> QED BY <1>1, SeqMonotonic DEF Texts

(* Reading one character more is one step more.                            *)
LEMMA UnshiftedAppend ==
  ASSUME NEW t \in Texts, NEW c \in STRING
  PROVE  Unshifted[Append(t, c)] = ShiftSextet(Unshifted[t], c)
<1>1. /\ Append(t, c) \in Texts /\ Append(t, c) # <<>>
      /\ Front(Append(t, c)) = t /\ Last(Append(t, c)) = c
  BY AppendFront DEF Texts
<1> QED BY <1>1, UnshiftedDefined

(* One character more leaves a text without a tag.                         *)
LEMMA CodedAppend ==
  ASSUME NEW t \in Seq(Coded), NEW c \in Coded
  PROVE  Append(t, c) = t \o <<c>> /\ Append(t, c) \in Seq(Coded) /\ t \in Texts /\ c \in STRING
  BY AppendFront, CodedText DEF Coded

(* Two characters more are one more, twice.                                *)
LEMMA CodedPair ==
  ASSUME NEW t \in Seq(Coded), NEW c \in Coded, NEW d \in Coded
  PROVE  t \o <<c, d>> = Append(Append(t, c), d)
<1>1. /\ Append(t, c) = t \o <<c>> /\ Append(t, c) \in Seq(Coded)
      /\ Append(Append(t, c), d) = Append(t, c) \o <<d>>
  BY CodedAppend
<1>2. \A x, y, z \in Seq(Coded) : (x \o y) \o z = x \o (y \o z)
  BY ConcatAssociative
<1>3. <<c>> \in Seq(Coded) /\ <<d>> \in Seq(Coded)
  OBVIOUS
<1>4. <<c>> \o <<d>> = <<c, d>>
  <2>1. Append(<<c>>, d) = <<c>> \o <<d>>
    BY <1>3, AppendFront
  <2> DEFINE a == Append(<<c>>, d)
             q == <<c, d>>
  <2>2. a \in Seq(Coded) /\ Len(a) = 2 /\ a[1] = c /\ a[2] = d
    <3>1. Len(<<c>>) = 1 /\ <<c>>[1] = c
      OBVIOUS
    <3> QED BY <1>3, <3>1, AppendProperties
  <2>3. q \in Seq(Coded) /\ Len(q) = 2 /\ q[1] = c /\ q[2] = d
    BY Pair
  <2> HIDE DEF a, q
  <2>4. a = q
    <3>1. \A i \in 1..2 : a[i] = q[i]
      BY <2>2, <2>3
    <3> QED BY <2>2, <2>3, <3>1, SeqEqual
  <2> QED BY <2>1, <2>4 DEF a, q
<1> QED BY <1>1, <1>2, <1>3

(* Writing one byte more is one step more.                                 *)
LEMMA ShiftedAppend ==
  ASSUME NEW b \in Seq(Byte), NEW z \in Byte
  PROVE  Shifted[Append(b, z)] = ShiftByte(Shifted[b], z) /\ Append(b, z) \in Seq(Byte)
<1>1. /\ Append(b, z) \in Seq(Byte) /\ Append(b, z) # <<>>
      /\ Front(Append(b, z)) = b /\ Last(Append(b, z)) = z
  BY AppendFront
<1>2. \A c \in Seq(Byte) :
        Shifted[c] = IF c = <<>> THEN NoBits ELSE ShiftByte(Shifted[Front(c)], Last(c))
  BY ShiftedDefined, Zenon DEF Byte
<1> QED BY <1>1, <1>2

(* What three bytes are in four sextets.                                   *)
LEMMA BytesAsSextets ==
  ASSUME NEW y \in Byte, NEW z \in Byte
  PROVE  /\ y % 4 \in Bits2 /\ y \div 4 \in Bits6 /\ (y % 4) * 16 + z \div 16 \in Bits6
         /\ (y \div 4) * 4 + ((y % 4) * 16 + z \div 16) \div 16 = y
         /\ ((y % 4) * 16 + z \div 16) % 16 = z \div 16
         /\ y % 16 \in Bits4 /\ y \div 16 \in Bits4 /\ (y % 16) * 4 + z \div 64 \in Bits6
         /\ (y \div 16) * 16 + ((y % 16) * 4 + z \div 64) \div 4 = y
         /\ ((y % 16) * 4 + z \div 64) % 4 \in Bits2 /\ z % 64 \in Bits6
         /\ (((y % 16) * 4 + z \div 64) % 4) * 64 + (z % 64) = z
  BY DEF Byte, Bits2, Bits4, Bits6

(* What has been written of bytes, and what has been read of that: all of  *)
(* them, or all but some bits of the last.                                 *)
BytesHeld(b, e, u) ==
  /\ e.out \in Seq(Coded)
  /\ \/ e = Writing(0, 0, e.out) /\ u = Reading(0, 0, 0, b)
     \/ \E p \in Seq(Byte), y \in Byte :
          b = Append(p, y) /\ e = Writing(y % 4, 2, e.out) /\ u = Reading(y \div 4, 6, 0, p)
     \/ \E p \in Seq(Byte), y \in Byte :
          b = Append(p, y) /\ e = Writing(y % 16, 4, e.out) /\ u = Reading(y \div 16, 4, 0, p)

(* Reader and writer agree after one byte more: what the writer still      *)
(* holds of a byte, the reader has not put out.                            *)
LEMMA BytesHeldNext ==
  ASSUME NEW b \in Seq(Byte), NEW z \in Byte, BytesHeld(b, Shifted[b], Unshifted[Shifted[b].out])
  PROVE  BytesHeld(Append(b, z), Shifted[Append(b, z)], Unshifted[Shifted[Append(b, z)].out])
<1> DEFINE e == Shifted[b]
           u == Unshifted[e.out]
           o == e.out
           f == Shifted[Append(b, z)]
<1>1. f = ShiftByte(e, z)
  BY ShiftedAppend
<1>2. o \in Seq(Coded) /\ o \in Texts
  BY CodedText DEF BytesHeld
<1>3. ASSUME NEW k \in Bits6
      PROVE  Alphabet[k + 1] \in Coded
  BY SextetOf DEF Coded, Bits6
<1>4. \/ e = Writing(0, 0, o) /\ u = Reading(0, 0, 0, b)
      \/ \E p \in Seq(Byte), y \in Byte :
           b = Append(p, y) /\ e = Writing(y % 4, 2, o) /\ u = Reading(y \div 4, 6, 0, p)
      \/ \E p \in Seq(Byte), y \in Byte :
           b = Append(p, y) /\ e = Writing(y % 16, 4, o) /\ u = Reading(y \div 16, 4, 0, p)
  BY DEF BytesHeld
<1> HIDE DEF e, u, o, f
<1>0. u = Unshifted[o]
  BY DEF u, o
<1>5. CASE e = Writing(0, 0, o) /\ u = Reading(0, 0, 0, b)
  <2> DEFINE k == z \div 4
  <2>1. k \in Bits6
    BY BytesAsSextets
  <2> DEFINE c == Alphabet[k + 1]
  <2>2. f = Writing(z % 4, 2, o \o <<c>>)
    BY <1>1, <1>5, ByteShifted
  <2> HIDE DEF k
  <2>3. c \in Coded /\ ShiftSextet(Reading(0, 0, 0, b), c) = Reading(k, 6, 0, b)
    BY <1>3, <2>1, FirstSextet
  <2> HIDE DEF c
  <2>4. f.out = Append(o, c) /\ Append(o, c) \in Seq(Coded)
    BY <1>2, <2>2, <2>3, CodedAppend DEF Writing
  <2>5. Unshifted[f.out] = Reading(k, 6, 0, b)
    BY <1>0, <1>2, <1>5, <2>3, <2>4, CodedAppend, UnshiftedAppend
  <2>6. f = Writing(z % 4, 2, f.out)
    BY <2>2 DEF Writing
  <2> QED BY <2>4, <2>5, <2>6 DEF BytesHeld, k, f
<1>6. ASSUME NEW p \in Seq(Byte), NEW y \in Byte, b = Append(p, y),
             e = Writing(y % 4, 2, o), u = Reading(y \div 4, 6, 0, p)
      PROVE  BytesHeld(Append(b, z), f, Unshifted[f.out])
  <2> DEFINE l == y % 4
             h == y \div 4
             k == l * 16 + z \div 16
             j == z \div 16
  <2>1. l \in Bits2 /\ h \in Bits6 /\ k \in Bits6 /\ h * 4 + k \div 16 = y /\ k % 16 = j
    BY BytesAsSextets
  <2> DEFINE c == Alphabet[k + 1]
  <2>2. f = Writing(z % 16, 4, o \o <<c>>)
    <3> HIDE DEF l
    <3>1. ShiftByte(Writing(l, 2, o), z) = Writing(z % 16, 4, o \o <<c>>)
      BY <2>1, ByteShifted
    <3> QED BY <1>1, <1>6, <3>1 DEF l
  <2> HIDE DEF k, h, l
  <2>3. c \in Coded
    BY <1>3, <2>1
  <2>4. ShiftSextet(Reading(h, 6, 0, p), c) = Reading(j, 4, 0, Append(p, y))
    <3>1. ShiftSextet(Reading(h, 6, 0, p), c) = Reading(k % 16, 4, 0, Append(p, h * 4 + k \div 16))
      BY <2>1, SecondSextet
    <3> QED BY <2>1, <3>1
  <2> HIDE DEF c, j
  <2>5. f.out = Append(o, c) /\ Append(o, c) \in Seq(Coded)
    BY <1>2, <2>2, <2>3, CodedAppend DEF Writing
  <2>6. Unshifted[f.out] = Reading(j, 4, 0, b)
    BY <1>0, <1>2, <1>6, <2>3, <2>4, <2>5, CodedAppend, UnshiftedAppend DEF h
  <2>7. f = Writing(z % 16, 4, f.out)
    BY <2>2 DEF Writing
  <2> QED BY <2>5, <2>6, <2>7 DEF BytesHeld, j
<1>7. ASSUME NEW p \in Seq(Byte), NEW y \in Byte, b = Append(p, y),
             e = Writing(y % 16, 4, o), u = Reading(y \div 16, 4, 0, p)
      PROVE  BytesHeld(Append(b, z), f, Unshifted[f.out])
  <2> DEFINE l == y % 16
             h == y \div 16
             k == l * 4 + z \div 64
             j == z % 64
  <2>1. /\ l \in Bits4 /\ h \in Bits4 /\ k \in Bits6 /\ j \in Bits6
        /\ h * 16 + k \div 4 = y /\ k % 4 \in Bits2 /\ (k % 4) * 64 + j = z
    BY BytesAsSextets
  <2> DEFINE c == Alphabet[k + 1]
             d == Alphabet[j + 1]
  <2>0. l \in Bits4
    BY <2>1
  <2>2. f = Writing(0, 0, o \o <<c, d>>)
    <3> HIDE DEF l
    <3>1. ShiftByte(Writing(l, 4, o), z) = Writing(0, 0, o \o <<c, d>>)
      BY <2>0, ByteShifted, Zenon
    <3> QED BY <1>1, <1>7, <3>1 DEF l
  <2> HIDE DEF k, h, j, l
  <2>3. c \in Coded /\ d \in Coded
    BY <1>3, <2>1
  <2> DEFINE q == k % 4
  <2>a. h \in Bits4 /\ k \in Bits6 /\ j \in Bits6 /\ q \in Bits2
    BY <2>1
  <2> HIDE DEF q
  <2>4. ShiftSextet(Reading(h, 4, 0, p), c) = Reading(k % 4, 2, 0, b)
    <3>1. ShiftSextet(Reading(h, 4, 0, p), c) = Reading(k % 4, 2, 0, Append(p, h * 16 + k \div 4))
      BY <2>a, ThirdSextet DEF q
    <3> QED BY <1>7, <2>1, <3>1
  <2>5. ShiftSextet(Reading(k % 4, 2, 0, b), d) = Reading(0, 0, 0, Append(b, z))
    <3>1. ShiftSextet(Reading(q, 2, 0, b), d) = Reading(0, 0, 0, Append(b, q * 64 + j))
      BY <2>a, FourthSextet
    <3> QED BY <2>1, <3>1 DEF q
  <2> HIDE DEF c, d
  <2>6. f.out = Append(Append(o, c), d)
    BY <1>2, <2>2, <2>3, CodedPair DEF Writing
  <2>7. Append(o, c) \in Seq(Coded) /\ f.out \in Seq(Coded)
    BY <1>2, <2>3, <2>6, CodedAppend
  <2>8. Unshifted[f.out] = Reading(0, 0, 0, Append(b, z))
    <3>1. Unshifted[Append(o, c)] = Reading(k % 4, 2, 0, b)
      BY <1>0, <1>2, <1>7, <2>3, <2>4, CodedAppend, UnshiftedAppend DEF h
    <3> QED BY <2>3, <2>5, <2>6, <2>7, <3>1, CodedAppend, UnshiftedAppend
  <2>9. f = Writing(0, 0, f.out)
    BY <2>2 DEF Writing
  <2> QED BY <2>7, <2>8, <2>9 DEF BytesHeld
<1> QED BY <1>4, <1>5, <1>6, <1>7 DEF f

(* Three characters more are one more, three times.                        *)
LEMMA CodedTriple ==
  ASSUME NEW t \in Seq(Coded), NEW c \in Coded, NEW d \in Coded, NEW f \in Coded
  PROVE  t \o <<c, d, f>> = Append(Append(Append(t, c), d), f)
<1>1. t \o <<c, d>> = Append(Append(t, c), d)
  BY CodedPair
<1>2. /\ <<c, d>> \in Seq(Coded) /\ <<f>> \in Seq(Coded)
      /\ Append(Append(t, c), d) \in Seq(Coded)
  <2>1. <<f>> \in Seq(Coded)
    OBVIOUS
  <2> QED BY <2>1, CodedAppend, Pair
<1>3. Append(Append(Append(t, c), d), f) = (t \o <<c, d>>) \o <<f>>
  BY <1>1, <1>2, CodedAppend
<1>4. \A x, y, z \in Seq(Coded) : (x \o y) \o z = x \o (y \o z)
  BY ConcatAssociative
<1>5. <<c, d>> \o <<f>> = <<c, d, f>>
  <2>1. Append(<<c, d>>, f) = <<c, d>> \o <<f>>
    BY <1>2, AppendFront
  <2> DEFINE a == Append(<<c, d>>, f)
             q == <<c, d, f>>
  <2>2. a \in Seq(Coded) /\ Len(a) = 3 /\ a[1] = c /\ a[2] = d /\ a[3] = f
    BY <1>2, Pair, AppendProperties
  <2>3. q \in Seq(Coded) /\ Len(q) = 3 /\ q[1] = c /\ q[2] = d /\ q[3] = f
    OBVIOUS
  <2> HIDE DEF a, q
  <2>4. a = q
    <3>1. \A i \in 1..3 : a[i] = q[i]
      BY <2>2, <2>3
    <3> QED BY <2>2, <2>3, <3>1, SeqEqual
  <2> QED BY <2>1, <2>4 DEF a, q
<1> QED BY <1>2, <1>3, <1>4, <1>5

(* Reader and writer agree after any bytes.                                *)
LEMMA AllBytesHeld ==
  \A b \in Seq(Byte) : BytesHeld(b, Shifted[b], Unshifted[Shifted[b].out])
<1> DEFINE S == {b \in Seq(Byte) : BytesHeld(b, Shifted[b], Unshifted[Shifted[b].out])}
<1>1. <<>> \in S
  <2>1. Shifted[<<>>] = Writing(0, 0, <<>>) /\ <<>> \in Seq(Byte)
    BY ShiftedDefined, EmptySeq DEF Byte, NoBits, Writing
  <2>2. Unshifted[<<>>] = Reading(0, 0, 0, <<>>)
    BY UnshiftedDefined, EmptySeq DEF Texts, NothingRead, Reading
  <2>3. Writing(0, 0, <<>>).out = <<>> /\ <<>> \in Seq(Coded)
    BY EmptySeq DEF Writing
  <2> QED BY <2>1, <2>2, <2>3 DEF BytesHeld
<1>2. ASSUME NEW b \in Seq(Byte), NEW z \in Byte, b \in S
      PROVE  Append(b, z) \in S
  BY <1>2, BytesHeldNext, ShiftedAppend
<1> HIDE DEF S
<1>3. Seq(Byte) \subseteq S
  BY <1>1, <1>2, FrontInduction
<1> QED BY <1>3 DEF S

(* binascii_a2b_base64 reads the bytes that binascii_b2a_base64 has        *)
(* written.                                                                *)
THEOREM BytesRead ==
  ASSUME NEW b \in Seq(Byte)
  PROVE  /\ BytesText(b) \in Seq(Coded) /\ BytesText(b) \in Seq(Plain)
         /\ BytesOf(BytesText(b)) = {b}
<1> DEFINE e == Shifted[b]
           o == e.out
           u == Unshifted[o]
           t == BytesText(b)
<1> SUFFICES t \in Seq(Coded) /\ BytesOf(t) = {b}
  BY CodedText
<1>1. /\ o \in Seq(Coded)
      /\ \/ e = Writing(0, 0, o) /\ u = Reading(0, 0, 0, b)
         \/ \E p \in Seq(Byte), y \in Byte :
              b = Append(p, y) /\ e = Writing(y % 4, 2, o) /\ u = Reading(y \div 4, 6, 0, p)
         \/ \E p \in Seq(Byte), y \in Byte :
              b = Append(p, y) /\ e = Writing(y % 16, 4, o) /\ u = Reading(y \div 16, 4, 0, p)
  BY AllBytesHeld DEF BytesHeld
<1>2. t = o \o (CASE e.bits = 2 -> <<Alphabet[e.left * 16 + 1], "=", "=">>
                  [] e.bits = 4 -> <<Alphabet[e.left * 4 + 1], "=">>
                  [] OTHER -> <<>>)
  BY DEF BytesText
<1> HIDE DEF e, o, t
<1>3. "=" \in Coded /\ 0 \in Byte
  <2>1. "=" \in STRING /\ "=" \notin Framers
    <3>1. "=" \in STRING
      BY StringsAssumption DEF Marks
    <3>2. "=" \notin Framers
      BY DEF Framers, LengthNames
    <3> QED BY <3>1, <3>2
  <2>2. 0 \in Byte
    BY DEF Byte
  <2> QED BY <2>1, <2>2 DEF Coded
<1>4. ASSUME NEW k \in Bits6
      PROVE  Alphabet[k + 1] \in Coded
  BY SextetOf DEF Coded, Bits6
<1>5. CASE e = Writing(0, 0, o) /\ u = Reading(0, 0, 0, b)
  <2>1. t = o
    <3>1. e.bits = 0
      BY <1>5 DEF Writing
    <3>2. t = o \o <<>>
      BY <1>2, <3>1
    <3> QED BY <1>1, <3>2, ConcatEmptySeq
  <2>2. u.bits = 0 /\ u.npad = 0 /\ u.out = b
    BY <1>5 DEF Reading
  <2>3. SubSeq(b, 1, Len(b) - 0) = b
    BY SubSeqFull, LenProperties
  <2>4. BytesOf(o) = {b}
    BY <2>2, <2>3 DEF BytesOf
  <2> QED BY <1>1, <2>1, <2>4 DEF t
<1>6. ASSUME NEW p \in Seq(Byte), NEW y \in Byte, b = Append(p, y),
             e = Writing(y % 4, 2, o), u = Reading(y \div 4, 6, 0, p)
      PROVE  t \in Seq(Coded) /\ BytesOf(t) = {b}
  <2> DEFINE h == y \div 4
             k == (y % 4) * 16
             c == Alphabet[k + 1]
  <2>1. k \in Bits6 /\ h \in Bits6 /\ k % 16 = 0 /\ h * 4 + k \div 16 = y
    BY DEF Byte, Bits6
  <2>2. t = o \o <<c, "=", "=">>
    <3>1. e.bits = 2 /\ e.left = y % 4
      BY <1>6 DEF Writing
    <3> QED BY <1>2, <3>1
  <2> HIDE DEF k, h
  <2>3. c \in Coded /\ ShiftSextet(Reading(h, 6, 0, p), c) = Reading(0, 4, 0, b)
    <3>1. ShiftSextet(Reading(h, 6, 0, p), c) = Reading(k % 16, 4, 0, Append(p, h * 4 + k \div 16))
      BY <2>1, SecondSextet
    <3> QED BY <1>4, <1>6, <2>1, <3>1
  <2> HIDE DEF c
  <2> DEFINE v1 == Append(o, c)
             v2 == Append(v1, "=")
             v3 == Append(v2, "=")
             b1 == Append(b, 0)
             b2 == Append(b1, 0)
  <2>4. t = v3
    BY <1>1, <1>3, <2>2, <2>3, CodedTriple
  <2>5. v1 \in Seq(Coded) /\ v2 \in Seq(Coded) /\ v3 \in Seq(Coded)
    BY <1>1, <1>3, <2>3, CodedAppend
  <2>6. /\ Unshifted[v1] = ShiftSextet(u, c) /\ Unshifted[v2] = ShiftSextet(Unshifted[v1], "=")
        /\ Unshifted[v3] = ShiftSextet(Unshifted[v2], "=")
    BY <1>1, <1>3, <2>3, <2>5, CodedAppend, UnshiftedAppend
  <2> HIDE DEF v1, v2, v3
  <2>7. Unshifted[v1] = Reading(0, 4, 0, b)
    BY <1>6, <2>3, <2>6 DEF h
  <2>8. Unshifted[v2] = Reading(0, 2, 0 + 1, b1)
    BY <2>6, <2>7, PaddingShifted
  <2>9. Unshifted[v3] = Reading(0, 0, 1 + 1, b2)
    <3>1. 0 + 1 = 1 /\ 1 \in Nat
      OBVIOUS
    <3> QED BY <2>6, <2>8, <3>1, PaddingShifted
  <2>10. b1 \in Seq(Byte) /\ b2 \in Seq(Byte) /\ b2 = b1 \o <<0>> /\ Len(b2) = Len(b) + 2
    BY <1>3, AppendFront
  <2>11. SubSeq(b2, 1, Len(b2) - 2) = b
    <3>1. Front(b1) = b /\ Len(b1) = Len(b) + 1 /\ Len(b) \in Nat
      BY <1>3, AppendFront
    <3>2. Len(b) # 0
      <4>1. b # <<>>
        BY <1>6, AppendFront
      <4> QED BY <4>1, EmptySeq
    <3>3. 1 \in 1..Len(b1) /\ Len(b) \in 1..Len(b1)
      BY <3>1, <3>2
    <3>4. <<0>> \in Seq(Byte)
      BY <1>3
    <3> HIDE DEF b1, b2
    <3>5. SubSeq(b2, 1, Len(b)) = SubSeq(b1, 1, Len(b))
      BY <2>10, <3>3, <3>4, SubSeqOfConcat1
    <3>6. (Len(b) + 1) - 1 = Len(b) /\ (Len(b) + 2) - 2 = Len(b)
      BY <3>1
    <3> QED BY <2>10, <3>1, <3>5, <3>6 DEF Front
  <2>12. Reading(0, 0, 1 + 1, b2).bits = 0 /\ Reading(0, 0, 1 + 1, b2).npad = 2 /\ Reading(0, 0, 1 + 1, b2).out = b2
    BY DEF Reading
  <2> HIDE DEF b2
  <2> QED BY <2>4, <2>5, <2>9, <2>11, <2>12 DEF BytesOf
<1>7. ASSUME NEW p \in Seq(Byte), NEW y \in Byte, b = Append(p, y),
             e = Writing(y % 16, 4, o), u = Reading(y \div 16, 4, 0, p)
      PROVE  t \in Seq(Coded) /\ BytesOf(t) = {b}
  <2> DEFINE h == y \div 16
             k == (y % 16) * 4
             c == Alphabet[k + 1]
  <2>1. k \in Bits6 /\ h \in Bits4 /\ k % 4 = 0 /\ h * 16 + k \div 4 = y
    BY DEF Byte, Bits6, Bits4
  <2>2. t = o \o <<c, "=">>
    <3>1. e.bits = 4 /\ e.left = y % 16
      BY <1>7 DEF Writing
    <3> QED BY <1>2, <3>1
  <2> HIDE DEF k, h
  <2>3. c \in Coded /\ ShiftSextet(Reading(h, 4, 0, p), c) = Reading(0, 2, 0, b)
    <3>1. ShiftSextet(Reading(h, 4, 0, p), c) = Reading(k % 4, 2, 0, Append(p, h * 16 + k \div 4))
      BY <2>1, ThirdSextet
    <3> QED BY <1>4, <1>7, <2>1, <3>1
  <2> HIDE DEF c
  <2> DEFINE v1 == Append(o, c)
             v2 == Append(v1, "=")
             b1 == Append(b, 0)
  <2>4. t = v2
    BY <1>1, <1>3, <2>2, <2>3, CodedPair
  <2>5. v1 \in Seq(Coded) /\ v2 \in Seq(Coded)
    BY <1>1, <1>3, <2>3, CodedAppend
  <2>6. /\ Unshifted[v1] = ShiftSextet(u, c) /\ Unshifted[v2] = ShiftSextet(Unshifted[v1], "=")
    BY <1>1, <1>3, <2>3, <2>5, CodedAppend, UnshiftedAppend
  <2> HIDE DEF v1, v2
  <2>7. Unshifted[v1] = Reading(0, 2, 0, b)
    BY <1>7, <2>3, <2>6 DEF h
  <2>8. Unshifted[v2] = Reading(0, 0, 0 + 1, b1)
    BY <2>6, <2>7, PaddingShifted
  <2>9. SubSeq(b1, 1, Len(b1) - 1) = b
    BY <1>3, AppendFront DEF Front
  <2>10. Reading(0, 0, 0 + 1, b1).bits = 0 /\ Reading(0, 0, 0 + 1, b1).npad = 1 /\ Reading(0, 0, 0 + 1, b1).out = b1
    BY DEF Reading
  <2> HIDE DEF b1
  <2> QED BY <2>4, <2>5, <2>8, <2>9, <2>10 DEF BytesOf
<1> QED BY <1>1, <1>5, <1>6, <1>7

-----------------------------------------------------------------------------
(* Strings.                                                                *)

(* escapeString writes two entities, which unescapeString knows.           *)
LEMMA Entities ==
  /\ "lt;" \in DOMAIN Entity /\ Entity["lt;"] = "<"
  /\ "amp;" \in DOMAIN Entity /\ Entity["amp;"] = "&"
  BY DEF Entity

(* unescapeString reads the text that escapeString has written, which has  *)
(* no tag in it.                                                           *)
THEOREM EscapedRead ==
  \A t \in Texts : Escape[t] \in Seq(Plain) /\ Unescape[Escape[t]] = {t}
<1> DEFINE S == {t \in Texts : Escape[t] \in Seq(Plain) /\ Unescape[Escape[t]] = {t}}
<1>0. "&" \in Plain /\ "lt;" \in Plain /\ "amp;" \in Plain
  BY StringsAssumption DEF Marks, Plain
<1>1. <<>> \in S
  <2>1. <<>> \in Texts /\ <<>> \in Seq(Plain)
    BY EmptySeq DEF Texts
  <2>2. Escape[<<>>] = <<>>
    BY <2>1, EscapeDefined
  <2>3. Unescape[<<>>] = {<<>>}
    <3>1. Unescape[<<>>] = UnescapeWith(Unescape, <<>>)
      BY <2>1, UnescapeDefined
    <3>2. UnescapeWith(Unescape, <<>>) = {<<>>}
      BY DEF UnescapeWith
    <3> QED BY <3>1, <3>2
  <2> QED BY <2>1, <2>2, <2>3
<1>2. ASSUME NEW t \in Seq(STRING), NEW c \in STRING, t \in S
      PROVE  <<c>> \o t \in S
  <2> DEFINE w == <<c>> \o t
             u == Escape[t]
             v == Escape[w]
  <2>1. w \in Texts /\ w # <<>> /\ Head(w) = c /\ Tail(w) = t
    BY ConsTail DEF Texts
  <2>2. v = EscapeChar(c) \o u
    BY <2>1, EscapeDefined
  <2>3. u \in Seq(Plain) /\ u \in Texts /\ Unescape[u] = {t}
    BY <1>2, PlainText
  <2> HIDE DEF u, v, S
  <2>4. ASSUME NEW name \in Plain, name \in DOMAIN Entity, Entity[name] = c, v = <<"&", name>> \o u
        PROVE  v \in Seq(Plain) /\ Unescape[v] = {<<c>> \o t}
    <3>1. /\ v \in Texts /\ v # <<>> /\ Len(v) = Len(u) + 2 /\ Len(u) \in Nat
          /\ v[1] = "&" /\ v[2] = name /\ Drop(v, 2) = u
      <4>1. "&" \in STRING /\ name \in STRING
        BY <1>0, PlainString
      <4>2. u \in Texts
        BY <2>3
      <4> DEFINE a == "&"
      <4>3. a \in Chars /\ name \in Chars
        BY <4>1 DEF Chars
      <4> HIDE DEF a
      <4>4. /\ <<a, name>> \o u \in Texts /\ <<a, name>> \o u # <<>>
            /\ Len(<<a, name>> \o u) = Len(u) + 2 /\ Len(u) \in Nat
            /\ (<<a, name>> \o u)[1] = a /\ (<<a, name>> \o u)[2] = name
            /\ Drop(<<a, name>> \o u, 2) = u
        BY <4>1, <4>2, <4>3, PairFirst
      <4> QED BY <2>4, <4>4 DEF a
    <3>2. v \in Seq(Plain)
      <4>1. <<"&", name>> \in Seq(Plain)
        BY <1>0, Pair
      <4> QED BY <2>3, <2>4, <4>1, ConcatProperties
    <3>3. Unescape[v] = UnescapeWith(Unescape, v)
      BY <3>1, UnescapeDefined
    <3>4. Len(v) > 1
      BY <3>1
    <3>5. UnescapeWith(Unescape, v) = {<<Entity[v[2]]>> \o x : x \in Unescape[Drop(v, 2)]}
      BY <2>4, <3>1, <3>4 DEF UnescapeWith
    <3>6. UnescapeWith(Unescape, v) = {<<c>> \o x : x \in {t}}
      BY <2>3, <2>4, <3>1, <3>5
    <3> QED BY <3>2, <3>3, <3>6
  <2>5. v \in Seq(Plain) /\ Unescape[v] = {w}
    <3>1. CASE c = "<"
      <4>1. v = <<"&", "lt;">> \o u
        BY <2>2, <3>1 DEF EscapeChar
      <4> QED BY <1>0, <2>4, <3>1, <4>1, Entities
    <3>2. CASE c = "&"
      <4>1. v = <<"&", "amp;">> \o u
        BY <2>2, <3>2 DEF EscapeChar
      <4> QED BY <1>0, <2>4, <3>2, <4>1, Entities
    <3>3. CASE c # "<" /\ c # "&"
      <4>1. v = <<c>> \o u
        BY <2>2, <3>3 DEF EscapeChar
      <4>2. v \in Seq(Plain) /\ v # <<>> /\ v[1] = c /\ Tail(v) = u
        <5>1. c \in Plain
          BY <3>3 DEF Plain
        <5>2. u \in Seq(Plain)
          BY <2>3
        <5> QED BY <4>1, <5>1, <5>2, ConsTail
      <4>3. v \in Texts
        BY <4>2, PlainText
      <4>4. Unescape[v] = UnescapeWith(Unescape, v)
        BY <4>3, UnescapeDefined
      <4>5. UnescapeWith(Unescape, v) = {<<v[1]>> \o x : x \in Unescape[Tail(v)]}
        BY <3>3, <4>2 DEF UnescapeWith
      <4>6. UnescapeWith(Unescape, v) = {<<c>> \o x : x \in {t}}
        BY <2>3, <4>2, <4>5
      <4> QED BY <4>2, <4>4, <4>6
    <3> QED BY <3>1, <3>2, <3>3
  <2> QED BY <2>1, <2>5 DEF S, v
<1> HIDE DEF S
<1>3. Texts \subseteq S
  BY <1>1, <1>2, TailInduction DEF Texts
<1> QED BY <1>3 DEF S

-----------------------------------------------------------------------------
(* Doubles.                                                                *)

PointedDef(f, p) ==
  [n \in Nat |-> IF p = 0 THEN Append(Digits[n], ".")
                 ELSE Append(f[p - 1][n \div 10], Numerals[(n % 10) + 1])]
PointedR == INSTANCE Recursion WITH Domain <- Nat, Measure <- Itself, Def <- PointedDef

(* Pointed (encodeDouble) is what its definition says.                     *)
LEMMA PointedDefined ==
  \A p, n \in Nat :
    Pointed[p][n] = IF p = 0 THEN Append(Digits[n], ".")
                    ELSE Append(Pointed[p - 1][n \div 10], Numerals[(n % 10) + 1])
<1>1. PointedR!IsMeasure
  BY DEF PointedR!IsMeasure, Itself
<1>2. PointedR!IsRecursive
  <2> SUFFICES ASSUME NEW p \in Nat, NEW g, NEW h,
                      \A q \in Nat : Itself(q) < Itself(p) => g[q] = h[q]
               PROVE  PointedDef(g, p) = PointedDef(h, p)
    BY Zenon DEF PointedR!IsRecursive
  <2>1. CASE p = 0
    BY <2>1 DEF PointedDef
  <2>2. CASE p # 0
    <3>1. p - 1 \in Nat /\ p - 1 < p
      BY <2>2
    <3>2. g[p - 1] = h[p - 1]
      BY <3>1 DEF Itself
    <3> QED BY <2>2, <3>2 DEF PointedDef
  <2> QED BY <2>1, <2>2
<1>3. \E f : f = [p \in Nat |-> PointedDef(f, p)]
  BY <1>1, <1>2, PointedR!RecursionDefines
<1>4. Pointed = [p \in Nat |-> PointedDef(Pointed, p)]
  BY <1>3, Zenon DEF Pointed, PointedDef
<1>5. \A p \in Nat : Pointed[p] = PointedDef(Pointed, p)
  BY <1>4, Zenon
<1> SUFFICES ASSUME NEW p \in Nat, NEW n \in Nat
             PROVE  Pointed[p][n] = IF p = 0 THEN Append(Digits[n], ".")
                      ELSE Append(Pointed[p - 1][n \div 10], Numerals[(n % 10) + 1])
  OBVIOUS
<1>6. Pointed[p] = PointedDef(Pointed, p)
  BY <1>5
<1> QED BY <1>6 DEF PointedDef

(* Induction over the natural numbers, where what is proved is membership  *)
(* in a set.                                                               *)
LEMMA NaturalInduction ==
  ASSUME NEW S, 0 \in S, \A n \in Nat : n \in S => n + 1 \in S
  PROVE  Nat \subseteq S
<1>1. ASSUME NEW n \in Nat, \A m \in Nat : m < n => m \in S
      PROVE  n \in S
  <2>1. CASE n = 0
    BY <2>1
  <2>2. CASE n # 0
    <3>1. n - 1 \in Nat /\ n - 1 < n /\ (n - 1) + 1 = n
      BY <2>2
    <3> QED BY <1>1, <3>1
  <2> QED BY <2>1, <2>2
<1> QED BY <1>1, StrongInduction

(* A number as it is written with so many digits behind the point.         *)
IsPointed(t, p, n) ==
  \E whole \in DigitTexts, decimals \in DigitTexts :
    /\ t = Append(whole, ".") \o decimals /\ whole # <<>> /\ Len(decimals) = p
    /\ whole \o decimals \in DigitTexts /\ NumberOf[whole \o decimals] = n

(* A double is written as the digits of a whole number, a dot and as many  *)
(* decimals as there are, and without the dot these are its number.        *)
LEMMA AllPointed == \A p \in Nat : \A n \in Nat : IsPointed(Pointed[p][n], p, n)
<1> DEFINE S == {p \in Nat : \A n \in Nat : IsPointed(Pointed[p][n], p, n)}
<1>0. "." \in STRING /\ <<".">> \in Texts
  <2>1. "." \in STRING
    BY StringsAssumption DEF Marks
  <2> QED BY <2>1 DEF Texts
<1>1. 0 \in S
  <2> SUFFICES ASSUME NEW n \in Nat PROVE IsPointed(Pointed[0][n], 0, n)
    OBVIOUS
  <2> DEFINE w == Digits[n]
             e == <<>>
             a == Append(w, ".")
  <2>1. w \in DigitTexts /\ w # <<>> /\ NumberOf[w] = n /\ w \in Texts
    BY DigitsRead, DigitText
  <2>2. Pointed[0][n] = a
    BY PointedDefined
  <2>3. a \in Texts
    BY <1>0, <2>1, AppendFront DEF Texts
  <2>4. a \o e = a /\ w \o e = w /\ e \in DigitTexts /\ Len(e) = 0
    BY <2>1, <2>3, Nothing, EmptySeq DEF DigitTexts
  <2> HIDE DEF w, e
  <2> QED BY <2>1, <2>2, <2>4 DEF IsPointed
<1>2. ASSUME NEW p \in Nat, p \in S
      PROVE  p + 1 \in S
  <2> SUFFICES ASSUME NEW n \in Nat PROVE IsPointed(Pointed[p + 1][n], p + 1, n)
    OBVIOUS
  <2> DEFINE m == n \div 10
             k == n % 10
             c == Numerals[k + 1]
  <2>1. m \in Nat /\ k \in 0..9 /\ n = 10 * m + k /\ p + 1 \in Nat /\ p + 1 # 0 /\ (p + 1) - 1 = p
    OBVIOUS
  <2>2. Pointed[p + 1][n] = Append(Pointed[p][m], c)
    BY <2>1, PointedDefined
  <2>3. PICK w \in DigitTexts, e \in DigitTexts :
          /\ Pointed[p][m] = Append(w, ".") \o e /\ w # <<>> /\ Len(e) = p
          /\ w \o e \in DigitTexts /\ NumberOf[w \o e] = m
    BY <1>2, <2>1 DEF IsPointed
  <2> HIDE DEF m, k
  <2>4. c \in DOMAIN Numeral /\ <<c>> \in DigitTexts /\ Append(e, c) \in DigitTexts /\ Len(Append(e, c)) = p + 1
    <3>1. c \in DOMAIN Numeral
      BY <2>1, NumeralOf
    <3> HIDE DEF c
    <3>2. <<c>> \in Seq(DOMAIN Numeral)
      BY <3>1
    <3> QED BY <2>3, <3>1, <3>2, AppendFront DEF DigitTexts
  <2>5. /\ Append(w \o e, c) \in DigitTexts /\ NumberOf[Append(w \o e, c)] = n
    BY <2>1, <2>3, NumberAppend
  <2> HIDE DEF c
  <2>6. Append(w \o e, c) = w \o Append(e, c)
    <3>1. Append(w \o e, c) = (w \o e) \o <<c>> /\ Append(e, c) = e \o <<c>>
      BY <2>3, <2>4, AppendFront DEF DigitTexts
    <3>2. \A x, y, z \in DigitTexts : (x \o y) \o z = x \o (y \o z)
      BY ConcatAssociative DEF DigitTexts
    <3> QED BY <2>4, <3>1, <3>2
  <2> DEFINE a == Append(w, ".")
  <2>7. a \in Texts
    BY <1>0, DigitText, AppendFront DEF Texts
  <2> HIDE DEF a
  <2>8. Append(a \o e, c) = a \o Append(e, c)
    <3>1. e \in Texts /\ <<c>> \in Texts /\ c \in STRING
      <4>1. <<c>> \in Texts
        BY <2>4, DigitText
      <4>2. c \in STRING
        BY <4>1, ElementOfSeq DEF Texts
      <4> QED BY <4>1, <4>2, DigitText
    <3>2. a \o e \in Texts
      BY <2>7, <3>1, Concat
    <3>3. Append(a \o e, c) = (a \o e) \o <<c>> /\ Append(e, c) = e \o <<c>>
      BY <3>1, <3>2, AppendFront DEF Texts
    <3>4. (a \o e) \o <<c>> = a \o (e \o <<c>>)
      BY <2>7, <3>1, Associative DEF IsAssociative
    <3> QED BY <3>3, <3>4
  <2> QED BY <2>2, <2>3, <2>4, <2>5, <2>6, <2>8 DEF IsPointed, a
<1> HIDE DEF S
<1>3. Nat \subseteq S
  BY <1>1, <1>2, NaturalInduction
<1> QED BY <1>3 DEF S

(* The text of a double that there is room for.                            *)
Fits(n) == Len(Minus(n) \o Pointed[Precision][Magnitude(n)]) <= NumberSize

(* decodeDouble reads back what encodeDouble has written.                  *)
THEOREM DoubleRead ==
  ASSUME NEW n \in Int, Fits(n), NEW w \in Texts, w # <<>>, w[1] \notin DOMAIN Numeral \cup {"."}
  PROVE  /\ DoubleText(n) \in Texts /\ DoubleText(n) # <<>> /\ DoubleText(n) \o w \in Texts
         /\ DoubleEnd(DoubleText(n) \o w) = Len(DoubleText(n))
         /\ DoubleOf(DoubleText(n)) = n
         /\ \A i, j \in 1..Len(DoubleText(n)) :
              DoubleText(n)[i] = "." /\ DoubleText(n)[j] = "." => i = j
<1> DEFINE m == Magnitude(n)
           x == Minus(n)
           y == Pointed[Precision][m]
           a == x \o y
           D == DOMAIN Numeral \cup {"."}
<1>1. m \in Nat /\ n = (IF n < 0 THEN -m ELSE m)
  BY MagnitudeOf
<1>2. PICK whole \in DigitTexts, decimals \in DigitTexts :
        /\ y = Append(whole, ".") \o decimals /\ whole # <<>> /\ Len(decimals) = Precision
        /\ whole \o decimals \in DigitTexts /\ NumberOf[whole \o decimals] = m
  BY <1>1, AllPointed, CodecAssumption DEF IsPointed
<1>0. "." \in STRING /\ "." \notin DOMAIN Numeral /\ "-" \notin DOMAIN Numeral /\ "-" # "."
  <2>1. "." \in STRING
    BY StringsAssumption DEF Marks
  <2>2. "." \notin NumeralSet /\ "-" \notin NumeralSet
    BY DEF NumeralSet
  <2> QED BY <2>1, <2>2, NumeralDomain
<1> HIDE DEF m, x, y
<1>4. whole \in Texts /\ decimals \in Texts /\ Len(whole) \in Nat /\ Len(decimals) \in Nat
  BY DigitText, Nothing
<1> DEFINE v == Append(whole, ".")
           k == Len(whole) + 1
<1>5. v \in Texts /\ Len(v) = k /\ v = whole \o <<".">> /\ k \in Nat
  BY <1>0, <1>4, AppendFront DEF Texts
<1>50. y = v \o decimals
  BY <1>2
<1>6. <<".">> \in Texts /\ Len(<<".">>) = 1 /\ <<".">>[1] = "."
  BY <1>0 DEF Texts
<1>7. \A i \in 1..Len(whole) : whole[i] \in DOMAIN Numeral /\ v[i] = whole[i]
  <2>1. \A i \in 1..Len(whole) : v[i] = whole[i]
    BY <1>4, <1>5, <1>6, Concat
  <2> QED BY <2>1, ElementOfSeq DEF DigitTexts
<1>8. \A i \in 1..Len(decimals) : decimals[i] \in DOMAIN Numeral
  BY ElementOfSeq DEF DigitTexts
<1>9. v[k] = "."
  BY <1>0, <1>4, AppendProperties DEF Texts
<1> HIDE DEF v
<1>10. /\ y \in Texts /\ Len(y) = k + Len(decimals)
       /\ \A i \in 1..Len(v) : y[i] = v[i]
       /\ \A i \in 1..Len(decimals) : y[Len(v) + i] = decimals[i]
       /\ SubSeq(y, 1, Len(v)) = v /\ Drop(y, Len(v)) = decimals
  <2>1. v \in Texts /\ decimals \in Texts
    BY <1>4, <1>5
  <2>2. /\ v \o decimals \in Texts /\ Len(v \o decimals) = Len(v) + Len(decimals)
        /\ \A i \in 1..Len(v) : (v \o decimals)[i] = v[i]
        /\ \A i \in 1..Len(decimals) : (v \o decimals)[Len(v) + i] = decimals[i]
        /\ SubSeq(v \o decimals, 1, Len(v)) = v /\ Drop(v \o decimals, Len(v)) = decimals
    BY <2>1, Concat
  <2> QED BY <1>5, <1>50, <2>2
<1>11. y # <<>> /\ 1 \in 1..Len(y)
  <2>1. Len(y) # 0 /\ 1 \in 1..Len(y)
    BY <1>4, <1>10
  <2> QED BY <1>10, <2>1, Nothing
<1>12. \A i \in 1..Len(y) : y[i] \in D /\ (y[i] = "." <=> i = k)
  <2> SUFFICES ASSUME NEW i \in 1..Len(y) PROVE y[i] \in D /\ (y[i] = "." <=> i = k)
    OBVIOUS
  <2>1. CASE i <= Len(whole)
    <3>1. i \in 1..Len(whole) /\ i \in 1..Len(v) /\ i # k
      BY <1>4, <1>5, <2>1
    <3>2. y[i] \in DOMAIN Numeral
      BY <1>7, <1>10, <3>1
    <3> QED BY <1>0, <3>1, <3>2
  <2>2. CASE i = k
    <3>1. i \in 1..Len(v)
      BY <1>4, <1>5, <2>2
    <3> QED BY <1>9, <1>10, <2>2, <3>1
  <2>3. CASE i > k
    <3>1. i - Len(v) \in 1..Len(decimals) /\ Len(v) + (i - Len(v)) = i /\ i # k
      BY <1>4, <1>5, <1>10, <2>3
    <3>2. y[i] = decimals[i - Len(v)]
      BY <1>10, <3>1
    <3>3. y[i] \in DOMAIN Numeral
      BY <1>8, <3>1, <3>2
    <3> QED BY <1>0, <3>1, <3>3
  <2>4. i <= Len(whole) \/ i = k \/ i > k
    BY <1>4
  <2> QED BY <2>1, <2>2, <2>3, <2>4
<1>13. /\ x \in Texts /\ a \in Texts /\ a \o w \in Texts
       /\ Len(x) = (IF n < 0 THEN 1 ELSE 0)
       /\ Sign(a \o w) = Len(x) /\ EndOfRun(D, Len(x), a \o w) = Len(a)
       /\ Len(a) \in Nat \ {0} /\ Sign(a) = Len(x)
  <2>1. "-" \notin D
    BY <1>0
  <2>2. \A i \in 1..Len(y) : y[i] \in D
    BY <1>12
  <2>3. w[1] \notin D
    OBVIOUS
  <2>4. y \in Texts /\ y # <<>>
    BY <1>10, <1>11
  <2> HIDE DEF D
  <2> QED BY <2>1, <2>2, <2>3, <2>4, SignedRun DEF x
<1>3. a = DoubleText(n)
  <2> DEFINE z == Minus(n) \o Pointed[Precision][Magnitude(n)]
  <2>1. a = z /\ Len(a) \in Nat
    BY <1>13 DEF x, y, m
  <2>2. Len(z) <= NumberSize /\ DoubleText(n) = IF Len(z) > NumberSize THEN SubSeq(z, 1, NumberSize) ELSE z
    BY Zenon DEF DoubleText, Fits
  <2> HIDE DEF z, a
  <2> QED BY <2>1, <2>2, CodecAssumption
<1>14. DoubleEnd(a \o w) = Len(a)
  BY <1>13 DEF DoubleEnd
<1>15. /\ Len(a) = Len(x) + Len(y) /\ Len(x) \in Nat /\ Len(y) \in Nat
       /\ \A i \in 1..Len(x) : a[i] = x[i]
       /\ \A i \in 1..Len(y) : a[Len(x) + i] = y[i]
  BY <1>10, <1>13, Concat
<1>16. \A i \in 1..Len(a) : a[i] = "." <=> i = Len(x) + k
  <2> SUFFICES ASSUME NEW i \in 1..Len(a) PROVE a[i] = "." <=> i = Len(x) + k
    OBVIOUS
  <2>1. CASE i <= Len(x)
    <3>1. i \in 1..Len(x) /\ i = 1 /\ n < 0 /\ i # Len(x) + k
      BY <1>4, <1>13, <1>15, <2>1
    <3>2. x[1] = "-"
      BY <3>1 DEF x, Minus
    <3> QED BY <1>0, <1>15, <3>1, <3>2
  <2>2. CASE i > Len(x)
    <3>1. i - Len(x) \in 1..Len(y) /\ Len(x) + (i - Len(x)) = i /\ (i - Len(x) = k <=> i = Len(x) + k)
      BY <1>4, <1>15, <2>2
    <3>2. a[i] = y[i - Len(x)]
      BY <1>15, <3>1
    <3>3. y[i - Len(x)] = "." <=> i - Len(x) = k
      BY <1>12, <3>1
    <3> QED BY <3>1, <3>2, <3>3
  <2> QED BY <1>15, <2>1, <2>2
<1> DEFINE dot == Len(x) + k
<1>17. dot \in 1..Len(a)
  BY <1>4, <1>10, <1>15
<1>18. Min({i \in 1..Len(a) : a[i] = "."} \cup {Len(a) + 1}) = dot
  <2> DEFINE T == {i \in 1..Len(a) : a[i] = "."} \cup {Len(a) + 1}
  <2>1. T = {dot, Len(a) + 1}
    <3> HIDE DEF dot
    <3> QED BY <1>16, <1>17 DEF dot
  <2> HIDE DEF T
  <2>2. T \subseteq Nat /\ T # {}
    BY <1>13, <1>17, <2>1
  <2>3. Min(T) \in T /\ \A z \in T : Min(T) <= z
    BY <2>2, Least
  <2>4. Min(T) = dot
    BY <1>13, <1>17, <2>1, <2>3
  <2> QED BY <2>4 DEF T
<1>19. SubSeq(a, Len(x) + 1, dot - 1) = whole
  <2>1. y = whole \o (<<".">> \o decimals) /\ <<".">> \o decimals \in Texts
    <3>1. IsAssociative(whole, <<".">>, decimals)
      BY <1>4, <1>6, Associative
    <3>2. <<".">> \o decimals \in Texts
      BY <1>4, <1>6, Concat
    <3> QED BY <1>50, <1>5, <3>1, <3>2 DEF IsAssociative
  <2> DEFINE z == <<".">> \o decimals
  <2>2. a = (x \o whole) \o z
    <3> HIDE DEF z
    <3>1. a = x \o (whole \o z)
      BY <2>1 DEF z
    <3>2. (x \o whole) \o z = x \o (whole \o z)
      <4>1. z \in Texts
        BY <2>1 DEF z
      <4>2. IsAssociative(x, whole, z)
        BY <1>4, <1>13, <4>1, Associative
      <4> QED BY <4>2 DEF IsAssociative
    <3> QED BY <3>1, <3>2
  <2>3. Len(x \o whole) = Len(x) + Len(whole)
    BY <1>4, <1>13, Concat
  <2>4. SubSeq((x \o whole) \o z, Len(x) + 1, Len(x \o whole)) = whole
    BY <1>4, <1>13, <2>1, Middle
  <2>5. dot - 1 = Len(x) + Len(whole)
    BY <1>4, <1>15
  <2> HIDE DEF z, a, dot
  <2> QED BY <2>2, <2>3, <2>4, <2>5
<1>20. Drop(a, dot) = decimals
  <2>1. a = (x \o v) \o decimals /\ x \o v \in Texts /\ Len(x \o v) = dot
    <3>1. a = x \o (v \o decimals)
      BY <1>50
    <3>2. (x \o v) \o decimals = x \o (v \o decimals)
      <4>1. IsAssociative(x, v, decimals)
        BY <1>4, <1>5, <1>13, Associative
      <4> QED BY <4>1 DEF IsAssociative
    <3>3. x \o v \in Texts /\ Len(x \o v) = Len(x) + Len(v)
      BY <1>5, <1>13, Concat
    <3> QED BY <1>5, <3>1, <3>2, <3>3
  <2> HIDE DEF a, dot
  <2> QED BY <1>4, <2>1, Concat
<1> DEFINE zeros == [i \in 1..Precision |-> "0"]
<1>21. SubSeq(decimals \o zeros, 1, Precision) = decimals
  <2>1. zeros \in Texts
    <3>1. "0" \in STRING
      BY StringsAssumption DEF Alphabet, ToSet
    <3> QED BY <3>1, CodecAssumption, IsASeq DEF Texts
  <2> HIDE DEF zeros
  <2> QED BY <1>2, <1>4, <2>1, Concat
<1>22. DoubleOf(a) = n
  <2> HIDE DEF a, zeros
  <2>1. SubSeq(a, Sign(a) + 1, dot - 1) = whole
    BY <1>13, <1>19
  <2> HIDE DEF dot
  <2>2. NumberOf[SubSeq(a, Sign(a) + 1, dot - 1) \o SubSeq(Drop(a, dot) \o zeros, 1, Precision)] = m
    BY <1>2, <1>20, <1>21, <2>1
  <2>3. DoubleOf(a) = IF Sign(a) = 1 THEN -m ELSE m
    BY <1>18, <2>2, Zenon DEF DoubleOf, zeros
  <2> QED BY <1>1, <1>13, <2>3
<1>23. a # <<>>
  BY <1>13, Nothing
<1> QED BY <1>3, <1>13, <1>14, <1>16, <1>22, <1>23

-----------------------------------------------------------------------------
(* Dates.                                                                  *)

(* A zero in front does not change a number.                               *)
LEMMA LeadingZero ==
  \A d \in DigitTexts : <<"0">> \o d \in DigitTexts /\ NumberOf[<<"0">> \o d] = NumberOf[d]
<1> DEFINE z == <<"0">>
           S == {d \in DigitTexts : z \o d \in DigitTexts /\ NumberOf[z \o d] = NumberOf[d]}
<1>1. <<>> \in DigitTexts /\ NumberOf[<<>>] = 0
  BY EmptySeq, NumberDefined DEF DigitTexts
<1>2. z \in DigitTexts /\ NumberOf[z] = 0
  <2>1. Numerals[0 + 1] = "0" /\ 0 \in 0..9
    BY DEF Numerals
  <2>2. Append(<<>>, "0") = z
    OBVIOUS
  <2>3. /\ Append(<<>>, Numerals[0 + 1]) \in DigitTexts
        /\ NumberOf[Append(<<>>, Numerals[0 + 1])] = 10 * NumberOf[<<>>] + 0
    BY <1>1, <2>1, NumberAppend
  <2> QED BY <1>1, <2>1, <2>2, <2>3
<1> HIDE DEF z
<1>3. <<>> \in S
  BY <1>1, <1>2, ConcatEmptySeq DEF DigitTexts
<1>4. ASSUME NEW d \in DigitTexts, NEW e \in DOMAIN Numeral, d \in S
      PROVE  Append(d, e) \in S
  <2>1. PICK k \in 0..9 : e = Numerals[k + 1]
    BY NumeralDomain DEF NumeralSet, Numerals
  <2>2. Append(d, e) \in DigitTexts /\ NumberOf[Append(d, e)] = 10 * NumberOf[d] + k
    BY <2>1, NumberAppend
  <2>3. z \o d \in DigitTexts /\ NumberOf[z \o d] = NumberOf[d]
    BY <1>4
  <2>4. /\ Append(z \o d, e) \in DigitTexts
        /\ NumberOf[Append(z \o d, e)] = 10 * NumberOf[d] + k
    BY <2>1, <2>3, NumberAppend
  <2>5. Append(z \o d, e) = z \o Append(d, e)
    <3>1. Append(z \o d, e) = (z \o d) \o <<e>> /\ Append(d, e) = d \o <<e>>
      BY <2>3, AppendFront DEF DigitTexts
    <3>2. <<e>> \in DigitTexts
      BY DEF DigitTexts
    <3>3. \A x, y, v \in DigitTexts : (x \o y) \o v = x \o (y \o v)
      BY ConcatAssociative DEF DigitTexts
    <3> QED BY <1>2, <3>1, <3>2, <3>3
  <2> QED BY <2>2, <2>4, <2>5
<1> HIDE DEF S
<1>5. DigitTexts \subseteq S
  BY <1>3, <1>4, FrontInduction DEF DigitTexts
<1> QED BY <1>5 DEF S, z

(* A number has one digit more than its tenth.                             *)
LEMMA DigitCount ==
  ASSUME NEW n \in Nat
  PROVE  /\ n < 10 => Len(Digits[n]) = 1
         /\ n >= 10 => Len(Digits[n]) = Len(Digits[n \div 10]) + 1
<1>1. CASE n < 10
  <2>1. Digits[n] = <<Numerals[n + 1]>>
    BY <1>1, DigitsDefined
  <2>2. ~(n >= 10)
    BY <1>1
  <2> QED BY <2>1, <2>2
<1>2. CASE n >= 10
  <2>1. ~(n < 10) /\ n \div 10 \in Nat /\ n % 10 \in 0..9
    BY <1>2
  <2>2. Digits[n] = Append(Digits[n \div 10], Numerals[(n % 10) + 1])
    BY <2>1, DigitsDefined
  <2>3. Digits[n \div 10] \in DigitTexts /\ Numerals[(n % 10) + 1] \in DOMAIN Numeral
    BY <2>1, DigitsRead, NumeralOf
  <2>4. Len(Append(Digits[n \div 10], Numerals[(n % 10) + 1])) = Len(Digits[n \div 10]) + 1
    BY <2>3, AppendFront DEF DigitTexts
  <2> QED BY <2>1, <2>2, <2>4
<1>3. n < 10 \/ n >= 10
  OBVIOUS
<1> QED BY <1>1, <1>2, <1>3

(* A padded number is read as the number (encodeDate, decodeDate).         *)
LEMMA PaddedRead ==
  ASSUME NEW n \in Nat, NEW least \in Nat
  PROVE  /\ Padded(n, least) \in DigitTexts /\ NumberOf[Padded(n, least)] = n
         /\ Len(Padded(n, least)) = Len(Digits[n]) + (IF n < least THEN 1 ELSE 0)
<1>1. Digits[n] \in DigitTexts /\ NumberOf[Digits[n]] = n /\ Len(Digits[n]) \in Nat
  BY DigitsRead, LenProperties DEF DigitTexts
<1>2. CASE n < least
  <2>1. Padded(n, least) = <<"0">> \o Digits[n]
    BY <1>2 DEF Padded
  <2>2. Len(<<"0">> \o Digits[n]) = Len(Digits[n]) + 1
    <3>1. "0" \in DOMAIN Numeral
      BY NumeralDomain DEF NumeralSet
    <3> QED BY <1>1, <3>1, ConsTail DEF DigitTexts
  <2> QED BY <1>1, <1>2, <2>1, <2>2, LeadingZero
<1>3. CASE ~(n < least)
  <2>1. Padded(n, least) = <<>> \o Digits[n]
    BY <1>3 DEF Padded
  <2>2. <<>> \o Digits[n] = Digits[n]
    BY <1>1, ConcatEmptySeq DEF DigitTexts
  <2> QED BY <1>1, <1>3, <2>1, <2>2
<1> QED BY <1>2, <1>3

Small == 0..99
Years == 100..9999

(* What a tenth is, for the provers.                                       *)
LEMMA Divided == \A n \in Nat : n \div 10 \in Nat /\ 10 * (n \div 10) <= n /\ n < 10 * (n \div 10) + 10
OBVIOUS

(* Numbers below one hundred are padded to two digits.                     *)
LEMMA TwoDigits ==
  ASSUME NEW n \in Small
  PROVE  Padded(n, 10) \in DigitTexts /\ NumberOf[Padded(n, 10)] = n /\ Len(Padded(n, 10)) = 2
<1>1. n \in Nat /\ n <= 99
  BY DEF Small
<1>2. /\ Padded(n, 10) \in DigitTexts /\ NumberOf[Padded(n, 10)] = n
      /\ Len(Padded(n, 10)) = Len(Digits[n]) + (IF n < 10 THEN 1 ELSE 0)
  BY <1>1, PaddedRead
<1>3. CASE n < 10
  <2>1. Len(Digits[n]) = 1
    BY <1>1, <1>3, DigitCount
  <2> QED BY <1>2, <1>3, <2>1
<1>4. CASE ~(n < 10)
  <2> DEFINE a == n \div 10
  <2>1. a \in Nat /\ a < 10 /\ n >= 10
    BY <1>1, <1>4, Divided
  <2>2. Len(Digits[n]) = Len(Digits[a]) + 1
    BY <1>1, <2>1, DigitCount
  <2> HIDE DEF a
  <2>3. Len(Digits[a]) = 1
    BY <2>1, DigitCount
  <2> QED BY <1>2, <1>4, <2>2, <2>3
<1> QED BY <1>3, <1>4

(* Years of three or four digits are padded to four.                       *)
LEMMA FourDigits ==
  ASSUME NEW n \in Years
  PROVE  Padded(n, 1000) \in DigitTexts /\ NumberOf[Padded(n, 1000)] = n /\ Len(Padded(n, 1000)) = 4
<1> DEFINE a == n \div 10
           b == a \div 10
           c == b \div 10
<1>1. n \in Nat /\ n >= 100 /\ n <= 9999
  BY DEF Years
<1>2. a \in Nat /\ 10 * a <= n /\ n < 10 * a + 10
  BY <1>1, Divided
<1>3. b \in Nat /\ 10 * b <= a /\ a < 10 * b + 10
  <2> HIDE DEF a
  <2> QED BY <1>2, Divided
<1>4. c \in Nat /\ 10 * c <= b /\ b < 10 * c + 10
  <2> HIDE DEF b
  <2> QED BY <1>3, Divided
<1>5. n >= 10 => Len(Digits[n]) = Len(Digits[a]) + 1
  BY <1>1, DigitCount
<1>6. a >= 10 => Len(Digits[a]) = Len(Digits[b]) + 1
  <2> HIDE DEF a
  <2> QED BY <1>2, DigitCount
<1>7. (b < 10 => Len(Digits[b]) = 1) /\ (b >= 10 => Len(Digits[b]) = Len(Digits[c]) + 1)
  <2> HIDE DEF b
  <2> QED BY <1>3, DigitCount
<1>8. c < 10 => Len(Digits[c]) = 1
  <2> HIDE DEF c
  <2> QED BY <1>4, DigitCount
<1> HIDE DEF a, b, c
<1>9. /\ Padded(n, 1000) \in DigitTexts /\ NumberOf[Padded(n, 1000)] = n
      /\ Len(Padded(n, 1000)) = Len(Digits[n]) + (IF n < 1000 THEN 1 ELSE 0)
  <2> DEFINE k == 1000
  <2>1. n \in Nat /\ k \in Nat
    BY <1>1
  <2> HIDE DEF k
  <2>2. /\ Padded(n, k) \in DigitTexts /\ NumberOf[Padded(n, k)] = n
        /\ Len(Padded(n, k)) = Len(Digits[n]) + (IF n < k THEN 1 ELSE 0)
    BY <2>1, PaddedRead
  <2> QED BY <2>2 DEF k
<1>10. n >= 10 /\ a >= 10 /\ (n < 1000 => b < 10) /\ (~(n < 1000) => b >= 10) /\ c < 10
  BY <1>1, <1>2, <1>3, <1>4
<1>11. Len(Digits[n]) = IF n < 1000 THEN 3 ELSE 4
  <2>1. Len(Digits[n]) = Len(Digits[a]) + 1 /\ Len(Digits[a]) = Len(Digits[b]) + 1
    BY <1>5, <1>6, <1>10
  <2>2. Len(Digits[b]) = IF n < 1000 THEN 1 ELSE 2
    <3>1. (n < 1000 => b < 10) /\ (~(n < 1000) => b >= 10) /\ c < 10
      BY <1>10
    <3>2. CASE n < 1000
      BY <1>7, <3>1, <3>2
    <3>3. CASE ~(n < 1000)
      <4>1. b >= 10
        BY <3>1, <3>3
      <4>2. Len(Digits[b]) = Len(Digits[c]) + 1
        BY <1>7, <4>1
      <4>3. Len(Digits[c]) = 1
        BY <1>8, <3>1
      <4> QED BY <3>3, <4>2, <4>3
    <3> QED BY <3>2, <3>3
  <2> QED BY <2>1, <2>2
<1> QED BY <1>9, <1>11

(* A date whose year has three or four digits and whose other fields have  *)
(* at most two.                                                            *)
IsDate(f) == f \in [1..6 -> Nat] /\ f[1] \in Years /\ \A i \in 2..6 : f[i] \in Small

(* Digits start no tag.                                                    *)
LEMMA DigitPlain == DigitTexts \subseteq Seq(Plain)
<1>1. NumeralSet \subseteq STRING
  BY StringsAssumption DEF NumeralSet, Alphabet, ToSet
<1>2. NumeralSet \subseteq Plain
  BY <1>1 DEF NumeralSet, Plain
<1> QED BY <1>2, NumeralDomain, SeqMonotonic DEF DigitTexts

(* Texts without a tag that are put together have none.                    *)
LEMMA PlainConcat ==
  ASSUME NEW a \in Seq(Plain), NEW b \in Seq(Plain)
  PROVE  /\ a \o b \in Seq(Plain) /\ Len(a \o b) = Len(a) + Len(b) /\ Len(a) \in Nat /\ Len(b) \in Nat
         /\ Drop(a \o b, Len(a)) = b
         /\ \A m, n \in 1..Len(a) : SubSeq(a \o b, m, n) = SubSeq(a, m, n)
<1>1. a \o b \in Seq(Plain)
  BY ConcatProperties
<1>2. a \in Texts /\ b \in Texts
  BY PlainText
<1>3. \A m, n \in 1..Len(a) : SubSeq(a \o b, m, n) = SubSeq(a, m, n)
  BY SubSeqOfConcat1
<1> QED BY <1>1, <1>2, <1>3, Concat

(* decodeDate reads back what encodeDate has written.                      *)
THEOREM DateRead ==
  ASSUME NEW f, IsDate(f), NEW rest
  PROVE  /\ DateText(f) \in Seq(Plain)
         /\ ReadDate({Result(DateText(f), rest)}) = {Result(Date(f), rest)}
<1> DEFINE p1 == Padded(f[1], 1000)
           p(i) == Padded(f[i], 10)
           a1 == p1 \o p(2)
           a2 == a1 \o p(3)
           a3 == a2 \o <<"T">>
           a4 == a3 \o p(4)
           a5 == a4 \o <<":">>
           a6 == a5 \o p(5)
           a7 == a6 \o <<":">>
           a8 == a7 \o p(6)
<1>1. p1 \in DigitTexts /\ NumberOf[p1] = f[1] /\ Len(p1) = 4 /\ p1 \in Seq(Plain)
  BY FourDigits, DigitPlain DEF IsDate
<1>2. ASSUME NEW i \in 2..6
      PROVE  p(i) \in DigitTexts /\ NumberOf[p(i)] = f[i] /\ Len(p(i)) = 2 /\ p(i) \in Seq(Plain)
  <2>1. f[i] \in Small
    BY DEF IsDate
  <2> QED BY <2>1, TwoDigits, DigitPlain
<1>3. <<"T">> \in Seq(Plain) /\ Len(<<"T">>) = 1 /\ <<":">> \in Seq(Plain) /\ Len(<<":">>) = 1
  <2>1. "T" \in STRING /\ ":" \in STRING
    BY StringsAssumption DEF Marks
  <2>2. "T" \in Plain /\ ":" \in Plain
    BY <2>1 DEF Plain
  <2> QED BY <2>2
<1>4. DateText(f) = a8
  BY DEF DateText
<1> DEFINE t == <<"T">>
           c == <<":">>
           q2 == p(2)
           q3 == p(3)
           q4 == p(4)
           q5 == p(5)
           q6 == p(6)
<1>5. /\ q2 \in Seq(Plain) /\ Len(q2) = 2 /\ q3 \in Seq(Plain) /\ Len(q3) = 2
      /\ q4 \in Seq(Plain) /\ Len(q4) = 2 /\ q5 \in Seq(Plain) /\ Len(q5) = 2
      /\ q6 \in Seq(Plain) /\ Len(q6) = 2
  BY <1>2
<1>6. t \in Seq(Plain) /\ Len(t) = 1 /\ c \in Seq(Plain) /\ Len(c) = 1
  BY <1>3
<1>41. a1 = p1 \o q2
  OBVIOUS
<1>42. a2 = a1 \o q3
  OBVIOUS
<1>43. a3 = a2 \o t
  OBVIOUS
<1>44. a4 = a3 \o q4
  OBVIOUS
<1>45. a5 = a4 \o c
  OBVIOUS
<1>46. a6 = a5 \o q5
  OBVIOUS
<1>47. a7 = a6 \o c
  OBVIOUS
<1>48. a8 = a7 \o q6
  OBVIOUS
<1> HIDE DEF p1, p, a1, a2, a3, a4, a5, a6, a7, a8, t, c, q2, q3, q4, q5, q6
<1>21. /\ a1 \in Seq(Plain) /\ Len(a1) = 6 /\ Drop(a1, 4) = q2
       /\ \A m, n \in 1..4 : SubSeq(a1, m, n) = SubSeq(p1, m, n)
  <2>1. p1 \in Seq(Plain) /\ Len(p1) = 4
    BY <1>1
  <2>2. q2 \in Seq(Plain) /\ Len(q2) = 2
    BY <1>5
  <2>3. /\ p1 \o q2 \in Seq(Plain) /\ Len(p1 \o q2) = Len(p1) + Len(q2)
        /\ Drop(p1 \o q2, Len(p1)) = q2
        /\ \A m, n \in 1..Len(p1) : SubSeq(p1 \o q2, m, n) = SubSeq(p1, m, n)
    BY <2>1, <2>2, PlainConcat
  <2>4. Len(p1) + Len(q2) = 6
    BY <2>1, <2>2
  <2> QED BY <1>41, <2>1, <2>3, <2>4
<1>22. /\ a2 \in Seq(Plain) /\ Len(a2) = 8 /\ Drop(a2, 6) = q3
       /\ \A m, n \in 1..6 : SubSeq(a2, m, n) = SubSeq(a1, m, n)
  <2>1. a1 \in Seq(Plain) /\ Len(a1) = 6
    BY <1>21
  <2>2. q3 \in Seq(Plain) /\ Len(q3) = 2
    BY <1>5
  <2>3. /\ a1 \o q3 \in Seq(Plain) /\ Len(a1 \o q3) = Len(a1) + Len(q3)
        /\ Drop(a1 \o q3, Len(a1)) = q3
        /\ \A m, n \in 1..Len(a1) : SubSeq(a1 \o q3, m, n) = SubSeq(a1, m, n)
    BY <2>1, <2>2, PlainConcat
  <2>4. Len(a1) + Len(q3) = 8
    BY <2>1, <2>2
  <2> QED BY <1>42, <2>1, <2>3, <2>4
<1>23. /\ a3 \in Seq(Plain) /\ Len(a3) = 9 /\ Drop(a3, 8) = t
       /\ \A m, n \in 1..8 : SubSeq(a3, m, n) = SubSeq(a2, m, n)
  <2>1. a2 \in Seq(Plain) /\ Len(a2) = 8
    BY <1>22
  <2>2. t \in Seq(Plain) /\ Len(t) = 1
    BY <1>6
  <2>3. /\ a2 \o t \in Seq(Plain) /\ Len(a2 \o t) = Len(a2) + Len(t)
        /\ Drop(a2 \o t, Len(a2)) = t
        /\ \A m, n \in 1..Len(a2) : SubSeq(a2 \o t, m, n) = SubSeq(a2, m, n)
    BY <2>1, <2>2, PlainConcat
  <2>4. Len(a2) + Len(t) = 9
    BY <2>1, <2>2
  <2> QED BY <1>43, <2>1, <2>3, <2>4
<1>24. /\ a4 \in Seq(Plain) /\ Len(a4) = 11 /\ Drop(a4, 9) = q4
       /\ \A m, n \in 1..9 : SubSeq(a4, m, n) = SubSeq(a3, m, n)
  <2>1. a3 \in Seq(Plain) /\ Len(a3) = 9
    BY <1>23
  <2>2. q4 \in Seq(Plain) /\ Len(q4) = 2
    BY <1>5
  <2>3. /\ a3 \o q4 \in Seq(Plain) /\ Len(a3 \o q4) = Len(a3) + Len(q4)
        /\ Drop(a3 \o q4, Len(a3)) = q4
        /\ \A m, n \in 1..Len(a3) : SubSeq(a3 \o q4, m, n) = SubSeq(a3, m, n)
    BY <2>1, <2>2, PlainConcat
  <2>4. Len(a3) + Len(q4) = 11
    BY <2>1, <2>2
  <2> QED BY <1>44, <2>1, <2>3, <2>4
<1>25. /\ a5 \in Seq(Plain) /\ Len(a5) = 12 /\ Drop(a5, 11) = c
       /\ \A m, n \in 1..11 : SubSeq(a5, m, n) = SubSeq(a4, m, n)
  <2>1. a4 \in Seq(Plain) /\ Len(a4) = 11
    BY <1>24
  <2>2. c \in Seq(Plain) /\ Len(c) = 1
    BY <1>6
  <2>3. /\ a4 \o c \in Seq(Plain) /\ Len(a4 \o c) = Len(a4) + Len(c)
        /\ Drop(a4 \o c, Len(a4)) = c
        /\ \A m, n \in 1..Len(a4) : SubSeq(a4 \o c, m, n) = SubSeq(a4, m, n)
    BY <2>1, <2>2, PlainConcat
  <2>4. Len(a4) + Len(c) = 12
    BY <2>1, <2>2
  <2> QED BY <1>45, <2>1, <2>3, <2>4
<1>26. /\ a6 \in Seq(Plain) /\ Len(a6) = 14 /\ Drop(a6, 12) = q5
       /\ \A m, n \in 1..12 : SubSeq(a6, m, n) = SubSeq(a5, m, n)
  <2>1. a5 \in Seq(Plain) /\ Len(a5) = 12
    BY <1>25
  <2>2. q5 \in Seq(Plain) /\ Len(q5) = 2
    BY <1>5
  <2>3. /\ a5 \o q5 \in Seq(Plain) /\ Len(a5 \o q5) = Len(a5) + Len(q5)
        /\ Drop(a5 \o q5, Len(a5)) = q5
        /\ \A m, n \in 1..Len(a5) : SubSeq(a5 \o q5, m, n) = SubSeq(a5, m, n)
    BY <2>1, <2>2, PlainConcat
  <2>4. Len(a5) + Len(q5) = 14
    BY <2>1, <2>2
  <2> QED BY <1>46, <2>1, <2>3, <2>4
<1>27. /\ a7 \in Seq(Plain) /\ Len(a7) = 15 /\ Drop(a7, 14) = c
       /\ \A m, n \in 1..14 : SubSeq(a7, m, n) = SubSeq(a6, m, n)
  <2>1. a6 \in Seq(Plain) /\ Len(a6) = 14
    BY <1>26
  <2>2. c \in Seq(Plain) /\ Len(c) = 1
    BY <1>6
  <2>3. /\ a6 \o c \in Seq(Plain) /\ Len(a6 \o c) = Len(a6) + Len(c)
        /\ Drop(a6 \o c, Len(a6)) = c
        /\ \A m, n \in 1..Len(a6) : SubSeq(a6 \o c, m, n) = SubSeq(a6, m, n)
    BY <2>1, <2>2, PlainConcat
  <2>4. Len(a6) + Len(c) = 15
    BY <2>1, <2>2
  <2> QED BY <1>47, <2>1, <2>3, <2>4
<1>28. /\ a8 \in Seq(Plain) /\ Len(a8) = 17 /\ Drop(a8, 15) = q6
       /\ \A m, n \in 1..15 : SubSeq(a8, m, n) = SubSeq(a7, m, n)
  <2>1. a7 \in Seq(Plain) /\ Len(a7) = 15
    BY <1>27
  <2>2. q6 \in Seq(Plain) /\ Len(q6) = 2
    BY <1>5
  <2>3. /\ a7 \o q6 \in Seq(Plain) /\ Len(a7 \o q6) = Len(a7) + Len(q6)
        /\ Drop(a7 \o q6, Len(a7)) = q6
        /\ \A m, n \in 1..Len(a7) : SubSeq(a7 \o q6, m, n) = SubSeq(a7, m, n)
    BY <2>1, <2>2, PlainConcat
  <2>4. Len(a7) + Len(q6) = 17
    BY <2>1, <2>2
  <2> QED BY <1>48, <2>1, <2>3, <2>4
<1>31. SubSeq(a8, 1, 4) = p1
  <2>1. SubSeq(p1, 1, 4) = p1
    BY <1>1, SubSeqFull
  <2>2. SubSeq(a1, 1, 4) = SubSeq(p1, 1, 4)
    BY <1>21, 1 \in 1..4, 4 \in 1..4
  <2>3. SubSeq(a2, 1, 4) = SubSeq(a1, 1, 4)
    BY <1>22, 1 \in 1..6, 4 \in 1..6
  <2>4. SubSeq(a3, 1, 4) = SubSeq(a2, 1, 4)
    BY <1>23, 1 \in 1..8, 4 \in 1..8
  <2>5. SubSeq(a4, 1, 4) = SubSeq(a3, 1, 4)
    BY <1>24, 1 \in 1..9, 4 \in 1..9
  <2>6. SubSeq(a5, 1, 4) = SubSeq(a4, 1, 4)
    BY <1>25, 1 \in 1..11, 4 \in 1..11
  <2>7. SubSeq(a6, 1, 4) = SubSeq(a5, 1, 4)
    BY <1>26, 1 \in 1..12, 4 \in 1..12
  <2>8. SubSeq(a7, 1, 4) = SubSeq(a6, 1, 4)
    BY <1>27, 1 \in 1..14, 4 \in 1..14
  <2>9. SubSeq(a8, 1, 4) = SubSeq(a7, 1, 4)
    BY <1>28, 1 \in 1..15, 4 \in 1..15
  <2> QED BY <2>1, <2>2, <2>3, <2>4, <2>5, <2>6, <2>7, <2>8, <2>9
<1>32. SubSeq(a8, 5, 6) = q2
  <2>1. SubSeq(a1, 5, 6) = q2
    BY <1>21 DEF Drop
  <2>2. SubSeq(a2, 5, 6) = SubSeq(a1, 5, 6)
    BY <1>22, 5 \in 1..6, 6 \in 1..6
  <2>3. SubSeq(a3, 5, 6) = SubSeq(a2, 5, 6)
    BY <1>23, 5 \in 1..8, 6 \in 1..8
  <2>4. SubSeq(a4, 5, 6) = SubSeq(a3, 5, 6)
    BY <1>24, 5 \in 1..9, 6 \in 1..9
  <2>5. SubSeq(a5, 5, 6) = SubSeq(a4, 5, 6)
    BY <1>25, 5 \in 1..11, 6 \in 1..11
  <2>6. SubSeq(a6, 5, 6) = SubSeq(a5, 5, 6)
    BY <1>26, 5 \in 1..12, 6 \in 1..12
  <2>7. SubSeq(a7, 5, 6) = SubSeq(a6, 5, 6)
    BY <1>27, 5 \in 1..14, 6 \in 1..14
  <2>8. SubSeq(a8, 5, 6) = SubSeq(a7, 5, 6)
    BY <1>28, 5 \in 1..15, 6 \in 1..15
  <2> QED BY <2>1, <2>2, <2>3, <2>4, <2>5, <2>6, <2>7, <2>8
<1>33. SubSeq(a8, 7, 8) = q3
  <2>1. SubSeq(a2, 7, 8) = q3
    BY <1>22 DEF Drop
  <2>2. SubSeq(a3, 7, 8) = SubSeq(a2, 7, 8)
    BY <1>23, 7 \in 1..8, 8 \in 1..8
  <2>3. SubSeq(a4, 7, 8) = SubSeq(a3, 7, 8)
    BY <1>24, 7 \in 1..9, 8 \in 1..9
  <2>4. SubSeq(a5, 7, 8) = SubSeq(a4, 7, 8)
    BY <1>25, 7 \in 1..11, 8 \in 1..11
  <2>5. SubSeq(a6, 7, 8) = SubSeq(a5, 7, 8)
    BY <1>26, 7 \in 1..12, 8 \in 1..12
  <2>6. SubSeq(a7, 7, 8) = SubSeq(a6, 7, 8)
    BY <1>27, 7 \in 1..14, 8 \in 1..14
  <2>7. SubSeq(a8, 7, 8) = SubSeq(a7, 7, 8)
    BY <1>28, 7 \in 1..15, 8 \in 1..15
  <2> QED BY <2>1, <2>2, <2>3, <2>4, <2>5, <2>6, <2>7
<1>34. SubSeq(a8, 10, 11) = q4
  <2>1. SubSeq(a4, 10, 11) = q4
    BY <1>24 DEF Drop
  <2>2. SubSeq(a5, 10, 11) = SubSeq(a4, 10, 11)
    BY <1>25, 10 \in 1..11, 11 \in 1..11
  <2>3. SubSeq(a6, 10, 11) = SubSeq(a5, 10, 11)
    BY <1>26, 10 \in 1..12, 11 \in 1..12
  <2>4. SubSeq(a7, 10, 11) = SubSeq(a6, 10, 11)
    BY <1>27, 10 \in 1..14, 11 \in 1..14
  <2>5. SubSeq(a8, 10, 11) = SubSeq(a7, 10, 11)
    BY <1>28, 10 \in 1..15, 11 \in 1..15
  <2> QED BY <2>1, <2>2, <2>3, <2>4, <2>5
<1>35. SubSeq(a8, 13, 14) = q5
  <2>1. SubSeq(a6, 13, 14) = q5
    BY <1>26 DEF Drop
  <2>2. SubSeq(a7, 13, 14) = SubSeq(a6, 13, 14)
    BY <1>27, 13 \in 1..14, 14 \in 1..14
  <2>3. SubSeq(a8, 13, 14) = SubSeq(a7, 13, 14)
    BY <1>28, 13 \in 1..15, 14 \in 1..15
  <2> QED BY <2>1, <2>2, <2>3
<1>36. SubSeq(a8, 16, 17) = q6
  BY <1>28 DEF Drop
<1> DEFINE r == Result(a8, rest)
           field(i) == SubSeq(r.val, DateFields[i][1], DateFields[i][2])
<1>8. r.val = a8 /\ r.rest = rest
  BY DEF Result
<1>9. /\ field(1) = p1 /\ field(2) = q2 /\ field(3) = q3 /\ field(4) = q4
      /\ field(5) = q5 /\ field(6) = q6
  BY <1>8, <1>31, <1>32, <1>33, <1>34, <1>35, <1>36 DEF DateFields
<1> HIDE DEF field
<1>10. \A i \in 1..6 : field(i) \in DigitTexts /\ NumberOf[field(i)] = f[i]
  <2>1. field(1) \in DigitTexts /\ NumberOf[field(1)] = f[1]
    BY <1>1, <1>9
  <2>2. \A i \in 2..6 : field(i) = p(i)
    BY <1>9 DEF q2, q3, q4, q5, q6
  <2>3. \A i \in 2..6 : field(i) \in DigitTexts /\ NumberOf[field(i)] = f[i]
    BY <1>2, <2>2
  <2>4. \A i \in 1..6 : i = 1 \/ i \in 2..6
    OBVIOUS
  <2> QED BY <2>1, <2>3, <2>4
<1>11. \A i \in 1..6 : ToSet(field(i)) \subseteq DOMAIN Numeral
  <2> SUFFICES ASSUME NEW i \in 1..6 PROVE ToSet(field(i)) \subseteq DOMAIN Numeral
    OBVIOUS
  <2>1. field(i) \in Seq(DOMAIN Numeral)
    BY <1>10 DEF DigitTexts
  <2> QED BY <2>1 DEF ToSet
<1>12. Len(r.val) >= 17
  BY <1>8, <1>28
<1>13. [i \in 1..6 |-> NumberOf[field(i)]] = f
  <2>1. f = [i \in 1..6 |-> f[i]]
    BY DEF IsDate
  <2> HIDE DEF r
  <2> QED BY <1>10, <2>1
<1>14. ReadDate({r}) = {Result(Date([i \in 1..6 |-> NumberOf[field(i)]]), r.rest)}
  <2> HIDE DEF r
  <2> QED BY <1>11, <1>12 DEF ReadDate, field
<1> QED BY <1>4, <1>8, <1>28, <1>13, <1>14

-----------------------------------------------------------------------------
(***************************************************************************)
(* Any value that can be sent is read back from its text (rpcUtils.c), of  *)
(* whatever depth and whatever follows it.  The proof goes from the cursor *)
(* and findTag over what is between two tags to the loops of decodeArray   *)
(* and decodeStruct, by induction over the elements and the members, and   *)
(* over the depth.                                                         *)
(***************************************************************************)
-----------------------------------------------------------------------------
(* The recursive functions are what their definitions say.                 *)

ChompR == INSTANCE Recursion WITH Domain <- Texts, Measure <- Length, Def <- ChompWith

(* What a text is without its start up to a comment's end is shorter.      *)
LEMMA Behind ==
  ASSUME NEW s \in Texts, NEW S, S \subseteq 1..Len(s), S # {}
  PROVE  /\ Min(S) \in 1..Len(s)
         /\ Min(S) # Len(s) => /\ Drop(s, Min(S) + 1) \in Texts
                               /\ Len(Drop(s, Min(S) + 1)) < Len(s)
<1>1. Len(s) \in Nat /\ Min(S) \in S
  <2>1. S \subseteq Nat
    BY Nothing
  <2> QED BY <2>1, Nothing, Least
<1> DEFINE m == Min(S)
<1>2. m \in 1..Len(s)
  BY <1>1
<1> HIDE DEF m
<1>3. ASSUME m # Len(s)
      PROVE  Drop(s, m + 1) \in Texts /\ Len(Drop(s, m + 1)) < Len(s)
  <2>1. m + 1 \in 0..Len(s) /\ m + 1 > 0
    BY <1>1, <1>2, <1>3
  <2>2. Drop(s, m + 1) \in Texts /\ Len(Drop(s, m + 1)) = Len(s) - (m + 1)
    BY <2>1, TakeDrop
  <2> QED BY <1>1, <2>1, <2>2
<1> QED BY <1>2, <1>3 DEF m

(* Chomp (chompStr) is what its definition says.                           *)
LEMMA ChompDefined == \A s \in Texts : Chomp[s] = ChompWith(Chomp, s)
<1>1. ChompR!IsMeasure
  BY LenProperties DEF ChompR!IsMeasure, Length, Texts
<1>2. ChompR!IsRecursive
  <2> SUFFICES ASSUME NEW s \in Texts, NEW g, NEW h,
                      \A t \in Texts : Length(t) < Length(s) => g[t] = h[t]
               PROVE  ChompWith(g, s) = ChompWith(h, s)
    BY Zenon DEF ChompR!IsRecursive
  <2> DEFINE ends == {i \in 1..Len(s) : s[i] = " -->"}
  <2>1. s # <<>> => g[Tail(s)] = h[Tail(s)]
    BY HeadTail DEF Texts, Length
  <2>2. ends # {} /\ Min(ends) # Len(s) => g[Drop(s, Min(ends) + 1)] = h[Drop(s, Min(ends) + 1)]
    <3>1. ends \subseteq 1..Len(s)
      OBVIOUS
    <3> HIDE DEF ends
    <3> QED BY <3>1, Behind DEF Length
  <2>3. CASE s = <<>>
    BY <2>3 DEF ChompWith
  <2>4. CASE s # <<>> /\ s[1] \in Blanks
    BY <2>1, <2>4 DEF ChompWith
  <2>5. CASE s # <<>> /\ s[1] \notin Blanks
    <3> HIDE DEF ends
    <3> DEFINE inside(f) == IF ends = {} THEN <<>>
                            ELSE IF Min(ends) = Len(s) THEN Outside ELSE f[Drop(s, Min(ends) + 1)]
    <3>1. inside(g) = inside(h)
      BY <2>2
    <3> HIDE DEF inside
    <3>2. \A f : ChompWith(f, s) = IF s[1] = "<!-- " THEN inside(f) ELSE s
      BY <2>5 DEF ChompWith, inside, ends
    <3> QED BY <3>1, <3>2
  <2> QED BY <2>3, <2>4, <2>5
<1>3. \E f : f = [s \in Texts |-> ChompWith(f, s)]
  BY <1>1, <1>2, ChompR!RecursionDefines
<1>4. Chomp = [s \in Texts |-> ChompWith(Chomp, s)]
  BY <1>3, Zenon DEF Chomp
<1> QED BY <1>4

JoinedDef(f, texts) == IF texts = <<>> THEN <<>> ELSE Head(texts) \o f[Tail(texts)]
JoinedR == INSTANCE Recursion WITH Domain <- Seq(Texts), Measure <- Length, Def <- JoinedDef

(* Joined (texts behind one another) is what its definition says.          *)
LEMMA JoinedDefined ==
  \A t \in Seq(Texts) : Joined[t] = IF t = <<>> THEN <<>> ELSE Head(t) \o Joined[Tail(t)]
<1>1. JoinedR!IsMeasure
  BY LenProperties DEF JoinedR!IsMeasure, Length
<1>2. JoinedR!IsRecursive
  <2> SUFFICES ASSUME NEW s \in Seq(Texts), NEW g, NEW h,
                      \A t \in Seq(Texts) : Length(t) < Length(s) => g[t] = h[t]
               PROVE  JoinedDef(g, s) = JoinedDef(h, s)
    BY Zenon DEF JoinedR!IsRecursive
  <2>1. s # <<>> => Tail(s) \in Seq(Texts) /\ Len(Tail(s)) < Len(s)
    BY HeadTail
  <2>2. s # <<>> => g[Tail(s)] = h[Tail(s)]
    BY <2>1 DEF Length
  <2> QED BY <2>2, Zenon DEF JoinedDef
<1>3. \E f : f = [s \in Seq(Texts) |-> JoinedDef(f, s)]
  BY <1>1, <1>2, JoinedR!RecursionDefines
<1>4. Joined = [s \in Seq(Texts) |-> JoinedDef(Joined, s)]
  BY <1>3, Zenon DEF Joined, JoinedDef
<1> QED BY <1>4 DEF JoinedDef

(* What is defined for each depth by what it is for one less.              *)
ValuesDef(f, n) == Scalars \cup (IF n = 0 THEN {} ELSE Compounds(f[n - 1]))
ValuesR == INSTANCE Recursion WITH Domain <- Nat, Measure <- Itself, Def <- ValuesDef

(* Values (values of each depth) is what its definition says.              *)
LEMMA ValuesDefined ==
  \A n \in Nat : Values[n] = Scalars \cup (IF n = 0 THEN {} ELSE Compounds(Values[n - 1]))
<1>1. ValuesR!IsMeasure
  BY DEF ValuesR!IsMeasure, Itself
<1>2. ValuesR!IsRecursive
  <2> SUFFICES ASSUME NEW n \in Nat, NEW g, NEW h,
                      \A m \in Nat : Itself(m) < Itself(n) => g[m] = h[m]
               PROVE  ValuesDef(g, n) = ValuesDef(h, n)
    BY Zenon DEF ValuesR!IsRecursive
  <2>1. n # 0 => g[n - 1] = h[n - 1]
    BY DEF Itself
  <2> QED BY <2>1, Zenon DEF ValuesDef
<1>3. \E f : f = [n \in Nat |-> ValuesDef(f, n)]
  BY <1>1, <1>2, ValuesR!RecursionDefines
<1>4. Values = [n \in Nat |-> ValuesDef(Values, n)]
  BY <1>3, Zenon DEF Values, ValuesDef
<1> QED BY <1>4 DEF ValuesDef

EncodersDef(f, n) == EncodersWith(IF n = 0 THEN <<>> ELSE f[n - 1], n)
EncodersR == INSTANCE Recursion WITH Domain <- Nat, Measure <- Itself, Def <- EncodersDef

(* Encoders (encodeValue at each depth) is what its definition says.       *)
LEMMA EncodersDefined ==
  \A n \in Nat : Encoders[n] = EncodersWith(IF n = 0 THEN <<>> ELSE Encoders[n - 1], n)
<1>1. EncodersR!IsMeasure
  BY DEF EncodersR!IsMeasure, Itself
<1>2. EncodersR!IsRecursive
  <2> SUFFICES ASSUME NEW n \in Nat, NEW g, NEW h,
                      \A m \in Nat : Itself(m) < Itself(n) => g[m] = h[m]
               PROVE  EncodersDef(g, n) = EncodersDef(h, n)
    BY Zenon DEF EncodersR!IsRecursive
  <2>1. n # 0 => g[n - 1] = h[n - 1]
    BY DEF Itself
  <2> QED BY <2>1, Zenon DEF EncodersDef
<1>3. \E f : f = [n \in Nat |-> EncodersDef(f, n)]
  BY <1>1, <1>2, EncodersR!RecursionDefines
<1>4. Encoders = [n \in Nat |-> EncodersDef(Encoders, n)]
  BY <1>3, Zenon DEF Encoders, EncodersDef
<1> QED BY <1>4 DEF EncodersDef

DecodersDef(f, n) == IF n = 0 THEN NoDecoder ELSE DecodersWith(f[n - 1])
DecodersR == INSTANCE Recursion WITH Domain <- Nat, Measure <- Itself, Def <- DecodersDef

(* Decoders (decodeValue and its loops at each depth) is what its definition says. *)
LEMMA DecodersDefined ==
  \A n \in Nat : Decoders[n] = IF n = 0 THEN NoDecoder ELSE DecodersWith(Decoders[n - 1])
<1>1. DecodersR!IsMeasure
  BY DEF DecodersR!IsMeasure, Itself
<1>2. DecodersR!IsRecursive
  <2> SUFFICES ASSUME NEW n \in Nat, NEW g, NEW h,
                      \A m \in Nat : Itself(m) < Itself(n) => g[m] = h[m]
               PROVE  DecodersDef(g, n) = DecodersDef(h, n)
    BY Zenon DEF DecodersR!IsRecursive
  <2>1. n # 0 => g[n - 1] = h[n - 1]
    BY DEF Itself
  <2> QED BY <2>1, Zenon DEF DecodersDef
<1>3. \E f : f = [n \in Nat |-> DecodersDef(f, n)]
  BY <1>1, <1>2, DecodersR!RecursionDefines
<1>4. Decoders = [n \in Nat |-> DecodersDef(Decoders, n)]
  BY <1>3, Zenon DEF Decoders, DecodersDef
<1> QED BY <1>4 DEF DecodersDef

(* A decoder of some depth calls the decoders of one less.                 *)
LEMMA DecoderOf ==
  ASSUME NEW n \in Nat, n # 0, NEW s \in Texts
  PROVE  /\ Decoders[n].value[s] = DecodeValue(Decoders[n - 1], s)
         /\ Decoders[n].elems[s] = DecodeElems(Decoders[n - 1], s)
         /\ Decoders[n].members[s] = DecodeMembers(Decoders[n - 1], s)
         /\ Decoders[n].params[s] = DecodeParams(Decoders[n - 1], s)
<1>1. Decoders[n] = DecodersWith(Decoders[n - 1])
  BY DecodersDefined
<1> QED BY <1>1 DEF DecodersWith

-----------------------------------------------------------------------------
(* The cursor.                                                             *)

(* Texts that chompStr leaves as they are, though they are not at the end, *)
(* and those that it makes one of.                                         *)
Solid(s) == s \in Texts /\ s # <<>> /\ s # Outside /\ Chomp[s] = s
Leads(s, y) == s \in Texts /\ s # Outside /\ Chomp[s] = y /\ Solid(y)

(* A text of one character.                                                *)
LEMMA One == ASSUME NEW T, NEW a \in T PROVE <<a>> \in Seq(T) /\ Len(<<a>>) = 1
  OBVIOUS

(* Two texts of one character.                                             *)
LEMMA OneAndOne == ASSUME NEW T, NEW a \in T, NEW b \in T PROVE <<a>> \o <<b>> = <<a, b>>
<1> DEFINE s == <<a>> \o <<b>>
<1>1. <<a>> \in Seq(T) /\ Len(<<a>>) = 1 /\ <<b>> \in Seq(T) /\ Len(<<b>>) = 1
  BY One
<1>2. /\ s \in Seq(T) /\ Len(s) = Len(<<a>>) + Len(<<b>>)
      /\ \A i \in 1..Len(<<a>>) + Len(<<b>>) : s[i] = IF i <= Len(<<a>>) THEN <<a>>[i] ELSE <<b>>[i - Len(<<a>>)]
  BY <1>1, ConcatProperties
<1> HIDE DEF s
<1>3. Len(s) = 2 /\ s[1] = a /\ s[2] = b
  BY <1>1, <1>2
<1>4. <<a, b>> \in Seq(T) /\ Len(<<a, b>>) = 2 /\ <<a, b>>[1] = a /\ <<a, b>>[2] = b
  BY Pair
<1>5. \A i \in 1..2 : s[i] = <<a, b>>[i]
  <2> DEFINE u == <<a, b>>
  <2>1. u[1] = a /\ u[2] = b
    BY <1>4
  <2> HIDE DEF u
  <2>2. \A i \in 1..2 : s[i] = u[i]
    BY <1>3, <2>1
  <2> QED BY <2>2 DEF u
<1>6. s = <<a, b>>
  <2> DEFINE u == <<a, b>>
  <2>1. u \in Seq(T) /\ Len(u) = 2 /\ \A i \in 1..2 : s[i] = u[i]
    BY <1>4, <1>5
  <2> HIDE DEF u
  <2> QED BY <1>2, <1>3, <2>1, SeqEqual DEF u
<1> QED BY <1>6 DEF s

(* A tag in front of a text: chompStr leaves it alone, and no other tag is *)
(* found there.                                                            *)
LEMMA TagFirst ==
  ASSUME NEW a \in Chars, NEW y \in Texts
  PROVE  /\ Tag(a) \in Texts /\ Len(Tag(a)) = 2 /\ Len(Tag(a) \o y) = Len(y) + 2 /\ Len(y) \in Nat
         /\ (Tag(a) \o y)[1] = "<" /\ (Tag(a) \o y)[2] = a /\ Drop(Tag(a) \o y, 2) = y
         /\ Solid(Tag(a) \o y)
         /\ \A b : IsPrefix(Tag(b), Tag(a) \o y) <=> b = a
<1> DEFINE l == "<"
           s == <<l, a>> \o y
<1>1. l \in Chars /\ a \in Chars
  BY StringsAssumption DEF Marks, Chars
<1>2. /\ <<l, a>> \in Texts /\ s \in Texts /\ s # <<>> /\ Len(s) = Len(y) + 2 /\ Len(y) \in Nat
      /\ s[1] = l /\ s[2] = a /\ Drop(s, 2) = y
      /\ \A c, d : IsPrefix(<<c, d>>, s) <=> c = l /\ d = a
  <2> HIDE DEF l
  <2>1. /\ <<l, a>> \in Texts /\ s \in Texts /\ s # <<>> /\ Len(s) = Len(y) + 2 /\ Len(y) \in Nat
        /\ s[1] = l /\ s[2] = a /\ Drop(s, 2) = y
    BY <1>1, PairFirst
  <2>2. ASSUME NEW c, NEW d
        PROVE  IsPrefix(<<c, d>>, s) <=> c = l /\ d = a
    BY <1>1, PairFirst
  <2> QED BY <2>1, <2>2
<1>3. s # Outside
  <2>1. Outside[1] = "outside"
    BY DEF Outside
  <2> HIDE DEF s
  <2> QED BY <1>2, <2>1 DEF l
<1>4. Chomp[s] = s
  <2> HIDE DEF s
  <2>1. Chomp[s] = ChompWith(Chomp, s)
    BY <1>2, ChompDefined
  <2>2. s[1] \notin Blanks /\ s[1] # "<!-- "
    BY <1>2 DEF l, Blanks
  <2> QED BY <1>2, <2>1, <2>2 DEF ChompWith
<1>5. Tag(a) = <<l, a>> /\ \A b : Tag(b) = <<l, b>>
  BY DEF Tag
<1>6. Len(<<l, a>>) = 2
  OBVIOUS
<1> HIDE DEF s, l
<1>7. Tag(a) \o y = s
  BY <1>5 DEF s
<1>8. ASSUME NEW b
      PROVE  IsPrefix(Tag(b), s) <=> b = a
  BY <1>2, <1>5
<1> QED BY <1>2, <1>3, <1>4, <1>5, <1>6, <1>7, <1>8 DEF Solid, l

(* A line end in front of a text: chompStr skips it.                       *)
LEMMA BlankFirst ==
  ASSUME NEW y \in Texts
  PROVE  /\ <<" ">> \in Texts /\ <<" ">> \o y \in Texts /\ Len(<<" ">> \o y) = Len(y) + 1 /\ Len(<<" ">>) = 1
         /\ <<" ">> \o y # <<>> /\ <<" ">> \o y # Outside
         /\ Chomp[<<" ">> \o y] = Chomp[y]
<1> DEFINE l == " "
           s == <<l>> \o y
<1>1. l \in STRING
  BY StringsAssumption DEF Marks
<1>2. /\ s \in Texts /\ s # <<>> /\ Len(s) = Len(y) + 1 /\ Head(s) = l /\ Tail(s) = y
      /\ s[1] = l /\ <<l>> \in Texts
  <2> HIDE DEF l
  <2>1. /\ s \in Seq(STRING) /\ s # <<>> /\ Len(s) = Len(y) + 1 /\ Head(s) = l /\ Tail(s) = y
        /\ s[1] = l
    BY <1>1, ConsTail DEF Texts
  <2>2. <<l>> \in Seq(STRING)
    BY <1>1, One
  <2> QED BY <2>1, <2>2 DEF Texts
<1>3. s # Outside
  <2>1. Outside[1] = "outside"
    BY DEF Outside
  <2> HIDE DEF s
  <2> QED BY <1>2, <2>1 DEF l
<1>4. Chomp[s] = Chomp[y]
  <2> HIDE DEF s
  <2>1. Chomp[s] = ChompWith(Chomp, s)
    BY <1>2, ChompDefined
  <2>2. s[1] \in Blanks
    BY <1>2 DEF l, Blanks
  <2>3. ChompWith(Chomp, s) = Chomp[Tail(s)]
    BY <1>2, <2>2, Zenon DEF ChompWith
  <2> QED BY <1>2, <2>1, <2>3
<1> QED BY <1>2, <1>3, <1>4

(* Where a cursor is brought by findTag.                                   *)
LEMMA Leading ==
  ASSUME NEW y, Solid(y)
  PROVE  Leads(y, y) /\ Leads(<<" ">> \o y, y)
<1>1. y \in Texts
  BY DEF Solid
<1> QED BY <1>1, BlankFirst DEF Leads, Solid

(* findTag without chomp finds a tag and leaves the cursor behind it.      *)
LEMMA ExpectTag ==
  ASSUME NEW a \in Chars, NEW y \in Texts
  PROVE  Expect(Tag(a), {Tag(a) \o y}) = {y}
<1> DEFINE s == Tag(a) \o y
<1>1. s # Outside /\ IsPrefix(Tag(a), s) /\ Len(Tag(a)) = 2 /\ Drop(s, 2) = y
  BY TagFirst DEF Solid
<1> HIDE DEF s
<1>2. {t \in {s} : IsPrefix(Tag(a), t)} = {s} /\ {s} \cap {Outside} = {}
  BY <1>1
<1>3. Expect(Tag(a), {s}) = {Drop(s, Len(Tag(a)))}
  BY <1>2 DEF Expect
<1> QED BY <1>1, <1>3 DEF s

(* findTag with chomp finds a tag and leaves the cursor where chompStr     *)
(* brings it.                                                              *)
LEMMA SkipTag ==
  ASSUME NEW a \in Chars, NEW y, NEW z, Leads(y, z)
  PROVE  Skip(Tag(a), {Tag(a) \o y}) = {z}
<1> DEFINE s == Tag(a) \o y
<1>1. y \in Texts /\ y # Outside /\ Chomp[y] = z /\ z # Outside
  BY DEF Leads, Solid
<1>2. Expect(Tag(a), {s}) = {y} /\ s # Outside
  BY <1>1, ExpectTag, TagFirst DEF Solid
<1> HIDE DEF s
<1>3. Skip(Tag(a), {s}) = ({Chomp[t] : t \in {y} \ {Outside}} \ {Outside}) \cup ({s} \cap {Outside})
  BY <1>2 DEF Skip
<1>4. {Chomp[t] : t \in {y} \ {Outside}} = {z}
  BY <1>1
<1>5. ({z} \ {Outside}) \cup ({s} \cap {Outside}) = {z}
  BY <1>1, <1>2
<1> QED BY <1>3, <1>4, <1>5 DEF s

(* The same behind a value that has been read.                             *)
LEMMA ClosedTag ==
  ASSUME NEW a \in Chars, NEW y, NEW z, Leads(y, z), NEW v
  PROVE  Closed(a, {Result(v, Tag(a) \o y)}) = {Result(v, z)}
<1> DEFINE s == Tag(a) \o y
           R == {Result(v, s)}
<1>1. Skip(Tag(a), {s}) = {z}
  BY SkipTag
<1> HIDE DEF s
<1>2. \A r \in R : r.val = v /\ r.rest = s
  BY DEF Result
<1>3. \A r \in R : {Result(r.val, t) : t \in Skip(Tag(a), {r.rest})} = {Result(v, z)}
  <2> SUFFICES ASSUME NEW r \in R PROVE {Result(r.val, t) : t \in Skip(Tag(a), {r.rest})} = {Result(v, z)}
    OBVIOUS
  <2>1. r.val = v /\ Skip(Tag(a), {r.rest}) = {z}
    BY <1>1, <1>2
  <2> QED BY <2>1
<1>4. Closed(a, R) = UNION {{Result(v, z)} : r \in R}
  BY <1>3 DEF Closed
<1>5. UNION {{Result(v, z)} : r \in R} = {Result(v, z)}
  OBVIOUS
<1> QED BY <1>4, <1>5 DEF s

(* The same where the text may be at its end.                              *)
LEMMA EndedTag ==
  ASSUME NEW a \in Chars, NEW y \in Texts, NEW v
  PROVE  Ended(a, {Result(v, Tag(a) \o y)}) = {Result(v, Chomp[y])}
<1> DEFINE s == Tag(a) \o y
           R == {Result(v, s)}
<1>1. Expect(Tag(a), {s}) = {y}
  BY ExpectTag
<1> HIDE DEF s
<1>2. \A r \in R : r.val = v /\ r.rest = s
  BY DEF Result
<1>3. \A r \in R : {Result(r.val, Chomp[t]) : t \in Expect(Tag(a), {r.rest})} = {Result(v, Chomp[y])}
  <2> SUFFICES ASSUME NEW r \in R
               PROVE  {Result(r.val, Chomp[t]) : t \in Expect(Tag(a), {r.rest})} = {Result(v, Chomp[y])}
    OBVIOUS
  <2>1. r.val = v /\ Expect(Tag(a), {r.rest}) = {y}
    BY <1>1, <1>2
  <2> QED BY <2>1
<1>4. Ended(a, R) = UNION {{Result(v, Chomp[y])} : r \in R}
  BY <1>3 DEF Ended
<1>5. UNION {{Result(v, Chomp[y])} : r \in R} = {Result(v, Chomp[y])}
  OBVIOUS
<1> QED BY <1>4, <1>5 DEF s

(* A part of two characters.                                               *)
LEMMA TwoOf ==
  ASSUME NEW T, NEW q \in Seq(T), NEW i \in 1..(Len(q) - 1)
  PROVE  SubSeq(q, i, i + 1) = <<q[i], q[i + 1]>>
<1>1. i \in 1..Len(q) /\ i + 1 \in 1..Len(q) /\ i \in Nat
  OBVIOUS
<1>2. SubSeq(q, i, i + 1) = <<q[i]>> \o SubSeq(q, i + 1, i + 1)
  BY <1>1, SubSeqRecursiveFirst
<1>3. SubSeq(q, i + 1, i + 1) = <<q[i + 1]>> \o SubSeq(q, (i + 1) + 1, i + 1)
  BY <1>1, SubSeqRecursiveFirst
<1>4. SubSeq(q, (i + 1) + 1, i + 1) = <<>>
  BY <1>1, SubSeqEmpty
<1> DEFINE a == q[i]
           b == q[i + 1]
<1> HIDE DEF a, b
<1>5. <<a>> \o (<<b>> \o <<>>) = <<a, b>>
  <2>1. <<b>> \in Seq({a, b}) /\ a \in {a, b} /\ b \in {a, b}
    OBVIOUS
  <2> QED BY <2>1, ConcatEmptySeq, OneAndOne
<1> QED BY <1>2, <1>3, <1>4, <1>5 DEF a, b

(* The first of a tag in a text, behind what has none.                     *)
LEMMA FoundFirst ==
  ASSUME NEW a \in Chars \ {"<"}, NEW t \in Texts, Found(Tag(a), t) = {}, NEW w \in Texts
  PROVE  LET s == t \o (Tag(a) \o w)
         IN  /\ s \in Texts /\ Found(Tag(a), s) # {} /\ Min(Found(Tag(a), s)) = Len(t) + 1
             /\ SubSeq(s, 1, Len(t)) = t /\ Drop(s, Len(t)) = Tag(a) \o w /\ Len(t) \in Nat
<1> DEFINE u == Tag(a) \o w
           s == t \o u
           F == Found(Tag(a), s)
<1>1. u \in Texts /\ Len(u) = Len(w) + 2 /\ Len(w) \in Nat /\ u[1] = "<" /\ u[2] = a
  BY TagFirst DEF Solid
<1> HIDE DEF u
<1>2. /\ s \in Texts /\ Len(s) = Len(t) + Len(u) /\ Len(t) \in Nat /\ Len(u) \in Nat
      /\ \A i \in 1..Len(t) : s[i] = t[i]
      /\ \A i \in 1..Len(u) : s[Len(t) + i] = u[i]
      /\ SubSeq(s, 1, Len(t)) = t /\ Drop(s, Len(t)) = u
  BY <1>1, Concat
<1> HIDE DEF s
<1>3. \A q \in Texts : \A i \in 1..(Len(q) - 1) :
        SubSeq(q, i, i + 1) = Tag(a) <=> q[i] = "<" /\ q[i + 1] = a
  <2> SUFFICES ASSUME NEW q \in Texts, NEW i \in 1..(Len(q) - 1)
               PROVE  SubSeq(q, i, i + 1) = Tag(a) <=> q[i] = "<" /\ q[i + 1] = a
    OBVIOUS
  <2>1. SubSeq(q, i, i + 1) = <<q[i], q[i + 1]>>
    BY TwoOf DEF Texts
  <2> QED BY <2>1 DEF Tag
<1>4. Len(t) + 1 \in F
  <2>1. Len(t) + 1 \in 1..(Len(s) - 1) /\ 1 \in 1..Len(u) /\ 2 \in 1..Len(u)
    BY <1>1, <1>2
  <2>2. s[Len(t) + 1] = "<" /\ s[Len(t) + 2] = a
    BY <1>1, <1>2, <2>1
  <2>3. (Len(t) + 1) + 1 = Len(t) + 2
    BY <1>2
  <2>4. SubSeq(s, Len(t) + 1, (Len(t) + 1) + 1) = Tag(a)
    BY <1>2, <1>3, <2>1, <2>2, <2>3
  <2> QED BY <2>1, <2>4 DEF Found
<1>5. \A i \in F : i >= Len(t) + 1
  <2> SUFFICES ASSUME NEW i \in F, i <= Len(t) PROVE FALSE
    BY <1>2 DEF Found
  <2>1. i \in 1..(Len(s) - 1) /\ SubSeq(s, i, i + 1) = Tag(a)
    BY DEF Found
  <2>2. s[i] = "<" /\ s[i + 1] = a
    BY <1>2, <1>3, <2>1
  <2>3. i \in 1..Len(t) /\ i \in Nat
    BY <1>2, <2>1
  <2>4. t[i] = "<"
    BY <1>2, <2>2, <2>3
  <2>5. CASE i < Len(t)
    <3>1. i + 1 \in 1..Len(t) /\ i \in 1..(Len(t) - 1)
      BY <1>2, <2>3, <2>5
    <3>2. t[i + 1] = a
      BY <1>2, <2>2, <3>1
    <3>3. SubSeq(t, i, i + 1) = Tag(a)
      BY <1>3, <2>4, <3>1, <3>2
    <3> QED BY <3>1, <3>3 DEF Found
  <2>6. CASE i = Len(t)
    <3>1. 1 \in 1..Len(u)
      BY <1>1
    <3>2. s[Len(t) + 1] = "<"
      BY <1>1, <1>2, <3>1
    <3> QED BY <2>2, <2>6, <3>2
  <2>7. Len(t) \in Nat
    BY <1>2
  <2>8. i < Len(t) \/ i = Len(t)
    BY <2>3, <2>7
  <2> QED BY <2>5, <2>6, <2>8
<1>6. F \subseteq Nat
  BY <1>2 DEF Found
<1> HIDE DEF F
<1>7. Min(F) \in F /\ \A i \in F : Min(F) <= i
  BY <1>4, <1>6, Least
<1>8. Min(F) = Len(t) + 1
  <2>0. Len(t) \in Nat
    BY <1>2
  <2>1. Min(F) \in Nat
    BY <1>6, <1>7, <2>0, Zenon
  <2>2. Min(F) <= Len(t) + 1 /\ Min(F) >= Len(t) + 1
    BY <1>4, <1>5, <1>7
  <2> HIDE DEF F
  <2> QED BY <2>0, <2>1, <2>2
<1> QED BY <1>2, <1>4, <1>8 DEF F, s, u

(* A text without a start of a tag has no tag.                             *)
LEMMA PlainFound == \A t \in Seq(Plain) : \A a : Found(Tag(a), t) = {}
<1> SUFFICES ASSUME NEW t \in Seq(Plain), NEW a, NEW i \in Found(Tag(a), t) PROVE FALSE
  OBVIOUS
<1>1. i \in 1..(Len(t) - 1) /\ SubSeq(t, i, i + 1) = Tag(a)
  BY DEF Found
<1>2. SubSeq(t, i, i + 1) = <<t[i], t[i + 1]>>
  BY <1>1, TwoOf
<1>3. t[i] = "<"
  BY <1>1, <1>2 DEF Tag
<1>4. i \in 1..Len(t)
  BY <1>1
<1>5. t[i] \in Plain
  BY <1>4, ElementOfSeq
<1> QED BY <1>3, <1>5 DEF Plain

(* The text up to a tag is what stands before the first of it.             *)
LEMMA UpToTag ==
  ASSUME NEW a \in Chars \ {"<"}, NEW t \in Texts, Found(Tag(a), t) = {}, NEW w \in Texts
  PROVE  UpTo(a, t \o (Tag(a) \o w)) = {Result(t, Tag(a) \o w)}
<1> DEFINE u == Tag(a) \o w
           s == t \o u
           m == Len(t)
<1>1. /\ s \in Texts /\ Found(Tag(a), s) # {} /\ Min(Found(Tag(a), s)) = m + 1
      /\ SubSeq(s, 1, m) = t /\ Drop(s, m) = u /\ m \in Nat
  BY FoundFirst
<1> HIDE DEF s, u, m
<1>2. (m + 1) - 1 = m
  BY <1>1
<1>3. UpTo(a, s) = {Result(SubSeq(s, 1, (m + 1) - 1), Drop(s, (m + 1) - 1))}
  BY <1>1 DEF UpTo
<1> QED BY <1>1, <1>2, <1>3 DEF s, u

-----------------------------------------------------------------------------
(* What is put together, from its start.                                   *)

(* Named, so that the provers do not take what is put together to pieces.  *)
Same(s, t) == s = t

(* A text between two tags, from its first tag on.                         *)
LEMMA TaggedFirst ==
  ASSUME NEW a \in Chars, NEW t \in Texts, NEW b \in Chars, NEW x \in Texts
  PROVE  /\ Tagged(a, t, b) \in Texts /\ Len(Tagged(a, t, b)) = Len(t) + 4 /\ Len(t) \in Nat
         /\ Tag(b) \o x \in Texts /\ t \o (Tag(b) \o x) \in Texts
         /\ Same(Tagged(a, t, b) \o x, Tag(a) \o (t \o (Tag(b) \o x)))
<1> DEFINE p == Tag(a)
           q == Tag(b)
<1>1. p \in Texts /\ Len(p) = 2 /\ q \in Texts /\ Len(q) = 2
  BY TagFirst
<1>2. Tagged(a, t, b) = (p \o t) \o q
  BY DEF Tagged
<1> HIDE DEF p, q
<1>3. p \o t \in Texts /\ Len(p \o t) = Len(p) + Len(t) /\ Len(t) \in Nat
  BY <1>1, Concat
<1>4. (p \o t) \o q \in Texts /\ Len((p \o t) \o q) = Len(p \o t) + Len(q)
  BY <1>1, <1>3, Concat
<1>5. q \o x \in Texts
  BY <1>1, Concat
<1>6. t \o (q \o x) \in Texts
  BY <1>5, Concat
<1>7. IsAssociative(p \o t, q, x) /\ IsAssociative(p, t, q \o x)
  BY <1>1, <1>3, <1>5, Associative
<1>8. ((p \o t) \o q) \o x = p \o (t \o (q \o x))
  BY <1>7 DEF IsAssociative
<1>9. Same(((p \o t) \o q) \o x, p \o (t \o (q \o x)))
  BY <1>8 DEF Same
<1> QED BY <1>1, <1>2, <1>3, <1>4, <1>5, <1>6, <1>9 DEF p, q

(* A text on a line of its own, from its start on.                         *)
LEMMA LineFirst ==
  ASSUME NEW t \in Texts, NEW x \in Texts
  PROVE  /\ Line(t) \in Texts /\ Len(Line(t)) = Len(t) + 1 /\ Len(t) \in Nat
         /\ <<" ">> \o x \in Texts /\ Same(Line(t) \o x, t \o (<<" ">> \o x))
<1> DEFINE l == " "
           q == <<l>>
<1>1. l \in STRING
  BY StringsAssumption DEF Marks
<1>2. q \in Texts /\ q \o x \in Texts
  BY BlankFirst
<1>3. Line(t) = Append(t, l)
  BY DEF Line
<1> HIDE DEF l
<1>4. Line(t) \in Texts /\ Line(t) = t \o q /\ Len(Line(t)) = Len(t) + 1 /\ Len(t) \in Nat
  BY <1>1, <1>3, AppendFront DEF Texts
<1> HIDE DEF q
<1>5. IsAssociative(t, q, x)
  BY <1>2, Associative
<1>6. Same((t \o q) \o x, t \o (q \o x))
  BY <1>5 DEF IsAssociative, Same
<1> QED BY <1>2, <1>4, <1>6 DEF q, l

-----------------------------------------------------------------------------
(* Values that have no others in them.                                     *)

(* The text of a value between its tags, and what is read from it.         *)
Reads(decode, c, v) ==
  /\ c \in Texts
  /\ \A y : Solid(y) => /\ c \o y \in Texts /\ Solid(Chomp[c \o y])
                        /\ Content(decode, c \o y) = {Result(v, y)}

(* decodeValue reads a value from what is between its tags, whatever       *)
(* follows.                                                                *)
LEMMA ValueOf ==
  ASSUME NEW decode, NEW c, NEW v, Reads(decode, c, v), NEW x \in Texts
  PROVE  /\ Tagged("value>", c, "/value>") \in Texts
         /\ Solid(Tagged("value>", c, "/value>") \o x)
         /\ DecodeValue(decode, Tagged("value>", c, "/value>") \o x) = {Result(v, Chomp[x])}
<1> DEFINE a == "value>"
           b == "/value>"
           y == Tag(b) \o x
           u == c \o y
           s == Tag(a) \o u
<1>1. a \in Chars /\ b \in Chars
  BY StringsAssumption DEF Tags, EndTags, Chars
<1>2. c \in Texts
  BY DEF Reads
<1>3. Tagged(a, c, b) \in Texts /\ Tagged(a, c, b) \o x = s /\ u \in Texts
  <2> HIDE DEF a, b
  <2>1. /\ Tagged(a, c, b) \in Texts
        /\ Tag(b) \o x \in Texts /\ c \o (Tag(b) \o x) \in Texts
        /\ Same(Tagged(a, c, b) \o x, s)
    BY <1>1, <1>2, TaggedFirst
  <2> QED BY <2>1 DEF Same
<1>4. Solid(y)
  <2> HIDE DEF b
  <2> QED BY <1>1, TagFirst
<1>5. Solid(Chomp[u]) /\ Content(decode, u) = {Result(v, y)}
  <2> HIDE DEF y
  <2> QED BY <1>4 DEF Reads
<1>6. Solid(s) /\ Expect(Tag(a), {s}) = {u}
  <2> HIDE DEF a, u
  <2> QED BY <1>1, <1>3, TagFirst, ExpectTag
<1>7. Ended(b, {Result(v, y)}) = {Result(v, Chomp[x])}
  <2> HIDE DEF b
  <2> QED BY <1>1, EndedTag
<1> HIDE DEF y, u, s
<1>8. Chomp[s] = s
  BY <1>6 DEF Solid
<1>9. {t \in Expect(Tag(a), {Chomp[s]}) : ~AtEnd(Chomp[t])} = {u}
  BY <1>5, <1>6, <1>8 DEF AtEnd, Solid
<1>10. DecodeValue(decode, s) = Ended(b, UNION {Content(decode, t) : t \in {u}})
  BY <1>9, Zenon DEF DecodeValue
<1>11. UNION {Content(decode, t) : t \in {u}} = Content(decode, u)
  OBVIOUS
<1> QED BY <1>3, <1>5, <1>6, <1>7, <1>10, <1>11

(* decodeValue calls what the tag says.                                    *)
Calls(decode, a, y, s) ==
  /\ a = "int>" => Content(decode, s) = DecodeInt(y, "/int>")
  /\ a = "double>" => Content(decode, s) = DecodeDouble(y)
  /\ a = "nil/>" => Content(decode, s) = DecodeNone(Tag(a) \o y)
  /\ a = "boolean>" => Content(decode, s) = DecodeBool(Tag(a) \o y)
  /\ a = "string>" => Content(decode, s) = Closed("/string>", ReadString(UpTo("/string>", y)))
  /\ a = "base64>" => Content(decode, s) = Closed("/base64>", ReadBytes(UpTo("/base64>", y)))
  /\ a = "dateTime.iso8601>" =>
       Content(decode, s) = Closed("/dateTime.iso8601>", ReadDate(UpTo("/dateTime.iso8601>", y)))
  /\ a = "array>" =>
       Content(decode, s) =
         Closed("/array>", UNION {DecodeArray(decode, u) : u \in Skip(Tag(a), {Tag(a) \o y})})
  /\ a = "struct>" =>
       Content(decode, s) =
         Closed("/struct>", UNION {DecodeStruct(decode, u) : u \in Skip(Tag(a), {Tag(a) \o y})})

(* The calls that decodeValue makes.                                       *)
LEMMA ContentOf ==
  ASSUME NEW decode, NEW a \in Chars, NEW y \in Texts, NEW s, Leads(s, Tag(a) \o y)
  PROVE  Calls(decode, a, y, s)
<1> DEFINE t == Tag(a) \o y
<1>1. t[1] = "<" /\ t[2] = a /\ Len(t) = Len(y) + 2 /\ Len(y) \in Nat /\ Drop(t, 2) = y
  BY TagFirst
<1>2. Chomp[s] = t
  BY DEF Leads
<1> HIDE DEF t
<1>3. Len(t) > 1
  BY <1>1
<1>4. (IF Len(t) > 1 /\ t[1] = "<" THEN t[2] ELSE "") = a
  BY <1>1, <1>3
<1>5. a = "int>" => Content(decode, s) = DecodeInt(y, "/int>")
  BY <1>1, <1>2, <1>4 DEF Content
<1>6. a = "double>" => Content(decode, s) = DecodeDouble(y)
  BY <1>1, <1>2, <1>4 DEF Content
<1>7. a = "nil/>" => Content(decode, s) = DecodeNone(t)
  BY <1>1, <1>2, <1>4 DEF Content
<1>8. a = "boolean>" => Content(decode, s) = DecodeBool(t)
  BY <1>1, <1>2, <1>4 DEF Content
<1>9. a = "string>" => Content(decode, s) = Closed("/string>", ReadString(UpTo("/string>", y)))
  BY <1>1, <1>2, <1>4 DEF Content
<1>10. a = "base64>" => Content(decode, s) = Closed("/base64>", ReadBytes(UpTo("/base64>", y)))
  BY <1>1, <1>2, <1>4 DEF Content
<1>11. a = "dateTime.iso8601>" =>
         Content(decode, s) = Closed("/dateTime.iso8601>", ReadDate(UpTo("/dateTime.iso8601>", y)))
  BY <1>1, <1>2, <1>4 DEF Content
<1>12. a = "array>" =>
         Content(decode, s) = Closed("/array>", UNION {DecodeArray(decode, u) : u \in Skip(Tag(a), {t})})
  BY <1>1, <1>2, <1>4 DEF Content
<1>13. a = "struct>" =>
         Content(decode, s) = Closed("/struct>", UNION {DecodeStruct(decode, u) : u \in Skip(Tag(a), {t})})
  BY <1>1, <1>2, <1>4 DEF Content
<1> QED BY <1>5, <1>6, <1>7, <1>8, <1>9, <1>10, <1>11, <1>12, <1>13 DEF t, Calls

(* What is between two tags.                                               *)
Opening(a, d, b, y, v) ==
  LET z == Tag(b) \o y
      u == d \o z
  IN  /\ y \in Texts /\ z \in Texts /\ z # <<>> /\ z[1] = "<" /\ Len(z) \in Nat \ {0}
      /\ u \in Texts /\ Len(d) \in Nat /\ Len(u) = Len(d) + Len(z)
      /\ SubSeq(u, 1, Len(d)) = d /\ Drop(u, Len(d)) = z
      /\ Leads(Tag(a) \o u, Tag(a) \o u)
      /\ Closed(b, {Result(v, z)}) = {Result(v, y)}

(* The first tag, a text and the last tag are where they are looked for.   *)
LEMMA Opened ==
  ASSUME NEW a \in Chars, NEW d \in Texts, NEW b \in Chars, NEW y, Solid(y), NEW v
  PROVE  Opening(a, d, b, y, v)
<1> DEFINE z == Tag(b) \o y
           u == d \o z
<1>1. y \in Texts
  BY DEF Solid
<1>2. z \in Texts /\ z # <<>> /\ z[1] = "<" /\ Len(z) = Len(y) + 2 /\ Len(y) \in Nat
  BY <1>1, TagFirst DEF Solid
<1>3. Closed(b, {Result(v, z)}) = {Result(v, y)}
  <2>1. Leads(y, y)
    BY Leading
  <2> QED BY <2>1, ClosedTag
<1> HIDE DEF z
<1>4. /\ u \in Texts /\ Len(d) \in Nat /\ Len(u) = Len(d) + Len(z)
      /\ SubSeq(u, 1, Len(d)) = d /\ Drop(u, Len(d)) = z
  BY <1>2, Concat
<1> HIDE DEF u
<1>5. Leads(Tag(a) \o u, Tag(a) \o u)
  BY <1>4, TagFirst, Leading
<1>6. Len(z) \in Nat \ {0}
  BY <1>2
<1> QED BY <1>1, <1>2, <1>3, <1>4, <1>5, <1>6 DEF z, u, Opening

(* A value is read from its text if it is from behind the first tag.       *)
LEMMA ReadsTagged ==
  ASSUME NEW decode, NEW a \in Chars, NEW d \in Texts, NEW b \in Chars, NEW v,
         \A y : Solid(y) => Content(decode, Tag(a) \o (d \o (Tag(b) \o y))) = {Result(v, y)}
  PROVE  Reads(decode, Tagged(a, d, b), v)
<1> DEFINE c == Tagged(a, d, b)
<1>1. c \in Texts
  <2>1. <<>> \in Texts
    BY Nothing
  <2> QED BY <2>1, TaggedFirst
<1>2. ASSUME NEW y, Solid(y)
      PROVE  c \o y \in Texts /\ Solid(Chomp[c \o y]) /\ Content(decode, c \o y) = {Result(v, y)}
  <2> DEFINE s == Tag(a) \o (d \o (Tag(b) \o y))
  <2>1. y \in Texts
    BY <1>2 DEF Solid
  <2>2. Same(c \o y, s) /\ d \o (Tag(b) \o y) \in Texts
    BY <2>1, TaggedFirst
  <2>3. c \o y = s
    BY <2>2 DEF Same
  <2>4. Solid(s)
    BY <2>2, TagFirst
  <2>5. Content(decode, s) = {Result(v, y)}
    BY <1>2
  <2> HIDE DEF s, c
  <2>6. s \in Texts /\ Chomp[s] = s
    BY <2>4 DEF Solid
  <2> QED BY <2>3, <2>4, <2>5, <2>6
<1> HIDE DEF c
<1>3. Reads(decode, c, v)
  BY <1>1, <1>2 DEF Reads
<1> QED BY <1>3 DEF c

(* decodeInt reads back what encodeInt has written.                        *)
LEMMA IntReads ==
  ASSUME NEW decode, NEW n \in Int
  PROVE  Reads(decode, EncodeInt(Number(n)), Number(n))
<1> DEFINE a == "int>"
           b == "/int>"
           d == Decimal(n)
           v == Number(n)
<1>1. a \in Chars /\ b \in Chars
  BY StringsAssumption DEF Tags, EndTags, Chars
<1>2. EncodeInt(v) = Tagged(a, d, b)
  BY DEF EncodeInt, Number, Value
<1>3. d \in Texts
  <2>1. Tag(b) \in Texts /\ Tag(b) # <<>> /\ Tag(b)[1] = "<"
    BY <1>1, Pair, StringsAssumption DEF Tag, Texts, Marks, Chars
  <2>2. "<" \notin DOMAIN Numeral
    BY NumeralDomain DEF NumeralSet
  <2> HIDE DEF b
  <2> QED BY <2>1, <2>2, DecimalRead
<1>4. ASSUME NEW y, Solid(y)
      PROVE  Content(decode, Tag(a) \o (d \o (Tag(b) \o y))) = {Result(v, y)}
  <2> DEFINE z == Tag(b) \o y
             u == d \o z
  <2>1. /\ z \in Texts /\ z # <<>> /\ z[1] = "<" /\ Len(z) \in Nat \ {0}
        /\ u \in Texts /\ Len(d) \in Nat /\ Len(u) = Len(d) + Len(z) /\ Drop(u, Len(d)) = z
        /\ Leads(Tag(a) \o u, Tag(a) \o u) /\ Closed(b, {Result(v, z)}) = {Result(v, y)}
    <3> HIDE DEF a, b, v, d
    <3>1. Opening(a, d, b, y, v)
      BY <1>1, <1>3, <1>4, Opened
    <3> QED BY <3>1 DEF Opening
  <2>2. "<" \notin DOMAIN Numeral
    BY NumeralDomain DEF NumeralSet
  <2> HIDE DEF z
  <2>3. NumberEnd(u) = Len(d) /\ NumberAt(u) = {n}
    BY <2>1, <2>2, DecimalRead
  <2> HIDE DEF u
  <2>4. Content(decode, Tag(a) \o u) = DecodeInt(u, b)
    <3> HIDE DEF a
    <3>1. Calls(decode, a, u, Tag(a) \o u)
      BY <1>1, <2>1, ContentOf
    <3> QED BY <3>1 DEF Calls, a
  <2>5. NumberEnd(u) # Len(u)
    BY <2>1, <2>3
  <2>6. {Result(Number(k), Drop(u, NumberEnd(u))) : k \in NumberAt(u)} = {Result(v, z)}
    BY <2>1, <2>3
  <2> HIDE DEF v, d, a, b
  <2>7. DecodeInt(u, b) = Closed(b, {Result(v, z)})
    BY <2>5, <2>6, Zenon DEF DecodeInt
  <2> QED BY <2>1, <2>4, <2>7 DEF u, z
<1> HIDE DEF a, b, d, v
<1>5. Reads(decode, Tagged(a, d, b), v)
  BY <1>1, <1>3, <1>4, ReadsTagged
<1> QED BY <1>2, <1>5 DEF v

(* decodeNone reads back what encodeNone has written.                      *)
LEMMA NilReads == ASSUME NEW decode PROVE Reads(decode, EncodeNone, None)
<1> DEFINE a == "nil/>"
           c == Tag(a)
<1>1. a \in Chars
  BY StringsAssumption DEF Tags, Chars
<1>2. EncodeNone = c
  BY DEF EncodeNone
<1>3. ASSUME NEW y, Solid(y)
      PROVE  c \o y \in Texts /\ Solid(Chomp[c \o y]) /\ Content(decode, c \o y) = {Result(None, y)}
  <2> DEFINE s == c \o y
  <2>0. y \in Texts /\ Chomp[y] = y /\ y # <<>> /\ y # Outside
    BY <1>3 DEF Solid
  <2>1. Solid(s) /\ Drop(s, 2) = y
    <3> HIDE DEF a
    <3> QED BY <1>1, <2>0, TagFirst
  <2>2. Leads(s, s)
    <3> HIDE DEF s
    <3> QED BY <2>1, Leading
  <2>3. Content(decode, s) = DecodeNone(s)
    <3> HIDE DEF a
    <3>1. Calls(decode, a, y, s)
      BY <1>1, <2>0, <2>2, ContentOf
    <3> QED BY <3>1 DEF Calls, a
  <2> HIDE DEF s
  <2>4. DecodeNone(s) = {Result(None, y)}
    BY <2>0, <2>1 DEF DecodeNone, Followed, AtEnd
  <2>5. s \in Texts /\ Chomp[s] = s
    BY <2>1 DEF Solid
  <2> QED BY <2>1, <2>3, <2>4, <2>5 DEF s
<1>4. c \in Texts
  BY <1>1, Pair, StringsAssumption DEF Tag, Texts, Marks, Chars
<1> HIDE DEF c
<1>5. Reads(decode, c, None)
  BY <1>3, <1>4 DEF Reads
<1> QED BY <1>2, <1>5

(* decodeDouble reads back what encodeDouble has written.                  *)
LEMMA DoubleReads ==
  ASSUME NEW decode, NEW n \in Int, Fits(n)
  PROVE  Reads(decode, EncodeDouble(Double(n)), Double(n))
<1> DEFINE a == "double>"
           b == "/double>"
           d == DoubleText(n)
           v == Double(n)
<1>1. a \in Chars /\ b \in Chars
  BY StringsAssumption DEF Tags, EndTags, Chars
<1>2. EncodeDouble(v) = Tagged(a, d, b)
  BY DEF EncodeDouble, Double, Value
<1>3. "<" \notin DOMAIN Numeral \cup {"."}
  BY NumeralDomain DEF NumeralSet
<1>4. d \in Texts
  <2>1. Tag(b) \in Texts /\ Tag(b) # <<>> /\ Tag(b)[1] = "<"
    BY <1>1, Pair, StringsAssumption DEF Tag, Texts, Marks, Chars
  <2> HIDE DEF b
  <2> QED BY <1>3, <2>1, DoubleRead
<1>5. ASSUME NEW y, Solid(y)
      PROVE  Content(decode, Tag(a) \o (d \o (Tag(b) \o y))) = {Result(v, y)}
  <2> DEFINE z == Tag(b) \o y
             u == d \o z
  <2>1. /\ z \in Texts /\ z # <<>> /\ z[1] = "<"
        /\ u \in Texts /\ Len(d) \in Nat /\ SubSeq(u, 1, Len(d)) = d /\ Drop(u, Len(d)) = z
        /\ Leads(Tag(a) \o u, Tag(a) \o u) /\ Closed(b, {Result(v, z)}) = {Result(v, y)}
    <3> HIDE DEF a, b, v, d
    <3>1. Opening(a, d, b, y, v)
      BY <1>1, <1>4, <1>5, Opened
    <3> QED BY <3>1 DEF Opening
  <2> HIDE DEF z
  <2>2. /\ d # <<>> /\ DoubleEnd(u) = Len(d) /\ DoubleOf(d) = n
        /\ \A i, j \in 1..Len(d) : d[i] = "." /\ d[j] = "." => i = j
    BY <1>3, <2>1, DoubleRead
  <2> HIDE DEF u
  <2>3. Content(decode, Tag(a) \o u) = DecodeDouble(u)
    <3> HIDE DEF a
    <3>1. Calls(decode, a, u, Tag(a) \o u)
      BY <1>1, <2>1, ContentOf
    <3> QED BY <3>1 DEF Calls, a
  <2> HIDE DEF d, v
  <2>4. SubSeq(u, 1, DoubleEnd(u)) = d /\ Drop(u, DoubleEnd(u)) = z
    BY <2>1, <2>2
  <2>5. ~(\E i, j \in {k \in 1..Len(d) : d[k] = "."} : i # j)
    BY <2>2
  <2>6. Result(Double(DoubleOf(d)), Drop(u, DoubleEnd(u))) = Result(v, z)
    BY <2>2, <2>4 DEF v
  <2>7. DecodeDouble(u) = Closed(b, {Result(v, z)})
    BY <2>2, <2>4, <2>5, <2>6, Zenon DEF DecodeDouble
  <2> QED BY <2>1, <2>3, <2>7 DEF u, z
<1> HIDE DEF a, b, d, v
<1>6. Reads(decode, Tagged(a, d, b), v)
  BY <1>1, <1>4, <1>5, ReadsTagged
<1> QED BY <1>2, <1>6 DEF v

(* decodeString reads back what encodeString has written.                  *)
LEMMA StringReads ==
  ASSUME NEW decode, NEW t \in Texts
  PROVE  Reads(decode, EncodeString(Str(t)), Str(t))
<1> DEFINE a == "string>"
           b == "/string>"
           d == Escape[t]
           v == Str(t)
<1>1. a \in Chars /\ b \in Chars /\ b \in Chars \ {"<"}
  BY StringsAssumption DEF Tags, EndTags, Chars
<1>2. EncodeString(v) = Tagged(a, d, b)
  BY DEF EncodeString, Str, Value
<1>3. d \in Texts /\ Unescape[d] = {t} /\ Found(Tag(b), d) = {}
  BY EscapedRead, PlainText, PlainFound
<1>4. ASSUME NEW y, Solid(y)
      PROVE  Content(decode, Tag(a) \o (d \o (Tag(b) \o y))) = {Result(v, y)}
  <2> DEFINE z == Tag(b) \o y
             u == d \o z
  <2>1. /\ y \in Texts /\ u \in Texts
        /\ Leads(Tag(a) \o u, Tag(a) \o u) /\ Closed(b, {Result(v, z)}) = {Result(v, y)}
    <3> HIDE DEF a, b, v, d
    <3>1. Opening(a, d, b, y, v)
      BY <1>1, <1>3, <1>4, Opened
    <3> QED BY <3>1 DEF Opening
  <2>2. UpTo(b, u) = {Result(d, z)}
    <3> HIDE DEF b, d
    <3> QED BY <1>1, <1>3, <2>1, UpToTag
  <2> HIDE DEF z, u
  <2>3. Content(decode, Tag(a) \o u) = Closed(b, ReadString(UpTo(b, u)))
    <3> HIDE DEF a
    <3>1. Calls(decode, a, u, Tag(a) \o u)
      BY <1>1, <2>1, ContentOf
    <3> QED BY <3>1 DEF Calls, a
  <2> HIDE DEF d
  <2>4. ReadString({Result(d, z)}) = {Result(v, z)}
    <3>1. \A r \in {Result(d, z)} : r.val = d /\ r.rest = z
      BY DEF Result
    <3>2. \A r \in {Result(d, z)} : {Result(Str(s), r.rest) : s \in Unescape[r.val]} = {Result(v, z)}
      <4> SUFFICES ASSUME NEW r \in {Result(d, z)}
                   PROVE  {Result(Str(s), r.rest) : s \in Unescape[r.val]} = {Result(v, z)}
        OBVIOUS
      <4>1. r.rest = z /\ Unescape[r.val] = {t}
        BY <1>3, <3>1
      <4> QED BY <4>1
    <3>3. ReadString({Result(d, z)}) = UNION {{Result(v, z)} : r \in {Result(d, z)}}
      BY <3>2 DEF ReadString
    <3> QED BY <3>3
  <2> QED BY <2>1, <2>2, <2>3, <2>4 DEF u, z
<1> HIDE DEF a, b, d, v
<1>5. Reads(decode, Tagged(a, d, b), v)
  BY <1>1, <1>3, <1>4, ReadsTagged
<1> QED BY <1>2, <1>5 DEF v

(* decodeBase64 reads back what encodeBase64 has written.                  *)
LEMMA BytesReads ==
  ASSUME NEW decode, NEW t \in Seq(Byte)
  PROVE  Reads(decode, EncodeBase64(Bytes(t)), Bytes(t))
<1> DEFINE a == "base64>"
           b == "/base64>"
           d == BytesText(t)
           v == Bytes(t)
<1>1. a \in Chars /\ b \in Chars /\ b \in Chars \ {"<"}
  BY StringsAssumption DEF Tags, EndTags, Chars
<1>2. EncodeBase64(v) = Tagged(a, d, b)
  BY DEF EncodeBase64, Bytes, Value
<1>3. d \in Texts /\ BytesOf(d) = {t} /\ Found(Tag(b), d) = {}
  BY BytesRead, PlainText, PlainFound
<1>4. ASSUME NEW y, Solid(y)
      PROVE  Content(decode, Tag(a) \o (d \o (Tag(b) \o y))) = {Result(v, y)}
  <2> DEFINE z == Tag(b) \o y
             u == d \o z
  <2>1. /\ y \in Texts /\ u \in Texts
        /\ Leads(Tag(a) \o u, Tag(a) \o u) /\ Closed(b, {Result(v, z)}) = {Result(v, y)}
    <3> HIDE DEF a, b, v, d
    <3>1. Opening(a, d, b, y, v)
      BY <1>1, <1>3, <1>4, Opened
    <3> QED BY <3>1 DEF Opening
  <2>2. UpTo(b, u) = {Result(d, z)}
    <3> HIDE DEF b, d
    <3> QED BY <1>1, <1>3, <2>1, UpToTag
  <2> HIDE DEF z, u
  <2>3. Content(decode, Tag(a) \o u) = Closed(b, ReadBytes(UpTo(b, u)))
    <3> HIDE DEF a
    <3>1. Calls(decode, a, u, Tag(a) \o u)
      BY <1>1, <2>1, ContentOf
    <3> QED BY <3>1 DEF Calls, a
  <2> HIDE DEF d
  <2>4. ReadBytes({Result(d, z)}) = {Result(v, z)}
    <3>1. \A r \in {Result(d, z)} : r.val = d /\ r.rest = z
      BY DEF Result
    <3>2. \A r \in {Result(d, z)} : {Result(Bytes(s), r.rest) : s \in BytesOf(r.val)} = {Result(v, z)}
      <4> SUFFICES ASSUME NEW r \in {Result(d, z)}
                   PROVE  {Result(Bytes(s), r.rest) : s \in BytesOf(r.val)} = {Result(v, z)}
        OBVIOUS
      <4>1. r.rest = z /\ BytesOf(r.val) = {t}
        BY <1>3, <3>1
      <4> QED BY <4>1
    <3>3. ReadBytes({Result(d, z)}) = UNION {{Result(v, z)} : r \in {Result(d, z)}}
      BY <3>2 DEF ReadBytes
    <3> QED BY <3>3
  <2> QED BY <2>1, <2>2, <2>3, <2>4 DEF u, z
<1> HIDE DEF a, b, d, v
<1>5. Reads(decode, Tagged(a, d, b), v)
  BY <1>1, <1>3, <1>4, ReadsTagged
<1> QED BY <1>2, <1>5 DEF v

(* decodeDate reads back what encodeDate has written.                      *)
LEMMA DateReads ==
  ASSUME NEW decode, NEW f, IsDate(f)
  PROVE  Reads(decode, EncodeDate(Date(f)), Date(f))
<1> DEFINE a == "dateTime.iso8601>"
           b == "/dateTime.iso8601>"
           d == DateText(f)
           v == Date(f)
<1>1. a \in Chars /\ b \in Chars /\ b \in Chars \ {"<"}
  BY StringsAssumption DEF Tags, EndTags, Chars
<1>2. EncodeDate(v) = Tagged(a, d, b)
  BY DEF EncodeDate, Date, Value
<1>3. d \in Texts /\ Found(Tag(b), d) = {}
  BY DateRead, PlainText, PlainFound
<1>4. ASSUME NEW y, Solid(y)
      PROVE  Content(decode, Tag(a) \o (d \o (Tag(b) \o y))) = {Result(v, y)}
  <2> DEFINE z == Tag(b) \o y
             u == d \o z
  <2>1. /\ y \in Texts /\ u \in Texts
        /\ Leads(Tag(a) \o u, Tag(a) \o u) /\ Closed(b, {Result(v, z)}) = {Result(v, y)}
    <3> HIDE DEF a, b, v, d
    <3>1. Opening(a, d, b, y, v)
      BY <1>1, <1>3, <1>4, Opened
    <3> QED BY <3>1 DEF Opening
  <2>2. UpTo(b, u) = {Result(d, z)}
    <3> HIDE DEF b, d
    <3> QED BY <1>1, <1>3, <2>1, UpToTag
  <2> HIDE DEF z, u
  <2>3. Content(decode, Tag(a) \o u) = Closed(b, ReadDate(UpTo(b, u)))
    <3> HIDE DEF a
    <3>1. Calls(decode, a, u, Tag(a) \o u)
      BY <1>1, <2>1, ContentOf
    <3> QED BY <3>1 DEF Calls, a
  <2>4. ReadDate({Result(d, z)}) = {Result(v, z)}
    BY DateRead
  <2> QED BY <2>1, <2>2, <2>3, <2>4 DEF u, z
<1> HIDE DEF a, b, d, v
<1>5. Reads(decode, Tagged(a, d, b), v)
  BY <1>1, <1>3, <1>4, ReadsTagged
<1> QED BY <1>2, <1>5 DEF v

(* decodeBool reads back what encodeBool has written.                      *)
LEMMA BoolReads ==
  ASSUME NEW decode, NEW n \in {0, 1}
  PROVE  Reads(decode, EncodeBool(Bool(n)), Bool(n))
<1> DEFINE a == "boolean>"
           b == "/boolean>"
           k == Numerals[n + 1]
           d == <<k>>
           v == Bool(n)
<1>1. a \in Chars /\ b \in Chars
  BY StringsAssumption DEF Tags, EndTags, Chars
<1>2. EncodeBool(v) = Tagged(a, d, b)
  <2>1. n \in Nat /\ n < 10
    OBVIOUS
  <2>2. Digits[n] = d
    BY <2>1, DigitsDefined
  <2> QED BY <2>2 DEF EncodeBool, Bool, Value
<1>3. d \in Texts /\ Len(d) = 1 /\ d[1] = k /\ (k = "0" <=> n = 0)
  <2>1. n \in 0..9
    OBVIOUS
  <2>2. k \in DOMAIN Numeral
    BY <2>1, NumeralOf
  <2>3. k \in STRING
    BY <2>2, StringsAssumption, NumeralDomain DEF NumeralSet, Alphabet, ToSet
  <2>4. k = "0" <=> n = 0
    BY DEF Numerals
  <2>5. d[1] = k
    OBVIOUS
  <2> HIDE DEF k
  <2> QED BY <2>3, <2>4, <2>5, One DEF Texts
<1>4. ASSUME NEW y, Solid(y)
      PROVE  Content(decode, Tag(a) \o (d \o (Tag(b) \o y))) = {Result(v, y)}
  <2> DEFINE z == Tag(b) \o y
             u == d \o z
             s == Tag(a) \o u
             c == Tagged(a, d, b)
             false == Tag(a) \o <<"0">> \o Tag(b)
  <2>1. y \in Texts /\ u \in Texts /\ Leads(s, s)
    <3> HIDE DEF a, b, v, d
    <3>1. Opening(a, d, b, y, v)
      BY <1>1, <1>3, <1>4, Opened
    <3> QED BY <3>1 DEF Opening
  <2>2. Content(decode, s) = DecodeBool(s)
    <3> HIDE DEF a, u
    <3>1. Calls(decode, a, u, s)
      BY <1>1, <2>1, ContentOf
    <3> QED BY <3>1 DEF Calls, a
  <2>3. c \in Texts /\ Len(c) = 5 /\ Same(c \o y, s)
    <3> HIDE DEF a, b, d
    <3>1. c \in Texts /\ Len(c) = Len(d) + 4 /\ Same(c \o y, s)
      BY <1>1, <1>3, <2>1, TaggedFirst
    <3> QED BY <1>3, <3>1
  <2>4. s = c \o y
    BY <2>3 DEF Same
  <2>5. Drop(s, 5) = y /\ SubSeq(s, 1, 5) = c /\ Len(s) >= 5
    <3> HIDE DEF c, s
    <3>1. /\ SubSeq(c \o y, 1, Len(c)) = c /\ Drop(c \o y, Len(c)) = y
          /\ Len(c \o y) = Len(c) + Len(y) /\ Len(y) \in Nat
      BY <2>1, <2>3, Concat
    <3> QED BY <2>3, <2>4, <3>1
  <2>6. false \in Texts /\ Len(false) = 5 /\ SubSeq(false, 1, 5) = false
    <3> DEFINE q == <<"0">>
    <3>1. q \in Texts /\ Len(q) = 1
      <4>1. "0" \in STRING
        BY StringsAssumption DEF Alphabet, ToSet
      <4> QED BY <4>1, One DEF Texts
    <3> HIDE DEF a, b, q
    <3>2. false = Tagged(a, q, b)
      BY DEF Tagged, q
    <3>3. Tagged(a, q, b) \in Texts /\ Len(Tagged(a, q, b)) = Len(q) + 4
      BY <1>1, <2>1, <3>1, TaggedFirst
    <3> HIDE DEF false
    <3>4. false \in Texts /\ Len(false) = 5
      BY <3>1, <3>2, <3>3
    <3> QED BY <3>4, SubSeqFull DEF Texts
  <2>7. IsPrefix(false, s) <=> false = c
    <3> HIDE DEF false, c, s
    <3> QED BY <2>5, <2>6 DEF IsPrefix
  <2>8. false = c <=> n = 0
    <3>1. ASSUME n = 0 PROVE false = c
      BY <1>3, <3>1 DEF Tagged
    <3>2. ASSUME false = c PROVE n = 0
      <4> DEFINE g(p) == (Tag(a) \o p) \o Tag(b)
      <4>1. \A p \in Texts : Len(p) = 1 => g(p)[3] = p[1]
        <5> SUFFICES ASSUME NEW p \in Texts, Len(p) = 1 PROVE g(p)[3] = p[1]
          OBVIOUS
        <5> DEFINE h == Tag(a) \o p
                   e == Tag(b)
        <5>1. Tag(a) \in Texts /\ Len(Tag(a)) = 2 /\ e \in Texts
          <6> HIDE DEF a, b
          <6> QED BY <1>1, <2>1, TagFirst
        <5>2. h \in Texts /\ Len(h) = 3 /\ h[3] = p[1]
          <6> DEFINE l == Tag(a)
          <6>0. l \in Texts /\ Len(l) = 2
            BY <5>1
          <6> HIDE DEF l
          <6>1. /\ l \o p \in Texts /\ Len(l \o p) = Len(l) + Len(p)
                /\ \A i \in 1..Len(p) : (l \o p)[Len(l) + i] = p[i]
            BY <6>0, Concat
          <6>2. Len(l) = 2 /\ 1 \in 1..Len(p) /\ 2 + 1 = 3
            BY <6>0
          <6> QED BY <6>1, <6>2 DEF l
        <5> HIDE DEF h, e
        <5>3. \A i \in 1..Len(h) : (h \o e)[i] = h[i]
          BY <5>1, <5>2, Concat
        <5>4. (h \o e)[3] = h[3]
          BY <5>2, <5>3
        <5> QED BY <5>2, <5>4 DEF h, e
      <4>2. g(<<"0">>)[3] = "0"
        <5>1. "0" \in STRING
          BY StringsAssumption DEF Alphabet, ToSet
        <5>2. <<"0">> \in Texts /\ Len(<<"0">>) = 1 /\ <<"0">>[1] = "0"
          BY <5>1, One DEF Texts
        <5> HIDE DEF g
        <5> QED BY <4>1, <5>2
      <4>3. g(d)[3] = k
        <5> HIDE DEF g, d
        <5> QED BY <1>3, <4>1
      <4>4. g(<<"0">>) = g(d)
        BY <3>2 DEF Tagged
      <4> HIDE DEF g, d, k
      <4> QED BY <1>3, <4>2, <4>3, <4>4
    <3> QED BY <3>1, <3>2
  <2>9. DecodeBool(s) = {Result(v, y)}
    <3>1. Chomp[y] = y /\ ~AtEnd(y)
      BY <1>4 DEF Solid, AtEnd
    <3> HIDE DEF s, c, false
    <3>2. DecodeBool(s) = Followed(Bool(IF IsPrefix(false, s) THEN 0 ELSE 1), Drop(s, Len(false)))
      BY DEF DecodeBool, false
    <3>3. (IF IsPrefix(false, s) THEN 0 ELSE 1) = n
      BY <2>7, <2>8
    <3>4. DecodeBool(s) = Followed(v, y)
      BY <2>5, <2>6, <3>2, <3>3
    <3> QED BY <3>1, <3>4 DEF Followed
  <2> QED BY <2>2, <2>9
<1> HIDE DEF a, b, d, v
<1>5. Reads(decode, Tagged(a, d, b), v)
  BY <1>1, <1>3, <1>4, ReadsTagged
<1> QED BY <1>2, <1>5 DEF v

(* Those whose text keeps what they are: dates that it has room for, and   *)
(* doubles that are not cut off.                                           *)
KeptScalars ==
  {v \in Scalars : /\ v.type = "date" => IsDate(v.nums)
                   /\ v.type = "double" => Fits(v.nums[1])}

-----------------------------------------------------------------------------
(* Values that are in others.                                              *)

(* The text of a value, and what is read from it whatever follows.  As     *)
(* many calls as the text has tokens are deep enough.                      *)
Decoded(t, v) ==
  /\ t \in Texts
  /\ \A x \in Texts :
       /\ Solid(t \o x) /\ IsPrefix(Tag("value>"), t \o x)
       /\ \A n \in Nat : n >= Len(t) => Decoders[n].value[t \o x] = {Result(v, Chomp[x])}

IsTextOf(c, v) == c \in Texts /\ \A n \in Nat : n >= Len(c) => Reads(Decoders[n], c, v)

(* A value is read from its text if it is from what is between its tags.   *)
LEMMA DecodedBy ==
  ASSUME NEW c, NEW v, IsTextOf(c, v)
  PROVE  Decoded(Tagged("value>", c, "/value>"), v)
<1> DEFINE a == "value>"
           b == "/value>"
           t == Tagged(a, c, b)
<1>1. a \in Chars /\ b \in Chars
  BY StringsAssumption DEF Tags, EndTags, Chars
<1>2. <<>> \in Texts /\ c \in Texts
  BY Nothing DEF IsTextOf
<1>3. t \in Texts /\ Len(t) = Len(c) + 4 /\ Len(c) \in Nat
  <2> HIDE DEF a, b
  <2> QED BY <1>1, <1>2, TaggedFirst
<1>4. ASSUME NEW x \in Texts
      PROVE  /\ Solid(t \o x) /\ IsPrefix(Tag(a), t \o x)
             /\ \A n \in Nat : n >= Len(t) => Decoders[n].value[t \o x] = {Result(v, Chomp[x])}
  <2> DEFINE u == c \o (Tag(b) \o x)
  <2>1. u \in Texts /\ Same(t \o x, Tag(a) \o u)
    <3> HIDE DEF a, b
    <3> QED BY <1>1, <1>2, TaggedFirst
  <2>2. t \o x = Tag(a) \o u
    BY <2>1 DEF Same
  <2>3. Solid(Tag(a) \o u) /\ IsPrefix(Tag(a), Tag(a) \o u)
    <3> HIDE DEF a, u
    <3> QED BY <1>1, <2>1, TagFirst
  <2>4. ASSUME NEW n \in Nat, n >= Len(t)
        PROVE  Decoders[n].value[t \o x] = {Result(v, Chomp[x])}
    <3>1. n - 1 \in Nat /\ n - 1 >= Len(c) /\ n # 0
      BY <1>3, <2>4
    <3>2. Reads(Decoders[n - 1], c, v)
      BY <3>1 DEF IsTextOf
    <3>3. DecodeValue(Decoders[n - 1], t \o x) = {Result(v, Chomp[x])}
      BY <3>2, ValueOf
    <3>4. t \o x \in Texts
      <4> HIDE DEF t
      <4> QED BY <1>3, Concat
    <3> HIDE DEF t
    <3> QED BY <3>1, <3>3, <3>4, DecoderOf
  <2> HIDE DEF u, t
  <2> QED BY <2>2, <2>3, <2>4
<1> HIDE DEF t
<1>5. Decoded(t, v)
  BY <1>3, <1>4 DEF Decoded
<1> QED BY <1>5 DEF t

(* What is read whatever the decoder is, is read by those that are deep    *)
(* enough.                                                                 *)
LEMMA TextOf ==
  ASSUME NEW c, NEW v, \A decode : Reads(decode, c, v)
  PROVE  IsTextOf(c, v)
  BY DEF IsTextOf, Reads

(* A value that has no others in it is read from its text.                 *)
LEMMA ScalarRead ==
  ASSUME NEW encode, NEW v \in KeptScalars
  PROVE  Decoded(EncodeValue(encode, v), v)
<1>0. v \in Scalars /\ (v.type = "date" => IsDate(v.nums)) /\ (v.type = "double" => Fits(v.nums[1]))
  BY DEF KeptScalars
<1>1. CASE v \in Scalar("nil", {<<>>}, {<<>>})
  <2>1. v = None /\ v.type = "nil"
    BY <1>1 DEF Scalar, Value, None
  <2>2. \A decode : Reads(decode, EncodeNone, v)
    BY <2>1, NilReads
  <2>3. EncodeValue(encode, v) = Tagged("value>", EncodeNone, "/value>")
    BY <2>1 DEF EncodeValue
  <2> DEFINE c == EncodeNone
  <2>5. IsTextOf(c, v)
    BY <2>2, TextOf
  <2> HIDE DEF c
  <2> QED BY <2>3, <2>5, DecodedBy DEF c
<1>2. CASE v \in Scalar("boolean", [1..1 -> {0, 1}], {<<>>})
  <2>1. v.type = "boolean" /\ v.nums[1] \in {0, 1} /\ v.nums = <<v.nums[1]>>
    BY <1>2 DEF Scalar
  <2>2. v = Bool(v.nums[1])
    <3>1. v = Value("boolean", v.nums, <<>>, <<>>, {})
      BY <1>2 DEF Scalar, Value
    <3> QED BY <2>1, <3>1, Zenon DEF Bool
  <2>3. \A decode : Reads(decode, EncodeBool(v), v)
    BY <2>1, <2>2, BoolReads
  <2>4. EncodeValue(encode, v) = Tagged("value>", EncodeBool(v), "/value>")
    BY <2>1 DEF EncodeValue
  <2> DEFINE c == EncodeBool(v)
  <2>5. IsTextOf(c, v)
    BY <2>3, TextOf
  <2> HIDE DEF c
  <2> QED BY <2>4, <2>5, DecodedBy DEF c
<1>3. CASE v \in Scalar("int", [1..1 -> Int], {<<>>})
  <2>1. v.type = "int" /\ v.nums[1] \in Int /\ v.nums = <<v.nums[1]>>
    BY <1>3 DEF Scalar
  <2>2. v = Number(v.nums[1])
    <3>1. v = Value("int", v.nums, <<>>, <<>>, {})
      BY <1>3 DEF Scalar, Value
    <3> QED BY <2>1, <3>1, Zenon DEF Number
  <2>3. \A decode : Reads(decode, EncodeInt(v), v)
    BY <2>1, <2>2, IntReads
  <2>4. EncodeValue(encode, v) = Tagged("value>", EncodeInt(v), "/value>")
    BY <2>1 DEF EncodeValue
  <2> DEFINE c == EncodeInt(v)
  <2>5. IsTextOf(c, v)
    BY <2>3, TextOf
  <2> HIDE DEF c
  <2> QED BY <2>4, <2>5, DecodedBy DEF c
<1>4. CASE v \in Scalar("double", [1..1 -> Int], {<<>>})
  <2>1. v.type = "double" /\ v.nums[1] \in Int /\ v.nums = <<v.nums[1]>>
    BY <1>4 DEF Scalar
  <2>2. v = Double(v.nums[1])
    <3>1. v = Value("double", v.nums, <<>>, <<>>, {})
      BY <1>4 DEF Scalar, Value
    <3> QED BY <2>1, <3>1, Zenon DEF Double
  <2>3. \A decode : Reads(decode, EncodeDouble(v), v)
    BY <1>0, <2>1, <2>2, DoubleReads
  <2>4. EncodeValue(encode, v) = Tagged("value>", EncodeDouble(v), "/value>")
    BY <2>1 DEF EncodeValue
  <2> DEFINE c == EncodeDouble(v)
  <2>5. IsTextOf(c, v)
    BY <2>3, TextOf
  <2> HIDE DEF c
  <2> QED BY <2>4, <2>5, DecodedBy DEF c
<1>5. CASE v \in Scalar("date", [1..6 -> Nat], {<<>>})
  <2>1. v.type = "date"
    BY <1>5 DEF Scalar
  <2>2. v = Date(v.nums)
    <3>1. v = Value("date", v.nums, <<>>, <<>>, {})
      BY <1>5 DEF Scalar, Value
    <3> QED BY <2>1, <3>1, Zenon DEF Date
  <2>3. \A decode : Reads(decode, EncodeDate(v), v)
    BY <1>0, <2>1, <2>2, DateReads
  <2>4. EncodeValue(encode, v) = Tagged("value>", EncodeDate(v), "/value>")
    BY <2>1 DEF EncodeValue
  <2> DEFINE c == EncodeDate(v)
  <2>5. IsTextOf(c, v)
    BY <2>3, TextOf
  <2> HIDE DEF c
  <2> QED BY <2>4, <2>5, DecodedBy DEF c
<1>6. CASE v \in Scalar("base64", Seq(0..255), {<<>>})
  <2>1. v.type = "base64" /\ v.nums \in Seq(Byte)
    BY <1>6 DEF Scalar, Byte
  <2>2. v = Bytes(v.nums)
    <3>1. v = Value("base64", v.nums, <<>>, <<>>, {})
      BY <1>6 DEF Scalar, Value
    <3> QED BY <2>1, <3>1, Zenon DEF Bytes
  <2>3. \A decode : Reads(decode, EncodeBase64(v), v)
    BY <2>1, <2>2, BytesReads
  <2>4. EncodeValue(encode, v) = Tagged("value>", EncodeBase64(v), "/value>")
    BY <2>1 DEF EncodeValue
  <2> DEFINE c == EncodeBase64(v)
  <2>5. IsTextOf(c, v)
    BY <2>3, TextOf
  <2> HIDE DEF c
  <2> QED BY <2>4, <2>5, DecodedBy DEF c
<1>7. CASE v \in Scalar("string", {<<>>}, Texts)
  <2>1. v.type = "string" /\ v.text \in Texts
    BY <1>7 DEF Scalar
  <2>2. v = Str(v.text)
    <3>1. v = Value("string", <<>>, v.text, <<>>, {})
      BY <1>7 DEF Scalar, Value
    <3> QED BY <2>1, <3>1, Zenon DEF Str
  <2>3. \A decode : Reads(decode, EncodeString(v), v)
    BY <2>1, <2>2, StringReads
  <2>4. EncodeValue(encode, v) = Tagged("value>", EncodeString(v), "/value>")
    BY <2>1 DEF EncodeValue
  <2> DEFINE c == EncodeString(v)
  <2>5. IsTextOf(c, v)
    BY <2>3, TextOf
  <2> HIDE DEF c
  <2> QED BY <2>4, <2>5, DecodedBy DEF c
<1> QED BY <1>0, <1>1, <1>2, <1>3, <1>4, <1>5, <1>6, <1>7 DEF Scalars

-----------------------------------------------------------------------------
(* Lines, and what they are put together to.                               *)

(* A tag on a line of its own, in front of a text.                         *)
LEMMA LinedTag ==
  ASSUME NEW a \in Chars, NEW z \in Texts
  PROVE  LET p == Line(Tag(a))
         IN  /\ p \in Texts /\ Len(p) = 3 /\ p \o z \in Texts
             /\ <<" ">> \o z \in Texts /\ Same(p \o z, Tag(a) \o (<<" ">> \o z))
             /\ Solid(p \o z) /\ \A b : IsPrefix(Tag(b), p \o z) <=> b = a
<1> DEFINE p == Line(Tag(a))
           u == <<" ">> \o z
<1>1. Tag(a) \in Texts /\ Len(Tag(a)) = 2
  BY TagFirst
<1>2. /\ p \in Texts /\ Len(p) = Len(Tag(a)) + 1
      /\ u \in Texts /\ Same(p \o z, Tag(a) \o u)
  BY <1>1, LineFirst
<1> HIDE DEF p, u
<1>3. p \o z = Tag(a) \o u
  BY <1>2 DEF Same
<1>4. Solid(Tag(a) \o u) /\ \A b : IsPrefix(Tag(b), Tag(a) \o u) <=> b = a
  BY <1>2, TagFirst
<1>5. Solid(p \o z) /\ \A b : IsPrefix(Tag(b), p \o z) <=> b = a
  BY <1>3, <1>4
<1>6. p \o z \in Texts
  BY <1>5 DEF Solid
<1>7. Len(p) = 3
  BY <1>1, <1>2
<1> QED BY <1>2, <1>5, <1>6, <1>7, Zenon DEF p, u

(* findTag with chomp skips a tag, its line end and nothing else.          *)
LEMMA LinedSkip ==
  ASSUME NEW a \in Chars, NEW z, Solid(z)
  PROVE  Skip(Tag(a), {Line(Tag(a)) \o z}) = {z}
<1> DEFINE u == <<" ">> \o z
<1>1. z \in Texts
  BY DEF Solid
<1>2. Same(Line(Tag(a)) \o z, Tag(a) \o u)
  BY <1>1, LinedTag
<1>3. Leads(u, z)
  BY Leading
<1> HIDE DEF u
<1>4. Skip(Tag(a), {Tag(a) \o u}) = {z}
  BY <1>3, SkipTag
<1> QED BY <1>2, <1>4 DEF Same

(* The same behind a value that has been read.                             *)
LEMMA LinedClosed ==
  ASSUME NEW a \in Chars, NEW z, Solid(z), NEW v
  PROVE  Closed(a, {Result(v, Line(Tag(a)) \o z)}) = {Result(v, z)}
<1> DEFINE u == <<" ">> \o z
<1>1. z \in Texts
  BY DEF Solid
<1>2. Same(Line(Tag(a)) \o z, Tag(a) \o u)
  BY <1>1, LinedTag
<1>3. Leads(u, z)
  BY Leading
<1> HIDE DEF u
<1>4. Closed(a, {Result(v, Tag(a) \o u)}) = {Result(v, z)}
  BY <1>3, ClosedTag
<1> QED BY <1>2, <1>4 DEF Same

IsLong(a, b, c, d) ==
  LET s == ((a \o b) \o c) \o d
  IN  s \in Texts /\ Len(s) = Len(a) + Len(b) + Len(c) + Len(d)

(* How long four texts are that are put together.                          *)
LEMMA FourLong ==
  ASSUME NEW a \in Texts, NEW b \in Texts, NEW c \in Texts, NEW d \in Texts
  PROVE  IsLong(a, b, c, d)
<1>1. /\ a \o b \in Texts /\ Len(a \o b) = Len(a) + Len(b)
      /\ Len(a) \in Nat /\ Len(b) \in Nat /\ Len(c) \in Nat /\ Len(d) \in Nat
  BY Concat
<1> DEFINE e == a \o b
<1>2. (e \o c) \in Texts /\ Len(e \o c) = Len(e) + Len(c)
  <2> HIDE DEF e
  <2> QED BY <1>1, Concat DEF e
<1> DEFINE f == e \o c
<1>3. (f \o d) \in Texts /\ Len(f \o d) = Len(f) + Len(d)
  <2> HIDE DEF f
  <2> QED BY <1>2, Concat DEF f
<1>4. Len(f \o d) = Len(a) + Len(b) + Len(c) + Len(d)
  <2> HIDE DEF e, f
  <2>1. Len(f) = Len(e) + Len(c) /\ Len(e) = Len(a) + Len(b)
    BY <1>1, <1>2 DEF e, f
  <2> QED BY <1>1, <1>3, <2>1
<1> QED BY <1>3, <1>4 DEF IsLong

(* Four texts that are put together, from the first on.                    *)
LEMMA Four ==
  ASSUME NEW a \in Texts, NEW b \in Texts, NEW c \in Texts, NEW d \in Texts, NEW y \in Texts
  PROVE  LET s == ((a \o b) \o c) \o d
         IN  /\ d \o y \in Texts /\ c \o (d \o y) \in Texts /\ b \o (c \o (d \o y)) \in Texts
             /\ Same(s \o y, a \o (b \o (c \o (d \o y))))
<1>1. a \o b \in Texts
  BY Concat
<1> DEFINE e == a \o b
<1>2. (e \o c) \in Texts
  <2> HIDE DEF e
  <2> QED BY <1>1, Concat DEF e
<1> DEFINE f == e \o c
<1> DEFINE u == d \o y
           w == c \o u
<1>4. u \in Texts
  BY Concat
<1>5. w \in Texts
  <2> HIDE DEF u
  <2> QED BY <1>4, Concat
<1>6. b \o w \in Texts
  <2> HIDE DEF w
  <2> QED BY <1>5, Concat
<1>7. IsAssociative(f, d, y)
  <2> HIDE DEF f
  <2> QED BY <1>2, Associative DEF f
<1>8. IsAssociative(e, c, u)
  <2> HIDE DEF e, u
  <2> QED BY <1>1, <1>4, Associative DEF e
<1>9. IsAssociative(a, b, w)
  <2> HIDE DEF w
  <2> QED BY <1>5, Associative
<1>10. Same((f \o d) \o y, a \o (b \o w))
  <2>1. (f \o d) \o y = f \o u
    BY <1>7 DEF IsAssociative
  <2>2. f \o u = e \o w
    BY <1>8 DEF IsAssociative
  <2>3. e \o w = a \o (b \o w)
    BY <1>9 DEF IsAssociative
  <2> HIDE DEF e, f, u, w
  <2> QED BY <2>1, <2>2, <2>3 DEF Same
<1> QED BY <1>4, <1>5, <1>6, <1>10

-----------------------------------------------------------------------------
(* The texts of several values, one behind the other.                      *)

Mapped(g, L) == [i \in 1..Len(L) |-> g[L[i]]]

(* One element more is one image more.                                     *)
LEMMA MappedCons ==
  ASSUME NEW S, NEW T, NEW g \in [S -> T], NEW L \in Seq(S), NEW e \in S
  PROVE  /\ Mapped(g, L) \in Seq(T) /\ g[e] \in T
         /\ Same(Mapped(g, <<e>> \o L), <<g[e]>> \o Mapped(g, L))
<1> DEFINE M == Mapped(g, L)
           N == Mapped(g, <<e>> \o L)
           K == <<g[e]>> \o M
<1>1. Len(L) \in Nat /\ \A i \in 1..Len(L) : L[i] \in S
  BY LenProperties, ElementOfSeq
<1>2. M \in Seq(T) /\ Len(M) = Len(L) /\ \A i \in 1..Len(L) : M[i] = g[L[i]]
  <2>1. \A i \in 1..Len(L) : g[L[i]] \in T
    BY <1>1
  <2> QED BY <1>1, <2>1, IsASeq DEF Mapped
<1>3. g[e] \in T /\ <<e>> \in Seq(S) /\ Len(<<e>>) = 1 /\ <<g[e]>> \in Seq(T) /\ Len(<<g[e]>>) = 1
  BY One
<1>4. /\ <<e>> \o L \in Seq(S) /\ Len(<<e>> \o L) = Len(L) + 1
      /\ \A i \in 1..(Len(L) + 1) : (<<e>> \o L)[i] = IF i <= 1 THEN <<e>>[i] ELSE L[i - 1]
  <2>1. /\ <<e>> \o L \in Seq(S) /\ Len(<<e>> \o L) = Len(<<e>>) + Len(L)
        /\ \A i \in 1..Len(<<e>>) + Len(L) :
             (<<e>> \o L)[i] = IF i <= Len(<<e>>) THEN <<e>>[i] ELSE L[i - Len(<<e>>)]
    BY <1>3, ConcatProperties
  <2>2. Len(<<e>>) + Len(L) = Len(L) + 1
    BY <1>1, <1>3
  <2> QED BY <1>3, <2>1, <2>2
<1>5. /\ K \in Seq(T) /\ Len(K) = Len(L) + 1
      /\ \A i \in 1..(Len(L) + 1) : K[i] = IF i <= 1 THEN <<g[e]>>[i] ELSE M[i - 1]
  <2> HIDE DEF M
  <2>1. /\ K \in Seq(T) /\ Len(K) = Len(<<g[e]>>) + Len(M)
        /\ \A i \in 1..Len(<<g[e]>>) + Len(M) :
             K[i] = IF i <= Len(<<g[e]>>) THEN <<g[e]>>[i] ELSE M[i - Len(<<g[e]>>)]
    BY <1>2, <1>3, ConcatProperties
  <2>2. Len(<<g[e]>>) + Len(M) = Len(L) + 1
    BY <1>1, <1>2, <1>3
  <2> QED BY <1>3, <2>1, <2>2
<1> HIDE DEF M, K
<1>6. Len(N) = Len(L) + 1 /\ \A i \in 1..(Len(L) + 1) : N[i] = g[(<<e>> \o L)[i]]
  BY <1>1, <1>4 DEF Mapped
<1>7. ASSUME NEW i \in 1..(Len(L) + 1)
      PROVE  N[i] = K[i]
  <2>1. CASE i <= 1
    <3>1. i = 1
      BY <1>1, <2>1
    <3>2. (<<e>> \o L)[1] = e /\ K[1] = g[e] /\ N[1] = g[(<<e>> \o L)[1]]
      BY <1>1, <1>4, <1>5, <1>6
    <3> QED BY <3>1, <3>2
  <2>2. CASE ~(i <= 1)
    <3>1. i - 1 \in 1..Len(L)
      BY <1>1, <2>2
    <3>2. (<<e>> \o L)[i] = L[i - 1] /\ K[i] = M[i - 1] /\ N[i] = g[(<<e>> \o L)[i]]
      BY <1>4, <1>5, <1>6, <2>2
    <3> QED BY <1>2, <3>1, <3>2
  <2> QED BY <2>1, <2>2
<1>8. N \in Seq(T)
  <2>1. \A i \in 1..(Len(L) + 1) : g[(<<e>> \o L)[i]] \in T
    BY <1>4, ElementOfSeq
  <2> QED BY <1>1, <1>4, <2>1, IsASeq DEF Mapped
<1> HIDE DEF N
<1>9. N = K
  BY <1>1, <1>5, <1>6, <1>7, <1>8, SeqEqual
<1> QED BY <1>2, <1>3, <1>9 DEF Same, M, N, K

(* One element more is its text in front of the others.                    *)
LEMMA JoinedCons ==
  ASSUME NEW S, NEW g \in [S -> Texts], NEW L \in Seq(S), NEW e \in S
  PROVE  Same(Joined[Mapped(g, <<e>> \o L)], g[e] \o Joined[Mapped(g, L)])
<1> DEFINE M == Mapped(g, L)
<1>1. M \in Seq(Texts) /\ g[e] \in Texts /\ Same(Mapped(g, <<e>> \o L), <<g[e]>> \o M)
  BY MappedCons
<1> HIDE DEF M
<1>2. /\ <<g[e]>> \o M \in Seq(Texts) /\ <<g[e]>> \o M # <<>>
      /\ Head(<<g[e]>> \o M) = g[e] /\ Tail(<<g[e]>> \o M) = M
  BY <1>1, ConsTail
<1>3. Joined[<<g[e]>> \o M] = g[e] \o Joined[M]
  BY <1>2, JoinedDefined
<1> QED BY <1>1, <1>3 DEF Same, M

(* No elements have no text.                                               *)
LEMMA JoinedNone == ASSUME NEW g PROVE Joined[Mapped(g, <<>>)] = <<>>
<1>1. Mapped(g, <<>>) = <<>>
  BY DEF Mapped
<1>2. <<>> \in Seq(Texts)
  BY EmptySeq
<1> QED BY <1>1, <1>2, JoinedDefined

-----------------------------------------------------------------------------
(* Arrays.                                                                 *)

(* The text of a value on a line of its own.                               *)
LEMMA DecodedLine ==
  ASSUME NEW t, NEW v, Decoded(t, v), NEW z, Solid(z)
  PROVE  /\ t \in Texts /\ Line(t) \in Texts /\ Len(Line(t)) = Len(t) + 1 /\ Len(t) \in Nat
         /\ Solid(Line(t) \o z) /\ IsPrefix(Tag("value>"), Line(t) \o z)
         /\ \A n \in Nat : n >= Len(t) => Decoders[n].value[Line(t) \o z] = {Result(v, z)}
<1> DEFINE u == <<" ">> \o z
<1>1. z \in Texts
  BY DEF Solid
<1>2. t \in Texts
  BY DEF Decoded
<1>3. Leads(u, z) /\ u \in Texts
  BY <1>1, Leading, BlankFirst
<1>4. /\ Line(t) \in Texts /\ Len(Line(t)) = Len(t) + 1 /\ Len(t) \in Nat
      /\ Same(Line(t) \o z, t \o u)
  BY <1>1, <1>2, LineFirst
<1>5. Chomp[u] = z
  BY <1>3 DEF Leads
<1> HIDE DEF u
<1>6. Line(t) \o z = t \o u
  BY <1>4 DEF Same
<1>7. Solid(t \o u) /\ IsPrefix(Tag("value>"), t \o u)
  BY <1>3 DEF Decoded
<1>8. \A n \in Nat : n >= Len(t) => Decoders[n].value[t \o u] = {Result(v, z)}
  BY <1>3, <1>5 DEF Decoded
<1> QED BY <1>2, <1>4, <1>6, <1>7, <1>8

(* A function from values to lines from which they are read.               *)
Lines(g, S) == g \in [S -> Texts] /\ \A e \in S : \E t : Decoded(t, e) /\ Same(g[e], Line(t))

(* What the loop of decodeArray reads from a text for some values and what *)
(* is behind them.                                                         *)
ElemsAre(J, L) ==
  /\ J \in Texts
  /\ \A w : Solid(w) /\ ~IsPrefix(Tag("value>"), w) =>
       /\ Solid(J \o w)
       /\ \A n \in Nat : n >= Len(J) + 1 => Decoders[n].elems[J \o w] = {Result(L, w)}

(* No elements are read from no text.                                      *)
LEMMA NoElems == ElemsAre(<<>>, <<>>)
<1>1. <<>> \in Texts /\ Len(<<>>) = 0
  BY EmptySeq DEF Texts
<1>2. ASSUME NEW w, Solid(w), ~IsPrefix(Tag("value>"), w)
      PROVE  /\ Solid(<<>> \o w)
             /\ \A n \in Nat : n >= Len(<<>>) + 1 => Decoders[n].elems[<<>> \o w] = {Result(<<>>, w)}
  <2>1. w \in Texts
    BY <1>2 DEF Solid
  <2>2. <<>> \o w = w
    BY <2>1, Nothing
  <2>3. ASSUME NEW n \in Nat, n >= 1
        PROVE  Decoders[n].elems[w] = {Result(<<>>, w)}
    <3>1. Decoders[n].elems[w] = DecodeElems(Decoders[n - 1], w)
      BY <2>1, <2>3, DecoderOf
    <3> QED BY <1>2, <3>1 DEF DecodeElems
  <2> QED BY <1>1, <1>2, <2>2, <2>3
<1> QED BY <1>1, <1>2, Zenon DEF ElemsAre

(* One element more is read from one line more.                            *)
LEMMA MoreElems ==
  ASSUME NEW J, NEW L, ElemsAre(J, L), NEW t, NEW e, Decoded(t, e)
  PROVE  ElemsAre(Line(t) \o J, <<e>> \o L)
<1> DEFINE K == Line(t) \o J
           a == "value>"
<1>1. J \in Texts /\ t \in Texts
  BY DEF ElemsAre, Decoded
<1>2. Line(t) \in Texts /\ Len(Line(t)) = Len(t) + 1 /\ Len(t) \in Nat
  BY <1>1, LineFirst
<1>3. K \in Texts /\ Len(K) = Len(t) + 1 + Len(J) /\ Len(J) \in Nat
  <2>1. K \in Texts /\ Len(K) = Len(Line(t)) + Len(J) /\ Len(J) \in Nat
    BY <1>1, <1>2, Concat
  <2> HIDE DEF K
  <2> QED BY <1>2, <2>1
<1>4. ASSUME NEW w, Solid(w), ~IsPrefix(Tag(a), w)
      PROVE  /\ Solid(K \o w)
             /\ \A n \in Nat : n >= Len(K) + 1 => Decoders[n].elems[K \o w] = {Result(<<e>> \o L, w)}
  <2> DEFINE z == J \o w
             s == Line(t) \o z
  <2>1. w \in Texts
    BY <1>4 DEF Solid
  <2>2. /\ Solid(z)
        /\ \A n \in Nat : n >= Len(J) + 1 => Decoders[n].elems[z] = {Result(L, w)}
    BY <1>4, Zenon DEF ElemsAre
  <2>3. IsAssociative(Line(t), J, w)
    BY <1>1, <1>2, <2>1, Associative
  <2>4. K \o w = s
    BY <2>3 DEF IsAssociative
  <2> HIDE DEF z
  <2>5. /\ Solid(s) /\ IsPrefix(Tag(a), s)
        /\ \A n \in Nat : n >= Len(t) => Decoders[n].value[s] = {Result(e, z)}
    BY <2>2, DecodedLine
  <2>6. s \in Texts
    BY <2>5 DEF Solid
  <2> HIDE DEF s, a, K
  <2>7. ASSUME NEW n \in Nat, n >= Len(K) + 1
        PROVE  Decoders[n].elems[s] = {Result(<<e>> \o L, w)}
    <3>1. n # 0 /\ n - 1 \in Nat /\ n - 1 >= Len(J) + 1 /\ n - 1 >= Len(t)
      BY <1>2, <1>3, <2>7
    <3> DEFINE d == Decoders[n - 1]
    <3>2. d.value[s] = {Result(e, z)} /\ d.elems[z] = {Result(L, w)}
      BY <2>2, <2>5, <3>1
    <3>3. Decoders[n].elems[s] = DecodeElems(d, s)
      BY <2>6, <3>1, DecoderOf
    <3> HIDE DEF d
    <3>4. DecodeElems(d, s) =
            UNION {{Result(<<r.val>> \o f.val, f.rest) : f \in d.elems[r.rest]} : r \in d.value[s]}
      BY <2>5 DEF DecodeElems, a
    <3>5. DecodeElems(d, s) = {Result(<<e>> \o L, w)}
      <4>1. \A r \in d.value[s] : r.val = e /\ d.elems[r.rest] = {Result(L, w)}
        BY <3>2 DEF Result
      <4>2. \A f \in {Result(L, w)} : f.val = L /\ f.rest = w
        BY DEF Result
      <4>3. {Result(<<e>> \o f.val, f.rest) : f \in {Result(L, w)}} = {Result(<<e>> \o L, w)}
        BY <4>2
      <4>4. \A r \in d.value[s] :
              {Result(<<r.val>> \o f.val, f.rest) : f \in d.elems[r.rest]} = {Result(<<e>> \o L, w)}
        BY <4>1, <4>3
      <4>5. DecodeElems(d, s) = UNION {{Result(<<e>> \o L, w)} : r \in {Result(e, z)}}
        BY <3>2, <3>4, <4>4
      <4> QED BY <4>5
    <3> QED BY <3>3, <3>5
  <2> QED BY <2>4, <2>5, <2>7
<1> HIDE DEF K
<1>5. ElemsAre(K, <<e>> \o L)
  BY <1>3, <1>4, Zenon DEF ElemsAre, a
<1> QED BY <1>5 DEF K

(* The loop of decodeArray reads the elements, however many there are.     *)
LEMMA ElemsRead ==
  ASSUME NEW S, NEW g, Lines(g, S)
  PROVE  \A L \in Seq(S) : ElemsAre(Joined[Mapped(g, L)], L)
<1> DEFINE P == {L \in Seq(S) : ElemsAre(Joined[Mapped(g, L)], L)}
<1>1. <<>> \in P
  <2>1. Joined[Mapped(g, <<>>)] = <<>>
    BY JoinedNone
  <2>2. <<>> \in Seq(S)
    BY EmptySeq
  <2> QED BY <2>1, <2>2, NoElems
<1>2. ASSUME NEW L \in Seq(S), NEW e \in S, L \in P
      PROVE  <<e>> \o L \in P
  <2> DEFINE J == Joined[Mapped(g, L)]
  <2>1. ElemsAre(J, L)
    BY <1>2
  <2>2. PICK t : Decoded(t, e) /\ Same(g[e], Line(t))
    BY DEF Lines
  <2>3. Same(Joined[Mapped(g, <<e>> \o L)], g[e] \o J)
    BY JoinedCons DEF Lines
  <2> HIDE DEF J
  <2>4. ElemsAre(Line(t) \o J, <<e>> \o L)
    BY <2>1, <2>2, MoreElems
  <2>5. <<e>> \o L \in Seq(S)
    BY ConsTail
  <2>6. ElemsAre(Joined[Mapped(g, <<e>> \o L)], <<e>> \o L)
    BY <2>2, <2>3, <2>4, Zenon DEF Same
  <2> QED BY <2>5, <2>6
<1> HIDE DEF P
<1>3. Seq(S) \subseteq P
  BY <1>1, <1>2, TailInduction
<1> QED BY <1>3 DEF P

(* decodeArray reads back what encodeArray has written.                    *)
LEMMA ArrayReads ==
  ASSUME NEW S, NEW encode, \A e \in S : Decoded(encode[e], e), NEW L \in Seq(S)
  PROVE  IsTextOf(EncodeArray(encode, Array(L)), Array(L))
<1> DEFINE c == EncodeArray(encode, Array(L))
           g == [e \in S |-> Line(encode[e])]
           J == Joined[Mapped(g, L)]
           v == Array(L)
           ta == "array>"
           td == "data>"
           ea == "/array>"
           ed == "/data>"
           tv == "value>"
<1>1. ta \in Chars /\ td \in Chars /\ ea \in Chars /\ ed \in Chars
  BY StringsAssumption DEF Tags, EndTags, Chars
<1>2. td # ta /\ ed # tv /\ ea # ta
  OBVIOUS
<1>3. Lines(g, S)
  <2>1. \A e \in S : Line(encode[e]) \in Texts
    BY LineFirst DEF Decoded
  <2>2. \A e \in S : Same(g[e], Line(encode[e]))
    BY DEF Same
  <2>3. g \in [S -> Texts]
    BY <2>1
  <2> HIDE DEF g
  <2> QED BY <2>2, <2>3 DEF Lines
<1>4. [i \in 1..Len(L) |-> Line(encode[L[i]])] = Mapped(g, L)
  <2>1. \A i \in 1..Len(L) : L[i] \in S
    BY ElementOfSeq
  <2> QED BY <2>1 DEF Mapped
<1>5. ElemsAre(J, L)
  <2> HIDE DEF g
  <2> QED BY <1>3, ElemsRead
<1>6. c = Line(<<>>) \o Line(Tag(ta)) \o Line(Tag(td)) \o J \o Line(Tag(ed)) \o Line(Tag(ea))
  <2> HIDE DEF g
  <2>1. v.elems = L
    BY DEF Array, Value
  <2> HIDE DEF v
  <2>2. EncodeArray(encode, v) =
          Line(<<>>) \o Line(Tag(ta)) \o Line(Tag(td))
            \o Joined[[i \in 1..Len(v.elems) |-> Line(encode[v.elems[i]])]]
            \o Line(Tag(ed)) \o Line(Tag(ea))
    BY DEF EncodeArray
  <2> QED BY <1>4, <2>1, <2>2 DEF v
<1> HIDE DEF g, J, v
<1>7. J \in Texts /\ Len(J) \in Nat
  BY <1>5, Nothing DEF ElemsAre
<1> DEFINE l == Line(<<>>)
           p == Line(Tag(ta))
           q == Line(Tag(td))
           r == Line(Tag(ed))
           s == Line(Tag(ea))
<1>8. /\ p \in Texts /\ q \in Texts /\ r \in Texts /\ s \in Texts
      /\ Len(p) = 3 /\ Len(q) = 3 /\ Len(r) = 3 /\ Len(s) = 3
  <2> HIDE DEF ta, td, ea, ed
  <2> QED BY <1>1, <1>7, LinedTag
<1>9. l \in Texts /\ Len(l) = 1
  <2> DEFINE z == <<>>
  <2>1. z \in Texts /\ Len(z) = 0
    BY <1>7, Nothing
  <2> HIDE DEF z
  <2>2. ASSUME NEW x \in Texts PROVE Line(z) \in Texts /\ Len(Line(z)) = Len(z) + 1
    BY <2>1, LineFirst
  <2> QED BY <2>1, <2>2 DEF z
<1> DEFINE h == ((l \o p) \o q) \o J
           k == h \o r
<1>10. h \in Texts /\ Len(h) = Len(l) + Len(p) + Len(q) + Len(J)
  <2> HIDE DEF l, p, q, h
  <2>1. IsLong(l, p, q, J)
    BY <1>7, <1>8, <1>9, FourLong
  <2> QED BY <2>1 DEF IsLong, h
<1>11. k \in Texts /\ Len(k) = Len(h) + Len(r)
  <2> HIDE DEF h, r
  <2> QED BY <1>8, <1>10, Concat
<1>12. c = k \o s /\ k \o s \in Texts /\ Len(k \o s) = Len(k) + Len(s)
  <2>1. c = k \o s
    BY <1>6
  <2> HIDE DEF k, s, c
  <2>2. k \o s \in Texts /\ Len(k \o s) = Len(k) + Len(s)
    BY <1>8, <1>11, Concat
  <2> QED BY <2>1, <2>2
<1>13. c \in Texts /\ Len(c) >= Len(J) + 1 /\ Len(c) \in Nat
  <2> HIDE DEF l, p, q, r, s, h, k, c
  <2> QED BY <1>7, <1>8, <1>9, <1>10, <1>11, <1>12
<1>14. ASSUME NEW d, \E n \in Nat : n >= Len(c) /\ d = Decoders[n], NEW y, Solid(y)
       PROVE  c \o y \in Texts /\ Solid(Chomp[c \o y]) /\ Content(d, c \o y) = {Result(v, y)}
  <2> DEFINE s5 == s \o y
             s4 == r \o s5
             s3 == J \o s4
             s2 == q \o s3
             s1 == p \o s2
             s0 == l \o s1
  <2>1. y \in Texts
    BY <1>14 DEF Solid
  <2>2. s5 \in Texts /\ Solid(s5)
    <3> HIDE DEF ea
    <3> QED BY <1>1, <2>1, LinedTag
  <2>3. s4 \in Texts /\ Solid(s4) /\ ~IsPrefix(Tag(tv), s4)
    <3> HIDE DEF ed, s5, tv
    <3> QED BY <1>1, <1>2, <2>2, LinedTag
  <2>4. Solid(s3) /\ d.elems[s3] = {Result(L, s4)}
    <3> HIDE DEF s4, c
    <3>1. PICK n \in Nat : n >= Len(c) /\ d = Decoders[n]
      BY <1>14
    <3>2. n >= Len(J) + 1
      BY <1>7, <1>13, <3>1
    <3> QED BY <1>5, <2>3, <3>1, <3>2, Zenon DEF ElemsAre, tv
  <2>5. s3 \in Texts
    BY <2>4 DEF Solid
  <2>6. s2 \in Texts /\ Solid(s2) /\ IsPrefix(Tag(td), s2)
    <3> HIDE DEF td, s3
    <3> QED BY <1>1, <2>5, LinedTag
  <2>7. s1 \in Texts /\ Solid(s1) /\ <<" ">> \o s2 \in Texts /\ Same(s1, Tag(ta) \o (<<" ">> \o s2))
    <3> HIDE DEF ta, s2
    <3> QED BY <1>1, <2>6, LinedTag
  <2>8. s0 = <<" ">> \o s1
    <3> HIDE DEF s1
    <3>1. <<>> \in Texts
      BY <2>1, Nothing
    <3>2. Same(l \o s1, <<>> \o (<<" ">> \o s1)) /\ <<" ">> \o s1 \in Texts
      BY <2>7, <3>1, LineFirst
    <3>3. <<>> \o (<<" ">> \o s1) = <<" ">> \o s1
      <4> DEFINE z == <<" ">> \o s1
      <4>1. z \in Texts
        BY <3>2
      <4> HIDE DEF z
      <4> QED BY <4>1, Nothing DEF z
    <3> QED BY <3>2, <3>3 DEF Same
  <2>9. c \o y = s0
    <3>1. IsAssociative(k, s, y)
      <4> HIDE DEF k, s
      <4> QED BY <1>8, <1>11, <2>1, Associative
    <3>2. IsAssociative(h, r, s5)
      <4> HIDE DEF h, r, s5
      <4> QED BY <1>8, <1>10, <2>2, Associative
    <3>3. Same(h \o s4, l \o (p \o (q \o (J \o s4))))
      <4> HIDE DEF l, p, q, s4
      <4> QED BY <1>7, <1>8, <1>9, <2>3, Four
    <3>4. h \o s4 = s0
      BY <3>3 DEF Same
    <3>5. (k \o s) \o y = k \o s5
      BY <3>1 DEF IsAssociative
    <3>6. (h \o r) \o s5 = h \o s4
      BY <3>2 DEF IsAssociative
    <3> HIDE DEF s0, s4, s5, h, s
    <3> QED BY <1>12, <3>4, <3>5, <3>6
  <2>10. Leads(s0, s1)
    <3> HIDE DEF s1, s0
    <3> QED BY <2>7, <2>8, Leading
  <2> DEFINE t == <<" ">> \o s2
  <2>11. t \in Texts /\ s1 = Tag(ta) \o t
    BY <2>7 DEF Same
  <2>12. Calls(d, ta, t, s0)
    <3> HIDE DEF t, s1, s0, ta
    <3> QED BY <1>1, <2>10, <2>11, ContentOf
  <2>13. Content(d, s0) = Closed(ea, UNION {DecodeArray(d, u) : u \in Skip(Tag(ta), {s1})})
    <3> HIDE DEF t, s1, s0
    <3> QED BY <2>11, <2>12 DEF Calls
  <2>14. Skip(Tag(ta), {s1}) = {s2}
    <3> HIDE DEF ta, s2
    <3> QED BY <1>1, <2>6, LinedSkip
  <2>15. Skip(Tag(td), {s2}) = {s3}
    <3> HIDE DEF td, s3
    <3> QED BY <1>1, <2>4, LinedSkip
  <2>16. Closed(ed, {Result(v, s4)}) = {Result(v, s5)}
    <3> HIDE DEF ed, s5
    <3> QED BY <1>1, <2>2, LinedClosed
  <2>17. Closed(ea, {Result(v, s5)}) = {Result(v, y)}
    <3> HIDE DEF ea
    <3> QED BY <1>1, <1>14, LinedClosed
  <2>18. DecodeArray(d, s2) = Closed(ed, {Result(v, s4)})
    <3> HIDE DEF s2, s3, s4
    <3>1. UNION {d.elems[u] : u \in Skip(Tag(td), {s2})} = {Result(L, s4)}
      BY <2>4, <2>15
    <3>2. {Result(Array(e.val), e.rest) : e \in {Result(L, s4)}} = {Result(v, s4)}
      <4>1. \A e \in {Result(L, s4)} : e.val = L /\ e.rest = s4
        BY DEF Result
      <4> QED BY <4>1 DEF v
    <3>3. DecodeArray(d, s2) =
            Closed("/data>", {Result(Array(e.val), e.rest) :
                                e \in UNION {d.elems[u] : u \in Skip(Tag("data>"), {s2})}})
      BY <2>6, Zenon DEF DecodeArray
    <3> QED BY <3>1, <3>2, <3>3
  <2> HIDE DEF s0, s1, s2, s3, s4, s5
  <2>19. Content(d, s0) = {Result(v, y)}
    <3>1. UNION {DecodeArray(d, u) : u \in {s2}} = DecodeArray(d, s2)
      OBVIOUS
    <3> QED BY <2>13, <2>14, <2>16, <2>17, <2>18, <3>1
  <2>20. s0 \in Texts /\ Chomp[s0] = s1
    BY <2>10 DEF Leads
  <2> QED BY <2>7, <2>9, <2>19, <2>20
<1> HIDE DEF c
<1>15. ASSUME NEW n \in Nat, n >= Len(c) PROVE Reads(Decoders[n], c, v)
  <2> DEFINE d == Decoders[n]
  <2>1. \E m \in Nat : m >= Len(c) /\ d = Decoders[m]
    BY <1>15
  <2> HIDE DEF d
  <2>2. \A y : Solid(y) =>
          c \o y \in Texts /\ Solid(Chomp[c \o y]) /\ Content(d, c \o y) = {Result(v, y)}
    BY <1>14, <2>1
  <2> QED BY <1>13, <2>2, Zenon DEF Reads, d
<1>16. IsTextOf(c, v)
  BY <1>13, <1>15 DEF IsTextOf
<1> QED BY <1>16 DEF c, v

-----------------------------------------------------------------------------
(* Structs.                                                                *)

(* A member: its name has no end of a name in it.                          *)
IsMember(m) ==
  m = Member(m.key, m.val) /\ m.key \in Texts /\ Found(Tag("/name>"), m.key) = {}
MemberText(key, t) ==
  Line(Tag("member>")) \o Line(Tagged("name>", key, "/name>")) \o Line(t) \o Line(Tag("/member>"))

(* What decodeStruct reads of one member, and what it reads then.          *)
IsRead(decode, m, t, z, M, w) ==
  /\ MemberText(m.key, t) \in Texts /\ Len(MemberText(m.key, t)) = Len(m.key) + Len(t) + 12
  /\ Len(m.key) \in Nat /\ Len(t) \in Nat
  /\ Solid(MemberText(m.key, t) \o z)
  /\ DecodeMembers(decode, MemberText(m.key, t) \o z) = {Result({m} \cup M, w)}

(* decodeStruct reads a member from its text, and then what it reads       *)
(* behind it; no other member has its name.                                *)
LEMMA MemberRead ==
  ASSUME NEW decode, NEW m, IsMember(m), NEW t \in Texts, NEW z, Solid(z),
         Solid(Line(t) \o (Line(Tag("/member>")) \o z)),
         decode.value[Line(t) \o (Line(Tag("/member>")) \o z)]
           = {Result(m.val, Line(Tag("/member>")) \o z)},
         NEW M, \A x \in M : x.key # m.key, NEW w, decode.members[z] = {Result(M, w)}
  PROVE  IsRead(decode, m, t, z, M, w)
<1> DEFINE k == m.key
           tm == "member>"
           em == "/member>"
           tn == "name>"
           en == "/name>"
           f == Tagged(tn, k, en)
           a == Line(Tag(tm))
           b == Line(f)
           c == Line(t)
           d == Line(Tag(em))
           s3 == d \o z
           s2 == c \o s3
           s1 == b \o s2
           s0 == a \o s1
           u == <<" ">> \o s2
           v == Tag(en) \o u
           x == k \o v
<1>1. tm \in Chars /\ em \in Chars /\ tn \in Chars /\ en \in Chars \ {"<"}
  BY StringsAssumption DEF Tags, EndTags, Chars
<1>2. k \in Texts /\ Found(Tag(en), k) = {} /\ m = Member(k, m.val)
  BY DEF IsMember
<1>3. z \in Texts /\ Len(k) \in Nat /\ Len(t) \in Nat
  BY <1>2, Nothing DEF Solid
<1> HIDE DEF k
<1>4. f \in Texts /\ Len(f) = Len(k) + 4
  <2>1. ASSUME NEW y \in Texts PROVE f \in Texts /\ Len(f) = Len(k) + 4 /\ Same(f \o y, Tag(tn) \o (k \o (Tag(en) \o y)))
    <3> HIDE DEF tn, en
    <3> QED BY <1>1, <1>2, TaggedFirst
  <2> HIDE DEF f
  <2> QED BY <1>3, <2>1
<1>5. a \in Texts /\ Len(a) = 3 /\ d \in Texts /\ Len(d) = 3 /\ s3 \in Texts /\ Solid(s3)
  <2> HIDE DEF tm, em
  <2> QED BY <1>1, <1>3, LinedTag
<1>6. c \in Texts /\ Len(c) = Len(t) + 1
  <2>1. ASSUME NEW y \in Texts PROVE c \in Texts /\ Len(c) = Len(t) + 1 /\ Same(c \o y, t \o (<<" ">> \o y))
    BY LineFirst
  <2> HIDE DEF c
  <2> QED BY <1>3, <2>1
<1>7. s2 \in Texts /\ Solid(s2)
  BY DEF Solid
<1>8. b \in Texts /\ Len(b) = Len(f) + 1 /\ u \in Texts /\ Same(s1, f \o u)
  <2> HIDE DEF f, s2
  <2> QED BY <1>4, <1>7, LineFirst
<1>9. v \in Texts /\ x \in Texts /\ Same(f \o u, Tag(tn) \o x)
  <2> HIDE DEF tn, en, u
  <2> QED BY <1>1, <1>2, <1>8, TaggedFirst
<1>10. s1 = Tag(tn) \o x
  <2> HIDE DEF f, u, x, s1
  <2> QED BY <1>8, <1>9, Zenon DEF Same
<1>11. s1 \in Texts /\ Solid(s1) /\ Expect(Tag(tn), {s1}) = {x}
  <2>1. Solid(Tag(tn) \o x) /\ Expect(Tag(tn), {Tag(tn) \o x}) = {x}
    <3> HIDE DEF tn, x
    <3> QED BY <1>1, <1>9, TagFirst, ExpectTag
  <2> HIDE DEF tn, x, s1
  <2> QED BY <1>10, <2>1 DEF Solid
<1>12. Solid(s0) /\ IsPrefix(Tag(tm), s0)
  <2> HIDE DEF tm, s1
  <2> QED BY <1>1, <1>11, LinedTag
<1>13. Skip(Tag(tm), {s0}) = {s1}
  <2> HIDE DEF tm, s1
  <2> QED BY <1>1, <1>11, LinedSkip
<1>14. /\ Found(Tag(en), x) # {} /\ Min(Found(Tag(en), x)) = Len(k) + 1
       /\ SubSeq(x, 1, Len(k)) = k /\ Drop(x, Len(k)) = v
  <2>1. en \in Chars \ {"<"} /\ k \in Texts /\ Found(Tag(en), k) = {} /\ u \in Texts
    BY <1>1, <1>2, <1>8
  <2> HIDE DEF en, u
  <2> QED BY <2>1, FoundFirst
<1>15. Skip(Tag(en), {v}) = {s2}
  <2>1. Leads(u, s2)
    <3> HIDE DEF s2
    <3> QED BY <1>7, Leading
  <2> HIDE DEF en, u, s2
  <2> QED BY <1>1, <2>1, SkipTag
<1>16. Closed(em, {Result(m.val, s3)}) = {Result(m.val, z)}
  <2> HIDE DEF em
  <2> QED BY <1>1, LinedClosed
<1> DEFINE g == MemberText(k, t)
<1>17. /\ g = ((a \o b) \o c) \o d /\ IsLong(a, b, c, d)
       /\ Same((((a \o b) \o c) \o d) \o z, a \o (b \o (c \o (d \o z))))
  <2>1. g = ((a \o b) \o c) \o d
    BY DEF MemberText
  <2> HIDE DEF a, b, c, d
  <2>2. IsLong(a, b, c, d)
    BY <1>5, <1>6, <1>8, FourLong
  <2>3. Same((((a \o b) \o c) \o d) \o z, a \o (b \o (c \o (d \o z))))
    BY <1>3, <1>5, <1>6, <1>8, Four
  <2> QED BY <2>1, <2>2, <2>3, Zenon
<1>18. g \in Texts /\ Len(g) = Len(k) + Len(t) + 12
  <2> HIDE DEF a, b, c, d, g
  <2>1. g \in Texts /\ Len(g) = Len(a) + Len(b) + Len(c) + Len(d)
    BY <1>17 DEF IsLong
  <2>2. Len(a) = 3 /\ Len(b) = Len(f) + 1 /\ Len(c) = Len(t) + 1 /\ Len(d) = 3 /\ Len(f) = Len(k) + 4
    BY <1>4, <1>5, <1>6, <1>8
  <2>3. Len(k) \in Nat /\ Len(t) \in Nat
    BY <1>3
  <2> HIDE DEF f
  <2> QED BY <2>1, <2>2, <2>3
<1>19. g \o z = s0
  <2>1. Same((((a \o b) \o c) \o d) \o z, s0)
    BY <1>17
  <2> HIDE DEF a, b, c, d, g, s0
  <2> QED BY <1>17, <2>1, Zenon DEF Same
<1>20. decode.value[s2] = {Result(m.val, s3)}
  OBVIOUS
<1> HIDE DEF g, s0, s1, s2, s3, x, v
<1>21. DecodeMember(decode, x) = {Result({m} \cup M, w)}
  <2> DEFINE found == Min(Found(Tag("/name>"), x))
             name == SubSeq(x, 1, found - 1)
             rest == Drop(x, found - 1)
             also(val, S) == IF \E y \in S : y.key = name THEN S ELSE S \cup {Member(name, val)}
             read(r) == {Result(also(r.val, e.val), e.rest) : e \in decode.members[r.rest]}
             vals == UNION {decode.value[y] : y \in Skip(Tag("/name>"), {rest})}
  <2>1. DecodeMember(decode, x) = UNION {read(r) : r \in Closed("/member>", vals)}
    BY <1>14, Zenon DEF DecodeMember
  <2>2. found - 1 = Len(k)
    BY <1>3, <1>14
  <2> HIDE DEF found
  <2>3. name = k /\ rest = v
    BY <1>14, <2>2
  <2> HIDE DEF name, rest
  <2>4. Skip(Tag("/name>"), {rest}) = {s2}
    BY <1>15, <2>3
  <2>5. vals = {Result(m.val, s3)}
    BY <1>20, <2>4
  <2>6. Closed("/member>", vals) = {Result(m.val, z)}
    BY <1>16, <2>5, Zenon
  <2> HIDE DEF vals
  <2>7. also(m.val, M) = {m} \cup M
    <3>1. ~\E y \in M : y.key = name
      BY <2>3 DEF k
    <3>2. also(m.val, M) = M \cup {Member(name, m.val)}
      BY <3>1
    <3> HIDE DEF also
    <3> QED BY <1>2, <2>3, <3>2
  <2> HIDE DEF also
  <2> DEFINE r == Result(m.val, z)
  <2>8. read(r) = {Result({m} \cup M, w)}
    <3>1. r.val = m.val /\ r.rest = z
      BY DEF Result
    <3>2. \A e \in {Result(M, w)} : e.val = M /\ e.rest = w
      BY DEF Result
    <3> HIDE DEF r
    <3>3. \A e \in {Result(M, w)} : Result(also(r.val, e.val), e.rest) = Result({m} \cup M, w)
      BY <2>7, <3>1, <3>2
    <3>4. decode.members[r.rest] = {Result(M, w)}
      BY <3>1
    <3> QED BY <3>3, <3>4
  <2> HIDE DEF read
  <2>9. DecodeMember(decode, x) = UNION {read(q) : q \in {r}}
    BY <2>1, <2>6
  <2> HIDE DEF r
  <2> QED BY <2>8, <2>9
<1>22. DecodeMembers(decode, s0) = {Result({m} \cup M, w)}
  <2>1. DecodeMembers(decode, s0) =
          UNION {DecodeMember(decode, y) : y \in Expect(Tag(tn), Skip(Tag(tm), {s0}))}
    BY <1>12 DEF DecodeMembers
  <2>2. DecodeMembers(decode, s0) = UNION {DecodeMember(decode, y) : y \in {x}}
    BY <1>11, <1>13, <2>1
  <2> QED BY <1>21, <2>2
<1> HIDE DEF tn, tm, en, em, k
<1>23. g \in Texts /\ Len(g) = Len(k) + Len(t) + 12 /\ Len(k) \in Nat /\ Len(t) \in Nat
       /\ Solid(g \o z) /\ DecodeMembers(decode, g \o z) = {Result({m} \cup M, w)}
  BY <1>3, <1>12, <1>18, <1>19, <1>22
<1> QED BY <1>23, Zenon DEF IsRead, g, k

(* A function from members to texts from which they are read.              *)
MembersOf(g, S) ==
  /\ g \in [S -> Texts]
  /\ \A m \in S : IsMember(m) /\ \E t : Decoded(t, m.val) /\ Same(g[m], MemberText(m.key, t))

(* What the loop of decodeStruct reads from a text for some members and    *)
(* what is behind them.                                                    *)
MembersAre(J, M) ==
  /\ J \in Texts
  /\ \A w : Solid(w) /\ ~IsPrefix(Tag("member>"), w) =>
       /\ Solid(J \o w)
       /\ \A n \in Nat : n >= Len(J) + 1 => Decoders[n].members[J \o w] = {Result(M, w)}

(* No members are read from no text.                                       *)
LEMMA NoMembers == MembersAre(<<>>, {})
<1>1. <<>> \in Texts /\ Len(<<>>) = 0
  BY EmptySeq DEF Texts
<1>2. ASSUME NEW w, Solid(w), ~IsPrefix(Tag("member>"), w)
      PROVE  /\ Solid(<<>> \o w)
             /\ \A n \in Nat : n >= Len(<<>>) + 1 => Decoders[n].members[<<>> \o w] = {Result({}, w)}
  <2>1. w \in Texts
    BY <1>2 DEF Solid
  <2>2. <<>> \o w = w
    BY <2>1, Nothing
  <2>3. ASSUME NEW n \in Nat, n >= 1
        PROVE  Decoders[n].members[w] = {Result({}, w)}
    <3>1. Decoders[n].members[w] = DecodeMembers(Decoders[n - 1], w)
      BY <2>1, <2>3, DecoderOf
    <3> QED BY <1>2, <3>1 DEF DecodeMembers
  <2> QED BY <1>1, <1>2, <2>2, <2>3
<1> QED BY <1>1, <1>2, Zenon DEF MembersAre

(* One member more is read from its text in front of the others.           *)
LEMMA MoreMembers ==
  ASSUME NEW J, NEW M, MembersAre(J, M), NEW m, IsMember(m), \A x \in M : x.key # m.key,
         NEW t, Decoded(t, m.val)
  PROVE  MembersAre(MemberText(m.key, t) \o J, {m} \cup M)
<1> DEFINE f == MemberText(m.key, t)
           K == f \o J
           em == "/member>"
           tm == "member>"
<1>0. em \in Chars
  BY StringsAssumption DEF EndTags, Chars
<1>1. J \in Texts /\ t \in Texts
  BY DEF MembersAre, Decoded
<1>2. ASSUME NEW w, Solid(w), ~IsPrefix(Tag(tm), w)
      PROVE  /\ f \in Texts /\ Len(f) >= Len(t) + 12 /\ Len(t) \in Nat
             /\ Solid(f \o (J \o w))
             /\ \A n \in Nat : n >= Len(t) /\ n >= Len(J) + 1 =>
                  DecodeMembers(Decoders[n], f \o (J \o w)) = {Result({m} \cup M, w)}
  <2> DEFINE z == J \o w
             s3 == Line(Tag(em)) \o z
  <2>1. w \in Texts
    BY <1>2 DEF Solid
  <2>2. /\ Solid(z)
        /\ \A n \in Nat : n >= Len(J) + 1 => Decoders[n].members[z] = {Result(M, w)}
    BY <1>2, Zenon DEF MembersAre
  <2> HIDE DEF z
  <2>3. Solid(s3)
    <3>1. z \in Texts
      BY <2>2 DEF Solid
    <3> HIDE DEF em
    <3> QED BY <1>0, <3>1, LinedTag
  <2> HIDE DEF s3
  <2>4. /\ Solid(Line(t) \o s3)
        /\ \A n \in Nat : n >= Len(t) => Decoders[n].value[Line(t) \o s3] = {Result(m.val, s3)}
    BY <2>3, DecodedLine
  <2>5. ASSUME NEW n \in Nat, n >= Len(t), n >= Len(J) + 1
        PROVE  /\ f \in Texts /\ Len(f) = Len(m.key) + Len(t) + 12 /\ Len(m.key) \in Nat /\ Len(t) \in Nat
               /\ Solid(f \o z) /\ DecodeMembers(Decoders[n], f \o z) = {Result({m} \cup M, w)}
    <3> DEFINE d == Decoders[n]
    <3>1. d.value[Line(t) \o s3] = {Result(m.val, s3)} /\ d.members[z] = {Result(M, w)}
      BY <2>2, <2>4, <2>5
    <3>2. Solid(Line(t) \o s3)
      BY <2>4
    <3> HIDE DEF d
    <3>3. IsRead(d, m, t, z, M, w)
      BY <1>1, <2>2, <3>1, <3>2, MemberRead DEF s3
    <3> QED BY <3>3 DEF IsRead, d
  <2>6. Len(t) \in Nat /\ Len(J) \in Nat
    BY <1>1, Nothing
  <2> HIDE DEF f
  <2>7. \E n \in Nat : n >= Len(t) /\ n >= Len(J) + 1
    <3>1. Len(t) + Len(J) + 1 \in Nat /\ Len(t) + Len(J) + 1 >= Len(t) /\ Len(t) + Len(J) + 1 >= Len(J) + 1
      BY <2>6
    <3> QED BY <3>1
  <2>8. f \in Texts /\ Len(f) = Len(m.key) + Len(t) + 12 /\ Len(m.key) \in Nat /\ Solid(f \o z)
    BY <2>5, <2>7
  <2>9. Len(f) >= Len(t) + 12
    BY <2>6, <2>8
  <2> QED BY <2>5, <2>6, <2>8, <2>9 DEF z
<1>3. \E w : Solid(w) /\ ~IsPrefix(Tag(tm), w)
  <2> HIDE DEF em
  <2>1. Solid(Tag(em) \o <<>>) /\ (IsPrefix(Tag(tm), Tag(em) \o <<>>) <=> tm = em)
    <3>1. <<>> \in Texts
      BY <1>1, Nothing
    <3> DEFINE z == <<>>
    <3>2. z \in Texts
      BY <3>1
    <3> HIDE DEF z, tm
    <3>3. Solid(Tag(em) \o z) /\ (IsPrefix(Tag(tm), Tag(em) \o z) <=> tm = em)
      BY <1>0, <3>2, TagFirst
    <3> QED BY <3>3 DEF z
  <2> QED BY <2>1 DEF em
<1> HIDE DEF f, tm
<1>4. f \in Texts /\ Len(f) >= Len(t) + 12 /\ Len(t) \in Nat
  BY <1>2, <1>3
<1>5. K \in Texts /\ Len(K) = Len(f) + Len(J) /\ Len(J) \in Nat /\ Len(f) \in Nat
  BY <1>1, <1>4, Concat
<1>6. ASSUME NEW w, Solid(w), ~IsPrefix(Tag(tm), w)
      PROVE  /\ Solid(K \o w)
             /\ \A n \in Nat : n >= Len(K) + 1 => Decoders[n].members[K \o w] = {Result({m} \cup M, w)}
  <2> DEFINE s == f \o (J \o w)
  <2>1. w \in Texts
    BY <1>6 DEF Solid
  <2>2. IsAssociative(f, J, w)
    BY <1>1, <1>4, <2>1, Associative
  <2>3. K \o w = s
    BY <2>2 DEF IsAssociative
  <2>4. /\ Solid(s)
        /\ \A n \in Nat : n >= Len(t) /\ n >= Len(J) + 1 =>
             DecodeMembers(Decoders[n], s) = {Result({m} \cup M, w)}
    BY <1>2, <1>6
  <2>5. s \in Texts
    BY <2>4 DEF Solid
  <2> HIDE DEF s, K
  <2>6. ASSUME NEW n \in Nat, n >= Len(K) + 1
        PROVE  Decoders[n].members[s] = {Result({m} \cup M, w)}
    <3>1. n # 0 /\ n - 1 \in Nat /\ n - 1 >= Len(J) + 1 /\ n - 1 >= Len(t)
      BY <1>4, <1>5, <2>6
    <3>2. Decoders[n].members[s] = DecodeMembers(Decoders[n - 1], s)
      BY <2>5, <3>1, DecoderOf
    <3> QED BY <2>4, <3>1, <3>2
  <2> QED BY <2>3, <2>4, <2>6
<1> HIDE DEF K
<1>7. MembersAre(K, {m} \cup M)
  BY <1>5, <1>6, Zenon DEF MembersAre, tm
<1> QED BY <1>7 DEF K, f

(* Members with names of their own.                                        *)
AreApart(L) == \A i, j \in 1..Len(L) : L[i].key = L[j].key => i = j

(* If names are apart with a member in front, they are apart without it    *)
(* and none is its own.                                                    *)
LEMMA ApartCons ==
  ASSUME NEW S, NEW L \in Seq(S), NEW e \in S
  PROVE  /\ ToSet(<<e>> \o L) = {e} \cup ToSet(L)
         /\ AreApart(<<e>> \o L) => AreApart(L) /\ \A m \in ToSet(L) : m.key # e.key
<1> DEFINE M == <<e>> \o L
<1>1. <<e>> \in Seq(S) /\ Len(<<e>>) = 1
  BY One
<1>2. /\ Len(M) = Len(<<e>>) + Len(L) /\ Len(L) \in Nat
      /\ \A i \in 1..Len(<<e>>) + Len(L) : M[i] = IF i <= Len(<<e>>) THEN <<e>>[i] ELSE L[i - Len(<<e>>)]
      /\ DOMAIN M = 1..Len(M) /\ DOMAIN L = 1..Len(L)
  BY <1>1, ConcatProperties, LenProperties
<1> HIDE DEF M
<1>3. Len(M) = Len(L) + 1 /\ M[1] = e
  BY <1>1, <1>2
<1>4. ASSUME NEW i \in 1..Len(L) PROVE i + 1 \in 1..Len(M) /\ M[i + 1] = L[i] /\ i + 1 # 1
  <2>1. i + 1 \in 1..(Len(L) + 1) /\ ~(i + 1 <= 1) /\ (i + 1) - 1 = i
    BY <1>2
  <2> QED BY <1>1, <1>2, <1>3, <2>1
<1>5. ASSUME NEW i \in 1..Len(M) PROVE i = 1 \/ (i - 1 \in 1..Len(L) /\ M[i] = L[i - 1])
  <2>1. i = 1 \/ (i - 1 \in 1..Len(L) /\ ~(i <= 1))
    BY <1>2, <1>3
  <2> QED BY <1>1, <1>2, <1>3, <2>1
<1>6. ToSet(M) = {e} \cup ToSet(L)
  <2>1. ToSet(M) = {M[i] : i \in 1..Len(M)} /\ ToSet(L) = {L[i] : i \in 1..Len(L)}
    BY <1>2 DEF ToSet
  <2>2. 1 \in 1..Len(M)
    BY <1>2, <1>3
  <2>3. ASSUME NEW x \in ToSet(M) PROVE x \in {e} \cup ToSet(L)
    <3>1. PICK i \in 1..Len(M) : x = M[i]
      BY <2>1
    <3> QED BY <1>3, <1>5, <2>1, <3>1
  <2>4. ASSUME NEW x \in ToSet(L) PROVE x \in ToSet(M)
    <3>1. PICK i \in 1..Len(L) : x = L[i]
      BY <2>1
    <3> QED BY <1>4, <2>1, <3>1
  <2>5. e \in ToSet(M)
    BY <1>3, <2>1, <2>2
  <2> QED BY <2>3, <2>4, <2>5
<1>7. ASSUME AreApart(M) PROVE AreApart(L) /\ \A m \in ToSet(L) : m.key # e.key
  <2>1. ASSUME NEW i \in 1..Len(L), NEW j \in 1..Len(L), L[i].key = L[j].key PROVE i = j
    <3>1. i + 1 = j + 1
      BY <1>4, <1>7, <2>1 DEF AreApart
    <3> QED BY <3>1
  <2>2. ASSUME NEW m \in ToSet(L), m.key = e.key PROVE FALSE
    <3>1. PICK i \in 1..Len(L) : m = L[i]
      BY <2>2 DEF ToSet
    <3>2. 1 \in 1..Len(M)
      BY <1>2, <1>3
    <3> QED BY <1>3, <1>4, <1>7, <2>2, <3>1, <3>2 DEF AreApart
  <2> QED BY <2>1, <2>2 DEF AreApart
<1> QED BY <1>6, <1>7 DEF M

(* The loop of decodeStruct reads the members, however many there are.     *)
LEMMA MembersRead ==
  ASSUME NEW S, NEW g, MembersOf(g, S)
  PROVE  \A L \in Seq(S) : AreApart(L) => MembersAre(Joined[Mapped(g, L)], ToSet(L))
<1> DEFINE P == {L \in Seq(S) : AreApart(L) => MembersAre(Joined[Mapped(g, L)], ToSet(L))}
<1>1. <<>> \in P
  <2>1. Joined[Mapped(g, <<>>)] = <<>>
    BY JoinedNone
  <2>2. <<>> \in Seq(S) /\ ToSet(<<>>) = {}
    BY EmptySeq DEF ToSet
  <2> QED BY <2>1, <2>2, NoMembers
<1>2. ASSUME NEW L \in Seq(S), NEW e \in S, L \in P
      PROVE  <<e>> \o L \in P
  <2> DEFINE J == Joined[Mapped(g, L)]
             K == Joined[Mapped(g, <<e>> \o L)]
  <2>1. AreApart(L) => MembersAre(J, ToSet(L))
    BY <1>2
  <2>2. PICK t : Decoded(t, e.val) /\ Same(g[e], MemberText(e.key, t))
    BY DEF MembersOf
  <2>3. Same(K, g[e] \o J)
    BY JoinedCons DEF MembersOf
  <2>4. <<e>> \o L \in Seq(S) /\ IsMember(e)
    BY ConsTail DEF MembersOf
  <2>5. /\ ToSet(<<e>> \o L) = {e} \cup ToSet(L)
        /\ AreApart(<<e>> \o L) => AreApart(L) /\ \A m \in ToSet(L) : m.key # e.key
    BY ApartCons
  <2> HIDE DEF J, K
  <2>6. ASSUME AreApart(<<e>> \o L) PROVE MembersAre(K, ToSet(<<e>> \o L))
    <3>1. MembersAre(J, ToSet(L)) /\ \A m \in ToSet(L) : m.key # e.key
      BY <2>1, <2>5, <2>6
    <3>2. MembersAre(MemberText(e.key, t) \o J, {e} \cup ToSet(L))
      BY <2>2, <2>4, <3>1, MoreMembers
    <3> QED BY <2>2, <2>3, <2>5, <3>2, Zenon DEF Same
  <2> QED BY <2>4, <2>6 DEF K
<1> HIDE DEF P
<1>3. Seq(S) \subseteq P
  BY <1>1, <1>2, TailInduction
<1> QED BY <1>3 DEF P

(* The members of a set, one after the other.                              *)
LEMMA Listed ==
  ASSUME NEW S, IsFiniteSet(S)
  PROVE  LET L == SetToSeq(S)
         IN  /\ L \in Seq(S) /\ ToSet(L) = S
             /\ \A i, j \in 1..Len(L) : L[i] = L[j] => i = j
<1> DEFINE n == Cardinality(S)
           L == SetToSeq(S)
<1>1. n \in Nat /\ ExistsBijection(1..n, S)
  BY FS_CardinalityType
<1>2. PICK f : f \in Bijection(1..n, S)
  BY <1>1 DEF ExistsBijection
<1>3. f \in [1..n -> S] /\ IsInjective(f)
  BY <1>2 DEF Bijection, Injection, IsInjective
<1>4. L \in [1..n -> S] /\ IsInjective(L)
  BY <1>3, Zenon DEF SetToSeq
<1> HIDE DEF n, L
<1>5. L \in Injection(1..n, S)
  BY <1>4 DEF Injection, IsInjective
<1>6. IsFiniteSet(1..n) /\ Cardinality(1..n) = n
  BY <1>1, FS_Interval
<1>7. L \in Surjection(1..n, S)
  BY <1>5, <1>6, FS_Injection DEF n
<1>8. Len(L) = n /\ L \in Seq(S)
  BY <1>1, <1>4
<1>9. ToSet(L) = S
  BY <1>4, <1>7, <1>8 DEF Surjection, ToSet
<1>10. \A i, j \in 1..n : L[i] = L[j] => i = j
  BY <1>4 DEF IsInjective
<1> QED BY <1>8, <1>9, <1>10 DEF L

(* decodeStruct reads back what encodeStruct has written.                  *)
LEMMA StructReads ==
  ASSUME NEW S, NEW encode, \A m \in S : IsMember(m) /\ Decoded(encode[m.val], m.val),
         IsFiniteSet(S), \A i, j \in S : i.key = j.key => i = j
  PROVE  IsTextOf(EncodeStruct(encode, Struct(S)), Struct(S))
<1> DEFINE c == EncodeStruct(encode, Struct(S))
           g == [m \in S |-> EncodeMember(encode, m)]
           L == SetToSeq(S)
           J == Joined[Mapped(g, L)]
           v == Struct(S)
           ts == "struct>"
           es == "/struct>"
           tm == "member>"
<1>1. ts \in Chars /\ es \in Chars
  BY StringsAssumption DEF Tags, EndTags, Chars
<1>2. es # tm
  OBVIOUS
<1>3. \A m \in S : EncodeMember(encode, m) = MemberText(m.key, encode[m.val])
  BY DEF EncodeMember, MemberText
<1>4. MembersOf(g, S)
  <2>1. \A m \in S : MemberText(m.key, encode[m.val]) \in Texts
    <3> SUFFICES ASSUME NEW m \in S PROVE MemberText(m.key, encode[m.val]) \in Texts
      OBVIOUS
    <3> DEFINE t == encode[m.val]
    <3>1. m.key \in Texts /\ t \in Texts /\ Decoded(t, m.val)
      BY DEF IsMember, Decoded
    <3>2. MembersAre(<<>>, {}) /\ IsMember(m)
      BY NoMembers
    <3> HIDE DEF t
    <3>3. MembersAre(MemberText(m.key, t) \o <<>>, {m} \cup {})
      BY <3>1, <3>2, MoreMembers
    <3> DEFINE tn == "name>"
               en == "/name>"
               ta == "member>"
               te == "/member>"
               f == Tagged(tn, m.key, en)
    <3>4. tn \in Chars /\ en \in Chars /\ ta \in Chars /\ te \in Chars
      BY StringsAssumption DEF Tags, EndTags, Chars
    <3>5. f \in Texts
      <4> HIDE DEF tn, en
      <4>1. ASSUME NEW y \in Texts
            PROVE  f \in Texts /\ Same(f \o y, Tag(tn) \o (m.key \o (Tag(en) \o y)))
        BY <3>1, <3>4, TaggedFirst
      <4> HIDE DEF f
      <4> QED BY <3>1, <4>1
    <3>6. Line(f) \in Texts /\ Line(t) \in Texts
      <4> HIDE DEF f
      <4>1. ASSUME NEW y \in Texts
            PROVE  Line(f) \in Texts /\ Same(Line(f) \o y, f \o (<<" ">> \o y))
        BY <3>5, LineFirst
      <4>2. ASSUME NEW y \in Texts
            PROVE  Line(t) \in Texts /\ Same(Line(t) \o y, t \o (<<" ">> \o y))
        BY <3>1, LineFirst
      <4> QED BY <3>1, <4>1, <4>2
    <3>7. Line(Tag(ta)) \in Texts /\ Line(Tag(te)) \in Texts
      <4> HIDE DEF ta, te
      <4> QED BY <3>1, <3>4, LinedTag
    <3> DEFINE a == Line(Tag(ta))
               b == Line(f)
               h == Line(t)
               e == Line(Tag(te))
    <3>8. IsLong(a, b, h, e)
      <4> HIDE DEF a, b, h, e
      <4> QED BY <3>6, <3>7, FourLong DEF a, b, h, e
    <3> QED BY <3>8 DEF MemberText, IsLong, t
  <2>2. g \in [S -> Texts]
    BY <1>3, <2>1
  <2>3. \A m \in S : Same(g[m], MemberText(m.key, encode[m.val]))
    BY <1>3 DEF Same
  <2> HIDE DEF g
  <2> QED BY <2>2, <2>3 DEF MembersOf
<1>5. L \in Seq(S) /\ ToSet(L) = S /\ AreApart(L) /\ \A i \in 1..Len(L) : L[i] \in S
  <2>1. L \in Seq(S) /\ ToSet(L) = S /\ \A i, j \in 1..Len(L) : L[i] = L[j] => i = j
    BY Listed
  <2> HIDE DEF L
  <2>2. \A i \in 1..Len(L) : L[i] \in S
    BY <2>1, ElementOfSeq
  <2> QED BY <2>1, <2>2 DEF AreApart
<1>6. MembersAre(J, S)
  <2> HIDE DEF g, L
  <2> QED BY <1>4, <1>5, MembersRead
<1>7. [i \in 1..Len(L) |-> EncodeMember(encode, L[i])] = Mapped(g, L)
  <2> HIDE DEF L
  <2> QED BY <1>5 DEF Mapped
<1>8. c = Line(<<>>) \o Line(Tag(ts)) \o J \o Line(Tag(es))
  <2> HIDE DEF g
  <2>1. v.members = S
    BY DEF Struct, Value
  <2> HIDE DEF v
  <2>2. EncodeStruct(encode, v) =
          Line(<<>>) \o Line(Tag(ts))
            \o Joined[[i \in 1..Len(SetToSeq(v.members)) |-> EncodeMember(encode, SetToSeq(v.members)[i])]]
            \o Line(Tag(es))
    BY DEF EncodeStruct
  <2> QED BY <1>7, <2>1, <2>2 DEF v
<1> HIDE DEF g, J, v, L
<1>9. J \in Texts /\ Len(J) \in Nat
  BY <1>6, Nothing DEF MembersAre
<1> DEFINE l == Line(<<>>)
           p == Line(Tag(ts))
           s == Line(Tag(es))
<1>10. p \in Texts /\ s \in Texts /\ Len(p) = 3 /\ Len(s) = 3
  <2> HIDE DEF ts, es
  <2> QED BY <1>1, <1>9, LinedTag
<1>11. l \in Texts /\ Len(l) = 1
  <2> DEFINE z == <<>>
  <2>1. z \in Texts /\ Len(z) = 0
    BY <1>9, Nothing
  <2> HIDE DEF z
  <2>2. ASSUME NEW x \in Texts PROVE Line(z) \in Texts /\ Len(Line(z)) = Len(z) + 1
    BY <2>1, LineFirst
  <2> QED BY <2>1, <2>2 DEF z
<1>12. IsLong(l, p, J, s)
  <2> HIDE DEF l, p, s
  <2> QED BY <1>9, <1>10, <1>11, FourLong
<1>13. c \in Texts /\ Len(c) >= Len(J) + 1 /\ Len(c) \in Nat
  <2>1. c = ((l \o p) \o J) \o s
    BY <1>8
  <2> HIDE DEF l, p, s, c
  <2>2. c \in Texts /\ Len(c) = Len(l) + Len(p) + Len(J) + Len(s)
    BY <1>12, <2>1 DEF IsLong
  <2>3. Len(l) = 1 /\ Len(p) = 3 /\ Len(s) = 3
    BY <1>10, <1>11
  <2> QED BY <1>9, <2>2, <2>3
<1>14. ASSUME NEW d, \E n \in Nat : n >= Len(c) /\ d = Decoders[n], NEW y, Solid(y)
       PROVE  c \o y \in Texts /\ Solid(Chomp[c \o y]) /\ Content(d, c \o y) = {Result(v, y)}
  <2> DEFINE s3 == s \o y
             s2 == J \o s3
             s1 == p \o s2
             s0 == l \o s1
  <2>1. y \in Texts
    BY <1>14 DEF Solid
  <2>2. s3 \in Texts /\ Solid(s3) /\ ~IsPrefix(Tag(tm), s3)
    <3> HIDE DEF es, tm
    <3> QED BY <1>1, <1>2, <2>1, LinedTag
  <2>3. Solid(s2) /\ d.members[s2] = {Result(S, s3)}
    <3> HIDE DEF s3, c
    <3>1. PICK n \in Nat : n >= Len(c) /\ d = Decoders[n]
      BY <1>14
    <3>2. n >= Len(J) + 1
      BY <1>9, <1>13, <3>1
    <3> QED BY <1>6, <2>2, <3>1, <3>2, Zenon DEF MembersAre, tm
  <2>4. s2 \in Texts
    BY <2>3 DEF Solid
  <2>5. s1 \in Texts /\ Solid(s1) /\ <<" ">> \o s2 \in Texts /\ Same(s1, Tag(ts) \o (<<" ">> \o s2))
    <3> HIDE DEF ts, s2
    <3> QED BY <1>1, <2>4, LinedTag
  <2>6. s0 = <<" ">> \o s1
    <3> HIDE DEF s1
    <3>1. <<>> \in Texts
      BY <2>1, Nothing
    <3>2. Same(l \o s1, <<>> \o (<<" ">> \o s1)) /\ <<" ">> \o s1 \in Texts
      BY <2>5, <3>1, LineFirst
    <3>3. <<>> \o (<<" ">> \o s1) = <<" ">> \o s1
      <4> DEFINE z == <<" ">> \o s1
      <4>1. z \in Texts
        BY <3>2
      <4> HIDE DEF z
      <4> QED BY <4>1, Nothing DEF z
    <3> QED BY <3>2, <3>3 DEF Same
  <2>7. c \o y = s0
    <3>1. Same((((l \o p) \o J) \o s) \o y, l \o (p \o (J \o (s \o y))))
      <4> HIDE DEF l, p, s
      <4> QED BY <1>9, <1>10, <1>11, <2>1, Four
    <3>2. c = ((l \o p) \o J) \o s
      BY <1>8
    <3> HIDE DEF l, p, s, c
    <3> QED BY <3>1, <3>2 DEF Same
  <2>8. Leads(s0, s1)
    <3> HIDE DEF s1, s0
    <3> QED BY <2>5, <2>6, Leading
  <2> DEFINE t == <<" ">> \o s2
  <2>9. t \in Texts /\ s1 = Tag(ts) \o t
    BY <2>5 DEF Same
  <2>10. Calls(d, ts, t, s0)
    <3> HIDE DEF t, s1, s0, ts
    <3> QED BY <1>1, <2>8, <2>9, ContentOf
  <2>11. Content(d, s0) = Closed(es, UNION {DecodeStruct(d, u) : u \in Skip(Tag(ts), {s1})})
    <3> HIDE DEF t, s1, s0
    <3> QED BY <2>9, <2>10 DEF Calls
  <2>12. Skip(Tag(ts), {s1}) = {s2}
    <3> HIDE DEF ts, s2
    <3> QED BY <1>1, <2>3, LinedSkip
  <2>13. Closed(es, {Result(v, s3)}) = {Result(v, y)}
    <3> HIDE DEF es
    <3> QED BY <1>1, <1>14, LinedClosed
  <2> HIDE DEF s0, s1, s2, s3
  <2>14. DecodeStruct(d, s2) = {Result(v, s3)}
    <3>1. \A e \in {Result(S, s3)} : e.val = S /\ e.rest = s3
      BY DEF Result
    <3>2. {Result(Struct(e.val), e.rest) : e \in {Result(S, s3)}} = {Result(v, s3)}
      BY <3>1 DEF v
    <3> QED BY <2>3, <3>2 DEF DecodeStruct
  <2>15. Content(d, s0) = {Result(v, y)}
    <3>1. UNION {DecodeStruct(d, u) : u \in {s2}} = DecodeStruct(d, s2)
      OBVIOUS
    <3> QED BY <2>11, <2>12, <2>13, <2>14, <3>1
  <2>16. s0 \in Texts /\ Chomp[s0] = s1
    BY <2>8 DEF Leads
  <2> QED BY <2>5, <2>7, <2>15, <2>16
<1> HIDE DEF c
<1>15. ASSUME NEW n \in Nat, n >= Len(c) PROVE Reads(Decoders[n], c, v)
  <2> DEFINE d == Decoders[n]
  <2>1. \E m \in Nat : m >= Len(c) /\ d = Decoders[m]
    BY <1>15
  <2> HIDE DEF d
  <2>2. \A y : Solid(y) =>
          c \o y \in Texts /\ Solid(Chomp[c \o y]) /\ Content(d, c \o y) = {Result(v, y)}
    BY <1>14, <2>1
  <2> QED BY <1>13, <2>2, Zenon DEF Reads, d
<1>16. IsTextOf(c, v)
  BY <1>13, <1>15 DEF IsTextOf
<1> QED BY <1>16 DEF c, v

-----------------------------------------------------------------------------
(* Values of every depth.                                                  *)

(* Those of a depth whose text keeps what they are: their scalars do, and  *)
(* no name of a member has the end of a name in it.                        *)
Kept[n \in Nat] ==
  KeptScalars
    \cup IF n = 0 THEN {}
         ELSE {v \in Compounds(Kept[n - 1]) : \A m \in v.members : Found(Tag("/name>"), m.key) = {}}

KeptDef(f, n) ==
  KeptScalars
    \cup IF n = 0 THEN {}
         ELSE {v \in Compounds(f[n - 1]) : \A m \in v.members : Found(Tag("/name>"), m.key) = {}}
KeptR == INSTANCE Recursion WITH Domain <- Nat, Measure <- Itself, Def <- KeptDef

(* Kept (values whose text keeps what they are) is what its definition says. *)
LEMMA KeptDefined == \A n \in Nat : Kept[n] = KeptDef(Kept, n)
<1>1. KeptR!IsMeasure
  BY DEF KeptR!IsMeasure, Itself
<1>2. KeptR!IsRecursive
  <2> SUFFICES ASSUME NEW n \in Nat, NEW g, NEW h,
                      \A m \in Nat : Itself(m) < Itself(n) => g[m] = h[m]
               PROVE  KeptDef(g, n) = KeptDef(h, n)
    BY Zenon DEF KeptR!IsRecursive
  <2>1. n # 0 => g[n - 1] = h[n - 1]
    BY DEF Itself
  <2>2. CASE n = 0
    BY <2>2 DEF KeptDef
  <2>3. CASE n # 0
    BY <2>1, <2>3, Zenon DEF KeptDef
  <2> QED BY <2>2, <2>3
<1>3. \E f : f = [n \in Nat |-> KeptDef(f, n)]
  BY <1>1, <1>2, KeptR!RecursionDefines
<1>4. Kept = [n \in Nat |-> KeptDef(Kept, n)]
  BY <1>3, Zenon DEF Kept, KeptDef
<1> QED BY <1>4

(* A value with others in it is read from its text if they are.            *)
LEMMA CompoundRead ==
  ASSUME NEW S, NEW encode, \A w \in S : Decoded(encode[w], w),
         NEW v \in Compounds(S), \A m \in v.members : Found(Tag("/name>"), m.key) = {}
  PROVE  Decoded(EncodeValue(encode, v), v)
<1>1. CASE v \in [type : {"array"}, nums : {<<>>}, text : {<<>>}, elems : Seq(S), members : {{}}]
  <2>1. v.type = "array" /\ v.elems \in Seq(S)
    BY <1>1
  <2>2. v = Array(v.elems)
    BY <1>1 DEF Array, Value
  <2> DEFINE c == EncodeArray(encode, v)
  <2>3. EncodeValue(encode, v) = Tagged("value>", c, "/value>")
    BY <2>1 DEF EncodeValue
  <2>4. IsTextOf(c, v)
    <3> DEFINE L == v.elems
    <3>1. L \in Seq(S) /\ v = Array(L)
      BY <2>1, <2>2
    <3> HIDE DEF L
    <3>2. IsTextOf(EncodeArray(encode, Array(L)), Array(L))
      BY <3>1, ArrayReads
    <3> QED BY <3>1, <3>2
  <2> HIDE DEF c
  <2> QED BY <2>3, <2>4, DecodedBy
<1>2. CASE v \in [type : {"struct"}, nums : {<<>>}, text : {<<>>}, elems : {<<>>}, members : Dicts(S)]
  <2>1. v.type = "struct" /\ v.members \in Dicts(S)
    BY <1>2
  <2>2. v = Struct(v.members)
    BY <1>2 DEF Struct, Value
  <2> DEFINE c == EncodeStruct(encode, v)
  <2>3. EncodeValue(encode, v) = Tagged("value>", c, "/value>")
    BY <2>1 DEF EncodeValue
  <2>4. IsTextOf(c, v)
    <3> DEFINE M == v.members
    <3>1. M \in Dicts(S) /\ v = Struct(M)
      BY <2>1, <2>2
    <3>2. \A m \in M : IsMember(m) /\ Decoded(encode[m.val], m.val)
      <4> SUFFICES ASSUME NEW m \in M PROVE IsMember(m) /\ Decoded(encode[m.val], m.val)
        OBVIOUS
      <4>1. m \in [key : Texts, val : S]
        BY <3>1 DEF Dicts
      <4>2. m = Member(m.key, m.val) /\ m.key \in Texts /\ m.val \in S
        BY <4>1 DEF Member
      <4> QED BY <4>2 DEF IsMember
    <3>3. IsFiniteSet(M) /\ \A i, j \in M : i.key = j.key => i = j
      BY <3>1 DEF Dicts
    <3> HIDE DEF M
    <3>4. IsTextOf(EncodeStruct(encode, Struct(M)), Struct(M))
      BY <3>2, <3>3, StructReads
    <3> QED BY <3>1, <3>4
  <2> HIDE DEF c
  <2> QED BY <2>3, <2>4, DecodedBy
<1> QED BY <1>1, <1>2 DEF Compounds

(* More values are in more arrays and structs.                             *)
LEMMA CompoundsOf ==
  ASSUME NEW S, NEW T, S \subseteq T
  PROVE  Compounds(S) \subseteq Compounds(T)
<1>1. Seq(S) \subseteq Seq(T)
  OBVIOUS
<1>2. [key : Texts, val : S] \subseteq [key : Texts, val : T]
  OBVIOUS
<1>3. Dicts(S) \subseteq Dicts(T)
  BY <1>2 DEF Dicts
<1> QED BY <1>1, <1>3 DEF Compounds

(* Each value of a depth is read from the text that it is built to.        *)
LEMMA KeptRead == \A n \in Nat : \A v \in Kept[n] : v \in Values[n] /\ Decoded(Encoders[n][v], v)
<1> DEFINE P == {n \in Nat : \A v \in Kept[n] : v \in Values[n] /\ Decoded(Encoders[n][v], v)}
<1>1. ASSUME NEW n \in Nat, n # 0 => n - 1 \in P
      PROVE  n \in P
  <2> DEFINE encode == IF n = 0 THEN <<>> ELSE Encoders[n - 1]
  <2> SUFFICES ASSUME NEW v \in Kept[n] PROVE v \in Values[n] /\ Decoded(Encoders[n][v], v)
    OBVIOUS
  <2>1. ASSUME v \in Values[n] PROVE Encoders[n][v] = EncodeValue(encode, v)
    <3>1. Encoders[n] = EncodersWith(encode, n)
      BY EncodersDefined
    <3> HIDE DEF encode
    <3> QED BY <2>1, <3>1 DEF EncodersWith
  <2>2. Values[n] = Scalars \cup (IF n = 0 THEN {} ELSE Compounds(Values[n - 1]))
    BY ValuesDefined
  <2>3. Kept[n] = KeptDef(Kept, n)
    BY KeptDefined
  <2>4. CASE v \in KeptScalars
    <3>1. v \in Values[n]
      BY <2>2, <2>4 DEF KeptScalars
    <3> HIDE DEF encode
    <3>2. Decoded(EncodeValue(encode, v), v)
      BY <2>4, ScalarRead
    <3> QED BY <2>1, <3>1, <3>2
  <2>5. CASE v \notin KeptScalars
    <3>1. /\ n # 0 /\ v \in Compounds(Kept[n - 1])
          /\ \A m \in v.members : Found(Tag("/name>"), m.key) = {}
      BY <2>3, <2>5 DEF KeptDef
    <3> DEFINE S == Kept[n - 1]
    <3>2. \A w \in S : w \in Values[n - 1] /\ Decoded(Encoders[n - 1][w], w)
      BY <1>1, <3>1
    <3>3. encode = Encoders[n - 1]
      BY <3>1
    <3> HIDE DEF S, encode, P
    <3>4. \A w \in S : Decoded(encode[w], w)
      BY <3>2, <3>3
    <3>5. S \subseteq Values[n - 1]
      BY <3>2
    <3>6. v \in Compounds(Values[n - 1])
      BY <3>1, <3>5, CompoundsOf DEF S
    <3>7. v \in Values[n]
      BY <2>2, <3>1, <3>6
    <3>8. Decoded(EncodeValue(encode, v), v)
      BY <3>1, <3>4, CompoundRead DEF S
    <3> QED BY <2>1, <3>7, <3>8
  <2> QED BY <2>4, <2>5
<1> HIDE DEF P
<1>2. 0 \in P
  BY <1>1
<1>3. ASSUME NEW n \in Nat, n \in P PROVE n + 1 \in P
  <2>1. n + 1 \in Nat /\ (n + 1) - 1 = n
    OBVIOUS
  <2> QED BY <1>1, <1>3, <2>1
<1>4. Nat \subseteq P
  BY <1>2, <1>3, NaturalInduction
<1> QED BY <1>4 DEF P

(* What encodeValue builds, decodeValue reads: the value, of whatever      *)
(* depth, and nothing else, whatever text follows; the cursor is where     *)
(* chompStr brings it behind the value.                                    *)
THEOREM ValuesSurvive ==
  \A v \in Kept[Depth], x \in Texts : Decode(Encode(v) \o x) = {Result(v, Chomp[x])}
<1> SUFFICES ASSUME NEW v \in Kept[Depth], NEW x \in Texts
             PROVE  Decode(Encode(v) \o x) = {Result(v, Chomp[x])}
  OBVIOUS
<1> DEFINE t == Encode(v)
<1>1. Decoded(t, v)
  <2>1. Depth \in Nat
    BY CodecAssumption
  <2> QED BY <2>1, KeptRead DEF Encode
<1> HIDE DEF t
<1>2. t \in Texts
  BY <1>1 DEF Decoded
<1>3. t \o x \in Texts /\ Len(t \o x) = Len(t) + Len(x) /\ Len(t) \in Nat /\ Len(x) \in Nat
  BY <1>2, Concat
<1> DEFINE n == Len(t \o x)
<1>4. n \in Nat /\ n >= Len(t)
  BY <1>3
<1> HIDE DEF n
<1>5. Decoders[n].value[t \o x] = {Result(v, Chomp[x])}
  BY <1>1, <1>4 DEF Decoded
<1>6. Decode(t \o x) = Decoders[n].value[t \o x]
  BY DEF Decode, n
<1> QED BY <1>5, <1>6 DEF t
=============================================================================
