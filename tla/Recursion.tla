----------------------------- MODULE Recursion -----------------------------
(***************************************************************************)
(* Functions that are defined by recursion: F[x] by Def(F, x), where Def   *)
(* looks at F only for what has a smaller measure than x.  Such a function *)
(* exists, so it is what its definition says.  Other modules instantiate   *)
(* the constants with their own functions.                                 *)
(***************************************************************************)
EXTENDS Integers, TLAPS, WellFoundedInduction

CONSTANTS Domain, Measure(_), Def(_, _)

IsMeasure == \A x \in Domain : Measure(x) \in Nat
IsRecursive ==
  \A x \in Domain : \A g, h :
    (\A y \in Domain : Measure(y) < Measure(x) => g[y] = h[y]) => Def(g, x) = Def(h, x)

-----------------------------------------------------------------------------
(* The smallest number of a set.                                           *)
LEMMA Smallest ==
  ASSUME NEW S, S \subseteq Nat, S # {}
  PROVE  \E x \in S : \A y \in S : x <= y
<1> DEFINE R == {ss \in Nat \X Nat : ss[1] < ss[2]}
<1>1. IsWellFoundedOn(R, Nat)
  BY NatLessThanWellFounded DEF OpToRel
<1>2. PICK x \in S : \A y \in S : ~(<<y, x>> \in R)
  <2> HIDE DEF R
  <2> QED BY <1>1, WFMin
<1>3. ASSUME NEW y \in S PROVE x <= y
  <2>1. x \in Nat /\ y \in Nat /\ ~(<<y, x>> \in R)
    BY <1>2
  <2>2. ~(y < x)
    BY <2>1
  <2> QED BY <2>1, <2>2
<1> QED BY <1>3

(* What the function is below a measure.                                   *)
Below(n) == {x \in Domain : Measure(x) < n}
IsPart(g, n) == g = [x \in Below(n) |-> Def(g, x)]

LEMMA PartsAgree ==
  ASSUME IsMeasure, IsRecursive,
         NEW m \in Nat, NEW n \in Nat, NEW g, NEW h, IsPart(g, m), IsPart(h, n)
  PROVE  \A x \in Below(m) \cap Below(n) : g[x] = h[x]
<1> DEFINE Bad == {x \in Below(m) \cap Below(n) : g[x] # h[x]}
           S == {Measure(x) : x \in Bad}
<1> SUFFICES ASSUME Bad # {} PROVE FALSE
  OBVIOUS
<1>1. S \subseteq Nat /\ S # {}
  BY DEF IsMeasure, Below
<1>2. PICK k \in S : \A j \in S : k <= j
  <2> HIDE DEF S
  <2> QED BY <1>1, Smallest
<1>3. PICK x \in Bad : Measure(x) = k
  OBVIOUS
<1>4. \A y \in Domain : Measure(y) < Measure(x) => y \in Below(m) \cap Below(n) /\ Measure(y) \in Nat /\ Measure(x) \in Nat
  BY <1>3 DEF IsMeasure, Below
<1>5. \A y \in Domain : Measure(y) < Measure(x) => g[y] = h[y]
  <2> SUFFICES ASSUME NEW y \in Domain, Measure(y) < Measure(x), g[y] # h[y] PROVE FALSE
    OBVIOUS
  <2>1. y \in Bad
    BY <1>4
  <2>2. k <= Measure(y)
    BY <2>1, <1>2
  <2> QED BY <2>2, <1>3, <1>4
<1>6. Def(g, x) = Def(h, x)
  BY <1>5 DEF IsRecursive, Below
<1> QED BY <1>6 DEF IsPart

LEMMA PartsExist ==
  ASSUME IsMeasure, IsRecursive
  PROVE  \A n \in Nat : \E g : IsPart(g, n)
<1> DEFINE Bad == {n \in Nat : ~\E g : IsPart(g, n)}
<1> SUFFICES ASSUME Bad # {} PROVE FALSE
  OBVIOUS
<1>1. PICK n \in Bad : \A m \in Bad : n <= m
  <2>1. Bad \subseteq Nat
    OBVIOUS
  <2> HIDE DEF Bad
  <2> QED BY <2>1, Smallest
<1>2. CASE n = 0
  <2>1. Below(0) = {}
    BY DEF Below, IsMeasure
  <2>2. IsPart([x \in {} |-> x], 0)
    BY <2>1 DEF IsPart
  <2> QED BY <2>2, <1>2
<1>3. CASE n # 0
  <2>1. n - 1 \in Nat /\ n - 1 \notin Bad
    BY <1>3, <1>1
  <2>2. PICK g : IsPart(g, n - 1)
    BY <2>1
  <2> DEFINE h == [x \in Below(n) |-> IF Measure(x) < n - 1 THEN g[x] ELSE Def(g, x)]
  <2>3. ASSUME NEW x \in Below(n) PROVE h[x] = Def(h, x)
    <3>1. h[x] = Def(g, x)
      BY <2>2 DEF IsPart, Below
    <3>2. \A y \in Domain : Measure(y) < Measure(x) => h[y] = g[y]
      BY DEF Below, IsMeasure
    <3>3. Def(h, x) = Def(g, x)
      <4> HIDE DEF h
      <4> QED BY <3>2 DEF IsRecursive, Below
    <3> QED BY <3>1, <3>3
  <2>4. IsPart(h, n)
    <3>1. h = [x \in Below(n) |-> h[x]]
      OBVIOUS
    <3> HIDE DEF h
    <3> QED BY <3>1, <2>3 DEF IsPart
  <2> QED BY <2>4
<1> QED BY <1>2, <1>3

(* A function that is defined by recursion exists.                         *)
THEOREM RecursionDefines ==
  ASSUME IsMeasure, IsRecursive
  PROVE  \E f : f = [x \in Domain |-> Def(f, x)]
<1> DEFINE Part(n) == CHOOSE g : IsPart(g, n)
           f == [x \in Domain |-> Part(Measure(x) + 1)[x]]
<1>1. \A n \in Nat : IsPart(Part(n), n)
  BY PartsExist
<1> HIDE DEF Part
<1>2. ASSUME NEW x \in Domain PROVE f[x] = Def(f, x)
  <2>0. Measure(x) \in Nat /\ Measure(x) + 1 \in Nat /\ x \in Below(Measure(x) + 1)
    BY DEF IsMeasure, Below
  <2>1. f[x] = Def(Part(Measure(x) + 1), x)
    BY <2>0, <1>1 DEF IsPart
  <2>2. ASSUME NEW y \in Domain, Measure(y) < Measure(x)
        PROVE  f[y] = Part(Measure(x) + 1)[y]
    <3>1. /\ Measure(y) \in Nat /\ Measure(y) + 1 \in Nat
          /\ y \in Below(Measure(y) + 1) /\ y \in Below(Measure(x) + 1)
      BY <2>0, <2>2 DEF IsMeasure, Below
    <3>2. Part(Measure(y) + 1)[y] = Part(Measure(x) + 1)[y]
      BY <3>1, <2>0, <1>1, PartsAgree
    <3> QED BY <3>2
  <2>3. Def(f, x) = Def(Part(Measure(x) + 1), x)
    <3> HIDE DEF f
    <3> QED BY <2>2 DEF IsRecursive
  <2> QED BY <2>1, <2>3
<1>3. f = [x \in Domain |-> f[x]]
  OBVIOUS
<1> HIDE DEF f
<1>4. f = [x \in Domain |-> Def(f, x)]
  BY <1>2, <1>3
<1> QED BY <1>4
=============================================================================
