----------------------------- MODULE TextProofs -----------------------------
(***************************************************************************)
(* What the proofs about texts need: their parts and how they are put      *)
(* together, least and greatest numbers, and induction over numbers and    *)
(* sequences, where what is proved by it is membership in a set.           *)
(***************************************************************************)
EXTENDS Framing, TLAPS, SequenceTheorems, WellFoundedInduction

-----------------------------------------------------------------------------
(* Texts.                                                                  *)

(* The start of a text and the rest of it.                                 *)
LEMMA TakeDrop ==
  ASSUME NEW w \in Texts, NEW n \in 0..Len(w)
  PROVE  /\ SubSeq(w, 1, n) \in Texts /\ Len(SubSeq(w, 1, n)) = n
         /\ Drop(w, n) \in Texts /\ Len(Drop(w, n)) = Len(w) - n
         /\ SubSeq(w, 1, n) \o Drop(w, n) = w
<1>0. Len(w) \in Nat /\ w \in [1..Len(w) -> STRING]
  BY LenProperties DEF Texts
<1>1. SubSeq(w, 1, n) \in Texts /\ Len(SubSeq(w, 1, n)) = n
  <2>1. \A i \in 1..n : w[i] \in STRING
    BY <1>0
  <2> QED BY <1>0, <2>1, SubSeqProperties DEF Texts
<1>2. Drop(w, n) \in Texts /\ Len(Drop(w, n)) = Len(w) - n
  <2>1. \A i \in (n + 1)..Len(w) : w[i] \in STRING
    BY <1>0
  <2>2. /\ SubSeq(w, n + 1, Len(w)) \in Seq(STRING)
        /\ Len(SubSeq(w, n + 1, Len(w))) = IF n + 1 <= Len(w) THEN Len(w) - (n + 1) + 1 ELSE 0
    BY <1>0, <2>1, SubSeqProperties
  <2>3. \A m \in Nat : \A k \in 0..m : (IF k + 1 <= m THEN m - (k + 1) + 1 ELSE 0) = m - k
    OBVIOUS
  <2> QED BY <1>0, <2>2, <2>3 DEF Texts, Drop
<1>3. SubSeq(w, 1, n) \o SubSeq(w, n + 1, Len(w)) = SubSeq(w, 1, Len(w))
  <2>1. 1 \in 1..(Len(w) + 1) /\ n \in (1 - 1)..Len(w) /\ Len(w) \in n..Len(w)
    BY <1>0
  <2> QED BY <2>1, ConcatAdjacentSubSeq DEF Texts
<1>4. SubSeq(w, 1, Len(w)) = w
  BY SubSeqFull DEF Texts
<1> QED BY <1>1, <1>2, <1>3, <1>4 DEF Drop

(* Texts that are put together.                                            *)
LEMMA Cancel ==
  ASSUME NEW a \in Texts, NEW b \in Texts, NEW c \in Texts, a \o b = a \o c
  PROVE  b = c
<1>1. \A S : \A s, t, v \in Seq(S) : s \o t = s \o v => t = v
  BY ConcatSimplifications
<1> QED BY <1>1 DEF Texts

(* Named, so that the provers do not apply it again and again.             *)
IsAssociative(a, b, c) == (a \o b) \o c = a \o (b \o c)
LEMMA Associative ==
  ASSUME NEW a \in Texts, NEW b \in Texts, NEW c \in Texts
  PROVE  IsAssociative(a, b, c)
  BY ConcatAssociative DEF Texts, IsAssociative

LEMMA Concat ==
  ASSUME NEW a \in Texts, NEW b \in Texts
  PROVE  /\ a \o b \in Texts /\ Len(a \o b) = Len(a) + Len(b)
         /\ Len(a) \in Nat /\ Len(b) \in Nat
         /\ \A i \in 1..Len(a) : (a \o b)[i] = a[i]
         /\ \A i \in 1..Len(b) : (a \o b)[Len(a) + i] = b[i]
         /\ SubSeq(a \o b, 1, Len(a)) = a /\ Drop(a \o b, Len(a)) = b
<1>1. /\ a \o b \in Texts /\ Len(a \o b) = Len(a) + Len(b)
      /\ \A i \in 1 .. Len(a) + Len(b) : (a \o b)[i] = IF i <= Len(a) THEN a[i] ELSE b[i - Len(a)]
  BY ConcatProperties DEF Texts
<1>2. Len(a) \in Nat /\ Len(b) \in Nat
  BY LenProperties DEF Texts
<1>3. \A i \in 1..Len(a) : (a \o b)[i] = a[i]
  BY <1>1, <1>2
<1>4. \A i \in 1..Len(b) : (a \o b)[Len(a) + i] = b[i]
  BY <1>1, <1>2
<1>5. /\ SubSeq(a \o b, 1, Len(a)) \in Texts /\ Len(SubSeq(a \o b, 1, Len(a))) = Len(a)
      /\ Drop(a \o b, Len(a)) \in Texts
      /\ SubSeq(a \o b, 1, Len(a)) \o Drop(a \o b, Len(a)) = a \o b
  <2>1. Len(a) \in 0..Len(a \o b)
    BY <1>1, <1>2
  <2> QED BY <1>1, <2>1, TakeDrop
<1>6. \A i \in 1..Len(a) : SubSeq(a \o b, 1, Len(a))[i] = a[i]
  <2>1. \A i \in 1..Len(a) : (a \o b)[i] \in STRING
    BY <1>1, <1>2, ElementOfSeq DEF Texts
  <2>2. \A i \in 1..(Len(a) - 1 + 1) : SubSeq(a \o b, 1, Len(a))[i] = (a \o b)[1 + i - 1]
    BY <1>2, <2>1, SubSeqProperties
  <2> QED BY <1>2, <1>3, <2>2
<1>7. SubSeq(a \o b, 1, Len(a)) = a
  BY <1>5, <1>6, SeqEqual DEF Texts
<1>8. Drop(a \o b, Len(a)) = b
  BY <1>5, <1>7, Cancel
<1> QED BY <1>1, <1>2, <1>3, <1>4, <1>7, <1>8

(* What has been read and what is to come are what was sent: a header and  *)
(* what is behind it.  Who has read as much has read the header.           *)
AreSame(p, q, h, X) == p \o q = h \o X
LEMMA Overlap ==
  ASSUME NEW p \in Texts, NEW q \in Texts, NEW h \in Texts, NEW X \in Texts,
         AreSame(p, q, h, X), Len(h) <= Len(p)
  PROVE  SubSeq(p, 1, Len(h)) = h /\ Drop(p, Len(h)) \in Texts /\ Drop(p, Len(h)) \o q = X
<1>1. Len(h) \in Nat /\ Len(p) \in Nat /\ Len(h) \in 0..Len(p)
  BY LenProperties DEF Texts
<1> DEFINE a == SubSeq(p, 1, Len(h))
           b == Drop(p, Len(h))
<1>2. a \in Texts /\ Len(a) = Len(h) /\ b \in Texts /\ a \o b = p
  BY <1>1, TakeDrop
<1> HIDE DEF a, b
<1>3. a \o (b \o q) = h \o X /\ b \o q \in Texts
  <2>0. a \in Texts /\ b \in Texts
    BY <1>2
  <2>1. IsAssociative(a, b, q)
    BY <2>0, Associative
  <2>2. b \o q \in Texts
    BY <2>0, Concat
  <2> QED BY <1>2, <2>1, <2>2 DEF AreSame, IsAssociative
<1>4. a = SubSeq(a \o (b \o q), 1, Len(a)) /\ h = SubSeq(h \o X, 1, Len(h))
  BY <1>2, <1>3, Concat
<1>5. a = h
  BY <1>2, <1>3, <1>4
<1>6. b \o q = X
  BY <1>2, <1>3, <1>5, Cancel
<1> QED BY <1>2, <1>5, <1>6 DEF a, b

LEMMA Nothing == ASSUME NEW t \in Texts
  PROVE  /\ <<>> \in Texts /\ t \o <<>> = t /\ <<>> \o t = t /\ Len(t) \in Nat /\ Len(<<>>) = 0
         /\ (t = <<>> <=> Len(t) = 0)
  BY EmptySeq, ConcatEmptySeq, LenProperties DEF Texts

-----------------------------------------------------------------------------
(* Every set of natural numbers has a least element, and every bounded one *)
(* a greatest.                                                             *)
LEMMA Least ==
  ASSUME NEW S, S \subseteq Nat, S # {}
  PROVE  Min(S) \in S /\ \A y \in S : Min(S) <= y
<1> DEFINE R == {ss \in Nat \X Nat : ss[1] < ss[2]}
<1>0. IsWellFoundedOn(R, Nat)
  BY NatLessThanWellFounded DEF OpToRel
<1>1. PICK x \in S : \A y \in S : ~(<<y, x>> \in R)
  <2> HIDE DEF R
  <2> QED BY <1>0, WFMin
<1>2. ASSUME NEW y \in S PROVE x <= y
  <2>1. x \in Nat /\ y \in Nat /\ ~(<<y, x>> \in R)
    BY <1>1
  <2>2. ~(y < x)
    BY <2>1
  <2> QED BY <2>1, <2>2
<1> QED BY <1>2 DEF Min

LEMMA Greatest ==
  ASSUME NEW S, NEW n \in Nat, S \subseteq 0..n, S # {}
  PROVE  Max(S) \in S /\ \A y \in S : Max(S) >= y
<1> DEFINE T == {n - x : x \in S}
<1>1. T \subseteq Nat /\ T # {}
  <2>1. \A x \in S : x \in 0..n /\ n - x \in Nat
    OBVIOUS
  <2> QED BY <2>1
<1>2. Min(T) \in T /\ \A y \in T : Min(T) <= y
  BY <1>1, Least
<1>3. PICK x \in S : Min(T) = n - x
  BY <1>2
<1>4. \A y \in S : x >= y
  BY <1>2, <1>3
<1> QED BY <1>4 DEF Max

-----------------------------------------------------------------------------
(* Induction.                                                              *)

LEMMA StrongInduction ==
  ASSUME NEW S, \A n \in Nat : (\A m \in Nat : m < n => m \in S) => n \in S
  PROVE  Nat \subseteq S
<1> DEFINE T == {n \in Nat : n \notin S}
<1> SUFFICES ASSUME T # {} PROVE FALSE
  OBVIOUS
<1>1. T \subseteq Nat
  OBVIOUS
<1> HIDE DEF T
<1>2. Min(T) \in T /\ \A y \in T : Min(T) <= y
  BY <1>1, Least
<1> DEFINE k == Min(T)
<1>3. k \in T /\ \A y \in T : k <= y
  BY <1>2
<1> HIDE DEF k
<1>4. \A m \in Nat : m < k => m \in S
  BY <1>3 DEF T
<1> QED BY <1>3, <1>4 DEF T

(* The last element of a sequence and what is before it, the first one and *)
(* what is behind it.                                                      *)
LEMMA FrontLast ==
  ASSUME NEW T, NEW s \in Seq(T), s # <<>>
  PROVE  /\ Front(s) \in Seq(T) /\ Last(s) \in T /\ s = Append(Front(s), Last(s))
         /\ s = Front(s) \o <<Last(s)>>
         /\ Len(s) \in Nat \ {0} /\ Len(Front(s)) = Len(s) - 1 /\ Len(Front(s)) < Len(s)
<1>1. Len(s) \in Nat \ {0} /\ s \in [1..Len(s) -> T]
  BY EmptySeq, LenProperties
<1>2. /\ SubSeq(s, 1, Len(s) - 1) \in Seq(T)
      /\ Len(SubSeq(s, 1, Len(s) - 1)) = IF 1 <= Len(s) - 1 THEN Len(s) - 1 - 1 + 1 ELSE 0
  <2>1. 1 \in Int /\ Len(s) - 1 \in Int /\ \A i \in 1..(Len(s) - 1) : s[i] \in T
    BY <1>1
  <2> HIDE <1>1
  <2> QED BY <2>1, SubSeqProperties
<1>3. Len(SubSeq(s, 1, Len(s) - 1)) = Len(s) - 1
  BY <1>1, <1>2
<1>4. SubSeq(s, 1, Len(s)) = SubSeq(s, 1, Len(s) - 1) \o <<s[Len(s)]>>
  <2>1. 1 \in 1..Len(s) /\ Len(s) \in 1..Len(s)
    BY <1>1
  <2> QED BY <2>1, SubSeqRecursiveSecond
<1>5. SubSeq(s, 1, Len(s)) = s
  BY SubSeqFull
<1>6. s[Len(s)] \in T
  BY <1>1
<1>7. s = Front(s) \o <<Last(s)>>
  BY <1>4, <1>5 DEF Front, Last
<1>9. Len(s) - 1 < Len(s)
  BY <1>1
<1>8. Append(Front(s), Last(s)) = Front(s) \o <<Last(s)>>
  BY <1>2, <1>6, AppendIsConcat DEF Front, Last
<1> QED BY <1>1, <1>2, <1>3, <1>6, <1>7, <1>8, <1>9 DEF Front, Last

LEMMA AppendFront ==
  ASSUME NEW T, NEW s \in Seq(T), NEW e \in T
  PROVE  /\ Append(s, e) \in Seq(T) /\ Append(s, e) # <<>> /\ Append(s, e) = s \o <<e>>
         /\ Front(Append(s, e)) = s /\ Last(Append(s, e)) = e
         /\ Len(Append(s, e)) = Len(s) + 1 /\ Len(s) \in Nat
<1> DEFINE a == Append(s, e)
<1>1. /\ a \in Seq(T) /\ a # <<>> /\ Len(a) = Len(s) + 1 /\ a[Len(s) + 1] = e
      /\ Len(s) \in Nat /\ a = s \o <<e>>
  BY AppendProperties, AppendIsConcat, LenProperties
<1>2. /\ Front(a) \in Seq(T) /\ Last(a) \in T /\ a = Append(Front(a), Last(a))
  BY <1>1, FrontLast
<1>3. s = Front(a) /\ e = Last(a)
  <2> HIDE DEF a
  <2>1. Append(s, e) = Append(Front(a), Last(a))
    BY <1>2 DEF a
  <2> QED BY <1>2, <2>1, AppendInjective
<1> QED BY <1>1, <1>3

LEMMA HeadTail ==
  ASSUME NEW T, NEW s \in Seq(T), s # <<>>
  PROVE  /\ Head(s) \in T /\ Tail(s) \in Seq(T) /\ s = <<Head(s)>> \o Tail(s)
         /\ Len(s) \in Nat \ {0} /\ Len(Tail(s)) = Len(s) - 1 /\ Head(s) = s[1]
         /\ Len(Tail(s)) < Len(s)
<1>1. Len(s) \in Nat \ {0} /\ s \in [1..Len(s) -> T]
  BY EmptySeq, LenProperties
<1>2. Head(s) \in T /\ Tail(s) \in Seq(T) /\ Len(Tail(s)) = Len(s) - 1 /\ Tail(s) = SubSeq(s, 2, Len(s))
  BY HeadTailProperties, TailIsSubSeq
<1>3. SubSeq(s, 1, Len(s)) = <<s[1]>> \o SubSeq(s, 1 + 1, Len(s))
  BY <1>1, SubSeqRecursiveFirst
<1>4. SubSeq(s, 1, Len(s)) = s
  BY SubSeqFull
<1>5. Head(s) = s[1] /\ Len(s) - 1 < Len(s)
  BY <1>1
<1> QED BY <1>1, <1>2, <1>3, <1>4, <1>5

LEMMA ConsTail ==
  ASSUME NEW T, NEW s \in Seq(T), NEW e \in T
  PROVE  /\ <<e>> \o s \in Seq(T) /\ <<e>> \o s # <<>> /\ Len(<<e>> \o s) = Len(s) + 1
         /\ Len(s) \in Nat /\ Head(<<e>> \o s) = e /\ Tail(<<e>> \o s) = s /\ (<<e>> \o s)[1] = e
<1> DEFINE a == <<e>> \o s
<1>0. <<e>> \in Seq(T) /\ Len(<<e>>) = 1 /\ Len(s) \in Nat
  BY LenProperties
<1>1. /\ a \in Seq(T) /\ Len(a) = Len(<<e>>) + Len(s)
      /\ \A i \in 1..Len(<<e>>) + Len(s) : a[i] = IF i <= Len(<<e>>) THEN <<e>>[i] ELSE s[i - Len(<<e>>)]
  BY <1>0, ConcatProperties
<1> HIDE DEF a
<1>2. Len(a) = Len(s) + 1 /\ a # <<>> /\ a[1] = e
  <2>1. Len(a) = Len(s) + 1
    BY <1>0, <1>1
  <2>2. a # <<>>
    BY <2>1, <1>0, EmptySeq
  <2>3. a[1] = e
    BY <1>0, <1>1
  <2> QED BY <2>1, <2>2, <2>3
<1>3. /\ Head(a) \in T /\ Tail(a) \in Seq(T) /\ a = <<Head(a)>> \o Tail(a) /\ Head(a) = a[1]
  BY <1>1, <1>2, HeadTail
<1>4. \A u \in Seq(T) : \A v \in Seq(T) : <<e>> \o u = <<e>> \o v => u = v
  BY <1>0, ConcatSimplifications
<1>5. Tail(a) = s
  <2>1. <<e>> \o Tail(a) = <<e>> \o s
    BY <1>2, <1>3 DEF a
  <2> QED BY <1>3, <1>4, <2>1
<1> QED BY <1>0, <1>1, <1>2, <1>3, <1>5 DEF a

LEMMA FrontInduction ==
  ASSUME NEW T, NEW S, <<>> \in S,
         \A s \in Seq(T) : \A e \in T : s \in S => Append(s, e) \in S
  PROVE  Seq(T) \subseteq S
<1> DEFINE N == {n \in Nat : \A s \in Seq(T) : Len(s) = n => s \in S}
<1>1. ASSUME NEW n \in Nat, \A m \in Nat : m < n => m \in N,
             NEW s \in Seq(T), Len(s) = n
      PROVE  s \in S
  <2>1. CASE s = <<>>
    BY <2>1
  <2>2. CASE s # <<>>
    <3> HIDE DEF N
    <3>0. /\ Front(s) \in Seq(T) /\ Last(s) \in T /\ s = Append(Front(s), Last(s))
          /\ Len(s) \in Nat \ {0} /\ Len(Front(s)) = Len(s) - 1
      BY <2>2, FrontLast
    <3>1. Len(Front(s)) = n - 1 /\ n - 1 \in Nat /\ n - 1 < n
      BY <1>1, <3>0
    <3>2. n - 1 \in N
      BY <1>1, <3>1
    <3>3. Front(s) \in S
      BY <3>0, <3>1, <3>2 DEF N
    <3> QED BY <3>0, <3>3
  <2> QED BY <2>1, <2>2
<1>2. \A n \in Nat : (\A m \in Nat : m < n => m \in N) => n \in N
  BY <1>1
<1> HIDE DEF N
<1>3. Nat \subseteq N
  BY <1>2, StrongInduction
<1>4. \A s \in Seq(T) : Len(s) \in Nat
  BY LenProperties
<1> QED BY <1>3, <1>4 DEF N

LEMMA TailInduction ==
  ASSUME NEW T, NEW S, <<>> \in S,
         \A s \in Seq(T) : \A e \in T : s \in S => <<e>> \o s \in S
  PROVE  Seq(T) \subseteq S
<1> DEFINE N == {n \in Nat : \A s \in Seq(T) : Len(s) = n => s \in S}
<1>1. ASSUME NEW n \in Nat, \A m \in Nat : m < n => m \in N,
             NEW s \in Seq(T), Len(s) = n
      PROVE  s \in S
  <2>1. CASE s = <<>>
    BY <2>1
  <2>2. CASE s # <<>>
    <3> HIDE DEF N
    <3>0. /\ Tail(s) \in Seq(T) /\ Head(s) \in T /\ s = <<Head(s)>> \o Tail(s)
          /\ Len(s) \in Nat \ {0} /\ Len(Tail(s)) = Len(s) - 1
      BY <2>2, HeadTail
    <3>1. Len(Tail(s)) = n - 1 /\ n - 1 \in Nat /\ n - 1 < n
      BY <1>1, <3>0
    <3>2. n - 1 \in N
      BY <1>1, <3>1
    <3>3. Tail(s) \in S
      BY <3>0, <3>1, <3>2 DEF N
    <3> QED BY <3>0, <3>3
  <2> QED BY <2>1, <2>2
<1>2. \A n \in Nat : (\A m \in Nat : m < n => m \in N) => n \in N
  BY <1>1
<1> HIDE DEF N
<1>3. Nat \subseteq N
  BY <1>2, StrongInduction
<1>4. \A s \in Seq(T) : Len(s) \in Nat
  BY LenProperties
<1> QED BY <1>3, <1>4 DEF N

-----------------------------------------------------------------------------
(* What a text begins with, and where a run of characters in it ends.      *)

LEMMA Pair ==
  ASSUME NEW T, NEW a \in T, NEW b \in T
  PROVE  <<a, b>> \in Seq(T) /\ Len(<<a, b>>) = 2 /\ <<a, b>>[1] = a /\ <<a, b>>[2] = b
  OBVIOUS

(* Named, so that the provers do not give them a type of their own.        *)
Chars == STRING

LEMMA PairFirst ==
  ASSUME NEW a \in Chars, NEW b \in Chars, NEW w \in Texts
  PROVE  /\ <<a, b>> \in Texts /\ <<a, b>> \o w \in Texts /\ <<a, b>> \o w # <<>>
         /\ Len(<<a, b>> \o w) = Len(w) + 2 /\ Len(w) \in Nat
         /\ (<<a, b>> \o w)[1] = a /\ (<<a, b>> \o w)[2] = b
         /\ Drop(<<a, b>> \o w, 2) = w
         /\ \A c, d : IsPrefix(<<c, d>>, <<a, b>> \o w) <=> c = a /\ d = b
<1> DEFINE p == <<a, b>>
           u == p \o w
<1>1. p \in Texts /\ Len(p) = 2 /\ p[1] = a /\ p[2] = b
  BY Pair DEF Texts, Chars
<1> HIDE DEF p
<1>2. /\ u \in Texts /\ Len(u) = Len(p) + Len(w) /\ Len(w) \in Nat
      /\ \A i \in 1..Len(p) : u[i] = p[i]
      /\ SubSeq(u, 1, Len(p)) = p /\ Drop(u, Len(p)) = w
  BY <1>1, Concat
<1> HIDE DEF u
<1>3. u[1] = a /\ u[2] = b /\ Len(u) = Len(w) + 2 /\ Drop(u, 2) = w /\ u # <<>>
  <2>1. u[1] = a /\ u[2] = b /\ Len(u) = Len(w) + 2 /\ Drop(u, 2) = w
    <3>1. 1 \in 1..Len(p) /\ 2 \in 1..Len(p)
      BY <1>1
    <3>2. u[1] = p[1] /\ u[2] = p[2]
      BY <1>2, <3>1
    <3>3. Len(u) = Len(w) + 2 /\ Drop(u, 2) = w
      BY <1>1, <1>2
    <3> QED BY <1>1, <3>2, <3>3
  <2>2. Len(u) # 0
    BY <1>2, <2>1
  <2> QED BY <2>1, <2>2, <1>2, Nothing
<1>4. ASSUME NEW c, NEW d
      PROVE  IsPrefix(<<c, d>>, u) <=> c = a /\ d = b
  <2>1. Len(<<c, d>>) = 2 /\ SubSeq(<<c, d>>, 1, 2) = <<c, d>>
    <3>1. <<c, d>> \in Seq({c, d}) /\ Len(<<c, d>>) = 2
      OBVIOUS
    <3> QED BY <3>1, SubSeqFull
  <2>2. SubSeq(u, 1, 2) = <<a, b>>
    BY <1>1, <1>2 DEF p
  <2>3. IsPrefix(<<c, d>>, u) <=> 2 <= Len(u) /\ <<c, d>> = <<a, b>>
    BY <2>1, <2>2 DEF IsPrefix
  <2>4. <<c, d>> = <<a, b>> <=> c = a /\ d = b
    OBVIOUS
  <2>5. 2 <= Len(u)
    BY <1>2, <1>3
  <2> QED BY <2>3, <2>4, <2>5
<1> QED BY <1>1, <1>2, <1>3, <1>4 DEF u, p

LEMMA PrefixOne ==
  ASSUME NEW s \in Texts, NEW c
  PROVE  IsPrefix(<<c>>, s) <=> s # <<>> /\ s[1] = c
<1>1. Len(s) \in Nat /\ (s = <<>> <=> Len(s) = 0) /\ Len(<<c>>) = 1
  BY Nothing
<1>2. SubSeq(<<c>>, 1, 1) = <<c>>
  <2>1. <<c>> \in Seq({c}) /\ Len(<<c>>) = 1
    OBVIOUS
  <2> QED BY <2>1, SubSeqFull
<1>3. CASE s = <<>>
  BY <1>1, <1>3 DEF IsPrefix
<1>4. CASE s # <<>>
  <2>1. SubSeq(s, 1, 1) = <<s[1]>>
    <3>1. SubSeq(s, 1, 1) = <<s[1]>> \o SubSeq(s, 1 + 1, 1)
      <4>1. 1 \in 1..Len(s)
        BY <1>1, <1>4
      <4> QED BY <4>1, SubSeqRecursiveFirst DEF Texts
    <3>2. SubSeq(s, 1 + 1, 1) = <<>>
      BY SubSeqEmpty
    <3>3. <<s[1]>> \in Seq({s[1]})
      OBVIOUS
    <3> QED BY <3>1, <3>2, <3>3, ConcatEmptySeq
  <2>2. 1 <= Len(s)
    BY <1>1, <1>4
  <2>3. <<c>> = <<s[1]>> <=> s[1] = c
    OBVIOUS
  <2> QED BY <1>1, <1>2, <1>4, <2>1, <2>2, <2>3 DEF IsPrefix
<1> QED BY <1>3, <1>4

LEMMA Middle ==
  ASSUME NEW x \in Texts, NEW y \in Texts, NEW z \in Texts
  PROVE  SubSeq((x \o y) \o z, Len(x) + 1, Len(x \o y)) = y
<1>1. /\ x \o y \in Texts /\ Len(x \o y) = Len(x) + Len(y) /\ Len(x) \in Nat /\ Len(y) \in Nat
      /\ Drop(x \o y, Len(x)) = y
  BY Concat
<1>2. CASE y = <<>>
  <2>1. Len(x \o y) < Len(x) + 1 /\ Len(x \o y) \in Int /\ Len(x) + 1 \in Int
    BY <1>1, <1>2
  <2> QED BY <1>2, <2>1, SubSeqEmpty
<1>3. CASE y # <<>>
  <2>1. Len(y) # 0
    BY <1>3, Nothing
  <2>2. Len(x) + 1 \in 1..Len(x \o y) /\ Len(x \o y) \in 1..Len(x \o y)
    BY <1>1, <2>1
  <2>3. SubSeq((x \o y) \o z, Len(x) + 1, Len(x \o y)) = SubSeq(x \o y, Len(x) + 1, Len(x \o y))
    BY <1>1, <2>2, SubSeqOfConcat1 DEF Texts
  <2> QED BY <1>1, <2>3 DEF Drop
<1> QED BY <1>2, <1>3

(* Characters of a set, up to one that is not of it.                       *)
LEMMA RunEnd ==
  ASSUME NEW D, NEW a \in Texts, NEW w \in Texts, NEW k \in 0..Len(a),
         \A j \in (k + 1)..Len(a) : a[j] \in D, w # <<>>, w[1] \notin D
  PROVE  EndOfRun(D, k, a \o w) = Len(a)
<1> DEFINE s == a \o w
           S == {i \in k..Len(s) : \A j \in (k + 1)..i : s[j] \in D}
<1>1. /\ s \in Texts /\ Len(s) = Len(a) + Len(w) /\ Len(a) \in Nat /\ Len(w) \in Nat
      /\ \A i \in 1..Len(a) : s[i] = a[i]
      /\ \A i \in 1..Len(w) : s[Len(a) + i] = w[i]
  BY Concat
<1>2. Len(w) # 0
  BY Nothing
<1>3. s[Len(a) + 1] \notin D
  <2>1. 1 \in 1..Len(w)
    BY <1>1, <1>2
  <2> QED BY <1>1, <2>1
<1> HIDE DEF s
<1>4. S \subseteq 0..Len(s) /\ Len(s) \in Nat
  BY <1>1
<1>5. Len(a) \in S
  BY <1>1
<1>6. \A y \in S : y <= Len(a)
  <2> SUFFICES ASSUME NEW y \in S, y > Len(a) PROVE FALSE
    BY <1>1
  <2>1. Len(a) + 1 \in (k + 1)..y
    BY <1>1
  <2> QED BY <1>3, <2>1
<1> HIDE DEF S
<1>7. Max(S) \in S /\ \A y \in S : Max(S) >= y
  BY <1>4, <1>5, Greatest
<1>8. Max(S) = Len(a)
  <2>0. \A y \in S : y \in Int
    BY <1>4
  <2>1. Max(S) <= Len(a) /\ Max(S) >= Len(a) /\ Max(S) \in Int /\ Len(a) \in Int
    BY <1>1, <2>0, <1>5, <1>6, <1>7
  <2> QED BY <2>1
<1> QED BY <1>8 DEF S, s, EndOfRun
=============================================================================
