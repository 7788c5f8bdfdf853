--------------------------- MODULE TransportProofs ---------------------------
(***************************************************************************)
(* Theorems about Transport, for every document, header and way to frame   *)
(* it that Transport's assumptions allow, every length of the pieces and   *)
(* every initial size of a buffer: a reader that has the whole has what    *)
(* was sent, none waits for what does not come, no buffer is overrun.      *)
(*                                                                         *)
(* The invariant is TransportInv.  Its heart is Framed: what a reader has  *)
(* and what is still on its way to it are the header and the text that     *)
(* were sent, as the reader's stage says (InText, InChunks).               *)
(***************************************************************************)
EXTENDS Transport, TextProofs

-----------------------------------------------------------------------------
(* The growing string.                                                     *)

BufferTypes == len \in Nat /\ all \in Nat /\ top \in Nat
BufferInv == BufferTypes /\ BufferSound

(* growBuff allocates more than the new bytes and a null byte need.        *)
LEMMA GrowEnough ==
  ASSUME BufferInv, NEW n \in Nat
  PROVE  GrowBuff(n) \in Nat /\ GrowBuff(n) > len + n + 1
<1>1. CASE all > len + n + 1
  BY <1>1 DEF BufferInv, BufferTypes, GrowBuff
<1>2. CASE ~(all > len + n + 1) /\ all * 2 > len + n + 1
  BY <1>2 DEF BufferInv, BufferTypes, GrowBuff
<1>3. CASE ~(all > len + n + 1) /\ ~(all * 2 > len + n + 1)
  <2>1. GrowBuff(n) = all + n + 1
    BY <1>3 DEF GrowBuff
  <2>2. len < all /\ len \in Nat /\ all \in Nat
    BY DEF BufferInv, BufferTypes, BufferSound
  <2> QED BY <2>1, <2>2
<1> QED BY <1>1, <1>2, <1>3 DEF BufferInv, BufferTypes

(* Every write preserves the invariant.                                    *)
LEMMA BufferStep == BufferInv /\ [BuffNext]_buffer => BufferInv'
<1> SUFFICES ASSUME BufferInv, [BuffNext]_buffer PROVE BufferInv'
  OBVIOUS
<1> USE DEF BufferInv, BufferTypes, BufferSound
<1>1. CASE NewBuff
  BY <1>1, BuffStartAssumption DEF NewBuff
<1>2. ASSUME NEW n \in Nat, BuffAppend(n) PROVE BufferInv'
  BY <1>2, GrowEnough DEF BuffAppend
<1>3. ASSUME NEW n \in Nat, BuffConcat(n) PROVE BufferInv'
  BY <1>3, GrowEnough DEF BuffConcat
<1>4. CASE UNCHANGED buffer
  BY <1>4 DEF buffer
<1> QED BY <1>1, <1>2, <1>3, <1>4 DEF BuffNext

(* Nothing is written behind the end of a buffer (newBuff, growBuff,       *)
(* buffConcat, buffAppend and buffRepeat), for every initial size and all  *)
(* lengths.                                                                *)
THEOREM BufferCorrect == BuffSpec => []BufferSound
<1>1. BufferInit => BufferInv
  BY BuffStartAssumption DEF BufferInit, BufferInv, BufferTypes, BufferSound
<1>2. BufferInv => BufferSound
  BY DEF BufferInv
<1> QED BY <1>1, <1>2, BufferStep, PTL DEF BuffSpec

-----------------------------------------------------------------------------
(* Headers.                                                                *)

(* What ends in the first part of a text does not depend on the rest.      *)
LEMMA EmptyLinesOfStart ==
  ASSUME NEW p \in Texts, NEW q \in Texts
  PROVE  EmptyLines(p) = {e \in EmptyLines(p \o q) : e <= Len(p)}
<1> DEFINE EmptyLine == {CrLf \o CrLf, <<"\n", "\n">>}
<1>1. \A x \in EmptyLine : Len(x) \in Nat /\ Len(x) > 0
  BY DEF CrLf
<1>2. p \o q \in Texts /\ Len(p \o q) = Len(p) + Len(q) /\ Len(p) \in Nat /\ Len(q) \in Nat
  BY Concat
<1>3. ASSUME NEW e \in 1..Len(p), NEW x \in EmptyLine, Len(x) <= e
      PROVE  SubSeq(p \o q, e - Len(x) + 1, e) = SubSeq(p, e - Len(x) + 1, e)
  <2>0. Len(x) \in Nat /\ Len(x) > 0
    BY <1>1
  <2> HIDE DEF EmptyLine
  <2>1. e - Len(x) + 1 \in 1..Len(p)
    BY <1>2, <1>3, <2>0
  <2> QED BY <2>1, SubSeqOfConcat1 DEF Texts
<1> HIDE DEF EmptyLine
<1>4. \A s : EmptyLines(s) = {e \in 1..Len(s) : \E x \in EmptyLine :
                                   Len(x) <= e /\ SubSeq(s, e - Len(x) + 1, e) = x}
  BY DEF EmptyLines, EmptyLine
<1>5. \A e \in 1..Len(p) : e \in EmptyLines(p) <=> e \in EmptyLines(p \o q)
  <2>1. 1..Len(p) \subseteq 1..Len(p \o q)
    BY <1>2
  <2> QED BY <1>3, <1>4, <2>1
<1>6. EmptyLines(p) \subseteq 1..Len(p) /\ EmptyLines(p \o q) \subseteq 1..Len(p \o q)
  BY <1>4
<1>7. \A e \in 1..Len(p \o q) : e <= Len(p) <=> e \in 1..Len(p)
  BY <1>2
<1> QED BY <1>2, <1>5, <1>6, <1>7

(* A header is found when, and only when, there is more than it.           *)
LEMMA HeaderFound ==
  ASSUME NEW h, IsHead(h), NEW X \in Texts, NEW p \in Texts, NEW q \in Texts,
         AreSame(p, q, h, X)
  PROVE  /\ Len(p) <= Len(h) => HeaderEnds(p) = {}
         /\ Len(p) > Len(h) =>
              /\ HeaderEnds(p) # {} /\ Min(HeaderEnds(p)) = Len(h)
              /\ SubSeq(p, 1, Len(h)) = h
              /\ Drop(p, Len(h)) \in Texts /\ Drop(p, Len(h)) \o q = X
<1> DEFINE f == SubSeq(p, 1, Len(p) - 1)
           b == Drop(p, Len(p) - 1)
           all_ == EmptyLines(h \o X)
<1>0. h \in Texts /\ EmptyLines(h) = {Len(h)}
  BY DEF IsHead
<1>1. Len(p) \in Nat /\ Len(h) \in Nat /\ (p = <<>> => Len(p) = 0)
  BY <1>0, Nothing
<1>2. CASE Len(p) = 0
  <2>1. HeaderEnds(p) = {}
    <3>1. SubSeq(p, 1, Len(p) - 1) = <<>>
      BY <1>1, <1>2, SubSeqEmpty
    <3> QED BY <3>1, Nothing DEF HeaderEnds, Front, EmptyLines
  <2> QED BY <1>1, <1>2, <2>1
<1>3. CASE Len(p) # 0
  <2>1. f \in Texts /\ Len(f) = Len(p) - 1 /\ b \in Texts /\ f \o b = p
    <3>1. Len(p) - 1 \in 0..Len(p)
      BY <1>1, <1>3
    <3> QED BY <3>1, TakeDrop
  <2>2. HeaderEnds(p) = EmptyLines(f)
    BY DEF HeaderEnds, Front
  <2> HIDE DEF f, b
  <2>3. f \o (b \o q) = h \o X /\ b \o q \in Texts
    <3>1. f \in Texts /\ b \in Texts
      BY <2>1
    <3>2. IsAssociative(f, b, q)
      BY <3>1, Associative
    <3>3. b \o q \in Texts
      BY <3>1, Concat
    <3> QED BY <2>1, <3>2, <3>3 DEF AreSame, IsAssociative
  <2>4. EmptyLines(f) = {e \in all_ : e <= Len(f)}
    <3>1. EmptyLines(f) = {e \in EmptyLines(f \o (b \o q)) : e <= Len(f)}
      BY <2>1, <2>3, EmptyLinesOfStart
    <3> QED BY <2>3, <3>1
  <2>5. {Len(h)} = {e \in all_ : e <= Len(h)}
    BY <1>0, EmptyLinesOfStart
  <2>6. all_ \subseteq Nat
    <3>1. h \o X \in Texts /\ Len(h \o X) \in Nat
      BY <1>0, Concat, Nothing
    <3> QED BY <3>1 DEF EmptyLines
  <2> HIDE DEF all_
  <2>7. Len(p) <= Len(h) => HeaderEnds(p) = {}
    <3> SUFFICES ASSUME Len(p) <= Len(h), NEW e \in EmptyLines(f) PROVE FALSE
      BY <2>2
    <3>1. e \in all_ /\ e <= Len(f) /\ e \in Nat
      BY <2>4, <2>6
    <3>2. e <= Len(h) /\ e # Len(h)
      BY <1>1, <2>1, <3>1
    <3> QED BY <2>5, <3>1, <3>2
  <2>8. ASSUME Len(p) > Len(h)
        PROVE  HeaderEnds(p) # {} /\ Min(HeaderEnds(p)) = Len(h)
    <3>1. Len(h) <= Len(f)
      BY <1>1, <2>1, <2>8
    <3>2. Len(h) \in EmptyLines(f)
      BY <2>4, <2>5, <3>1
    <3>3. EmptyLines(f) \subseteq Nat
      BY <2>4, <2>6
    <3>4. Min(EmptyLines(f)) \in EmptyLines(f) /\ Min(EmptyLines(f)) <= Len(h)
      BY <3>2, <3>3, Least
    <3>5. Min(EmptyLines(f)) = Len(h)
      BY <2>4, <2>5, <3>4
    <3> QED BY <2>2, <3>2, <3>5
  <2>9. ASSUME Len(p) > Len(h)
        PROVE  /\ SubSeq(p, 1, Len(h)) = h
               /\ Drop(p, Len(h)) \in Texts /\ Drop(p, Len(h)) \o q = X
    <3>1. Len(h) <= Len(p)
      BY <1>1, <2>9
    <3>2. h \in Texts
      BY <1>0
    <3> QED BY <3>1, <3>2, Overlap
  <2> QED BY <2>7, <2>8, <2>9
<1> QED BY <1>2, <1>3

-----------------------------------------------------------------------------
(* Chunks.                                                                 *)

LEMMA DropOfStart ==
  ASSUME NEW p \in Texts, NEW q \in Texts, NEW n \in 0..Len(p)
  PROVE  Drop(p, n) \in Texts /\ Drop(p, n) \o q = Drop(p \o q, n)
<1> DEFINE h == SubSeq(p \o q, 1, n)
           X == Drop(p \o q, n)
<1>1. p \o q \in Texts /\ Len(p) \in Nat /\ Len(q) \in Nat /\ Len(p \o q) = Len(p) + Len(q)
  BY Concat
<1>2. n \in 0..Len(p \o q) /\ n <= Len(p)
  BY <1>1
<1>3. h \in Texts /\ X \in Texts /\ Len(h) = n /\ h \o X = p \o q
  BY <1>1, <1>2, TakeDrop
<1> HIDE DEF h, X
<1>4. h \in Texts /\ X \in Texts /\ AreSame(p, q, h, X) /\ Len(h) <= Len(p)
  BY <1>2, <1>3 DEF AreSame
<1>5. Drop(p, Len(h)) \in Texts /\ Drop(p, Len(h)) \o q = X
  BY <1>4, Overlap
<1> QED BY <1>3, <1>5 DEF X

LEMMA FoundOfStart ==
  ASSUME NEW p \in Texts, NEW q \in Texts
  PROVE  Found(CrLf, p) = {i \in Found(CrLf, p \o q) : i < Len(p)}
<1>1. p \o q \in Texts /\ Len(p) \in Nat /\ Len(q) \in Nat /\ Len(p \o q) = Len(p) + Len(q)
  BY Concat
<1>2. ASSUME NEW i \in 1..(Len(p) - 1) PROVE SubSeq(p \o q, i, i + 1) = SubSeq(p, i, i + 1)
  <2>1. i \in 1..Len(p) /\ i + 1 \in 1..Len(p)
    BY <1>1
  <2> QED BY <2>1, SubSeqOfConcat1 DEF Texts
<1>3. 1..(Len(p) - 1) \subseteq 1..(Len(p \o q) - 1)
  BY <1>1
<1>4. \A i \in 1..(Len(p \o q) - 1) : i < Len(p) <=> i \in 1..(Len(p) - 1)
  BY <1>1
<1> QED BY <1>2, <1>3, <1>4 DEF Found

(* The line end is found as soon as it has come.                           *)
LEMMA LineEndOfStart ==
  ASSUME NEW p \in Texts, NEW q \in Texts, Found(CrLf, p \o q) # {}
  PROVE  /\ LineEnd(p \o q) \in 2..Len(p \o q)
         /\ Len(p) < LineEnd(p \o q) => Found(CrLf, p) = {}
         /\ Len(p) >= LineEnd(p \o q) => Found(CrLf, p) # {} /\ LineEnd(p) = LineEnd(p \o q)
<1> DEFINE S == Found(CrLf, p)
           T == Found(CrLf, p \o q)
<1>1. p \o q \in Texts /\ Len(p) \in Nat /\ Len(q) \in Nat /\ Len(p \o q) = Len(p) + Len(q)
  BY Concat
<1>2. T \subseteq 1..(Len(p \o q) - 1)
  BY DEF Found
<1>3. S = {i \in T : i < Len(p)}
  BY FoundOfStart
<1> HIDE DEF S, T
<1>4. S \subseteq T /\ T \subseteq Nat /\ S \subseteq Nat
  <2>1. \A n \in Int : 1..n \subseteq Nat
    OBVIOUS
  <2>2. Len(p \o q) - 1 \in Int
    BY <1>1
  <2> QED BY <1>2, <1>3, <2>1, <2>2
<1>5. Min(T) \in T /\ \A y \in T : Min(T) <= y
  BY <1>4, Least DEF T
<1>6. Min(T) \in 1..(Len(p \o q) - 1) /\ LineEnd(p \o q) = Min(T) + 1 /\ LineEnd(p) = Min(S) + 1
  BY <1>2, <1>5 DEF LineEnd, T, S
<1>7. ASSUME Len(p) < Min(T) + 1 PROVE S = {}
  <2> SUFFICES ASSUME NEW y \in S PROVE FALSE
    OBVIOUS
  <2>1. y < Len(p) /\ Min(T) <= y /\ y \in Nat
    BY <1>3, <1>4, <1>5
  <2> QED BY <1>1, <1>6, <1>7, <2>1
<1>8. ASSUME Len(p) >= Min(T) + 1 PROVE S # {} /\ Min(S) = Min(T)
  <2>1. Min(T) \in S
    BY <1>1, <1>3, <1>5, <1>6, <1>8
  <2>2. Min(S) \in S /\ Min(S) <= Min(T)
    BY <1>4, <2>1, Least
  <2>3. Min(T) <= Min(S) /\ Min(S) \in Nat /\ Min(T) \in Nat
    BY <1>4, <1>5, <2>2
  <2> QED BY <2>1, <2>2, <2>3
<1> QED BY <1>1, <1>6, <1>7, <1>8 DEF S

(* So is the end of the size of a chunk, once there is more.               *)
HexParts(s) == {i \in Sign(s)..Len(s) : \A j \in (Sign(s) + 1)..i : s[j] \in DOMAIN HexDigit}
LEMMA SignOfStart ==
  ASSUME NEW p \in Texts, NEW q \in Texts, Len(p) # 0
  PROVE  Sign(p \o q) = Sign(p) /\ Sign(p) \in 0..1
<1>1. 1 \in 0..Len(p) /\ Len(p) \in Nat
  BY Nothing
<1>2. SubSeq(p \o q, 1, 1) = SubSeq(p, 1, 1)
  BY <1>1, SubSeqOfConcat1 DEF Texts
<1>3. Len(p \o q) >= 1 /\ Len(p) >= 1
  BY <1>1, Concat
<1> QED BY <1>2, <1>3 DEF Sign, IsPrefix

LEMMA HexEndOfStart ==
  ASSUME NEW p \in Texts, NEW q \in Texts, HexEnd(p \o q) < Len(p), Len(p) # 0
  PROVE  HexEnd(p) = HexEnd(p \o q)
<1> DEFINE S == HexParts(p)
           T == HexParts(p \o q)
           D == DOMAIN HexDigit
           b == Sign(p)
<1> HIDE DEF D, b
<1>1. p \o q \in Texts /\ Len(p) \in Nat /\ Len(q) \in Nat /\ Len(p \o q) = Len(p) + Len(q)
  BY Concat
<1>2. \A i \in 1..Len(p) : (p \o q)[i] = p[i]
  BY Concat
<1>b. b \in 0..1 /\ b <= Len(p) /\ Sign(p \o q) = b
  <2>1. b \in 0..1 /\ Sign(p \o q) = b
    BY SignOfStart DEF b
  <2> QED BY <1>1, <2>1
<1>3. \A s \in {p, p \o q} : HexParts(s) = {i \in b..Len(s) : \A j \in (b + 1)..i : s[j] \in D}
  BY <1>b DEF HexParts, D, b
<1>4. \A i \in 0..Len(p) : i \in S <=> i \in T
  <2> TAKE i \in 0..Len(p)
  <2>1. (i \in b..Len(p \o q) <=> i \in b..Len(p)) /\ \A j \in (b + 1)..i : j \in 1..Len(p)
    BY <1>1, <1>b
  <2>2. \A j \in (b + 1)..i : (p \o q)[j] = p[j]
    BY <1>2, <2>1
  <2> QED BY <1>3, <2>1, <2>2
<1>5. S \subseteq 0..Len(p) /\ T \subseteq 0..Len(p \o q) /\ b \in S /\ b \in T
  <2>1. \A n \in Nat : b <= n => b \in b..n /\ (b + 1)..b = {} /\ b..n \subseteq 0..n
    BY <1>b
  <2>2. b <= Len(p \o q)
    BY <1>1, <1>b
  <2> QED BY <1>1, <1>3, <1>b, <2>1, <2>2
<1> HIDE DEF S, T
<1>6. Max(T) \in T /\ \A y \in T : Max(T) >= y
  <2>1. Len(p \o q) \in Nat /\ T # {}
    BY <1>1, <1>5
  <2> QED BY <1>5, <2>1, Greatest
<1>7. Max(S) \in S /\ \A y \in S : Max(S) >= y
  BY <1>1, <1>5, Greatest
<1>8. Max(T) = HexEnd(p \o q) /\ Max(S) = HexEnd(p)
  BY DEF S, T, HexParts, HexEnd, EndOfRun
<1>9. Max(T) \in 0..Len(p)
  <2>1. Max(T) \in 0..Len(p \o q) /\ Max(T) < Len(p)
    BY <1>5, <1>6, <1>8
  <2> QED BY <1>1, <2>1
<1>10. Max(T) \in S
  BY <1>4, <1>6, <1>9
<1>11. Max(S) \in T
  BY <1>4, <1>5, <1>7
<1>12. Max(S) >= Max(T) /\ Max(T) >= Max(S) /\ Max(S) \in Int /\ Max(T) \in Int
  <2>1. \A n \in Nat : 0..n \subseteq Int
    OBVIOUS
  <2>2. Max(S) \in Int /\ Max(T) \in Int
    BY <1>1, <1>5, <1>7, <1>9, <2>1
  <2> QED BY <1>6, <1>7, <1>10, <1>11, <2>2
<1> QED BY <1>8, <1>12

(* What is read of a chunk: nothing, until its line has come; then its size*)
(* and its data.                                                           *)
LEMMA ChunkOfStart ==
  ASSUME NEW p \in Texts, NEW q \in Texts, Found(CrLf, p \o q) # {},
         HexEnd(p \o q) \in 1..(LineEnd(p \o q) - 2)
  PROVE  /\ Len(p) < LineEnd(p \o q) => Found(CrLf, p) = {} /\ q # <<>>
         /\ Len(p) >= LineEnd(p \o q) =>
              /\ Found(CrLf, p) # {} /\ LineEnd(p) = LineEnd(p \o q)
              /\ HexEnd(p) = HexEnd(p \o q) /\ HexEnd(p) # 0 /\ SizeOf(p) = SizeOf(p \o q)
              /\ Data(p) \in Texts /\ Data(p) \o q = Data(p \o q)
<1> DEFINE l == LineEnd(p \o q)
           e == HexEnd(p \o q)
<1>1. p \o q \in Texts /\ Len(p) \in Nat /\ Len(q) \in Nat /\ Len(p \o q) = Len(p) + Len(q)
  BY Concat
<1>2. l \in 2..Len(p \o q)
  BY LineEndOfStart
<1> HIDE DEF l, e
<1>3. ASSUME Len(p) < l PROVE Found(CrLf, p) = {} /\ q # <<>>
  <2>1. Len(q) # 0
    BY <1>1, <1>2, <1>3
  <2> QED BY <1>3, <2>1, LineEndOfStart, Nothing DEF l
<1>4. ASSUME Len(p) >= l
      PROVE  /\ Found(CrLf, p) # {} /\ LineEnd(p) = l
             /\ HexEnd(p) = e /\ HexEnd(p) # 0 /\ SizeOf(p) = SizeOf(p \o q)
             /\ Data(p) \in Texts /\ Data(p) \o q = Data(p \o q)
  <2>1. Found(CrLf, p) # {} /\ LineEnd(p) = l
    BY <1>4, LineEndOfStart DEF l
  <2>2. e \in 1..(l - 2)
    BY DEF l, e
  <2>3. e < Len(p) /\ e \in 1..Len(p) /\ 1 \in 1..Len(p) /\ l \in 0..Len(p)
    BY <1>1, <1>2, <1>4, <2>2
  <2>4. HexEnd(p) = e /\ Sign(p) = Sign(p \o q) /\ Sign(p) \in 0..1
    BY <2>3, HexEndOfStart, SignOfStart DEF e
  <2>5. SubSeq(p \o q, Sign(p) + 1, e) = SubSeq(p, Sign(p) + 1, e)
    BY <2>3, <2>4, SubSeqOfConcat1 DEF Texts
  <2>6. SizeOf(p) = SizeOf(p \o q)
    BY <2>4, <2>5 DEF SizeOf, e
  <2>7. Drop(p, l) \in Texts /\ Drop(p, l) \o q = Drop(p \o q, l)
    BY <2>3, DropOfStart
  <2>8. Data(p) = Drop(p, l) /\ Data(p \o q) = Drop(p \o q, l)
    BY <2>1 DEF Data, l
  <2> QED BY <2>1, <2>3, <2>4, <2>6, <2>7, <2>8
<1> QED BY <1>3, <1>4 DEF l, e

(* The provers do not know that a character is a string; a text has some.  *)
LEMMA FoundText ==
  ASSUME NEW t \in Texts, Found(CrLf, t) # {}
  PROVE  CrLf \in Texts
<1>1. PICK i \in 1..(Len(t) - 1) : SubSeq(t, i, i + 1) = CrLf
  BY DEF Found
<1>2. Len(t) \in Nat
  BY Nothing
<1>3. \A j \in i..(i + 1) : t[j] \in STRING
  <2>1. \A j \in i..(i + 1) : j \in 1..Len(t)
    BY <1>2
  <2> QED BY <2>1, ElementOfSeq DEF Texts
<1>4. SubSeq(t, i, i + 1) \in Seq(STRING)
  <2>1. i \in Int /\ i + 1 \in Int
    BY <1>2
  <2> QED BY <1>3, <2>1, SubSeqProperties
<1> QED BY <1>1, <1>4 DEF Texts

(* A piece of a document and its line end, at the start of what is behind  *)
(* the line of the chunk.                                                  *)
LEMMA PieceOfChunk ==
  ASSUME NEW d, NEW piece \in Texts, piece # <<>>, NEW rest \in Texts, CrLf \in Texts,
         d = (piece \o CrLf) \o rest
  PROVE  SubSeq(d, 1, Len(piece)) = piece /\ SubSeq(d, Len(piece) + 1, Len(piece) + 2) = CrLf
<1> DEFINE s == Len(piece)
           t == piece \o CrLf
<1>1. Len(CrLf) = 2
  BY DEF CrLf
<1>2. s \in Nat /\ s # 0
  BY Nothing
<1>3. t \in Texts /\ Len(t) = s + 2 /\ SubSeq(t, 1, s) = piece
  <2>1. t \in Texts /\ Len(t) = s + Len(CrLf) /\ SubSeq(t, 1, s) = piece
    BY <1>1, Concat
  <2> QED BY <1>1, <2>1
<1>4. s \in 1..Len(t) /\ 1 \in 1..Len(t) /\ s + 1 \in 1..Len(t) /\ s + 2 \in 1..Len(t)
  BY <1>2, <1>3
<1>5. SubSeq(t \o rest, 1, s) = SubSeq(t, 1, s)
  BY <1>3, <1>4, SubSeqOfConcat1 DEF Texts
<1>6. SubSeq(t \o rest, s + 1, s + 2) = SubSeq(t, s + 1, s + 2)
  BY <1>3, <1>4, SubSeqOfConcat1 DEF Texts
<1>7. SubSeq(t, s + 1, s + 2) = CrLf
  <2>1. s + 2 = Len(t)
    BY <1>3
  <2>2. Drop(t, s) = CrLf
    BY <1>1, Concat
  <2> QED BY <2>1, <2>2 DEF Drop
<1> QED BY <1>3, <1>5, <1>6, <1>7

LEMMA DropTwice ==
  ASSUME NEW w \in Texts, NEW m \in Nat, NEW n \in Nat, m + n <= Len(w)
  PROVE  Drop(Drop(w, m), n) = Drop(w, m + n)
<1> DEFINE a == SubSeq(w, 1, m)
           b == Drop(w, m)
<1>1. Len(w) \in Nat /\ m \in 0..Len(w)
  BY Nothing
<1>2. a \in Texts /\ b \in Texts /\ Len(a) = m /\ a \o b = w /\ Len(b) = Len(w) - m
  BY <1>1, TakeDrop
<1> DEFINE c == SubSeq(b, 1, n)
           d == Drop(b, n)
<1>3. c \in Texts /\ d \in Texts /\ Len(c) = n /\ c \o d = b
  <2>1. n \in 0..Len(b)
    BY <1>1, <1>2
  <2> QED BY <1>2, <2>1, TakeDrop
<1> HIDE DEF a, b, c, d
<1>4. IsAssociative(a, c, d)
  BY <1>2, <1>3, Associative
<1>5. (a \o c) \o d = w /\ a \o c \in Texts /\ Len(a \o c) = m + n
  BY <1>2, <1>3, <1>4, Concat DEF IsAssociative
<1>6. Drop(w, m + n) = d
  <2>1. Drop((a \o c) \o d, Len(a \o c)) = d
    BY <1>3, <1>5, Concat
  <2> QED BY <1>5, <2>1
<1> QED BY <1>6 DEF d, b

(* A chunk of which only a part has come is waited for, with nothing lost; *)
(* one that has come is taken.                                             *)
IsTaken(r, q, eof, piece) ==
  \/ ProcessChunk(r, eof) = At(IF eof THEN "failed" ELSE "body", r) /\ q # <<>>
  \/ \E rest \in Texts :
       /\ rest \o q = Drop(r.chunk \o q, LineEnd(r.chunk \o q) + Len(piece) + 2)
       /\ ProcessChunk(r, eof) = [r EXCEPT !.stage = "chunks", !.body = @ \o piece, !.chunk = rest]
LEMMA ChunkTaken ==
  ASSUME NEW r \in Readers, NEW q \in Texts, NEW eof \in BOOLEAN,
         NEW piece \in Texts, piece # <<>>, IsChunk(r.chunk \o q, piece)
  PROVE  IsTaken(r, q, eof, piece)
<1> DEFINE c == r.chunk
           t == r.chunk \o q
           l == LineEnd(t)
           size == Len(piece)
           data == Data(c)
           more == At(IF eof THEN "failed" ELSE "body", r)
<1>1. c \in Texts
  BY DEF Readers, Texts
<1>2. /\ Found(CrLf, t) # {} /\ HexEnd(t) \in 1..(l - 2)
      /\ SizeOf(t) = size /\ Len(Data(t)) >= size + 2
      /\ SubSeq(Data(t), 1, size + 2) = piece \o CrLf
  BY DEF IsChunk
<1>3. /\ Len(c) < l => Found(CrLf, c) = {} /\ q # <<>>
      /\ Len(c) >= l =>
           /\ Found(CrLf, c) # {} /\ LineEnd(c) = l
           /\ HexEnd(c) = HexEnd(t) /\ HexEnd(c) # 0 /\ SizeOf(c) = SizeOf(t)
           /\ data \in Texts /\ data \o q = Data(t)
  BY <1>1, <1>2, ChunkOfStart
<1>4. size \in Nat /\ size # 0 /\ Len(c) \in Nat
  BY <1>1, Nothing
<1>5. t \in Texts /\ l \in 2..Len(t)
  <2>1. t \in Texts
    BY <1>1, Concat
  <2>2. l \in 2..Len(t)
    BY <1>1, <1>2, LineEndOfStart
  <2> QED BY <2>1, <2>2
<1>6. CASE Len(c) < l
  BY <1>3, <1>6 DEF ProcessChunk, IsTaken
<1>7. CASE Len(c) >= l
  <2>0. /\ Found(CrLf, c) # {} /\ LineEnd(c) = l /\ HexEnd(c) # 0 /\ SizeOf(c) = size
        /\ data \in Texts /\ data \o q = Data(t) /\ Len(data) \in Nat /\ Len(q) \in Nat
        /\ Len(Data(t)) = Len(data) + Len(q)
    <3>1. data \in Texts
      BY <1>3, <1>7
    <3>2. Len(data) \in Nat /\ Len(q) \in Nat /\ Len(data \o q) = Len(data) + Len(q)
      BY <3>1, Concat
    <3> QED BY <1>2, <1>3, <1>7, <3>2
  <2>1. CASE Len(data) < size + 2
    <3>1. Len(q) # 0
      BY <1>2, <1>4, <2>0, <2>1
    <3>2. q # <<>>
      BY <3>1, Nothing
    <3>3. ProcessChunk(r, eof) = more
      BY <2>0, <2>1 DEF ProcessChunk
    <3> QED BY <3>2, <3>3 DEF IsTaken
  <2>2. CASE ~(Len(data) < size + 2)
    <3> DEFINE rest == Drop(data, size + 2)
    <3>1. size + 2 \in 0..Len(data) /\ Len(data) # 0 /\ 1 \in 1..Len(data)
          /\ size + 2 \in 1..Len(data)
      BY <1>4, <2>0, <2>2
    <3>2. SubSeq(data, 1, size + 2) = piece \o CrLf
      <4>1. SubSeq(data \o q, 1, size + 2) = SubSeq(data, 1, size + 2)
        BY <2>0, <3>1, SubSeqOfConcat1 DEF Texts
      <4> QED BY <1>2, <2>0, <4>1
    <3>3. rest \in Texts /\ data = (piece \o CrLf) \o rest
      <4>1. Drop(data, size + 2) \in Texts
            /\ SubSeq(data, 1, size + 2) \o Drop(data, size + 2) = data
        BY <2>0, <3>1, TakeDrop
      <4> QED BY <3>2, <4>1
    <3>4. SubSeq(data, 1, size) = piece /\ SubSeq(data, size + 1, size + 2) = CrLf
      BY <1>1, <1>5, <2>0, <3>3, FoundText, PieceOfChunk
    <3>5. rest \o q = Drop(t, l + size + 2)
      <4>1. rest \o q = Drop(Data(t), size + 2)
        <5> HIDE DEF data
        <5>1. Drop(data, size + 2) \o q = Drop(data \o q, size + 2)
          BY <2>0, <3>1, DropOfStart
        <5> QED BY <2>0, <5>1
      <4>2. Data(t) = Drop(t, l)
        BY DEF Data
      <4>3. Len(t) \in Nat /\ l \in 0..Len(t) /\ Len(Drop(t, l)) = Len(t) - l
        <5>1. Len(t) \in Nat
          BY <1>5, Nothing
        <5>2. l \in 0..Len(t)
          BY <1>5, <5>1
        <5> QED BY <1>5, <5>1, <5>2, TakeDrop
      <4>4. l \in Nat /\ size + 2 \in Nat /\ l + (size + 2) <= Len(t) /\ l + (size + 2) = l + size + 2
        <5>1. Len(t) - l >= size + 2
          BY <1>2, <4>2, <4>3
        <5> HIDE DEF t, l
        <5> QED BY <1>4, <4>3, <5>1
      <4>5. Drop(Drop(t, l), size + 2) = Drop(t, l + (size + 2))
        BY <1>5, <4>4, DropTwice
      <4> QED BY <4>1, <4>2, <4>4, <4>5
    <3>6. ProcessChunk(r, eof) = [r EXCEPT !.stage = "chunks", !.body = @ \o piece, !.chunk = rest]
      <4> HIDE DEF rest
      <4>1. ProcessChunk(r, eof) =
              [r EXCEPT !.stage = "chunks", !.body = @ \o SubSeq(data, 1, size), !.chunk = Drop(data, size + 2)]
        BY <1>4, <2>0, <2>2, <3>4 DEF ProcessChunk
      <4> QED BY <3>4, <4>1 DEF rest
    <3> QED BY <3>3, <3>5, <3>6 DEF IsTaken
  <2> QED BY <2>1, <2>2
<1>8. Len(c) < l \/ Len(c) >= l
  <2>1. \A i \in 2..Len(t) : i \in Int
    OBVIOUS
  <2>2. l \in Int
    BY <1>5, <2>1
  <2> HIDE DEF c, l
  <2> QED BY <1>4, <2>2
<1> QED BY <1>6, <1>7, <1>8

LEMMA LastChunkTaken ==
  ASSUME NEW r \in Readers, NEW q \in Texts, NEW eof \in BOOLEAN, IsLastChunk(r.chunk \o q)
  PROVE  \/ ProcessChunk(r, eof) = At(IF eof THEN "failed" ELSE "body", r) /\ q # <<>>
         \/ ProcessChunk(r, eof) = At("whole", r)
<1> DEFINE c == r.chunk
           t == r.chunk \o q
           l == LineEnd(t)
           data == Data(c)
           trailer == Drop(c, HexEnd(c))
           more == At(IF eof THEN "failed" ELSE "body", r)
           Ended(s) == \E i \in 1..(Len(s) - 3) : SubSeq(s, i, i + 3) = CrLf \o CrLf
<1>1. c \in Texts
  BY DEF Readers, Texts
<1>2. /\ Found(CrLf, t) # {} /\ HexEnd(t) \in 1..(l - 2)
      /\ SizeOf(t) = 0 /\ Len(Data(t)) >= 2
  BY DEF IsLastChunk
<1>3. /\ Len(c) < l => Found(CrLf, c) = {} /\ q # <<>>
      /\ Len(c) >= l =>
           /\ Found(CrLf, c) # {} /\ LineEnd(c) = l
           /\ HexEnd(c) = HexEnd(t) /\ HexEnd(c) # 0 /\ SizeOf(c) = SizeOf(t)
           /\ data \in Texts /\ data \o q = Data(t)
  BY <1>1, <1>2, ChunkOfStart
<1>4. Len(c) \in Nat
  BY <1>1, Nothing
<1>5. t \in Texts /\ l \in Int /\ HexEnd(t) \in 0..Len(t) /\ Len(t) \in Nat
  <2>1. t \in Texts /\ Len(t) \in Nat
    BY <1>1, Concat, Nothing
  <2>2. l \in 2..Len(t)
    BY <1>1, <1>2, LineEndOfStart
  <2>3. HexEnd(t) \in 1..(l - 2)
    BY <1>2
  <2> HIDE DEF t, l
  <2> QED BY <2>1, <2>2, <2>3
<1>6. CASE Len(c) < l
  BY <1>3, <1>6 DEF ProcessChunk
<1>7. CASE Len(c) >= l
  <2>0. /\ Found(CrLf, c) # {} /\ LineEnd(c) = l /\ HexEnd(c) # 0 /\ SizeOf(c) = 0
        /\ HexEnd(c) = HexEnd(t)
        /\ data \in Texts /\ data \o q = Data(t)
    BY <1>2, <1>3, <1>7
  <2>1. CASE Len(data) < 2
    <3>1. Len(data) \in Nat /\ Len(Data(t)) = Len(data) + Len(q) /\ Len(q) \in Nat
      <4>1. Len(data) \in Nat /\ Len(q) \in Nat /\ Len(data \o q) = Len(data) + Len(q)
        BY <2>0, Concat
      <4> QED BY <2>0, <4>1
    <3>2. Len(q) # 0
      BY <1>2, <2>1, <3>1
    <3>3. q # <<>>
      BY <3>2, Nothing
    <3>4. ProcessChunk(r, eof) = more
      BY <2>0, <2>1 DEF ProcessChunk
    <3> QED BY <3>3, <3>4
  <2>2. CASE ~(Len(data) < 2)
    <3>1. ProcessChunk(r, eof) = IF Ended(trailer) THEN At("whole", r) ELSE more
      <4>1. ~(Len(data) < SizeOf(c) + 2)
        BY <2>0, <2>2
      <4> QED BY <2>0, <4>1 DEF ProcessChunk
    <3>2. q = <<>> => Ended(trailer)
      <4> SUFFICES ASSUME q = <<>> PROVE Ended(trailer)
        OBVIOUS
      <4>1. c = t
        BY <1>1, Nothing
      <4>2. Len(Drop(t, HexEnd(t))) = Len(t) - HexEnd(t)
        BY <1>5, TakeDrop
      <4>3. \E i \in 1..(Len(t) - HexEnd(t) - 3) : SubSeq(Drop(t, HexEnd(t)), i, i + 3) = CrLf \o CrLf
        BY DEF IsLastChunk
      <4> QED BY <4>1, <4>2, <4>3
    <3> QED BY <3>1, <3>2
  <2> QED BY <2>1, <2>2
<1>8. Len(c) < l \/ Len(c) >= l
  <2> HIDE DEF c, l
  <2> QED BY <1>4, <1>5
<1> QED BY <1>6, <1>7, <1>8

-----------------------------------------------------------------------------
(* A reader, and what is still to come of what was sent to it: a header,   *)
(* and what is behind it.                                                  *)

Waits(r, q, h, X) ==
  /\ r = [NewReader EXCEPT !.head = r.head] /\ r.head \in Texts
  /\ AreSame(r.head, q, h, X) /\ Len(r.head) <= Len(h)
HasFailed(r) == r \in Readers /\ r.stage = "failed"

(* It has read the header, and so much of what is behind it; with a length *)
(* it is in the body as long as it has less.                               *)
InBody(r, q, h, X, n) ==
  /\ r \in Readers /\ r.head = h /\ ~r.chunked /\ r.blen = n /\ r.body \o q = X
  /\ r.stage \in {"body", "whole"}
  /\ n >= 0 => (r.stage = "body" <=> Len(r.body) < n)
InText(r, q, h, X, n) == Waits(r, q, h, X) \/ InBody(r, q, h, X, n) \/ HasFailed(r)

(* It has read the header and the chunks before one of them.               *)
InChunk(r, q, h, g, document, i) ==
  /\ r \in Readers /\ r.head = h /\ r.chunked /\ r.stage \in {"body", "chunks"}
  /\ r.body = SubSeq(document, 1, g.from[i]) /\ r.chunk \o q = Drop(g.text, g.starts[i])
  /\ r.stage = "body" => q # <<>>
InChunks(r, q, h, g, document) ==
  \/ Waits(r, q, h, g.text) \/ HasFailed(r)
  \/ \E i \in 1..Len(g.starts) : InChunk(r, q, h, g, document, i)
  \/ r \in Readers /\ r.stage = "whole" /\ r.head = h /\ r.chunked /\ r.body = document

LEMMA NewReaderType ==
  ASSUME NEW p \in Texts, NEW s, s = [NewReader EXCEPT !.head = p]
  PROVE  s \in Readers /\ s.stage = "header" /\ ~s.chunked /\ s.blen = -1
<1>1. s = [stage |-> "header", head |-> p, body |-> <<>>, chunk |-> <<>>, chunked |-> FALSE,
           blen |-> -1]
  BY DEF NewReader
<1>2. <<>> \in Seq(STRING) /\ p \in Seq(STRING)
  BY Nothing DEF Texts
<1>3. s \in Readers
  <2>1. [stage |-> "header", head |-> p, body |-> <<>>, chunk |-> <<>>, chunked |-> FALSE,
         blen |-> -1] \in Readers
    BY <1>2 DEF Readers
  <2> QED BY <1>1, <2>1
<1>4. s.stage = "header" /\ ~s.chunked /\ s.blen = -1
  BY <1>1
<1> QED BY <1>3, <1>4

WithMore(r, new) == [r EXCEPT !.head = @ \o new]
HasMore(s, q, h, X) ==
  /\ s \in Readers /\ s.stage = "header" /\ ~s.chunked /\ s.blen = -1
  /\ \/ HeaderEnds(s.head) = {} /\ Waits(s, q, h, X)
     \/ /\ HeaderEnds(s.head) # {}
        /\ \E b \in Texts : b \o q = X /\ Split(s) = [At("body", s) EXCEPT !.head = h, !.body = b]

(* A reader that waits for the header finds it, and what is behind it, as  *)
(* soon as there is more.                                                  *)
LEMMA MoreOfHeader ==
  ASSUME NEW r, NEW new \in Texts, NEW q \in Texts, NEW h, IsHead(h), NEW X \in Texts,
         Waits(r, new \o q, h, X), NEW s, s = WithMore(r, new)
  PROVE  HasMore(s, q, h, X)
<1> DEFINE p == r.head \o new
           b == Drop(p, Len(h))
<1>1. r = [NewReader EXCEPT !.head = r.head] /\ r.head \in Texts /\ AreSame(r.head, new \o q, h, X)
  BY DEF Waits
<1>2. p \in Texts
  BY <1>1, Concat
<1>3. s = [NewReader EXCEPT !.head = p] /\ s.head = p
  BY <1>1 DEF NewReader, WithMore
<1>4. AreSame(p, q, h, X)
  <2>1. IsAssociative(r.head, new, q)
    BY <1>1, Associative
  <2> QED BY <1>1, <2>1 DEF AreSame, IsAssociative
<1>5. /\ Len(p) <= Len(h) => HeaderEnds(p) = {}
      /\ Len(p) > Len(h) => /\ HeaderEnds(p) # {} /\ Min(HeaderEnds(p)) = Len(h)
                            /\ SubSeq(p, 1, Len(h)) = h /\ b \in Texts /\ b \o q = X
  BY <1>2, <1>4, HeaderFound
<1>6. s \in Readers /\ s.stage = "header" /\ ~s.chunked /\ s.blen = -1
  BY <1>2, <1>3, NewReaderType
<1>7. Len(p) \in Nat /\ Len(h) \in Nat
  BY <1>2, Nothing DEF IsHead
<1>8. CASE Len(p) <= Len(h)
  <2> HIDE DEF p
  <2> QED BY <1>2, <1>3, <1>4, <1>5, <1>6, <1>8 DEF Waits, HasMore
<1>9. CASE Len(p) > Len(h)
  <2>1. Split(s) = [At("body", s) EXCEPT !.head = h, !.body = b]
    <3> HIDE DEF p
    <3> QED BY <1>3, <1>5, <1>9 DEF Split, b
  <2> HIDE DEF p, b
  <2> QED BY <1>3, <1>5, <1>6, <1>9, <2>1 DEF HasMore
<1>10. Len(p) <= Len(h) \/ Len(p) > Len(h)
  BY <1>7
<1> QED BY <1>8, <1>9, <1>10

(* A reader that knows the length, or that there is none: a client takes   *)
(* what it has for whole when it has that much, or at the end of the       *)
(* connection if there is none.                                            *)
LEMMA ResponseRead ==
  ASSUME NEW s \in Readers, NEW q \in Texts, NEW h, NEW X \in Texts, NEW n \in Int,
         NEW eof \in BOOLEAN, s.stage = "body", s.head = h, ~s.chunked, s.blen = n, s.body \o q = X,
         NEW t, t = ReadResponse(s, eof)
  PROVE  /\ InText(t, q, h, X, n)
         /\ eof => t.stage \notin {"header", "body"}
         /\ n < 0 /\ t.stage = "whole" => eof
         /\ t.stage = "failed" => eof /\ n >= 0
<1>1. \A stage_ \in {"body", "whole", "failed"} :
        /\ At(stage_, s) \in Readers /\ At(stage_, s).stage = stage_
        /\ At(stage_, s).head = h /\ ~At(stage_, s).chunked /\ At(stage_, s).blen = n
        /\ At(stage_, s).body = s.body
  BY DEF At, Readers
<1>2. Len(s.body) \in Nat
  BY Nothing DEF Readers, Texts
<1>3. CASE (n < 0 /\ eof) \/ (n >= 0 /\ Len(s.body) >= n)
  <2>1. t = At("whole", s)
    BY <1>3 DEF ReadResponse
  <2>2. InBody(t, q, h, X, n) /\ t.stage = "whole"
    <3>1. /\ t \in Readers /\ t.stage = "whole" /\ t.head = h /\ ~t.chunked /\ t.blen = n
          /\ t.body = s.body
      BY <1>1, <2>1
    <3>2. n >= 0 => ~(Len(s.body) < n)
      BY <1>2, <1>3
    <3> QED BY <3>1, <3>2 DEF InBody
  <2> QED BY <1>3, <2>2 DEF InText
<1>4. CASE ~((n < 0 /\ eof) \/ (n >= 0 /\ Len(s.body) >= n)) /\ eof
  <2>1. t = At("failed", s)
    BY <1>4 DEF ReadResponse
  <2>2. HasFailed(t) /\ t.stage = "failed"
    BY <1>1, <2>1 DEF HasFailed
  <2>3. eof /\ n >= 0
    BY <1>4
  <2> QED BY <2>2, <2>3 DEF InText
<1>5. CASE ~((n < 0 /\ eof) \/ (n >= 0 /\ Len(s.body) >= n)) /\ ~eof
  <2>1. t = s
    BY <1>5 DEF ReadResponse
  <2>2. n >= 0 => Len(s.body) < n
    BY <1>2, <1>5
  <2>3. InBody(s, q, h, X, n)
    BY <2>2 DEF InBody
  <2> QED BY <1>5, <2>1, <2>3 DEF InText
<1> QED BY <1>3, <1>4, <1>5

LEMMA RequestRead ==
  ASSUME NEW s \in Readers, NEW q \in Texts, NEW h, NEW X \in Texts, NEW n \in Nat,
         NEW eof \in BOOLEAN, s.stage = "body", s.head = h, ~s.chunked, s.blen = n, s.body \o q = X,
         NEW t, t = ReadRequest(s, eof)
  PROVE  /\ InText(t, q, h, X, n)
         /\ eof => t.stage \notin {"header", "body"}
         /\ t.stage = "failed" /\ n = Len(X) => eof
<1>1. \A stage_ \in {"body", "whole", "failed"} :
        /\ At(stage_, s) \in Readers /\ At(stage_, s).stage = stage_
        /\ At(stage_, s).head = h /\ ~At(stage_, s).chunked /\ At(stage_, s).blen = n
        /\ At(stage_, s).body = s.body
  BY DEF At, Readers
<1>2. Len(s.body) \in Nat
  BY Nothing DEF Readers, Texts
<1>3. CASE Len(s.body) = n
  <2>1. t = At("whole", s)
    BY <1>2, <1>3 DEF ReadRequest
  <2>2. InBody(t, q, h, X, n) /\ t.stage = "whole"
    <3>1. /\ t \in Readers /\ t.stage = "whole" /\ t.head = h /\ ~t.chunked /\ t.blen = n
          /\ t.body = s.body
      BY <1>1, <2>1
    <3>2. n >= 0 => ~(Len(s.body) < n)
      BY <1>2, <1>3
    <3> QED BY <3>1, <3>2 DEF InBody
  <2> QED BY <2>2 DEF InText
<1>4. CASE Len(s.body) > n \/ (Len(s.body) < n /\ eof)
  <2>1. t = At("failed", s)
    BY <1>2, <1>4 DEF ReadRequest
  <2>2. HasFailed(t) /\ t.stage = "failed"
    BY <1>1, <2>1 DEF HasFailed
  <2>3. n = Len(X) => ~(Len(s.body) > n)
    <3>1. Len(X) = Len(s.body) + Len(q) /\ Len(q) \in Nat
      BY Concat DEF Readers, Texts
    <3> QED BY <1>2, <3>1
  <2> QED BY <1>4, <2>2, <2>3 DEF InText
<1>5. CASE Len(s.body) < n /\ ~eof
  <2>1. t = s
    BY <1>2, <1>5 DEF ReadRequest
  <2>2. InBody(s, q, h, X, n)
    BY <1>5 DEF InBody
  <2> QED BY <1>5, <2>1, <2>2 DEF InText
<1> QED BY <1>2, <1>3, <1>4, <1>5

(* The length that a header gives.                                         *)
IsLength(h, n) ==
  /\ ~IsChunked(h)
  /\ \/ n \in Nat /\ Lengths(h) = {n}
     \/ n = -1 /\ Fields(LengthNames, h) = {}
LEMMA LengthGiven ==
  ASSUME NEW h, NEW n, IsLength(h, n)
  PROVE  /\ n \in Nat => /\ Fields(LengthNames, h) # {} /\ Lengths(h) # {}
                         /\ (CHOOSE m \in Lengths(h) : TRUE) = n
         /\ n \notin Nat => n = -1 /\ Fields(LengthNames, h) = {}
<1>1. CASE n \in Nat /\ Lengths(h) = {n}
  <2>1. Fields(LengthNames, h) # {}
    BY <1>1 DEF Lengths
  <2>2. (CHOOSE m \in {n} : TRUE) = n
    OBVIOUS
  <2> QED BY <1>1, <2>1, <2>2
<1>2. CASE n = -1 /\ Fields(LengthNames, h) = {}
  <2>1. -1 \notin Nat
    OBVIOUS
  <2> QED BY <1>2, <2>1
<1> QED BY <1>1, <1>2 DEF IsLength

(* A read that does not find the header yet.                               *)
LEMMA NoHeaderYet ==
  ASSUME NEW s \in Readers, s.stage = "header", NEW eof \in BOOLEAN,
         NEW t, t = IF eof THEN At("failed", s) ELSE s
  PROVE  eof => HasFailed(t) /\ t.stage \notin {"header", "body"}
  BY DEF At, Readers, HasFailed

(* A reader that waits for the header, and has all that was sent, waits    *)
(* for nothing.                                                            *)
LEMMA WaitsForRest ==
  ASSUME NEW r, NEW q, q = <<>>, NEW h \in Texts, NEW X \in Texts, Waits(r, q, h, X)
  PROVE  X = <<>> /\ r.head = h
<1>1. r.head \in Texts /\ r.head \o <<>> = h \o X /\ Len(r.head) <= Len(h)
  BY DEF Waits, AreSame
<1>2. r.head = h \o X
  BY <1>1, Nothing
<1>3. Len(r.head) = Len(h) + Len(X) /\ Len(X) \in Nat /\ Len(h) \in Nat
  BY <1>2, Concat
<1>4. X = <<>>
  BY <1>1, <1>3, Nothing
<1> QED BY <1>2, <1>4, Nothing

(* Every read keeps what has been read in line with what was sent, and the *)
(* last is the last.                                                       *)
LEMMA ClientReadsText ==
  ASSUME NEW r, NEW new \in Texts, NEW q \in Texts, NEW h, IsHead(h), NEW X \in Texts,
         NEW n, IsLength(h, n), NEW eof \in BOOLEAN,
         InText(r, new \o q, h, X, n), r.stage \in {"header", "body"},
         NEW t, t = ClientRead(r, new, eof)
  PROVE  /\ InText(t, q, h, X, n)
         /\ eof => t.stage \notin {"header", "body"}
         /\ n < 0 /\ t.stage = "whole" => eof
         /\ t.stage = "failed" => eof
         /\ n < 0 /\ q = <<>> /\ X # <<>> => t.stage # "failed"
<1>1. n \in Int /\ ~IsChunked(h)
  BY DEF IsLength
<1>4. h \in Texts
  BY DEF IsHead
<1>2. CASE Waits(r, new \o q, h, X)
  <2> DEFINE s == WithMore(r, new)
  <2>0. s = WithMore(r, new)
    OBVIOUS
  <2> HIDE DEF s
  <2>1. /\ s \in Readers /\ s.stage = "header" /\ ~s.chunked /\ s.blen = -1
        /\ \/ HeaderEnds(s.head) = {} /\ Waits(s, q, h, X)
           \/ /\ HeaderEnds(s.head) # {}
              /\ \E b \in Texts : b \o q = X /\ Split(s) = [At("body", s) EXCEPT !.head = h, !.body = b]
    <3>1. HasMore(s, q, h, X)
      BY <1>2, <2>0, MoreOfHeader
    <3> QED BY <3>1 DEF HasMore
  <2>2. t = ReadHeader(s, eof)
    <3>1. r.stage = "header"
      BY <1>2 DEF Waits, NewReader
    <3> QED BY <2>0, <3>1 DEF ClientRead, WithMore
  <2>3. CASE HeaderEnds(s.head) = {} /\ Waits(s, q, h, X)
    <3>1. t = IF eof THEN At("failed", s) ELSE s
      BY <2>2, <2>3 DEF ReadHeader
    <3>2. eof => HasFailed(t) /\ t.stage \notin {"header", "body"}
      BY <2>1, <3>1, NoHeaderYet
    <3>3. ~eof => t = s /\ t.stage # "whole"
      BY <2>1, <3>1
    <3>4. HasFailed(t) => t.stage # "whole"
      BY DEF HasFailed
    <3>5. q = <<>> => X = <<>>
      BY <1>4, <2>3, WaitsForRest
    <3> QED BY <2>1, <2>3, <3>2, <3>3, <3>4, <3>5 DEF InText
  <2>4. CASE HeaderEnds(s.head) # {} /\ \E b \in Texts :
               b \o q = X /\ Split(s) = [At("body", s) EXCEPT !.head = h, !.body = b]
    <3>1. PICK b \in Texts : b \o q = X /\ Split(s) = [At("body", s) EXCEPT !.head = h, !.body = b]
      BY <2>4
    <3> DEFINE u == [Split(s) EXCEPT !.blen = n]
    <3>2. /\ Split(s).head = h
          /\ u \in Readers /\ u.stage = "body" /\ u.head = h /\ ~u.chunked /\ u.blen = n /\ u.body = b
      <4>1. h \in Seq(STRING) /\ b \in Seq(STRING)
        BY DEF IsHead, Texts
      <4> QED BY <1>1, <2>1, <3>1, <4>1 DEF At, Readers
    <3>3. u = IF n \in Nat THEN [Split(s) EXCEPT !.blen = n] ELSE Split(s)
      <4>1. n \notin Nat => n = -1
        BY LengthGiven
      <4> QED BY <2>1, <3>1, <4>1 DEF At, Readers
    <3>4. t = ReadBody(u, eof)
      <4>1. /\ n \in Nat => /\ Fields(LengthNames, h) # {} /\ Lengths(h) # {}
                            /\ (CHOOSE m \in Lengths(h) : TRUE) = n
            /\ n \notin Nat => Fields(LengthNames, h) = {}
        BY LengthGiven
      <4> HIDE DEF u
      <4> QED BY <1>1, <2>2, <2>4, <3>2, <3>3, <4>1 DEF ReadHeader
    <3> HIDE DEF u
    <3>5. t = ReadResponse(u, eof)
      BY <3>2, <3>4 DEF ReadBody
    <3>6. /\ InText(t, q, h, X, n)
          /\ eof => t.stage \notin {"header", "body"}
          /\ n < 0 /\ t.stage = "whole" => eof
          /\ t.stage = "failed" => eof /\ n >= 0
      BY <1>1, <3>1, <3>2, <3>5, ResponseRead
    <3> QED BY <1>1, <3>6
  <2> QED BY <2>1, <2>3, <2>4
<1>3. CASE InBody(r, new \o q, h, X, n)
  <2> DEFINE u == [r EXCEPT !.body = @ \o new]
  <2>1. /\ r \in Readers /\ r.head = h /\ ~r.chunked /\ r.blen = n /\ r.body \o (new \o q) = X
        /\ r.stage = "body" /\ r.body \in Texts
    BY <1>3 DEF InBody, Readers, Texts
  <2>2. r.body \o new \in Texts /\ (r.body \o new) \o q = X
    <3>1. IsAssociative(r.body, new, q)
      BY <2>1, Associative
    <3>2. r.body \o new \in Texts
      BY <2>1, Concat
    <3> QED BY <2>1, <3>1, <3>2 DEF IsAssociative
  <2>3. u \in Readers /\ u.stage = "body" /\ u.head = h /\ ~u.chunked /\ u.blen = n /\ u.body \o q = X
    BY <2>1, <2>2 DEF Readers, Texts
  <2>4. t = ReadResponse(u, eof)
    BY <2>1, <2>3 DEF ClientRead, ReadBody
  <2> HIDE DEF u
  <2>5. /\ InText(t, q, h, X, n)
        /\ eof => t.stage \notin {"header", "body"}
        /\ n < 0 /\ t.stage = "whole" => eof
        /\ t.stage = "failed" => eof /\ n >= 0
    BY <1>1, <2>3, <2>4, ResponseRead
  <2> QED BY <1>1, <2>5
<1> QED BY <1>2, <1>3 DEF InText, HasFailed

LEMMA ServerReadsText ==
  ASSUME NEW r, NEW new \in Texts, NEW q \in Texts, NEW h, IsHead(h), NEW X \in Texts,
         NEW n \in Nat, IsLength(h, n), NEW eof \in BOOLEAN,
         InText(r, new \o q, h, X, n), r.stage \in {"header", "body"},
         NEW t, t = ServerRead(r, new, eof)
  PROVE  /\ InText(t, q, h, X, n)
         /\ eof => t.stage \notin {"header", "body"}
         /\ t.stage = "failed" /\ n = Len(X) => eof
<1>1. CASE Waits(r, new \o q, h, X)
  <2> DEFINE s == WithMore(r, new)
  <2>0. s = WithMore(r, new)
    OBVIOUS
  <2> HIDE DEF s
  <2>1. /\ s \in Readers /\ s.stage = "header" /\ ~s.chunked /\ s.blen = -1
        /\ \/ HeaderEnds(s.head) = {} /\ Waits(s, q, h, X)
           \/ /\ HeaderEnds(s.head) # {}
              /\ \E b \in Texts : b \o q = X /\ Split(s) = [At("body", s) EXCEPT !.head = h, !.body = b]
    <3>1. HasMore(s, q, h, X)
      BY <1>1, <2>0, MoreOfHeader
    <3> QED BY <3>1 DEF HasMore
  <2>2. t = ServerReadHeader(s, eof)
    <3>1. r.stage = "header"
      BY <1>1 DEF Waits, NewReader
    <3> QED BY <2>0, <3>1 DEF ServerRead, WithMore
  <2>3. CASE HeaderEnds(s.head) = {} /\ Waits(s, q, h, X)
    <3>1. t = IF eof THEN At("failed", s) ELSE s
      BY <2>2, <2>3 DEF ServerReadHeader
    <3>2. eof => HasFailed(t) /\ t.stage \notin {"header", "body"}
      BY <2>1, <3>1, NoHeaderYet
    <3> QED BY <2>1, <2>3, <3>1, <3>2 DEF InText
  <2>4. CASE HeaderEnds(s.head) # {} /\ \E b \in Texts :
               b \o q = X /\ Split(s) = [At("body", s) EXCEPT !.head = h, !.body = b]
    <3>1. PICK b \in Texts : b \o q = X /\ Split(s) = [At("body", s) EXCEPT !.head = h, !.body = b]
      BY <2>4
    <3> DEFINE u == [Split(s) EXCEPT !.blen = n]
    <3>2. /\ Split(s).head = h
          /\ u \in Readers /\ u.stage = "body" /\ u.head = h /\ ~u.chunked /\ u.blen = n /\ u.body = b
      <4>1. h \in Seq(STRING) /\ b \in Seq(STRING)
        BY DEF IsHead, Texts
      <4>2. n \in Int
        OBVIOUS
      <4> QED BY <2>1, <3>1, <4>1, <4>2 DEF At, Readers
    <3>3. t = ReadRequest(u, eof)
      <4>1. Lengths(h) # {} /\ (CHOOSE m \in Lengths(h) : TRUE) = n
        BY LengthGiven
      <4> QED BY <2>2, <2>4, <3>2, <4>1 DEF ServerReadHeader
    <3> HIDE DEF u
    <3>4. u.body \o q = X
      BY <3>1, <3>2
    <3> QED BY <3>2, <3>3, <3>4, RequestRead
  <2> QED BY <2>1, <2>3, <2>4
<1>2. CASE InBody(r, new \o q, h, X, n)
  <2> DEFINE u == [r EXCEPT !.body = @ \o new]
  <2>1. /\ r \in Readers /\ r.head = h /\ ~r.chunked /\ r.blen = n /\ r.body \o (new \o q) = X
        /\ r.stage = "body" /\ r.body \in Texts
    BY <1>2 DEF InBody, Readers, Texts
  <2>2. r.body \o new \in Texts /\ (r.body \o new) \o q = X
    <3>1. IsAssociative(r.body, new, q)
      BY <2>1, Associative
    <3>2. r.body \o new \in Texts
      BY <2>1, Concat
    <3> QED BY <2>1, <3>1, <3>2 DEF IsAssociative
  <2>3. u \in Readers /\ u.stage = "body" /\ u.head = h /\ ~u.chunked /\ u.blen = n /\ u.body \o q = X
    BY <2>1, <2>2 DEF Readers, Texts
  <2>4. t = ReadRequest(u, eof)
    BY <2>1 DEF ServerRead
  <2> HIDE DEF u
  <2> QED BY <2>3, <2>4, RequestRead
<1> QED BY <1>1, <1>2 DEF InText, HasFailed

(* What a chunking says of one of its chunks: it is a piece of the         *)
(* document, and is followed by the next.                                  *)
IsPiece(g, document, i, piece) ==
  /\ piece # <<>> /\ IsChunk(Drop(g.text, g.starts[i]), piece)
  /\ SubSeq(document, 1, g.from[i]) \in Texts
  /\ SubSeq(document, 1, g.from[i]) \o piece = SubSeq(document, 1, g.from[i + 1])
  /\ Drop(Drop(g.text, g.starts[i]), LineEnd(Drop(g.text, g.starts[i])) + Len(piece) + 2)
       = Drop(g.text, g.starts[i + 1])
LEMMA ChunkOfMany ==
  ASSUME NEW g, NEW document \in Texts, IsChunking(g, document), NEW i \in 1..(Len(g.starts) - 1)
  PROVE  \E piece \in Texts : IsPiece(g, document, i, piece)
<1> DEFINE a == g.from[i]
           b == g.from[i + 1]
           k == g.starts[i]
           m == g.starts[i + 1]
           rest == Drop(g.text, k)
           piece == SubSeq(document, a + 1, b)
           l == LineEnd(rest)
<1>1. /\ g.text \in Texts /\ g.starts \in Seq(0..Len(g.text)) /\ g.from \in Seq(0..Len(document))
      /\ Len(g.from) = Len(g.starts)
      /\ a < b /\ IsChunk(rest, piece) /\ m = k + l + Len(piece) + 2
  BY DEF IsChunking
<1>2. Len(g.starts) \in Nat /\ Len(g.text) \in Nat /\ Len(document) \in Nat
  BY <1>1, LenProperties, Nothing
<1>3. i \in 1..Len(g.starts) /\ i + 1 \in 1..Len(g.starts)
  BY <1>2
<1>4. a \in 0..Len(document) /\ b \in 0..Len(document) /\ k \in 0..Len(g.text) /\ m \in 0..Len(g.text)
  BY <1>1, <1>3, ElementOfSeq
<1> HIDE DEF a, b, k, m
<1>5. SubSeq(document, 1, a) \in Texts
  BY <1>4, TakeDrop
<1>6. piece \in Texts /\ Len(piece) = b - a
  <2>1. a + 1 \in Int /\ b \in Int /\ a + 1 <= b /\ b - (a + 1) + 1 = b - a
    BY <1>1, <1>2, <1>4
  <2>2. \A j \in (a + 1)..b : document[j] \in STRING
    <3>1. \A j \in (a + 1)..b : j \in 1..Len(document)
      BY <1>2, <1>4
    <3> QED BY <3>1, ElementOfSeq DEF Texts
  <2>3. /\ SubSeq(document, a + 1, b) \in Seq(STRING)
        /\ Len(SubSeq(document, a + 1, b)) = IF a + 1 <= b THEN b - (a + 1) + 1 ELSE 0
    BY <2>1, <2>2, SubSeqProperties
  <2> QED BY <2>1, <2>3 DEF Texts
<1>7. SubSeq(document, 1, a) \o piece = SubSeq(document, 1, b)
  <2>1. 1 \in 1..(Len(document) + 1) /\ a \in (1 - 1)..Len(document) /\ b \in a..Len(document)
    BY <1>1, <1>2, <1>4
  <2> QED BY <2>1, ConcatAdjacentSubSeq DEF Texts
<1>8. Found(CrLf, rest) # {} /\ rest \in Texts
  BY <1>1, <1>4, TakeDrop DEF IsChunk
<1> HIDE DEF piece
<1>9. piece # <<>>
  BY <1>1, <1>2, <1>4, <1>6
<1>10. l \in Nat
  <2>1. l \in 2..Len(rest)
    <3>1. <<>> \in Texts /\ rest \o <<>> = rest
      BY <1>8, Nothing
    <3>2. Found(CrLf, rest \o <<>>) # {}
      BY <1>8, <3>1
    <3>3. LineEnd(rest \o <<>>) \in 2..Len(rest \o <<>>)
      BY <1>8, <3>1, <3>2, LineEndOfStart
    <3> QED BY <3>1, <3>3
  <2>2. Len(rest) \in Nat
    BY <1>8, Nothing
  <2> HIDE DEF l, rest
  <2> QED BY <2>1, <2>2
<1>11. Drop(rest, l + Len(piece) + 2) = Drop(g.text, m)
  <2>1. Len(piece) \in Nat
    BY <1>6, Nothing
  <2> HIDE DEF l
  <2>2. l + Len(piece) + 2 \in Nat /\ k \in Nat /\ k + (l + Len(piece) + 2) = m /\ m <= Len(g.text)
    BY <1>1, <1>2, <1>4, <1>10, <2>1
  <2> QED BY <1>1, <2>2, DropTwice DEF rest
<1>12. IsPiece(g, document, i, piece)
  BY <1>1, <1>5, <1>6, <1>7, <1>9, <1>11 DEF IsPiece, a, b, k, m, rest, l
<1> QED BY <1>6, <1>12

(* A step that ends with the connection is the last, and fails only then.  *)
Goes(t, eof) == (eof => t.stage \notin {"header", "body"}) /\ (t.stage = "failed" => eof)

(* The loop over the chunks goes from one to the next, and ends with the   *)
(* last, or where more is to come.                                         *)
LEMMA ChunkRead ==
  ASSUME NEW s \in Readers, NEW q \in Texts, NEW h, NEW g, NEW document \in Texts,
         IsChunking(g, document), NEW i \in 1..Len(g.starts), NEW eof \in BOOLEAN,
         s.head = h, s.chunked,
         s.body = SubSeq(document, 1, g.from[i]), s.chunk \o q = Drop(g.text, g.starts[i]),
         NEW t, t = ProcessChunk(s, eof)
  PROVE  InChunks(t, q, h, g, document) /\ Goes(t, eof)
<1> DEFINE last == Len(g.starts)
<1>1. /\ last >= 1 /\ g.from[last] = Len(document) /\ IsLastChunk(Drop(g.text, g.starts[last]))
      /\ g.starts \in Seq(0..Len(g.text))
  BY DEF IsChunking
<1>2. last \in Nat
  BY <1>1, LenProperties
<1>3. \A stage_ \in {"body", "whole", "failed"} :
        /\ At(stage_, s) \in Readers /\ At(stage_, s).stage = stage_
        /\ At(stage_, s).head = h /\ At(stage_, s).chunked
        /\ At(stage_, s).body = s.body /\ At(stage_, s).chunk = s.chunk
  BY DEF At, Readers
<1>4. ASSUME t = At(IF eof THEN "failed" ELSE "body", s), q # <<>>
      PROVE  InChunks(t, q, h, g, document) /\ Goes(t, eof)
  <2>1. CASE eof
    <3>1. HasFailed(t) /\ t.stage = "failed"
      BY <1>3, <1>4, <2>1 DEF HasFailed
    <3> QED BY <2>1, <3>1 DEF InChunks, Goes
  <2>2. CASE ~eof
    <3>1. t = At("body", s)
      BY <1>4, <2>2
    <3>2. InChunk(t, q, h, g, document, i)
      BY <1>3, <1>4, <3>1 DEF InChunk
    <3>3. t.stage = "body"
      BY <1>3, <3>1
    <3> QED BY <2>2, <3>2, <3>3 DEF InChunks, Goes
  <2> QED BY <2>1, <2>2
<1>5. CASE i = last
  <2>1. IsLastChunk(s.chunk \o q)
    BY <1>1, <1>5
  <2>2. \/ t = At(IF eof THEN "failed" ELSE "body", s) /\ q # <<>>
        \/ t = At("whole", s)
    BY <2>1, LastChunkTaken
  <2>3. ASSUME t = At("whole", s)
        PROVE  InChunks(t, q, h, g, document) /\ Goes(t, eof)
    <3>1. s.body = document
      BY <1>1, <1>5, SubSeqFull DEF Texts
    <3> QED BY <1>3, <2>3, <3>1 DEF InChunks, Goes
  <2> QED BY <1>4, <2>2, <2>3
<1>6. CASE i # last
  <2>1. i \in 1..(last - 1) /\ i + 1 \in 1..last
    BY <1>2, <1>6
  <2>2. PICK piece \in Texts :
           /\ piece # <<>> /\ IsChunk(s.chunk \o q, piece)
           /\ SubSeq(document, 1, g.from[i]) \in Texts
           /\ SubSeq(document, 1, g.from[i]) \o piece = SubSeq(document, 1, g.from[i + 1])
           /\ Drop(s.chunk \o q, LineEnd(s.chunk \o q) + Len(piece) + 2) = Drop(g.text, g.starts[i + 1])
    <3>1. PICK piece \in Texts : IsPiece(g, document, i, piece)
      BY <2>1, ChunkOfMany
    <3> QED BY <3>1 DEF IsPiece
  <2>3. \/ t = At(IF eof THEN "failed" ELSE "body", s) /\ q # <<>>
        \/ \E rest \in Texts :
              /\ rest \o q = Drop(s.chunk \o q, LineEnd(s.chunk \o q) + Len(piece) + 2)
              /\ t = [s EXCEPT !.stage = "chunks", !.body = @ \o piece, !.chunk = rest]
    <3>1. IsTaken(s, q, eof, piece)
      BY <2>2, ChunkTaken
    <3> QED BY <3>1 DEF IsTaken
  <2>4. ASSUME NEW rest \in Texts,
               rest \o q = Drop(s.chunk \o q, LineEnd(s.chunk \o q) + Len(piece) + 2),
               t = [s EXCEPT !.stage = "chunks", !.body = @ \o piece, !.chunk = rest]
        PROVE  InChunks(t, q, h, g, document) /\ Goes(t, eof)
    <3>1. s.body \o piece = SubSeq(document, 1, g.from[i + 1]) /\ s.body \o piece \in Texts
      BY <2>2, Concat
    <3>2. rest \o q = Drop(g.text, g.starts[i + 1])
      BY <2>2, <2>4
    <3>3. /\ t \in Readers /\ t.stage = "chunks" /\ t.head = h /\ t.chunked
          /\ t.body = s.body \o piece /\ t.chunk = rest
      BY <2>4, <3>1 DEF Readers, Texts
    <3>4. InChunk(t, q, h, g, document, i + 1)
      BY <3>1, <3>2, <3>3 DEF InChunk
    <3> QED BY <2>1, <3>3, <3>4 DEF InChunks, Goes
  <2> QED BY <1>4, <2>3, <2>4
<1> QED BY <1>5, <1>6

LEMMA ClientReadsChunks ==
  ASSUME NEW r, NEW new \in Texts, NEW q \in Texts, NEW h, IsHead(h), IsChunked(h),
         NEW g, NEW document \in Texts, IsChunking(g, document), NEW eof \in BOOLEAN,
         InChunks(r, new \o q, h, g, document), r.stage \in {"header", "body"},
         NEW t, t = ClientRead(r, new, eof)
  PROVE  InChunks(t, q, h, g, document) /\ Goes(t, eof)
<1>1. /\ g.text \in Texts /\ g.starts \in Seq(0..Len(g.text)) /\ Len(g.starts) >= 1
      /\ g.starts[1] = 0 /\ g.from[1] = 0
  BY DEF IsChunking
<1>2. 1 \in 1..Len(g.starts)
  <2>1. Len(g.starts) \in Nat
    BY <1>1, LenProperties
  <2> QED BY <1>1, <2>1
<1>3. CASE Waits(r, new \o q, h, g.text)
  <2> DEFINE s == WithMore(r, new)
  <2>0. s = WithMore(r, new)
    OBVIOUS
  <2> HIDE DEF s
  <2>1. /\ s \in Readers /\ s.stage = "header" /\ ~s.chunked /\ s.blen = -1
        /\ \/ HeaderEnds(s.head) = {} /\ Waits(s, q, h, g.text)
           \/ /\ HeaderEnds(s.head) # {}
              /\ \E b \in Texts :
                   b \o q = g.text /\ Split(s) = [At("body", s) EXCEPT !.head = h, !.body = b]
    <3>1. HasMore(s, q, h, g.text)
      BY <1>1, <1>3, <2>0, MoreOfHeader
    <3> QED BY <3>1 DEF HasMore
  <2>2. t = ReadHeader(s, eof)
    <3>1. r.stage = "header"
      BY <1>3 DEF Waits, NewReader
    <3> QED BY <2>0, <3>1 DEF ClientRead, WithMore
  <2>3. CASE HeaderEnds(s.head) = {} /\ Waits(s, q, h, g.text)
    <3>1. t = IF eof THEN At("failed", s) ELSE s
      BY <2>2, <2>3 DEF ReadHeader
    <3>2. eof => HasFailed(t) /\ t.stage \notin {"header", "body"}
      BY <2>1, <3>1, NoHeaderYet
    <3> QED BY <2>1, <2>3, <3>1, <3>2 DEF InChunks, Goes
  <2>4. CASE HeaderEnds(s.head) # {} /\ \E b \in Texts :
               b \o q = g.text /\ Split(s) = [At("body", s) EXCEPT !.head = h, !.body = b]
    <3>1. PICK b \in Texts :
            b \o q = g.text /\ Split(s) = [At("body", s) EXCEPT !.head = h, !.body = b]
      BY <2>4
    <3> DEFINE u == [Split(s) EXCEPT !.body = <<>>, !.chunk = b, !.chunked = TRUE]
    <3>2. /\ Split(s).head = h /\ Split(s).body = b
          /\ u \in Readers /\ u.stage = "body" /\ u.head = h /\ u.chunked
          /\ u.body = <<>> /\ u.chunk = b
      <4>1. h \in Seq(STRING) /\ b \in Seq(STRING) /\ <<>> \in Seq(STRING)
        BY <1>1, Nothing DEF IsHead, Texts
      <4> QED BY <2>1, <3>1, <4>1 DEF At, Readers
    <3>3. t = ProcessChunk(u, eof)
      <4>1. t = ReadBody([Split(s) EXCEPT !.body = <<>>, !.chunk = Split(s).body, !.chunked = TRUE], eof)
        BY <2>2, <2>4, <3>2 DEF ReadHeader
      <4>2. t = ReadBody(u, eof)
        BY <3>2, <4>1
      <4> HIDE DEF u
      <4> QED BY <3>2, <4>2 DEF ReadBody
    <3> HIDE DEF u
    <3>4. u.body = SubSeq(document, 1, g.from[1])
      BY <1>1, <3>2, SubSeqEmpty
    <3>5. u.chunk \o q = Drop(g.text, g.starts[1])
      <4>1. Drop(g.text, 0) = g.text
        BY <1>1, SubSeqFull DEF Drop, Texts
      <4> QED BY <1>1, <3>1, <3>2, <4>1
    <3> QED BY <1>2, <3>2, <3>3, <3>4, <3>5, ChunkRead
  <2> QED BY <2>1, <2>3, <2>4
<1>4. ASSUME NEW i \in 1..Len(g.starts), InChunk(r, new \o q, h, g, document, i)
      PROVE  InChunks(t, q, h, g, document) /\ Goes(t, eof)
  <2> DEFINE u == [r EXCEPT !.chunk = @ \o new]
  <2>1. /\ r \in Readers /\ r.head = h /\ r.chunked /\ r.stage = "body" /\ r.chunk \in Texts
        /\ r.body = SubSeq(document, 1, g.from[i])
        /\ r.chunk \o (new \o q) = Drop(g.text, g.starts[i])
    BY <1>4 DEF InChunk, Readers, Texts
  <2>2. r.chunk \o new \in Texts /\ (r.chunk \o new) \o q = Drop(g.text, g.starts[i])
    <3>1. IsAssociative(r.chunk, new, q)
      BY <2>1, Associative
    <3>2. r.chunk \o new \in Texts
      BY <2>1, Concat
    <3> QED BY <2>1, <3>1, <3>2 DEF IsAssociative
  <2>3. /\ u \in Readers /\ u.stage = "body" /\ u.head = h /\ u.chunked
        /\ u.body = SubSeq(document, 1, g.from[i]) /\ u.chunk \o q = Drop(g.text, g.starts[i])
    BY <2>1, <2>2 DEF Readers, Texts
  <2>4. t = ProcessChunk(u, eof)
    BY <2>1, <2>3 DEF ClientRead, ReadBody
  <2> HIDE DEF u
  <2> QED BY <2>3, <2>4, ChunkRead
<1>5. ~HasFailed(r) /\ r.stage # "whole"
  BY DEF HasFailed
<1> QED BY <1>3, <1>4, <1>5 DEF InChunks

(* From one chunk to the next, without reading.                            *)
LEMMA ClientGoesOn ==
  ASSUME NEW r, NEW q \in Texts, NEW h, NEW g, NEW document \in Texts,
         IsChunking(g, document), NEW eof \in BOOLEAN,
         InChunks(r, q, h, g, document), r.stage = "chunks",
         NEW t, t = ProcessChunk(r, eof)
  PROVE  InChunks(t, q, h, g, document) /\ Goes(t, eof)
<1>1. ~HasFailed(r) /\ r.stage # "whole" /\ ~Waits(r, q, h, g.text)
  BY DEF HasFailed, Waits, NewReader
<1>2. PICK i \in 1..Len(g.starts) : InChunk(r, q, h, g, document, i)
  BY <1>1 DEF InChunks
<1> QED BY <1>2, ChunkRead DEF InChunk

-----------------------------------------------------------------------------
(* The invariant.                                                          *)

Types ==
  /\ msg \in Messages /\ stage \in {"body", "head", "sent"}
  /\ edit \in {"none", "other", "cut", "before", "behind"}
  /\ conn \in {"open", "coming", "read"}
  /\ todo \in Texts /\ head \in Texts /\ body \in Texts /\ wire \in Texts /\ lost \in Texts

(* What is built, and how long the buffer is; and what other programs have *)
(* made of it.                                                             *)
AnyHeads(m, n) == Heads(m, n) \cup EndlessHeads(m) \cup ChunkedHeads(m)
Built ==
  /\ stage # "sent" =>
       edit = "none" /\ wire = <<>> /\ lost = <<>> /\ conn = "open" /\ reader = NewReader
  /\ stage = "body" => body \o todo = BodyText(msg) /\ head = <<>> /\ len = Len(body)
  /\ stage = "head" =>
       body = BodyText(msg) /\ head \o todo = HeadText(msg, Len(body)) /\ len = Len(head)
  /\ stage = "sent" /\ edit = "none" =>
       body = BodyText(msg) /\ head = HeadText(msg, Len(body)) /\ len = Len(head) + Len(body)
  /\ stage = "sent" /\ edit = "other" =>
       body \in Documents(msg) /\ head \in AnyHeads(msg, Len(body))

(* Nothing is lost while the connection is open, and once its end has been *)
(* read there is nothing left to read.                                     *)
Ends == (conn = "open" => lost = <<>>) /\ (conn = "read" => wire = <<>>)

(* How what was sent is framed, and what the reader has of it: X is what   *)
(* is behind the header.  A connection that ends has lost some of it, if   *)
(* its end is not that of the message.                                     *)
Complete == edit \in {"none", "other"} /\ lost = <<>>
LengthFramed(X, n) ==
  /\ IsLength(head, n) /\ n <= Len(X) /\ (n = 0 => edit = "cut")
  /\ edit \in {"none", "other"} => X = body /\ n = Len(body)
  /\ Complete => conn = "open"
  /\ InText(reader, wire \o lost, head, X, n)
EndlessFramed ==
  /\ edit = "other" /\ msg \notin Requests /\ conn # "open" /\ IsLength(head, -1)
  /\ InText(reader, wire \o lost, head, body, -1)
  /\ reader.stage = "whole" => conn = "read"
ChunkFramed(g) ==
  /\ edit = "other" /\ msg \notin Requests /\ IsChunked(head) /\ IsChunking(g, body)
  /\ Complete => conn = "open"
  /\ InChunks(reader, wire \o lost, head, g, body)
IsFramed ==
  \/ \E X \in Texts, n \in Nat : LengthFramed(X, n)
  \/ EndlessFramed
  \/ \E g : ChunkFramed(g)
Framed ==
  stage = "sent" /\ edit # "before" =>
    /\ IsHead(head) /\ IsFramed
    /\ conn = "read" => reader.stage \notin {"header", "body"}
    /\ Complete => reader.stage # "failed"

TransportInv == Types /\ Built /\ Ends /\ Framed /\ BufferInv

-----------------------------------------------------------------------------
(* A new reader waits for the header of what is sent.                      *)
LEMMA FreshReader ==
  ASSUME NEW h \in Texts, NEW X \in Texts, NEW w, w = (h \o X) \o <<>>
  PROVE  Waits(NewReader, w, h, X)
<1>1. h \o X \in Texts
  BY Concat
<1>2. w = h \o X
  BY <1>1, Nothing
<1>3. <<>> \o (h \o X) = h \o X
  BY <1>1, Nothing
<1>4. <<>> \in Texts /\ Len(<<>>) = 0 /\ Len(h) \in Nat
  BY Nothing
<1>5. NewReader.head = <<>> /\ NewReader = [NewReader EXCEPT !.head = NewReader.head]
  BY DEF NewReader
<1>6. AreSame(NewReader.head, w, h, X)
  BY <1>2, <1>3, <1>5 DEF AreSame
<1>7. NewReader.head \in Texts /\ Len(NewReader.head) <= Len(h)
  BY <1>4, <1>5
<1> QED BY <1>5, <1>6, <1>7 DEF Waits

(* What the assumptions say of the code's own messages.                    *)
LEMMA OwnBody ==
  ASSUME NEW m \in Messages
  PROVE  BodyText(m) \in Texts /\ BodyText(m) # <<>> /\ Len(BodyText(m)) \in BodyLengths(m)
<1>1. BodyText(m) \in Documents(m)
  BY DEF Documents
<1>2. BodyText(m) \in Texts /\ BodyText(m) # <<>>
  BY <1>1, BodyAssumption
<1>3. Len(BodyText(m)) \in 0..Len(BodyText(m))
  BY <1>2, Nothing
<1> QED BY <1>2, <1>3 DEF BodyLengths

LEMMA OwnHead ==
  ASSUME NEW m \in Messages, NEW n \in BodyLengths(m), n \in Nat, NEW h \in Heads(m, n)
  PROVE  h \in Texts /\ IsHead(h) /\ IsLength(h, n)
<1>1. IsHead(h) /\ Lengths(h) = {n} /\ ~IsChunked(h)
  BY HeadAssumption
<1> QED BY <1>1 DEF IsHead, IsLength

LEMMA FirstToken ==
  ASSUME NEW a \in Texts, NEW b \in Texts, b # <<>>
  PROVE  /\ Append(a, Head(b)) \in Texts /\ Tail(b) \in Texts
         /\ Append(a, Head(b)) \o Tail(b) = a \o b
         /\ Len(Append(a, Head(b))) = Len(a) + 1
<1>1. Head(b) \in STRING /\ Tail(b) \in Seq(STRING)
  BY HeadTailProperties DEF Texts
<1>2. Append(a, Head(b)) \in Seq(STRING) /\ Len(Append(a, Head(b))) = Len(a) + 1
  BY <1>1, AppendProperties DEF Texts
<1>3. Append(a, Head(b)) = a \o <<Head(b)>> /\ Append(<<>>, Head(b)) = <<>> \o <<Head(b)>>
  BY <1>1, AppendIsConcat, Nothing DEF Texts
<1>4. <<Head(b)>> \in Texts
  <2>1. <<>> \in Seq(STRING)
    BY EmptySeq
  <2>2. Append(<<>>, Head(b)) \in Seq(STRING)
    BY <1>1, <2>1, AppendProperties
  <2>3. Append(<<>>, Head(b)) = <<Head(b)>>
    OBVIOUS
  <2> QED BY <2>2, <2>3 DEF Texts
<1>5. <<Head(b)>> \o Tail(b) = b
  <2>1. Len(b) \in Nat /\ Len(b) # 0
    BY Nothing
  <2>2. 1 \in 1..Len(b) /\ Len(b) \in 1..Len(b)
    BY <2>1
  <2>3. SubSeq(b, 1, Len(b)) = <<b[1]>> \o SubSeq(b, 1 + 1, Len(b))
    BY <2>2, SubSeqRecursiveFirst DEF Texts
  <2>4. SubSeq(b, 1, Len(b)) = b /\ Tail(b) = SubSeq(b, 2, Len(b)) /\ Head(b) = b[1]
    BY SubSeqFull, TailIsSubSeq DEF Texts
  <2> QED BY <2>3, <2>4
<1>6. IsAssociative(a, <<Head(b)>>, Tail(b))
  BY <1>1, <1>4, Associative DEF Texts
<1> QED BY <1>1, <1>2, <1>3, <1>5, <1>6 DEF IsAssociative, Texts

-----------------------------------------------------------------------------
(* The steps.                                                              *)

LEMMA InitInv == Init => TransportInv
<1> SUFFICES ASSUME Init PROVE TransportInv
  OBVIOUS
<1>1. /\ BodyText(msg) \in Texts /\ <<>> \in Texts /\ <<>> \o BodyText(msg) = BodyText(msg)
      /\ Len(<<>>) = 0
  BY OwnBody, Nothing DEF Init
<1>2. Types
  BY <1>1 DEF Types, Init
<1>3. Built
  BY <1>1 DEF Built, Init, BufferInit
<1>4. Ends /\ Framed
  BY DEF Ends, Framed, Init
<1>5. BufferInv
  BY BuffStartAssumption DEF Init, BufferInit, BufferInv, BufferTypes, BufferSound
<1> QED BY <1>2, <1>3, <1>4, <1>5 DEF TransportInv

(* Nothing has happened yet to what was sent.                              *)
LEMMA IntactMessage ==
  ASSUME TransportInv, Intact
  PROVE  /\ body = BodyText(msg) /\ head = HeadText(msg, Len(body)) /\ body # <<>>
         /\ Len(body) \in Nat /\ Len(body) # 0 /\ Len(body) \in BodyLengths(msg)
         /\ conn = "open" /\ wire = head \o body
<1>1. body = BodyText(msg) /\ head = HeadText(msg, Len(body)) /\ msg \in Messages /\ body \in Texts
  BY DEF TransportInv, Types, Built, Intact
<1>2. body # <<>> /\ Len(body) \in BodyLengths(msg)
  BY <1>1, OwnBody
<1>3. Len(body) \in Nat /\ Len(body) # 0
  BY <1>1, <1>2, Nothing
<1>4. reader.stage = "header"
  BY DEF Intact, NewReader
<1>5. conn = "open"
  BY DEF TransportInv, Framed, IsFramed, LengthFramed, EndlessFramed, ChunkFramed, Intact, Complete
<1>6. wire = head \o body
  <2>1. PICK X \in Texts, n \in Nat : LengthFramed(X, n)
    BY DEF TransportInv, Framed, IsFramed, EndlessFramed, ChunkFramed, Intact
  <2>2. X = body /\ InText(reader, wire \o lost, head, X, n)
    BY <2>1 DEF LengthFramed, Intact
  <2>3. Waits(reader, wire \o lost, head, body)
    BY <1>4, <2>2 DEF InText, InBody, HasFailed
  <2>4. reader.head = <<>> /\ lost = <<>> /\ wire \in Texts
    BY DEF Intact, NewReader, TransportInv, Types
  <2>5. <<>> \o (wire \o <<>>) = head \o body
    BY <2>3, <2>4 DEF Waits, AreSame
  <2>6. wire \o <<>> = wire /\ <<>> \o wire = wire
    BY <2>4, Nothing
  <2> QED BY <2>5, <2>6
<1> QED BY <1>1, <1>2, <1>3, <1>5, <1>6

(* Another text with a header that gives its length, or less.              *)
LEMMA OtherText ==
  ASSUME TransportInv, Intact, NEW how \in {"other", "cut", "behind"}, NEW h, NEW text \in Texts,
         NEW n \in Nat, IsHead(h), IsLength(h, n), n <= Len(text), n = 0 => how = "cut",
         Changed(how, h, text), UNCHANGED conn, body' \in Texts,
         how = "other" =>
           /\ text = body' /\ n = Len(body')
           /\ body' \in Documents(msg) /\ h \in Heads(msg, Len(body'))
  PROVE  TransportInv'
<1>1. h \in Texts /\ h \o text \in Texts
  BY Concat DEF IsHead
<1>2. /\ stage' = "sent" /\ edit' = how /\ head' = h /\ wire' = h \o text /\ lost' = <<>>
      /\ reader' = NewReader /\ msg' = msg /\ todo' = todo /\ conn' = conn
      /\ len' = len /\ all' = all /\ top' = top
  BY DEF Changed, Intact, buffer
<1>3. Types'
  BY <1>1, <1>2, Nothing DEF TransportInv, Types
<1>4. Built' /\ Ends' /\ BufferInv'
  BY <1>2, IntactMessage DEF TransportInv, Built, AnyHeads, Ends, BufferInv, BufferTypes, BufferSound
<1>5. Waits(reader', wire' \o lost', head', text)
  BY <1>1, <1>2, FreshReader
<1>6. LengthFramed(text, n)'
  BY <1>2, <1>5, IntactMessage DEF LengthFramed, InText, Complete
<1>7. Framed'
  BY <1>2, <1>6, IntactMessage DEF Framed, IsFramed, NewReader
<1> QED BY <1>3, <1>4, <1>7 DEF TransportInv

LEMMA PutStep == TransportInv /\ Put => TransportInv'
<1> SUFFICES ASSUME TransportInv, Put PROVE TransportInv'
  OBVIOUS
<1>0. /\ todo \in Texts /\ head \in Texts /\ body \in Texts /\ todo # <<>> /\ len \in Nat
      /\ stage \in {"body", "head"} /\ stage' = stage /\ todo' = Tail(todo)
      /\ msg' = msg /\ edit' = edit /\ wire' = wire /\ lost' = lost /\ conn' = conn /\ reader' = reader
      /\ len' = len + 1
  BY DEF TransportInv, Types, BufferInv, BufferTypes, Put, BuffAppend, BuffConcat
<1>1. BufferInv'
  BY BufferStep DEF TransportInv, Put, BuffNext
<1>2. CASE stage = "body"
  <2>1. body' = Append(body, Head(todo)) /\ head' = head
    BY <1>2 DEF Put
  <2>2. /\ body' \in Texts /\ todo' \in Texts /\ body' \o todo' = body \o todo
        /\ Len(body') = Len(body) + 1
    BY <1>0, <2>1, FirstToken
  <2>3. Types' /\ Ends' /\ Framed'
    BY <1>0, <1>2, <2>1, <2>2 DEF TransportInv, Types, Ends, Framed
  <2>4. Built'
    BY <1>0, <1>2, <2>1, <2>2 DEF TransportInv, Built
  <2> QED BY <1>1, <2>3, <2>4 DEF TransportInv
<1>3. CASE stage = "head"
  <2>1. head' = Append(head, Head(todo)) /\ body' = body
    BY <1>3 DEF Put
  <2>2. /\ head' \in Texts /\ todo' \in Texts /\ head' \o todo' = head \o todo
        /\ Len(head') = Len(head) + 1
    BY <1>0, <2>1, FirstToken
  <2>3. Types' /\ Ends' /\ Framed'
    BY <1>0, <1>3, <2>1, <2>2 DEF TransportInv, Types, Ends, Framed
  <2>4. Built'
    BY <1>0, <1>3, <2>1, <2>2 DEF TransportInv, Built
  <2> QED BY <1>1, <2>3, <2>4 DEF TransportInv
<1> QED BY <1>0, <1>2, <1>3

LEMMA StartHeaderStep == TransportInv /\ StartHeader => TransportInv'
<1> SUFFICES ASSUME TransportInv, StartHeader PROVE TransportInv'
  OBVIOUS
<1>0. /\ stage = "body" /\ stage' = "head" /\ todo = <<>> /\ todo' = HeadText(msg, Len(body))
      /\ msg' = msg /\ head' = head /\ body' = body /\ edit' = edit /\ wire' = wire /\ lost' = lost
      /\ conn' = conn /\ reader' = reader /\ len' = 0
      /\ msg \in Messages /\ body \in Texts /\ head = <<>> /\ body \o todo = BodyText(msg)
  BY DEF TransportInv, Types, Built, StartHeader, NewBuff
<1>1. BufferInv'
  BY BufferStep DEF TransportInv, StartHeader, BuffNext
<1>2. body = BodyText(msg)
  BY <1>0, Nothing
<1>3. todo' \in Texts
  <2>1. Len(body) \in BodyLengths(msg) /\ Len(body) \in Nat
    BY <1>0, <1>2, OwnBody, Nothing
  <2>2. HeadText(msg, Len(body)) \in Heads(msg, Len(body))
    BY DEF Heads
  <2> QED BY <1>0, <2>1, <2>2, OwnHead
<1>4. head \o todo' = todo' /\ Len(head) = 0
  BY <1>0, <1>3, Nothing
<1>5. Types' /\ Ends' /\ Framed'
  BY <1>0, <1>3 DEF TransportInv, Types, Ends, Framed
<1>6. Built'
  BY <1>0, <1>2, <1>4 DEF TransportInv, Built
<1> QED BY <1>1, <1>5, <1>6 DEF TransportInv

LEMMA AppendBodyStep == TransportInv /\ AppendBody => TransportInv'
<1> SUFFICES ASSUME TransportInv, AppendBody PROVE TransportInv'
  OBVIOUS
<1>0. /\ stage = "head" /\ stage' = "sent" /\ todo = <<>> /\ wire' = head \o body
      /\ msg' = msg /\ todo' = todo /\ head' = head /\ body' = body /\ edit' = edit /\ lost' = lost
      /\ conn' = conn /\ reader' = reader /\ len' = len + Len(body)
      /\ msg \in Messages /\ body \in Texts /\ head \in Texts /\ body = BodyText(msg)
      /\ head \o todo = HeadText(msg, Len(body)) /\ len = Len(head)
      /\ edit = "none" /\ lost = <<>> /\ conn = "open" /\ reader = NewReader
  BY DEF TransportInv, Types, Built, AppendBody, BuffAppend
<1>1. /\ body # <<>> /\ Len(body) \in BodyLengths(msg) /\ Len(body) \in Nat /\ Len(body) # 0
      /\ head = HeadText(msg, Len(body)) /\ wire' \in Texts
  <2>1. body # <<>> /\ Len(body) \in BodyLengths(msg)
    BY <1>0, OwnBody
  <2>2. Len(body) \in Nat /\ Len(body) # 0
    BY <1>0, <2>1, Nothing
  <2>3. head = HeadText(msg, Len(body))
    BY <1>0, Nothing
  <2>4. wire' \in Texts
    BY <1>0, Concat
  <2> QED BY <2>1, <2>2, <2>3, <2>4
<1>2. BufferInv'
  BY <1>1, BufferStep DEF TransportInv, AppendBody, BuffNext
<1>3. IsHead(head) /\ IsLength(head, Len(body))
  <2>1. head \in Heads(msg, Len(body))
    BY <1>1 DEF Heads
  <2> QED BY <1>0, <1>1, <2>1, OwnHead
<1>4. Types' /\ Ends' /\ Built'
  BY <1>0, <1>1 DEF TransportInv, Types, Ends, Built
<1>5. Waits(reader', wire' \o lost', head', body')
  BY <1>0, FreshReader
<1>6. LengthFramed(body, Len(body))'
  BY <1>0, <1>1, <1>3, <1>5 DEF LengthFramed, InText, Complete
<1>7. Framed'
  BY <1>0, <1>1, <1>3, <1>6 DEF Framed, IsFramed, NewReader
<1> QED BY <1>2, <1>4, <1>7 DEF TransportInv

LEMMA RewriteStep == TransportInv /\ Rewrite => TransportInv'
<1> SUFFICES ASSUME TransportInv, Rewrite PROVE TransportInv'
  OBVIOUS
<1>1. Intact /\ UNCHANGED conn /\ msg \in Messages
  BY DEF Rewrite, TransportInv, Types
<1>2. PICK text \in OtherBodies(msg) :
        Changed("other", HeadText(msg, Len(text)), text) /\ body' = text
  BY DEF Rewrite
<1>3. text \in Texts /\ text # <<>>
  BY <1>1, BodyAssumption DEF Documents
<1>4. Len(text) \in Nat /\ Len(text) # 0 /\ Len(text) \in BodyLengths(msg)
  BY <1>3, Nothing DEF BodyLengths
<1>5. IsHead(HeadText(msg, Len(text))) /\ IsLength(HeadText(msg, Len(text)), Len(text))
  <2>1. HeadText(msg, Len(text)) \in Heads(msg, Len(text))
    BY DEF Heads
  <2> QED BY <1>1, <1>4, <2>1, OwnHead
<1>6. "other" \in {"other", "cut", "behind"} /\ Len(text) <= Len(text)
  BY <1>4
<1>7. text \in Documents(msg) /\ HeadText(msg, Len(text)) \in Heads(msg, Len(text))
  BY DEF Documents, Heads
<1> QED BY <1>1, <1>2, <1>3, <1>4, <1>5, <1>6, <1>7, OtherText

LEMMA ReframeStep == TransportInv /\ Reframe => TransportInv'
<1> SUFFICES ASSUME TransportInv, Reframe PROVE TransportInv'
  OBVIOUS
<1>1. Intact /\ UNCHANGED conn /\ body' = body /\ msg \in Messages /\ body \in Texts
  BY DEF Reframe, TransportInv, Types
<1>2. PICK h \in OtherHeads(msg, Len(body)) : Changed("other", h, body)
  BY DEF Reframe
<1>3. Len(body) \in Nat /\ Len(body) # 0 /\ Len(body) \in BodyLengths(msg) /\ Len(body) <= Len(body)
  BY <1>1, IntactMessage
<1>4. IsHead(h) /\ IsLength(h, Len(body))
  <2>1. h \in Heads(msg, Len(body))
    BY DEF Heads
  <2> QED BY <1>1, <1>3, <2>1, OwnHead
<1>5. body \in Documents(msg) /\ h \in Heads(msg, Len(body))
  BY <1>1, IntactMessage DEF Documents, Heads
<1> QED BY <1>1, <1>2, <1>3, <1>4, <1>5, OtherText

LEMMA CutStep == TransportInv /\ Cut => TransportInv'
<1> SUFFICES ASSUME TransportInv, Cut PROVE TransportInv'
  OBVIOUS
<1>1. Intact /\ UNCHANGED conn /\ body' = body /\ msg \in Messages /\ body \in Texts
  BY DEF Cut, TransportInv, Types
<1>2. PICK n \in 0..(Len(body) - 1) : Changed("cut", HeadText(msg, n), SubSeq(body, 1, n))
  BY DEF Cut
<1>3. Len(body) \in Nat /\ body = BodyText(msg)
  BY <1>1, IntactMessage
<1>4. n \in Nat /\ n \in 0..Len(body) /\ n \in BodyLengths(msg)
  BY <1>3 DEF BodyLengths
<1>5. SubSeq(body, 1, n) \in Texts /\ Len(SubSeq(body, 1, n)) = n
  BY <1>1, <1>4, TakeDrop
<1>6. IsHead(HeadText(msg, n)) /\ IsLength(HeadText(msg, n), n)
  <2>1. HeadText(msg, n) \in Heads(msg, n)
    BY DEF Heads
  <2> QED BY <1>1, <1>4, <2>1, OwnHead
<1>7. n <= Len(SubSeq(body, 1, n)) /\ "cut" \in {"other", "cut", "behind"}
  BY <1>4, <1>5
<1> QED BY <1>1, <1>2, <1>4, <1>5, <1>6, <1>7, OtherText

LEMMA FollowStep == TransportInv /\ Follow => TransportInv'
<1> SUFFICES ASSUME TransportInv, Follow PROVE TransportInv'
  OBVIOUS
<1>1. /\ Intact /\ UNCHANGED conn /\ body' = body /\ msg \in Messages /\ body \in Texts
      /\ head \in Texts /\ wire \in Texts
  BY DEF Follow, TransportInv, Types
<1>2. PICK n \in {1, Len(wire)} : Changed("behind", head, body \o SubSeq(wire, 1, n))
  BY DEF Follow
<1>3. /\ Len(body) \in Nat /\ Len(body) # 0 /\ Len(body) \in BodyLengths(msg)
      /\ head = HeadText(msg, Len(body))
  BY <1>1, IntactMessage
<1>4. IsHead(head) /\ IsLength(head, Len(body))
  <2>1. head \in Heads(msg, Len(body))
    BY <1>3 DEF Heads
  <2> QED BY <1>1, <1>3, <2>1, OwnHead
<1>6. Len(wire) \in Nat /\ Len(wire) # 0
  <2>1. wire = head \o body
    BY <1>1, IntactMessage
  <2>2. Len(wire) = Len(head) + Len(body) /\ Len(head) \in Nat
    BY <1>1, <2>1, Concat
  <2> QED BY <1>3, <2>2
<1>7. n \in 0..Len(wire)
  BY <1>6
<1>8. SubSeq(wire, 1, n) \in Texts
  BY <1>1, <1>7, TakeDrop
<1>9. body \o SubSeq(wire, 1, n) \in Texts /\ Len(body) <= Len(body \o SubSeq(wire, 1, n))
  BY <1>1, <1>8, Concat
<1> QED BY <1>1, <1>2, <1>3, <1>4, <1>9, OtherText

LEMMA UnlengthStep == TransportInv /\ Unlength => TransportInv'
<1> SUFFICES ASSUME TransportInv, Unlength PROVE TransportInv'
  OBVIOUS
<1>1. /\ Intact /\ conn' = "coming" /\ body' = body /\ msg \in Slow \ Requests /\ body \in Texts
      /\ lost = <<>>
  BY DEF Unlength, TransportInv, Types, Intact
<1>2. PICK h \in EndlessHeads(msg) : Changed("other", h, body)
  BY DEF Unlength
<1>3. IsHead(h) /\ IsLength(h, -1)
  BY <1>1, <1>2, EndlessAssumption DEF IsLength
<1>4. h \in Texts /\ h \o body \in Texts
  BY <1>1, <1>3, Concat DEF IsHead
<1>5. /\ stage' = "sent" /\ edit' = "other" /\ head' = h /\ wire' = h \o body /\ lost' = <<>>
      /\ reader' = NewReader /\ msg' = msg /\ todo' = todo
      /\ len' = len /\ all' = all /\ top' = top
  BY <1>1, <1>2 DEF Changed, Intact, buffer
<1>6. Types' /\ Ends'
  BY <1>1, <1>4, <1>5, Nothing DEF TransportInv, Types, Ends
<1>7. Built' /\ BufferInv'
  <2>1. body' \in Documents(msg') /\ head' \in AnyHeads(msg', Len(body'))
    BY <1>1, <1>2, <1>5, IntactMessage DEF Documents, AnyHeads
  <2> QED BY <1>5, <2>1 DEF TransportInv, Built, BufferInv, BufferTypes, BufferSound
<1>8. Waits(reader', wire' \o lost', head', body')
  BY <1>1, <1>4, <1>5, FreshReader
<1>9. reader'.stage = "header"
  BY <1>5 DEF NewReader
<1>10. EndlessFramed'
  BY <1>1, <1>3, <1>5, <1>8, <1>9 DEF EndlessFramed, InText
<1>11. Framed'
  BY <1>1, <1>3, <1>5, <1>9, <1>10 DEF Framed, IsFramed
<1> QED BY <1>6, <1>7, <1>11 DEF TransportInv

LEMMA RechunkStep == TransportInv /\ Rechunk => TransportInv'
<1> SUFFICES ASSUME TransportInv, Rechunk PROVE TransportInv'
  OBVIOUS
<1>1. /\ Intact /\ conn' = conn /\ body' = body /\ msg \in Slow \ Requests /\ body \in Texts
      /\ lost = <<>>
  BY DEF Rechunk, TransportInv, Types, Intact
<1>2. PICK h \in ChunkedHeads(msg), g \in Chunkings(body) : Changed("other", h, g.text)
  BY DEF Rechunk
<1>3. IsHead(h) /\ IsChunked(h) /\ IsChunking(g, body)
  <2>1. body = BodyText(msg)
    BY <1>1, IntactMessage
  <2> QED BY <1>1, <1>2, <2>1, ChunkAssumption
<1>4. h \in Texts /\ g.text \in Texts /\ h \o g.text \in Texts
  BY <1>3, Concat DEF IsHead, IsChunking
<1>5. /\ stage' = "sent" /\ edit' = "other" /\ head' = h /\ wire' = h \o g.text /\ lost' = <<>>
      /\ reader' = NewReader /\ msg' = msg /\ todo' = todo
      /\ len' = len /\ all' = all /\ top' = top
  BY <1>1, <1>2 DEF Changed, Intact, buffer
<1>6. conn = "open"
  BY <1>1, IntactMessage
<1>7. Types' /\ Ends'
  BY <1>1, <1>4, <1>5, <1>6, Nothing DEF TransportInv, Types, Ends
<1>8. Built' /\ BufferInv'
  <2>1. body' \in Documents(msg') /\ head' \in AnyHeads(msg', Len(body'))
    BY <1>1, <1>2, <1>5, IntactMessage DEF Documents, AnyHeads
  <2> QED BY <1>5, <2>1 DEF TransportInv, Built, BufferInv, BufferTypes, BufferSound
<1>9. Waits(reader', wire' \o lost', head', g.text)
  BY <1>4, <1>5, FreshReader
<1>10. ChunkFramed(g)'
  BY <1>1, <1>3, <1>5, <1>6, <1>9 DEF ChunkFramed, InChunks, Complete
<1>11. Framed'
  BY <1>1, <1>3, <1>5, <1>6, <1>10 DEF Framed, IsFramed, NewReader
<1> QED BY <1>7, <1>8, <1>11 DEF TransportInv

LEMMA PrecedeStep == TransportInv /\ Precede => TransportInv'
<1> SUFFICES ASSUME TransportInv, Precede PROVE TransportInv'
  OBVIOUS
<1>1. /\ edit' = "before" /\ stage = "sent" /\ stage' = stage /\ conn # "read"
      /\ msg' = msg /\ todo' = todo /\ head' = head /\ body' = body /\ lost' = lost
      /\ conn' = conn /\ reader' = reader /\ len' = len /\ all' = all /\ top' = top
      /\ wire \in Texts
  BY IntactMessage DEF Precede, Intact, buffer, TransportInv, Types
<1>2. PICK n \in 0..(Len(wire) - 1) : wire' = Drop(wire, n) \o wire
  BY DEF Precede
<1>3. wire' \in Texts
  <2>1. Len(wire) \in Nat
    BY <1>1, Nothing
  <2>2. n \in 0..Len(wire)
    BY <2>1
  <2>3. Drop(wire, n) \in Texts
    BY <1>1, <2>2, TakeDrop
  <2> QED BY <1>1, <1>2, <2>3, Concat
<1> QED
  BY <1>1, <1>3 DEF TransportInv, Types, Built, Ends, Framed, BufferInv, BufferTypes, BufferSound

LEMMA LoseStep == TransportInv /\ Lose => TransportInv'
<1> SUFFICES ASSUME TransportInv, Lose PROVE TransportInv'
  OBVIOUS
<1>1. /\ stage = "sent" /\ edit \in {"none", "other"} /\ reader.stage \in {"header", "body"}
      /\ lost = <<>> /\ conn' = "coming" /\ stage' = stage
      /\ msg' = msg /\ todo' = todo /\ head' = head /\ body' = body /\ edit' = edit
      /\ reader' = reader /\ len' = len /\ all' = all /\ top' = top
      /\ wire \in Texts /\ body \in Texts
  BY DEF Lose, buffer, TransportInv, Types
<1>2. PICK n \in {0, 1} : n < Len(wire) /\ wire' = SubSeq(wire, 1, n) /\ lost' = Drop(wire, n)
  BY DEF Lose
<1>3. wire' \in Texts /\ lost' \in Texts /\ wire' \o lost' = wire \o lost
  <2>1. Len(wire) \in Nat /\ wire \o <<>> = wire
    BY <1>1, Nothing
  <2>2. n \in 0..Len(wire)
    BY <1>2, <2>1
  <2> QED BY <1>1, <1>2, <2>1, <2>2, TakeDrop
<1>8. lost' # <<>>
  <2>1. Len(wire) \in Nat /\ n \in 0..Len(wire) /\ Len(wire) - n # 0
    BY <1>1, <1>2, Nothing
  <2>2. Len(lost') = Len(wire) - n
    BY <1>1, <1>2, <2>1, TakeDrop
  <2> QED BY <2>1, <2>2, Nothing
<1>4. Types' /\ Ends' /\ Built' /\ BufferInv'
  BY <1>1, <1>3 DEF TransportInv, Types, Ends, Built, BufferInv, BufferTypes, BufferSound
<1>5. IsHead(head) /\ IsFramed
  BY <1>1 DEF TransportInv, Framed
<1>6. IsFramed'
  <2>1. ASSUME NEW X \in Texts, NEW n_ \in Nat, LengthFramed(X, n_) PROVE LengthFramed(X, n_)'
    BY <1>1, <1>3, <1>8, <2>1 DEF LengthFramed, Complete
  <2>2. ASSUME EndlessFramed PROVE EndlessFramed'
    BY <1>1, <1>3, <2>2 DEF EndlessFramed
  <2>3. ASSUME NEW g, ChunkFramed(g) PROVE ChunkFramed(g)'
    BY <1>1, <1>3, <1>8, <2>3 DEF ChunkFramed, Complete
  <2> QED BY <1>5, <2>1, <2>2, <2>3 DEF IsFramed
<1>7. Framed'
  BY <1>1, <1>5, <1>6, <1>8 DEF Framed, Complete
<1> QED BY <1>4, <1>7 DEF TransportInv

(* A reader of a text is never among its chunks.                           *)
LEMMA TextStages ==
  ASSUME NEW r, NEW q, NEW h, NEW X, NEW n, InText(r, q, h, X, n)
  PROVE  r \in Readers /\ r.stage # "chunks"
<1>1. CASE Waits(r, q, h, X)
  <2>1. r = [NewReader EXCEPT !.head = r.head] /\ r.head \in Texts
    BY <1>1 DEF Waits
  <2>2. r \in Readers /\ r.stage = "header"
    BY <2>1, NewReaderType
  <2> QED BY <2>2
<1> QED BY <1>1 DEF InText, InBody, HasFailed

LEMMA ChunksStages ==
  ASSUME NEW r, NEW q, NEW h, NEW g, NEW document, InChunks(r, q, h, g, document)
  PROVE  r \in Readers
<1>1. CASE Waits(r, q, h, g.text)
  <2>1. r = [NewReader EXCEPT !.head = r.head] /\ r.head \in Texts
    BY <1>1 DEF Waits
  <2> QED BY <2>1, NewReaderType
<1> QED BY <1>1 DEF InChunks, InChunk, HasFailed

LEMMA ReadStep ==
  ASSUME TransportInv, NEW n \in 0..Len(wire), NEW eof \in BOOLEAN, Read(n, eof),
         eof => n = Len(wire) /\ conn = "coming"
  PROVE  TransportInv'
<1> DEFINE new == SubSeq(wire, 1, n)
           q == wire' \o lost'
<1>1. /\ stage = "sent" /\ reader.stage \in {"header", "body"} /\ wire' = Drop(wire, n)
      /\ conn' = IF eof THEN "read" ELSE conn
      /\ stage' = stage /\ msg' = msg /\ todo' = todo /\ head' = head /\ body' = body /\ edit' = edit
      /\ lost' = lost /\ len' = len /\ all' = all /\ top' = top
      /\ msg \in Requests => reader' = ServerRead(reader, new, eof)
      /\ msg \notin Requests => reader' = ClientRead(reader, new, eof)
  BY DEF Read, buffer
<1>2. wire \in Texts /\ lost \in Texts /\ body \in Texts
  BY DEF TransportInv, Types
<1>3. new \in Texts /\ wire' \in Texts /\ new \o wire' = wire /\ Len(wire') = Len(wire) - n
  BY <1>1, <1>2, TakeDrop
<1>4. q \in Texts /\ wire \o lost = new \o q
  <2>1. IsAssociative(new, wire', lost)
    BY <1>2, <1>3, Associative
  <2>2. q \in Texts
    BY <1>1, <1>2, <1>3, Concat
  <2> QED BY <1>1, <1>3, <2>1, <2>2 DEF IsAssociative
<1>5. eof => wire' = <<>>
  <2>1. Len(wire) \in Nat
    BY <1>2, Nothing
  <2>2. eof => Len(wire') = 0
    BY <1>3, <2>1
  <2> QED BY <1>3, <2>2, Nothing
<1>6. conn = "read" => wire' = <<>>
  <2>1. conn = "read" => wire = <<>>
    BY DEF TransportInv, Ends
  <2>2. wire = <<>> => n = 0 /\ Len(wire) = 0
    BY Nothing
  <2>3. wire = <<>> => Len(wire') = 0
    BY <1>3, <2>2
  <2> QED BY <1>3, <2>1, <2>3, Nothing
<1>7. Types' /\ Built' /\ Ends' /\ BufferInv'
  BY <1>1, <1>2, <1>3, <1>5, <1>6
     DEF TransportInv, Types, Built, Ends, BufferInv, BufferTypes, BufferSound
<1> HIDE DEF new, q
<1>8. SUFFICES ASSUME edit # "before" PROVE Framed'
  BY <1>1, <1>7 DEF TransportInv, Framed
<1>9. IsHead(head) /\ IsFramed /\ conn # "read"
  BY <1>1, <1>8 DEF TransportInv, Framed
<1>10. ASSUME eof => reader'.stage \notin {"header", "body"}, IsFramed',
              Complete => reader'.stage # "failed"
       PROVE  Framed'
  BY <1>1, <1>9, <1>10 DEF Framed, Complete
<1>14. Complete /\ eof => q = <<>>
  BY <1>1, <1>5, Nothing DEF Complete, q
<1>11. ASSUME NEW X \in Texts, NEW k \in Nat, LengthFramed(X, k)
       PROVE  /\ IsFramed' /\ (eof => reader'.stage \notin {"header", "body"})
              /\ Complete => reader'.stage # "failed"
  <2>1. IsLength(head, k) /\ InText(reader, new \o q, head, X, k)
    BY <1>4, <1>11 DEF LengthFramed
  <2>2. /\ InText(reader', q, head, X, k) /\ (eof => reader'.stage \notin {"header", "body"})
        /\ reader'.stage = "failed" /\ k = Len(X) => eof
    <3>1. CASE msg \in Requests
      <4>1. reader' = ServerRead(reader, new, eof)
        BY <1>1, <3>1
      <4> QED BY <1>1, <1>3, <1>4, <1>9, <2>1, <4>1, ServerReadsText
    <3>2. CASE msg \notin Requests
      <4>1. reader' = ClientRead(reader, new, eof)
        BY <1>1, <3>2
      <4> QED BY <1>1, <1>3, <1>4, <1>9, <2>1, <4>1, ClientReadsText
    <3> QED BY <3>1, <3>2
  <2>3. LengthFramed(X, k)'
    BY <1>1, <1>11, <2>2 DEF LengthFramed, Complete, q
  <2>4. Complete => ~eof /\ k = Len(X)
    BY <1>11 DEF LengthFramed, Complete
  <2> QED BY <2>2, <2>3, <2>4 DEF IsFramed
<1>12. ASSUME EndlessFramed
       PROVE  /\ IsFramed' /\ (eof => reader'.stage \notin {"header", "body"})
              /\ Complete => reader'.stage # "failed"
  <2>1. /\ msg \notin Requests /\ IsLength(head, -1)
        /\ InText(reader, new \o q, head, body, -1)
    BY <1>4, <1>12 DEF EndlessFramed
  <2>2. reader' = ClientRead(reader, new, eof)
    BY <1>1, <2>1
  <2>3. /\ InText(reader', q, head, body, -1)
        /\ eof => reader'.stage \notin {"header", "body"}
        /\ -1 < 0 /\ reader'.stage = "whole" => eof
        /\ reader'.stage = "failed" => eof
        /\ -1 < 0 /\ q = <<>> /\ body # <<>> => reader'.stage # "failed"
    BY <1>1, <1>2, <1>3, <1>4, <1>9, <2>1, <2>2, ClientReadsText
  <2>4. reader'.stage = "whole" => eof
    BY <2>3
  <2>5. EndlessFramed'
    BY <1>1, <1>12, <2>3, <2>4 DEF EndlessFramed, q
  <2>6. body # <<>>
    BY <1>1, <1>12, BodyAssumption DEF EndlessFramed, TransportInv, Types, Built
  <2>7. Complete => reader'.stage # "failed"
    BY <1>14, <2>3, <2>6
  <2> QED BY <2>3, <2>5, <2>7 DEF IsFramed
<1>13. ASSUME NEW g, ChunkFramed(g)
       PROVE  /\ IsFramed' /\ (eof => reader'.stage \notin {"header", "body"})
              /\ Complete => reader'.stage # "failed"
  <2>1. /\ msg \notin Requests /\ IsChunked(head) /\ IsChunking(g, body)
        /\ InChunks(reader, new \o q, head, g, body)
    BY <1>4, <1>13 DEF ChunkFramed
  <2>2. reader' = ClientRead(reader, new, eof)
    BY <1>1, <2>1
  <2>3. InChunks(reader', q, head, g, body) /\ Goes(reader', eof)
    BY <1>1, <1>2, <1>3, <1>4, <1>9, <2>1, <2>2, ClientReadsChunks
  <2>4. ChunkFramed(g)'
    BY <1>1, <1>13, <2>3 DEF ChunkFramed, Complete, q
  <2>5. Complete => ~eof
    BY <1>13 DEF ChunkFramed
  <2> QED BY <2>3, <2>4, <2>5 DEF IsFramed, Goes
<1> QED BY <1>9, <1>10, <1>11, <1>12, <1>13 DEF IsFramed

LEMMA ReceiveStep == TransportInv /\ Receive => TransportInv'
<1> SUFFICES ASSUME TransportInv, Receive PROVE TransportInv'
  OBVIOUS
<1>1. Len(wire) \in Nat /\ Piece \in Nat
  BY SenderAssumption, Nothing DEF TransportInv, Types
<1>2. CASE \E n \in 1..Piece : n < Len(wire) /\ Read(n, FALSE)
  <2>1. PICK n \in 1..Piece : n < Len(wire) /\ Read(n, FALSE)
    BY <1>2
  <2>2. n \in 0..Len(wire)
    BY <1>1, <2>1
  <2> QED BY <2>1, <2>2, ReadStep
<1>3. CASE Read(Len(wire), FALSE)
  <2>1. Len(wire) \in 0..Len(wire)
    BY <1>1
  <2> QED BY <1>3, <2>1, ReadStep
<1>4. CASE conn = "coming" /\ Read(Len(wire), TRUE)
  <2>1. Len(wire) \in 0..Len(wire)
    BY <1>1
  <2> QED BY <1>4, <2>1, ReadStep
<1> QED BY <1>2, <1>3, <1>4 DEF Receive

LEMMA NextChunkStep == TransportInv /\ NextChunk => TransportInv'
<1> SUFFICES ASSUME TransportInv, NextChunk PROVE TransportInv'
  OBVIOUS
<1> DEFINE eof == conn = "read"
<1>1. /\ reader.stage = "chunks" /\ reader' = ProcessChunk(reader, eof)
      /\ stage' = stage /\ msg' = msg /\ todo' = todo /\ head' = head /\ body' = body /\ edit' = edit
      /\ wire' = wire /\ lost' = lost /\ conn' = conn /\ len' = len /\ all' = all /\ top' = top
  BY DEF NextChunk, buffer
<1>2. wire \o lost \in Texts /\ body \in Texts
  BY Concat DEF TransportInv, Types
<1>3. stage = "sent"
  BY <1>1 DEF TransportInv, Types, Built, NewReader
<1>4. Types' /\ Built' /\ Ends' /\ BufferInv'
  BY <1>1, <1>3 DEF TransportInv, Types, Built, Ends, BufferInv, BufferTypes, BufferSound
<1>5. SUFFICES ASSUME edit # "before" PROVE Framed'
  BY <1>1, <1>4 DEF TransportInv, Framed
<1>6. IsHead(head) /\ IsFramed
  BY <1>3, <1>5 DEF TransportInv, Framed
<1>7. PICK g : ChunkFramed(g)
  BY <1>1, <1>6, TextStages DEF IsFramed, LengthFramed, EndlessFramed
<1>8. InChunks(reader', wire \o lost, head, g, body) /\ Goes(reader', eof)
  <2>1. eof \in BOOLEAN /\ IsChunking(g, body) /\ InChunks(reader, wire \o lost, head, g, body)
    BY <1>7 DEF ChunkFramed
  <2> HIDE DEF eof
  <2> QED BY <1>1, <1>2, <2>1, ClientGoesOn
<1>9. ChunkFramed(g)'
  BY <1>1, <1>7, <1>8 DEF ChunkFramed, Complete
<1>10. Complete' => reader'.stage # "failed"
  BY <1>1, <1>7, <1>8 DEF ChunkFramed, Goes, Complete
<1>11. conn' = "read" => reader'.stage \notin {"header", "body"}
  BY <1>1, <1>8 DEF Goes
<1> QED BY <1>1, <1>6, <1>9, <1>10, <1>11 DEF Framed, IsFramed

LEMMA NextStep == TransportInv /\ [Next]_vars => TransportInv'
<1> SUFFICES ASSUME TransportInv, [Next]_vars PROVE TransportInv'
  OBVIOUS
<1>1. CASE UNCHANGED vars
  BY <1>1 DEF vars, buffer, TransportInv, Types, Built, Ends, Framed, IsFramed, LengthFramed,
     EndlessFramed, ChunkFramed, Complete, BufferInv, BufferTypes, BufferSound
<1> QED
  BY <1>1, PutStep, StartHeaderStep, AppendBodyStep, RewriteStep, ReframeStep, UnlengthStep,
     RechunkStep, CutStep, PrecedeStep, FollowStep, LoseStep, ReceiveStep, NextChunkStep DEF Next

LEMMA InvAlways == Spec => []TransportInv
  BY InitInv, NextStep, PTL DEF Spec

-----------------------------------------------------------------------------
(* What the invariant says of the reader of a message with nothing before  *)
(* it.                                                                     *)
LEMMA ReaderType == TransportInv /\ edit # "before" => reader \in Readers
<1> SUFFICES ASSUME TransportInv, edit # "before" PROVE reader \in Readers
  OBVIOUS
<1>1. CASE stage = "sent"
  <2>1. IsFramed
    BY <1>1 DEF TransportInv, Framed
  <2> QED BY <2>1, TextStages, ChunksStages DEF IsFramed, LengthFramed, EndlessFramed, ChunkFramed
<1>2. CASE stage # "sent"
  <2>1. reader = NewReader /\ <<>> \in Texts
    BY <1>2, EmptySeq DEF TransportInv, Built, Texts
  <2>2. NewReader = [NewReader EXCEPT !.head = <<>>]
    BY DEF NewReader
  <2> QED BY <2>1, <2>2, NewReaderType
<1> QED BY <1>1, <1>2

(* Every variable of the connection and of its two ends has its type, and  *)
(* the buffer is as long as what was put into it (rpcUtils.c, rpcClient.c, *)
(* rpcServer.c), for all messages, pieces and chunks.                      *)
THEOREM TypeCorrect == Spec => []TypeOK
<1>1. TransportInv => TypeOK
  BY ReaderType DEF TransportInv, Types, Built, BufferInv, BufferTypes, TypeOK
<1> QED BY <1>1, InvAlways, PTL

(* Nothing is written behind the end of a buffer while a message is built  *)
(* (growBuff).                                                             *)
THEOREM BufferStaysSound == Spec => []BufferSound
<1>1. TransportInv => BufferSound
  BY DEF TransportInv, BufferInv
<1> QED BY <1>1, InvAlways, PTL

(* A reader that has the whole has what was sent.                          *)
LEMMA InvReassembled == TransportInv => Reassembled
<1> SUFFICES ASSUME TransportInv PROVE Reassembled
  OBVIOUS
<1> SUFFICES ASSUME reader.stage = "whole", edit \in {"none", "other"}
             PROVE  /\ reader.head = head
                    /\ reader.body = body \/ (lost # <<>> /\ reader.blen < 0 /\ ~reader.chunked)
  BY DEF Reassembled
<1>0. wire \in Texts /\ lost \in Texts /\ wire \o lost \in Texts /\ body \in Texts
  BY Concat DEF TransportInv, Types
<1>1. stage = "sent"
  BY DEF TransportInv, Built, NewReader
<1>2. IsFramed
  BY <1>1 DEF TransportInv, Framed
<1>3. reader \in Readers
  BY ReaderType
<1>4. reader.body \in Texts /\ Len(reader.body) \in Nat /\ reader.stage # "header"
  BY <1>3, Nothing DEF Readers, Texts
<1>5. \A h, X, n : InText(reader, wire \o lost, h, X, n) => InBody(reader, wire \o lost, h, X, n)
  BY <1>4 DEF InText, Waits, NewReader, HasFailed
<1>6. ASSUME NEW X \in Texts, NEW n \in Nat, LengthFramed(X, n)
      PROVE  reader.head = head /\ reader.body = body
  <2>1. X = body /\ n = Len(body) /\ InText(reader, wire \o lost, head, X, n)
    BY <1>6 DEF LengthFramed
  <2>2. InBody(reader, wire \o lost, head, body, n)
    BY <1>5, <2>1
  <2>3. reader.head = head /\ reader.body \o (wire \o lost) = body /\ ~(Len(reader.body) < n)
    BY <2>1, <2>2 DEF InBody
  <2>4. Len(body) = Len(reader.body) + Len(wire \o lost) /\ Len(wire \o lost) \in Nat
    BY <1>0, <1>4, <2>3, Concat
  <2>5. Len(wire \o lost) = 0
    <3>1. n = Len(body)
      BY <2>1
    <3>2. ~(Len(reader.body) < n)
      BY <2>3
    <3>3. \A a, c \in Nat : ~(a < a + c) => c = 0
      OBVIOUS
    <3>4. ~(Len(reader.body) < Len(reader.body) + Len(wire \o lost))
      BY <2>4, <3>1, <3>2
    <3> QED BY <1>4, <2>4, <3>3, <3>4
  <2>6. wire \o lost = <<>>
    BY <1>0, <2>5, Nothing
  <2>7. reader.body \o <<>> = body
    BY <2>3, <2>6
  <2> QED BY <1>4, <2>3, <2>7, Nothing
<1>7. ASSUME EndlessFramed
      PROVE  /\ reader.head = head
             /\ reader.body = body \/ (lost # <<>> /\ reader.blen < 0 /\ ~reader.chunked)
  <2>1. InText(reader, wire \o lost, head, body, -1) /\ conn = "read"
    BY <1>7 DEF EndlessFramed
  <2>2. InBody(reader, wire \o lost, head, body, -1) /\ wire = <<>>
    BY <1>5, <2>1 DEF TransportInv, Ends
  <2>3. /\ reader.head = head /\ ~reader.chunked /\ reader.blen = -1
        /\ reader.body \o (wire \o lost) = body
    BY <2>2 DEF InBody
  <2>4. wire \o lost = lost
    BY <1>0, <2>2, Nothing
  <2>5. lost = <<>> => reader.body = body
    BY <1>4, <2>3, <2>4, Nothing
  <2> QED BY <2>3, <2>5
<1>8. ASSUME NEW g, ChunkFramed(g) PROVE reader.head = head /\ reader.body = body
  <2>1. InChunks(reader, wire \o lost, head, g, body)
    BY <1>8 DEF ChunkFramed
  <2>2. ~Waits(reader, wire \o lost, head, g.text)
    BY <1>4 DEF Waits, NewReader
  <2> QED BY <2>1, <2>2 DEF InChunks, InChunk, HasFailed
<1> QED BY <1>2, <1>6, <1>7, <1>8 DEF IsFramed

(* What a reader has in the end of a message that is complete.             *)
LEMMA InvWhole ==
  ASSUME TransportInv, Complete, reader.stage \in {"whole", "failed"}
  PROVE  /\ reader.stage = "whole" /\ reader.head = head /\ reader.body = body
         /\ msg \in Messages /\ body \in Documents(msg) /\ head \in AnyHeads(msg, Len(body))
<1>1. stage = "sent"
  BY DEF TransportInv, Built, NewReader
<1>2. edit \in {"none", "other"} /\ lost = <<>>
  BY DEF Complete
<1>3. reader.stage = "whole"
  BY <1>1, <1>2 DEF TransportInv, Framed
<1>4. reader.head = head /\ reader.body = body
  BY <1>2, <1>3, InvReassembled DEF Reassembled
<1>5. msg \in Messages
  BY DEF TransportInv, Types
<1>6. body \in Documents(msg) /\ head \in AnyHeads(msg, Len(body))
  BY <1>1, <1>2 DEF TransportInv, Built, Documents, Heads, AnyHeads
<1> QED BY <1>3, <1>4, <1>5, <1>6

(* A reader that has the whole of a message has its header and document,   *)
(* however it is framed and in whatever pieces it came, unless it had      *)
(* nothing but the end of the connection to tell, and some was lost        *)
(* (readHeader, readResponse, processChunk, readRequest).                  *)
THEOREM WholeIsWhatWasSent == Spec => []Reassembled
  BY InvReassembled, InvAlways, PTL

(* No reader waits for more when all that was sent has been read, unless   *)
(* the end of the connection is still to come, or the message had no body  *)
(* (readHeader, readResponse, readChunks, readRequest).                    *)
THEOREM NoReaderWaitsInVain == Spec => []NeverWaitsInVain
<1>1. ASSUME TransportInv PROVE NeverWaitsInVain
  <2> SUFFICES ASSUME stage = "sent", wire = <<>>, reader.stage \in {"header", "body"},
                      conn # "coming", edit # "before"
               PROVE  Bodiless
    BY DEF NeverWaitsInVain
  <2>1. IsHead(head) /\ IsFramed /\ conn # "read"
    BY <1>1 DEF TransportInv, Framed
  <2>2. conn = "open" /\ lost = <<>>
    BY <1>1, <2>1 DEF TransportInv, Types, Ends
  <2>3. wire \o lost = <<>>
    BY <2>2, Nothing
  <2>4. head \in Texts /\ Len(head) \in Nat /\ <<>> \in Texts
    BY <1>1, Nothing DEF TransportInv, Types
  <2>5. ASSUME NEW X \in Texts, Waits(reader, wire \o lost, head, X)
        PROVE  X = <<>> /\ reader.head = head /\ reader.stage = "header"
    <3>1. /\ reader.head \in Texts /\ reader.head \o <<>> = head \o X
          /\ Len(reader.head) <= Len(head)
      BY <2>3, <2>5 DEF Waits, AreSame
    <3>2. reader.head = head \o X
      BY <3>1, Nothing
    <3>3. Len(reader.head) = Len(head) + Len(X) /\ Len(X) \in Nat
      BY <2>4, <3>2, Concat
    <3>4. X = <<>>
      BY <2>4, <3>1, <3>3, Nothing
    <3>5. reader.stage = "header"
      BY <2>5 DEF Waits, NewReader
    <3> QED BY <2>4, <3>2, <3>4, <3>5, Nothing
  <2>6. ASSUME NEW X \in Texts, NEW n \in Nat, LengthFramed(X, n) PROVE Bodiless
    <3>1. InText(reader, wire \o lost, head, X, n) /\ n <= Len(X) /\ (n = 0 => edit = "cut")
      BY <2>6 DEF LengthFramed
    <3>2. CASE Waits(reader, wire \o lost, head, X)
      <4>1. X = <<>> /\ reader.head = head /\ reader.stage = "header"
        BY <2>5, <3>2
      <4>2. n = 0
        BY <3>1, <4>1, Nothing
      <4> QED BY <3>1, <4>1, <4>2 DEF Bodiless
    <3>3. CASE InBody(reader, wire \o lost, head, X, n)
      <4>0. /\ reader \in Readers /\ reader.body \o (wire \o lost) = X
            /\ n >= 0 => (reader.stage = "body" <=> Len(reader.body) < n)
        BY <3>3 DEF InBody
      <4>1. /\ reader \in Readers /\ reader.body \o <<>> = X
            /\ reader.stage = "body" <=> Len(reader.body) < n
        <5>1. n >= 0
          OBVIOUS
        <5>2. reader.body \o <<>> = X
          BY <2>3, <4>0
        <5> QED BY <4>0, <5>1, <5>2
      <4>2. reader.body = X
        BY <4>1, Nothing DEF Readers, Texts
      <4>3. reader.stage = "body"
        BY <3>3 DEF InBody
      <4>4. Len(X) \in Nat
        BY Nothing
      <4> QED BY <3>1, <4>1, <4>2, <4>3, <4>4
    <3> QED BY <3>1, <3>2, <3>3 DEF InText, HasFailed
  <2>7. ~EndlessFramed
    BY <2>2 DEF EndlessFramed
  <2>8. ASSUME NEW g, ChunkFramed(g) PROVE FALSE
    <3>1. InChunks(reader, wire \o lost, head, g, body) /\ IsChunking(g, body)
      BY <2>8 DEF ChunkFramed
    <3>2. Waits(reader, wire \o lost, head, g.text)
      BY <2>3, <3>1 DEF InChunks, InChunk, HasFailed
    <3>3. g.text = <<>>
      BY <2>5, <3>1, <3>2 DEF IsChunking
    <3>4. Found(CrLf, Drop(g.text, g.starts[Len(g.starts)])) # {}
      BY <3>1 DEF IsChunking, IsLastChunk
    <3>5. g.starts[Len(g.starts)] = 0
      <4>1. g.starts \in Seq(0..Len(g.text)) /\ Len(g.starts) >= 1
        BY <3>1 DEF IsChunking
      <4>2. Len(g.starts) \in 1..Len(g.starts)
        BY <4>1, LenProperties
      <4>3. g.starts[Len(g.starts)] \in 0..0
        BY <3>3, <4>1, <4>2, ElementOfSeq, Nothing
      <4> QED BY <4>3
    <3>6. Drop(<<>>, 0) = <<>>
      BY SubSeqEmpty, Nothing DEF Drop
    <3>7. Found(CrLf, <<>>) = {}
      BY Nothing DEF Found
    <3> QED BY <3>3, <3>4, <3>5, <3>6, <3>7
  <2> QED BY <2>1, <2>6, <2>7, <2>8 DEF IsFramed
<1> QED BY <1>1, InvAlways, PTL

=============================================================================
