--------------------------- MODULE DeliveryProofs ---------------------------
(***************************************************************************)
(* Theorems about Delivery: a message that Codec writes and Transport      *)
(* carries is understood as it was meant, for every message, framing and   *)
(* division into pieces.                                                   *)
(*                                                                         *)
(* CodecProofs has the values in a document, and TransportProofs what a    *)
(* reader has in the end.  What is between them is here: documents and     *)
(* their parts (parseCall, parseResponse), the lines of a header           *)
(* (parseHeader, parseHeaderLine), who calls (authenticate), and all of    *)
(* them together (parseRequest, parseResponse).                            *)
(***************************************************************************)
EXTENDS Delivery, TransportProofs, CodecProofs

-----------------------------------------------------------------------------
(* Parameters.                                                             *)

(* The declaration that a document begins with is skipped.                 *)
LEMMA DeclSkip ==
  ASSUME NEW z, Solid(z)
  PROVE  /\ Line(XmlDecl) \in Texts /\ Solid(Line(XmlDecl) \o z)
         /\ Skip(XmlDecl, {Line(XmlDecl) \o z}) = {z}
<1> DEFINE d == "<?xml version?>"
           u == <<" ">> \o z
           s == <<d>> \o u
<1>1. z \in Texts /\ d \in STRING
  BY StringsAssumption DEF Solid, Marks
<1>2. <<d>> \in Texts /\ Len(<<d>>) = 1
  <2> HIDE DEF d
  <2> QED BY <1>1, One DEF Texts
<1>3. Line(<<d>>) \in Texts /\ u \in Texts /\ Line(<<d>>) \o z = s
  <2> HIDE DEF d
  <2>1. Line(<<d>>) \in Texts /\ u \in Texts /\ Same(Line(<<d>>) \o z, s)
    BY <1>1, <1>2, LineFirst
  <2> QED BY <2>1 DEF Same
<1>4. Leads(u, z)
  BY Leading
<1>5. s \in Texts /\ s # <<>> /\ s[1] = d
  <2> HIDE DEF d, u
  <2> QED BY <1>1, <1>3, ConsTail DEF Texts
<1>6. Drop(s, Len(<<d>>)) = u
  <2> HIDE DEF d, u
  <2> QED BY <1>2, <1>3, Concat
<1>7. s # Outside
  <2>1. Outside[1] = "outside"
    BY DEF Outside
  <2> HIDE DEF s
  <2> QED BY <1>5, <2>1
<1>8. IsPrefix(<<d>>, s)
  <2> HIDE DEF s, d
  <2> QED BY <1>5, PrefixOne
<1>12. Solid(s)
  <2>1. s[1] \notin Blanks /\ s[1] # "<!-- "
    <3> HIDE DEF s
    <3> QED BY <1>5 DEF Blanks
  <2> HIDE DEF s
  <2>2. Chomp[s] = ChompWith(Chomp, s)
    BY <1>5, ChompDefined
  <2>3. Chomp[s] = s
    BY <1>5, <2>1, <2>2 DEF ChompWith
  <2> QED BY <1>5, <1>7, <2>3 DEF Solid
<1> HIDE DEF s, d, u
<1>9. Expect(<<d>>, {s}) = {u}
  <2>1. {t \in {s} : IsPrefix(<<d>>, t)} = {s} /\ {s} \cap {Outside} = {}
    BY <1>7, <1>8
  <2>2. Expect(<<d>>, {s}) = {Drop(s, Len(<<d>>))}
    BY <2>1 DEF Expect
  <2> QED BY <1>6, <2>2
<1>10. Skip(<<d>>, {s}) = {z}
  <2>1. u # Outside /\ Chomp[u] = z /\ z # Outside
    BY <1>4 DEF Leads, Solid
  <2>2. Skip(<<d>>, {s}) = ({Chomp[t] : t \in {u} \ {Outside}} \ {Outside}) \cup ({s} \cap {Outside})
    BY <1>9 DEF Skip
  <2>3. {Chomp[t] : t \in {u} \ {Outside}} = {z}
    BY <2>1
  <2> QED BY <1>7, <2>1, <2>2, <2>3
<1>11. XmlDecl = <<d>>
  BY DEF XmlDecl, d
<1> QED BY <1>3, <1>10, <1>11, <1>12 DEF s, u

(* The text of a parameter.                                                *)
ParamText(t) == Line(Tag("param>")) \o Line(t) \o Line(Tag("/param>"))

(* What the loop of parseParams reads from a text for some values and what *)
(* is behind them.                                                         *)
ParamsAre(J, L) ==
  /\ J \in Texts
  /\ \A w : Solid(w) /\ ~IsPrefix(Tag("param>"), w) =>
       /\ Solid(J \o w)
       /\ \A n \in Nat : n >= Len(J) + 1 => Decoders[n].params[J \o w] = {Result(L, w)}

(* No parameters are read from no text.                                    *)
LEMMA NoParams == ParamsAre(<<>>, <<>>)
<1>1. <<>> \in Texts /\ Len(<<>>) = 0
  BY EmptySeq DEF Texts
<1>2. ASSUME NEW w, Solid(w), ~IsPrefix(Tag("param>"), w)
      PROVE  /\ Solid(<<>> \o w)
             /\ \A n \in Nat : n >= Len(<<>>) + 1 => Decoders[n].params[<<>> \o w] = {Result(<<>>, w)}
  <2>1. w \in Texts
    BY <1>2 DEF Solid
  <2>2. <<>> \o w = w
    BY <2>1, Nothing
  <2>3. ASSUME NEW n \in Nat, n >= 1
        PROVE  Decoders[n].params[w] = {Result(<<>>, w)}
    <3>1. Decoders[n].params[w] = DecodeParams(Decoders[n - 1], w)
      BY <2>1, <2>3, DecoderOf
    <3> QED BY <1>2, <3>1 DEF DecodeParams
  <2> QED BY <1>1, <1>2, <2>2, <2>3
<1> QED BY <1>1, <1>2, Zenon DEF ParamsAre

(* The text of a parameter, from its start on.                             *)
LEMMA ParamFirst ==
  ASSUME NEW t \in Texts, NEW z \in Texts
  PROVE  /\ ParamText(t) \in Texts /\ Len(ParamText(t)) = Len(t) + 7 /\ Len(t) \in Nat
         /\ Same(ParamText(t) \o z, Line(Tag("param>")) \o (Line(t) \o (Line(Tag("/param>")) \o z)))
<1> DEFINE ta == "param>"
           te == "/param>"
           a == Line(Tag(ta))
           b == Line(t)
           e == Line(Tag(te))
<1>1. ta \in Chars /\ te \in Chars
  BY StringsAssumption DEF Tags, EndTags, Chars
<1>2. a \in Texts /\ Len(a) = 3 /\ e \in Texts /\ Len(e) = 3 /\ e \o z \in Texts
  <2> HIDE DEF ta, te
  <2> QED BY <1>1, LinedTag
<1>3. b \in Texts /\ Len(b) = Len(t) + 1 /\ Len(t) \in Nat
  BY LineFirst
<1>4. ParamText(t) = (a \o b) \o e
  BY DEF ParamText
<1> HIDE DEF a, b, e
<1>5. a \o b \in Texts /\ Len(a \o b) = Len(a) + Len(b)
  BY <1>2, <1>3, Concat
<1>6. (a \o b) \o e \in Texts /\ Len((a \o b) \o e) = Len(a \o b) + Len(e)
  BY <1>2, <1>5, Concat
<1>7. IsAssociative(a \o b, e, z) /\ IsAssociative(a, b, e \o z)
  BY <1>2, <1>3, <1>5, Associative
<1>8. Same(((a \o b) \o e) \o z, a \o (b \o (e \o z)))
  BY <1>7 DEF IsAssociative, Same
<1>9. Len((a \o b) \o e) = Len(t) + 7
  BY <1>2, <1>3, <1>5, <1>6
<1> QED BY <1>3, <1>4, <1>6, <1>8, <1>9 DEF a, b, e

(* One parameter more is read from its text in front of the others.        *)
LEMMA MoreParams ==
  ASSUME NEW J, NEW L, ParamsAre(J, L), NEW t, NEW e, Decoded(t, e)
  PROVE  ParamsAre(ParamText(t) \o J, <<e>> \o L)
<1> DEFINE p == ParamText(t)
           K == p \o J
           ta == "param>"
           te == "/param>"
<1>1. J \in Texts /\ t \in Texts
  BY DEF ParamsAre, Decoded
<1>2. p \in Texts /\ Len(p) = Len(t) + 7 /\ Len(t) \in Nat
  BY <1>1, ParamFirst
<1>3. K \in Texts /\ Len(K) = Len(t) + 7 + Len(J) /\ Len(J) \in Nat
  <2>1. K \in Texts /\ Len(K) = Len(p) + Len(J) /\ Len(J) \in Nat
    <3> HIDE DEF p
    <3> QED BY <1>1, <1>2, Concat
  <2> HIDE DEF K
  <2> QED BY <1>2, <2>1
<1>0. ta \in Chars /\ te \in Chars
  BY StringsAssumption DEF Tags, EndTags, Chars
<1>4. ASSUME NEW w, Solid(w), ~IsPrefix(Tag(ta), w)
      PROVE  /\ Solid(K \o w)
             /\ \A n \in Nat : n >= Len(K) + 1 => Decoders[n].params[K \o w] = {Result(<<e>> \o L, w)}
  <2> DEFINE z == J \o w
             s2 == Line(Tag(te)) \o z
             s1 == Line(t) \o s2
             s == Line(Tag(ta)) \o s1
  <2>1. w \in Texts
    BY <1>4 DEF Solid
  <2>2. /\ Solid(z)
        /\ \A n \in Nat : n >= Len(J) + 1 => Decoders[n].params[z] = {Result(L, w)}
    BY <1>4, Zenon DEF ParamsAre
  <2>3. z \in Texts
    BY <2>2 DEF Solid
  <2>4. K \o w = s
    <3>1. IsAssociative(p, J, w)
      <4> HIDE DEF p
      <4> QED BY <1>1, <1>2, <2>1, Associative
    <3> HIDE DEF z
    <3>2. Same(p \o z, s)
      BY <1>1, <2>3, ParamFirst
    <3> HIDE DEF s, p
    <3> QED BY <3>1, <3>2 DEF IsAssociative, Same, z
  <2> HIDE DEF z
  <2>5. Solid(s2) /\ Closed(te, {Result(e, s2)}) = {Result(e, z)}
    <3> HIDE DEF te
    <3> QED BY <1>0, <2>2, <2>3, LinedTag, LinedClosed
  <2> HIDE DEF s2
  <2>6. /\ Solid(s1)
        /\ \A n \in Nat : n >= Len(t) => Decoders[n].value[s1] = {Result(e, s2)}
    BY <2>5, DecodedLine
  <2>7. s1 \in Texts
    BY <2>6 DEF Solid
  <2> HIDE DEF s1
  <2>8. Solid(s) /\ IsPrefix(Tag(ta), s) /\ Skip(Tag(ta), {s}) = {s1}
    <3> HIDE DEF ta
    <3> QED BY <1>0, <2>6, <2>7, LinedTag, LinedSkip
  <2>9. s \in Texts
    BY <2>8 DEF Solid
  <2> HIDE DEF s, K, p
  <2>10. ASSUME NEW n \in Nat, n >= Len(K) + 1
         PROVE  Decoders[n].params[s] = {Result(<<e>> \o L, w)}
    <3>1. n # 0 /\ n - 1 \in Nat /\ n - 1 >= Len(J) + 1 /\ n - 1 >= Len(t)
      BY <1>2, <1>3, <2>10
    <3> DEFINE d == Decoders[n - 1]
    <3>2. d.value[s1] = {Result(e, s2)} /\ d.params[z] = {Result(L, w)}
      BY <2>2, <2>6, <3>1
    <3>3. Decoders[n].params[s] = DecodeParams(d, s)
      BY <2>9, <3>1, DecoderOf
    <3> HIDE DEF d
    <3>4. UNION {d.value[u] : u \in Skip(Tag(ta), {s})} = {Result(e, s2)}
      <4> HIDE DEF ta
      <4> QED BY <2>8, <3>2
    <3>5. DecodeParams(d, s) =
            UNION {{Result(<<r.val>> \o q.val, q.rest) : q \in d.params[r.rest]} :
                     r \in Closed(te, UNION {d.value[u] : u \in Skip(Tag(ta), {s})})}
      BY <2>8 DEF DecodeParams
    <3>6. DecodeParams(d, s) =
            UNION {{Result(<<r.val>> \o q.val, q.rest) : q \in d.params[r.rest]} : r \in {Result(e, z)}}
      <4> HIDE DEF te, ta
      <4> QED BY <2>5, <3>4, <3>5
    <3>7. \A r \in {Result(e, z)} : r.val = e /\ d.params[r.rest] = {Result(L, w)}
      BY <3>2 DEF Result
    <3>8. \A q \in {Result(L, w)} : q.val = L /\ q.rest = w
      BY DEF Result
    <3>9. {Result(<<e>> \o q.val, q.rest) : q \in {Result(L, w)}} = {Result(<<e>> \o L, w)}
      BY <3>8
    <3>10. \A r \in {Result(e, z)} :
             {Result(<<r.val>> \o q.val, q.rest) : q \in d.params[r.rest]} = {Result(<<e>> \o L, w)}
      BY <3>7, <3>9
    <3>11. DecodeParams(d, s) = UNION {{Result(<<e>> \o L, w)} : r \in {Result(e, z)}}
      BY <3>6, <3>10
    <3> QED BY <3>3, <3>11
  <2> QED BY <2>4, <2>8, <2>10
<1> HIDE DEF K
<1>5. ParamsAre(K, <<e>> \o L)
  BY <1>3, <1>4, Zenon DEF ParamsAre, ta
<1> QED BY <1>5 DEF K, p

(* The loop of parseParams reads the parameters, however many there are.   *)
LEMMA ParamsRead ==
  ASSUME NEW S, NEW g \in [S -> Texts],
         \A e \in S : \E t : Decoded(t, e) /\ Same(g[e], ParamText(t))
  PROVE  \A L \in Seq(S) : ParamsAre(Joined[Mapped(g, L)], L)
<1> DEFINE P == {L \in Seq(S) : ParamsAre(Joined[Mapped(g, L)], L)}
<1>1. <<>> \in P
  <2>1. Joined[Mapped(g, <<>>)] = <<>>
    BY JoinedNone
  <2>2. <<>> \in Seq(S)
    BY EmptySeq
  <2> QED BY <2>1, <2>2, NoParams
<1>2. ASSUME NEW L \in Seq(S), NEW e \in S, L \in P
      PROVE  <<e>> \o L \in P
  <2> DEFINE J == Joined[Mapped(g, L)]
  <2>1. ParamsAre(J, L)
    BY <1>2
  <2>2. PICK t : Decoded(t, e) /\ Same(g[e], ParamText(t))
    OBVIOUS
  <2>3. Same(Joined[Mapped(g, <<e>> \o L)], g[e] \o J)
    BY JoinedCons
  <2> HIDE DEF J
  <2>4. ParamsAre(ParamText(t) \o J, <<e>> \o L)
    BY <2>1, <2>2, MoreParams
  <2>5. <<e>> \o L \in Seq(S)
    BY ConsTail
  <2>6. ParamsAre(Joined[Mapped(g, <<e>> \o L)], <<e>> \o L)
    BY <2>2, <2>3, <2>4, Zenon DEF Same
  <2> QED BY <2>5, <2>6
<1> HIDE DEF P
<1>3. Seq(S) \subseteq P
  BY <1>1, <1>2, TailInduction
<1> QED BY <1>3 DEF P

(* What xmlMethod puts between the tags of the parameters is read as them. *)
LEMMA ParamsOf ==
  ASSUME NEW L \in Seq(Kept[Depth])
  PROVE  ParamsAre(Joined[[i \in 1..Len(L) |-> ParamText(Encode(L[i]))]], L)
<1> DEFINE S == Kept[Depth]
           g == [v \in S |-> ParamText(Encode(v))]
<1>1. \A v \in S : Decoded(Encode(v), v)
  <2>1. Depth \in Nat
    BY CodecAssumption
  <2> QED BY <2>1, KeptRead DEF Encode
<1> HIDE DEF S
<1>2. \A v \in S : ParamText(Encode(v)) \in Texts
  <2> SUFFICES ASSUME NEW v \in S PROVE ParamText(Encode(v)) \in Texts
    OBVIOUS
  <2> DEFINE t == Encode(v)
  <2>1. t \in Texts
    BY <1>1 DEF Decoded
  <2> HIDE DEF t
  <2>2. <<>> \in Texts
    BY <2>1, Nothing
  <2>3. ParamText(t) \in Texts
    <3>1. ASSUME NEW z \in Texts
          PROVE  /\ ParamText(t) \in Texts
                 /\ Same(ParamText(t) \o z, Line(Tag("param>")) \o (Line(t) \o (Line(Tag("/param>")) \o z)))
      BY <2>1, ParamFirst
    <3> QED BY <2>2, <3>1
  <2> QED BY <2>3 DEF t
<1>3. g \in [S -> Texts]
  BY <1>2
<1>4. \A v \in S : Decoded(Encode(v), v) /\ Same(g[v], ParamText(Encode(v)))
  BY <1>1 DEF Same
<1>5. [i \in 1..Len(L) |-> ParamText(Encode(L[i]))] = Mapped(g, L)
  <2>1. \A i \in 1..Len(L) : L[i] \in S
    BY ElementOfSeq DEF S
  <2> QED BY <2>1 DEF Mapped
<1> HIDE DEF g
<1>6. L \in Seq(S)
  BY DEF S
<1>7. ParamsAre(Joined[Mapped(g, L)], L)
  BY <1>3, <1>4, <1>6, ParamsRead
<1> QED BY <1>5, <1>7

-----------------------------------------------------------------------------
(* Documents.                                                              *)

(* The end of a text.                                                      *)
LEMMA ChompEnd == Chomp[<<>>] = <<>> /\ Chomp[<<" ">>] = <<>>
<1>1. <<>> \in Texts
  BY EmptySeq DEF Texts
<1>2. Chomp[<<>>] = <<>>
  BY <1>1, ChompDefined DEF ChompWith
<1>3. Chomp[<<" ">> \o <<>>] = Chomp[<<>>] /\ <<" ">> \in Texts
  BY <1>1, BlankFirst
<1>4. <<" ">> \o <<>> = <<" ">>
  BY <1>3, Nothing
<1> QED BY <1>2, <1>3, <1>4

(* The last tag of a text.                                                 *)
LEMMA TagLast ==
  ASSUME NEW a \in Chars
  PROVE  Tag(a) \in Texts /\ Solid(Tag(a)) /\ \A v : Ended(a, {Result(v, Tag(a))}) = {Result(v, <<>>)}
<1>1. <<>> \in Texts
  BY EmptySeq DEF Texts
<1>2. Tag(a) \in Texts /\ Solid(Tag(a) \o <<>>)
  BY <1>1, TagFirst
<1>3. Tag(a) \o <<>> = Tag(a)
  BY <1>2, Nothing
<1>4. ASSUME NEW v PROVE Ended(a, {Result(v, Tag(a))}) = {Result(v, <<>>)}
  <2>1. Ended(a, {Result(v, Tag(a) \o <<>>)}) = {Result(v, Chomp[<<>>])}
    BY <1>1, EndedTag
  <2> QED BY <1>3, <2>1, ChompEnd
<1> QED BY <1>2, <1>3, <1>4

(* Six texts that are put together, from the first on.                     *)
LEMMA Six ==
  ASSUME NEW a \in Texts, NEW b \in Texts, NEW c \in Texts, NEW d \in Texts, NEW e \in Texts, NEW f \in Texts
  PROVE  Same(((((a \o b) \o c) \o d) \o e) \o f, a \o (b \o (c \o (d \o (e \o f)))))
<1> DEFINE h == ((a \o b) \o c) \o d
           y == e \o f
<1>1. h \in Texts
  <2>1. IsLong(a, b, c, d)
    BY FourLong
  <2> QED BY <2>1 DEF IsLong
<1>2. y \in Texts
  BY Concat
<1>3. Same(h \o y, a \o (b \o (c \o (d \o y))))
  <2> HIDE DEF y
  <2> QED BY <1>2, Four
<1>4. IsAssociative(h, e, f)
  <2> HIDE DEF h
  <2> QED BY <1>1, Associative
<1> HIDE DEF h
<1>5. (h \o e) \o f = h \o y
  BY <1>4 DEF IsAssociative
<1> HIDE DEF y
<1>6. Same((h \o e) \o f, a \o (b \o (c \o (d \o y))))
  BY <1>3, <1>5 DEF Same
<1> QED BY <1>6 DEF h, y

(* parseParams reads what is between the tags of the parameters.           *)
LEMMA ParseParamsRead ==
  ASSUME NEW J, NEW L, ParamsAre(J, L), NEW y, Solid(y)
  PROVE  /\ Line(Tag("params>")) \in Texts /\ J \in Texts /\ Line(Tag("/params>")) \in Texts
         /\ Solid(Line(Tag("params>")) \o (J \o (Line(Tag("/params>")) \o y)))
         /\ ParseParams(Line(Tag("params>")) \o (J \o (Line(Tag("/params>")) \o y))) = {Result(L, y)}
<1> DEFINE ta == "params>"
           te == "/params>"
           tp == "param>"
           s2 == Line(Tag(te)) \o y
           s1 == J \o s2
           s == Line(Tag(ta)) \o s1
<1>1. ta \in Chars /\ te \in Chars /\ tp # te
  BY StringsAssumption DEF Tags, EndTags, Chars
<1>2. y \in Texts /\ J \in Texts
  BY DEF Solid, ParamsAre
<1>3. Line(Tag(te)) \in Texts /\ Solid(s2) /\ ~IsPrefix(Tag(tp), s2)
  <2> HIDE DEF te, tp
  <2> QED BY <1>1, <1>2, LinedTag
<1>4. Closed(te, {Result(L, s2)}) = {Result(L, y)}
  <2> HIDE DEF te
  <2> QED BY <1>1, LinedClosed
<1> HIDE DEF s2
<1>5. Solid(s1) /\ \A n \in Nat : n >= Len(J) + 1 => Decoders[n].params[s1] = {Result(L, s2)}
  BY <1>3, Zenon DEF ParamsAre, tp
<1>6. s1 \in Texts /\ s2 \in Texts
  BY <1>3, <1>5 DEF Solid
<1>7. Len(s1) = Len(J) + Len(s2) /\ Len(J) \in Nat /\ Len(s2) \in Nat
  BY <1>2, <1>6, Concat
<1> HIDE DEF s1
<1>8. Params(s1) = {Result(L, s2)}
  <2> DEFINE n == Len(s1) + 1
  <2>1. n \in Nat /\ n >= Len(J) + 1
    BY <1>7
  <2> HIDE DEF n
  <2>2. Decoders[n].params[s1] = {Result(L, s2)}
    BY <1>5, <2>1
  <2> QED BY <2>2 DEF Params, n
<1>9. /\ Line(Tag(ta)) \in Texts /\ Solid(s) /\ IsPrefix(Tag(ta), s)
      /\ Skip(Tag(ta), {s}) = {s1}
  <2> HIDE DEF ta
  <2> QED BY <1>1, <1>5, <1>6, LinedTag, LinedSkip
<1> HIDE DEF s
<1>10. ParseParams(s) = Closed(te, UNION {Params(t) : t \in Skip(Tag(ta), {s})})
  BY <1>9, Zenon DEF ParseParams
<1>11. UNION {Params(t) : t \in Skip(Tag(ta), {s})} = {Result(L, s2)}
  <2>1. UNION {Params(t) : t \in {s1}} = Params(s1)
    OBVIOUS
  <2> QED BY <1>8, <1>9, <2>1
<1>12. ParseParams(s) = {Result(L, y)}
  BY <1>4, <1>10, <1>11
<1> QED BY <1>2, <1>3, <1>9, <1>12 DEF s, s1, s2

(* Calls whose text keeps what they are: the end of a method's name is not *)
(* in it, and the parameters are such values.                              *)
IsKeptCall(m) ==
  /\ m.type = "call" /\ m.params \in Seq(Kept[Depth])
  /\ m.method \in Texts /\ Found(Tag("/methodName>"), m.method) = {}

(* What xmlMethod builds, parseCall reads: the method, the parameters, and *)
(* nothing is left.                                                        *)
LEMMA CallRead ==
  ASSUME NEW m, IsKeptCall(m)
  PROVE  /\ Body(m) \in Texts /\ Solid(Body(m))
         /\ ParseCall(Body(m)) = {Parsed("call", m.method, m.params, <<>>)}
<1> DEFINE tc == "methodCall>"
           ec == "/methodCall>"
           tn == "methodName>"
           en == "/methodName>"
           tp == "params>"
           ep == "/params>"
           L == m.params
           f == m.method
           J == Joined[[i \in 1..Len(L) |-> ParamText(Encode(L[i]))]]
           n == Tagged(tn, f, en)
           y == Tag(ec)
           s3 == Line(Tag(tp)) \o (J \o (Line(Tag(ep)) \o y))
           v == <<" ">> \o s3
           u == f \o (Tag(en) \o v)
           s2 == Tag(tn) \o u
           s1 == Line(Tag(tc)) \o s2
           s == Line(XmlDecl) \o s1
<1>1. /\ tc \in Chars /\ ec \in Chars /\ tn \in Chars /\ en \in Chars \ {"<"}
      /\ tp \in Chars /\ ep \in Chars
  BY StringsAssumption DEF Tags, EndTags, Chars
<1>2. /\ m.type = "call" /\ L \in Seq(Kept[Depth]) /\ f \in Texts /\ Found(Tag(en), f) = {}
  BY DEF IsKeptCall
<1>3. ParamsAre(J, L)
  BY <1>2, ParamsOf
<1>4. XmlMethod(m) = ((((Line(Tag(tc)) \o Line(n)) \o Line(Tag(tp))) \o J) \o Line(Tag(ep))) \o y
  BY DEF XmlMethod, ParamText
<1> HIDE DEF J, L, f
<1>5. y \in Texts /\ Solid(y) /\ \A q : Ended(ec, {Result(q, y)}) = {Result(q, <<>>)}
  <2> HIDE DEF ec
  <2> QED BY <1>1, TagLast
<1> HIDE DEF y
<1>6. /\ Line(Tag(tp)) \in Texts /\ J \in Texts /\ Line(Tag(ep)) \in Texts
      /\ Solid(s3) /\ ParseParams(s3) = {Result(L, y)}
  BY <1>3, <1>5, ParseParamsRead
<1>7. s3 \in Texts
  BY <1>6 DEF Solid
<1>8. v \in Texts /\ Leads(v, s3)
  <2> HIDE DEF s3
  <2> QED BY <1>6, <1>7, BlankFirst, Leading
<1>9. /\ n \in Texts /\ u \in Texts /\ Same(n \o v, s2)
  <2> HIDE DEF tn, en, v
  <2> QED BY <1>1, <1>2, <1>8, TaggedFirst
<1>10. /\ Line(n) \in Texts /\ Same(Line(n) \o s3, n \o v)
  <2> HIDE DEF n, s3
  <2> QED BY <1>7, <1>9, LineFirst
<1>11. UpTo(en, u) = {Result(f, Tag(en) \o v)}
  <2> HIDE DEF en, v
  <2> QED BY <1>1, <1>2, <1>8, UpToTag
<1>12. Closed(en, {Result(f, Tag(en) \o v)}) = {Result(f, s3)}
  <2> HIDE DEF en, v, s3
  <2> QED BY <1>1, <1>8, ClosedTag
<1>13. Solid(s2) /\ Expect(Tag(tn), {s2}) = {u}
  <2> HIDE DEF tn, u
  <2> QED BY <1>1, <1>9, TagFirst, ExpectTag
<1>14. s2 \in Texts
  BY <1>13 DEF Solid
<1>15. Line(Tag(tc)) \in Texts /\ Solid(s1) /\ Skip(Tag(tc), {s1}) = {s2}
  <2> HIDE DEF tc, s2
  <2> QED BY <1>1, <1>13, <1>14, LinedTag, LinedSkip
<1>16. Solid(s) /\ Skip(XmlDecl, {s}) = {s1}
  <2> HIDE DEF s1
  <2> QED BY <1>15, DeclSkip
<1>17. s \in Texts
  BY <1>16 DEF Solid
<1>18. Body(m) = s
  <2> HIDE DEF n
  <2>1. Same(XmlMethod(m), Line(Tag(tc)) \o (Line(n) \o s3))
    <3> DEFINE a == Line(Tag(tc))
               b == Line(n)
               c == Line(Tag(tp))
               e == Line(Tag(ep))
    <3>1. a \in Texts /\ b \in Texts /\ c \in Texts /\ J \in Texts /\ e \in Texts /\ y \in Texts
      BY <1>5, <1>6, <1>10, <1>15
    <3>2. XmlMethod(m) = ((((a \o b) \o c) \o J) \o e) \o y
      BY <1>4
    <3> HIDE DEF a, b, c, e
    <3>3. Same(((((a \o b) \o c) \o J) \o e) \o y, a \o (b \o (c \o (J \o (e \o y)))))
      BY <3>1, Six
    <3> QED BY <3>2, <3>3, Zenon DEF a, b, c, e
  <2>2. XmlMethod(m) = s1
    <3> HIDE DEF s2, s3, tc
    <3> QED BY <1>9, <1>10, <2>1 DEF Same
  <2>3. Body(m) = Line(XmlDecl) \o XmlMethod(m)
    BY <1>2, Zenon DEF Body
  <2> HIDE DEF s1
  <2> QED BY <2>2, <2>3
<1> HIDE DEF s, s1, s2, s3, u, v, n
<1> DEFINE names == Expect(Tag(tn), Skip(Tag(tc), Skip(XmlDecl, {s})))
           methods == UNION {UpTo(en, t) : t \in names}
           calls == UNION {{Parsed("call", r.val, p.val, p.rest) : p \in ParseParams(r.rest)} :
                             r \in Closed(en, methods)}
<1>19. names = {u}
  BY <1>13, <1>15, <1>16
<1>20. methods = {Result(f, Tag(en) \o v)}
  <2> HIDE DEF names, en
  <2>1. methods = UNION {UpTo(en, t) : t \in {u}}
    BY <1>19
  <2> QED BY <1>11, <2>1
<1>21. calls = {Parsed("call", f, L, y)}
  <2> HIDE DEF methods
  <2>1. \A p \in {Result(L, y)} : p.val = L /\ p.rest = y
    BY DEF Result
  <2>2. {Parsed("call", f, p.val, p.rest) : p \in {Result(L, y)}} = {Parsed("call", f, L, y)}
    BY <2>1
  <2>3. \A r \in {Result(f, s3)} : r.val = f /\ ParseParams(r.rest) = {Result(L, y)}
    BY <1>6 DEF Result
  <2>4. \A r \in {Result(f, s3)} :
          {Parsed("call", r.val, p.val, p.rest) : p \in ParseParams(r.rest)} = {Parsed("call", f, L, y)}
    BY <2>2, <2>3
  <2>5. Closed(en, methods) = {Result(f, s3)}
    <3> HIDE DEF en
    <3> QED BY <1>12, <1>20
  <2> HIDE DEF en
  <2> QED BY <2>4, <2>5
<1>22. ParseCall(s) = Ended(ec, calls)
  BY DEF ParseCall
<1>23. ParseCall(s) = {Parsed("call", f, L, <<>>)}
  <2> HIDE DEF calls, ec
  <2> QED BY <1>5, <1>21, <1>22 DEF Parsed
<1> QED BY <1>16, <1>17, <1>18, <1>23 DEF f, L

(* The last line of a text.                                                *)
LEMMA LineLast ==
  ASSUME NEW a \in Chars
  PROVE  LET y == Line(Tag(a))
         IN  y \in Texts /\ Solid(y) /\ \A v : Ended(a, {Result(v, y)}) = {Result(v, <<>>)}
<1> DEFINE y == Line(Tag(a))
           z == <<" ">>
<1>1. <<>> \in Texts /\ z \in Texts
  BY EmptySeq, BlankFirst DEF Texts
<1>2. z \o <<>> = z
  <2> HIDE DEF z
  <2> QED BY <1>1, Nothing
<1>3. y \in Texts /\ Solid(y \o <<>>) /\ Same(y \o <<>>, Tag(a) \o (z \o <<>>))
  BY <1>1, LinedTag
<1> HIDE DEF y
<1>4. y \o <<>> = y
  BY <1>3, Nothing
<1>5. y = Tag(a) \o z
  <2> HIDE DEF z
  <2> QED BY <1>2, <1>3, <1>4 DEF Same
<1>6. ASSUME NEW v PROVE Ended(a, {Result(v, y)}) = {Result(v, <<>>)}
  <2>1. Ended(a, {Result(v, Tag(a) \o z)}) = {Result(v, Chomp[z])}
    <3> HIDE DEF z
    <3> QED BY <1>1, EndedTag
  <2>2. Chomp[z] = <<>>
    BY ChompEnd
  <2> HIDE DEF z
  <2> QED BY <1>5, <2>1, <2>2
<1> QED BY <1>3, <1>4, <1>6 DEF y

(* Seven texts that are put together, from the first on.                   *)
LEMMA Seven ==
  ASSUME NEW a \in Texts, NEW b \in Texts, NEW c \in Texts, NEW d \in Texts, NEW e \in Texts, NEW f \in Texts,
         NEW g \in Texts
  PROVE  Same((((((a \o b) \o c) \o d) \o e) \o f) \o g, a \o (b \o (c \o (d \o (e \o (f \o g))))))
<1> DEFINE h == ((a \o b) \o c) \o d
           k == h \o e
           z == f \o g
           y == e \o z
<1>1. h \in Texts
  <2>1. IsLong(a, b, c, d)
    BY FourLong
  <2> QED BY <2>1 DEF IsLong
<1>2. z \in Texts
  BY Concat
<1>3. y \in Texts
  <2> HIDE DEF z
  <2> QED BY <1>2, Concat
<1>4. k \in Texts
  <2> HIDE DEF h
  <2> QED BY <1>1, Concat
<1>5. Same(h \o y, a \o (b \o (c \o (d \o y))))
  <2> HIDE DEF y
  <2> QED BY <1>3, Four
<1>6. IsAssociative(k, f, g)
  <2> HIDE DEF k
  <2> QED BY <1>4, Associative
<1>7. IsAssociative(h, e, z)
  <2> HIDE DEF h, z
  <2> QED BY <1>1, <1>2, Associative
<1> HIDE DEF h
<1>8. (k \o f) \o g = k \o z
  BY <1>6 DEF IsAssociative
<1>9. k \o z = h \o y
  BY <1>7 DEF IsAssociative
<1> HIDE DEF k, y, z
<1>10. Same((k \o f) \o g, a \o (b \o (c \o (d \o y))))
  BY <1>5, <1>8, <1>9 DEF Same
<1> QED BY <1>10 DEF h, k, y, z

(* decodeValue reads a value that is on a line of its own.                 *)
LEMMA DecodeLine ==
  ASSUME NEW t, NEW v, Decoded(t, v), NEW z, Solid(z)
  PROVE  Line(t) \in Texts /\ Solid(Line(t) \o z) /\ Decode(Line(t) \o z) = {Result(v, z)}
<1> DEFINE s == Line(t) \o z
<1>1. /\ t \in Texts /\ Line(t) \in Texts /\ Len(Line(t)) = Len(t) + 1 /\ Len(t) \in Nat
      /\ Solid(s) /\ \A n \in Nat : n >= Len(t) => Decoders[n].value[s] = {Result(v, z)}
  BY DecodedLine
<1>2. z \in Texts
  BY DEF Solid
<1>3. Len(s) = Len(Line(t)) + Len(z) /\ Len(z) \in Nat
  BY <1>1, <1>2, Concat
<1> HIDE DEF s
<1> DEFINE n == Len(s)
<1>4. n \in Nat /\ n >= Len(t)
  BY <1>1, <1>3
<1> HIDE DEF n
<1>5. Decode(s) = {Result(v, z)}
  <2>1. Decoders[n].value[s] = {Result(v, z)}
    BY <1>1, <1>4
  <2> QED BY <2>1 DEF Decode, n
<1> QED BY <1>1, <1>5 DEF s

(* Responses whose text keeps what they are.                               *)
IsKeptResponse(m) ==
  m.type = "response" /\ m.method = <<>> /\ \E v \in Kept[Depth] : m.params = <<v>>

(* What buildResponse builds, parseResponse reads: the value, and nothing  *)
(* is left.                                                                *)
LEMMA ResultRead ==
  ASSUME NEW m, IsKeptResponse(m)
  PROVE  /\ Body(m) \in Texts /\ Solid(Body(m))
         /\ ParseResponse(Body(m)) = {Parsed("response", m.method, m.params, <<>>)}
<1> DEFINE tr == "methodResponse>"
           er == "/methodResponse>"
           ts == "params>"
           es == "/params>"
           tp == "param>"
           ep == "/param>"
           tf == "fault>"
           v == m.params[1]
           t == Encode(v)
           a == Line(Tag(tr))
           b == Line(Tag(ts))
           c == Line(Tag(tp))
           l == Line(t)
           e == Line(Tag(ep))
           g == Line(Tag(es))
           y == Line(Tag(er))
           s5 == g \o y
           s4 == e \o s5
           s3 == l \o s4
           s2 == c \o s3
           s1 == b \o s2
           s0 == a \o s1
           s == Line(XmlDecl) \o s0
           x == [type |-> "response", method |-> <<>>, params |-> <<v>>]
           P(z) == Result(x, z)
<1>1. /\ tr \in Chars /\ er \in Chars /\ ts \in Chars /\ es \in Chars
      /\ tp \in Chars /\ ep \in Chars
  BY StringsAssumption DEF Tags, EndTags, Chars
<1>2. m.type = "response" /\ m.method = <<>> /\ v \in Kept[Depth] /\ m.params = <<v>>
  BY DEF IsKeptResponse
<1>3. Decoded(t, v)
  <2>1. Depth \in Nat
    BY CodecAssumption
  <2> QED BY <1>2, <2>1, KeptRead DEF Encode
<1>4. BuildResponse(m) = (((((a \o b) \o c) \o l) \o e) \o g) \o y
  BY DEF BuildResponse
<1>5. Body(m) = Line(XmlDecl) \o BuildResponse(m)
  BY <1>2, Zenon DEF Body
<1> HIDE DEF v, t
<1>6. y \in Texts /\ Solid(y) /\ \A q : Ended(er, {Result(q, y)}) = {Result(q, <<>>)}
  <2> HIDE DEF er
  <2> QED BY <1>1, LineLast
<1> HIDE DEF y
<1>7. g \in Texts /\ Solid(s5) /\ Closed(es, {P(s5)}) = {P(y)}
  <2> HIDE DEF es, x
  <2> QED BY <1>1, <1>6, LinedTag, LinedClosed
<1>8. s5 \in Texts
  BY <1>7 DEF Solid
<1> HIDE DEF s5
<1>9. e \in Texts /\ Solid(s4) /\ Closed(ep, {P(s4)}) = {P(s5)}
  <2> HIDE DEF ep, x
  <2> QED BY <1>1, <1>7, <1>8, LinedTag, LinedClosed
<1> HIDE DEF s4
<1>10. l \in Texts /\ Solid(s3) /\ Decode(s3) = {Result(v, s4)}
  BY <1>3, <1>9, DecodeLine
<1>11. s3 \in Texts
  BY <1>10 DEF Solid
<1> HIDE DEF s3
<1>12. c \in Texts /\ Solid(s2) /\ Skip(Tag(tp), {s2}) = {s3}
  <2> HIDE DEF tp
  <2> QED BY <1>1, <1>10, <1>11, LinedTag, LinedSkip
<1>13. s2 \in Texts
  BY <1>12 DEF Solid
<1> HIDE DEF s2
<1>14. b \in Texts /\ Solid(s1) /\ Skip(Tag(ts), {s1}) = {s2} /\ ~IsPrefix(Tag(tf), s1)
  <2>1. tf # ts
    OBVIOUS
  <2> HIDE DEF ts, tf
  <2> QED BY <1>1, <1>12, <1>13, <2>1, LinedTag, LinedSkip
<1>15. s1 \in Texts
  BY <1>14 DEF Solid
<1> HIDE DEF s1
<1>16. a \in Texts /\ Solid(s0) /\ Skip(Tag(tr), {s0}) = {s1}
  <2> HIDE DEF tr
  <2> QED BY <1>1, <1>14, <1>15, LinedTag, LinedSkip
<1> HIDE DEF s0
<1>17. Solid(s) /\ Skip(XmlDecl, {s}) = {s0}
  BY <1>16, DeclSkip
<1>18. s \in Texts
  BY <1>17 DEF Solid
<1>19. Body(m) = s
  <2> HIDE DEF a, b, c, l, e, g
  <2>1. Same((((((a \o b) \o c) \o l) \o e) \o g) \o y, a \o (b \o (c \o (l \o (e \o (g \o y))))))
    BY <1>6, <1>7, <1>9, <1>10, <1>12, <1>14, <1>16, Seven
  <2>2. BuildResponse(m) = s0
    BY <1>4, <2>1, Zenon DEF Same, s0, s1, s2, s3, s4, s5
  <2> QED BY <1>5, <2>2
<1> HIDE DEF s
<1>20. ParseResult(s1) = {P(y)}
  <2>1. UNION {Decode(u) : u \in Skip(Tag(tp), Skip(Tag(ts), {s1}))} = {Result(v, s4)}
    <3>1. Skip(Tag(tp), Skip(Tag(ts), {s1})) = {s3}
      BY <1>12, <1>14
    <3> QED BY <1>10, <3>1
  <2>2. {Parsed("response", <<>>, <<r.val>>, r.rest) : r \in {Result(v, s4)}} = {P(s4)}
    <3>1. \A r \in {Result(v, s4)} : r.val = v /\ r.rest = s4
      BY DEF Result
    <3>2. Parsed("response", <<>>, <<v>>, s4) = P(s4)
      BY DEF Parsed
    <3> QED BY <3>1, <3>2
  <2>3. ParseResult(s1) =
          Closed(es, Closed(ep, {Parsed("response", <<>>, <<r.val>>, r.rest) :
            r \in UNION {Decode(u) : u \in Skip(Tag(tp), Skip(Tag(ts), {s1}))}}))
    BY DEF ParseResult
  <2> HIDE DEF P
  <2> QED BY <1>7, <1>9, <2>1, <2>2, <2>3
<1>21. ParseResponse(s) = Ended(er, {P(y)})
  <2> DEFINE f(u) == IF IsPrefix(Tag(tf), u) THEN ParseFault(u) ELSE ParseResult(u)
             starts == Skip(Tag(tr), Skip(XmlDecl, {s}))
  <2>1. ParseResponse(s) = Ended(er, UNION {f(u) : u \in starts})
    BY DEF ParseResponse
  <2>2. starts = {s1}
    BY <1>16, <1>17
  <2>3. f(s1) = {P(y)}
    BY <1>14, <1>20
  <2> HIDE DEF f, starts
  <2>4. UNION {f(u) : u \in starts} = {P(y)}
    BY <2>2, <2>3
  <2> QED BY <2>1, <2>4
<1>22. ParseResponse(s) = {P(<<>>)}
  <2> HIDE DEF x
  <2> QED BY <1>6, <1>21
<1>23. P(<<>>) = Parsed("response", m.method, m.params, <<>>)
  BY <1>2 DEF Parsed
<1> QED BY <1>17, <1>18, <1>19, <1>22, <1>23

(* A value that is not an array or a struct, of any depth.                 *)
LEMMA KeptScalar ==
  ASSUME NEW n \in Nat
  PROVE  /\ KeptScalars \subseteq Kept[n]
         /\ \A v \in Kept[n] : v.type \notin {"array", "struct"} => v \in KeptScalars
<1>1. Kept[n] = KeptDef(Kept, n)
  BY KeptDefined
<1>2. KeptScalars \subseteq Kept[n]
  BY <1>1, Zenon DEF KeptDef
<1>3. ASSUME NEW v \in Kept[n], v \notin KeptScalars
      PROVE  v.type \in {"array", "struct"}
  <2>1. v \in Compounds(Kept[n - 1])
    BY <1>1, <1>3, Zenon DEF KeptDef
  <2> QED BY <2>1 DEF Compounds
<1> QED BY <1>2, <1>3

(* What there is of a fault that is not as it should be.                   *)
LEMMA FaultParts ==
  ASSUME NEW n \in Nat, NEW v \in Kept[n]
  PROVE  /\ FaultCode(v) \in KeptScalars /\ FaultCode(v).type = "int"
         /\ FaultString(v) \in KeptScalars /\ FaultString(v).type = "string"
<1>1. v.type = "int" \/ v.type = "string" => v \in KeptScalars
  BY KeptScalar
<1>2. Number(-1) \in KeptScalars /\ Number(-1).type = "int"
  <2> DEFINE nums == <<-1>>
             w == Number(-1)
  <2>1. nums \in [1..1 -> Int]
    OBVIOUS
  <2>2. w = [type |-> "int", nums |-> nums, text |-> <<>>, elems |-> <<>>, members |-> {}]
    BY DEF Number, Value
  <2> HIDE DEF w, nums
  <2>3. w \in Scalar("int", [1..1 -> Int], {<<>>}) /\ w.type = "int"
    BY <2>1, <2>2 DEF Scalar
  <2>4. w \in Scalars
    BY <2>3 DEF Scalars
  <2>5. w \in KeptScalars
    BY <2>3, <2>4 DEF KeptScalars
  <2> QED BY <2>3, <2>5 DEF w
<1>3. UnknownError \in KeptScalars /\ UnknownError.type = "string"
  <2> DEFINE text == <<"unknown error">>
             w == UnknownError
  <2>1. text \in Texts
    <3> DEFINE e == "unknown error"
    <3>1. e \in STRING
      BY StringsAssumption DEF Names
    <3> HIDE DEF e
    <3>2. <<e>> \in Texts
      BY <3>1, One DEF Texts
    <3> QED BY <3>2 DEF e
  <2>2. w = [type |-> "string", nums |-> <<>>, text |-> text, elems |-> <<>>, members |-> {}]
    BY DEF UnknownError, Str, Value
  <2> HIDE DEF w, text
  <2>3. w \in Scalar("string", {<<>>}, Texts) /\ w.type = "string"
    BY <2>1, <2>2 DEF Scalar
  <2>4. w \in Scalars
    BY <2>3 DEF Scalars
  <2>5. w \in KeptScalars
    BY <2>3, <2>4 DEF KeptScalars
  <2> QED BY <2>3, <2>5 DEF w
<1>4. FaultCode(v) = IF v.type = "int" THEN v ELSE Number(-1)
  BY DEF FaultCode
<1>5. FaultString(v) = IF v.type = "string" THEN v ELSE UnknownError
  BY DEF FaultString
<1> QED BY <1>1, <1>2, <1>3, <1>4, <1>5

(* A fault is a value that is kept, and its parts are found in it.         *)
LEMMA FaultKept ==
  ASSUME NEW n \in Nat, n # 0, NEW v, NEW w, v \in Kept[n], w \in Kept[n]
  PROVE  /\ FaultValue(v, w) \in Kept[n]
         /\ Faults(FaultValue(v, w)) = {<<FaultCode(v), FaultString(w)>>}
<1> DEFINE kc == <<"faultCode">>
           ks == <<"faultString">>
           a == FaultCode(v)
           b == FaultString(w)
           c == Member(kc, a)
           s == Member(ks, b)
           M == {c, s}
           f == Struct(M)
<1>1. a \in KeptScalars /\ a.type = "int" /\ b \in KeptScalars /\ b.type = "string"
  BY FaultParts
<1>2. a \in Kept[n - 1] /\ b \in Kept[n - 1]
  <2>1. n - 1 \in Nat
    OBVIOUS
  <2> QED BY <1>1, <2>1, KeptScalar
<1>3. /\ kc \in Texts /\ ks \in Texts /\ kc # ks
      /\ Found(Tag("/name>"), kc) = {} /\ Found(Tag("/name>"), ks) = {}
  <2> DEFINE x == "faultCode"
             y == "faultString"
  <2>1. x \in STRING /\ y \in STRING /\ x # y
    BY StringsAssumption DEF Names
  <2> HIDE DEF x, y
  <2>2. <<x>> \in Texts /\ Len(<<x>>) = 1 /\ <<y>> \in Texts /\ Len(<<y>>) = 1
    BY <2>1, One DEF Texts
  <2>3. <<x>> # <<y>>
    BY <2>1
  <2>4. 1..(1 - 1) = {}
    OBVIOUS
  <2>5. \A t : Len(t) = 1 => Found(Tag("/name>"), t) = {}
    BY <2>4 DEF Found
  <2> QED BY <2>2, <2>3, <2>5 DEF x, y
<1> HIDE DEF a, b, kc, ks
<1>4. c.key = kc /\ c.val = a /\ s.key = ks /\ s.val = b
  BY DEF Member
<1>5. c \in [key : Texts, val : Kept[n - 1]] /\ s \in [key : Texts, val : Kept[n - 1]]
  BY <1>2, <1>3 DEF Member
<1> HIDE DEF c, s
<1>6. FaultValue(v, w) = f
  BY DEF FaultValue, f, c, s, kc, ks, a, b
<1>7. M \in Dicts(Kept[n - 1])
  <2>1. IsFiniteSet(M)
    <3>1. IsFiniteSet({c})
      BY FS_Singleton
    <3>2. IsFiniteSet({c} \cup {s})
      BY <3>1, FS_AddElement
    <3>3. {c} \cup {s} = M
      OBVIOUS
    <3> QED BY <3>2, <3>3
  <2>2. \A i, j \in M : i.key = j.key => i = j
    BY <1>3, <1>4
  <2> QED BY <1>5, <2>1, <2>2 DEF Dicts
<1>8. \A m \in M : Found(Tag("/name>"), m.key) = {}
  BY <1>3, <1>4
<1>9. f \in Kept[n]
  <2> HIDE DEF M
  <2>1. f \in Compounds(Kept[n - 1]) /\ f.members = M
    BY <1>7 DEF Compounds, Struct, Value
  <2> HIDE DEF f
  <2>2. Kept[n] = KeptDef(Kept, n)
    BY KeptDefined
  <2>3. \A m \in f.members : Found(Tag("/name>"), m.key) = {}
    BY <1>8, <2>1
  <2> QED BY <2>1, <2>2, <2>3, Zenon DEF KeptDef
<1>10. Part(f, "faultCode") = {a} /\ Part(f, "faultString") = {b}
  <2>1. f.members = M
    BY DEF Struct, Value
  <2> HIDE DEF f
  <2>2. {m \in f.members : m.key = kc} = {c} /\ {m \in f.members : m.key = ks} = {s}
    BY <1>3, <1>4, <2>1
  <2>3. Part(f, "faultCode") = {m.val : m \in {c}} /\ Part(f, "faultString") = {m.val : m \in {s}}
    BY <2>2 DEF Part, kc, ks
  <2> QED BY <1>4, <2>3
<1> HIDE DEF f
<1>11. Faults(f) = {<<a, b>>}
  <2>1. {x \in {a} : x.type = "int"} = {a} /\ {x \in {b} : x.type = "string"} = {b}
    BY <1>1
  <2>2. Faults(f) = {<<x, y>> : x \in {a}, y \in {b}}
    BY <1>10, <2>1 DEF Faults
  <2> QED BY <2>2
<1> QED BY <1>6, <1>9, <1>11 DEF a, b

(* Faults: any that there is a depth for.                                  *)
IsKeptFault(m) ==
  m.type = "fault" /\ Depth # 0 /\ m.method = <<>> /\ \E v, w \in Kept[Depth] : m.params = <<v, w>>

(* What buildFault builds, parseResponse reads: the code and the text, or  *)
(* what grabError and rpcFault_Extract take for them, and nothing is left. *)
LEMMA FaultRead ==
  ASSUME NEW m, IsKeptFault(m)
  PROVE  /\ Body(m) \in Texts /\ Solid(Body(m))
         /\ ParseResponse(Body(m)) =
              {Parsed("fault", m.method, <<FaultCode(m.params[1]), FaultString(m.params[2])>>, <<>>)}
<1> DEFINE tr == "methodResponse>"
           er == "/methodResponse>"
           tf == "fault>"
           ef == "/fault>"
           v == FaultValue(m.params[1], m.params[2])
           both == <<FaultCode(m.params[1]), FaultString(m.params[2])>>
           t == Encode(v)
           a == Line(Tag(tr))
           b == Line(Tag(tf))
           l == Line(t)
           e == Line(Tag(ef))
           y == Tag(er)
           s4 == e \o y
           s3 == l \o s4
           s2 == b \o s3
           s1 == a \o s2
           s == Line(XmlDecl) \o s1
           x == [type |-> "fault", method |-> <<>>, params |-> both]
           P(z) == Result(x, z)
<1>1. tr \in Chars /\ er \in Chars /\ tf \in Chars /\ ef \in Chars
  BY StringsAssumption DEF Tags, EndTags, Chars
<1>2. m.type = "fault" /\ m.method = <<>> /\ Depth \in Nat /\ Depth # 0
  BY CodecAssumption DEF IsKeptFault
<1>3. v \in Kept[Depth] /\ Faults(v) = {both}
  <2>1. m.params[1] \in Kept[Depth] /\ m.params[2] \in Kept[Depth]
    BY DEF IsKeptFault
  <2> QED BY <1>2, <2>1, FaultKept
<1>4. Decoded(t, v)
  BY <1>2, <1>3, KeptRead DEF Encode
<1>5. BuildFault(m) = (((a \o b) \o l) \o e) \o y
  BY DEF BuildFault
<1>6. Body(m) = Line(XmlDecl) \o BuildFault(m)
  BY <1>2, Zenon DEF Body
<1>7. \A z : Parsed("fault", <<>>, both, z) = P(z)
  BY DEF Parsed
<1> HIDE DEF v, t, both, x
<1>8. y \in Texts /\ Solid(y) /\ \A q : Ended(er, {Result(q, y)}) = {Result(q, <<>>)}
  <2> HIDE DEF er
  <2> QED BY <1>1, TagLast
<1> HIDE DEF y
<1>9. e \in Texts /\ Solid(s4) /\ Closed(ef, {P(s4)}) = {P(y)}
  <2> HIDE DEF ef
  <2> QED BY <1>1, <1>8, LinedTag, LinedClosed
<1> HIDE DEF s4
<1>10. l \in Texts /\ Solid(s3) /\ Decode(s3) = {Result(v, s4)}
  BY <1>4, <1>9, DecodeLine
<1>11. s3 \in Texts /\ s4 # Outside
  BY <1>9, <1>10 DEF Solid
<1> HIDE DEF s3
<1>12. b \in Texts /\ Solid(s2) /\ Skip(Tag(tf), {s2}) = {s3} /\ IsPrefix(Tag(tf), s2)
  <2> HIDE DEF tf
  <2> QED BY <1>1, <1>10, <1>11, LinedTag, LinedSkip
<1>13. s2 \in Texts
  BY <1>12 DEF Solid
<1> HIDE DEF s2
<1>14. a \in Texts /\ Solid(s1) /\ Skip(Tag(tr), {s1}) = {s2}
  <2> HIDE DEF tr
  <2> QED BY <1>1, <1>12, <1>13, LinedTag, LinedSkip
<1> HIDE DEF s1
<1>15. Solid(s) /\ Skip(XmlDecl, {s}) = {s1}
  BY <1>14, DeclSkip
<1>16. s \in Texts
  BY <1>15 DEF Solid
<1>17. Body(m) = s
  <2> HIDE DEF a, b, l, e
  <2>1. Same((((a \o b) \o l) \o e) \o y, a \o (b \o (l \o (e \o y))))
    BY <1>8, <1>9, <1>10, <1>12, <1>14, Four
  <2>2. BuildFault(m) = s1
    BY <1>5, <2>1, Zenon DEF Same, s1, s2, s3, s4
  <2> QED BY <1>6, <2>2
<1> HIDE DEF s
<1>18. ParseFault(s2) = {P(y)}
  <2> DEFINE vals == UNION {Decode(u) : u \in Skip(Tag(tf), {s2})}
             raised(r) == {Parsed("fault", <<>>, f, r.rest) : f \in Faults(r.val)}
             gone == {Parsed("fault", <<>>, <<>>, Outside) : r \in {q \in vals : q.rest = Outside}}
  <2>1. ParseFault(s2) = Closed(ef, UNION {raised(r) : r \in vals} \cup gone)
    BY DEF ParseFault
  <2>2. vals = {Result(v, s4)}
    BY <1>10, <1>12
  <2>3. \A r \in {Result(v, s4)} : r.val = v /\ r.rest = s4
    BY DEF Result
  <2> HIDE DEF vals
  <2>4. \A r \in vals : raised(r) = {P(s4)}
    BY <1>3, <1>7, <2>2, <2>3
  <2>5. gone = {}
    BY <1>11, <2>2, <2>3
  <2> HIDE DEF raised, gone, P
  <2>6. UNION {raised(r) : r \in vals} \cup gone = {P(s4)}
    BY <2>2, <2>4, <2>5
  <2> QED BY <1>9, <2>1, <2>6
<1>19. ParseResponse(s) = Ended(er, {P(y)})
  <2> DEFINE f(u) == IF IsPrefix(Tag(tf), u) THEN ParseFault(u) ELSE ParseResult(u)
             starts == Skip(Tag(tr), Skip(XmlDecl, {s}))
  <2>1. ParseResponse(s) = Ended(er, UNION {f(u) : u \in starts})
    BY DEF ParseResponse
  <2>2. starts = {s2}
    BY <1>14, <1>15
  <2>3. f(s2) = {P(y)}
    BY <1>12, <1>18
  <2> HIDE DEF f, starts
  <2>4. UNION {f(u) : u \in starts} = {P(y)}
    BY <2>2, <2>3
  <2> QED BY <2>1, <2>4
<1>20. ParseResponse(s) = {P(<<>>)}
  BY <1>8, <1>19
<1>21. P(<<>>) = Parsed("fault", m.method, both, <<>>)
  BY <1>2, <1>7
<1> QED BY <1>15, <1>16, <1>17, <1>20, <1>21 DEF both

-----------------------------------------------------------------------------
(* Lines of headers.                                                       *)

(* The least element of a set of numbers.                                  *)
LEMMA LeastIs ==
  ASSUME NEW S, S \subseteq Nat, NEW k \in S, \A i \in S : k <= i
  PROVE  Min(S) = k
<1>1. Min(S) \in S /\ \A i \in S : Min(S) <= i
  BY Least
<1> DEFINE m == Min(S)
<1>2. m \in S /\ m <= k /\ k <= m /\ m \in Nat /\ k \in Nat
  BY <1>1
<1> HIDE DEF m
<1>3. m = k
  BY <1>2
<1> QED BY <1>3 DEF m

(* A line end at the start of a text.                                      *)
LEMMA LineEndOf ==
  ASSUME NEW s \in Texts, NEW e \in LineEnds(s)
  PROVE  /\ Len(e) \in 1..2 /\ Drop(s, Len(e)) \in Texts /\ Len(Drop(s, Len(e))) < Len(s)
         /\ s # <<>> /\ (s[1] = "\n" \/ (s[1] = "\r" /\ Len(s) >= 2 /\ s[2] = "\n"))
<1>1. (e = <<"\n">> \/ e = CrLf) /\ IsPrefix(e, s)
  BY DEF LineEnds
<1>2. Len(s) \in Nat
  BY Nothing
<1>3. Len(e) \in 1..2 /\ Len(e) <= Len(s)
  <2>1. Len(<<"\n">>) = 1 /\ Len(CrLf) = 2
    BY DEF CrLf
  <2>2. Len(e) <= Len(s)
    BY <1>1 DEF IsPrefix
  <2> QED BY <1>1, <2>1, <2>2
<1>4. Drop(s, Len(e)) \in Texts /\ Len(Drop(s, Len(e))) < Len(s)
  <2> DEFINE n == Len(e)
             d == Drop(s, n)
  <2>1. n \in 0..Len(s) /\ n > 0
    BY <1>2, <1>3
  <2> HIDE DEF n
  <2>2. d \in Texts /\ Len(d) = Len(s) - n
    BY <2>1, TakeDrop
  <2> HIDE DEF d
  <2>3. Len(d) < Len(s)
    BY <1>2, <2>1, <2>2
  <2> QED BY <2>2, <2>3 DEF n, d
<1>5. s # <<>>
  BY <1>2, <1>3, Nothing
<1>6. CASE e = <<"\n">>
  <2>1. s[1] = "\n"
    BY <1>1, <1>6, PrefixOne
  <2> QED BY <1>3, <1>4, <1>5, <2>1, Zenon
<1>7. CASE e = CrLf
  <2>1. Len(s) >= 2 /\ SubSeq(CrLf, 1, 2) = SubSeq(s, 1, 2)
    <3>1. Len(CrLf) = 2
      BY DEF CrLf
    <3> QED BY <1>1, <1>3, <1>7, <3>1 DEF IsPrefix
  <2>2. SubSeq(s, 1, 1 + 1) = <<s[1], s[1 + 1]>>
    <3>1. 1 \in 1..(Len(s) - 1)
      BY <1>2, <2>1
    <3> QED BY <3>1, TwoOf DEF Texts
  <2>3. SubSeq(CrLf, 1, 1 + 1) = <<CrLf[1], CrLf[1 + 1]>>
    <3>1. CrLf \in Seq({"\r", "\n"}) /\ Len(CrLf) = 2
      BY DEF CrLf
    <3>2. 1 \in 1..(Len(CrLf) - 1)
      BY <3>1
    <3> QED BY <3>1, <3>2, TwoOf
  <2>4. CrLf[1] = "\r" /\ CrLf[2] = "\n"
    BY DEF CrLf
  <2>5. <<s[1], s[2]>> = <<CrLf[1], CrLf[2]>>
    BY <2>1, <2>2, <2>3
  <2>6. s[1] = "\r" /\ s[2] = "\n"
    BY <2>4, <2>5
  <2> QED BY <1>3, <1>4, <1>5, <2>1, <2>6, Zenon
<1> QED BY <1>1, <1>6, <1>7

(* What a text is from a place in it on is not longer.                     *)
LEMMA From ==
  ASSUME NEW s \in Texts, NEW S, S \subseteq 1..Len(s), S # {}
  PROVE  Drop(s, Min(S) - 1) \in Texts /\ Len(Drop(s, Min(S) - 1)) <= Len(s) /\ Min(S) \in 1..Len(s)
<1>1. Len(s) \in Nat /\ Min(S) \in S
  <2>1. S \subseteq Nat
    BY Nothing
  <2> QED BY <2>1, Nothing, Least
<1> DEFINE m == Min(S)
<1>2. m \in 1..Len(s)
  BY <1>1
<1> HIDE DEF m
<1>3. m - 1 \in 0..Len(s)
  BY <1>1, <1>2
<1>4. Drop(s, m - 1) \in Texts /\ Len(Drop(s, m - 1)) = Len(s) - (m - 1)
  BY <1>3, TakeDrop
<1> QED BY <1>1, <1>2, <1>4 DEF m

HeaderR == INSTANCE Recursion WITH Domain <- Texts, Measure <- Length, Def <- HeaderLinesWith

(* HeaderLines (parseHeader's loop) is what its definition says.           *)
LEMMA HeaderLinesDefined == \A s \in Texts : HeaderLines[s] = HeaderLinesWith(HeaderLines, s)
<1>1. HeaderR!IsMeasure
  BY LenProperties DEF HeaderR!IsMeasure, Length, Texts
<1>2. HeaderR!IsRecursive
  <2> SUFFICES ASSUME NEW s \in Texts, NEW g, NEW h,
                      \A t \in Texts : Length(t) < Length(s) => g[t] = h[t]
               PROVE  HeaderLinesWith(g, s) = HeaderLinesWith(h, s)
    BY Zenon DEF HeaderR!IsRecursive
  <2> DEFINE colons == {i \in 1..Len(s) : s[i] = ":"}
             name == Capitalized(SubSeq(s, 1, Min(colons) - 1))
             blank == {i \in (Min(colons) + 1)..Len(s) : s[i] # " "}
             value == Drop(s, Min(blank) - 1)
             ends == {i \in 1..Len(value) : LineEnds(Drop(value, i - 1)) # {}}
             next == Drop(value, Min(ends) - 1)
             line == Entry(name, SubSeq(value, 1, Min(ends) - 1))
             own == {[info |-> <<>>, rest |-> Drop(s, Len(e))] : e \in LineEnds(s)}
             given(f, e) == {[info |-> Over(q.info, line), rest |-> q.rest] : q \in f[Drop(next, Len(e))]}
             lines(f) == UNION {given(f, e) : e \in LineEnds(next)}
  <2>1. \A f : HeaderLinesWith(f, s) =
                 IF LineEnds(s) # {} THEN own
                 ELSE IF colons = {} \/ blank = {} \/ ends = {} THEN {} ELSE lines(f)
    BY DEF HeaderLinesWith
  <2>2. ASSUME colons # {}, blank # {}, ends # {} PROVE lines(g) = lines(h)
    <3>1. Min(colons) \in 1..Len(s) /\ Len(s) \in Nat
      <4>1. colons \subseteq 1..Len(s)
        OBVIOUS
      <4> HIDE DEF colons
      <4> QED BY <2>2, <4>1, From, Nothing
    <3>2. blank \subseteq 1..Len(s)
      <4> DEFINE k == Min(colons)
      <4>1. k \in 1..Len(s) /\ blank \subseteq (k + 1)..Len(s)
        BY <3>1
      <4> HIDE DEF k, blank
      <4> QED BY <3>1, <4>1
    <3> HIDE DEF colons, blank
    <3>3. value \in Texts /\ Len(value) <= Len(s)
      BY <2>2, <3>2, From
    <3>4. ends \subseteq 1..Len(value)
      OBVIOUS
    <3> HIDE DEF value, ends
    <3>5. next \in Texts /\ Len(next) <= Len(value)
      BY <2>2, <3>3, <3>4, From
    <3> HIDE DEF next, line
    <3>6. ASSUME NEW e \in LineEnds(next) PROVE given(g, e) = given(h, e)
      <4> DEFINE t == Drop(next, Len(e))
      <4>1. t \in Texts /\ Len(t) < Len(next)
        BY <3>5, LineEndOf
      <4>2. Len(t) \in Nat /\ Len(next) \in Nat /\ Len(value) \in Nat
        BY <3>3, <3>5, <4>1, Nothing
      <4> HIDE DEF t
      <4>3. Length(t) < Length(s)
        BY <3>1, <3>3, <3>5, <4>1, <4>2 DEF Length
      <4>4. g[t] = h[t]
        BY <4>1, <4>3
      <4> QED BY <4>4 DEF t
    <3> HIDE DEF given
    <3> QED BY <3>6
  <2> HIDE DEF lines, own, ends, blank, colons
  <2> QED BY <2>1, <2>2
<1>3. \E f : f = [s \in Texts |-> HeaderLinesWith(f, s)]
  BY <1>1, <1>2, HeaderR!RecursionDefines
<1>4. HeaderLines = [s \in Texts |-> HeaderLinesWith(HeaderLines, s)]
  BY <1>3, Zenon DEF HeaderLines
<1> QED BY <1>4

(* The names and values of header lines: characters, of which none is a    *)
(* line feed, nor a colon in a name; a value does not begin with a blank.  *)
NameTexts == Seq(STRING \ {":", "\n"})
ValueTexts == {v \in Seq(STRING \ {"\n"}) : v = <<>> \/ v[1] # " "}

(* What such texts are.                                                   *)
LEMMA LineTexts ==
  /\ \A s \in NameTexts : s \in Texts /\ \A i \in 1..Len(s) : s[i] # ":" /\ s[i] # "\n"
  /\ \A s \in ValueTexts : s \in Texts /\ (s = <<>> \/ s[1] # " ") /\ \A i \in 1..Len(s) : s[i] # "\n"
<1>1. ASSUME NEW T, T \subseteq STRING, NEW s \in Seq(T)
      PROVE  s \in Texts /\ \A i \in 1..Len(s) : s[i] \in T
  BY <1>1, SeqMonotonic, LenProperties DEF Texts
<1>2. ASSUME NEW s \in NameTexts
      PROVE  s \in Texts /\ \A i \in 1..Len(s) : s[i] # ":" /\ s[i] # "\n"
  <2> DEFINE T == STRING \ {":", "\n"}
  <2>1. T \subseteq STRING /\ s \in Seq(T) /\ \A c \in T : c # ":" /\ c # "\n"
    BY DEF NameTexts
  <2> HIDE DEF T
  <2> QED BY <1>1, <2>1
<1>3. ASSUME NEW s \in ValueTexts
      PROVE  s \in Texts /\ (s = <<>> \/ s[1] # " ") /\ \A i \in 1..Len(s) : s[i] # "\n"
  <2> DEFINE T == STRING \ {"\n"}
  <2>1. T \subseteq STRING /\ s \in Seq(T) /\ (s = <<>> \/ s[1] # " ") /\ \A c \in T : c # "\n"
    BY DEF ValueTexts
  <2> HIDE DEF T
  <2> QED BY <1>1, <2>1
<1> QED BY <1>2, <1>3

(* Where a line does not end, and where it does.                           *)
LEMMA NoLineEnd ==
  ASSUME NEW s \in Texts, s # <<>>, s[1] # "\n", s[1] # "\r" \/ s[2] # "\n"
  PROVE  LineEnds(s) = {}
<1> SUFFICES ASSUME NEW e \in LineEnds(s) PROVE FALSE
  OBVIOUS
<1>1. s[1] = "\n" \/ (s[1] = "\r" /\ s[2] = "\n")
  BY LineEndOf
<1> QED BY <1>1

(* A line end before a text.                                               *)
LEMMA CrLfFirst ==
  ASSUME NEW w \in Texts
  PROVE  /\ CrLf \in Texts /\ CrLf \o w \in Texts /\ Len(CrLf) = 2 /\ Len(CrLf \o w) = Len(w) + 2
         /\ Len(w) \in Nat /\ CrLf \o w # <<>> /\ (CrLf \o w)[1] = "\r" /\ (CrLf \o w)[2] = "\n"
         /\ LineEnds(CrLf \o w) = {CrLf} /\ Drop(CrLf \o w, 2) = w
<1> DEFINE cr == "\r"
           lf == "\n"
           s == <<cr, lf>> \o w
<1>1. cr \in Chars /\ lf \in Chars
  BY StringsAssumption DEF Marks, Chars
<1>2. /\ <<cr, lf>> \in Texts /\ s \in Texts /\ s # <<>> /\ Len(s) = Len(w) + 2 /\ Len(w) \in Nat
      /\ s[1] = cr /\ s[2] = lf /\ Drop(s, 2) = w
      /\ \A c, d : IsPrefix(<<c, d>>, s) <=> c = cr /\ d = lf
  <2> HIDE DEF cr, lf
  <2> QED BY <1>1, PairFirst
<1>3. CrLf = <<cr, lf>> /\ Len(CrLf) = 2 /\ cr # lf
  BY DEF CrLf
<1> HIDE DEF s
<1>4. IsPrefix(CrLf, s)
  BY <1>2, <1>3
<1>5. ~IsPrefix(<<lf>>, s)
  BY <1>2, <1>3, PrefixOne
<1>6. LineEnds(s) = {CrLf}
  BY <1>4, <1>5 DEF LineEnds
<1> QED BY <1>2, <1>3, <1>6 DEF s

(* Where the parts of a line are in a text that starts with it.            *)
HasParts(s, name, v) ==
  /\ s \in Texts /\ s # <<>> /\ LineEnds(s) = {}
  /\ Len(name) \in Nat /\ Len(s) = Len(name) + 2 + Len(v) /\ Len(v) \in Nat /\ Len(v) >= 1
  /\ \A i \in 1..Len(name) : s[i] # ":"
  /\ s[Len(name) + 1] = ":" /\ s[Len(name) + 2] = " " /\ s[Len(name) + 3] # " "
  /\ SubSeq(s, 1, Len(name)) = name /\ Drop(s, Len(name) + 2) = v

(* A line has its parts at these places.                                   *)
LEMMA HeaderParts ==
  ASSUME NEW name \in NameTexts, NEW value \in ValueTexts, NEW w \in Texts
  PROVE  /\ HeaderLine(name, value) \in Texts
         /\ HasParts(HeaderLine(name, value) \o w, name, value \o (CrLf \o w))
<1> DEFINE col == ":"
           bl == " "
           sep == <<col, bl>>
           u == CrLf \o w
           v == value \o u
           b == sep \o v
           h == (name \o sep) \o value
           s == (h \o CrLf) \o w
<1>1. /\ name \in Texts /\ value \in Texts /\ (value = <<>> \/ value[1] # " ")
      /\ \A i \in 1..Len(name) : name[i] # ":" /\ name[i] # "\n"
  BY LineTexts
<1>2. col \in Chars /\ bl \in Chars
  BY StringsAssumption DEF Marks, Chars
<1>3. /\ CrLf \in Texts /\ u \in Texts /\ Len(u) = Len(w) + 2 /\ Len(w) \in Nat /\ u[1] = "\r"
  BY CrLfFirst
<1>4. /\ v \in Texts /\ Len(v) = Len(value) + Len(u) /\ Len(value) \in Nat /\ Len(u) \in Nat
      /\ \A i \in 1..Len(value) : v[i] = value[i]
      /\ \A i \in 1..Len(u) : v[Len(value) + i] = u[i]
  <2> HIDE DEF u
  <2> QED BY <1>1, <1>3, Concat
<1>5. Len(v) \in Nat /\ Len(v) >= 1
  <2> DEFINE lv == Len(v)
             lu == Len(u)
             lw == Len(w)
             lx == Len(value)
  <2>1. lv = lx + lu /\ lu = lw + 2 /\ lx \in Nat /\ lw \in Nat
    BY <1>3, <1>4
  <2> HIDE DEF lv, lu, lw, lx
  <2>2. lv \in Nat /\ lv >= 1
    BY <2>1
  <2> QED BY <2>2 DEF lv
<1>20. v[1] # " "
  <2> DEFINE n == Len(value)
  <2>1. n \in Nat
    BY <1>4
  <2>2. CASE value = <<>>
    <3>1. n = 0
      BY <2>2, <1>1, Nothing
    <3>2. 1 \in 1..Len(u)
      <4> DEFINE lu == Len(u)
                 lw == Len(w)
      <4>1. lu = lw + 2 /\ lw \in Nat
        BY <1>3
      <4> HIDE DEF lu, lw
      <4>2. 1 \in 1..lu
        BY <4>1
      <4> QED BY <4>2 DEF lu
    <3>3. v[n + 1] = u[1]
      <4> HIDE DEF n, v, u
      <4> QED BY <1>4, <3>2 DEF n
    <3> HIDE DEF n, v, u
    <3>4. v[1] = u[1]
      BY <3>1, <3>3
    <3> QED BY <3>4, <1>3
  <2>3. CASE value # <<>>
    <3>1. n # 0
      BY <2>3, <1>1, Nothing
    <3> HIDE DEF v, u
    <3>2. 1 \in 1..Len(value)
      BY <2>1, <3>1 DEF n
    <3>3. v[1] = value[1]
      BY <1>4, <3>2
    <3> QED BY <3>3, <1>1, <2>3
  <2> QED BY <2>2, <2>3
<1> HIDE DEF u
<1>6. /\ sep \in Texts /\ b \in Texts /\ Len(b) = Len(v) + 2 /\ b[1] = col /\ b[2] = bl /\ Drop(b, 2) = v
  <2> HIDE DEF v, col, bl
  <2> QED BY <1>2, <1>4, PairFirst
<1>7. b[3] = v[1] /\ Len(sep) = 2
  <2>1. Len(sep) = 2
    BY DEF sep
  <2> HIDE DEF sep, v
  <2>2. \A i \in 1..Len(v) : b[Len(sep) + i] = v[i]
    BY <1>4, <1>6, Concat
  <2> DEFINE lv == Len(v)
  <2>3. lv \in Nat /\ lv >= 1
    BY <1>5
  <2> HIDE DEF lv
  <2>4. 1 \in 1..lv /\ 2 + 1 = 3
    BY <2>3
  <2> HIDE DEF b
  <2>5. b[2 + 1] = v[1]
    BY <2>1, <2>2, <2>4 DEF lv
  <2> QED BY <2>1, <2>4, <2>5
<1>8. Same(s, name \o b) /\ h \o CrLf \in Texts /\ name \o sep \in Texts
  <2> HIDE DEF sep, col, bl
  <2>1. Same(s, name \o (sep \o (value \o (CrLf \o w))))
    BY <1>1, <1>3, <1>6, Four
  <2>2. name \o sep \in Texts /\ h \in Texts
    BY <1>1, <1>6, Concat
  <2>3. h \o CrLf \in Texts
    <3> HIDE DEF h
    <3> QED BY <2>2, <1>3, Concat
  <2> QED BY <2>1, <2>2, <2>3 DEF u, Same
<1>9. s = name \o b
  BY <1>8 DEF Same
<1> DEFINE n == Len(name)
<1>10. /\ s \in Texts /\ Len(s) = n + Len(b) /\ n \in Nat
       /\ \A i \in 1..n : s[i] = name[i]
       /\ \A i \in 1..Len(b) : s[n + i] = b[i]
       /\ SubSeq(s, 1, n) = name /\ Drop(s, n) = b
  <2> HIDE DEF b, s
  <2>1. b \in Texts /\ name \in Texts
    BY <1>1, <1>6
  <2> QED BY <2>1, <1>9, Concat
<1>11. s = (name \o sep) \o v
  <2>1. IsAssociative(name, sep, v)
    <3> HIDE DEF sep, v
    <3> QED BY <1>1, <1>4, <1>6, Associative
  <2> HIDE DEF s
  <2> QED BY <1>9, <2>1 DEF IsAssociative
<1>12. Drop(s, n + 2) = v
  <2> HIDE DEF sep, v, s
  <2>1. Len(name \o sep) = n + 2
    <3>1. name \in Texts /\ sep \in Texts /\ Len(sep) = 2
      BY <1>1, <1>6, <1>7
    <3>2. Len(name \o sep) = n + Len(sep)
      BY <3>1, Concat
    <3> QED BY <3>1, <3>2
  <2>2. Drop((name \o sep) \o v, Len(name \o sep)) = v
    <3> DEFINE q == name \o sep
    <3>1. q \in Texts
      BY <1>8
    <3> HIDE DEF q
    <3>2. Drop(q \o v, Len(q)) = v
      BY <1>4, <3>1, Concat
    <3> QED BY <3>2 DEF q
  <2> QED BY <1>11, <2>1, <2>2
<1>13. HeaderLine(name, value) \o w = s /\ HeaderLine(name, value) \in Texts
  BY <1>8 DEF HeaderLine
<1> HIDE DEF s, b, v, sep
<1>14. s[n + 1] = ":" /\ s[n + 2] = " " /\ s[n + 3] # " " /\ Len(s) = n + 2 + Len(v)
  <2> DEFINE lb == Len(b)
             lv == Len(v)
             ls == Len(s)
  <2>0. lb = lv + 2 /\ lv \in Nat /\ lv >= 1 /\ ls = n + lb /\ n \in Nat
    BY <1>5, <1>6, <1>10
  <2> HIDE DEF lb, lv, ls, n
  <2>1. 1 \in 1..lb /\ 2 \in 1..lb /\ 3 \in 1..lb
    BY <2>0
  <2>2. s[n + 1] = b[1] /\ s[n + 2] = b[2] /\ s[n + 3] = b[3]
    BY <1>10, <2>1 DEF lb, n
  <2>3. ls = n + 2 + lv
    BY <2>0
  <2> QED BY <2>2, <2>3, <1>6, <1>7, <1>20 DEF ls, lv
<1>15. s # <<>>
  <2> DEFINE ls == Len(s)
             lv == Len(v)
  <2>0. ls = n + 2 + lv /\ n \in Nat /\ lv \in Nat
    BY <1>14, <1>10, <1>5
  <2> HIDE DEF ls, lv, n
  <2>2. ls # 0
    BY <2>0
  <2>1. Len(s) # 0
    BY <2>2 DEF ls
  <2> QED BY <2>1, <1>10, Nothing
<1>16. \A i \in 1..(n + 2) : s[i] # "\n"
  <2> SUFFICES ASSUME NEW i \in 1..(n + 2) PROVE s[i] # "\n"
    OBVIOUS
  <2>1. CASE i \in 1..n
    BY <2>1, <1>1, <1>10
  <2>2. CASE i \notin 1..n
    <3>1. i = n + 1 \/ i = n + 2
      BY <2>2, <1>10
    <3> HIDE DEF n
    <3> QED BY <3>1, <1>14
  <2> QED BY <2>1, <2>2
<1>17. LineEnds(s) = {}
  <2>1. 1 \in 1..(n + 2) /\ 2 \in 1..(n + 2)
    BY <1>10
  <2>2. s[1] # "\n" /\ s[2] # "\n"
    BY <1>16, <2>1
  <2> QED BY <1>10, <1>15, <2>2, NoLineEnd
<1>18. \A i \in 1..n : s[i] # ":"
  BY <1>1, <1>10
<1> HIDE DEF n
<1>19. /\ HeaderLine(name, value) \in Texts /\ s \in Texts /\ s # <<>> /\ LineEnds(s) = {}
       /\ n \in Nat /\ Len(s) = n + 2 + Len(v) /\ Len(v) \in Nat /\ Len(v) >= 1
       /\ (\A i \in 1..n : s[i] # ":")
       /\ s[n + 1] = ":" /\ s[n + 2] = " " /\ s[n + 3] # " "
       /\ SubSeq(s, 1, n) = name /\ Drop(s, n + 2) = v
  BY <1>5, <1>10, <1>12, <1>13, <1>14, <1>15, <1>17, <1>18
<1>21. HasParts(s, name, v)
  BY <1>19 DEF HasParts, n
<1> QED BY <1>13, <1>21 DEF v, u

(* parseHeaderLine reads a line as the entry it was written from.          *)
LEMMA HeaderLineRead ==
  ASSUME NEW name \in NameTexts, NEW value \in ValueTexts, NEW w \in Texts
  PROVE  HeaderLines[HeaderLine(name, value) \o w] =
           {[info |-> Over(q.info, Entry(Capitalized(name), value)), rest |-> q.rest] : q \in HeaderLines[w]}
<1> DEFINE s == HeaderLine(name, value) \o w
           x == CrLf \o w
           v == value \o x
           n == Len(name)
           colons == {i \in 1..Len(s) : s[i] = ":"}
           blank == {i \in (Min(colons) + 1)..Len(s) : s[i] # " "}
           ends == {i \in 1..Len(v) : LineEnds(Drop(v, i - 1)) # {}}
<1>1. /\ s \in Texts /\ s # <<>> /\ LineEnds(s) = {}
      /\ n \in Nat /\ Len(s) = n + 2 + Len(v) /\ Len(v) \in Nat
      /\ (\A i \in 1..n : s[i] # ":")
      /\ s[n + 1] = ":" /\ s[n + 2] = " " /\ s[n + 3] # " " /\ Len(v) >= 1
      /\ SubSeq(s, 1, n) = name /\ Drop(s, n + 2) = v
  <2>1. HasParts(s, name, v)
    BY HeaderParts
  <2> HIDE DEF s, v
  <2> QED BY <2>1 DEF HasParts
<1>2. /\ x \in Texts /\ x # <<>> /\ LineEnds(x) = {CrLf} /\ Drop(x, 2) = w /\ Len(CrLf) = 2
      /\ x[1] = "\r" /\ Len(x) \in Nat /\ Len(x) = Len(w) + 2 /\ Len(w) \in Nat
  BY CrLfFirst
<1>3. value \in Texts /\ \A i \in 1..Len(value) : value[i] # "\n"
  BY LineTexts
<1> HIDE DEF x
<1>4. /\ v \in Texts /\ Len(v) = Len(value) + Len(x) /\ Len(value) \in Nat
      /\ \A i \in 1..Len(value) : v[i] = value[i]
      /\ \A i \in 1..Len(x) : v[Len(value) + i] = x[i]
      /\ SubSeq(v, 1, Len(value)) = value /\ Drop(v, Len(value)) = x
  BY <1>2, <1>3, Concat
<1> HIDE DEF s, v
<1>5. colons # {} /\ Min(colons) = n + 1
  <2> DEFINE ls == Len(s)
             lv == Len(v)
  <2>1. ls = n + 2 + lv /\ n \in Nat /\ lv \in Nat
    BY <1>1
  <2> HIDE DEF ls, lv, n
  <2>2. n + 1 \in 1..ls /\ 1..ls \subseteq Nat
    BY <2>1
  <2>3. n + 1 \in colons /\ colons \subseteq Nat
    BY <1>1, <2>2 DEF n, ls
  <2>4. ASSUME NEW i \in colons PROVE n + 1 <= i
    <3>1. i \in 1..ls /\ i \notin 1..n
      BY <1>1 DEF n, ls
    <3> QED BY <3>1, <2>1
  <2> HIDE DEF colons
  <2>5. Min(colons) = n + 1
    BY <2>3, <2>4, LeastIs
  <2> QED BY <2>3, <2>5
<1> HIDE DEF colons
<1>6. blank # {} /\ Min(blank) = n + 3
  <2> DEFINE ls == Len(s)
             lv == Len(v)
  <2>1. ls = n + 2 + lv /\ n \in Nat /\ lv \in Nat /\ lv >= 1
    BY <1>1
  <2>0. blank = {i \in ((n + 1) + 1)..ls : s[i] # " "}
    BY <1>5
  <2> HIDE DEF ls, lv, n, blank
  <2>2. n + 3 \in ((n + 1) + 1)..ls /\ ((n + 1) + 1)..ls \subseteq Nat
    BY <2>1
  <2>3. n + 3 \in blank /\ blank \subseteq Nat
    <3>1. s[n + 3] # " "
      BY <1>1 DEF n
    <3> QED BY <2>0, <2>2, <3>1
  <2>4. ASSUME NEW i \in blank PROVE n + 3 <= i
    <3>1. i \in ((n + 1) + 1)..ls /\ s[i] # " " /\ s[n + 2] = " "
      BY <1>1, <2>0 DEF n
    <3>2. i # n + 2 /\ i \in ((n + 1) + 1)..ls
      BY <3>1
    <3> QED BY <2>1, <3>2
  <2>5. Min(blank) = n + 3
    BY <2>3, <2>4, LeastIs
  <2> QED BY <2>3, <2>5
<1> HIDE DEF blank
<1>7. (Min(blank) - 1 = n + 2) /\ (Min(colons) - 1 = n)
  <2> HIDE DEF n
  <2>1. n \in Nat
    BY <1>1 DEF n
  <2> QED BY <1>5, <1>6, <2>1
<1> DEFINE k == Len(value)
<1>8. ends # {} /\ Min(ends) = k + 1
  <2> DEFINE lx == Len(x)
             lv == Len(v)
             lw == Len(w)
  <2>1. lv = k + lx /\ lx = lw + 2 /\ k \in Nat /\ lw \in Nat
    BY <1>2, <1>4
  <2> HIDE DEF lx, lv, lw, k
  <2>2. k + 1 \in 1..lv /\ (k + 1) - 1 = k /\ lv \in Nat
    BY <2>1
  <2>3. k + 1 \in ends /\ ends \subseteq 1..lv
    <3>1. Drop(v, (k + 1) - 1) = x
      BY <1>4, <2>2 DEF k
    <3>2. LineEnds(Drop(v, (k + 1) - 1)) # {}
      BY <3>1, <1>2
    <3> QED BY <2>2, <3>2 DEF lv
  <2>4. ASSUME NEW i \in ends PROVE k + 1 <= i
    <3> SUFFICES ASSUME i \in 1..k PROVE FALSE
      <4> HIDE DEF ends
      <4> QED BY <2>1, <2>2, <2>3
    <3> DEFINE j == i - 1
               d == Drop(v, j)
    <3>1. j \in 0..lv /\ i \in 1..lv /\ lv - j >= 2 /\ j + 1 = i /\ j + 2 = i + 1 /\ j \in Nat
      BY <2>1, <2>2
    <3> HIDE DEF j
    <3>2. d \in Texts /\ Len(d) = lv - j
      BY <1>4, <3>1, TakeDrop DEF lv
    <3>3. d[1] = v[j + 1] /\ d[2] = v[j + 2] /\ d # <<>>
      <4> DEFINE a == SubSeq(v, 1, j)
      <4>1. a \in Texts /\ Len(a) = j /\ a \o d = v
        BY <1>4, <3>1, TakeDrop DEF lv
      <4> HIDE DEF a, d
      <4>2. \A m \in 1..Len(d) : (a \o d)[Len(a) + m] = d[m]
        BY <3>2, <4>1, Concat
      <4> DEFINE ld == Len(d)
      <4>3. ld = lv - j
        BY <3>2
      <4> HIDE DEF ld
      <4>4. 1 \in 1..ld /\ 2 \in 1..ld /\ ld # 0
        BY <3>1, <2>2, <4>3
      <4>5. (a \o d)[Len(a) + 1] = d[1] /\ (a \o d)[Len(a) + 2] = d[2]
        BY <4>2, <4>4 DEF ld
      <4>6. d # <<>>
        BY <3>2, <4>4, Nothing DEF ld
      <4> QED BY <4>1, <4>5, <4>6
    <3> HIDE DEF d
    <3>4. v[i] # "\n" /\ v[i + 1] # "\n"
      <4>1. v[i] # "\n"
        BY <1>3, <1>4 DEF k
      <4>2. CASE i = k
        <5>1. 1 \in 1..lx
          BY <2>1
        <5>2. v[k + 1] = x[1]
          BY <1>4, <5>1 DEF k, lx
        <5> QED BY <4>1, <4>2, <5>2, <1>2
      <4>3. CASE i # k
        <5>1. i + 1 \in 1..k
          BY <4>3, <2>1
        <5>2. v[i + 1] = value[i + 1] /\ value[i + 1] # "\n"
          BY <1>3, <1>4, <5>1 DEF k
        <5> QED BY <4>1, <5>2
      <4> QED BY <4>2, <4>3
    <3>5. LineEnds(d) = {}
      BY <3>1, <3>2, <3>3, <3>4, NoLineEnd
    <3> QED BY <3>5 DEF d, j
  <2> HIDE DEF ends
  <2>5. ends \subseteq Nat
    BY <2>2, <2>3
  <2>6. Min(ends) = k + 1
    BY <2>3, <2>4, <2>5, LeastIs
  <2> QED BY <2>3, <2>6
<1>9. Min(ends) - 1 = k
  <2> HIDE DEF k, ends
  <2>1. k \in Nat
    BY <1>4 DEF k
  <2> QED BY <2>1, <1>8
<1> HIDE DEF ends
<1> DEFINE given(y, line) == {[info |-> Over(q.info, line), rest |-> q.rest] : q \in HeaderLines[y]}
<1> DEFINE own == {[info |-> <<>>, rest |-> Drop(s, Len(e))] : e \in LineEnds(s)}
           named == Capitalized(SubSeq(s, 1, Min(colons) - 1))
           lines(n1, l1) == UNION {given(Drop(n1, Len(e)), l1) : e \in LineEnds(n1)}
           more(v1, e1) == lines(Drop(v1, Min(e1) - 1), Entry(named, SubSeq(v1, 1, Min(e1) - 1)))
           found(v1) == {i \in 1..Len(v1) : LineEnds(Drop(v1, i - 1)) # {}}
           read(v1) == IF LineEnds(s) # {} THEN own
                       ELSE IF colons = {} \/ blank = {} \/ found(v1) = {} THEN {} ELSE more(v1, found(v1))
<1>10. HeaderLinesWith(HeaderLines, s) = read(Drop(s, Min(blank) - 1))
  BY DEF HeaderLinesWith, colons, blank
<1>15. found(v) = ends
  BY DEF ends
<1> HIDE DEF given, own, lines, found
<1>11. HeaderLinesWith(HeaderLines, s) = more(v, ends)
  <2>1. read(v) = more(v, ends)
    <3> HIDE DEF more
    <3> QED BY <1>1, <1>5, <1>6, <1>8, <1>15
  <2>2. Drop(s, Min(blank) - 1) = v
    BY <1>1, <1>7
  <2> HIDE DEF read, more
  <2> QED BY <1>10, <2>1, <2>2
<1> DEFINE line == Entry(Capitalized(name), value)
<1>12. HeaderLinesWith(HeaderLines, s) = lines(x, line)
  <2>1. Drop(v, Min(ends) - 1) = x /\ SubSeq(v, 1, Min(ends) - 1) = value
    BY <1>4, <1>9
  <2>2. SubSeq(s, 1, Min(colons) - 1) = name
    BY <1>1, <1>7
  <2> QED BY <1>11, <2>1, <2>2
<1> HIDE DEF line
<1>13. lines(x, line) = given(w, line)
  <2> DEFINE f(e) == given(Drop(x, Len(e)), line)
  <2>1. f(CrLf) = given(w, line)
    BY <1>2
  <2> HIDE DEF f
  <2>2. UNION {f(e) : e \in LineEnds(x)} = f(CrLf)
    BY <1>2
  <2> QED BY <2>1, <2>2 DEF f, lines
<1>14. HeaderLines[s] = HeaderLinesWith(HeaderLines, s)
  BY <1>1, HeaderLinesDefined
<1> QED BY <1>12, <1>13, <1>14 DEF given, line, s

(* An empty line ends the header.                                          *)
LEMMA EmptyLineRead ==
  ASSUME NEW y \in Texts
  PROVE  HeaderLines[CrLf \o y] = {[info |-> <<>>, rest |-> y]}
<1> DEFINE s == CrLf \o y
           own(S) == {[info |-> <<>>, rest |-> Drop(s, Len(e))] : e \in S}
<1>1. s \in Texts /\ LineEnds(s) = {CrLf} /\ Drop(s, 2) = y /\ Len(CrLf) = 2
  BY CrLfFirst
<1> HIDE DEF s
<1>2. HeaderLines[s] = HeaderLinesWith(HeaderLines, s)
  BY <1>1, HeaderLinesDefined
<1>3. HeaderLinesWith(HeaderLines, s) = own(LineEnds(s))
  BY <1>1 DEF HeaderLinesWith
<1>4. own({CrLf}) = {[info |-> <<>>, rest |-> y]}
  BY <1>1
<1> HIDE DEF own
<1>5. HeaderLines[s] = {[info |-> <<>>, rest |-> y]}
  BY <1>1, <1>2, <1>3, <1>4
<1> QED BY <1>5 DEF s

-----------------------------------------------------------------------------
(* Dictionaries, and the lines that are read as one.                       *)

(* Of three dictionaries, it does not matter which two are put together    *)
(* first.                                                                  *)
LEMMA OverOver ==
  ASSUME NEW f, NEW g, NEW h
  PROVE  Over(Over(f, g), h) = Over(f, Over(g, h))
  BY DEF Over

(* What there is in two dictionaries of which one is put over the other.   *)
LEMMA OverIs ==
  ASSUME NEW f, NEW g
  PROVE  /\ DOMAIN Over(f, g) = DOMAIN f \cup DOMAIN g
         /\ \A k \in DOMAIN f : Over(f, g)[k] = f[k]
         /\ \A k \in DOMAIN g : k \notin DOMAIN f => Over(f, g)[k] = g[k]
  BY DEF Over

(* What there is in one of an entry.                                       *)
LEMMA EntryIs ==
  ASSUME NEW key, NEW val
  PROVE  DOMAIN Entry(key, val) = {key} /\ Entry(key, val)[key] = val
  BY DEF Entry

(* A dictionary stays what it is if nothing is put under it.               *)
IsDict(f) == f = [k \in DOMAIN f |-> f[k]]

(* An empty one has no entries to add.                                     *)
LEMMA NoEntries == IsDict(<<>>) /\ \A f : IsDict(f) => Over(f, <<>>) = f
<1>1. DOMAIN <<>> = {} /\ <<>> = [k \in {} |-> k]
  OBVIOUS
<1>2. IsDict(<<>>)
  BY <1>1 DEF IsDict
<1>3. ASSUME NEW f, IsDict(f) PROVE Over(f, <<>>) = f
  <2>1. Over(f, <<>>) = [k \in DOMAIN f |-> f[k]]
    BY <1>1 DEF Over
  <2> QED BY <1>3, <2>1 DEF IsDict
<1> QED BY <1>2, <1>3

(* Two dictionaries put together are a dictionary.                         *)
LEMMA OverDict == \A f, g : IsDict(Over(f, g))
  BY DEF IsDict, Over

(* Lines that put such a dictionary under what is read behind them.        *)
LinesRead(text, dict) ==
  /\ text \in Texts
  /\ \A w \in Texts : \A f, y :
       IsDict(f) /\ HeaderLines[w] = {[info |-> f, rest |-> y]} =>
         HeaderLines[text \o w] = {[info |-> Over(f, dict), rest |-> y]}

(* A line is such lines.                                                   *)
LEMMA OneLineRead ==
  ASSUME NEW name \in NameTexts, NEW value \in ValueTexts
  PROVE  LinesRead(HeaderLine(name, value), Entry(Capitalized(name), value))
<1> DEFINE l == HeaderLine(name, value)
           e == Entry(Capitalized(name), value)
           read(S) == {[info |-> Over(q.info, e), rest |-> q.rest] : q \in S}
<1>1. l \in Texts
  <2>1. <<>> \in Texts
    BY Nothing DEF Texts
  <2> QED BY <2>1, HeaderParts
<1>2. ASSUME NEW w \in Texts, NEW f, NEW y, IsDict(f), HeaderLines[w] = {[info |-> f, rest |-> y]}
      PROVE  HeaderLines[l \o w] = {[info |-> Over(f, e), rest |-> y]}
  <2>1. HeaderLines[l \o w] = read(HeaderLines[w])
    BY HeaderLineRead
  <2>2. read({[info |-> f, rest |-> y]}) = {[info |-> Over(f, e), rest |-> y]}
    <3> HIDE DEF e
    <3> QED OBVIOUS
  <2> HIDE DEF read
  <2> QED BY <1>2, <2>1, <2>2
<1> HIDE DEF l, e
<1>3. LinesRead(l, e)
  BY <1>1, <1>2 DEF LinesRead
<1> QED BY <1>3 DEF l, e

(* And so are lines behind others.                                         *)
LEMMA MoreLinesRead ==
  ASSUME NEW s, NEW f, LinesRead(s, f), NEW t, NEW g, LinesRead(t, g)
  PROVE  LinesRead(s \o t, Over(g, f))
<1>1. s \in Texts /\ t \in Texts /\ s \o t \in Texts
  BY Concat DEF LinesRead
<1>2. ASSUME NEW w \in Texts, NEW h, NEW y, IsDict(h), HeaderLines[w] = {[info |-> h, rest |-> y]}
      PROVE  HeaderLines[(s \o t) \o w] = {[info |-> Over(h, Over(g, f)), rest |-> y]}
  <2>1. HeaderLines[t \o w] = {[info |-> Over(h, g), rest |-> y]} /\ t \o w \in Texts
    BY <1>1, <1>2, Concat DEF LinesRead
  <2>2. HeaderLines[s \o (t \o w)] = {[info |-> Over(Over(h, g), f), rest |-> y]}
    BY <2>1, OverDict DEF LinesRead
  <2>3. (s \o t) \o w = s \o (t \o w)
    <3>1. IsAssociative(s, t, w)
      BY <1>1, Associative
    <3> QED BY <3>1 DEF IsAssociative
  <2> QED BY <2>2, <2>3, OverOver
<1> QED BY <1>1, <1>2 DEF LinesRead

(* No lines are lines too.                                                 *)
LEMMA NoLinesRead == LinesRead(<<>>, <<>>)
<1>1. <<>> \in Texts
  BY EmptySeq DEF Texts
<1>2. ASSUME NEW w \in Texts, NEW f, NEW y, IsDict(f), HeaderLines[w] = {[info |-> f, rest |-> y]}
      PROVE  HeaderLines[<<>> \o w] = {[info |-> Over(f, <<>>), rest |-> y]}
  <2>1. Over(f, <<>>) = f /\ <<>> \o w = w
    BY <1>2, NoEntries, Nothing
  <2> QED BY <1>2, <2>1
<1> QED BY <1>1, <1>2 DEF LinesRead

(* What is read of the lines of a dictionary, for some of its names.       *)
Says(dict, info, S) ==
  /\ DOMAIN dict = {Capitalized(n) : n \in S}
  /\ \A n \in S : dict[Capitalized(n)] = info[n]

(* A dictionary that can be sent: a finite one, of names that are          *)
(* different when capitalised.                                             *)
IsInfo(info) ==
  /\ IsFiniteSet(DOMAIN info) /\ DOMAIN info \subseteq NameTexts
  /\ \A n \in DOMAIN info : info[n] \in ValueTexts
  /\ \A m, n \in DOMAIN info : Capitalized(m) = Capitalized(n) => m = n

(* Its lines are read again.                                               *)
LEMMA InfoRead ==
  ASSUME NEW info, IsInfo(info)
  PROVE  \E dict : LinesRead(InfoLines(info), dict) /\ Says(dict, info, DOMAIN info)
<1> DEFINE D == DOMAIN info
           g == [n \in D |-> HeaderLine(n, info[n])]
           Good(L) == \E dict : LinesRead(Joined[Mapped(g, L)], dict) /\ Says(dict, info, ToSet(L))
           S == {L \in Seq(D) : Good(L)}
<1>1. \A n \in D : LinesRead(g[n], Entry(Capitalized(n), info[n])) /\ g[n] \in Texts
  BY OneLineRead DEF IsInfo, LinesRead
<1>2. g \in [D -> Texts]
  BY <1>1
<1>3. <<>> \in S
  <2>1. Joined[Mapped(g, <<>>)] = <<>>
    <3> HIDE DEF g
    <3> QED BY JoinedNone
  <2>2. ToSet(<<>>) = {} /\ DOMAIN <<>> = {}
    BY DEF ToSet
  <2>3. Says(<<>>, info, ToSet(<<>>))
    BY <2>2 DEF Says
  <2>4. <<>> \in Seq(D)
    BY EmptySeq
  <2> QED BY <2>1, <2>3, <2>4, NoLinesRead
<1>4. ASSUME NEW L \in Seq(D), NEW e \in D, L \in S
      PROVE  <<e>> \o L \in S
  <2> DEFINE J == Joined[Mapped(g, L)]
             M == <<e>> \o L
             entry == Entry(Capitalized(e), info[e])
  <2>1. PICK dict : LinesRead(J, dict) /\ Says(dict, info, ToSet(L))
    BY <1>4
  <2>2. ToSet(M) = {e} \cup ToSet(L) /\ ToSet(L) \subseteq D /\ M \in Seq(D)
    <3>1. ToSet(M) = {e} \cup ToSet(L)
      BY ApartCons
    <3>2. ToSet(L) \subseteq D
      BY DEF ToSet
    <3>3. M \in Seq(D)
      BY ConsTail
    <3> QED BY <3>1, <3>2, <3>3
  <2>3. Joined[Mapped(g, M)] = g[e] \o J
    <3>1. Same(Joined[Mapped(g, M)], g[e] \o J)
      <4> HIDE DEF g
      <4> QED BY <1>2, JoinedCons
    <3> QED BY <3>1 DEF Same
  <2>4. LinesRead(g[e] \o J, Over(dict, entry))
    <3> HIDE DEF g, J, entry
    <3>1. LinesRead(g[e], entry)
      BY <1>1 DEF entry
    <3> QED BY <2>1, <3>1, MoreLinesRead
  <2>5. Says(Over(dict, entry), info, ToSet(M))
    <3> DEFINE o == Over(dict, entry)
               c == Capitalized(e)
    <3>1. /\ DOMAIN o = DOMAIN dict \cup {c}
          /\ \A k \in DOMAIN dict : o[k] = dict[k]
          /\ c \notin DOMAIN dict => o[c] = info[e]
      <4>1. DOMAIN entry = {c} /\ entry[c] = info[e]
        BY EntryIs
      <4> HIDE DEF entry, c
      <4>2. /\ DOMAIN o = DOMAIN dict \cup DOMAIN entry
            /\ \A k \in DOMAIN dict : o[k] = dict[k]
            /\ \A k \in DOMAIN entry : k \notin DOMAIN dict => o[k] = entry[k]
        BY OverIs
      <4> HIDE DEF o
      <4> QED BY <4>1, <4>2
    <3>2. DOMAIN dict = {Capitalized(n) : n \in ToSet(L)} /\ \A n \in ToSet(L) : dict[Capitalized(n)] = info[n]
      BY <2>1 DEF Says
    <3> HIDE DEF o
    <3>3. DOMAIN o = {Capitalized(n) : n \in ToSet(M)}
      <4> DEFINE cap(n) == Capitalized(n)
      <4> HIDE DEF cap
      <4>1. {cap(n) : n \in {e} \cup ToSet(L)} = {cap(n) : n \in ToSet(L)} \cup {cap(e)}
        OBVIOUS
      <4> QED BY <4>1, <3>1, <3>2, <2>2 DEF cap
    <3>4. ASSUME NEW n \in ToSet(M) PROVE o[Capitalized(n)] = info[n]
      <4>1. CASE n \in ToSet(L)
        BY <4>1, <3>1, <3>2
      <4>2. CASE n = e /\ c \notin DOMAIN dict
        BY <4>2, <3>1
      <4>3. CASE n = e /\ c \in DOMAIN dict
        <5>1. PICK m \in ToSet(L) : Capitalized(m) = c
          BY <4>3, <3>2
        <5>2. m = e
          BY <5>1, <2>2 DEF IsInfo
        <5> QED BY <5>2, <4>3, <3>1, <3>2
      <4> QED BY <4>1, <4>2, <4>3, <2>2
    <3>5. Says(o, info, ToSet(M))
      BY <3>3, <3>4 DEF Says
    <3> QED BY <3>5 DEF o
  <2> HIDE DEF J, g, entry, M
  <2>6. LinesRead(Joined[Mapped(g, M)], Over(dict, entry))
    BY <2>3, <2>4
  <2> QED BY <2>2, <2>5, <2>6 DEF M
<1>5. Seq(D) \subseteq S
  <2> HIDE DEF S
  <2> QED BY <1>3, <1>4, TailInduction
<1> DEFINE names == SetToSeq(D)
<1>6. names \in Seq(D) /\ ToSet(names) = D
  BY Listed DEF IsInfo
<1>7. InfoLines(info) = Joined[Mapped(g, names)]
  <2> HIDE DEF names
  <2>1. [i \in 1..Len(names) |-> HeaderLine(names[i], info[names[i]])] = Mapped(g, names)
    BY <1>6, LenProperties DEF Mapped
  <2> QED BY <2>1 DEF names, InfoLines
<1> HIDE DEF names, g
<1> QED BY <1>5, <1>6, <1>7

-----------------------------------------------------------------------------
(* Headers.                                                                *)

(* What is behind a line that has no other line end in it.                 *)
LEMMA BehindLineIs ==
  ASSUME NEW t \in Texts, \A i \in 1..Len(t) : t[i] # "\n", NEW z \in Texts
  PROVE  BehindLine(t \o (CrLf \o z)) = {z}
<1> DEFINE x == CrLf \o z
           s == t \o x
           n == Len(t)
           ends == {i \in 1..Len(s) : s[i] = "\n"}
<1>1. /\ CrLf \in Texts /\ Len(CrLf) = 2 /\ x \in Texts /\ Len(x) = Len(z) + 2 /\ Len(z) \in Nat
      /\ x[1] = "\r" /\ x[2] = "\n"
  BY CrLfFirst
<1>2. /\ s \in Texts /\ Len(s) = n + Len(x) /\ n \in Nat
      /\ \A i \in 1..n : s[i] = t[i]
      /\ \A i \in 1..Len(x) : s[n + i] = x[i]
  <2> HIDE DEF x
  <2> QED BY <1>1, Concat
<1>3. Drop(s, n + 2) = z
  <2>1. IsAssociative(t, CrLf, z)
    BY <1>1, Associative
  <2>2. s = (t \o CrLf) \o z
    BY <2>1 DEF IsAssociative
  <2> DEFINE p == t \o CrLf
  <2>3. p \in Texts /\ Len(p) = n + 2
    <3>1. p \in Texts /\ Len(p) = n + Len(CrLf)
      BY <1>1, Concat
    <3> QED BY <1>1, <3>1
  <2> HIDE DEF p, s
  <2>4. Drop(p \o z, Len(p)) = z
    BY <2>3, Concat
  <2> QED BY <2>2, <2>3, <2>4 DEF p
<1> DEFINE ls == Len(s)
           lx == Len(x)
           lz == Len(z)
<1>4. ls = n + lx /\ lx = lz + 2 /\ lz \in Nat /\ n \in Nat
  BY <1>1, <1>2
<1> HIDE DEF s, x
<1>5. n + 2 \in ends /\ ends \subseteq Nat
  <2> HIDE DEF ls, lx, lz, n
  <2>1. 2 \in 1..lx /\ n + 2 \in 1..ls /\ 1..ls \subseteq Nat
    BY <1>4
  <2>2. s[n + 2] = "\n"
    BY <1>1, <1>2, <2>1 DEF n, lx
  <2> QED BY <2>1, <2>2 DEF ls
<1>6. ASSUME NEW i \in ends PROVE n + 2 <= i
  <2>1. i \in 1..ls /\ s[i] = "\n"
    OBVIOUS
  <2>2. i \notin 1..n
    BY <1>2, <2>1
  <2>3. i # n + 1
    <3> HIDE DEF ls, lz, n
    <3>1. 1 \in 1..lx
      <4> HIDE DEF lx
      <4> QED BY <1>4
    <3>2. s[n + 1] = x[1]
      BY <1>2, <3>1 DEF n
    <3> QED BY <3>2, <1>1, <2>1
  <2> HIDE DEF ls, lx, lz, n
  <2>4. i \in 1..ls
    BY <2>1
  <2> QED BY <1>4, <2>2, <2>3, <2>4
<1> HIDE DEF ends, n
<1>7. Min(ends) = n + 2
  BY <1>5, <1>6, LeastIs
<1>8. BehindLine(s) = {Drop(s, Min(ends))}
  BY <1>5 DEF BehindLine, ends
<1>9. BehindLine(s) = {z}
  BY <1>3, <1>7, <1>8
<1> QED BY <1>9 DEF s, x

(* A header up to its end, and what is read of it.                         *)
ReadsAs(w, f, y) == w \in Texts /\ IsDict(f) /\ HeaderLines[w] = {[info |-> f, rest |-> y]}

(* An empty line is the end.                                               *)
LEMMA EndReads == ASSUME NEW y \in Texts PROVE ReadsAs(CrLf \o y, <<>>, y)
  BY CrLfFirst, EmptyLineRead, NoEntries DEF ReadsAs

(* Lines before it.                                                        *)
LEMMA LinesReads ==
  ASSUME NEW t, NEW g, LinesRead(t, g), NEW w, NEW f, NEW y, ReadsAs(w, f, y)
  PROVE  ReadsAs(t \o w, Over(f, g), y)
<1>1. t \in Texts /\ w \in Texts /\ t \o w \in Texts
  BY Concat DEF LinesRead, ReadsAs
<1>2. HeaderLines[t \o w] = {[info |-> Over(f, g), rest |-> y]}
  BY DEF LinesRead, ReadsAs
<1> QED BY <1>1, <1>2, OverDict DEF ReadsAs

(* Five in a sequence.                                                     *)
LEMMA Five ==
  ASSUME NEW T, NEW a \in T, NEW b \in T, NEW c \in T, NEW d \in T, NEW e \in T
  PROVE  LET t == <<a, b, c, d, e>>
         IN  /\ t \in Seq(T) /\ Len(t) = 5 /\ t[1] = a /\ t[2] = b /\ t[3] = c /\ t[4] = d /\ t[5] = e
             /\ \A i \in 1..5 : t[i] \in {a, b, c, d, e}
<1> DEFINE t == <<a, b, c, d, e>>
<1>1. Len(t) = 5 /\ t[1] = a /\ t[2] = b /\ t[3] = c /\ t[4] = d /\ t[5] = e
  OBVIOUS
<1>2. t \in Seq(T)
  OBVIOUS
<1> HIDE DEF t
<1>3. \A i \in 1..5 : i = 1 \/ i = 2 \/ i = 3 \/ i = 4 \/ i = 5
  OBVIOUS
<1>4. \A i \in 1..5 : t[i] \in {a, b, c, d, e}
  BY <1>1, <1>3, Zenon
<1> QED BY <1>1, <1>2, <1>4 DEF t

(* The first line of a request and that of a response, in five tokens.     *)
LEMMA FiveFirst ==
  ASSUME NEW a \in Chars, NEW b \in Chars, NEW c \in Chars, NEW d \in Chars, NEW e \in Chars, NEW z \in Texts
  PROVE  LET t == <<a, b, c, d, e>>
             s == t \o (CrLf \o z)
         IN  /\ t \in Texts /\ s \in Texts /\ Len(s) = Len(z) + 7 /\ Len(z) \in Nat
             /\ s[1] = a /\ s[2] = b /\ s[3] = c /\ s[4] = d /\ s[5] = e /\ Drop(s, 7) = z
             /\ "\n" \notin {a, b, c, d, e} => BehindLine(s) = {z}
<1> DEFINE t == <<a, b, c, d, e>>
           x == CrLf \o z
           s == t \o x
<1>1. /\ t \in Texts /\ Len(t) = 5 /\ t[1] = a /\ t[2] = b /\ t[3] = c /\ t[4] = d /\ t[5] = e
      /\ \A i \in 1..5 : t[i] \in {a, b, c, d, e}
  <2>1. <<a, b, c, d, e>> \in Seq(Chars)
    BY Five
  <2>2. t \in Texts
    BY <2>1 DEF Texts, Chars
  <2> QED BY <2>2, Five
<1>2. CrLf \in Texts /\ Len(CrLf) = 2 /\ x \in Texts /\ Len(x) = Len(z) + 2 /\ Len(z) \in Nat
  BY CrLfFirst
<1> HIDE DEF t
<1>3. s \in Texts /\ Len(s) = Len(t) + Len(x) /\ \A i \in 1..Len(t) : s[i] = t[i]
  <2> HIDE DEF x
  <2> QED BY <1>1, <1>2, Concat
<1>4. Drop(s, 7) = z
  <2>1. IsAssociative(t, CrLf, z)
    BY <1>1, <1>2, Associative
  <2>2. s = (t \o CrLf) \o z
    BY <2>1 DEF IsAssociative
  <2> DEFINE p == t \o CrLf
  <2>3. p \in Texts /\ Len(p) = 7
    <3>1. p \in Texts /\ Len(p) = Len(t) + Len(CrLf)
      BY <1>1, <1>2, Concat
    <3> QED BY <1>1, <1>2, <3>1
  <2> HIDE DEF p, s
  <2>4. Drop(p \o z, Len(p)) = z
    BY <2>3, Concat
  <2> QED BY <2>2, <2>3, <2>4 DEF p
<1>5. ASSUME "\n" \notin {a, b, c, d, e} PROVE BehindLine(s) = {z}
  <2>1. \A i \in 1..Len(t) : t[i] # "\n"
    BY <1>1, <1>5
  <2> QED BY <1>1, <2>1, BehindLineIs
<1> HIDE DEF s, x
<1>6. s[1] = a /\ s[2] = b /\ s[3] = c /\ s[4] = d /\ s[5] = e
  <2>1. 1 \in 1..5 /\ 2 \in 1..5 /\ 3 \in 1..5 /\ 4 \in 1..5 /\ 5 \in 1..5
    OBVIOUS
  <2> QED BY <1>1, <1>3, <2>1
<1>7. Len(s) = Len(z) + 7 /\ Len(z) \in Nat
  BY <1>1, <1>2, <1>3
<1> QED BY <1>1, <1>3, <1>4, <1>5, <1>6, <1>7 DEF s, x, t

(* What the first line of a request or of a response says, and parseHeader *)
(* reads; the line behind that of a request is skipped.                    *)
Version == Entry(<<"HTTP Version">>, <<"HTTP/1.1">>)
FirstOf(type) == Over(Version, IF type = "call" THEN Entry(<<"URI">>, <<"/RPC2">>) ELSE <<>>)
StartOf(type) ==
  IF type = "call" THEN <<"POST", " ", "/RPC2", " ", "HTTP/1.1">> ELSE <<"HTTP/1.1", " ", "200", " ", "OK">>

(* parseHeader reads a request's header: the line behind the first one is  *)
(* skipped.                                                                *)
LEMMA RequestLineRead ==
  ASSUME NEW t \in Texts, \A i \in 1..Len(t) : t[i] # "\n", NEW w, NEW f, NEW y, ReadsAs(w, f, y), Solid(y)
  PROVE  ParseHeader("call", StartOf("call") \o (CrLf \o (t \o (CrLf \o w)))) =
           {[info |-> Over(f, FirstOf("call")), rest |-> y]}
<1> DEFINE post == "POST"
           bl == " "
           uri == "/RPC2"
           http == "HTTP/1.1"
           x == CrLf \o w
           z == t \o x
           s == <<post, bl, uri, bl, http>> \o (CrLf \o z)
           first == Over(Entry(<<"HTTP Version">>, <<http>>), Entry(<<"URI">>, <<uri>>))
           headers(S) == UNION {HeaderLines[u] : u \in S}
           parsed(H) == {[info |-> Over(h.info, first), rest |-> Chomp[h.rest]] :
                           h \in {g \in H : Chomp[g.rest] # Outside}}
<1>1. post \in Chars /\ bl \in Chars /\ uri \in Chars /\ http \in Chars
  BY StringsAssumption DEF Marks, Names, Chars
<1>2. w \in Texts /\ x \in Texts /\ HeaderLines[w] = {[info |-> f, rest |-> y]}
  BY CrLfFirst DEF ReadsAs
<1>3. z \in Texts /\ BehindLine(z) = {w}
  <2>1. z \in Texts
    <3> HIDE DEF x
    <3> QED BY <1>2, Concat
  <2> QED BY <1>2, <2>1, BehindLineIs
<1> HIDE DEF z, x
<1>4. /\ s \in Texts /\ Len(s) = Len(z) + 7 /\ Len(z) \in Nat
      /\ s[1] = post /\ s[2] = bl /\ s[3] = uri /\ s[4] = bl /\ s[5] = http /\ Drop(s, 7) = z
  <2> HIDE DEF post, bl, uri, http
  <2> QED BY <1>1, <1>3, FiveFirst
<1>5. Len(s) > 5
  <2> DEFINE lz == Len(z)
             ls == Len(s)
  <2>1. ls = lz + 7 /\ lz \in Nat
    BY <1>4
  <2> HIDE DEF lz, ls
  <2>2. ls > 5
    BY <2>1
  <2> QED BY <2>2 DEF ls
<1> HIDE DEF s
<1>6. ParseHeader("call", s) = parsed(headers(BehindLine(Drop(s, 7))))
  <2>1. s[5] \in Versions /\ <<s[5]>> = <<http>> /\ <<s[3]>> = <<uri>>
    BY <1>4 DEF Versions
  <2>2. s[1] = "POST" /\ s[2] = " " /\ s[4] = " "
    BY <1>4
  <2> HIDE DEF http, uri
  <2> QED BY <1>5, <2>1, <2>2 DEF ParseHeader
<1>7. headers({w}) = {[info |-> f, rest |-> y]}
  BY <1>2
<1>8. parsed({[info |-> f, rest |-> y]}) = {[info |-> Over(f, first), rest |-> y]}
  <2> DEFINE r == [info |-> f, rest |-> y]
             p(h) == [info |-> Over(h.info, first), rest |-> Chomp[h.rest]]
             ends(h) == Chomp[h.rest] # Outside
  <2>1. Chomp[y] = y /\ y # Outside
    BY DEF Solid
  <2>2. p(r) = [info |-> Over(f, first), rest |-> y] /\ ends(r)
    <3> HIDE DEF first
    <3> QED BY <2>1
  <2>3. parsed({r}) = {p(h) : h \in {g \in {r} : ends(g)}}
    OBVIOUS
  <2> HIDE DEF r, p, ends, parsed
  <2>4. {p(h) : h \in {g \in {r} : ends(g)}} = {p(r)}
    BY <2>2
  <2>5. parsed({r}) = {[info |-> Over(f, first), rest |-> y]}
    BY <2>2, <2>3, <2>4
  <2> QED BY <2>5 DEF r
<1> HIDE DEF headers, parsed
<1>9. ParseHeader("call", s) = {[info |-> Over(f, first), rest |-> y]}
  BY <1>3, <1>4, <1>6, <1>7, <1>8
<1>10. first = FirstOf("call")
  BY DEF FirstOf, Version
<1> HIDE DEF first
<1> QED BY <1>9, <1>10 DEF s, z, x, StartOf

(* And a response's.                                                       *)
LEMMA StatusRead ==
  ASSUME NEW type, type # "call", NEW w, NEW f, NEW y, ReadsAs(w, f, y), Solid(y)
  PROVE  ParseHeader(type, StartOf(type) \o (CrLf \o w)) = {[info |-> Over(f, FirstOf(type)), rest |-> y]}
<1> DEFINE http == "HTTP/1.1"
           bl == " "
           code == "200"
           ok == "OK"
           s == <<http, bl, code, bl, ok>> \o (CrLf \o w)
           first == Over(Entry(<<"HTTP Version">>, <<http>>), <<>>)
           headers(S) == UNION {HeaderLines[u] : u \in S}
           parsed(H) == {[info |-> Over(h.info, first), rest |-> Chomp[h.rest]] :
                           h \in {g \in H : Chomp[g.rest] # Outside}}
<1>1. http \in Chars /\ bl \in Chars /\ code \in Chars /\ ok \in Chars
  BY StringsAssumption DEF Marks, Names, Chars
<1>2. w \in Texts /\ HeaderLines[w] = {[info |-> f, rest |-> y]}
  BY DEF ReadsAs
<1>3. "\n" \notin {http, bl, code, bl, ok}
  OBVIOUS
<1>4. /\ s \in Texts /\ Len(s) = Len(w) + 7 /\ Len(w) \in Nat
      /\ s[1] = http /\ s[2] = bl /\ BehindLine(s) = {w}
  <2> HIDE DEF http, bl, code, ok
  <2> QED BY <1>1, <1>2, <1>3, FiveFirst
<1>5. Len(s) > 1
  <2> DEFINE lw == Len(w)
             ls == Len(s)
  <2>1. ls = lw + 7 /\ lw \in Nat
    BY <1>4
  <2> HIDE DEF lw, ls
  <2>2. ls > 1
    BY <2>1
  <2> QED BY <2>2 DEF ls
<1> HIDE DEF s
<1>6. ParseHeader(type, s) = parsed(headers(BehindLine(s)))
  <2>1. s[1] \in Versions /\ <<s[1]>> = <<http>>
    BY <1>4 DEF Versions
  <2>2. s[2] = " "
    BY <1>4
  <2> HIDE DEF http
  <2> QED BY <1>5, <2>1, <2>2 DEF ParseHeader
<1>7. headers({w}) = {[info |-> f, rest |-> y]}
  BY <1>2
<1>8. parsed({[info |-> f, rest |-> y]}) = {[info |-> Over(f, first), rest |-> y]}
  <2> DEFINE r == [info |-> f, rest |-> y]
             p(h) == [info |-> Over(h.info, first), rest |-> Chomp[h.rest]]
             ends(h) == Chomp[h.rest] # Outside
  <2>1. Chomp[y] = y /\ y # Outside
    BY DEF Solid
  <2>2. p(r) = [info |-> Over(f, first), rest |-> y] /\ ends(r)
    <3> HIDE DEF first
    <3> QED BY <2>1
  <2>3. parsed({r}) = {p(h) : h \in {g \in {r} : ends(g)}}
    OBVIOUS
  <2> HIDE DEF r, p, ends, parsed
  <2>4. {p(h) : h \in {g \in {r} : ends(g)}} = {p(r)}
    BY <2>2
  <2>5. parsed({r}) = {[info |-> Over(f, first), rest |-> y]}
    BY <2>2, <2>3, <2>4
  <2> QED BY <2>5 DEF r
<1> HIDE DEF headers, parsed
<1>9. ParseHeader(type, s) = {[info |-> Over(f, first), rest |-> y]}
  BY <1>4, <1>6, <1>7, <1>8
<1>10. first = FirstOf(type)
  BY DEF FirstOf, Version
<1> HIDE DEF first
<1> QED BY <1>9, <1>10 DEF s, StartOf

-----------------------------------------------------------------------------
(* The lines of the program's own.                                         *)

(* A name of one token, which may be among those that are capitalised.     *)
LEMMA OneCapital ==
  ASSUME NEW c
  PROVE  Capitalized(<<c>>) = <<IF c \in DOMAIN Capital THEN Capital[c] ELSE c>>
<1>1. Len(<<c>>) = 1 /\ <<c>>[1] = c
  OBVIOUS
<1> DEFINE k(i) == IF <<c>>[i] \in DOMAIN Capital THEN Capital[<<c>>[i]] ELSE <<c>>[i]
           l == IF c \in DOMAIN Capital THEN Capital[c] ELSE c
<1>2. k(1) = l
  BY <1>1
<1>3. Capitalized(<<c>>) = [i \in 1..1 |-> k(i)]
  BY <1>1 DEF Capitalized
<1> HIDE DEF k, l
<1>4. [i \in 1..1 |-> k(i)] = <<l>>
  <2>1. DOMAIN <<l>> = 1..1 /\ <<l>>[1] = l /\ <<l>> = [i \in 1..1 |-> l]
    OBVIOUS
  <2>2. \A i \in 1..1 : k(i) = l
    BY <1>2
  <2> QED BY <2>1, <2>2
<1> QED BY <1>3, <1>4 DEF l

KeyOfType == <<"Content-type">>
KeyOfLength == <<"Content-length">>
KeyOfServer == <<"Server">>
KeyOfCoding == <<"Transfer-encoding">>
KeyOfCaller == <<"Authorization">>

(* Those that are put into headers.                                        *)
LEMMA OwnNames ==
  /\ Capitalized(<<"Content-Type">>) = KeyOfType
  /\ Capitalized(<<"Transfer-Encoding">>) = KeyOfCoding
  /\ Capitalized(KeyOfLength) = KeyOfLength
  /\ Capitalized(KeyOfServer) = KeyOfServer
  /\ Capitalized(KeyOfCaller) = KeyOfCaller
<1>1. /\ "Content-Type" \in DOMAIN Capital /\ Capital["Content-Type"] = "Content-type"
      /\ "Content-length" \notin DOMAIN Capital /\ "Server" \notin DOMAIN Capital
      /\ "Authorization" \notin DOMAIN Capital
      /\ "Transfer-Encoding" \in DOMAIN Capital /\ Capital["Transfer-Encoding"] = "Transfer-encoding"
  BY DEF Capital
<1> QED BY <1>1, OneCapital DEF KeyOfType, KeyOfLength, KeyOfServer, KeyOfCoding, KeyOfCaller

(* A name of one token can be sent.                                        *)
LEMMA OneName ==
  ASSUME NEW c \in Chars, c \notin {":", "\n"}
  PROVE  <<c>> \in NameTexts
<1> DEFINE T == STRING \ {":", "\n"}
<1>1. c \in T
  BY DEF Chars
<1> HIDE DEF T
<1>2. <<c>> \in Seq(T)
  BY <1>1, One
<1> QED BY <1>2 DEF T, NameTexts

(* The same of a value.                                                    *)
LEMMA OneToken ==
  ASSUME NEW c \in Chars, c \notin {" ", "\n"}
  PROVE  <<c>> \in ValueTexts
<1> DEFINE T == STRING \ {"\n"}
<1>1. c \in T /\ <<c>>[1] # " "
  BY DEF Chars
<1> HIDE DEF T
<1>2. <<c>> \in Seq(T)
  BY <1>1, One
<1> QED BY <1>1, <1>2 DEF T, ValueTexts

(* The line with the type.                                                 *)
LEMMA TypeRead == LinesRead(TypeLine, Entry(KeyOfType, <<"text/xml">>))
<1> DEFINE type == "Content-Type"
           xml == "text/xml"
<1>1. type \in Chars /\ xml \in Chars /\ type \notin {":", "\n"} /\ xml \notin {" ", "\n"}
  BY StringsAssumption DEF Names, Chars
<1>2. LinesRead(HeaderLine(<<type>>, <<xml>>), Entry(Capitalized(<<type>>), <<xml>>))
  <2> HIDE DEF type, xml
  <2> QED BY <1>1, OneName, OneToken, OneLineRead
<1> QED BY <1>2, OwnNames DEF TypeLine

ServerLine == HeaderLine(<<"Server">>, <<"py-xmlrpc">>)

(* The line that names the program in a response.                          *)
LEMMA ServerLineRead == LinesRead(ServerLine, Entry(KeyOfServer, <<"py-xmlrpc">>))
<1> DEFINE server == "Server"
           name == "py-xmlrpc"
<1>1. server \in Chars /\ name \in Chars /\ server \notin {":", "\n"} /\ name \notin {" ", "\n"}
  BY StringsAssumption DEF Names, Chars
<1>2. LinesRead(HeaderLine(<<server>>, <<name>>), Entry(Capitalized(<<server>>), <<name>>))
  <2> HIDE DEF server, name
  <2> QED BY <1>1, OneName, OneToken, OneLineRead
<1> QED BY <1>2, OwnNames DEF ServerLine, KeyOfServer

(* A length can be sent, and so can its name.                              *)
LEMMA LengthValue ==
  ASSUME NEW n \in Nat
  PROVE  Decimal(n) \in ValueTexts /\ Decimal(n) \in DigitTexts /\ KeyOfLength \in NameTexts
<1> DEFINE T == STRING \ {"\n"}
           length == "Content-length"
<1>1. length \in Chars /\ length \notin {":", "\n"}
  BY StringsAssumption DEF Names, Chars
<1>2. <<length>> \in NameTexts
  <2> HIDE DEF length
  <2> QED BY <1>1, OneName
<1>3. Digits[n] \in DigitTexts /\ Digits[n] # <<>>
  BY DigitsRead
<1>4. DOMAIN Numeral \subseteq T /\ " " \notin DOMAIN Numeral
  <2>1. DOMAIN Numeral \subseteq STRING
    BY StringsAssumption, NumeralDomain DEF NumeralSet, Alphabet, ToSet
  <2> QED BY <2>1, NumeralDomain DEF NumeralSet
<1>5. Digits[n] \in Seq(T) /\ Digits[n][1] # " "
  <2>1. Digits[n][1] \in DOMAIN Numeral
    BY <1>3, HeadTail DEF DigitTexts
  <2> HIDE DEF T
  <2>2. Digits[n] \in Seq(T)
    BY <1>3, <1>4, SeqMonotonic DEF DigitTexts
  <2> QED BY <1>4, <2>1, <2>2
<1>6. Decimal(n) = Digits[n]
  <2>1. Minus(n) = <<>> /\ Magnitude(n) = n
    BY DEF Minus, Magnitude
  <2>2. <<>> \o Digits[n] = Digits[n]
    BY <1>3, ConcatEmptySeq DEF DigitTexts
  <2> QED BY <2>1, <2>2 DEF Decimal
<1>7. Decimal(n) \in ValueTexts /\ Decimal(n) \in DigitTexts
  BY <1>3, <1>5, <1>6 DEF ValueTexts
<1> QED BY <1>2, <1>7 DEF KeyOfLength

(* The line with the length.                                               *)
LEMMA LengthRead == \A n \in Nat : LinesRead(LengthLine(n), Entry(KeyOfLength, Decimal(n)))
<1> SUFFICES ASSUME NEW n \in Nat PROVE LinesRead(LengthLine(n), Entry(KeyOfLength, Decimal(n)))
  OBVIOUS
<1>1. LinesRead(HeaderLine(KeyOfLength, Decimal(n)), Entry(Capitalized(KeyOfLength), Decimal(n)))
  BY LengthValue, OneLineRead
<1> QED BY <1>1, OwnNames DEF LengthLine, KeyOfLength

-----------------------------------------------------------------------------
(* Where a header ends, and what frames the document behind it.            *)

(* Texts of lines that are not empty, up to the last line end; texts       *)
(* without some characters; and sets of texts that hold any two of theirs  *)
(* put together.                                                           *)
Lined ==
  {s \in Texts : \A i \in 1..Len(s) : s[i] = "\n" => i >= 3 /\ s[i - 1] # "\n" /\ s[i - 2] # "\n"}
Without(N) == {s \in Texts : \A i \in 1..Len(s) : s[i] \notin N}
Quiet == Lined \cap Without(Framers)
IsClosed(Q) == Q \subseteq Texts /\ <<>> \in Q /\ \A a, b \in Q : a \o b \in Q

(* These are such sets.                                                    *)
LEMMA LinesClosed == IsClosed(Lined)
<1>1. Lined \subseteq Texts /\ <<>> \in Lined
  BY EmptySeq DEF Lined, Texts
<1>2. ASSUME NEW a \in Lined, NEW b \in Lined PROVE a \o b \in Lined
  <2> DEFINE c == a \o b
             m == Len(a)
             n == Len(b)
  <2>1. a \in Texts /\ b \in Texts
    BY DEF Lined
  <2>2. /\ c \in Texts /\ Len(c) = m + n /\ m \in Nat /\ n \in Nat
        /\ \A i \in 1..m : c[i] = a[i]
        /\ \A i \in 1..n : c[m + i] = b[i]
    BY <2>1, Concat
  <2>3. \A i \in 1..m : a[i] = "\n" => i >= 3 /\ a[i - 1] # "\n" /\ a[i - 2] # "\n"
    BY DEF Lined
  <2>4. \A i \in 1..n : b[i] = "\n" => i >= 3 /\ b[i - 1] # "\n" /\ b[i - 2] # "\n"
    BY DEF Lined
  <2> HIDE DEF c, m, n
  <2>5. ASSUME NEW i \in 1..(m + n), c[i] = "\n"
        PROVE  i >= 3 /\ c[i - 1] # "\n" /\ c[i - 2] # "\n"
    <3>1. CASE i \in 1..m
      <4>1. i >= 3 /\ a[i - 1] # "\n" /\ a[i - 2] # "\n"
        BY <2>2, <2>3, <2>5, <3>1
      <4>2. i - 1 \in 1..m /\ i - 2 \in 1..m
        BY <2>2, <3>1, <4>1
      <4> QED BY <2>2, <4>1, <4>2
    <3>2. CASE i \notin 1..m
      <4> DEFINE k == i - m
      <4>1. k \in 1..n /\ m + k = i
        BY <2>2, <3>2
      <4> HIDE DEF k
      <4>2. k >= 3 /\ b[k - 1] # "\n" /\ b[k - 2] # "\n"
        BY <2>2, <2>4, <2>5, <4>1
      <4>3. k - 1 \in 1..n /\ k - 2 \in 1..n /\ m + (k - 1) = i - 1 /\ m + (k - 2) = i - 2 /\ i >= 3
        BY <2>2, <4>1, <4>2
      <4>4. c[m + (k - 1)] = b[k - 1] /\ c[m + (k - 2)] = b[k - 2]
        BY <2>2, <4>3
      <4> QED BY <4>2, <4>3, <4>4
    <3> QED BY <3>1, <3>2
  <2>6. c \in Lined
    BY <2>2, <2>5 DEF Lined
  <2> QED BY <2>6 DEF c
<1> QED BY <1>1, <1>2 DEF IsClosed

LEMMA WithoutClosed == ASSUME NEW N PROVE IsClosed(Without(N))
<1>1. Without(N) \subseteq Texts /\ <<>> \in Without(N)
  BY EmptySeq DEF Without, Texts
<1>2. ASSUME NEW a \in Without(N), NEW b \in Without(N) PROVE a \o b \in Without(N)
  <2> DEFINE c == a \o b
             m == Len(a)
             n == Len(b)
  <2>1. a \in Texts /\ b \in Texts /\ (\A i \in 1..m : a[i] \notin N) /\ (\A i \in 1..n : b[i] \notin N)
    BY DEF Without
  <2>2. /\ c \in Texts /\ Len(c) = m + n /\ m \in Nat /\ n \in Nat
        /\ \A i \in 1..m : c[i] = a[i]
        /\ \A i \in 1..n : c[m + i] = b[i]
    BY <2>1, Concat
  <2> HIDE DEF c, m, n
  <2>3. ASSUME NEW i \in 1..(m + n) PROVE c[i] \notin N
    <3>1. i \in 1..m \/ (i - m \in 1..n /\ m + (i - m) = i)
      BY <2>2
    <3> QED BY <2>1, <2>2, <3>1
  <2>4. c \in Without(N)
    BY <2>2, <2>3 DEF Without
  <2> QED BY <2>4 DEF c
<1> QED BY <1>1, <1>2 DEF IsClosed

LEMMA QuietClosed == IsClosed(Quiet)
  BY LinesClosed, WithoutClosed DEF IsClosed, Quiet

(* A line that is not empty.                                               *)
LEMMA OneLine ==
  ASSUME NEW t \in Texts, t # <<>>, t \in Without({"\n"})
  PROVE  /\ t \o CrLf \in Lined
         /\ t \in Without(Framers) => t \o CrLf \in Quiet
<1> DEFINE s == t \o CrLf
           n == Len(t)
<1>1. CrLf \in Texts /\ Len(CrLf) = 2 /\ CrLf[1] = "\r" /\ CrLf[2] = "\n"
  <2>1. CrLf \in Texts
    BY CrLfFirst
  <2> QED BY <2>1 DEF CrLf
<1>2. /\ s \in Texts /\ Len(s) = n + 2 /\ n \in Nat /\ n # 0
      /\ \A i \in 1..n : s[i] = t[i]
      /\ s[n + 1] = "\r" /\ s[n + 2] = "\n"
  <2>1. /\ s \in Texts /\ Len(s) = n + Len(CrLf) /\ n \in Nat
        /\ \A i \in 1..n : s[i] = t[i]
        /\ \A i \in 1..Len(CrLf) : s[n + i] = CrLf[i]
    BY <1>1, Concat
  <2>2. n # 0
    BY Nothing
  <2> HIDE DEF s, n
  <2> QED BY <1>1, <2>1, <2>2
<1>3. \A i \in 1..n : t[i] # "\n"
  BY DEF Without
<1> HIDE DEF s, n
<1>4. ASSUME NEW i \in 1..(n + 2), s[i] = "\n"
      PROVE  i >= 3 /\ s[i - 1] # "\n" /\ s[i - 2] # "\n"
  <2>1. i \notin 1..n /\ i # n + 1
    BY <1>2, <1>3, <1>4
  <2>2. i = n + 2 /\ i - 1 = n + 1 /\ i - 2 = n /\ n \in 1..n /\ i >= 3
    BY <1>2, <2>1
  <2> QED BY <1>2, <1>3, <2>2
<1>5. s \in Lined
  BY <1>2, <1>4 DEF Lined
<1>6. t \in Without(Framers) => s \in Without(Framers)
  <2>1. CrLf \in Without(Framers)
    <3>1. \A i \in 1..2 : i = 1 \/ i = 2
      OBVIOUS
    <3>2. "\r" \notin Framers /\ "\n" \notin Framers
      BY DEF Framers, LengthNames
    <3> QED BY <1>1, <3>1, <3>2 DEF Without
  <2> QED BY <2>1, WithoutClosed DEF IsClosed, s
<1> QED BY <1>5, <1>6 DEF s, Quiet

(* Two line ends.                                                          *)
LEMMA TwoEnds ==
  LET x == CrLf \o CrLf
  IN  x \in Texts /\ Len(x) = 4 /\ x[1] = "\r" /\ x[2] = "\n" /\ x[3] = "\r" /\ x[4] = "\n"
<1> DEFINE c == CrLf
           x == c \o c
<1>1. c \in Texts
  <2>1. <<>> \in Texts
    BY EmptySeq DEF Texts
  <2> QED BY <2>1, CrLfFirst
<1>2. Len(c) = 2 /\ c[1] = "\r" /\ c[2] = "\n"
  BY DEF CrLf
<1> HIDE DEF c
<1>3. /\ x \in Texts /\ Len(x) = Len(c) + Len(c)
      /\ \A i \in 1..Len(c) : x[i] = c[i]
      /\ \A i \in 1..Len(c) : x[Len(c) + i] = c[i]
  BY <1>1, Concat
<1> HIDE DEF x
<1>4. 1 \in 1..2 /\ 2 \in 1..2 /\ 2 + 1 = 3 /\ 2 + 2 = 4
  OBVIOUS
<1>5. x[2 + 1] = c[1] /\ x[2 + 2] = c[2]
  BY <1>2, <1>3, <1>4
<1> QED BY <1>2, <1>3, <1>4, <1>5 DEF x, c

(* Such a text, an empty line behind it, is a header.                      *)
LEMMA LinedHead ==
  ASSUME NEW u \in Texts, u \o CrLf \in Lined
  PROVE  IsHead((u \o CrLf) \o CrLf)
<1> DEFINE s == u \o CrLf
           h == s \o CrLf
           n == Len(s)
           EmptyLine == {CrLf \o CrLf, <<"\n", "\n">>}
<1>1. CrLf \in Texts /\ Len(CrLf) = 2 /\ CrLf[1] = "\r" /\ CrLf[2] = "\n"
  <2>1. CrLf \in Texts
    BY CrLfFirst
  <2> QED BY <2>1 DEF CrLf
<1>2. s \in Texts /\ n = Len(u) + 2 /\ Len(u) \in Nat
  <2>1. s \in Texts /\ n = Len(u) + Len(CrLf) /\ Len(u) \in Nat
    BY <1>1, Concat
  <2> HIDE DEF s, n
  <2> QED BY <1>1, <2>1
<1>3. /\ h \in Texts /\ Len(h) = n + 2 /\ n \in Nat
      /\ \A i \in 1..n : h[i] = s[i]
      /\ h[n + 1] = "\r" /\ h[n + 2] = "\n"
  <2> HIDE DEF s, n
  <2> DEFINE k == Len(s)
  <2>1. /\ h \in Texts /\ Len(h) = k + Len(CrLf) /\ k \in Nat
        /\ \A i \in 1..k : h[i] = s[i]
        /\ \A i \in 1..Len(CrLf) : h[k + i] = CrLf[i]
    BY <1>1, <1>2, Concat
  <2>2. k = n
    BY DEF n
  <2> HIDE DEF h, k
  <2> QED BY <1>1, <2>1, <2>2
<1>4. /\ Len(CrLf \o CrLf) = 4 /\ Len(<<"\n", "\n">>) = 2
      /\ \A x \in EmptyLine : Len(x) \in {2, 4} /\ x[Len(x)] = "\n"
  <2>1. Len(CrLf \o CrLf) = 4 /\ (CrLf \o CrLf)[4] = "\n"
    BY TwoEnds
  <2>2. Len(<<"\n", "\n">>) = 2 /\ <<"\n", "\n">>[2] = "\n"
    OBVIOUS
  <2> QED BY <2>1, <2>2
<1>5. \A e : e \in EmptyLines(h) <=>
         e \in 1..Len(h) /\ \E x \in EmptyLine : Len(x) <= e /\ SubSeq(h, e - Len(x) + 1, e) = x
  BY DEF EmptyLines, EmptyLine
<1>6. EmptyLines(s) = {}
  <2> SUFFICES ASSUME NEW e \in 1..n, NEW x \in EmptyLine,
                      Len(x) <= e, SubSeq(s, e - Len(x) + 1, e) = x
               PROVE  FALSE
    BY DEF EmptyLines, EmptyLine
  <2>1. \A i \in 1..n : s[i] = "\n" => i >= 3 /\ s[i - 1] # "\n" /\ s[i - 2] # "\n"
    BY DEF Lined
  <2>2. CASE x = CrLf \o CrLf
    <3>1. Len(x) = 4
      BY <2>2, TwoEnds
    <3>2. x[2] = "\n" /\ x[4] = "\n"
      BY <2>2, TwoEnds
    <3>3. e >= 4 /\ \A i \in 1..4 : x[i] = s[e - 4 + i]
      <4> HIDE DEF s
      <4>1. e >= 4 /\ e - 4 + 1 \in 1..n /\ e - 4 + 1 <= e
        BY <1>3, <3>1
      <4>2. \A i \in 1..(e - (e - 4 + 1) + 1) : SubSeq(s, e - 4 + 1, e)[i] = s[e - 4 + 1 + i - 1]
        <5> DEFINE from == e - 4 + 1
        <5>1. from \in Int /\ e \in Int /\ from..e \subseteq 1..n
          BY <1>3, <4>1
        <5>2. \A i \in from..e : s[i] \in STRING
          <6>1. \A i \in 1..n : s[i] \in STRING
            BY <1>2 DEF Texts, n
          <6> HIDE DEF from
          <6> QED BY <5>1, <6>1, Zenon
        <5> HIDE DEF from, n
        <5>3. \A i \in 1..(e - from + 1) : SubSeq(s, from, e)[i] = s[from + i - 1]
          BY <5>1, <5>2, SubSeqProperties
        <5> QED BY <5>3 DEF from
      <4> HIDE DEF n
      <4>3. e - (e - 4 + 1) + 1 = 4 /\ \A i \in 1..4 : e - 4 + 1 + i - 1 = e - 4 + i
        BY <1>3
      <4> QED BY <3>1, <4>1, <4>2, <4>3
    <3>4. s[e - 2] = "\n" /\ s[e] = "\n"
      <4> HIDE DEF s, n
      <4>1. 2 \in 1..4 /\ 4 \in 1..4 /\ e - 4 + 2 = e - 2 /\ e - 4 + 4 = e
        BY <1>3
      <4> QED BY <3>2, <3>3, <4>1
    <3> QED BY <2>1, <3>4
  <2>3. CASE x = <<"\n", "\n">>
    <3>1. Len(x) = 2 /\ x[1] = "\n" /\ x[2] = "\n"
      BY <2>3
    <3>2. e >= 2 /\ \A i \in 1..2 : x[i] = s[e - 2 + i]
      <4> HIDE DEF s
      <4>1. e >= 2 /\ e - 2 + 1 \in 1..n /\ e - 2 + 1 <= e
        BY <1>3, <3>1
      <4>2. \A i \in 1..(e - (e - 2 + 1) + 1) : SubSeq(s, e - 2 + 1, e)[i] = s[e - 2 + 1 + i - 1]
        <5> DEFINE from == e - 2 + 1
        <5>1. from \in Int /\ e \in Int /\ from..e \subseteq 1..n
          BY <1>3, <4>1
        <5>2. \A i \in from..e : s[i] \in STRING
          <6>1. \A i \in 1..n : s[i] \in STRING
            BY <1>2 DEF Texts, n
          <6> HIDE DEF from
          <6> QED BY <5>1, <6>1, Zenon
        <5> HIDE DEF from, n
        <5>3. \A i \in 1..(e - from + 1) : SubSeq(s, from, e)[i] = s[from + i - 1]
          BY <5>1, <5>2, SubSeqProperties
        <5> QED BY <5>3 DEF from
      <4> HIDE DEF n
      <4>3. e - (e - 2 + 1) + 1 = 2 /\ \A i \in 1..2 : e - 2 + 1 + i - 1 = e - 2 + i
        BY <1>3
      <4> QED BY <3>1, <4>1, <4>2, <4>3
    <3>3. s[e - 1] = "\n" /\ s[e] = "\n"
      <4> HIDE DEF s, n
      <4>1. 1 \in 1..2 /\ 2 \in 1..2 /\ e - 2 + 1 = e - 1 /\ e - 2 + 2 = e
        BY <1>3
      <4> QED BY <3>1, <3>2, <4>1
    <3> QED BY <2>1, <3>3
  <2> QED BY <2>2, <2>3
<1>7. EmptyLines(s) = {e \in EmptyLines(h) : e <= n}
  BY <1>1, <1>2, EmptyLinesOfStart
<1>8. n + 2 \in EmptyLines(h)
  <2>1. h = u \o (CrLf \o CrLf) /\ CrLf \o CrLf \in Texts
    <3>1. IsAssociative(u, CrLf, CrLf)
      BY <1>1, Associative
    <3> QED BY <1>1, <3>1, Concat DEF IsAssociative
  <2> DEFINE x == CrLf \o CrLf
             k == Len(u)
  <2>2. Drop(h, k) = x
    BY <2>1, Concat
  <2>3. Len(x) = 4 /\ x \in EmptyLine
    BY <1>4
  <2> HIDE DEF h, x, n, EmptyLine
  <2>4. n = k + 2 /\ k \in Nat /\ Len(h) = n + 2
    BY <1>2, <1>3 DEF n
  <2>5. (n + 2) - 4 + 1 = k + 1 /\ Len(h) = n + 2 /\ n + 2 \in 1..(n + 2) /\ 4 <= n + 2
    <3> HIDE DEF k
    <3> QED BY <2>4
  <2>6. SubSeq(h, (n + 2) - 4 + 1, n + 2) = x
    BY <2>2, <2>5 DEF Drop
  <2> QED BY <1>5, <2>3, <2>5, <2>6
<1>9. n + 1 \notin EmptyLines(h)
  <2> SUFFICES ASSUME NEW e, e = n + 1, e \in EmptyLines(h) PROVE FALSE
    OBVIOUS
  <2> HIDE DEF h, n, EmptyLine
  <2>1. PICK x \in EmptyLine : Len(x) <= e /\ SubSeq(h, e - Len(x) + 1, e) = x
    BY <1>5, Zenon
  <2> DEFINE k == Len(x)
  <2>2. k \in {2, 4} /\ x[k] = "\n" /\ k <= e
    BY <1>4, <2>1
  <2>3. e - k + 1 \in 1..Len(h) /\ e \in 1..Len(h) /\ e - k + 1 <= e
    <3> HIDE DEF k
    <3> QED BY <1>3, <2>2
  <2>4. \A i \in 1..(e - (e - k + 1) + 1) : SubSeq(h, e - k + 1, e)[i] = h[e - k + 1 + i - 1]
    <3> HIDE DEF k
    <3> QED BY <1>3, <2>3, SubSeqProperties DEF Texts
  <2>5. k \in 1..(e - (e - k + 1) + 1) /\ e - k + 1 + k - 1 = e
    <3> HIDE DEF k
    <3> QED BY <1>3, <2>2
  <2>6. x[k] = h[e]
    <3>1. SubSeq(h, e - k + 1, e)[k] = h[e - k + 1 + k - 1]
      BY <2>4, <2>5, Zenon
    <3> QED BY <2>1, <2>5, <3>1
  <2> QED BY <1>3, <2>2, <2>6
<1>10. EmptyLines(h) = {n + 2}
  <2>1. \A e \in EmptyLines(h) : e \in 1..(n + 2)
    BY <1>3, <1>5
  <2>2. \A e \in EmptyLines(h) : ~(e <= n)
    BY <1>6, <1>7
  <2> HIDE DEF h, n
  <2>3. \A e \in EmptyLines(h) : e = n + 2
    BY <1>3, <1>9, <2>1, <2>2
  <2> QED BY <1>8, <2>3
<1> QED BY <1>3, <1>10 DEF IsHead

(* A header line is one.                                                   *)
LEMMA HeaderLineLined ==
  ASSUME NEW name \in NameTexts, NEW value \in ValueTexts
  PROVE  LET t == (name \o <<":", " ">>) \o value
         IN  /\ t \in Texts /\ HeaderLine(name, value) = t \o CrLf /\ HeaderLine(name, value) \in Lined
             /\ name \in Without(Framers) /\ value \in Without(Framers) =>
                  HeaderLine(name, value) \in Quiet
<1> DEFINE co == ":"
           bl == " "
           sep == <<co, bl>>
           t == (name \o sep) \o value
<1>1. /\ name \in Texts /\ value \in Texts
      /\ name \in Without({"\n"}) /\ value \in Without({"\n"})
  BY LineTexts DEF Without
<1>2. co \in STRING /\ bl \in STRING
  <2>1. co \in Chars /\ bl \in Chars
    BY StringsAssumption DEF Marks, Chars
  <2> QED BY <2>1 DEF Chars
<1>3. sep \in Texts /\ Len(sep) = 2 /\ \A i \in 1..2 : sep[i] \in {co, bl}
  <2> HIDE DEF co, bl
  <2>1. sep \in Seq(STRING)
    BY <1>2, Pair
  <2>2. Len(sep) = 2 /\ sep[1] = co /\ sep[2] = bl /\ \A i \in 1..2 : i = 1 \/ i = 2
    OBVIOUS
  <2> QED BY <2>1, <2>2 DEF Texts
<1>4. ASSUME NEW N, co \notin N, bl \notin N, name \in Without(N), value \in Without(N)
      PROVE  t \in Without(N)
  <2>1. sep \in Without(N)
    BY <1>3, <1>4 DEF Without
  <2> HIDE DEF sep
  <2> QED BY <1>4, <2>1, WithoutClosed DEF IsClosed
<1>5. co \notin {"\n"} /\ bl \notin {"\n"} /\ co \notin Framers /\ bl \notin Framers
  BY DEF Framers, LengthNames
<1>6. t \in Without({"\n"}) /\ t \in Texts
  <2>1. t \in Without({"\n"})
    BY <1>1, <1>4, <1>5
  <2> HIDE DEF t
  <2> QED BY <2>1 DEF Without
<1>7. t # <<>>
  <2> DEFINE p == name \o sep
             lp == Len(p)
             ln == Len(name)
             lt == Len(t)
             lv == Len(value)
  <2>1. p \in Texts /\ lp = ln + 2 /\ ln \in Nat
    <3> HIDE DEF sep
    <3>1. p \in Texts /\ lp = ln + Len(sep) /\ ln \in Nat
      BY <1>1, <1>3, Concat
    <3> HIDE DEF p, lp, ln
    <3> QED BY <3>1, <1>3
  <2>2. lt = lp + lv /\ lv \in Nat
    <3> HIDE DEF p
    <3> QED BY <1>1, <2>1, Concat
  <2>3. lp = ln + 2 /\ ln \in Nat
    BY <2>1
  <2> HIDE DEF lp, ln, lt, lv
  <2>4. lt # 0
    BY <2>2, <2>3
  <2> HIDE DEF t
  <2> QED BY <2>4 DEF lt
<1>8. HeaderLine(name, value) = t \o CrLf
  BY DEF HeaderLine
<1> HIDE DEF t
<1>9. t \o CrLf \in Lined /\ (t \in Without(Framers) => t \o CrLf \in Quiet)
  BY <1>6, <1>7, OneLine
<1>10. name \in Without(Framers) /\ value \in Without(Framers) => t \in Without(Framers)
  BY <1>4, <1>5
<1> QED BY <1>6, <1>8, <1>9, <1>10 DEF t

(* Without a name, there is no field of it.                                *)
LEMMA FieldsNone ==
  ASSUME NEW N, NEW names, names \subseteq N, NEW h \in Without(N)
  PROVE  Fields(names, h) = {}
<1> DEFINE starts == {i \in 1..(Len(h) - 3) : h[i] \in names /\ SubSeq(h, i + 1, i + 2) = <<":", " ">>}
<1>1. h \in Texts /\ \A i \in 1..Len(h) : h[i] \notin N
  BY DEF Without
<1>2. Len(h) \in Nat
  BY <1>1, Nothing
<1>3. \A i \in 1..(Len(h) - 3) : i \in 1..Len(h)
  BY <1>2
<1>4. starts = {}
  BY <1>1, <1>3
<1> QED BY <1>4 DEF Fields

(* Names of fields, and what may be behind one.                            *)
AreNames(N) == ":" \notin N /\ " " \notin N
IsBehind(v, N) == v \in Without(N) /\ v # <<>>
HasField(N, name, a, v) == Fields(N, a \o (<<name>> \o (<<":", " ">> \o v))) = {v}

(* With one place of one, there is that.                                   *)
LEMMA FieldOnly ==
  ASSUME NEW N, AreNames(N), NEW name \in N \cap Chars, NEW a \in Without(N), NEW v, IsBehind(v, N)
  PROVE  HasField(N, name, a, v)
<1> DEFINE co == ":"
           bl == " "
           sep == <<co, bl>>
           w == sep \o v
           b == <<name>> \o w
           h == a \o b
           k == Len(a)
           lb == Len(b)
           lw == Len(w)
           lv == Len(v)
           lh == Len(h)
           starts == {i \in 1..(Len(h) - 3) : h[i] \in N /\ SubSeq(h, i + 1, i + 2) = <<":", " ">>}
<1>1. a \in Texts /\ v \in Texts /\ (\A i \in 1..k : a[i] \notin N) /\ (\A i \in 1..lv : v[i] \notin N)
  BY DEF Without, IsBehind
<1>2. lv \in Nat /\ lv # 0
  BY <1>1, Nothing DEF IsBehind
<1>3. co \in Chars /\ bl \in Chars /\ name \in Chars /\ co \notin N /\ bl \notin N
  BY StringsAssumption DEF Marks, Chars, AreNames
<1>4. w \in Texts /\ Len(w) = Len(v) + 2 /\ w[1] = co /\ w[2] = bl /\ Drop(w, 2) = v
  <2> HIDE DEF co, bl
  <2> QED BY <1>1, <1>3, PairFirst
<1>5. \A i \in 1..lv : w[2 + i] = v[i]
  <2> HIDE DEF co, bl
  <2>1. sep \in Seq(Chars) /\ Len(sep) = 2
    BY <1>3, Pair
  <2>2. sep \in Texts
    BY <2>1 DEF Texts, Chars
  <2> HIDE DEF sep
  <2>3. \A i \in 1..lv : w[Len(sep) + i] = v[i]
    BY <1>1, <2>2, Concat
  <2> HIDE DEF w
  <2> QED BY <2>1, <2>3
<1>6. lw = lv + 2
  BY <1>4
<1>7. <<name>> \in Texts /\ Len(<<name>>) = 1 /\ <<name>>[1] = name
  <2>1. <<name>> \in Seq(Chars)
    BY <1>3, One
  <2> QED BY <2>1 DEF Texts, Chars
<1> HIDE DEF sep, co, bl, w
<1>8. /\ b \in Texts /\ Len(b) = Len(<<name>>) + Len(w)
      /\ \A i \in 1..Len(<<name>>) : b[i] = <<name>>[i]
      /\ \A i \in 1..Len(w) : b[Len(<<name>>) + i] = w[i]
      /\ Drop(b, Len(<<name>>)) = w
  BY <1>4, <1>7, Concat
<1>9. /\ lb = 1 + lw
      /\ \A i \in 1..1 : b[i] = <<name>>[i]
      /\ \A i \in 1..lw : b[1 + i] = w[i]
      /\ Drop(b, 1) = w
  <2> HIDE DEF b
  <2> QED BY <1>7, <1>8
<1> HIDE DEF b
<1>10. /\ h \in Texts /\ Len(h) = Len(a) + Len(b) /\ Len(a) \in Nat
       /\ \A i \in 1..Len(a) : h[i] = a[i]
       /\ \A i \in 1..Len(b) : h[Len(a) + i] = b[i]
       /\ Drop(h, Len(a)) = b
  BY <1>1, <1>8, Concat
<1> HIDE DEF h
<1>11. lh = k + lb /\ k \in Nat
  BY <1>10
<1> HIDE DEF k, lb, lw, lv, lh
<1>12. lb = lv + 3 /\ lh = k + lv + 3 /\ lv >= 1
  <2>1. lb = 1 + lw
    BY <1>9
  <2> QED BY <1>2, <1>6, <1>11, <2>1
<1>13. b[1] = name /\ b[2] = co /\ b[3] = bl
  <2>1. 1 \in 1..1 /\ 1 \in 1..lw /\ 2 \in 1..lw /\ 1 + 1 = 2 /\ 1 + 2 = 3
    BY <1>2, <1>6
  <2>2. b[1 + 1] = w[1] /\ b[1 + 2] = w[2]
    BY <1>9, <2>1, Zenon
  <2>3. b[1] = name
    BY <1>7, <1>9, <2>1
  <2> QED BY <1>4, <2>1, <2>2, <2>3
<1>14. \A i \in 1..lv : b[3 + i] = v[i]
  <2> SUFFICES ASSUME NEW i \in 1..lv PROVE b[3 + i] = v[i]
    OBVIOUS
  <2>1. 2 + i \in 1..lw /\ 1 + (2 + i) = 3 + i
    BY <1>2, <1>6
  <2>2. b[1 + (2 + i)] = w[2 + i] /\ w[2 + i] = v[i]
    BY <1>5, <1>9, <2>1, Zenon
  <2> QED BY <2>1, <2>2
<1>15. Drop(b, 3) = v
  <2>1. 1 + 2 <= lb
    BY <1>2, <1>12
  <2>2. Drop(Drop(b, 1), 2) = Drop(b, 1 + 2)
    <3>1. 1 \in Nat /\ 2 \in Nat
      OBVIOUS
    <3> QED BY <1>8, <2>1, <3>1, DropTwice DEF lb
  <2>3. 1 + 2 = 3
    OBVIOUS
  <2> QED BY <1>4, <1>9, <2>2, <2>3
<1>16. /\ \A i \in 1..k : h[i] = a[i]
       /\ \A i \in 1..lb : h[k + i] = b[i]
       /\ Drop(h, k) = b
  BY <1>10 DEF k, lb
<1>17. k + 1 \in 1..(lh - 3) /\ 1 \in 1..lb /\ 2 \in 1..lb /\ 3 \in 1..lb
  BY <1>2, <1>11, <1>12
<1>18. h[k + 1] = name /\ h[k + 2] = co /\ h[k + 3] = bl
  <2>1. h[k + 1] = b[1] /\ h[k + 2] = b[2] /\ h[k + 3] = b[3]
    BY <1>16, <1>17, Zenon
  <2> QED BY <1>13, <2>1
<1>19. SubSeq(h, (k + 1) + 1, (k + 1) + 2) = <<co, bl>>
  <2> DEFINE n == k + 2
  <2>1. n \in 1..(lh - 1) /\ (k + 1) + 1 = n /\ (k + 1) + 2 = n + 1 /\ n + 1 = k + 3
    BY <1>2, <1>11, <1>12
  <2>2. h[n] = co /\ h[n + 1] = bl
    BY <1>18, <2>1
  <2> HIDE DEF n
  <2>3. SubSeq(h, n, n + 1) = <<h[n], h[n + 1]>>
    BY <1>10, <2>1, TwoOf DEF Texts, lh
  <2> QED BY <2>1, <2>2, <2>3
<1>20. k + 1 \in starts
  <2>1. k + 1 \in 1..(Len(h) - 3)
    BY <1>17 DEF lh
  <2>2. h[k + 1] \in N
    BY <1>18
  <2>3. <<":", " ">> = <<co, bl>>
    BY DEF co, bl
  <2> QED BY <1>19, <2>1, <2>2, <2>3
<1>21. ASSUME NEW i \in starts PROVE i = k + 1
  <2>1. i \in 1..(lh - 3) /\ h[i] \in N
    BY DEF lh
  <2> HIDE DEF starts
  <2>2. i \notin 1..k
    <3> SUFFICES ASSUME i \in 1..k PROVE FALSE
      OBVIOUS
    <3>1. h[i] = a[i] /\ a[i] \notin N
      BY <1>1, <1>16, Zenon DEF k
    <3> QED BY <2>1, <3>1
  <2>3. ~(i > k + 1)
    <3> SUFFICES ASSUME i > k + 1 PROVE FALSE
      OBVIOUS
    <3> DEFINE j == i - k
    <3>1. j \in 1..lb /\ k + j = i /\ (j = 2 \/ j = 3 \/ (j - 3 \in 1..lv /\ 3 + (j - 3) = j))
      <4>1. i \in 1..(lh - 3)
        BY <2>1
      <4> QED BY <1>2, <1>11, <1>12, <4>1
    <3> HIDE DEF j
    <3>2. h[i] = b[j]
      BY <1>16, <3>1
    <3>3. b[j] \notin N
      <4>1. CASE j = 2 \/ j = 3
        BY <1>3, <1>13, <4>1
      <4>2. CASE j - 3 \in 1..lv /\ 3 + (j - 3) = j
        <5>1. b[3 + (j - 3)] = v[j - 3] /\ v[j - 3] \notin N
          BY <1>1, <1>14, <4>2, Zenon DEF lv
        <5> QED BY <4>2, <5>1
      <4> QED BY <3>1, <4>1, <4>2
    <3> QED BY <2>1, <3>2, <3>3
  <2>4. i \in 1..(lh - 3)
    BY <2>1
  <2> QED BY <1>2, <1>11, <1>12, <2>2, <2>3, <2>4
<1>22. Fields(N, h) = {Drop(h, Max(starts) + 2)}
  BY <1>20 DEF Fields
<1> HIDE DEF starts
<1>23. Max(starts) + 2 = k + 3
  <2> DEFINE n == k + 1
  <2>1. starts = {n}
    BY <1>20, <1>21
  <2>2. n \in Nat
    BY <1>11
  <2> HIDE DEF n
  <2>3. Max({n}) = n
    BY <2>2 DEF Max
  <2>4. n + 2 = k + 3
    BY <1>11 DEF n
  <2> QED BY <2>1, <2>3, <2>4
<1>24. Drop(h, k + 3) = v
  <2>1. k + 3 <= lh /\ 3 \in Nat
    BY <1>2, <1>11, <1>12
  <2>2. Drop(Drop(h, k), 3) = Drop(h, k + 3)
    BY <1>10, <1>11, <2>1, DropTwice DEF lh
  <2> QED BY <1>15, <1>16, <2>2
<1>25. Fields(N, h) = {v}
  BY <1>22, <1>23, <1>24
<1> QED BY <1>25 DEF h, b, w, sep, co, bl, HasField

-----------------------------------------------------------------------------
(* Who calls.                                                              *)

(* Two sequences put together, of whatever.                                *)
LEMMA Joining ==
  ASSUME NEW T, NEW a \in Seq(T), NEW b \in Seq(T)
  PROVE  /\ a \o b \in Seq(T) /\ Len(a \o b) = Len(a) + Len(b) /\ Len(a) \in Nat /\ Len(b) \in Nat
         /\ \A i \in 1..Len(a) : (a \o b)[i] = a[i]
         /\ \A i \in 1..Len(b) : (a \o b)[Len(a) + i] = b[i]
         /\ SubSeq(a \o b, 1, Len(a)) = a /\ Drop(a \o b, Len(a)) = b
<1> DEFINE c == a \o b
           m == Len(a)
           n == Len(b)
<1>1. /\ c \in Seq(T) /\ Len(c) = m + n /\ m \in Nat /\ n \in Nat
      /\ \A i \in 1 .. m + n : c[i] = IF i <= m THEN a[i] ELSE b[i - m]
  BY ConcatProperties, LenProperties
<1>2. /\ \A i \in 1..m : c[i] = a[i]
      /\ \A i \in 1..n : c[m + i] = b[i]
  <2> HIDE DEF c, m, n
  <2> QED BY <1>1
<1>3. SubSeq(c, 1, m) = a
  <2>1. CASE a = <<>>
    <3>1. m = 0
      BY <2>1
    <3>2. SubSeq(c, 1, m) = <<>>
      <4> HIDE DEF c, m
      <4> QED BY <3>1, SubSeqEmpty
    <3> QED BY <2>1, <3>2
  <2>2. CASE a # <<>>
    <3>1. m # 0
      BY <2>2, EmptySeq
    <3>2. 1 \in 1..m /\ m \in 1..m
      <4> HIDE DEF m
      <4> QED BY <1>1, <3>1
    <3> QED BY <3>2, SubSeqOfConcat1, SubSeqFull
  <2> QED BY <2>1, <2>2
<1>4. Drop(c, m) = b
  <2>1. CASE b = <<>>
    <3>1. n = 0
      BY <2>1
    <3>2. SubSeq(c, m + 1, m + n) = <<>>
      <4>1. m + 1 \in Int /\ m + n \in Int /\ m + n < m + 1
        <5> HIDE DEF m, n
        <5> QED BY <1>1, <3>1
      <4> HIDE DEF c, m, n
      <4> QED BY <4>1, SubSeqEmpty
    <3> QED BY <1>1, <2>1, <3>2 DEF Drop
  <2>2. CASE b # <<>>
    <3>1. n # 0
      BY <2>2, EmptySeq
    <3>2. /\ m + 1 \in m + 1 .. m + n /\ m + n \in m + 1 .. m + n
          /\ (m + 1) - m = 1 /\ (m + n) - m = n
      <4> HIDE DEF m, n
      <4> QED BY <1>1, <3>1
    <3>3. SubSeq(c, m + 1, m + n) = SubSeq(b, (m + 1) - m, (m + n) - m)
      BY <3>2, SubSeqOfConcat2
    <3>4. SubSeq(b, 1, n) = b
      BY SubSeqFull
    <3> QED BY <1>1, <3>2, <3>3, <3>4 DEF Drop
  <2> QED BY <2>1, <2>2
<1> QED BY <1>1, <1>2, <1>3, <1>4

(* A name ends with the first colon; neither it nor a zero is in it.       *)
NameBytes == Byte \ {0, Colon}
SplitsOf(pair) == {i \in 1..Len(pair) : pair[i] = Colon /\ 0 \notin ToSet(SubSeq(pair, 1, i))}

(* So a pair is split where it was put together.                           *)
LEMMA PairSplit ==
  ASSUME NEW n \in Seq(NameBytes), NEW p \in Seq(Byte)
  PROVE  LET pair == (n \o <<Colon>>) \o p
         IN  /\ pair \in Seq(Byte) /\ SplitsOf(pair) # {} /\ Min(SplitsOf(pair)) = Len(n) + 1
             /\ SubSeq(pair, 1, Len(n)) = n /\ Drop(pair, Len(n) + 1) = p /\ Len(n) \in Nat
<1> DEFINE h == n \o <<Colon>>
           pair == h \o p
           k == Len(n)
           S == SplitsOf(pair)
<1>1. Colon \in Byte /\ Colon = 58 /\ NameBytes \subseteq Byte
  BY DEF Colon, Byte, NameBytes
<1>2. n \in Seq(Byte) /\ <<Colon>> \in Seq(Byte) /\ Len(<<Colon>>) = 1 /\ <<Colon>>[1] = Colon
  <2>1. n \in Seq(Byte)
    BY <1>1, SeqMonotonic
  <2> QED BY <1>1, <2>1, One
<1>3. \A i \in 1..k : n[i] \notin {0, Colon}
  BY LenProperties DEF NameBytes
<1>4. /\ h \in Seq(Byte) /\ Len(h) = k + 1 /\ k \in Nat
      /\ \A i \in 1..k : h[i] = n[i]
      /\ h[k + 1] = Colon /\ SubSeq(h, 1, k) = n
  <2>1. /\ h \in Seq(Byte) /\ Len(h) = k + Len(<<Colon>>) /\ k \in Nat
        /\ \A i \in 1..k : h[i] = n[i]
        /\ \A i \in 1..Len(<<Colon>>) : h[k + i] = <<Colon>>[i]
        /\ SubSeq(h, 1, k) = n
    BY <1>2, Joining
  <2>2. h[k + 1] = Colon
    BY <1>2, <2>1
  <2> QED BY <1>2, <2>1, <2>2
<1>5. /\ pair \in Seq(Byte) /\ Len(pair) = Len(h) + Len(p) /\ Len(p) \in Nat
      /\ \A i \in 1..Len(h) : pair[i] = h[i]
      /\ SubSeq(pair, 1, Len(h)) = h /\ Drop(pair, Len(h)) = p
  <2> HIDE DEF h
  <2> QED BY <1>4, Joining
<1> DEFINE lp == Len(p)
           l == Len(pair)
<1>6. l = k + 1 + lp /\ lp \in Nat /\ k \in Nat
  BY <1>4, <1>5
<1>7. SubSeq(pair, 1, k) = n
  <2>1. CASE k = 0
    <3>1. n = <<>>
      BY <2>1, EmptySeq
    <3>2. SubSeq(pair, 1, k) = <<>>
      <4> HIDE DEF pair, k
      <4> QED BY <2>1, SubSeqEmpty
    <3> QED BY <3>1, <3>2
  <2>2. CASE k # 0
    <3>1. k \in 1..Len(h) /\ 1 \in 1..Len(h)
      <4> HIDE DEF h, k
      <4> QED BY <1>4, <2>2
    <3>2. SubSeq(pair, 1, k) = SubSeq(h, 1, k)
      <4> HIDE DEF h, k
      <4> QED BY <1>4, <3>1, SubSeqOfConcat1
    <3> QED BY <1>4, <3>2
  <2> QED BY <2>1, <2>2
<1> HIDE DEF h, pair, k
<1>8. \A i \in 1..(k + 1) : pair[i] = IF i = k + 1 THEN Colon ELSE n[i]
  <2> HIDE DEF lp, l
  <2> SUFFICES ASSUME NEW i \in 1..(k + 1) PROVE pair[i] = IF i = k + 1 THEN Colon ELSE n[i]
    OBVIOUS
  <2>1. pair[i] = h[i]
    BY <1>4, <1>5
  <2>2. i # k + 1 => i \in 1..k
    BY <1>6
  <2> QED BY <1>4, <2>1, <2>2
<1>9. k + 1 \in S
  <2>1. k + 1 \in 1..l
    <3> HIDE DEF lp, l
    <3> QED BY <1>6
  <2>2. pair[k + 1] = Colon
    BY <1>4, <1>5, <1>8
  <2>3. SubSeq(pair, 1, k + 1) = h
    BY <1>4, <1>5
  <2>4. 0 \notin ToSet(h)
    <3>1. \A i \in 1..(k + 1) : h[i] # 0
      <4>1. \A i \in 1..(k + 1) : i = k + 1 \/ i \in 1..k
        BY <1>4
      <4>2. Colon # 0
        BY <1>1
      <4> QED BY <1>3, <1>4, <4>1, <4>2 DEF k
    <3> QED BY <1>4, <3>1 DEF ToSet
  <2> QED BY <2>1, <2>2, <2>3, <2>4 DEF SplitsOf
<1>10. S \subseteq Nat
  <2>1. S \subseteq 1..l
    BY DEF SplitsOf
  <2> HIDE DEF S, l
  <2> QED BY <2>1
<1>11. ASSUME NEW i \in S PROVE k + 1 <= i
  <2>1. i \in 1..l /\ pair[i] = Colon
    BY DEF SplitsOf
  <2>2. i \notin 1..k
    <3> SUFFICES ASSUME i \in 1..k PROVE FALSE
      OBVIOUS
    <3>1. i \in 1..(k + 1) /\ i # k + 1
      BY <1>4
    <3>2. pair[i] = n[i]
      BY <1>8, <3>1
    <3> QED BY <1>3, <2>1, <3>2 DEF k
  <2> HIDE DEF S, l, lp
  <2> QED BY <1>6, <2>1, <2>2
<1> HIDE DEF S
<1>12. Min(S) = k + 1
  BY <1>9, <1>10, <1>11, LeastIs
<1>13. Drop(pair, k + 1) = p
  BY <1>4, <1>5
<1> QED BY <1>4, <1>5, <1>7, <1>9, <1>12, <1>13 DEF S, k, pair, h

(* Those who may call: a name and a password, of which one may not have    *)
(* been given; the other is then read as empty.                            *)
IsCaller(cred) ==
  \E N, P :
    /\ cred = Credentials(N, P)
    /\ N = {} \/ \E n \in Seq(NameBytes) : N = {n}
    /\ P = {} \/ \E p \in Seq(Byte) : P = {p}
OrEmpty(S) == IF S = {} THEN {<<>>} ELSE S
AsRead(cred) == IF cred = Nobody THEN Nobody ELSE Credentials(OrEmpty(cred.name), OrEmpty(cred.pass))

(* What authenticate reads back of a line that addAuthentication has put   *)
(* into a header, and which frames nothing.                                *)
Tells(auth, cred) ==
  /\ auth \in ValueTexts /\ auth \in Without(Framers)
  /\ \A info : AddAuthentication(info, cred) = Over(Entry(KeyOfCaller, auth), info)
  /\ \A dict : KeyOfCaller \in DOMAIN dict /\ dict[KeyOfCaller] = auth =>
       Authenticate(dict) = {AsRead(cred)}

(* Bytes of base64 are what is behind "Basic".                             *)
LEMMA BasicValue ==
  ASSUME NEW b \in Seq(Coded)
  PROVE  /\ <<"Basic", " ">> \o b \in ValueTexts /\ IsPrefix(<<"Basic", " ">>, <<"Basic", " ">> \o b)
         /\ Drop(<<"Basic", " ">> \o b, 2) = b /\ <<"Basic", " ">> \o b \in Without(Framers)
<1> DEFINE basic == "Basic"
           bl == " "
           T == STRING \ {"\n"}
           s == <<basic, bl>> \o b
<1>1. basic \in Chars /\ bl \in Chars /\ basic \in T /\ bl \in T /\ basic # " "
  BY StringsAssumption DEF Names, Marks, Chars
<1>2. b \in Texts /\ b \in Seq(T)
  <2>1. Coded \subseteq T
    BY DEF Coded
  <2> HIDE DEF T
  <2> QED BY <2>1, CodedText, SeqMonotonic
<1>3. s[1] = basic /\ Drop(s, 2) = b /\ IsPrefix(<<basic, bl>>, s)
  <2> HIDE DEF basic, bl
  <2>1. basic \in Chars /\ bl \in Chars /\ b \in Texts
    BY <1>1, <1>2
  <2>2. s[1] = basic /\ Drop(s, 2) = b /\ \A c, d : IsPrefix(<<c, d>>, s) <=> c = basic /\ d = bl
    BY <2>1, PairFirst
  <2> HIDE DEF s
  <2> QED BY <2>2
<1>4. s \in Seq(T)
  <2> HIDE DEF basic, bl, T
  <2>1. <<basic, bl>> \in Seq(T)
    BY <1>1, Pair
  <2> QED BY <1>2, <2>1, ConcatProperties
<1>5. s \in Without(Framers)
  <2>1. b \in Without(Framers)
    <3>1. \A i \in 1..Len(b) : b[i] \in Coded
      BY ElementOfSeq
    <3>2. \A i \in 1..Len(b) : b[i] \notin Framers
      BY <3>1 DEF Coded
    <3> QED BY <1>2, <3>2 DEF Without
  <2>2. basic \notin Framers /\ bl \notin Framers
    BY DEF Framers, LengthNames
  <2> HIDE DEF basic, bl
  <2>3. <<basic, bl>> \in Without(Framers)
    <3>1. <<basic, bl>> \in Texts /\ Len(<<basic, bl>>) = 2
      BY <1>1, Pair DEF Texts, Chars
    <3>2. \A i \in 1..2 : <<basic, bl>>[i] \in {basic, bl}
      OBVIOUS
    <3> QED BY <2>2, <3>1, <3>2 DEF Without
  <2> QED BY <2>1, <2>3, WithoutClosed DEF IsClosed
<1> HIDE DEF s
<1>6. s \in ValueTexts
  BY <1>1, <1>3, <1>4 DEF ValueTexts
<1> QED BY <1>3, <1>5, <1>6 DEF s

(* Who calls is read from the line about them.                             *)
LEMMA CallerRead ==
  ASSUME NEW cred, IsCaller(cred), cred # Nobody
  PROVE  \E auth : Tells(auth, cred)
<1>1. PICK N, P : /\ cred = Credentials(N, P)
                  /\ N = {} \/ \E n \in Seq(NameBytes) : N = {n}
                  /\ P = {} \/ \E p \in Seq(Byte) : P = {p}
  BY DEF IsCaller
<1> DEFINE part(S) == IF S = {} THEN <<>> ELSE CHOOSE text \in S : TRUE
           n == part(N)
           p == part(P)
           pair == (n \o <<Colon>>) \o p
           b == BytesText(pair)
           auth == <<"Basic", " ">> \o b
<1>2. n \in Seq(NameBytes) /\ OrEmpty(N) = {n}
  BY <1>1, EmptySeq DEF OrEmpty
<1>3. p \in Seq(Byte) /\ OrEmpty(P) = {p}
  BY <1>1, EmptySeq DEF OrEmpty
<1>4. cred.name = N /\ cred.pass = P
  BY <1>1 DEF Credentials
<1>5. ASSUME NEW info PROVE AddAuthentication(info, cred) = Over(Entry(KeyOfCaller, auth), info)
  BY <1>4 DEF AddAuthentication, KeyOfCaller
<1> HIDE DEF part, n, p
<1> DEFINE S == SplitsOf(pair)
<1>6. /\ pair \in Seq(Byte) /\ S # {} /\ Min(S) = Len(n) + 1
      /\ SubSeq(pair, 1, Len(n)) = n /\ Drop(pair, Len(n) + 1) = p /\ Len(n) \in Nat
  BY <1>2, <1>3, PairSplit
<1>7. SubSeq(pair, 1, Min(S) - 1) = n /\ Drop(pair, Min(S)) = p
  <2> DEFINE k == Len(n)
  <2>1. k \in Nat /\ Min(S) = k + 1
    BY <1>6
  <2> HIDE DEF k, S
  <2>2. Min(S) - 1 = k
    BY <2>1
  <2> HIDE DEF pair
  <2> QED BY <1>6, <2>1, <2>2 DEF k
<1> HIDE DEF pair
<1>8. b \in Seq(Coded) /\ BytesOf(b) = {pair}
  BY <1>6, BytesRead
<1> HIDE DEF b
<1>9. /\ auth \in ValueTexts /\ IsPrefix(<<"Basic", " ">>, auth) /\ Drop(auth, 2) = b
      /\ auth \in Without(Framers)
  BY <1>8, BasicValue
<1>10. AsRead(cred) = Credentials({n}, {p})
  BY <1>2, <1>3, <1>4 DEF AsRead
<1> HIDE DEF auth
<1>11. ASSUME NEW dict, KeyOfCaller \in DOMAIN dict, dict[KeyOfCaller] = auth
       PROVE  Authenticate(dict) = {AsRead(cred)}
  <2> DEFINE split(q) == {i \in 1..Len(q) : q[i] = Colon /\ 0 \notin ToSet(SubSeq(q, 1, i))}
             read(Q) == {Credentials({SubSeq(q, 1, Min(split(q)) - 1)}, {Drop(q, Min(split(q)))}) :
                           q \in {r \in Q : split(r) # {}}}
             of(q) == Credentials({SubSeq(q, 1, Min(split(q)) - 1)}, {Drop(q, Min(split(q)))})
             can(q) == split(q) # {}
  <2>1. Authenticate(dict) = read(BytesOf(Drop(auth, 2)))
    BY <1>9, <1>11 DEF Authenticate, KeyOfCaller
  <2>2. split(pair) = S
    BY DEF S, SplitsOf
  <2>3. read({pair}) = {of(q) : q \in {r \in {pair} : can(r)}}
    OBVIOUS
  <2>4. of(pair) = Credentials({n}, {p}) /\ can(pair)
    <3> HIDE DEF split
    <3> QED BY <1>6, <1>7, <2>2
  <2> HIDE DEF of, can, read
  <2>5. {of(q) : q \in {r \in {pair} : can(r)}} = {of(pair)}
    BY <2>4
  <2> QED BY <1>8, <1>9, <1>10, <2>1, <2>3, <2>4, <2>5
<1>12. Tells(auth, cred)
  BY <1>5, <1>9, <1>11 DEF Tells
<1> QED BY <1>12

-----------------------------------------------------------------------------
(* Headers of messages.                                                    *)

(* What a caller's own header lines and name may be, so that they are read *)
(* as they were given: no line that frames the message, and a name only    *)
(* with a call.                                                            *)
IsSent(m) ==
  /\ IsInfo(m.info)
  /\ \A name \in DOMAIN m.info :
       Capitalized(name) \notin {KeyOfType, KeyOfLength, KeyOfCoding, KeyOfCaller}
  /\ IsCaller(m.cred)
  /\ m.type # "call" => m.cred = Nobody

(* A dictionary that has the lines and the name of a message.              *)
DictSays(f, m) ==
  /\ \A name \in DOMAIN m.info : Capitalized(name) \in DOMAIN f /\ f[Capitalized(name)] = m.info[name]
  /\ m.cred = Nobody => KeyOfCaller \notin DOMAIN f
  /\ m.cred # Nobody => KeyOfCaller \in DOMAIN f /\ Tells(f[KeyOfCaller], m.cred)

(* It still has them when another is put under it.                         *)
LEMMA StillSays ==
  ASSUME NEW m, NEW f, DictSays(f, m), NEW g, KeyOfCaller \notin DOMAIN g
  PROVE  DictSays(Over(f, g), m)
<1> DEFINE o == Over(f, g)
<1>1. DOMAIN o = DOMAIN f \cup DOMAIN g /\ \A k \in DOMAIN f : o[k] = f[k]
  BY OverIs
<1> HIDE DEF o
<1>2. \A name \in DOMAIN m.info : Capitalized(name) \in DOMAIN o /\ o[Capitalized(name)] = m.info[name]
  BY <1>1 DEF DictSays
<1>3. m.cred = Nobody => KeyOfCaller \notin DOMAIN o
  BY <1>1 DEF DictSays
<1>4. m.cred # Nobody => KeyOfCaller \in DOMAIN o /\ Tells(o[KeyOfCaller], m.cred)
  BY <1>1 DEF DictSays
<1>5. DictSays(o, m)
  BY <1>2, <1>3, <1>4, Zenon DEF DictSays
<1> QED BY <1>5 DEF o

(* And when it is put over one of other keys.                              *)
LEMMA SaysToo ==
  ASSUME NEW m, NEW f, DictSays(f, m), NEW g, KeyOfCaller \notin DOMAIN g,
         \A name \in DOMAIN m.info : Capitalized(name) \notin DOMAIN g
  PROVE  DictSays(Over(g, f), m)
<1> DEFINE o == Over(g, f)
<1>1. DOMAIN o = DOMAIN g \cup DOMAIN f /\ \A k \in DOMAIN f : k \notin DOMAIN g => o[k] = f[k]
  BY OverIs
<1> HIDE DEF o
<1>2. \A name \in DOMAIN m.info : Capitalized(name) \in DOMAIN o /\ o[Capitalized(name)] = m.info[name]
  BY <1>1 DEF DictSays
<1>3. m.cred = Nobody => KeyOfCaller \notin DOMAIN o
  BY <1>1 DEF DictSays
<1>4. m.cred # Nobody => KeyOfCaller \in DOMAIN o /\ Tells(o[KeyOfCaller], m.cred)
  BY <1>1 DEF DictSays
<1>5. DictSays(o, m)
  BY <1>2, <1>3, <1>4, Zenon DEF DictSays
<1> QED BY <1>5 DEF o

(* authenticate reads the caller's name from it.                           *)
LEMMA CallerSaid ==
  ASSUME NEW m, NEW f, DictSays(f, m)
  PROVE  Authenticate(f) = {AsRead(m.cred)}
<1>1. CASE m.cred = Nobody
  <2>1. KeyOfCaller \notin DOMAIN f
    BY <1>1 DEF DictSays
  <2>2. Authenticate(f) = {Nobody}
    BY <2>1 DEF Authenticate, KeyOfCaller
  <2> QED BY <1>1, <2>2 DEF AsRead
<1>2. CASE m.cred # Nobody
  BY <1>2 DEF DictSays, Tells
<1> QED BY <1>1, <1>2

(* The lines that addAuthentication makes of a caller's and the caller's   *)
(* name.                                                                   *)
WithCaller(m, info) ==
  \E auth :
    /\ Tells(auth, m.cred) /\ info[KeyOfCaller] = auth
    /\ DOMAIN info = {KeyOfCaller} \cup DOMAIN m.info /\ \A n \in DOMAIN m.info : info[n] = m.info[n]

(* Lines that frame nothing.                                               *)
IsUnframed(info) ==
  \A n \in DOMAIN info : n \in Without(Framers) /\ info[n] \in Without(Framers)

(* They can be sent, and frame nothing if the caller's do not.             *)
LEMMA SentInfo ==
  ASSUME NEW m, IsSent(m)
  PROVE  LET info == AddAuthentication(m.info, m.cred)
         IN  /\ IsInfo(info) /\ (IsUnframed(m.info) => IsUnframed(info))
             /\ IF m.cred = Nobody THEN info = m.info ELSE WithCaller(m, info)
<1> DEFINE D == DOMAIN m.info
           info == AddAuthentication(m.info, m.cred)
<1>1. /\ IsInfo(m.info) /\ IsCaller(m.cred)
      /\ \A name \in D : Capitalized(name) # KeyOfCaller
  BY DEF IsSent
<1>2. CASE m.cred = Nobody
  <2>1. info = m.info
    BY <1>2 DEF AddAuthentication
  <2> QED BY <1>1, <1>2, <2>1
<1>3. CASE m.cred # Nobody
  <2>1. PICK auth : Tells(auth, m.cred)
    BY <1>1, <1>3, CallerRead
  <2> DEFINE e == Entry(KeyOfCaller, auth)
  <2>2. info = Over(e, m.info) /\ auth \in ValueTexts /\ auth \in Without(Framers)
    BY <2>1 DEF Tells
  <2>3. DOMAIN e = {KeyOfCaller} /\ e[KeyOfCaller] = auth
    BY EntryIs
  <2> HIDE DEF info, e
  <2>4. /\ DOMAIN info = DOMAIN e \cup D
        /\ \A k \in DOMAIN e : info[k] = e[k]
        /\ \A k \in D : k \notin DOMAIN e => info[k] = m.info[k]
    <3> DEFINE o == Over(e, m.info)
    <3>1. /\ DOMAIN o = DOMAIN e \cup D
          /\ \A k \in DOMAIN e : o[k] = e[k]
          /\ \A k \in D : k \notin DOMAIN e => o[k] = m.info[k]
      BY OverIs
    <3>2. info = o
      BY <2>2
    <3> HIDE DEF o, D
    <3> QED BY <3>1, <3>2
  <2>5. KeyOfCaller \notin D /\ Capitalized(KeyOfCaller) = KeyOfCaller
    BY <1>1, OwnNames
  <2>6. /\ DOMAIN info = {KeyOfCaller} \cup D /\ info[KeyOfCaller] = auth
        /\ \A k \in D : info[k] = m.info[k]
    BY <2>3, <2>4, <2>5
  <2>7. KeyOfCaller \in NameTexts /\ KeyOfCaller \in Without(Framers)
    <3> DEFINE c == "Authorization"
    <3>1. c \in Chars /\ c \notin {":", "\n"} /\ c \notin Framers
      BY StringsAssumption DEF Names, Chars, Framers, LengthNames
    <3>2. <<c>> \in NameTexts /\ Len(<<c>>) = 1 /\ \A i \in 1..1 : <<c>>[i] = c
      <4> HIDE DEF c
      <4> QED BY <3>1, OneName
    <3>3. <<c>> \in Without(Framers)
      <4> HIDE DEF c
      <4> QED BY <3>1, <3>2, LineTexts DEF Without
    <3> QED BY <3>2, <3>3 DEF KeyOfCaller
  <2>8. IsInfo(info)
    <3>1. IsFiniteSet(DOMAIN info)
      <4>1. IsFiniteSet(D)
        BY <1>1 DEF IsInfo
      <4>2. IsFiniteSet(D \cup {KeyOfCaller})
        BY <4>1, FS_AddElement
      <4>3. D \cup {KeyOfCaller} = DOMAIN info
        BY <2>6
      <4> QED BY <4>2, <4>3
    <3>2. DOMAIN info \subseteq NameTexts /\ \A n \in DOMAIN info : info[n] \in ValueTexts
      BY <1>1, <2>2, <2>6, <2>7 DEF IsInfo
    <3>3. \A k, n \in DOMAIN info : Capitalized(k) = Capitalized(n) => k = n
      BY <1>1, <2>5, <2>6 DEF IsInfo
    <3> QED BY <3>1, <3>2, <3>3 DEF IsInfo
  <2>9. IsUnframed(m.info) => IsUnframed(info)
    BY <2>2, <2>6, <2>7 DEF IsUnframed
  <2>10. WithCaller(m, info)
    BY <2>1, <2>6 DEF WithCaller
  <2> QED BY <1>3, <2>8, <2>9, <2>10 DEF info
<1> QED BY <1>2, <1>3

(* The lines of a message are read as such a dictionary.                   *)
LEMMA SentLinesRead ==
  ASSUME NEW m, IsSent(m)
  PROVE  \E dict : LinesRead(InfoLines(AddAuthentication(m.info, m.cred)), dict) /\ DictSays(dict, m)
<1> DEFINE D == DOMAIN m.info
           info == AddAuthentication(m.info, m.cred)
<1>1. /\ IsInfo(info) /\ IF m.cred = Nobody THEN info = m.info ELSE WithCaller(m, info)
      /\ \A name \in D : Capitalized(name) # KeyOfCaller
  BY SentInfo DEF IsSent
<1> HIDE DEF info
<1>2. PICK dict : LinesRead(InfoLines(info), dict) /\ Says(dict, info, DOMAIN info)
  BY <1>1, InfoRead
<1>3. /\ DOMAIN dict = {Capitalized(n) : n \in DOMAIN info}
      /\ \A n \in DOMAIN info : dict[Capitalized(n)] = info[n]
  BY <1>2 DEF Says
<1>4. CASE m.cred = Nobody
  <2>1. KeyOfCaller \notin DOMAIN dict
    BY <1>1, <1>3, <1>4
  <2>2. DictSays(dict, m)
    BY <1>1, <1>3, <1>4, <2>1 DEF DictSays
  <2> QED BY <1>2, <2>2 DEF info
<1>5. CASE m.cred # Nobody
  <2>1. PICK auth :
          /\ Tells(auth, m.cred) /\ info[KeyOfCaller] = auth
          /\ DOMAIN info = {KeyOfCaller} \cup D /\ \A n \in D : info[n] = m.info[n]
    BY <1>1, <1>5 DEF WithCaller
  <2>2. KeyOfCaller \in DOMAIN dict /\ dict[KeyOfCaller] = auth
    BY <1>3, <2>1, OwnNames
  <2>3. \A name \in D : Capitalized(name) \in DOMAIN dict /\ dict[Capitalized(name)] = m.info[name]
    BY <1>3, <2>1
  <2>4. DictSays(dict, m)
    BY <1>5, <2>1, <2>2, <2>3 DEF DictSays
  <2> QED BY <1>2, <2>4 DEF info
<1> QED BY <1>4, <1>5

(* The lines that frame a message, behind those: they say nothing that the *)
(* caller says too.                                                        *)
IsFraming(m, own) ==
  \E dict : /\ LinesRead(own, dict) /\ KeyOfCaller \notin DOMAIN dict
            /\ \A name \in DOMAIN m.info : Capitalized(name) \notin DOMAIN dict

(* Two such together are another.                                          *)
LEMMA FramingOfTwo ==
  ASSUME NEW m, NEW a, IsFraming(m, a), NEW b, IsFraming(m, b)
  PROVE  IsFraming(m, a \o b) /\ a \in Texts /\ b \in Texts
<1>1. PICK f : /\ LinesRead(a, f) /\ KeyOfCaller \notin DOMAIN f
               /\ \A name \in DOMAIN m.info : Capitalized(name) \notin DOMAIN f
  BY DEF IsFraming
<1>2. PICK g : /\ LinesRead(b, g) /\ KeyOfCaller \notin DOMAIN g
               /\ \A name \in DOMAIN m.info : Capitalized(name) \notin DOMAIN g
  BY DEF IsFraming
<1> DEFINE o == Over(g, f)
<1>3. LinesRead(a \o b, o)
  BY <1>1, <1>2, MoreLinesRead
<1>4. DOMAIN o = DOMAIN g \cup DOMAIN f
  BY OverIs
<1> HIDE DEF o
<1>5. KeyOfCaller \notin DOMAIN o /\ \A name \in DOMAIN m.info : Capitalized(name) \notin DOMAIN o
  BY <1>1, <1>2, <1>4
<1>6. IsFraming(m, a \o b)
  BY <1>3, <1>5 DEF IsFraming
<1> QED BY <1>1, <1>2, <1>6 DEF LinesRead

(* The type, the length and the coding are.                                *)
LEMMA Framings ==
  ASSUME NEW m, IsSent(m)
  PROVE  /\ IsFraming(m, TypeLine) /\ \A n \in Nat : IsFraming(m, LengthLine(n))
         /\ IsFraming(m, HeaderLine(<<"Transfer-Encoding">>, <<"chunked">>))
<1>1. \A name \in DOMAIN m.info :
        Capitalized(name) # KeyOfType /\ Capitalized(name) # KeyOfLength /\ Capitalized(name) # KeyOfCoding
  BY DEF IsSent
<1>2. KeyOfCaller # KeyOfType /\ KeyOfCaller # KeyOfLength /\ KeyOfCaller # KeyOfCoding
  BY DEF KeyOfCaller, KeyOfType, KeyOfLength, KeyOfCoding
<1>3. ASSUME NEW text, NEW key, NEW val, LinesRead(text, Entry(key, val)),
             key \in {KeyOfType, KeyOfLength, KeyOfCoding}
      PROVE  IsFraming(m, text)
  <2> DEFINE e == Entry(key, val)
  <2>1. DOMAIN e = {key}
    BY EntryIs
  <2> HIDE DEF e
  <2>2. KeyOfCaller \notin DOMAIN e /\ \A name \in DOMAIN m.info : Capitalized(name) \notin DOMAIN e
    BY <1>1, <1>2, <1>3, <2>1
  <2>3. LinesRead(text, e)
    BY <1>3 DEF e
  <2> QED BY <2>2, <2>3 DEF IsFraming
<1>4. IsFraming(m, TypeLine)
  BY <1>3, TypeRead
<1>5. \A n \in Nat : IsFraming(m, LengthLine(n))
  BY <1>3, LengthRead
<1> DEFINE name == "Transfer-Encoding"
           chunked == "chunked"
           coding == HeaderLine(<<name>>, <<chunked>>)
<1>6. LinesRead(coding, Entry(KeyOfCoding, <<chunked>>))
  <2>1. /\ name \in Chars /\ chunked \in Chars /\ name \notin {":", "\n"}
        /\ chunked \notin {" ", "\n"}
    BY StringsAssumption DEF Names, Chars
  <2>2. Capitalized(<<name>>) = KeyOfCoding
    BY OwnNames
  <2> HIDE DEF name, chunked
  <2>3. LinesRead(HeaderLine(<<name>>, <<chunked>>), Entry(Capitalized(<<name>>), <<chunked>>))
    BY <2>1, OneName, OneToken, OneLineRead
  <2> QED BY <2>2, <2>3
<1> HIDE DEF coding
<1>7. IsFraming(m, coding)
  BY <1>3, <1>6
<1> QED BY <1>4, <1>5, <1>7 DEF coding

(* They are read behind the caller's.                                      *)
LEMMA TailRead ==
  ASSUME NEW m, IsSent(m), NEW own, IsFraming(m, own), NEW y \in Texts
  PROVE  LET lines == InfoLines(AddAuthentication(m.info, m.cred))
         IN  /\ lines \in Texts /\ own \in Texts
             /\ \E f : ReadsAs(lines \o (own \o (CrLf \o y)), f, y) /\ DictSays(f, m)
<1> DEFINE lines == InfoLines(AddAuthentication(m.info, m.cred))
           w0 == CrLf \o y
           w1 == own \o w0
<1>1. PICK dict : LinesRead(lines, dict) /\ DictSays(dict, m)
  BY SentLinesRead
<1>2. PICK e : /\ LinesRead(own, e) /\ KeyOfCaller \notin DOMAIN e
               /\ \A name \in DOMAIN m.info : Capitalized(name) \notin DOMAIN e
  BY DEF IsFraming
<1>3. ReadsAs(w0, <<>>, y)
  BY EndReads
<1> HIDE DEF lines, w0
<1> DEFINE f1 == Over(<<>>, e)
<1>4. ReadsAs(w1, f1, y)
  BY <1>2, <1>3, LinesReads
<1>5. DOMAIN f1 = DOMAIN e
  <2>1. DOMAIN <<>> = {}
    OBVIOUS
  <2>2. DOMAIN f1 = DOMAIN <<>> \cup DOMAIN e
    BY OverIs
  <2> HIDE DEF f1
  <2> QED BY <2>1, <2>2
<1> HIDE DEF w1, f1
<1>6. ReadsAs(lines \o w1, Over(f1, dict), y)
  BY <1>1, <1>4, LinesReads
<1>7. DictSays(Over(f1, dict), m)
  BY <1>1, <1>2, <1>5, SaysToo
<1>8. lines \in Texts /\ own \in Texts
  BY <1>1, <1>2 DEF LinesRead
<1>9. \E f : ReadsAs(lines \o w1, f, y) /\ DictSays(f, m)
  BY <1>6, <1>7
<1> QED BY <1>8, <1>9 DEF lines, w1, w0

(* A header and a text that follows it, from its first line on.            *)
LEMMA HeaderFirst ==
  ASSUME NEW a \in Texts, NEW b \in Texts, NEW c \in Texts, NEW d \in Texts, NEW e \in Texts, NEW f \in Texts,
         NEW y \in Texts
  PROVE  /\ ((a \o b) \o c) \o d \in Texts
         /\ Same((((((a \o b) \o c) \o d) \o e) \o f) \o y, a \o (b \o (c \o (d \o (e \o (f \o y))))))
<1> DEFINE h == ((a \o b) \o c) \o d
           q == h \o e
           z == f \o y
<1>1. h \in Texts
  <2>1. IsLong(a, b, c, d)
    BY FourLong
  <2> QED BY <2>1 DEF IsLong
<1>2. q \in Texts
  <2> HIDE DEF h
  <2> QED BY <1>1, Concat
<1>3. z \in Texts
  BY Concat
<1>4. IsAssociative(q, f, y)
  <2> HIDE DEF q
  <2> QED BY <1>2, Associative
<1>5. Same(q \o z, a \o (b \o (c \o (d \o (e \o z)))))
  <2> HIDE DEF z
  <2> QED BY <1>3, Six DEF h, q
<1> HIDE DEF q
<1>6. (q \o f) \o y = q \o z
  BY <1>4 DEF IsAssociative
<1> HIDE DEF z
<1>7. Same((q \o f) \o y, a \o (b \o (c \o (d \o (e \o z)))))
  BY <1>5, <1>6 DEF Same
<1> QED BY <1>1, <1>7 DEF q, h, z

(* The line of the program's name in a request, up to its end.             *)
CallerOf == (<<"User-Agent">> \o <<":", " ">>) \o <<"py-xmlrpc">>

(* It is one line.                                                         *)
LEMMA CallerOfIs == CallerOf \in Texts /\ \A i \in 1..Len(CallerOf) : CallerOf[i] # "\n"
<1> DEFINE T == STRING \ {"\n"}
           name == "User-Agent"
           co == ":"
           bl == " "
           py == "py-xmlrpc"
           t == (<<name>> \o <<co, bl>>) \o <<py>>
<1>1. name \in T /\ co \in T /\ bl \in T /\ py \in T
  <2>1. name \in Chars /\ co \in Chars /\ bl \in Chars /\ py \in Chars
    BY StringsAssumption DEF Marks, Names, Chars
  <2>2. name # "\n" /\ co # "\n" /\ bl # "\n" /\ py # "\n"
    OBVIOUS
  <2> QED BY <2>1, <2>2 DEF Chars
<1>2. T \subseteq STRING /\ \A c \in T : c # "\n"
  OBVIOUS
<1>3. CallerOf = t
  BY DEF CallerOf
<1> HIDE DEF T, name, co, bl, py
<1>4. <<name>> \in Seq(T) /\ <<co, bl>> \in Seq(T) /\ <<py>> \in Seq(T)
  BY <1>1, One, Pair
<1>5. t \in Seq(T)
  <2>1. <<name>> \o <<co, bl>> \in Seq(T)
    BY <1>4, ConcatProperties
  <2> QED BY <1>4, <2>1, ConcatProperties
<1> HIDE DEF t
<1>6. t \in Texts
  BY <1>2, <1>5, SeqMonotonic DEF Texts
<1>7. \A i \in 1..Len(t) : t[i] \in T
  BY <1>5, ElementOfSeq
<1> QED BY <1>2, <1>3, <1>6, <1>7

(* The header of a message, with other lines to frame it.                  *)
WithFrame(m, own) == (StartLines(m) \o own) \o CrLf

(* What a call's header is read as, before a text that starts with no      *)
(* blank: the lines it says, and the text.                                 *)
LEMMA CallHeaderRead ==
  ASSUME NEW m, IsSent(m), m.type = "call", NEW own, IsFraming(m, own), NEW y, Solid(y)
  PROVE  /\ StartLines(m) \in Texts
         /\ \E f : ParseHeader("call", WithFrame(m, own) \o y) = {[info |-> f, rest |-> y]} /\ DictSays(f, m)
<1> DEFINE lines == InfoLines(AddAuthentication(m.info, m.cred))
           w == lines \o (own \o (CrLf \o y))
           a == StartOf("call")
           c == CallerOf \o CrLf
<1>1. y \in Texts /\ CrLf \in Texts /\ CallerOf \in Texts /\ \A i \in 1..Len(CallerOf) : CallerOf[i] # "\n"
  BY CrLfFirst, CallerOfIs DEF Solid
<1>2. lines \in Texts /\ own \in Texts /\ \E f : ReadsAs(w, f, y) /\ DictSays(f, m)
  BY <1>1, TailRead
<1> HIDE DEF lines
<1>3. PICK f : ReadsAs(w, f, y) /\ DictSays(f, m)
  BY <1>2
<1>4. a \in Texts
  <2> DEFINE post == "POST"
             bl == " "
             uri == "/RPC2"
             http == "HTTP/1.1"
  <2>1. post \in Chars /\ bl \in Chars /\ uri \in Chars /\ http \in Chars
    BY StringsAssumption DEF Marks, Names, Chars
  <2>2. a = <<post, bl, uri, bl, http>>
    BY DEF StartOf
  <2> HIDE DEF post, bl, uri, http, a
  <2>3. <<post, bl, uri, bl, http>> \in Texts
    BY <1>1, <2>1, FiveFirst
  <2> QED BY <2>2, <2>3
<1> HIDE DEF a
<1>5. c \in Texts
  BY <1>1, Concat
<1>6. StartLines(m) = ((a \o CrLf) \o c) \o lines
  BY DEF StartLines, HeaderLine, StartOf, a, c, CallerOf, lines
<1>7. c \o w = CallerOf \o (CrLf \o w)
  <2>1. w \in Texts
    BY <1>3 DEF ReadsAs
  <2> HIDE DEF w
  <2>2. IsAssociative(CallerOf, CrLf, w)
    BY <1>1, <2>1, Associative
  <2> QED BY <2>2 DEF IsAssociative
<1> HIDE DEF c
<1>8. /\ ((a \o CrLf) \o c) \o lines \in Texts
      /\ Same((((((a \o CrLf) \o c) \o lines) \o own) \o CrLf) \o y, a \o (CrLf \o (c \o w)))
  BY <1>1, <1>2, <1>4, <1>5, HeaderFirst
<1> HIDE DEF w
<1>9. WithFrame(m, own) \o y = a \o (CrLf \o (CallerOf \o (CrLf \o w)))
  BY <1>6, <1>7, <1>8 DEF Same, WithFrame
<1>10. ParseHeader("call", a \o (CrLf \o (CallerOf \o (CrLf \o w)))) =
         {[info |-> Over(f, FirstOf("call")), rest |-> y]}
  BY <1>1, <1>3, RequestLineRead DEF a
<1>11. KeyOfCaller \notin DOMAIN FirstOf("call")
  <2> DEFINE e == Entry(<<"URI">>, <<"/RPC2">>)
             o == Over(Version, e)
  <2>1. DOMAIN o = DOMAIN Version \cup DOMAIN e
    BY OverIs
  <2>2. DOMAIN Version = {<<"HTTP Version">>} /\ DOMAIN e = {<<"URI">>}
    BY EntryIs DEF Version
  <2>3. FirstOf("call") = o
    BY DEF FirstOf
  <2> HIDE DEF o, e
  <2>4. KeyOfCaller # <<"HTTP Version">> /\ KeyOfCaller # <<"URI">>
    BY DEF KeyOfCaller
  <2> QED BY <2>1, <2>2, <2>3, <2>4
<1> DEFINE first == FirstOf("call")
<1> HIDE DEF first
<1>12. DictSays(Over(f, first), m)
  BY <1>3, <1>11, StillSays DEF first
<1>13. ParseHeader("call", WithFrame(m, own) \o y) = {[info |-> Over(f, first), rest |-> y]}
  BY <1>9, <1>10 DEF first
<1> QED BY <1>6, <1>8, <1>12, <1>13

(* The same of a response or a fault.                                      *)
LEMMA ResponseHeaderRead ==
  ASSUME NEW m, IsSent(m), m.type # "call", NEW own, IsFraming(m, own), NEW y, Solid(y)
  PROVE  /\ StartLines(m) \in Texts
         /\ \E f : ParseHeader(m.type, WithFrame(m, own) \o y) = {[info |-> f, rest |-> y]} /\ DictSays(f, m)
<1> DEFINE lines == InfoLines(AddAuthentication(m.info, m.cred))
           w == lines \o (own \o (CrLf \o y))
           type == m.type
           a == StartOf(type)
           server == Entry(KeyOfServer, <<"py-xmlrpc">>)
<1>1. y \in Texts /\ CrLf \in Texts /\ ServerLine \in Texts
  BY CrLfFirst, ServerLineRead DEF Solid, LinesRead
<1>2. lines \in Texts /\ own \in Texts /\ \E f : ReadsAs(w, f, y) /\ DictSays(f, m)
  BY <1>1, TailRead
<1> HIDE DEF lines
<1>3. PICK f : ReadsAs(w, f, y) /\ DictSays(f, m)
  BY <1>2
<1>4. a \in Texts
  <2> DEFINE http == "HTTP/1.1"
             bl == " "
             code == "200"
             ok == "OK"
  <2>1. http \in Chars /\ bl \in Chars /\ code \in Chars /\ ok \in Chars
    BY StringsAssumption DEF Marks, Names, Chars
  <2>2. a = <<http, bl, code, bl, ok>>
    BY DEF StartOf
  <2> HIDE DEF http, bl, code, ok, a
  <2>3. <<http, bl, code, bl, ok>> \in Texts
    BY <1>1, <2>1, FiveFirst
  <2> QED BY <2>2, <2>3
<1> HIDE DEF a
<1>5. StartLines(m) = ((a \o CrLf) \o ServerLine) \o lines
  BY DEF StartLines, StartOf, a, ServerLine, lines
<1> HIDE DEF w
<1>6. /\ ((a \o CrLf) \o ServerLine) \o lines \in Texts
      /\ Same((((((a \o CrLf) \o ServerLine) \o lines) \o own) \o CrLf) \o y, a \o (CrLf \o (ServerLine \o w)))
  BY <1>1, <1>2, <1>4, HeaderFirst DEF w
<1>7. WithFrame(m, own) \o y = a \o (CrLf \o (ServerLine \o w))
  BY <1>5, <1>6 DEF Same, WithFrame
<1> HIDE DEF server, type
<1> DEFINE g == Over(f, server)
           first == FirstOf(type)
<1>8. ReadsAs(ServerLine \o w, g, y)
  BY <1>3, ServerLineRead, LinesReads DEF server
<1>9. type # "call"
  BY DEF type
<1>10. ParseHeader(type, a \o (CrLf \o (ServerLine \o w))) = {[info |-> Over(g, first), rest |-> y]}
  <2> HIDE DEF g
  <2> QED BY <1>8, <1>9, StatusRead DEF a
<1>11. KeyOfCaller \notin DOMAIN server
  <2>1. DOMAIN server = {KeyOfServer}
    BY EntryIs DEF server
  <2> QED BY <2>1 DEF KeyOfCaller, KeyOfServer
<1>12. KeyOfCaller \notin DOMAIN first
  <2> DEFINE o == Over(Version, <<>>)
  <2>1. DOMAIN o = DOMAIN Version \cup DOMAIN <<>>
    BY OverIs
  <2>2. DOMAIN Version = {<<"HTTP Version">>}
    BY EntryIs DEF Version
  <2>3. DOMAIN <<>> = {}
    OBVIOUS
  <2>4. first = o
    BY <1>9 DEF FirstOf
  <2> HIDE DEF o, first
  <2>5. KeyOfCaller # <<"HTTP Version">>
    BY DEF KeyOfCaller
  <2> QED BY <2>1, <2>2, <2>3, <2>4, <2>5
<1>13. DictSays(g, m)
  BY <1>3, <1>11, StillSays
<1> HIDE DEF g, first
<1>14. DictSays(Over(g, first), m)
  BY <1>12, <1>13, StillSays
<1>15. ParseHeader(type, WithFrame(m, own) \o y) = {[info |-> Over(g, first), rest |-> y]}
  BY <1>7, <1>10
<1> QED BY <1>5, <1>6, <1>14, <1>15 DEF type

-----------------------------------------------------------------------------
(* How headers frame what is behind them.                                  *)

(* Lines of a dictionary are in a set that holds each of them.             *)
LEMMA InfoLinesIn ==
  ASSUME NEW Q, IsClosed(Q), NEW info, IsFiniteSet(DOMAIN info),
         \A n \in DOMAIN info : HeaderLine(n, info[n]) \in Q
  PROVE  InfoLines(info) \in Q
<1> DEFINE D == DOMAIN info
           g == [n \in D |-> HeaderLine(n, info[n])]
           S == {L \in Seq(D) : Joined[Mapped(g, L)] \in Q}
<1>1. Q \subseteq Texts /\ <<>> \in Q /\ \A a, b \in Q : a \o b \in Q
  BY DEF IsClosed
<1>2. g \in [D -> Texts] /\ \A n \in D : g[n] \in Q
  BY <1>1
<1>3. <<>> \in S
  <2>1. Joined[Mapped(g, <<>>)] = <<>>
    <3> HIDE DEF g
    <3> QED BY JoinedNone
  <2>2. <<>> \in Seq(D)
    BY EmptySeq
  <2> QED BY <1>1, <2>1, <2>2
<1>4. ASSUME NEW L \in Seq(D), NEW e \in D, L \in S
      PROVE  <<e>> \o L \in S
  <2>1. <<e>> \o L \in Seq(D)
    BY ConsTail
  <2>2. Joined[Mapped(g, <<e>> \o L)] = g[e] \o Joined[Mapped(g, L)]
    <3>1. Same(Joined[Mapped(g, <<e>> \o L)], g[e] \o Joined[Mapped(g, L)])
      <4> HIDE DEF g
      <4> QED BY <1>2, JoinedCons
    <3> QED BY <3>1 DEF Same
  <2>3. g[e] \o Joined[Mapped(g, L)] \in Q
    <3> HIDE DEF g
    <3> QED BY <1>1, <1>2, <1>4
  <2> HIDE DEF g
  <2> QED BY <2>1, <2>2, <2>3
<1>5. Seq(D) \subseteq S
  <2> HIDE DEF S
  <2> QED BY <1>3, <1>4, TailInduction
<1> DEFINE names == SetToSeq(D)
<1>6. names \in Seq(D) /\ ToSet(names) = D
  BY Listed
<1>7. InfoLines(info) = Joined[Mapped(g, names)]
  <2> HIDE DEF names
  <2>1. [i \in 1..Len(names) |-> HeaderLine(names[i], info[names[i]])] = Mapped(g, names)
    BY <1>6, LenProperties DEF Mapped
  <2> QED BY <2>1 DEF names, InfoLines
<1> HIDE DEF names, g
<1> QED BY <1>5, <1>6, <1>7

(* One token.                                                              *)
LEMMA OneWithout == ASSUME NEW N, NEW c \in Chars, c \notin N PROVE <<c>> \in Without(N)
<1>1. <<c>> \in Seq(Chars)
  BY One
<1>2. <<c>> \in Texts
  BY <1>1 DEF Texts, Chars
<1>3. Len(<<c>>) = 1 /\ <<c>>[1] = c
  OBVIOUS
<1>4. ASSUME NEW i \in 1..Len(<<c>>) PROVE <<c>>[i] \notin N
  <2>1. i = 1
    BY <1>3
  <2> QED BY <1>3, <2>1
<1> QED BY <1>2, <1>4 DEF Without

(* A line of one token and another.                                        *)
LEMMA TokenLine ==
  ASSUME NEW c \in Chars, c \notin {":", "\n"} \cup Framers,
         NEW d \in Chars, d \notin {" ", "\n"} \cup Framers
  PROVE  HeaderLine(<<c>>, <<d>>) \in Quiet
<1>1. <<c>> \in NameTexts /\ <<d>> \in ValueTexts
  BY OneName, OneToken
<1>2. <<c>> \in Without(Framers) /\ <<d>> \in Without(Framers)
  BY OneWithout
<1> QED BY <1>1, <1>2, HeaderLineLined

(* The lines that are the program's own, but the one with the length.      *)
LEMMA OwnLines ==
  /\ HeaderLine(<<"User-Agent">>, <<"py-xmlrpc">>) \in Quiet
  /\ HeaderLine(<<"Server">>, <<"py-xmlrpc">>) \in Quiet
  /\ TypeLine \in Quiet
<1> DEFINE agent == "User-Agent"
           py == "py-xmlrpc"
           server == "Server"
           type == "Content-Type"
           xml == "text/xml"
<1>1. agent \in Chars /\ py \in Chars /\ server \in Chars /\ type \in Chars /\ xml \in Chars
  BY StringsAssumption DEF Names, Chars
<1>2. /\ agent \notin {":", "\n"} \cup Framers /\ py \notin {" ", "\n"} \cup Framers
      /\ server \notin {":", "\n"} \cup Framers /\ type \notin {":", "\n"} \cup Framers
      /\ xml \notin {" ", "\n"} \cup Framers
  BY DEF Framers, LengthNames
<1>3. TypeLine = HeaderLine(<<type>>, <<xml>>)
  BY DEF TypeLine
<1> HIDE DEF agent, py, server, type, xml
<1>4. /\ HeaderLine(<<agent>>, <<py>>) \in Quiet /\ HeaderLine(<<server>>, <<py>>) \in Quiet
      /\ HeaderLine(<<type>>, <<xml>>) \in Quiet
  BY <1>1, <1>2, TokenLine
<1> QED BY <1>3, <1>4 DEF agent, py, server

(* Five tokens and a line end.                                             *)
LEMMA FiveLine ==
  ASSUME NEW a \in Chars, NEW b \in Chars, NEW c \in Chars, NEW d \in Chars, NEW e \in Chars,
         \A x \in {a, b, c, d, e} : x \notin {"\n"} \cup Framers
  PROVE  <<a, b, c, d, e>> \o CrLf \in Quiet
<1> DEFINE t == <<a, b, c, d, e>>
<1>1. t \in Seq(Chars) /\ Len(t) = 5 /\ \A i \in 1..5 : t[i] \in {a, b, c, d, e}
  BY Five
<1>2. t \in Texts /\ t # <<>>
  BY <1>1 DEF Texts, Chars
<1> HIDE DEF t
<1>3. t \in Without({"\n"}) /\ t \in Without(Framers)
  BY <1>1, <1>2 DEF Without
<1>4. t \o CrLf \in Quiet
  BY <1>2, <1>3, OneLine
<1> QED BY <1>4 DEF t

(* The first line of a request, and that of a response.                    *)
LEMMA StartQuiet ==
  /\ <<"POST", " ", "/RPC2", " ", "HTTP/1.1">> \o CrLf \in Quiet
  /\ <<"HTTP/1.1", " ", "200", " ", "OK">> \o CrLf \in Quiet
<1> DEFINE post == "POST"
           bl == " "
           uri == "/RPC2"
           http == "HTTP/1.1"
           code == "200"
           ok == "OK"
<1>1. /\ post \in Chars /\ bl \in Chars /\ uri \in Chars /\ http \in Chars
      /\ code \in Chars /\ ok \in Chars
  BY StringsAssumption DEF Marks, Names, Chars
<1>2. \A x \in {post, bl, uri, http, code, ok} : x \notin {"\n"} \cup Framers
  BY DEF Framers, LengthNames
<1> HIDE DEF post, bl, uri, http, code, ok
<1>3. <<post, bl, uri, bl, http>> \o CrLf \in Quiet
  BY <1>1, <1>2, FiveLine
<1>4. <<http, bl, code, bl, ok>> \o CrLf \in Quiet
  BY <1>1, <1>2, FiveLine
<1> QED BY <1>3, <1>4 DEF post, bl, uri, http, code, ok

(* What is before the lines that frame.                                    *)
LEMMA StartLinesQuiet ==
  ASSUME NEW m, IsSent(m), IsUnframed(m.info)
  PROVE  StartLines(m) \in Quiet
<1> DEFINE info == AddAuthentication(m.info, m.cred)
           lines == InfoLines(info)
           agent == HeaderLine(<<"User-Agent">>, <<"py-xmlrpc">>)
           server == HeaderLine(<<"Server">>, <<"py-xmlrpc">>)
           post == <<"POST", " ", "/RPC2", " ", "HTTP/1.1">> \o CrLf
           status == <<"HTTP/1.1", " ", "200", " ", "OK">> \o CrLf
<1>1. IsInfo(info) /\ IsUnframed(info)
  BY SentInfo
<1>2. lines \in Quiet
  <2> HIDE DEF info
  <2>1. IsFiniteSet(DOMAIN info)
    BY <1>1 DEF IsInfo
  <2>2. \A n \in DOMAIN info : HeaderLine(n, info[n]) \in Quiet
    BY <1>1, HeaderLineLined DEF IsInfo, IsUnframed
  <2> QED BY <2>1, <2>2, QuietClosed, InfoLinesIn
<1>3. agent \in Quiet /\ server \in Quiet /\ post \in Quiet /\ status \in Quiet
  BY OwnLines, StartQuiet
<1>4. StartLines(m) = IF m.type = "call" THEN (post \o agent) \o lines ELSE (status \o server) \o lines
  BY DEF StartLines
<1> HIDE DEF lines, agent, server, post, status
<1>5. \A a, b \in Quiet : a \o b \in Quiet
  BY QuietClosed DEF IsClosed
<1> QED BY <1>2, <1>3, <1>4, <1>5

(* A header of such lines and one more.                                    *)
LEMMA LinesEnd ==
  ASSUME NEW a \in Lined, NEW b \in Texts, b \o CrLf \in Lined
  PROVE  IsHead((a \o (b \o CrLf)) \o CrLf)
<1>1. a \in Texts /\ CrLf \in Texts
  BY CrLfFirst DEF Lined
<1>2. a \o (b \o CrLf) = (a \o b) \o CrLf /\ a \o b \in Texts
  <2>1. IsAssociative(a, b, CrLf)
    BY <1>1, Associative
  <2> QED BY <1>1, <2>1, Concat DEF IsAssociative
<1>3. (a \o b) \o CrLf \in Lined
  <2>1. a \o (b \o CrLf) \in Lined
    BY LinesClosed DEF IsClosed
  <2> QED BY <1>2, <2>1
<1>4. IsHead(((a \o b) \o CrLf) \o CrLf)
  <2> DEFINE u == a \o b
  <2>1. u \in Texts /\ u \o CrLf \in Lined
    BY <1>2, <1>3
  <2> HIDE DEF u
  <2>2. IsHead((u \o CrLf) \o CrLf)
    BY <2>1, LinedHead
  <2> QED BY <2>2 DEF u
<1> QED BY <1>2, <1>4

(* A line of its own, with a line end.                                     *)
IsLine(l) == l \in Lined /\ \E b \in Texts : l = b \o CrLf

(* The lines that frame are such lines.                                    *)
LEMMA FramingLines ==
  /\ IsLine(TypeLine) /\ \A n \in Nat : IsLine(LengthLine(n))
  /\ IsLine(HeaderLine(<<"Transfer-Encoding">>, <<"chunked">>))
<1> DEFINE type == "Content-Type"
           xml == "text/xml"
           name == "Transfer-Encoding"
           chunked == "chunked"
<1>1. ASSUME NEW k \in NameTexts, NEW v \in ValueTexts PROVE IsLine(HeaderLine(k, v))
  BY HeaderLineLined DEF IsLine
<1>2. IsLine(TypeLine)
  <2>1. type \in Chars /\ xml \in Chars /\ type \notin {":", "\n"} /\ xml \notin {" ", "\n"}
    BY StringsAssumption DEF Names, Chars
  <2>2. TypeLine = HeaderLine(<<type>>, <<xml>>)
    BY DEF TypeLine
  <2> HIDE DEF type, xml
  <2> QED BY <1>1, <2>1, <2>2, OneName, OneToken
<1>3. ASSUME NEW n \in Nat PROVE IsLine(LengthLine(n))
  <2>1. LengthLine(n) = HeaderLine(KeyOfLength, Decimal(n))
    BY DEF LengthLine, KeyOfLength
  <2> QED BY <1>1, <2>1, LengthValue
<1>4. IsLine(HeaderLine(<<name>>, <<chunked>>))
  <2>1. name \in Chars /\ chunked \in Chars /\ name \notin {":", "\n"} /\ chunked \notin {" ", "\n"}
    BY StringsAssumption DEF Names, Chars
  <2> HIDE DEF name, chunked
  <2> QED BY <1>1, <2>1, OneName, OneToken
<1> QED BY <1>2, <1>3, <1>4

(* A line in a text, from its name on.                                     *)
LEMMA FieldFirst ==
  ASSUME NEW a \in Texts, NEW c \in Chars, NEW v \in Texts, NEW z \in Texts
  PROVE  Same((a \o HeaderLine(<<c>>, v)) \o z, a \o (<<c>> \o (<<":", " ">> \o (v \o (CrLf \o z)))))
<1> DEFINE co == ":"
           bl == " "
           sep == <<co, bl>>
           k == <<c>>
           p == k \o sep
           x == p \o v
           l == x \o CrLf
           y == CrLf \o z
<1>1. CrLf \in Texts /\ y \in Texts
  BY CrLfFirst
<1>2. k \in Texts
  <2>1. <<c>> \in Seq(Chars)
    BY One
  <2> QED BY <2>1 DEF Texts, Chars
<1>3. sep \in Texts
  <2>1. co \in Chars /\ bl \in Chars
    BY StringsAssumption DEF Marks, Chars
  <2> HIDE DEF co, bl
  <2>2. <<co, bl>> \in Seq(Chars)
    BY <2>1, Pair
  <2> QED BY <2>2 DEF Texts, Chars
<1> HIDE DEF k, sep
<1>4. p \in Texts
  BY <1>2, <1>3, Concat
<1>5. k \o (sep \o (v \o y)) = p \o (v \o y)
  <2> DEFINE w == v \o y
  <2>1. w \in Texts
    <3> HIDE DEF y
    <3> QED BY <1>1, Concat
  <2> HIDE DEF w
  <2>2. IsAssociative(k, sep, w)
    BY <1>2, <1>3, <2>1, Associative
  <2> QED BY <2>2 DEF IsAssociative, w
<1> HIDE DEF p
<1>6. x \in Texts
  BY <1>4, Concat
<1>7. p \o (v \o y) = x \o y
  <2> HIDE DEF y
  <2>1. IsAssociative(p, v, y)
    BY <1>1, <1>4, Associative
  <2> QED BY <2>1 DEF IsAssociative
<1> HIDE DEF x
<1>8. l \in Texts /\ x \o y = l \o z
  <2>1. IsAssociative(x, CrLf, z)
    BY <1>1, <1>6, Associative
  <2>2. l \in Texts
    BY <1>1, <1>6, Concat
  <2> QED BY <2>1, <2>2 DEF IsAssociative
<1>9. HeaderLine(<<c>>, v) = l
  BY DEF HeaderLine, l, x, p, k, sep
<1> HIDE DEF l
<1>10. IsAssociative(a, l, z)
  BY <1>8, Associative
<1>11. (a \o l) \o z = a \o (k \o (sep \o (v \o y)))
  BY <1>5, <1>7, <1>8, <1>10 DEF IsAssociative
<1> QED BY <1>9, <1>11 DEF Same, k, sep

(* The names of fields are.                                                *)
LEMMA FieldNames == AreNames(LengthNames) /\ AreNames({"Transfer-Encoding"})
<1>1. \A c \in Framers : c \notin {":", " "}
  BY DEF Framers, LengthNames
<1> QED BY <1>1 DEF AreNames, Framers

(* Two tokens, and a line end.                                             *)
LEMMA PairWithout ==
  ASSUME NEW N, NEW c \in Chars \ N, NEW d \in Chars \ N
  PROVE  <<c, d>> \in Without(N)
<1>1. <<c, d>> \in Seq(Chars) /\ Len(<<c, d>>) = 2
  BY Pair
<1>2. <<c, d>> \in Texts
  BY <1>1 DEF Texts, Chars
<1>3. <<c, d>>[1] = c /\ <<c, d>>[2] = d
  OBVIOUS
<1>4. ASSUME NEW i \in 1..Len(<<c, d>>) PROVE <<c, d>>[i] \notin N
  <2>1. i = 1 \/ i = 2
    BY <1>1
  <2> QED BY <1>3, <2>1
<1> QED BY <1>2, <1>4 DEF Without

LEMMA MarksWithout == CrLf \in Without(Framers) /\ <<":", " ">> \in Without(Framers)
<1> DEFINE cr == "\r"
           lf == "\n"
           co == ":"
           bl == " "
<1>1. cr \in Chars /\ lf \in Chars /\ co \in Chars /\ bl \in Chars
  BY StringsAssumption DEF Marks, Chars
<1>2. cr \notin Framers /\ lf \notin Framers /\ co \notin Framers /\ bl \notin Framers
  BY DEF Framers, LengthNames
<1>3. CrLf = <<cr, lf>>
  BY DEF CrLf
<1> HIDE DEF cr, lf, co, bl
<1>4. <<cr, lf>> \in Without(Framers) /\ <<co, bl>> \in Without(Framers)
  BY <1>1, <1>2, PairWithout
<1> QED BY <1>3, <1>4 DEF co, bl

(* The number of a length.                                                 *)
LEMMA LengthWithout == ASSUME NEW n \in Nat PROVE Decimal(n) \in Without(Framers)
<1> DEFINE d == Decimal(n)
<1>1. d \in ValueTexts /\ d \in Seq(DOMAIN Numeral)
  BY LengthValue DEF DigitTexts
<1> HIDE DEF d
<1>2. \A c \in DOMAIN Numeral : c \notin Framers
  <2>1. \A c \in NumeralSet : c \notin Framers
    BY DEF NumeralSet, Framers, LengthNames
  <2> QED BY <2>1, NumeralDomain
<1>3. d \in Texts /\ \A i \in 1..Len(d) : d[i] \in DOMAIN Numeral
  BY <1>1, LineTexts, ElementOfSeq
<1>4. d \in Without(Framers)
  BY <1>2, <1>3 DEF Without
<1> QED BY <1>4 DEF d

(* Without some names is without fewer.                                    *)
LEMMA WithoutFewer == ASSUME NEW N, NEW M, N \subseteq M PROVE Without(M) \subseteq Without(N)
  BY DEF Without

(* Behind lines that frame nothing, a length is the length.                *)
LEMMA LengthFrames ==
  ASSUME NEW a \in Quiet, NEW n \in Nat
  PROVE  LET h == (a \o LengthLine(n)) \o CrLf
         IN  IsHead(h) /\ Lengths(h) = {n} /\ ~IsChunked(h)
<1> DEFINE c == "Content-length"
           d == Decimal(n)
           x == CrLf \o CrLf
           v == d \o x
           sep == <<":", " ">>
           h == (a \o LengthLine(n)) \o CrLf
           u == <<c>> \o (sep \o v)
           coding == {"Transfer-Encoding"}
<1>1. a \in Lined /\ a \in Without(Framers) /\ a \in Texts
  BY DEF Quiet, Lined
<1>2. IsHead(h)
  BY <1>1, FramingLines, LinesEnd DEF IsLine
<1>3. c \in Chars /\ c \in LengthNames /\ c \notin coding
  BY StringsAssumption DEF Names, Chars, LengthNames
<1>4. d \in Texts /\ d \in Without(Framers)
  BY LengthWithout DEF Without
<1>5. h = a \o u
  <2>1. LengthLine(n) = HeaderLine(<<c>>, d) /\ CrLf \in Texts
    BY <1>4, CrLfFirst DEF LengthLine
  <2> HIDE DEF c, d
  <2>2. Same((a \o HeaderLine(<<c>>, d)) \o CrLf, a \o (<<c>> \o (sep \o (d \o (CrLf \o CrLf)))))
    BY <1>1, <1>3, <1>4, <2>1, FieldFirst
  <2> QED BY <2>1, <2>2 DEF Same
<1>6. x \in Texts /\ x # <<>> /\ x[1] \notin DOMAIN Numeral /\ Len(x) = 4
  <2>1. x \in Texts /\ Len(x) = 4 /\ x[1] = "\r"
    BY TwoEnds
  <2>2. "\r" \notin NumeralSet
    BY DEF NumeralSet
  <2> HIDE DEF x
  <2>3. x # <<>>
    BY <2>1
  <2> QED BY <2>1, <2>2, <2>3, NumeralDomain
<1>7. NumberAt(v) = {n}
  <2>1. n \in Int
    OBVIOUS
  <2> HIDE DEF x
  <2> QED BY <1>6, <2>1, DecimalRead
<1>8. v \in Without(Framers) /\ v # <<>>
  <2>1. x \in Without(Framers)
    BY MarksWithout, WithoutClosed DEF IsClosed
  <2> HIDE DEF x, d
  <2>2. v \in Without(Framers)
    BY <1>4, <2>1, WithoutClosed DEF IsClosed
  <2>3. v # <<>>
    <3> DEFINE lv == Len(v)
               ld == Len(d)
    <3>1. lv = ld + Len(x) /\ ld \in Nat
      BY <1>4, <1>6, Concat
    <3>2. Len(x) = 4
      BY <1>6
    <3> HIDE DEF v, lv, ld
    <3>3. lv # 0
      BY <3>1, <3>2
    <3> QED BY <3>3 DEF lv
  <2> QED BY <2>2, <2>3
<1> HIDE DEF v, h, d, x
<1>9. Fields(LengthNames, h) = {v}
  <2>1. LengthNames \subseteq Framers
    BY DEF Framers
  <2>2. a \in Without(LengthNames) /\ IsBehind(v, LengthNames)
    BY <1>1, <1>8, <2>1, WithoutFewer DEF IsBehind
  <2>3. c \in LengthNames \cap Chars
    BY <1>3
  <2> HIDE DEF c
  <2>4. HasField(LengthNames, c, a, v)
    BY <2>2, <2>3, FieldNames, FieldOnly
  <2> QED BY <1>5, <2>4 DEF HasField
<1>10. Lengths(h) = {n}
  BY <1>7, <1>9 DEF Lengths
<1>11. ~IsChunked(h)
  <2>1. coding \subseteq Framers
    BY DEF Framers
  <2>2. a \in Without(coding) /\ v \in Without(coding) /\ sep \in Without(coding)
    <3> HIDE DEF coding, sep
    <3> QED BY <1>1, <1>8, <2>1, MarksWithout, WithoutFewer DEF sep
  <2> HIDE DEF c, coding, sep
  <2>3. <<c>> \in Without(coding)
    BY <1>3, OneWithout
  <2>4. u \in Without(coding)
    <3>1. sep \o v \in Without(coding)
      BY <2>2, WithoutClosed DEF IsClosed
    <3> QED BY <2>3, <3>1, WithoutClosed DEF IsClosed
  <2> HIDE DEF u
  <2>5. h \in Without(coding)
    BY <1>5, <2>2, <2>4, WithoutClosed DEF IsClosed
  <2>6. Fields(coding, h) = {}
    BY <2>5, FieldsNone
  <2> QED BY <2>6 DEF IsChunked, coding
<1> QED BY <1>2, <1>10, <1>11 DEF h

(* Without a line that frames, a header gives no length and no coding.     *)
LEMMA NothingFrames ==
  ASSUME NEW a \in Quiet
  PROVE  LET h == (a \o TypeLine) \o CrLf
         IN  IsHead(h) /\ Fields(LengthNames, h) = {} /\ ~IsChunked(h)
<1> DEFINE h == (a \o TypeLine) \o CrLf
           coding == {"Transfer-Encoding"}
<1>1. a \in Lined /\ a \in Without(Framers)
  BY DEF Quiet
<1>2. IsHead(h)
  BY <1>1, FramingLines, LinesEnd DEF IsLine
<1>3. h \in Without(Framers)
  <2>1. TypeLine \in Without(Framers)
    BY OwnLines DEF Quiet
  <2>2. a \o TypeLine \in Without(Framers)
    BY <1>1, <2>1, WithoutClosed DEF IsClosed
  <2> QED BY <2>2, MarksWithout, WithoutClosed DEF IsClosed
<1> HIDE DEF h
<1>4. LengthNames \subseteq Framers /\ coding \subseteq Framers
  BY DEF Framers
<1>5. Fields(LengthNames, h) = {} /\ Fields(coding, h) = {}
  <2> HIDE DEF coding
  <2> QED BY <1>3, <1>4, FieldsNone
<1>6. ~IsChunked(h)
  BY <1>5 DEF IsChunked
<1> QED BY <1>2, <1>5, <1>6 DEF h

(* With the coding before the type, a header says that chunks follow.      *)
LEMMA CodingFrames ==
  ASSUME NEW a \in Quiet
  PROVE  LET h == ((a \o HeaderLine(<<"Transfer-Encoding">>, <<"chunked">>)) \o TypeLine) \o CrLf
         IN  IsHead(h) /\ IsChunked(h)
<1> DEFINE c == "Transfer-Encoding"
           ch == "chunked"
           d == <<ch>>
           l == HeaderLine(<<c>>, d)
           z == TypeLine \o CrLf
           v == d \o (CrLf \o z)
           h == ((a \o l) \o TypeLine) \o CrLf
           coding == {c}
<1>1. a \in Lined /\ a \in Without(Framers) /\ a \in Texts
  BY DEF Quiet, Lined
<1>2. l \in Lined /\ l \in Texts /\ IsLine(TypeLine)
  BY FramingLines DEF IsLine, Lined
<1>3. c \in Chars /\ ch \in Chars /\ ch \notin coding /\ coding \subseteq Framers
  BY StringsAssumption DEF Names, Chars, Framers
<1>4. TypeLine \in Without(Framers) /\ TypeLine \in Texts /\ CrLf \in Without(Framers) /\ CrLf \in Texts
  BY OwnLines, MarksWithout DEF Quiet, Without
<1> HIDE DEF l, coding, c, ch
<1>5. IsHead(h)
  <2>1. a \o l \in Lined
    BY <1>1, <1>2, LinesClosed DEF IsClosed
  <2> QED BY <1>2, <2>1, LinesEnd DEF IsLine
<1>6. z \in Without(Framers) /\ z \in Texts
  <2>1. z \in Without(Framers)
    BY <1>4, WithoutClosed DEF IsClosed
  <2> QED BY <2>1 DEF Without
<1>7. d \in Without(coding) /\ d \in Texts /\ Len(d) = 1
  <2>1. d \in Without(coding)
    BY <1>3, OneWithout
  <2>2. Len(d) = 1
    OBVIOUS
  <2> HIDE DEF d
  <2> QED BY <2>1, <2>2 DEF Without
<1> HIDE DEF d, z
<1>8. CrLf \o z \in Without(coding) /\ CrLf \o z \in Texts
  <2>1. CrLf \in Without(coding) /\ z \in Without(coding)
    BY <1>3, <1>4, <1>6, WithoutFewer
  <2>2. CrLf \o z \in Without(coding)
    BY <2>1, WithoutClosed DEF IsClosed
  <2> QED BY <2>2 DEF Without
<1>9. IsBehind(v, coding)
  <2> DEFINE y == CrLf \o z
  <2> HIDE DEF y
  <2>1. y \in Without(coding) /\ y \in Texts
    BY <1>8 DEF y
  <2>2. d \o y \in Without(coding) /\ Len(d \o y) = 1 + Len(y) /\ Len(y) \in Nat
    <3>1. d \o y \in Without(coding)
      BY <1>7, <2>1, WithoutClosed DEF IsClosed
    <3>2. Len(d \o y) = Len(d) + Len(y) /\ Len(y) \in Nat
      BY <1>7, <2>1, Concat
    <3> QED BY <1>7, <3>1, <3>2
  <2> DEFINE w == d \o y
             lw == Len(w)
             ly == Len(y)
  <2>3. lw = 1 + ly /\ ly \in Nat
    BY <2>2
  <2> HIDE DEF lw, ly, w
  <2>4. lw # 0
    BY <2>3
  <2>5. w # <<>>
    BY <2>4 DEF lw
  <2>6. w \in Without(coding)
    BY <2>2 DEF w
  <2> QED BY <2>5, <2>6 DEF IsBehind, w, y
<1>10. h = a \o (<<c>> \o (<<":", " ">> \o v))
  <2> DEFINE b == a \o l
  <2>1. b \in Texts
    BY <1>1, <1>2, Concat
  <2>2. (b \o TypeLine) \o CrLf = b \o z
    <3> HIDE DEF b
    <3>1. IsAssociative(b, TypeLine, CrLf)
      BY <1>4, <2>1, Associative
    <3> QED BY <3>1 DEF IsAssociative, z
  <2>3. Same((a \o HeaderLine(<<c>>, d)) \o z, a \o (<<c>> \o (<<":", " ">> \o (d \o (CrLf \o z)))))
    BY <1>1, <1>3, <1>6, <1>7, FieldFirst
  <2> QED BY <2>2, <2>3 DEF Same, l
<1>11. Fields(coding, h) = {v}
  <2>1. a \in Without(coding)
    BY <1>1, <1>3, WithoutFewer
  <2>2. c \in coding \cap Chars /\ AreNames(coding)
    BY <1>3, FieldNames DEF coding, c
  <2> HIDE DEF v, h
  <2>3. HasField(coding, c, a, v)
    BY <1>9, <2>1, <2>2, FieldOnly
  <2> QED BY <1>10, <2>3 DEF HasField
<1>12. IsPrefix(d \o CrLf, v)
  <2> DEFINE p == d \o CrLf
  <2>1. p \in Texts
    BY <1>4, <1>7, Concat
  <2>2. v = p \o z
    <3>1. IsAssociative(d, CrLf, z)
      BY <1>4, <1>6, <1>7, Associative
    <3> QED BY <3>1 DEF IsAssociative
  <2> HIDE DEF p, v
  <2>3. /\ Len(v) = Len(p) + Len(z) /\ Len(p) \in Nat /\ Len(z) \in Nat
        /\ SubSeq(v, 1, Len(p)) = p /\ SubSeq(p, 1, Len(p)) = p
    <3>1. SubSeq(p, 1, Len(p)) = p
      BY <2>1, SubSeqFull DEF Texts
    <3> QED BY <1>6, <2>1, <2>2, <3>1, Concat
  <2> DEFINE lv == Len(v)
             lp == Len(p)
             lz == Len(z)
  <2>4. lv = lp + lz /\ lp \in Nat /\ lz \in Nat
    BY <2>3
  <2> HIDE DEF lv, lp, lz
  <2>5. lp <= lv
    BY <2>4
  <2>6. IsPrefix(p, v)
    BY <2>3, <2>5 DEF IsPrefix, lp, lv
  <2> QED BY <2>6 DEF p
<1>13. IsChunked(h)
  <2>1. IsPrefix(<<"chunked">> \o CrLf, v)
    BY <1>12 DEF d, ch
  <2>2. Fields({"Transfer-Encoding"}, h) = {v}
    BY <1>11 DEF coding, c
  <2> HIDE DEF h, v
  <2> QED BY <2>1, <2>2 DEF IsChunked
<1> QED BY <1>5, <1>13 DEF h, l, c, d, ch

(* Headers frame what is behind them: one that the program writes          *)
(* (buildHeader) ends with its only empty line, gives the length it was    *)
(* written for and no other, and says nothing of chunks; without the line  *)
(* of the length it gives none; and with that of the coding it says that   *)
(* chunks follow.  So a reader (readHeader and serverReadHeader) finds its *)
(* end and what follows, whoever calls and whatever the caller's own lines *)
(* are, if they do not frame themselves.                                   *)
THEOREM HeadersFrame ==
  \A m : IsSent(m) /\ IsUnframed(m.info) =>
    /\ \A n \in Nat : IsHead(Header(m, n)) /\ Lengths(Header(m, n)) = {n} /\ ~IsChunked(Header(m, n))
    /\ \A h \in Unlengthed(m) : IsHead(h) /\ Fields(LengthNames, h) = {} /\ ~IsChunked(h)
    /\ \A h \in ChunkedHeader(m) : IsHead(h) /\ IsChunked(h)
<1> SUFFICES ASSUME NEW m, IsSent(m), IsUnframed(m.info)
             PROVE  /\ \A n \in Nat :
                         IsHead(Header(m, n)) /\ Lengths(Header(m, n)) = {n} /\ ~IsChunked(Header(m, n))
                    /\ \A h \in Unlengthed(m) :
                         IsHead(h) /\ Fields(LengthNames, h) = {} /\ ~IsChunked(h)
                    /\ \A h \in ChunkedHeader(m) : IsHead(h) /\ IsChunked(h)
  OBVIOUS
<1> DEFINE a == StartLines(m)
<1>1. a \in Quiet
  BY StartLinesQuiet
<1>2. \A n \in Nat : Header(m, n) = ((a \o TypeLine) \o LengthLine(n)) \o CrLf
  BY DEF Header
<1>3. Unlengthed(m) = {(a \o TypeLine) \o CrLf}
  BY DEF Unlengthed
<1>4. ChunkedHeader(m) =
        {((a \o HeaderLine(<<"Transfer-Encoding">>, <<"chunked">>)) \o TypeLine) \o CrLf}
  BY DEF ChunkedHeader
<1> HIDE DEF a
<1>5. ASSUME NEW n \in Nat
      PROVE  IsHead(Header(m, n)) /\ Lengths(Header(m, n)) = {n} /\ ~IsChunked(Header(m, n))
  <2> DEFINE b == a \o TypeLine
  <2>1. b \in Quiet
    BY <1>1, OwnLines, QuietClosed DEF IsClosed
  <2>2. Header(m, n) = (b \o LengthLine(n)) \o CrLf
    BY <1>2
  <2> HIDE DEF b
  <2> QED BY <2>1, <2>2, LengthFrames
<1>6. \A h \in Unlengthed(m) : IsHead(h) /\ Fields(LengthNames, h) = {} /\ ~IsChunked(h)
  BY <1>1, <1>3, NothingFrames
<1>7. \A h \in ChunkedHeader(m) : IsHead(h) /\ IsChunked(h)
  BY <1>1, <1>4, CodingFrames
<1> QED BY <1>5, <1>6, <1>7
-----------------------------------------------------------------------------
(* Messages.                                                               *)

(* A message that is read as it was sent: its kind, its method, its        *)
(* parameters or the fault's two, the caller's lines, and who calls.       *)
IsMessage(m) == IsSent(m) /\ (IsKeptCall(m) \/ IsKeptResponse(m) \/ IsKeptFault(m))
Understood(m) ==
  IF m.type = "fault" THEN <<FaultCode(m.params[1]), FaultString(m.params[2])>> ELSE m.params

(* A document, which is read as the message alone.                         *)
BodyReads(m, text) ==
  /\ text \in Texts /\ Solid(text)
  /\ m.type = "call" => ParseCall(text) = {Parsed(m.type, m.method, Understood(m), <<>>)}
  /\ m.type # "call" => ParseResponse(text) = {Parsed(m.type, m.method, Understood(m), <<>>)}

(* Bodies survive: a document that the program writes (buildRequest,       *)
(* buildResponse, buildFault) is read (parseCall, parseResponse) as the    *)
(* method and the parameters, the result or the fault that it was written  *)
(* of, whatever the values are and however deep, and to its end.           *)
THEOREM BodiesSurvive == \A m : IsMessage(m) => BodyReads(m, Body(m))
<1> SUFFICES ASSUME NEW m, IsMessage(m) PROVE BodyReads(m, Body(m))
  OBVIOUS
<1> DEFINE text == Body(m)
           both == <<FaultCode(m.params[1]), FaultString(m.params[2])>>
<1>1. CASE IsKeptCall(m)
  <2>1. m.type = "call"
    BY <1>1 DEF IsKeptCall
  <2>2. text \in Texts /\ Solid(text) /\ ParseCall(text) = {Parsed("call", m.method, m.params, <<>>)}
    BY <1>1, CallRead
  <2> HIDE DEF text
  <2>3. Understood(m) = m.params
    BY <2>1 DEF Understood
  <2>4. BodyReads(m, text)
    BY <2>1, <2>2, <2>3 DEF BodyReads
  <2> QED BY <2>4 DEF text
<1>2. CASE IsKeptResponse(m)
  <2>1. m.type = "response"
    BY <1>2 DEF IsKeptResponse
  <2>2. text \in Texts /\ Solid(text) /\ ParseResponse(text) = {Parsed("response", m.method, m.params, <<>>)}
    BY <1>2, ResultRead
  <2> HIDE DEF text
  <2>3. Understood(m) = m.params
    BY <2>1 DEF Understood
  <2>4. BodyReads(m, text)
    BY <2>1, <2>2, <2>3 DEF BodyReads
  <2> QED BY <2>4 DEF text
<1>3. CASE IsKeptFault(m)
  <2>1. m.type = "fault"
    BY <1>3 DEF IsKeptFault
  <2>2. text \in Texts /\ Solid(text) /\ ParseResponse(text) = {Parsed("fault", m.method, both, <<>>)}
    BY <1>3, FaultRead
  <2>3. Understood(m) = both
    BY <2>1 DEF Understood
  <2> HIDE DEF text, both
  <2>4. BodyReads(m, text)
    BY <2>1, <2>2, <2>3 DEF BodyReads
  <2> QED BY <2>4 DEF text
<1> QED BY <1>1, <1>2, <1>3 DEF IsMessage

(* A header, which is read as the caller's lines and name, up to a         *)
(* document that follows it.                                               *)
HeaderReads(m, text) ==
  \A y : Solid(y) =>
    \E f : ParseHeader(m.type, text \o y) = {[info |-> f, rest |-> y]} /\ DictSays(f, m)

(* Headers survive: what the program writes before a document              *)
(* (buildHeader), and the same without a length or with chunks announced,  *)
(* is read (parseHeader) up to the document, and has every line that the   *)
(* caller gave, under its capitalised name, and the name and the password, *)
(* as authenticate will read them.                                         *)
THEOREM HeadersSurvive ==
  \A m : IsSent(m) =>
    /\ \A n \in Nat : HeaderReads(m, Header(m, n))
    /\ \A text \in Unlengthed(m) \cup ChunkedHeader(m) : HeaderReads(m, text)
<1> SUFFICES ASSUME NEW m, IsSent(m)
             PROVE  /\ \A n \in Nat : HeaderReads(m, Header(m, n))
                    /\ \A text \in Unlengthed(m) \cup ChunkedHeader(m) : HeaderReads(m, text)
  OBVIOUS
<1> DEFINE coding == HeaderLine(<<"Transfer-Encoding">>, <<"chunked">>)
<1>1. ASSUME NEW own, IsFraming(m, own), NEW y, Solid(y)
      PROVE  /\ StartLines(m) \in Texts
             /\ \E f : ParseHeader(m.type, WithFrame(m, own) \o y) = {[info |-> f, rest |-> y]} /\ DictSays(f, m)
  BY <1>1, CallHeaderRead, ResponseHeaderRead
<1>2. /\ IsFraming(m, TypeLine) /\ \A n \in Nat : IsFraming(m, LengthLine(n))
      /\ IsFraming(m, coding)
  BY Framings
<1>3. StartLines(m) \in Texts
  <2> DEFINE params == "params>"
  <2>1. params \in Chars
    BY StringsAssumption DEF Tags, Chars
  <2> HIDE DEF params
  <2>2. Solid(Tag(params))
    BY <2>1, TagLast
  <2> QED BY <1>1, <1>2, <2>2
<1> HIDE DEF coding
<1>4. ASSUME NEW a, IsFraming(m, a), NEW b, IsFraming(m, b)
      PROVE  HeaderReads(m, ((StartLines(m) \o a) \o b) \o CrLf)
  <2>1. IsFraming(m, a \o b) /\ a \in Texts /\ b \in Texts
    BY <1>4, FramingOfTwo
  <2>2. (StartLines(m) \o a) \o b = StartLines(m) \o (a \o b)
    <3>1. IsAssociative(StartLines(m), a, b)
      BY <1>3, <2>1, Associative
    <3> QED BY <3>1 DEF IsAssociative
  <2>3. HeaderReads(m, WithFrame(m, a \o b))
    BY <1>1, <2>1 DEF HeaderReads
  <2> QED BY <2>2, <2>3 DEF WithFrame
<1>5. \A n \in Nat : HeaderReads(m, Header(m, n))
  BY <1>2, <1>4 DEF Header
<1>6. \A text \in Unlengthed(m) : HeaderReads(m, text)
  <2>1. HeaderReads(m, WithFrame(m, TypeLine))
    BY <1>1, <1>2 DEF HeaderReads
  <2> QED BY <2>1 DEF Unlengthed, WithFrame
<1>7. \A text \in ChunkedHeader(m) : HeaderReads(m, text)
  BY <1>2, <1>4 DEF ChunkedHeader, coding
<1> QED BY <1>5, <1>6, <1>7

(* What is read of a message: its kind, its method, its parameters or the  *)
(* fault's two, the caller's lines, and who calls.                         *)
Understands(m, q) ==
  \E info : /\ DictSays(info, m)
            /\ q = Message(m.type, m.method, Understood(m), info, AsRead(m.cred))

(* A header and a document that are each read as a message are read as     *)
(* that message together.                                                  *)
LEMMA BothRead ==
  ASSUME NEW m, NEW header, NEW text, HeaderReads(m, header), BodyReads(m, text),
         m.type # "call" => m.cred = Nobody
  PROVE  \E q : Understands(m, q) /\ Parse(m.type, header \o text) = {Result(q, <<>>)}
<1> DEFINE type == m.type
           p == Parsed(type, m.method, Understood(m), <<>>)
           docs(rest) == IF type = "call" THEN ParseCall(rest) ELSE ParseResponse(rest)
           who(info) == IF type = "call" THEN Authenticate(info) ELSE {Nobody}
           of(r, info, c) == Result(Message(r.val.type, r.val.method, r.val.params, info, c), r.rest)
           made(h) == {of(r, h.info, c) : r \in docs(h.rest), c \in who(h.info)}
<1>1. Solid(text) /\ docs(text) = {p}
  BY DEF BodyReads
<1>2. PICK f : ParseHeader(type, header \o text) = {[info |-> f, rest |-> text]} /\ DictSays(f, m)
  BY <1>1 DEF HeaderReads
<1>3. who(f) = {AsRead(m.cred)}
  <2>1. Authenticate(f) = {AsRead(m.cred)}
    BY <1>2, CallerSaid
  <2>2. m.cred = Nobody => AsRead(m.cred) = Nobody
    BY DEF AsRead
  <2> QED BY <2>1, <2>2
<1> DEFINE q == Message(type, m.method, Understood(m), f, AsRead(m.cred))
           h0 == [info |-> f, rest |-> text]
           H == ParseHeader(type, header \o text)
<1>4. Parse(type, header \o text) = {r \in UNION {made(h) : h \in H} : AtEnd(r.rest)}
  BY DEF Parse
<1>5. of(p, f, AsRead(m.cred)) = Result(q, <<>>)
  BY DEF Parsed, Result
<1>6. h0.info = f /\ h0.rest = text
  OBVIOUS
<1> HIDE DEF docs, who, h0, H, p
<1>7. made(h0) = {Result(q, <<>>)}
  <2>1. made(h0) = {of(r, f, c) : r \in {p}, c \in {AsRead(m.cred)}}
    BY <1>1, <1>3, <1>6
  <2> HIDE DEF of
  <2>2. {of(r, f, c) : r \in {p}, c \in {AsRead(m.cred)}} = {of(p, f, AsRead(m.cred))}
    OBVIOUS
  <2> QED BY <1>5, <2>1, <2>2
<1>8. H = {h0}
  BY <1>2 DEF H, h0
<1> HIDE DEF made
<1>9. UNION {made(h) : h \in H} = {Result(q, <<>>)}
  BY <1>7, <1>8
<1>10. AtEnd(Result(q, <<>>).rest)
  BY DEF AtEnd, Result
<1>11. Understands(m, q)
  BY <1>2 DEF Understands
<1> HIDE DEF q, type
<1>12. Parse(type, header \o text) = {Result(q, <<>>)}
  BY <1>4, <1>9, <1>10
<1> QED BY <1>11, <1>12 DEF type

(* The program's own messages survive: a header and a document that it     *)
(* writes are read by parseRequest or parseResponse as one message, to the *)
(* end, with everything the caller has given.                              *)
THEOREM OwnMessagesSurvive ==
  \A m : IsMessage(m) =>
    \E q : /\ Understands(m, q)
           /\ Parse(m.type, Header(m, Len(Body(m))) \o Body(m)) = {Result(q, <<>>)}
<1> SUFFICES ASSUME NEW m, IsMessage(m)
             PROVE  \E q : /\ Understands(m, q)
                           /\ Parse(m.type, Header(m, Len(Body(m))) \o Body(m)) = {Result(q, <<>>)}
  OBVIOUS
<1> DEFINE text == Body(m)
           n == Len(text)
           header == Header(m, n)
<1>1. BodyReads(m, text)
  BY BodiesSurvive
<1>2. n \in Nat /\ IsSent(m)
  BY <1>1, LenProperties DEF BodyReads, Texts, IsMessage
<1> HIDE DEF n
<1>3. HeaderReads(m, header)
  BY <1>2, HeadersSurvive
<1>4. m.type # "call" => m.cred = Nobody
  BY <1>2 DEF IsSent
<1> HIDE DEF header, text
<1>5. \E q : Understands(m, q) /\ Parse(m.type, header \o text) = {Result(q, <<>>)}
  BY <1>1, <1>3, <1>4, BothRead
<1> QED BY <1>5 DEF header, n, text

-----------------------------------------------------------------------------
(* Messages on their way.                                                  *)

(* What is understood of the message is as it was sent.                    *)
LEMMA UnderstoodAsSent ==
  ASSUME IsSent(msg), NEW q, Understands(msg, q)
  PROVE  AsSent(q)
<1>1. PICK info : /\ DictSays(info, msg)
                  /\ q = Message(msg.type, msg.method, Understood(msg), info, AsRead(msg.cred))
  BY DEF Understands
<1>2. /\ q.type = msg.type /\ q.method = msg.method /\ q.params = Understood(msg)
      /\ q.info = info /\ q.cred = AsRead(msg.cred)
  BY <1>1 DEF Message
<1>3. \A name \in DOMAIN msg.info :
        Capitalized(name) \in DOMAIN q.info /\ q.info[Capitalized(name)] = msg.info[name]
  BY <1>1, <1>2 DEF DictSays
<1>4. PICK N, P : msg.cred = Credentials(N, P)
  BY DEF IsSent, IsCaller
<1>5. msg.cred.name = N /\ msg.cred.pass = P
  BY <1>4 DEF Credentials
<1>6. AsRead(msg.cred) = Credentials(Given(msg.cred.name), Given(msg.cred.pass))
  <2>1. CASE msg.cred = Nobody
    <3>1. msg.cred.name = {} /\ msg.cred.pass = {}
      BY <2>1 DEF Nobody, Credentials
    <3>2. Given({}) = {}
      BY <2>1 DEF Given
    <3> QED BY <2>1, <3>1, <3>2 DEF AsRead, Nobody
  <2>2. CASE msg.cred # Nobody
    <3>1. \A S : Given(S) = OrEmpty(S)
      BY <2>2 DEF Given, OrEmpty
    <3> QED BY <2>2, <3>1 DEF AsRead
  <2> QED BY <2>1, <2>2
<1> HIDE DEF AsRead
<1>7. q.params = IF msg.type = "fault" THEN <<FaultCode(msg.params[1]), FaultString(msg.params[2])>>
                 ELSE msg.params
  BY <1>2 DEF Understood
<1> QED BY <1>2, <1>3, <1>6, <1>7 DEF AsSent

(* A message that is complete is got, if its header and its document are   *)
(* each read as the message.                                               *)
LEMMA CompleteSurvives ==
  ASSUME TransportInv, Complete, reader.stage \in {"whole", "failed"},
         IsSent(msg), HeaderReads(msg, head), BodyReads(msg, body)
  PROVE  \E m \in Got : Got = {m} /\ AsSent(m)
<1>1. reader.stage = "whole" /\ reader.head = head /\ reader.body = body
  BY InvWhole
<1>2. msg.type # "call" => msg.cred = Nobody
  BY DEF IsSent
<1>3. PICK q : Understands(msg, q) /\ Parse(msg.type, head \o body) = {Result(q, <<>>)}
  BY <1>2, BothRead
<1>4. Results = {Result(q, <<>>)}
  BY <1>1, <1>3 DEF Results
<1> DEFINE r == Result(q, <<>>)
<1>5. r.val = q /\ r.rest # Outside
  BY DEF Result, Outside
<1> HIDE DEF r
<1>6. {p \in {r} : p.rest # Outside} = {r}
  BY <1>5
<1>7. Got = {p.val : p \in {r}}
  BY <1>4, <1>6 DEF Got, r
<1>8. Got = {q}
  BY <1>5, <1>7
<1>9. AsSent(q)
  BY <1>3, UnderstoodAsSent
<1> QED BY <1>8, <1>9

(* The constants of Transport are what Codec and Delivery write.           *)
IsProgram ==
  \A m \in Messages :
    /\ IsMessage(m) /\ BodyText(m) = Body(m)
    /\ \A n \in Nat : HeadText(m, n) = Header(m, n)
    /\ EndlessHeads(m) \subseteq Unlengthed(m) /\ ChunkedHeads(m) \subseteq ChunkedHeader(m)

(* The documents and headers of other programs are read as the message.    *)
OthersRead ==
  \A m \in Messages :
    /\ \A text \in OtherBodies(m) : BodyReads(m, text)
    /\ \A n \in Nat : \A h \in OtherHeads(m, n) : HeaderReads(m, h)

(* So are the program's.                                                   *)
LEMMA ProgramReads ==
  ASSUME IsProgram, NEW m \in Messages
  PROVE  /\ IsSent(m) /\ BodyReads(m, BodyText(m))
         /\ \A n \in Nat : HeaderReads(m, HeadText(m, n))
         /\ \A h \in EndlessHeads(m) \cup ChunkedHeads(m) : HeaderReads(m, h)
<1>1. /\ IsMessage(m) /\ BodyText(m) = Body(m)
      /\ \A n \in Nat : HeadText(m, n) = Header(m, n)
      /\ EndlessHeads(m) \subseteq Unlengthed(m) /\ ChunkedHeads(m) \subseteq ChunkedHeader(m)
  BY DEF IsProgram
<1>2. IsSent(m) /\ BodyReads(m, BodyText(m))
  BY <1>1, BodiesSurvive DEF IsMessage
<1>3. /\ \A n \in Nat : HeaderReads(m, Header(m, n))
      /\ \A text \in Unlengthed(m) \cup ChunkedHeader(m) : HeaderReads(m, text)
  BY <1>2, HeadersSurvive
<1> QED BY <1>1, <1>2, <1>3

(* What is on its way was written by this program, or by another that does *)
(* no more than frame it without a length or in chunks.                    *)
OwnWriting ==
  /\ body = BodyText(msg)
  /\ head \in {HeadText(msg, Len(body))} \cup EndlessHeads(msg) \cup ChunkedHeads(msg)

(* What this program has written arrives as it was sent, whatever the      *)
(* values and the caller's lines are, however it is framed (with a length, *)
(* with the connection's end, in chunks), and in whatever pieces it comes: *)
(* its reader fails in no complete message, and understands it as the one  *)
(* message that was sent (buildRequest to parseRequest, buildResponse to   *)
(* parseResponse).                                                         *)
THEOREM OwnWritingSurvives ==
  ASSUME IsProgram
  PROVE  Spec => [](OwnWriting => MessagesSurvive)
<1>1. ASSUME TransportInv, OwnWriting PROVE MessagesSurvive
  <2> SUFFICES ASSUME Complete, reader.stage \in {"whole", "failed"}
               PROVE  \E m \in Got : Got = {m} /\ AsSent(m)
    BY DEF MessagesSurvive, Complete
  <2>1. msg \in Messages /\ Len(body) \in Nat
    BY <1>1, LenProperties DEF TransportInv, Types, Texts
  <2>2. IsSent(msg) /\ BodyReads(msg, body)
    BY <1>1, <2>1, ProgramReads DEF OwnWriting
  <2>3. HeaderReads(msg, head)
    BY <1>1, <2>1, ProgramReads DEF OwnWriting
  <2> QED BY <1>1, <2>2, <2>3, CompleteSurvives
<1> QED BY <1>1, InvAlways, PTL

(* And so does what other programs have written, if each of their headers  *)
(* and documents is read as the message.                                   *)
THEOREM MessagesAlwaysSurvive ==
  ASSUME IsProgram, OthersRead
  PROVE  Spec => []MessagesSurvive
<1>1. ASSUME TransportInv PROVE MessagesSurvive
  <2> SUFFICES ASSUME Complete, reader.stage \in {"whole", "failed"}
               PROVE  \E m \in Got : Got = {m} /\ AsSent(m)
    BY DEF MessagesSurvive, Complete
  <2>1. msg \in Messages /\ body \in Documents(msg) /\ head \in AnyHeads(msg, Len(body))
    BY <1>1, InvWhole
  <2>2. Len(body) \in Nat
    BY <1>1, LenProperties DEF TransportInv, Types, Texts
  <2>3. IsSent(msg) /\ BodyReads(msg, body)
    BY <1>1, <2>1, ProgramReads DEF OthersRead, Documents
  <2>4. HeaderReads(msg, head)
    BY <1>1, <2>1, <2>2, ProgramReads DEF OthersRead, AnyHeads, Heads
  <2> QED BY <1>1, <2>3, <2>4, CompleteSurvives
<1> QED BY <1>1, InvAlways, PTL
=============================================================================
