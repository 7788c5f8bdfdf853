------------------------------- MODULE Codec -------------------------------
(***************************************************************************)
(* Documents of py-xmlrpc: how rpcUtils.c and rpcBase64.c build the text of*)
(* a call, a response or a fault and read it again, and how a client and a *)
(* server put into it who calls and what has failed.                       *)
(*                                                                         *)
(* A text is a sequence of tokens.  A tag is two of them, "<" and the rest;*)
(* a character of a string, a digit and the name of an entity are one; any *)
(* run of line ends and tabs that lays a body out is one blank.  A token   *)
(* counts for one byte.  A parser is a set: of the one result it has, or of*)
(* none if it has failed.                                                  *)
(***************************************************************************)
EXTENDS Framing

CONSTANTS
  Precision,   (* the decimals of a double                                 *)
  NumberSize,  (* the size of the text of a double, in digits              *)
  Depth        (* how deep arrays and structs are in one another           *)

ASSUME CodecAssumption ==
  Precision \in Nat \ {0} /\ NumberSize \in Nat /\ Depth \in Nat

Tag(t) == <<"<", t>>
Blanks == {" ", "\r", "\n"}

-----------------------------------------------------------------------------
(* Values: Python's objects, as far as they can be sent.                   *)

Value(type, nums, text, elems, members) ==
  [type |-> type, nums |-> nums, text |-> text, elems |-> elems, members |-> members]
None == Value("nil", <<>>, <<>>, <<>>, {})
Number(n) == Value("int", <<n>>, <<>>, <<>>, {})
Double(n) == Value("double", <<n>>, <<>>, <<>>, {})   \* n / 10^Precision
Bool(b) == Value("boolean", <<b>>, <<>>, <<>>, {})
Date(fields) == Value("date", fields, <<>>, <<>>, {})
Bytes(bytes) == Value("base64", bytes, <<>>, <<>>, {})
Str(text) == Value("string", <<>>, text, <<>>, {})
Array(elems) == Value("array", <<>>, <<>>, elems, {})
Struct(members) == Value("struct", <<>>, <<>>, <<>>, members)
Member(key, val) == [key |-> key, val |-> val]

(* Those with arrays and structs up to a depth.                            *)
Scalar(type, nums, text) ==
  [type : {type}, nums : nums, text : text, elems : {<<>>}, members : {{}}]
Scalars ==
  Scalar("nil", {<<>>}, {<<>>}) \cup Scalar("boolean", [1..1 -> {0, 1}], {<<>>})
    \cup Scalar("int", [1..1 -> Int], {<<>>}) \cup Scalar("double", [1..1 -> Int], {<<>>})
    \cup Scalar("date", [1..6 -> Nat], {<<>>}) \cup Scalar("base64", Seq(0..255), {<<>>})
    \cup Scalar("string", {<<>>}, Texts)
Dicts(vals) ==
  {S \in SUBSET [key : Texts, val : vals] :
     IsFiniteSet(S) /\ \A m, n \in S : m.key = n.key => m = n}
Compounds(vals) ==
  [type : {"array"}, nums : {<<>>}, text : {<<>>}, elems : Seq(vals), members : {{}}]
    \cup [type : {"struct"}, nums : {<<>>}, text : {<<>>}, elems : {<<>>}, members : Dicts(vals)]
Values[n \in Nat] == Scalars \cup (IF n = 0 THEN {} ELSE Compounds(Values[n - 1]))

(* A name or a password is a set of the one there is, or of none.          *)
Credentials(name, pass) == [name |-> name, pass |-> pass]
Nobody == Credentials({}, {})

(* The parameters of a fault are its code and its text.                    *)
Message(type, method, params, info, cred) ==
  [type |-> type, method |-> method, params |-> params, info |-> info, cred |-> cred]

-----------------------------------------------------------------------------
(* Numbers (rpcInternal.c), dates and base64.                              *)

Digits[n \in Nat] == IF n < 10 THEN <<Numerals[n + 1]>>
                     ELSE Append(Digits[n \div 10], Numerals[(n % 10) + 1])
Magnitude(n) == IF n < 0 THEN -n ELSE n
Minus(n) == IF n < 0 THEN <<"-">> ELSE <<>>
Decimal(n) == Minus(n) \o Digits[Magnitude(n)]

(* encodeDouble: all decimals, but no more characters than there is room   *)
(* for.                                                                    *)
Pointed[p \in Nat] ==
  [n \in Nat |-> IF p = 0 THEN Append(Digits[n], ".")
                 ELSE Append(Pointed[p - 1][n \div 10], Numerals[(n % 10) + 1])]
DoubleText(n) ==
  LET text == Minus(n) \o Pointed[Precision][Magnitude(n)]
  IN  IF Len(text) > NumberSize THEN SubSeq(text, 1, NumberSize) ELSE text

(* decodeActDouble: atof reads a sign, digits, a dot and decimals.         *)
DoubleOf(text) ==
  LET dot == Min({i \in 1..Len(text) : text[i] = "."} \cup {Len(text) + 1})
      whole == SubSeq(text, Sign(text) + 1, dot - 1)
      zeros == [i \in 1..Precision |-> "0"]
      abs == NumberOf[whole \o SubSeq(Drop(text, dot) \o zeros, 1, Precision)]
  IN  IF Sign(text) = 1 THEN -abs ELSE abs

(* Years are padded to four digits if they have three, the rest to two.    *)
Padded(n, least) == (IF n < least THEN <<"0">> ELSE <<>>) \o Digits[n]
DateText(f) ==
  Padded(f[1], 1000) \o Padded(f[2], 10) \o Padded(f[3], 10) \o <<"T">>
    \o Padded(f[4], 10) \o <<":">> \o Padded(f[5], 10) \o <<":">> \o Padded(f[6], 10)

Alphabet ==
  <<"A", "B", "C", "D", "E", "F", "G", "H", "I", "J", "K", "L", "M", "N", "O", "P",
    "Q", "R", "S", "T", "U", "V", "W", "X", "Y", "Z", "a", "b", "c", "d", "e", "f",
    "g", "h", "i", "j", "k", "l", "m", "n", "o", "p", "q", "r", "s", "t", "u", "v",
    "w", "x", "y", "z", "0", "1", "2", "3", "4", "5", "6", "7", "8", "9", "+", "/">>
Sextet == [c \in ToSet(Alphabet) \cup {"="} |->
             IF c = "=" THEN 0 ELSE CHOOSE n \in 0..63 : Alphabet[n + 1] = c]

(* binascii_b2a_base64: bits are shifted in by eight and out by six.       *)
Power(n) == <<1, 2, 4, 8, 16, 32, 64>>[n + 1]
NoBits == [left |-> 0, bits |-> 0, out |-> <<>>]
ShiftByte(s, byte) ==
  LET left == s.left * 256 + byte
      bits == s.bits + 8
      sextet(i) == Alphabet[((left \div Power(bits - 6 * i)) % 64) + 1]
  IN  [left |-> left % Power(bits % 6), bits |-> bits % 6,
       out  |-> s.out \o [i \in 1..(bits \div 6) |-> sextet(i)]]
Shifted[bytes \in Seq(0..255)] ==
  IF bytes = <<>> THEN NoBits ELSE ShiftByte(Shifted[Front(bytes)], Last(bytes))
BytesText(bytes) ==
  LET s == Shifted[bytes]
  IN  s.out \o (CASE s.bits = 2 -> <<Alphabet[s.left * 16 + 1], "=", "=">>
                  [] s.bits = 4 -> <<Alphabet[s.left * 4 + 1], "=">>
                  [] OTHER -> <<>>)

(* binascii_a2b_base64: what is not of the alphabet is skipped; padding    *)
(* counts as a zero and is taken off at the end.                           *)
NothingRead == [left |-> 0, bits |-> 0, npad |-> 0, out |-> <<>>]
ShiftSextet(s, c) ==
  LET left == s.left * 64 + Sextet[c]
      bits == s.bits + 6
      npad == IF c = "=" THEN s.npad + 1 ELSE s.npad
  IN  IF c \notin DOMAIN Sextet THEN s
      ELSE IF bits < 8 THEN [left |-> left, bits |-> bits, npad |-> npad, out |-> s.out]
      ELSE [left |-> left % Power(bits - 8), bits |-> bits - 8, npad |-> npad,
            out  |-> Append(s.out, left \div Power(bits - 8))]
Unshifted[text \in Texts] ==
  IF text = <<>> THEN NothingRead ELSE ShiftSextet(Unshifted[Front(text)], Last(text))
BytesOf(text) ==
  LET s == Unshifted[text]
  IN  IF s.bits # 0 THEN {} ELSE {SubSeq(s.out, 1, Len(s.out) - s.npad)}

-----------------------------------------------------------------------------
(* What is put into texts are strings, which the provers are not aware of. *)
Tags ==
  {"array>", "base64>", "boolean>", "data>", "dateTime.iso8601>", "double>", "fault>", "int>",
   "member>", "methodCall>", "methodName>", "methodResponse>", "name>", "nil/>", "param>",
   "params>", "string>", "struct>", "value>"}
EndTags ==
  {"/array>", "/base64>", "/boolean>", "/data>", "/dateTime.iso8601>", "/double>", "/fault>",
   "/int>", "/member>", "/methodCall>", "/methodName>", "/methodResponse>", "/name>", "/param>",
   "/params>", "/string>", "/struct>", "/value>"}
Marks ==
  {"<", "&", "lt;", "amp;", " ", "\r", "\n", ":", "-", ".", "=", "T", "<?xml version?>"}
Names ==
  {"faultCode", "faultString", "POST", "/RPC2", "HTTP/1.1", "200", "OK", "User-Agent", "Server",
   "py-xmlrpc", "Content-Type", "text/xml", "Content-length", "Authorization", "Basic",
   "unknown error", "Transfer-Encoding", "chunked"}
ASSUME StringsAssumption ==
  ToSet(Alphabet) \cup Tags \cup EndTags \cup Marks \cup Names \subseteq STRING

-----------------------------------------------------------------------------
(* Building.                                                               *)

(* escapeString.                                                           *)
EscapeChar(c) ==
  CASE c = "<" -> <<"&", "lt;">>
    [] c = "&" -> <<"&", "amp;">>
    [] OTHER -> <<c>>
Escape[text \in Texts] ==
  IF text = <<>> THEN <<>> ELSE EscapeChar(Head(text)) \o Escape[Tail(text)]

(* encodeInt, encodeDouble, encodeNone, encodeBool, encodeString,          *)
(* encodeBase64 and encodeDate.                                            *)
Line(text) == Append(text, " ")
Joined[texts \in Seq(Texts)] ==
  IF texts = <<>> THEN <<>> ELSE Head(texts) \o Joined[Tail(texts)]
Tagged(open, text, close) == Tag(open) \o text \o Tag(close)
EncodeInt(v) == Tagged("int>", Decimal(v.nums[1]), "/int>")
EncodeDouble(v) == Tagged("double>", DoubleText(v.nums[1]), "/double>")
EncodeNone == Tag("nil/>")
EncodeBool(v) == Tagged("boolean>", Digits[v.nums[1]], "/boolean>")
EncodeString(v) == Tagged("string>", Escape[v.text], "/string>")
EncodeBase64(v) == Tagged("base64>", BytesText(v.nums), "/base64>")
EncodeDate(v) == Tagged("dateTime.iso8601>", DateText(v.nums), "/dateTime.iso8601>")

(* The encoder of what is in an array or a struct is a function of values. *)
EncodeArray(encode, v) ==
  Line(<<>>) \o Line(Tag("array>")) \o Line(Tag("data>"))
    \o Joined[[i \in 1..Len(v.elems) |-> Line(encode[v.elems[i]])]]
    \o Line(Tag("/data>")) \o Line(Tag("/array>"))

(* The keys of structs are not escaped.                                    *)
EncodeMember(encode, m) ==
  Line(Tag("member>")) \o Line(Tagged("name>", m.key, "/name>"))
    \o Line(encode[m.val]) \o Line(Tag("/member>"))
EncodeStruct(encode, v) ==
  LET members == SetToSeq(v.members)
  IN  Line(<<>>) \o Line(Tag("struct>"))
        \o Joined[[i \in 1..Len(members) |-> EncodeMember(encode, members[i])]]
        \o Line(Tag("/struct>"))

(* encodeValue, for each depth.                                            *)
EncodeValue(encode, v) ==
  Tagged("value>",
    CASE v.type = "int"     -> EncodeInt(v)
      [] v.type = "nil"     -> EncodeNone
      [] v.type = "double"  -> EncodeDouble(v)
      [] v.type = "boolean" -> EncodeBool(v)
      [] v.type = "date"    -> EncodeDate(v)
      [] v.type = "base64"  -> EncodeBase64(v)
      [] v.type = "string"  -> EncodeString(v)
      [] v.type = "array"   -> EncodeArray(encode, v)
      [] v.type = "struct"  -> EncodeStruct(encode, v),
    "/value>")
EncodersWith(encode, n) == [v \in Values[n] |-> EncodeValue(encode, v)]
Encoders[n \in Nat] == EncodersWith(IF n = 0 THEN <<>> ELSE Encoders[n - 1], n)
Encode(v) == Encoders[Depth][v]

(* What grabError and rpcFault_Extract find in an exception.               *)
UnknownError == Str(<<"unknown error">>)
FaultCode(v) == IF v.type = "int" THEN v ELSE Number(-1)
FaultString(v) == IF v.type = "string" THEN v ELSE UnknownError
FaultValue(code, text) ==
  Struct({Member(<<"faultCode">>, FaultCode(code)), Member(<<"faultString">>, FaultString(text))})

(* xmlMethod, buildResponse and buildFault.  Only a response ends with a   *)
(* line end.                                                               *)
XmlDecl == <<"<?xml version?>">>
XmlMethod(m) ==
  LET param(v) == Line(Tag("param>")) \o Line(Encode(v)) \o Line(Tag("/param>"))
  IN  Line(Tag("methodCall>")) \o Line(Tagged("methodName>", m.method, "/methodName>"))
        \o Line(Tag("params>"))
        \o Joined[[i \in 1..Len(m.params) |-> param(m.params[i])]]
        \o Line(Tag("/params>")) \o Tag("/methodCall>")
BuildResponse(m) ==
  Line(Tag("methodResponse>")) \o Line(Tag("params>")) \o Line(Tag("param>"))
    \o Line(Encode(m.params[1])) \o Line(Tag("/param>")) \o Line(Tag("/params>"))
    \o Line(Tag("/methodResponse>"))
BuildFault(m) ==
  Line(Tag("methodResponse>")) \o Line(Tag("fault>"))
    \o Line(Encode(FaultValue(m.params[1], m.params[2]))) \o Line(Tag("/fault>"))
    \o Tag("/methodResponse>")
Body(m) ==
  Line(XmlDecl) \o (CASE m.type = "call"     -> XmlMethod(m)
                      [] m.type = "response" -> BuildResponse(m)
                      [] m.type = "fault"    -> BuildFault(m))

(* Dictionaries: one of an entry, and one that another is put into.        *)
Entry(key, val) == [k \in {key} |-> val]
Over(new, old) == [k \in DOMAIN new \cup DOMAIN old |-> IF k \in DOMAIN new THEN new[k] ELSE old[k]]

HeaderLine(name, value) == name \o <<":", " ">> \o value \o CrLf
InfoLines(info) ==
  LET names == SetToSeq(DOMAIN info)
  IN  Joined[[i \in 1..Len(names) |-> HeaderLine(names[i], info[names[i]])]]
LengthLine(length) == HeaderLine(<<"Content-length">>, Decimal(length))

(* addAuthentication: a name or a password that is missing is empty if the *)
(* other is there.                                                         *)
Colon == 58
AddAuthentication(info, cred) ==
  LET part(S) == IF S = {} THEN <<>> ELSE CHOOSE text \in S : TRUE
      pair == part(cred.name) \o <<Colon>> \o part(cred.pass)
  IN  IF cred = Nobody THEN info
      ELSE Over(Entry(<<"Authorization">>, <<"Basic", " ">> \o BytesText(pair)), info)

(* Mutant: the caller's lines come before the program's own.               *)
StartLinesInfoFirst(m) ==
  LET lines == InfoLines(AddAuthentication(m.info, m.cred))
  IN  IF m.type = "call"
      THEN <<"POST", " ", "/RPC2", " ", "HTTP/1.1">> \o CrLf \o lines
             \o HeaderLine(<<"User-Agent">>, <<"py-xmlrpc">>)
      ELSE <<"HTTP/1.1", " ", "200", " ", "OK">> \o CrLf \o lines
             \o HeaderLine(<<"Server">>, <<"py-xmlrpc">>)

(* buildHeader, without and with the length of the body.                   *)
StartLines(m) ==
  LET lines == InfoLines(AddAuthentication(m.info, m.cred))
  IN  IF m.type = "call"
      THEN <<"POST", " ", "/RPC2", " ", "HTTP/1.1">> \o CrLf
             \o HeaderLine(<<"User-Agent">>, <<"py-xmlrpc">>) \o lines
      ELSE <<"HTTP/1.1", " ", "200", " ", "OK">> \o CrLf
             \o HeaderLine(<<"Server">>, <<"py-xmlrpc">>) \o lines
TypeLine == HeaderLine(<<"Content-Type">>, <<"text/xml">>)
Header(m, length) == StartLines(m) \o TypeLine \o LengthLine(length) \o CrLf

-----------------------------------------------------------------------------
(* Reading: the cursor is the text from there on.                          *)

(* Where the cursor is when it has left the text.                          *)
Outside == <<"outside">>

(* chompStr skips blanks and comments, and the character behind a comment. *)
ChompWith(chomp, s) ==
  LET ends == {i \in 1..Len(s) : s[i] = " -->"}
  IN  CASE s = <<>> -> s
        [] s # <<>> /\ s[1] \in Blanks -> chomp[Tail(s)]
        [] s # <<>> /\ s[1] = "<!-- " ->
             IF ends = {} THEN <<>>
             ELSE IF Min(ends) = Len(s) THEN Outside ELSE chomp[Drop(s, Min(ends) + 1)]
        [] OTHER -> s
Chomp[s \in Texts] == ChompWith(Chomp, s)

(* findTag, without and with chomp, from each cursor of a set; and behind  *)
(* the values of a set of results: Closed, or Ended when what is chomped   *)
(* may be the end of the text.                                             *)
Expect(tag, S) ==
  {Drop(s, Len(tag)) : s \in {t \in S : IsPrefix(tag, t)}} \cup (S \cap {Outside})
Skip(tag, S) ==
  ({Chomp[s] : s \in Expect(tag, S) \ {Outside}} \ {Outside}) \cup (S \cap {Outside})
Result(val, rest) == [val |-> val, rest |-> rest]
Closed(tag, R) == UNION {{Result(r.val, s) : s \in Skip(Tag(tag), {r.rest})} : r \in R}

Ended(tag, R) ==
  UNION {{Result(r.val, Chomp[s]) : s \in Expect(Tag(tag), {r.rest})} : r \in R}

DecodeInt(s, close) ==
  IF NumberEnd(s) = Len(s) THEN {}
  ELSE Closed(close, {Result(Number(n), Drop(s, NumberEnd(s))) : n \in NumberAt(s)})

(* decodeDouble.                                                           *)
DoubleEnd(s) == EndOfRun(DOMAIN Numeral \cup {"."}, Sign(s), s)
DecodeDouble(s) ==
  LET text == SubSeq(s, 1, DoubleEnd(s))
      dots == {i \in 1..Len(text) : text[i] = "."}
  IN  IF text = <<>> \/ \E i, j \in dots : i # j THEN {}
      ELSE Closed("/double>", {Result(Double(DoubleOf(text)), Drop(s, DoubleEnd(s)))})

(* decodeNone: the tag is not the end of the text.                         *)
AtEnd(s) == s \in {<<>>, Outside}
Followed(val, s) == IF AtEnd(Chomp[s]) THEN {} ELSE {Result(val, Chomp[s])}
DecodeNone(s) == Followed(None, Drop(s, 2))

(* decodeBool: what is neither false nor true is taken for true.           *)
DecodeBool(s) ==
  LET false == Tag("boolean>") \o <<"0">> \o Tag("/boolean>")
  IN  Followed(Bool(IF IsPrefix(false, s) THEN 0 ELSE 1), Drop(s, Len(false)))

(* unescapeString.                                                         *)
Entity ==
  [name \in {"lt;", "#60;", "#x3c;", "gt;", "amp;", "&;", "apos;", "quot;"} |->
     CASE name \in {"lt;", "#60;", "#x3c;"} -> "<"
       [] name \in {"amp;", "&;"} -> "&"
       [] name = "gt;"   -> ">"
       [] name = "apos;" -> "'"
       [] name = "quot;" -> "\""]
UnescapeWith(unescape, t) ==
  CASE t = <<>> -> {t}
    [] t # <<>> /\ t[1] # "&" -> {<<t[1]>> \o u : u \in unescape[Tail(t)]}
    [] Len(t) > 1 /\ t[1] = "&" /\ t[2] \in DOMAIN Entity ->
         {<<Entity[t[2]]>> \o u : u \in unescape[Drop(t, 2)]}
    [] OTHER -> {}
Unescape[t \in Texts] == UnescapeWith(Unescape, t)

(* The text up to a tag, which is then read as a string or as bytes.       *)
UpTo(tag, s) ==
  LET ends == Found(Tag(tag), s)
  IN  IF ends = {} THEN {}
      ELSE {Result(SubSeq(s, 1, Min(ends) - 1), Drop(s, Min(ends) - 1))}
ReadString(R) == UNION {{Result(Str(t), r.rest) : t \in Unescape[r.val]} : r \in R}
ReadBytes(R) == UNION {{Result(Bytes(b), r.rest) : b \in BytesOf(r.val)} : r \in R}

(* decodeDate: the fields have fixed places.                               *)
DateFields == << <<1, 4>>, <<5, 6>>, <<7, 8>>, <<10, 11>>, <<13, 14>>, <<16, 17>> >>
ReadDate(R) ==
  LET field(r, i) == SubSeq(r.val, DateFields[i][1], DateFields[i][2])
      isDate(r) == /\ Len(r.val) >= 17
                   /\ \A i \in 1..6 : ToSet(field(r, i)) \subseteq DOMAIN Numeral
  IN  {Result(Date([i \in 1..6 |-> NumberOf[field(r, i)]]), r.rest) : r \in {t \in R : isDate(t)}}

(* What is in an array or a struct is read by functions of texts.          *)

(* decodeArray.                                                            *)
DecodeElems(decode, s) ==
  IF ~IsPrefix(Tag("value>"), s) THEN {Result(<<>>, s)}
  ELSE UNION {{Result(<<r.val>> \o e.val, e.rest) : e \in decode.elems[r.rest]} :
                r \in decode.value[s]}
DecodeArray(decode, s) ==
  LET elems == UNION {decode.elems[t] : t \in Skip(Tag("data>"), {s})}
      empty == {t \in {Tag("data/>"), Tag("data />")} : IsPrefix(t, s)}
  IN  IF IsPrefix(Tag("data>"), s)
      THEN Closed("/data>", {Result(Array(e.val), e.rest) : e \in elems})
      ELSE {Result(Array(<<>>), u) :
              u \in IF empty = {} THEN {s} ELSE UNION {Skip(t, {s}) : t \in empty}}

(* decodeStruct.  A name that does not end is searched on behind the text; *)
(* of two members with a name, the later one counts.                       *)
DecodeMember(decode, s) ==
  LET ends == Found(Tag("/name>"), s)
      name == SubSeq(s, 1, Min(ends) - 1)
      vals == UNION {decode.value[t] : t \in Skip(Tag("/name>"), {Drop(s, Min(ends) - 1)})}
      also(v, S) == IF \E m \in S : m.key = name THEN S ELSE S \cup {Member(name, v)}
  IN  IF ends = {} THEN {Result({}, Outside)}
      ELSE UNION {{Result(also(r.val, e.val), e.rest) : e \in decode.members[r.rest]} :
                    r \in Closed("/member>", vals)}
DecodeMembers(decode, s) ==
  IF ~IsPrefix(Tag("member>"), s) THEN {Result({}, s)}
  ELSE UNION {DecodeMember(decode, t) : t \in Expect(Tag("name>"), Skip(Tag("member>"), {s}))}
DecodeStruct(decode, s) == {Result(Struct(e.val), e.rest) : e \in decode.members[s]}

(* decodeValue.  What has no tag of its own is a string, blanks included.  *)
Content(decode, s) ==
  LET t == Chomp[s]
      tag == IF Len(t) > 1 /\ t[1] = "<" THEN t[2] ELSE ""
      inside == Drop(t, 2)
      after == Skip(Tag(tag), {t})
      text(close) == UpTo(close, inside)
  IN  CASE tag = "int>"      -> DecodeInt(inside, "/int>")
        [] tag = "i4>"       -> DecodeInt(inside, "/i4>")
        [] tag = "double>"   -> DecodeDouble(inside)
        [] tag = "nil/>"     -> DecodeNone(t)
        [] tag = "boolean>"  -> DecodeBool(t)
        [] tag = "string>"   -> Closed("/string>", ReadString(text("/string>")))
        [] tag = "base64>"   -> Closed("/base64>", ReadBytes(text("/base64>")))
        [] tag = "dateTime.iso8601>" ->
             Closed("/dateTime.iso8601>", ReadDate(text("/dateTime.iso8601>")))
        [] tag \in {"string/>", "string />"} -> {Result(Str(<<>>), u) : u \in after}
        [] tag = "array>"    -> Closed("/array>", UNION {DecodeArray(decode, u) : u \in after})
        [] tag = "struct>"   -> Closed("/struct>", UNION {DecodeStruct(decode, u) : u \in after})
        [] tag \in {"struct/>", "struct />"} -> {Result(Struct({}), u) : u \in after}
        [] OTHER             -> ReadString(UpTo("/value>", s))
DecodeValue(decode, s) ==
  LET contents == {t \in Expect(Tag("value>"), {Chomp[s]}) : ~AtEnd(Chomp[t])}
  IN  Ended("/value>", UNION {Content(decode, t) : t \in contents})

(* parseParams: its loop.                                                  *)
DecodeParams(decode, s) ==
  LET vals == UNION {decode.value[t] : t \in Skip(Tag("param>"), {s})}
  IN  IF ~IsPrefix(Tag("param>"), s) THEN {Result(<<>>, s)}
      ELSE UNION {{Result(<<r.val>> \o p.val, p.rest) : p \in decode.params[r.rest]} :
                    r \in Closed("/param>", vals)}

(* As many calls deep as a number says.  Each value that is read is at     *)
(* least two tokens, so that the length of a text is enough for it.        *)
NoDecoder == [loop \in {"value", "elems", "members", "params"} |-> [s \in Texts |-> {}]]
DecodersWith(decode) ==
  [value   |-> [s \in Texts |-> DecodeValue(decode, s)],
   elems   |-> [s \in Texts |-> DecodeElems(decode, s)],
   members |-> [s \in Texts |-> DecodeMembers(decode, s)],
   params  |-> [s \in Texts |-> DecodeParams(decode, s)]]
Decoders[n \in Nat] == IF n = 0 THEN NoDecoder ELSE DecodersWith(Decoders[n - 1])
Decode(s) == Decoders[Len(s)].value[s]

-----------------------------------------------------------------------------
(* Headers.                                                                *)

Versions == {"HTTP/1.0", "HTTP/1.1"}
BehindLine(s) == LET ends == {i \in 1..Len(s) : s[i] = "\n"}
                 IN  IF ends = {} THEN {} ELSE {Drop(s, Min(ends))}

(* Names are capitalised.                                                  *)
Capital ==
  [c \in {"Content-Type", "User-Agent", "connection", "content-length", "Content-Length",
          "Transfer-Encoding"} |->
     CASE c = "Content-Type" -> "Content-type"
       [] c = "User-Agent" -> "User-agent"
       [] c = "connection" -> "Connection"
       [] c \in {"content-length", "Content-Length"} -> "Content-length"
       [] c = "Transfer-Encoding" -> "Transfer-encoding"]
Capitalized(name) ==
  [i \in 1..Len(name) |-> IF name[i] \in DOMAIN Capital THEN Capital[name[i]] ELSE name[i]]

(* The line ends at the start of a text; parseHeader's loop and            *)
(* parseHeaderLine.                                                        *)
LineEnds(s) == {e \in {<<"\n">>, CrLf} : IsPrefix(e, s)}
HeaderLinesWith(lines, s) ==
  LET colons == {i \in 1..Len(s) : s[i] = ":"}
      name == Capitalized(SubSeq(s, 1, Min(colons) - 1))
      blank == {i \in (Min(colons) + 1)..Len(s) : s[i] # " "}
      value == Drop(s, Min(blank) - 1)
      ends == {i \in 1..Len(value) : LineEnds(Drop(value, i - 1)) # {}}
      next == Drop(value, Min(ends) - 1)
      line == Entry(name, SubSeq(value, 1, Min(ends) - 1))
  IN  IF LineEnds(s) # {} THEN {[info |-> <<>>, rest |-> Drop(s, Len(e))] : e \in LineEnds(s)}
      ELSE IF colons = {} \/ blank = {} \/ ends = {} THEN {}
      ELSE UNION {{[info |-> Over(h.info, line), rest |-> h.rest] : h \in lines[Drop(next, Len(e))]} :
                    e \in LineEnds(next)}
HeaderLines[s \in Texts] == HeaderLinesWith(HeaderLines, s)

(* parseHeader.  The line behind the request line is skipped with it.      *)
ParseHeader(type, s) ==
  LET call == type = "call"
      version == s[IF call THEN 5 ELSE 1]
      request == Len(s) > 5 /\ s[1] = "POST" /\ s[2] = " " /\ s[4] = " "
      status == Len(s) > 1 /\ s[2] = " "
      info == Over(Entry(<<"HTTP Version">>, <<version>>),
                   IF call THEN Entry(<<"URI">>, <<s[3]>>) ELSE <<>>)
      lines == BehindLine(IF call THEN Drop(s, 7) ELSE s)
      headers == UNION {HeaderLines[t] : t \in lines}
  IN  IF (call /\ ~request) \/ (~call /\ ~status) \/ version \notin Versions THEN {}
      ELSE {[info |-> Over(h.info, info), rest |-> Chomp[h.rest]] :
              h \in {g \in headers : Chomp[g.rest] # Outside}}

(* authenticate: what the method that decides about them is given.         *)
Authenticate(info) ==
  LET auth == info[<<"Authorization">>]
      split(pair) == {i \in 1..Len(pair) : pair[i] = Colon /\ 0 \notin ToSet(SubSeq(pair, 1, i))}
  IN  IF <<"Authorization">> \notin DOMAIN info THEN {Nobody}
      ELSE IF ~IsPrefix(<<"Basic", " ">>, auth) THEN {}
      ELSE {Credentials({SubSeq(p, 1, Min(split(p)) - 1)}, {Drop(p, Min(split(p)))}) :
              p \in {q \in BytesOf(Drop(auth, 2)) : split(q) # {}}}

-----------------------------------------------------------------------------
(* Messages.                                                               *)

Parsed(type, method, params, rest) ==
  Result([type |-> type, method |-> method, params |-> params], rest)

(* parseParams.                                                            *)
Params(s) == Decoders[Len(s) + 1].params[s]
ParseParams(s) ==
  IF IsPrefix(Tag("params>"), s)
  THEN Closed("/params>", UNION {Params(t) : t \in Skip(Tag("params>"), {s})})
  ELSE {Result(<<>>, t) : t \in
          IF IsPrefix(Tag("params/>"), s) THEN Skip(Tag("params/>"), {s}) ELSE {s}}

(* parseCall.                                                              *)
ParseCall(s) ==
  LET names == Expect(Tag("methodName>"), Skip(Tag("methodCall>"), Skip(XmlDecl, {s})))
      methods == UNION {UpTo("/methodName>", t) : t \in names}
      calls == UNION {{Parsed("call", r.val, p.val, p.rest) : p \in ParseParams(r.rest)} :
                        r \in Closed("/methodName>", methods)}
  IN  Ended("/methodCall>", calls)

(* parseFault and rpcFaultRaise.                                          *)
Part(v, key) == {m.val : m \in {n \in v.members : n.key = <<key>>}}
Faults(v) ==
  {<<code, text>> : code \in {c \in Part(v, "faultCode") : c.type = "int"},
                    text \in {t \in Part(v, "faultString") : t.type = "string"}}
ParseFault(s) ==
  LET vals == UNION {Decode(t) : t \in Skip(Tag("fault>"), {s})}
      raised(v) == {Parsed("fault", <<>>, f, v.rest) : f \in Faults(v.val)}
      lost == {Parsed("fault", <<>>, <<>>, Outside) : v \in {w \in vals : w.rest = Outside}}
  IN  Closed("/fault>", UNION {raised(v) : v \in vals} \cup lost)

(* parseResponse.                                                          *)
ParseResult(s) ==
  LET vals == UNION {Decode(t) : t \in Skip(Tag("param>"), Skip(Tag("params>"), {s}))}
  IN  Closed("/params>", Closed("/param>",
        {Parsed("response", <<>>, <<r.val>>, r.rest) : r \in vals}))
ParseResponse(s) ==
  LET starts == Skip(Tag("methodResponse>"), Skip(XmlDecl, {s}))
  IN  Ended("/methodResponse>",
        UNION {IF IsPrefix(Tag("fault>"), t) THEN ParseFault(t) ELSE ParseResult(t) : t \in starts})

(* Mutant: what follows the message is ignored.                            *)
ParseAndIgnore(type, s) ==
  UNION {{Result(Message(r.val.type, r.val.method, r.val.params, h.info, c), <<>>) :
            r \in (IF type = "call" THEN ParseCall(h.rest) ELSE ParseResponse(h.rest)),
            c \in (IF type = "call" THEN Authenticate(h.info) ELSE {Nobody})} :
          h \in ParseHeader(type, s)}

(* parseRequest, with what dispatch asks of its header, and parseResponse: *)
(* the text ends with the message.                                         *)
Parse(type, s) ==
  {p \in UNION {{Result(Message(r.val.type, r.val.method, r.val.params, h.info, c), r.rest) :
            r \in (IF type = "call" THEN ParseCall(h.rest) ELSE ParseResponse(h.rest)),
            c \in (IF type = "call" THEN Authenticate(h.info) ELSE {Nobody})} :
          h \in ParseHeader(type, s)} : AtEnd(p.rest)}
=============================================================================
