------------------------------ MODULE Delivery ------------------------------
(***************************************************************************)
(* Messages of Codec on their way through Transport: how other programs    *)
(* write and frame them, and what a client or a server understands of what *)
(* it has read (parseRequest and parseResponse, rpcUtils.c).               *)
(***************************************************************************)
EXTENDS Codec, Transport

CONSTANT ChunkSizes   (* the lengths of the chunks of a response            *)

ASSUME ChunkSizesAssumption == ChunkSizes \subseteq Nat \ {0}

-----------------------------------------------------------------------------
(* Other programs.                                                         *)

(* Another program has other ways to write the same document: blanks, or   *)
(* comments before them, where two tags meet; i4 for int, strings without  *)
(* a tag; one tag for an empty value; a number for an entity.              *)
Leaves == {"int>", "string>", "boolean>", "double>", "base64>", "dateTime.iso8601>",
           "name>", "methodName>"}
Gaps(text) ==
  {i \in 2..(Len(text) - 1) : text[i + 1] = "<" /\ text[i - 1] = "<" /\ text[i] \notin Leaves}
Spaced(text) ==
  {SubSeq(text, 1, i) \o gap \o Drop(text, i) :
     i \in Gaps(text), gap \in {<<" ">>, <<"<!-- ", "a", " -->", "\n">>}}
Spellings ==
  {<<Tag("string>") \o Tag("/string>"), Tag("string/>")>>,
   <<Tag("string>") \o Tag("/string>"), Tag("string />")>>,
   <<Tag("struct>") \o <<" ">> \o Tag("/struct>"), Tag("struct/>")>>,
   <<Tag("struct>") \o <<" ">> \o Tag("/struct>"), Tag("struct />")>>,
   <<Tag("data>") \o <<" ">> \o Tag("/data>"), Tag("data/>")>>,
   <<Tag("data>") \o <<" ">> \o Tag("/data>"), Tag("data />")>>,
   <<Tag("params>") \o <<" ">> \o Tag("/params>"), Tag("params/>")>>,
   <<Tag("params>") \o <<" ">> \o Tag("/params>"), <<>> >>,
   << <<"&", "lt;">>, <<"&", "#60;">> >>}
Respelled(text) ==
  UNION {{SubSeq(text, 1, i - 1) \o s[2] \o Drop(text, i - 1 + Len(s[1])) :
            i \in {j \in 1..Len(text) : IsPrefix(s[1], Drop(text, j - 1))}} : s \in Spellings}
Retaggings == {<<Tag("int>"), Tag("/int>"), Tag("i4>"), Tag("/i4>")>>,
               <<Tag("string>"), Tag("/string>"), <<>>, <<>> >>}
Retagged(text) ==
  LET new(i, t) == LET rest == Drop(text, i + 1)
                       end == Min(Found(t[2], rest))
                   IN  SubSeq(text, 1, i - 1) \o t[3] \o SubSeq(rest, 1, end - 1)
                         \o t[4] \o Drop(rest, end + 1)
  IN  UNION {{new(i, t) : i \in {j \in 1..Len(text) : IsPrefix(t[1], Drop(text, j - 1))}} :
               t \in Retaggings}
Rewritings(m) == Spaced(Body(m)) \cup Respelled(Body(m)) \cup Retagged(Body(m))

(* Headers whose lines end with a line feed alone, and whose names have    *)
(* another case.                                                           *)
Relined(m, length) ==
  LET renamed == [name \in {"Content-length"} |-> "content-length"]
      lower(c) == IF c \in DOMAIN renamed THEN renamed[c] ELSE c
      header == Header(m, length)
  IN  {SelectSeq([i \in 1..Len(header) |-> lower(header[i])], LAMBDA c : c # "\r")}

(* The header of a response without a length.                              *)
Unlengthed(m) == {StartLines(m) \o TypeLine \o CrLf}

(* A document in chunks of a size, the last of which may have a trailer.   *)
ChunkedHeader(m) ==
  {StartLines(m) \o HeaderLine(<<"Transfer-Encoding">>, <<"chunked">>) \o TypeLine \o CrLf}
HexNumerals == Numerals \o <<"a", "B", "c", "D", "e", "F">>
HexDigits[n \in Nat] == IF n < 16 THEN <<HexNumerals[n + 1]>>
                        ELSE Append(HexDigits[n \div 16], HexNumerals[(n % 16) + 1])
Chunk(data) == HexDigits[Len(data)] \o <<";", "a">> \o CrLf \o data \o CrLf
Chunked(text, size, trailer) ==
  LET count == (Len(text) + size - 1) \div size
      chunk(i) == Chunk(SubSeq(text, (i - 1) * size + 1, Min({i * size, Len(text)})))
      chunks == [i \in 1..count |-> chunk(i)]
      before(i) == FlattenSeq(SubSeq(chunks, 1, i - 1))
  IN  [text   |-> FlattenSeq(chunks) \o <<"0">> \o CrLf \o trailer \o CrLf,
       starts |-> [i \in 1..(count + 1) |-> Len(before(i))],
       from   |-> [i \in 1..(count + 1) |-> Min({(i - 1) * size, Len(text)})]]
ChunkedAny(text) ==
  {Chunked(text, size, trailer) :
     size \in ChunkSizes, trailer \in {<<>>, HeaderLine(<<"X">>, <<"a">>)}}

-----------------------------------------------------------------------------
(* What a reader that has the whole makes of it, and whether the parser    *)
(* has left the text.                                                      *)
Results == IF reader.stage = "whole" THEN Parse(msg.type, reader.head \o reader.body) ELSE {}
Got == {p.val : p \in {q \in Results : q.rest # Outside}}

(* What is read is what was sent: the kind of message, the method, the     *)
(* values or the fault, the caller's header lines, and who calls; a name   *)
(* or a password that was not given is empty if the other was.             *)
Given(S) == IF msg.cred = Nobody \/ S # {} THEN S ELSE {<<>>}
AsSent(m) ==
  /\ m.type = msg.type /\ m.method = msg.method
  /\ m.params = IF msg.type = "fault" THEN <<FaultCode(msg.params[1]), FaultString(msg.params[2])>>
                ELSE msg.params
  /\ \A name \in DOMAIN msg.info :
       Capitalized(name) \in DOMAIN m.info /\ m.info[Capitalized(name)] = msg.info[name]
  /\ m.cred = Credentials(Given(msg.cred.name), Given(msg.cred.pass))

(* A message arrives as it was sent, however its body is laid out and      *)
(* framed, and in whatever pieces it comes (encodeValue, buildHeader and   *)
(* their parsers; readHeader, processChunk and readRequest).               *)
MessagesSurvive ==
  reader.stage \in {"whole", "failed"} /\ edit \in {"none", "other"} /\ lost = <<>> =>
    \E m \in Got : Got = {m} /\ AsSent(m)

(* Only a whole message is read: not one that is cut, but for the blank at *)
(* its end, nor one with something before or behind it that came with it   *)
(* (parseCall and parseResponse).  Client's Parses is this.                *)
OnlyWhole ==
  edit \in {"cut", "before", "behind"} \/ lost # <<>> =>
    \A m \in Got :
      /\ AsSent(m)
      /\ body = reader.body \/ (edit # "behind" /\ body = reader.body \o <<" ">>)
=============================================================================
