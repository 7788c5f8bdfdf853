------------------------------ MODULE Framing ------------------------------
(***************************************************************************)
(* How a client and a server of py-xmlrpc tell where the message that they *)
(* read from a connection ends (rpcClient.c and rpcServer.c): by its       *)
(* Content-length, by its chunks, or by the end of the connection.         *)
(*                                                                         *)
(* A text is a sequence of tokens, each of which counts for one byte: a    *)
(* character, a digit, a line end, or what is read at once (see Codec).    *)
(***************************************************************************)
EXTENDS Integers, Sequences, SequencesExt

Texts == Seq(STRING)
Drop(s, n) == SubSeq(s, n + 1, Len(s))
CrLf == <<"\r", "\n">>
Found(tag, s) == {i \in 1..(Len(s) - 1) : SubSeq(s, i, i + 1) = tag}

-----------------------------------------------------------------------------
(* Numbers (rpcInternal.c).                                                *)

Numerals == <<"0", "1", "2", "3", "4", "5", "6", "7", "8", "9">>
Upper == <<"A", "B", "C", "D", "E", "F", "G", "H", "I", "J", "K", "L", "M", "N", "O", "P",
           "Q", "R", "S", "T", "U", "V", "W", "X", "Y", "Z">>
Lower == <<"a", "b", "c", "d", "e", "f", "g", "h", "i", "j", "k", "l", "m", "n", "o", "p",
           "q", "r", "s", "t", "u", "v", "w", "x", "y", "z">>

Numeral == [d \in ToSet(Numerals) |-> CHOOSE n \in 0..9 : Numerals[n + 1] = d]
NumberOf[digits \in Seq(DOMAIN Numeral)] ==
  IF digits = <<>> THEN 0 ELSE 10 * NumberOf[Front(digits)] + Numeral[Last(digits)]

(* decodeActLong: a sign alone is a number too.                            *)
Sign(s) == IF IsPrefix(<<"-">>, s) THEN 1 ELSE 0
EndOfRun(chars, k, s) == Max({i \in k..Len(s) : \A j \in (k + 1)..i : s[j] \in chars})
NumberEnd(s) == EndOfRun(DOMAIN Numeral, Sign(s), s)
NumberAt(s) ==
  LET n == NumberOf[SubSeq(s, Sign(s) + 1, NumberEnd(s))]
  IN  IF NumberEnd(s) = 0 THEN {} ELSE {IF Sign(s) = 1 THEN -n ELSE n}

(* decodeActLongHex takes every letter, and a sign as well.                *)
HexDigit ==
  [d \in ToSet(Numerals \o Lower \o Upper) |->
     CHOOSE n \in 0..35 : d \in {(Numerals \o Lower)[n + 1], (Numerals \o Upper)[n + 1]}]
HexEnd(s) == EndOfRun(DOMAIN HexDigit, Sign(s), s)
HexOf(digits) == FoldLeft(LAMBDA n, d : 16 * n + HexDigit[d], 0, digits)

-----------------------------------------------------------------------------
(* What a source has read so far: its header, once it has been found, the  *)
(* body as far as it goes, what has come of the next chunk, and the length *)
(* of the body, or -1 if only its end will tell.  It waits for more of the *)
(* header or of the body, goes through the chunks that have come, has the  *)
(* whole, or has failed.                                                   *)
Readers ==
  [stage : {"header", "body", "chunks", "whole", "failed"}, head : Seq(STRING), body : Seq(STRING),
   chunk : Seq(STRING), chunked : BOOLEAN, blen : Int]
NewReader ==
  [stage |-> "header", head |-> <<>>, body |-> <<>>, chunk |-> <<>>, chunked |-> FALSE, blen |-> -1]
At(stage, r) == [r EXCEPT !.stage = stage]

-----------------------------------------------------------------------------
(* Headers.                                                                *)

(* Where empty lines end, and where the header may end: there is more      *)
(* behind the empty line.                                                  *)
EmptyLines(s) ==
  {e \in 1..Len(s) : \E x \in {CrLf \o CrLf, <<"\n", "\n">>} :
                       Len(x) <= e /\ SubSeq(s, e - Len(x) + 1, e) = x}
HeaderEnds(s) == EmptyLines(Front(s))

(* Behind the last line of a name in a header, whatever its case.          *)
LengthNames == {"Content-length", "Content-Length", "content-length"}
Fields(names, head) ==
  LET starts == {i \in 1..(Len(head) - 3) :
                   head[i] \in names /\ SubSeq(head, i + 1, i + 2) = <<":", " ">>}
  IN  IF starts = {} THEN {} ELSE {Drop(head, Max(starts) + 2)}

Lengths(head) == UNION {NumberAt(s) : s \in Fields(LengthNames, head)}
IsChunked(head) ==
  \E s \in Fields({"Transfer-Encoding"}, head) : IsPrefix(<<"chunked">> \o CrLf, s)

(* The header found: what is behind it begins the body.                    *)
Split(r) ==
  LET end == Min(HeaderEnds(r.head))
  IN  [At("body", r) EXCEPT !.head = SubSeq(r.head, 1, end), !.body = Drop(r.head, end)]

-----------------------------------------------------------------------------
(* A server (serverReadHeader and readRequest).                            *)

ReadRequest(r, eof) ==
  IF Len(r.body) > r.blen THEN At("failed", r)
  ELSE IF Len(r.body) = r.blen THEN At("whole", r)
  ELSE IF eof THEN At("failed", r) ELSE r

ServerReadHeader(r, eof) ==
  LET split == Split(r)
  IN  IF HeaderEnds(r.head) = {} THEN IF eof THEN At("failed", r) ELSE r
      ELSE IF Lengths(split.head) = {} THEN At("failed", r)
      ELSE ReadRequest([split EXCEPT !.blen = CHOOSE n \in Lengths(split.head) : TRUE], eof)

ServerRead(r, new, eof) ==
  IF r.stage = "header" THEN ServerReadHeader([r EXCEPT !.head = @ \o new], eof)
  ELSE ReadRequest([r EXCEPT !.body = @ \o new], eof)

-----------------------------------------------------------------------------
(* A client (readHeader, readResponse, readChunks, processChunk).          *)

(* Mutant: there must be more than the body.                               *)
ReadResponseMore(r, eof) ==
  IF (r.blen < 0 /\ eof) \/ (r.blen >= 0 /\ Len(r.body) > r.blen) THEN At("whole", r)
  ELSE IF eof THEN At("failed", r) ELSE r

(* Mutant: the end of the connection is taken for that of the body.        *)
ReadResponseAtEof(r, eof) ==
  IF eof \/ (r.blen >= 0 /\ Len(r.body) >= r.blen) THEN At("whole", r) ELSE r

ReadResponse(r, eof) ==
  IF (r.blen < 0 /\ eof) \/ (r.blen >= 0 /\ Len(r.body) >= r.blen) THEN At("whole", r)
  ELSE IF eof THEN At("failed", r) ELSE r

(* A chunk: its size, where the line of it ends, and what is behind it.    *)
SizeOf(chunk) ==
  LET n == HexOf(SubSeq(chunk, Sign(chunk) + 1, HexEnd(chunk)))
  IN  IF Sign(chunk) = 1 THEN -n ELSE n
LineEnd(chunk) == Min(Found(CrLf, chunk)) + 1
Data(chunk) == Drop(chunk, LineEnd(chunk))

(* One chunk is taken, after which the loop goes on.  The last is empty;   *)
(* its end is that of what may trail behind it.  One of a negative size    *)
(* fails: no string can be made of it.                                     *)
ProcessChunk(r, eof) ==
  LET more == At(IF eof THEN "failed" ELSE "body", r)
      size == SizeOf(r.chunk)
      data == Data(r.chunk)
      trailer == Drop(r.chunk, HexEnd(r.chunk))
  IN  IF Found(CrLf, r.chunk) = {} THEN more
      ELSE IF HexEnd(r.chunk) = 0 THEN At("failed", r)
      ELSE IF Len(data) < size + 2 THEN more
      ELSE IF size = 0
      THEN IF \E i \in 1..(Len(trailer) - 3) : SubSeq(trailer, i, i + 3) = CrLf \o CrLf
           THEN At("whole", r) ELSE more
      ELSE IF size < 0 \/ SubSeq(data, size + 1, size + 2) # CrLf THEN At("failed", r)
      ELSE [r EXCEPT !.stage = "chunks", !.body = @ \o SubSeq(data, 1, size),
                     !.chunk = Drop(data, size + 2)]

ReadBody(r, eof) == IF r.chunked THEN ProcessChunk(r, eof) ELSE ReadResponse(r, eof)

ReadHeader(r, eof) ==
  LET split == Split(r)
      length == CHOOSE n \in Lengths(split.head) : TRUE
  IN  IF HeaderEnds(r.head) = {} THEN IF eof THEN At("failed", r) ELSE r
      ELSE IF IsChunked(split.head)
      THEN ReadBody([split EXCEPT !.body = <<>>, !.chunk = split.body, !.chunked = TRUE], eof)
      ELSE IF Fields(LengthNames, split.head) = {} THEN ReadBody(split, eof)
      ELSE IF Lengths(split.head) = {} THEN At("failed", r)
      ELSE ReadBody([split EXCEPT !.blen = length], eof)

ClientRead(r, new, eof) ==
  CASE r.stage = "header" -> ReadHeader([r EXCEPT !.head = @ \o new], eof)
    [] r.stage = "body" /\ r.chunked -> ReadBody([r EXCEPT !.chunk = @ \o new], eof)
    [] r.stage = "body" /\ ~r.chunked -> ReadBody([r EXCEPT !.body = @ \o new], eof)
=============================================================================
