----------------------------- MODULE Transport -----------------------------
(***************************************************************************)
(* A message of py-xmlrpc on its way: it is built in a growing buffer      *)
(* (rpcUtils.c), or by another program and framed in another way; it comes *)
(* through a connection in pieces, and is read by a client or a server     *)
(* until one of them has the whole (rpcClient.c and rpcServer.c).          *)
(*                                                                         *)
(* What the documents say is left to Delivery, which gives the texts their *)
(* values; here they are constants.                                        *)
(***************************************************************************)
EXTENDS Framing, Buffer

CONSTANTS
  Messages,         (* the messages that are sent                           *)
  Requests,         (* those that a server reads                            *)
  Slow,             (* those that come in pieces, and framed in other ways  *)
  Piece,            (* how much of a message comes at once, if not the rest *)
  BodyText(_),      (* the document of a message                            *)
  HeadText(_, _),   (* the header for a document of such a length           *)
  OtherBodies(_),   (* other documents that say the same                    *)
  OtherHeads(_, _), (* other headers for a document of such a length        *)
  EndlessHeads(_),  (* headers without a length                             *)
  ChunkedHeads(_),  (* headers for a document that comes in chunks          *)
  Chunkings(_)      (* the ways to put a document into chunks               *)

Documents(m) == {BodyText(m)} \cup OtherBodies(m)
Heads(m, n) == {HeadText(m, n)} \cup OtherHeads(m, n)
BodyLengths(m) == (0..Len(BodyText(m))) \cup {Len(text) : text \in OtherBodies(m)}

(* A header ends with its only empty line.                                 *)
IsHead(h) == h \in Texts /\ EmptyLines(h) = {Len(h)}

(* A chunk at the start of a text, of so much of a document: a line that   *)
(* begins with its size, as much as the size says, and a line end.         *)
IsChunk(text, piece) ==
  /\ Found(CrLf, text) # {} /\ HexEnd(text) \in 1..(LineEnd(text) - 2)
  /\ SizeOf(text) = Len(piece) /\ Len(Data(text)) >= Len(piece) + 2
  /\ SubSeq(Data(text), 1, Len(piece) + 2) = piece \o CrLf
IsLastChunk(text) ==
  /\ Found(CrLf, text) # {} /\ HexEnd(text) \in 1..(LineEnd(text) - 2)
  /\ SizeOf(text) = 0 /\ Len(Data(text)) >= 2
  /\ \E i \in 1..(Len(text) - HexEnd(text) - 3) :
       SubSeq(Drop(text, HexEnd(text)), i, i + 3) = CrLf \o CrLf

(* A document in chunks: its text, where each chunk starts in the text and *)
(* in the document, and the last one, which is empty.                      *)
IsChunking(g, document) ==
  LET last == Len(g.starts)
      rest(i) == Drop(g.text, g.starts[i])
      piece(i) == SubSeq(document, g.from[i] + 1, g.from[i + 1])
  IN  /\ g.text \in Texts /\ g.starts \in Seq(0..Len(g.text)) /\ g.from \in Seq(0..Len(document))
      /\ last >= 1 /\ Len(g.from) = last
      /\ g.starts[1] = 0 /\ g.from[1] = 0 /\ g.from[last] = Len(document)
      /\ \A i \in 1..(last - 1) :
           /\ g.from[i] < g.from[i + 1] /\ IsChunk(rest(i), piece(i))
           /\ g.starts[i + 1] = g.starts[i] + LineEnd(rest(i)) + Len(piece(i)) + 2
      /\ IsLastChunk(rest(last))

ASSUME SenderAssumption ==
  Requests \subseteq Messages /\ Slow \subseteq Messages /\ Piece \in Nat \ {0}

ASSUME BodyAssumption ==
  \A m \in Messages : \A text \in Documents(m) : text \in Texts /\ text # <<>>

ASSUME HeadAssumption ==
  \A m \in Messages : \A n \in BodyLengths(m) : \A h \in Heads(m, n) :
    IsHead(h) /\ Lengths(h) = {n} /\ ~IsChunked(h)

ASSUME EndlessAssumption ==
  \A m \in Slow \ Requests : \A h \in EndlessHeads(m) :
    IsHead(h) /\ Fields(LengthNames, h) = {} /\ ~IsChunked(h)

ASSUME ChunkAssumption ==
  \A m \in Slow \ Requests :
    /\ \A h \in ChunkedHeads(m) : IsHead(h) /\ IsChunked(h)
    /\ \A g \in Chunkings(BodyText(m)) : IsChunking(g, BodyText(m))

VARIABLES
  msg,      (* the message                                                  *)
  stage,    (* what is being built: "head", "body", or nothing: "sent"      *)
  todo,     (* the tokens that are still to be put into the buffer          *)
  head,     (* the header                                                   *)
  body,     (* the document                                                 *)
  edit,     (* what has happened to it on its way                           *)
  wire,     (* the text that has been sent and not been read yet            *)
  lost,     (* and what will not arrive of it                               *)
  conn,     (* the connection: "open", its end is "coming", or was "read"   *)
  reader    (* the reader's source                                          *)

vars == <<msg, stage, todo, head, body, edit, wire, lost, conn, reader, buffer>>

Init ==
  /\ msg \in Messages
  /\ stage = "body" /\ todo = BodyText(msg)
  /\ head = <<>> /\ body = <<>> /\ edit = "none"
  /\ wire = <<>> /\ lost = <<>> /\ conn = "open" /\ reader = NewReader
  /\ BufferInit

-----------------------------------------------------------------------------
(* Building.                                                               *)

(* The next token goes into the buffer, as a constant or as a C string.    *)
Put ==
  /\ stage \in {"body", "head"} /\ todo # <<>>
  /\ todo' = Tail(todo)
  /\ IF stage = "body" THEN body' = Append(body, Head(todo)) /\ UNCHANGED head
     ELSE head' = Append(head, Head(todo)) /\ UNCHANGED body
  /\ BuffAppend(1) \/ BuffConcat(1)
  /\ UNCHANGED <<msg, stage, edit, wire, lost, conn, reader>>

(* The header gets a buffer of its own, to which the body is appended.     *)
StartHeader ==
  /\ stage = "body" /\ todo = <<>>
  /\ stage' = "head"
  /\ todo' = HeadText(msg, Len(body))
  /\ NewBuff
  /\ UNCHANGED <<msg, head, body, edit, wire, lost, conn, reader>>
AppendBody ==
  /\ stage = "head" /\ todo = <<>>
  /\ stage' = "sent"
  /\ wire' = head \o body
  /\ BuffAppend(Len(body))
  /\ UNCHANGED <<msg, todo, head, body, edit, lost, conn, reader>>

-----------------------------------------------------------------------------
(* Other programs, and the connection.                                     *)

Intact == stage = "sent" /\ edit = "none" /\ lost = <<>> /\ reader = NewReader
Changed(how, h, text) ==
  /\ edit' = how /\ head' = h /\ wire' = h \o text
  /\ UNCHANGED <<msg, stage, todo, lost, reader, buffer>>

(* Another program writes the document in another way.                     *)
Rewrite ==
  /\ Intact
  /\ \E text \in OtherBodies(msg) : Changed("other", HeadText(msg, Len(text)), text) /\ body' = text
  /\ UNCHANGED conn

(* Or frames it in another way: with another header, without a length, in  *)
(* which case the message ends with the connection, or in chunks.          *)
Reframe ==
  /\ Intact /\ msg \in Slow
  /\ \E h \in OtherHeads(msg, Len(body)) : Changed("other", h, body)
  /\ UNCHANGED <<body, conn>>
Unlength ==
  /\ Intact /\ msg \in Slow \ Requests
  /\ \E h \in EndlessHeads(msg) : Changed("other", h, body)
  /\ conn' = "coming" /\ UNCHANGED body
Rechunk ==
  /\ Intact /\ msg \in Slow \ Requests
  /\ \E h \in ChunkedHeads(msg), g \in Chunkings(body) : Changed("other", h, g.text)
  /\ UNCHANGED <<body, conn>>

(* The end of the document is missing; the rest of an earlier message is   *)
(* before it; a later one is behind it.                                    *)
Cut ==
  /\ Intact
  /\ \E n \in 0..(Len(body) - 1) : Changed("cut", HeadText(msg, n), SubSeq(body, 1, n))
  /\ UNCHANGED <<body, conn>>
Precede ==
  /\ Intact
  /\ \E n \in 0..(Len(wire) - 1) : wire' = Drop(wire, n) \o wire
  /\ edit' = "before"
  /\ UNCHANGED <<msg, stage, todo, head, body, lost, conn, reader, buffer>>
Follow ==
  /\ Intact
  /\ \E n \in {1, Len(wire)} : Changed("behind", head, body \o SubSeq(wire, 1, n))
  /\ UNCHANGED <<body, conn>>

(* The connection is lost, and all but the last bytes that have arrived.   *)
Lose ==
  /\ stage = "sent" /\ msg \in Slow /\ edit \in {"none", "other"}
  /\ reader.stage \in {"header", "body"} /\ lost = <<>> /\ wire # <<>>
  /\ \E n \in {0, 1} : n < Len(wire) /\ wire' = SubSeq(wire, 1, n) /\ lost' = Drop(wire, n)
  /\ conn' = "coming"
  /\ UNCHANGED <<msg, stage, todo, head, body, edit, reader, buffer>>

-----------------------------------------------------------------------------
(* Reading.                                                                *)

(* A source is ready: what has come is read, with the end of the           *)
(* connection if that has come too.  What has come between two reads of    *)
(* one handler might as well have come before it.                          *)
Read(n, eof) ==
  LET new == SubSeq(wire, 1, n)
  IN  /\ stage = "sent" /\ reader.stage \in {"header", "body"}
      /\ reader' = IF msg \in Requests THEN ServerRead(reader, new, eof)
                   ELSE ClientRead(reader, new, eof)
      /\ wire' = Drop(wire, n)
      /\ conn' = IF eof THEN "read" ELSE conn
      /\ UNCHANGED <<msg, stage, todo, head, body, edit, lost, buffer>>

Receive ==
  LET rest == Len(wire)
  IN  \/ msg \in Slow /\ edit # "before" /\ \E n \in 1..Piece : n < rest /\ Read(n, FALSE)
      \/ rest > 0 /\ Read(rest, FALSE)
      \/ conn = "coming" /\ Read(rest, TRUE)

(* The loop over the chunks that have come.                                *)
NextChunk ==
  /\ reader.stage = "chunks"
  /\ reader' = ProcessChunk(reader, conn = "read")
  /\ UNCHANGED <<msg, stage, todo, head, body, edit, wire, lost, conn, buffer>>

Next ==
  \/ Put \/ StartHeader \/ AppendBody
  \/ Rewrite \/ Reframe \/ Unlength \/ Rechunk
  \/ Cut \/ Precede \/ Follow \/ Lose
  \/ Receive \/ NextChunk

Spec == Init /\ [][Next]_vars

-----------------------------------------------------------------------------
(* Every variable has its type (rpcUtils.c, and what a source holds in     *)
(* rpcClient.c and rpcServer.c), and the buffer in use is as long as what  *)
(* has been put into it.                                                   *)
TypeOK ==
  /\ msg \in Messages /\ stage \in {"body", "head", "sent"}
  /\ edit \in {"none", "other", "cut", "before", "behind"}
  /\ conn \in {"open", "coming", "read"}
  /\ \A text \in {todo, head, body, wire, lost} : text \in Texts
  /\ edit # "before" => reader \in Readers
  /\ len \in Nat /\ all \in Nat /\ top \in Nat
  /\ stage = "body" => len = Len(body)
  /\ stage = "head" => len = Len(head)
  /\ stage = "sent" /\ edit = "none" => len = Len(head) + Len(body)

(* However a message is framed and in whatever pieces it comes, a reader   *)
(* that thinks it has the whole has the header and the document as they    *)
(* were sent, and has not lost any of them with the connection, unless it  *)
(* had only the end of the connection to tell (readHeader, readResponse,   *)
(* processChunk and readRequest).                                          *)
Reassembled ==
  reader.stage = "whole" /\ edit \in {"none", "other"} =>
    /\ reader.head = head
    /\ reader.body = body \/ (lost # <<>> /\ reader.blen < 0 /\ ~reader.chunked)

(* No reader waits in vain: once all that was sent has been read, it has   *)
(* the message or has failed, or the end of the connection is still to     *)
(* come, if what was sent began with the message and had a body            *)
(* (readHeader, which takes a header for whole only when there is more:    *)
(* who sends an empty body waits for an answer until the other gives up).  *)
Bodiless == edit = "cut" /\ reader.stage = "header" /\ reader.head = head
NeverWaitsInVain ==
  stage = "sent" /\ wire = <<>> /\ reader.stage \in {"header", "body"} =>
    conn = "coming" \/ edit = "before" \/ Bodiless
=============================================================================
