------------------------------- MODULE Server -------------------------------
(***************************************************************************)
(* The HTTP side of py-xmlrpc's server: rpcServer.c.                       *)
(*                                                                         *)
(* The listener and every connection are sources of the dispatcher, which  *)
(* calls serveAccept, serverReadHeader, readRequest or writeResponse when  *)
(* one is ready.  The dispatcher is here what EventLoop promises, with the *)
(* events of one select() served as a batch; Dispatcher is its detail.     *)
(*                                                                         *)
(* A request is ReqUnits units of data of which the first is the header, a *)
(* response RespUnits units.  The units of a connection are numbered in    *)
(* either direction, so a number tells the request it belongs to.          *)
(***************************************************************************)
EXTENDS Integers, Sequences

CONSTANTS
  Conns,       (* the connections that clients may open                    *)
  Listener,    (* the source of the listening socket                       *)
  NoConn,      (* no connection                                            *)
  Plan,        (* Plan[c]: the kinds of requests the client of c sends     *)
  ReqUnits,    (* the length of a request                                  *)
  RespUnits,   (* the length of a response                                 *)
  Window,      (* how much the kernel buffers for a client that is slow    *)
  OnErr,       (* what the error handler returns, as sets of ONERR_ flags  *)
  Pipelining,  (* whether a client may send before it has its answer       *)
  Preforked,   (* whether other processes accept on the listening socket   *)
  Scarce,      (* whether accept() may find no descriptor or memory left   *)
  Failing,     (* the clients that may close or reset their connection     *)
  Careless     (* the mistakes the application may make, see below         *)

(* "keep": asks to keep the connection alive;  "close": asks to close it;  *)
(* "bad": asks to keep it alive, but does not parse or is not authorised;  *)
(* "nolength": its header has no valid Content-length.                     *)
Kinds == {"keep", "close", "bad", "nolength"}

(* "early":  answering a request in its own method, without postponing it; *)
(* "double": answering it again;  "fault": answering it with queueFault;   *)
(* "thread": answering it during a select() without a time limit.          *)
Mistakes == {"early", "double", "fault", "thread"}

ASSUME ConnsAssumption == Listener \notin Conns /\ NoConn \notin Conns
ASSUME PlanAssumption == \A c \in Conns : Plan[c] \in Seq(Kinds)
ASSUME UnitsAssumption ==
  ReqUnits \in Nat \ {0, 1} /\ RespUnits \in Nat \ {0} /\ Window \in Nat \ {0}
ASSUME ServerFlagsAssumption ==
  /\ OnErr \subseteq SUBSET {"KEEP_DEF", "KEEP_WORK"}
  /\ Pipelining \in BOOLEAN /\ Preforked \in BOOLEAN /\ Scarce \in BOOLEAN
  /\ Failing \subseteq Conns
  /\ Careless \subseteq Mistakes

VARIABLES
  lopen,    (* the listening socket is open                                *)
  backlog,  (* the connections that wait to be accepted                    *)
  armed,    (* the registered sources                                      *)
  fdopen,   (* the connections whose descriptor the server holds           *)
  params,   (* what func and params of each connection's source stand for  *)
  buf,      (* how much of a request has been read                         *)
  keep,     (* the keepAlive that goes with a response                     *)
  out,      (* the units of a response that are yet to be written          *)
  taken,    (* how many requests have been read in full                    *)
  sent,     (* how many units the client has sent                          *)
  rcvd,     (* how many of them the server has read                        *)
  peer,     (* the client's end: none, up, eof (it sends no more) or gone  *)
  wire,     (* the units the server has written                            *)
  got,      (* how many of them the client has read                        *)
  kept,     (* the sources of postponed requests the application holds     *)
  debt,     (* the request it owes the answer of, or 0                     *)
  pc,       (* where the thread in work() is                               *)
  due,      (* what is left of the batch                                   *)
  cur,      (* the connection whose method runs                            *)
  watch,    (* the sources that select() waits for                         *)
  limit     (* work() was called with a time limit                         *)

request == <<params, buf, keep, out>>
client == <<sent, peer, got>>
app == <<kept, debt>>
waiting == <<watch, limit>>
loop == <<pc, due, cur, waiting>>
vars == <<lopen, backlog, armed, fdopen, request, taken, client, rcvd, wire, app, loop>>

Zero == [c \in Conns |-> 0]
Length(c) == Len(Plan[c])
Request(c) == (rcvd[c] - buf[c]) \div ReqUnits + 1
Response(r) == [k \in 1..RespUnits |-> (r - 1) * RespUnits + k]
Space(c) == Window - (Len(wire[c]) - got[c])
Careful(mistake, safe) == mistake \in Careless \/ safe

Init ==
  /\ lopen = TRUE
  /\ backlog = {}
  /\ armed = {Listener}
  /\ fdopen = {}
  /\ params = [c \in Conns |-> "null"]
  /\ buf = Zero
  /\ keep = [c \in Conns |-> FALSE]
  /\ out = [c \in Conns |-> <<>>]
  /\ taken = Zero
  /\ sent = Zero
  /\ rcvd = Zero
  /\ peer = [c \in Conns |-> "none"]
  /\ wire = [c \in Conns |-> <<>>]
  /\ got = Zero
  /\ kept = {}
  /\ debt = Zero
  /\ pc = "out"
  /\ due = {}
  /\ cur = NoConn
  /\ watch = {}
  /\ limit = FALSE

-----------------------------------------------------------------------------
(* The clients and the network.                                            *)

Connect(c) ==
  /\ lopen
  /\ peer[c] = "none"
  /\ peer' = [peer EXCEPT ![c] = "up"]
  /\ backlog' = backlog \union {c}
  /\ UNCHANGED <<lopen, armed, fdopen, request, taken, sent, got, rcvd, wire, app, loop>>

(* A client that does not pipeline sends a request when it has the answer  *)
(* to the one before.                                                      *)
Send(c) ==
  /\ peer[c] = "up"
  /\ c \in backlog \union fdopen
  /\ sent[c] < Length(c) * ReqUnits
  /\ Pipelining \/ got[c] >= (sent[c] \div ReqUnits) * RespUnits
  /\ sent' = [sent EXCEPT ![c] = @ + 1]
  /\ UNCHANGED <<lopen, backlog, armed, fdopen, request, taken, peer, got, rcvd, wire, app, loop>>

Receive(c) ==
  /\ peer[c] \in {"up", "eof"}
  /\ got[c] < Len(wire[c])
  /\ got' = [got EXCEPT ![c] = Len(wire[c])]
  /\ UNCHANGED <<lopen, backlog, armed, fdopen, request, taken, sent, peer, rcvd, wire, app, loop>>

(* The client closes its end, or the connection is lost.                   *)
Leave(c) ==
  /\ c \in Failing
  /\ \/ peer[c] = "up" /\ peer' = [peer EXCEPT ![c] = "eof"]
     \/ peer[c] \in {"up", "eof"} /\ peer' = [peer EXCEPT ![c] = "gone"]
  /\ UNCHANGED <<lopen, backlog, armed, fdopen, request, taken, sent, got, rcvd, wire, app, loop>>

(* Another process that shares the listening socket is faster.             *)
AcceptedElsewhere(c) ==
  /\ Preforked
  /\ c \in backlog
  /\ backlog' = backlog \ {c}
  /\ UNCHANGED <<lopen, armed, fdopen, request, taken, client, rcvd, wire, app, loop>>

Clients ==
  \E c \in Conns :
    Connect(c) \/ Send(c) \/ Receive(c) \/ Leave(c) \/ AcceptedElsewhere(c)

-----------------------------------------------------------------------------
(* The event loop.                                                         *)

Ready(s) ==
  \/ s = Listener /\ backlog # {}
  \/ /\ s \in Conns
     /\ \/ params[s] \in {"header", "body"} /\ (sent[s] > rcvd[s] \/ peer[s] \in {"eof", "gone"})
        \/ params[s] = "write" /\ (Space(s) > 0 \/ peer[s] = "gone")

Work ==
  /\ pc = "out"
  /\ pc' = "loop"
  /\ limit' \in BOOLEAN
  /\ UNCHANGED <<lopen, backlog, armed, fdopen, request, taken, client, rcvd, wire, app, due, cur, watch>>

(* dispNextEv calls select() with the sources that are registered, and lets*)
(* other threads run until it returns.                                     *)
Select ==
  /\ pc = "loop"
  /\ armed # {}
  /\ pc' = "select"
  /\ watch' = armed
  /\ UNCHANGED <<lopen, backlog, armed, fdopen, request, taken, client, rcvd, wire, app, due, cur, limit>>

(* It returns with what is ready, or with nothing: its time is up, or the  *)
(* event is one of a source by which the application, that owes an answer, *)
(* learns that it can give it.  A source that was registered meanwhile has *)
(* no event.                                                               *)
SelectReturns ==
  /\ pc = "select"
  /\ due' = {s \in watch \intersect armed : Ready(s)}
  /\ due' # {} \/ limit \/ \E c \in Conns : debt[c] # 0
  /\ pc' = "batch"
  /\ watch' = {}
  /\ UNCHANGED <<lopen, backlog, armed, fdopen, request, taken, client, rcvd, wire, app, cur, limit>>

(* work() ends after a batch, after a timeout or exit(), or when there is  *)
(* nothing to wait for.                                                    *)
EndBatch ==
  /\ pc = "batch"
  /\ due = {}
  /\ pc' \in {"loop", "out"}
  /\ UNCHANGED <<lopen, backlog, armed, fdopen, request, taken, client, rcvd, wire, app, due, cur, waiting>>
ReturnEmpty ==
  /\ pc = "loop"
  /\ armed = {}
  /\ pc' = "out"
  /\ UNCHANGED <<lopen, backlog, armed, fdopen, request, taken, client, rcvd, wire, app, due, cur, waiting>>

Serves(s) == pc = "batch" /\ s \in due
Served(s) == due' = due \ {s} /\ pc' = "batch"

(* dispHandleError after a callback of s has failed.  A source that is not *)
(* registered again is freed, and its descriptor closed, unless somebody   *)
(* else holds it: the server its listener, the application those in kept.  *)
Fail(s, flags) ==
  /\ armed' = armed \ {s}
  /\ lopen' = (lopen /\ (s # Listener \/ "KEEP_DEF" \notin flags))
  /\ fdopen' = IF "KEEP_DEF" \in flags \/ s \notin kept THEN fdopen \ {s} ELSE fdopen
  /\ IF "KEEP_WORK" \in flags
     THEN Served(s)
     ELSE due' = {} /\ pc' = "out"
  /\ cur' = NoConn

-----------------------------------------------------------------------------
(* Writing responses.                                                      *)

(* Mutants: the last unit written is written again; a closed connection is *)
(* registered; the connection is closed with the rest unwritten.           *)
WriteResponseRepeats(c, units, ka) ==
  LET n == IF Len(units) <= Space(c) THEN Len(units) ELSE Space(c)
      done == n = Len(units)
  IN
  /\ peer[c] # "gone"
  /\ wire' = [wire EXCEPT ![c] = @ \o SubSeq(units, 1, n)]
  /\ params' = [params EXCEPT ![c] = IF done THEN "header" ELSE "write"]
  /\ buf' = [buf EXCEPT ![c] = 0]
  /\ keep' = [keep EXCEPT ![c] = ka]
  /\ out' = [out EXCEPT ![c] = IF done THEN <<>> ELSE SubSeq(units, n, Len(units))]
  /\ armed' = IF done /\ ~ka THEN armed \ {c} ELSE armed \union {c}
  /\ fdopen' = IF done /\ ~ka THEN fdopen \ {c} ELSE fdopen
WriteResponseArmsClosed(c, units, ka) ==
  LET n == IF Len(units) <= Space(c) THEN Len(units) ELSE Space(c)
      done == n = Len(units)
  IN
  /\ peer[c] # "gone"
  /\ wire' = [wire EXCEPT ![c] = @ \o SubSeq(units, 1, n)]
  /\ params' = [params EXCEPT ![c] = IF done THEN "header" ELSE "write"]
  /\ buf' = [buf EXCEPT ![c] = 0]
  /\ keep' = [keep EXCEPT ![c] = ka]
  /\ out' = [out EXCEPT ![c] = SubSeq(units, n + 1, Len(units))]
  /\ armed' = armed \union {c}
  /\ fdopen' = IF done /\ ~ka THEN fdopen \ {c} ELSE fdopen

WriteResponseClosesEarly(c, units, ka) ==
  LET n == IF Len(units) <= Space(c) THEN Len(units) ELSE Space(c)
      done == n = Len(units)
  IN
  /\ peer[c] # "gone"
  /\ wire' = [wire EXCEPT ![c] = @ \o SubSeq(units, 1, n)]
  /\ params' = [params EXCEPT ![c] = IF done THEN "header" ELSE "write"]
  /\ buf' = [buf EXCEPT ![c] = 0]
  /\ keep' = [keep EXCEPT ![c] = ka]
  /\ out' = [out EXCEPT ![c] = SubSeq(units, n + 1, Len(units))]
  /\ armed' = IF ~ka THEN armed \ {c} ELSE armed \union {c}
  /\ fdopen' = IF ~ka THEN fdopen \ {c} ELSE fdopen

(* writeResponse: what fits is written; the source waits for the next      *)
(* request, or is closed, or waits until the rest can be written.          *)
WriteResponse(c, units, ka) ==
  LET n == IF Len(units) <= Space(c) THEN Len(units) ELSE Space(c)
      done == n = Len(units)
  IN
  /\ peer[c] # "gone"
  /\ wire' = [wire EXCEPT ![c] = @ \o SubSeq(units, 1, n)]
  /\ params' = [params EXCEPT ![c] = IF done THEN "header" ELSE "write"]
  /\ buf' = [buf EXCEPT ![c] = 0]
  /\ keep' = [keep EXCEPT ![c] = ka]
  /\ out' = [out EXCEPT ![c] = SubSeq(units, n + 1, Len(units))]
  /\ armed' = IF done /\ ~ka THEN armed \ {c} ELSE armed \union {c}
  /\ fdopen' = IF done /\ ~ka THEN fdopen \ {c} ELSE fdopen

(* The callback of a source that has more of a response to write.          *)
WriteMore(c) ==
  /\ Serves(c)
  /\ params[c] = "write"
  /\ WriteResponse(c, out[c], keep[c])
  /\ Served(c)
  /\ UNCHANGED <<lopen, backlog, taken, client, rcvd, app, cur, waiting>>
WriteFails(c, flags) ==
  /\ Serves(c)
  /\ params[c] = "write"
  /\ peer[c] = "gone"
  /\ Fail(c, flags)
  /\ params' = [params EXCEPT ![c] = "null"]
  /\ out' = [out EXCEPT ![c] = <<>>]
  /\ UNCHANGED <<backlog, buf, keep, taken, client, rcvd, wire, app, waiting>>

-----------------------------------------------------------------------------
(* Accepting.                                                              *)

(* Mutant: the listener is not registered again.                           *)
AcceptOnce(c) ==
  /\ Serves(Listener)
  /\ c \in backlog
  /\ backlog' = backlog \ {c}
  /\ fdopen' = fdopen \union {c}
  /\ armed' = (armed \ {Listener}) \union {c}
  /\ params' = [params EXCEPT ![c] = "header"]
  /\ Served(Listener)
  /\ UNCHANGED <<lopen, buf, keep, out, taken, client, rcvd, wire, app, cur, waiting>>

(* serveAccept: the connection and the listener are registered.            *)
Accept(c) ==
  /\ Serves(Listener)
  /\ c \in backlog
  /\ backlog' = backlog \ {c}
  /\ fdopen' = fdopen \union {c}
  /\ armed' = armed \union {c, Listener}
  /\ params' = [params EXCEPT ![c] = "header"]
  /\ Served(Listener)
  /\ UNCHANGED <<lopen, buf, keep, out, taken, client, rcvd, wire, app, cur, waiting>>

(* accept() returns -1 in an unsigned variable, so that no failure of it is *)
(* told from a descriptor, not even that it would block: setting the flags *)
(* of descriptor -1 fails.  Nobody waits any more, or there is no          *)
(* descriptor left for the connection, or its client has reset it in the   *)
(* queue, from which it is gone.  Who waits is lost with the listener.     *)
AcceptFails(flags) ==
  /\ Serves(Listener)
  /\ Fail(Listener, flags)
  /\ \E lost \in {{}} \union {{c} : c \in backlog} :
       /\ IF lost = {} THEN backlog = {} \/ Scarce ELSE \A c \in lost : peer[c] = "gone"
       /\ backlog' = IF lopen' THEN backlog \ lost ELSE {}
  /\ UNCHANGED <<request, taken, client, rcvd, wire, app, waiting>>

-----------------------------------------------------------------------------
(* Reading requests.  Everything that has arrived is read.                 *)

Available(c) == buf[c] + sent[c] - rcvd[c]
Kind(c) == Plan[c][Request(c)]
Eof(c) == peer[c] = "eof"
Reads(c) == Serves(c) /\ params[c] \in {"header", "body"}

(* The end of the header is seen when something follows it.                *)
HeaderSeen(c) == params[c] = "body" \/ Available(c) > 1

(* Mutant: the descriptor is not closed.                                   *)
QuietCloseLeaks(c) ==
  /\ Reads(c)
  /\ peer[c] = "eof"
  /\ params[c] = "header" /\ Available(c) = 0
  /\ armed' = armed \ {c}
  /\ params' = [params EXCEPT ![c] = "null"]
  /\ Served(c)
  /\ UNCHANGED <<lopen, backlog, fdopen, buf, keep, out, taken, client, rcvd, wire, app, cur, waiting>>

(* serverReadHeader: the client has closed between two requests.           *)
QuietClose(c) ==
  /\ Reads(c)
  /\ peer[c] = "eof"
  /\ params[c] = "header" /\ Available(c) = 0
  /\ fdopen' = fdopen \ {c}
  /\ armed' = armed \ {c}
  /\ params' = [params EXCEPT ![c] = "null"]
  /\ Served(c)
  /\ UNCHANGED <<lopen, backlog, buf, keep, out, taken, client, rcvd, wire, app, cur, waiting>>

(* The read fails, the header has no length, there is too much data or the *)
(* client has stopped in the middle.                                       *)
BadData(c) ==
  \/ peer[c] = "gone"
  \/ ~HeaderSeen(c) /\ Eof(c) /\ Available(c) > 0
  \/ /\ HeaderSeen(c)
     /\ \/ params[c] = "header" /\ Kind(c) = "nolength"
        \/ Available(c) > ReqUnits
        \/ Available(c) < ReqUnits /\ Eof(c)
ReadFails(c, flags) ==
  /\ Reads(c)
  /\ BadData(c)
  /\ rcvd' = [rcvd EXCEPT ![c] = sent[c]]
  /\ buf' = [buf EXCEPT ![c] = 0]
  /\ params' = [params EXCEPT ![c] = "null"]
  /\ Fail(c, flags)
  /\ UNCHANGED <<backlog, keep, out, taken, client, wire, app, waiting>>

(* Mutant: a source that waits for more is not registered.                 *)
ReadMoreDisarms(c) ==
  /\ Reads(c)
  /\ ~BadData(c) /\ ~Eof(c)
  /\ Available(c) < ReqUnits
  /\ rcvd' = [rcvd EXCEPT ![c] = sent[c]]
  /\ buf' = [buf EXCEPT ![c] = Available(c)]
  /\ params' = [params EXCEPT ![c] = IF HeaderSeen(c) THEN "body" ELSE "header"]
  /\ armed' = armed \ {c}
  /\ Served(c)
  /\ UNCHANGED <<lopen, backlog, fdopen, keep, out, taken, client, wire, app, cur, waiting>>

(* serverReadHeader or readRequest wait for more.                          *)
ReadMore(c) ==
  /\ Reads(c)
  /\ ~BadData(c) /\ ~Eof(c)
  /\ Available(c) < ReqUnits
  /\ rcvd' = [rcvd EXCEPT ![c] = sent[c]]
  /\ buf' = [buf EXCEPT ![c] = Available(c)]
  /\ params' = [params EXCEPT ![c] = IF HeaderSeen(c) THEN "body" ELSE "header"]
  /\ Served(c)
  /\ UNCHANGED <<lopen, backlog, armed, fdopen, keep, out, taken, client, wire, app, cur, waiting>>

(* The request is complete.                                                *)
Complete(c) ==
  /\ Reads(c)
  /\ ~BadData(c)
  /\ Available(c) = ReqUnits
  /\ rcvd' = [rcvd EXCEPT ![c] = sent[c]]
  /\ taken' = [taken EXCEPT ![c] = @ + 1]

(* Mutants: what was read stays in the buffer; every connection is kept.   *)
CallMethodKeepsBuffer(c) ==
  /\ Complete(c)
  /\ Kind(c) # "bad"
  /\ armed' = armed \ {c}
  /\ params' = [params EXCEPT ![c] = "null"]
  /\ buf' = [buf EXCEPT ![c] = Available(c)]
  /\ keep' = [keep EXCEPT ![c] = (Kind(c) = "keep")]
  /\ due' = due \ {c}
  /\ pc' = "method"
  /\ cur' = c
  /\ UNCHANGED <<lopen, backlog, fdopen, out, client, wire, app, waiting>>
CallMethodKeepsAlive(c) ==
  /\ Complete(c)
  /\ Kind(c) # "bad"
  /\ armed' = armed \ {c}
  /\ params' = [params EXCEPT ![c] = "null"]
  /\ buf' = [buf EXCEPT ![c] = 0]
  /\ keep' = [keep EXCEPT ![c] = TRUE]
  /\ due' = due \ {c}
  /\ pc' = "method"
  /\ cur' = c
  /\ UNCHANGED <<lopen, backlog, fdopen, out, client, wire, app, waiting>>

(* dispatch finds the method and calls it; its source is not registered    *)
(* while it runs.                                                          *)
CallMethod(c) ==
  /\ Complete(c)
  /\ Kind(c) # "bad"
  /\ armed' = armed \ {c}
  /\ params' = [params EXCEPT ![c] = "null"]
  /\ buf' = [buf EXCEPT ![c] = 0]
  /\ keep' = [keep EXCEPT ![c] = (Kind(c) = "keep")]
  /\ due' = due \ {c}
  /\ pc' = "method"
  /\ cur' = c
  /\ UNCHANGED <<lopen, backlog, fdopen, out, client, wire, app, waiting>>

(* dispatch fails before it has set keepAlive, which readRequest does not  *)
(* initialise: any value goes with the fault.                              *)
RefuseRequest(c) ==
  /\ Complete(c)
  /\ Kind(c) = "bad"
  /\ \E ka \in BOOLEAN : WriteResponse(c, Response(taken[c] + 1), ka)
  /\ Served(c)
  /\ UNCHANGED <<lopen, backlog, client, app, cur, waiting>>

-----------------------------------------------------------------------------
(* The end of a method (doResponse).                                       *)

(* It returns a value or raises an exception: a response or a fault.       *)
Respond(c) ==
  /\ pc = "method" /\ c = cur
  /\ WriteResponse(c, Response(taken[c]), keep[c])
  /\ pc' = "batch"
  /\ cur' = NoConn
  /\ UNCHANGED <<lopen, backlog, taken, client, rcvd, app, due, waiting>>
RespondFails(c, flags) ==
  /\ pc = "method" /\ c = cur
  /\ peer[c] = "gone"
  /\ Fail(c, flags)
  /\ UNCHANGED <<backlog, request, taken, client, rcvd, wire, app, waiting>>

(* Mutant: the source is registered.                                       *)
PostponeArms(c) ==
  /\ pc = "method" /\ c = cur
  /\ params' = [params EXCEPT ![c] = "postponed"]
  /\ armed' = armed \union {c}
  /\ kept' = kept \union {c}
  /\ debt' = [debt EXCEPT ![c] = taken[c]]
  /\ pc' = "batch"
  /\ cur' = NoConn
  /\ UNCHANGED <<lopen, backlog, fdopen, buf, keep, out, taken, client, rcvd, wire, due, waiting>>

(* It raises postpone: the source keeps keepAlive and the application the  *)
(* source.                                                                 *)
Postpone(c) ==
  /\ pc = "method" /\ c = cur
  /\ params' = [params EXCEPT ![c] = "postponed"]
  /\ kept' = kept \union {c}
  /\ debt' = [debt EXCEPT ![c] = taken[c]]
  /\ pc' = "batch"
  /\ cur' = NoConn
  /\ UNCHANGED <<lopen, backlog, armed, fdopen, buf, keep, out, taken, client, rcvd, wire, due, waiting>>

-----------------------------------------------------------------------------
(* The application's calls, from a method, from the callback of a source of*)
(* its own, from another thread during select(), or from outside of work().*)

(* A thread that answers while work() waits without a time limit registers *)
(* a source that nobody watches; the examples' threads answer in between.  *)
PythonRuns == pc # "crashed" /\ (pc = "select" => Careful("thread", limit))
MayAnswer(c) == PythonRuns /\ c \in kept /\ Careful("double", debt[c] # 0)
Paid(c) == debt' = [debt EXCEPT ![c] = 0]

(* queueResponse to a postponed request.                                   *)
QueueResponse(c) ==
  /\ MayAnswer(c)
  /\ params[c] = "postponed"
  /\ WriteResponse(c, Response(taken[c]), keep[c])
  /\ Paid(c)
  /\ UNCHANGED <<lopen, backlog, taken, client, rcvd, kept, loop>>

(* It raises when the client is gone: the source is left as it is.         *)
QueueResponseFails(c) ==
  /\ MayAnswer(c)
  /\ params[c] = "postponed"
  /\ peer[c] = "gone"
  /\ params' = [params EXCEPT ![c] = "null"]
  /\ Paid(c)
  /\ UNCHANGED <<lopen, backlog, armed, fdopen, buf, keep, out, taken, client, rcvd, wire, kept, loop>>

(* On a source without params it faults; on one with other params it is    *)
(* refused, which changes nothing.                                         *)
QueueResponseCrashes(c) ==
  /\ \/ MayAnswer(c)
     \/ "early" \in Careless /\ pc = "method" /\ c = cur
  /\ params[c] = "null"
  /\ pc' = "crashed"
  /\ UNCHANGED <<lopen, backlog, armed, fdopen, request, taken, client, rcvd, wire, app, due, cur, waiting>>

(* queueFault raises the fault in the caller and does nothing else.        *)
QueueFault(c) ==
  /\ "fault" \in Careless
  /\ MayAnswer(c)
  /\ debt[c] # 0
  /\ Paid(c)
  /\ UNCHANGED <<lopen, backlog, armed, fdopen, request, taken, client, rcvd, wire, kept, loop>>

(* The application drops a source it has answered; the source is freed,    *)
(* and its descriptor closed, if nothing else holds it.                    *)
Forget(c) ==
  /\ PythonRuns
  /\ c \in kept
  /\ debt[c] = 0
  /\ kept' = kept \ {c}
  /\ fdopen' = IF c \in armed \/ c = cur THEN fdopen ELSE fdopen \ {c}
  /\ UNCHANGED <<lopen, backlog, armed, request, taken, client, rcvd, wire, debt, loop>>

(* server.close, outside of work(): the listener is closed, if it is not   *)
(* yet, and the sources of the dispatcher are freed.                       *)
Close ==
  /\ pc = "out"
  /\ lopen' = FALSE
  /\ armed' = {}
  /\ backlog' = {}
  /\ fdopen' = fdopen \ (armed \ kept)
  /\ UNCHANGED <<request, taken, client, rcvd, wire, app, loop>>

-----------------------------------------------------------------------------
Callbacks ==
  \E c \in Conns :
    \/ Accept(c) \/ QuietClose(c) \/ ReadMore(c) \/ CallMethod(c) \/ RefuseRequest(c)
    \/ WriteMore(c)
Failures ==
  \E flags \in OnErr :
    \/ AcceptFails(flags)
    \/ \E c \in Conns : ReadFails(c, flags) \/ WriteFails(c, flags) \/ RespondFails(c, flags)
Methods == \E c \in Conns : Respond(c) \/ Postpone(c)
Answers(c) == QueueResponse(c) \/ QueueResponseFails(c)
Application ==
  \/ \E c \in Conns : Answers(c) \/ QueueResponseCrashes(c) \/ QueueFault(c) \/ Forget(c)
  \/ Close

Loop == Select \/ SelectReturns \/ EndBatch \/ ReturnEmpty \/ Callbacks \/ Failures

Next == Clients \/ Work \/ Loop \/ Methods \/ Application

Spec == Init /\ [][Next]_vars

(* The thread in work() keeps running, every source of a batch gets its    *)
(* turn, methods end, work() is called again when it returns, and the      *)
(* application, which runs now and then, answers the requests it postpones.*)
(* Nothing is assumed of the clients.                                      *)
Fairness ==
  /\ WF_vars(Loop) /\ WF_vars(Methods) /\ WF_vars(Work)
  /\ \A c \in Conns : SF_vars(Answers(c))
FairSpec == Spec /\ Fairness

-----------------------------------------------------------------------------
(* Types.                                                                  *)

(* Every variable has its type (rpcServer.c), and a method runs for exactly*)
(* one open connection.                                                    *)
TypeOK ==
  /\ lopen \in BOOLEAN /\ backlog \subseteq Conns
  /\ armed \subseteq Conns \union {Listener} /\ fdopen \subseteq Conns
  /\ params \in [Conns -> {"null", "header", "body", "write", "postponed"}]
  /\ buf \in [Conns -> 0..(ReqUnits - 1)] /\ keep \in [Conns -> BOOLEAN]
  /\ out \in [Conns -> Seq(Nat)] /\ wire \in [Conns -> Seq(Nat)]
  /\ taken \in [Conns -> Nat] /\ sent \in [Conns -> Nat]
  /\ rcvd \in [Conns -> Nat] /\ got \in [Conns -> Nat]
  /\ peer \in [Conns -> {"none", "up", "eof", "gone"}]
  /\ kept \subseteq Conns /\ debt \in [Conns -> Nat]
  /\ pc \in {"out", "loop", "select", "batch", "method", "crashed"}
  /\ due \subseteq armed /\ cur \in fdopen \union {NoConn}
  /\ pc = "method" => cur # NoConn
  /\ cur # NoConn => pc \in {"method", "crashed"}
  /\ watch \subseteq armed /\ limit \in BOOLEAN

-----------------------------------------------------------------------------
(* Safety.                                                                 *)

Answered(c) == Len(wire[c]) \div RespUnits

(* What a client reads on a connection are whole responses, one for each of*)
(* its requests and in their order: whatever is partly written, postponed  *)
(* or retried in between, no unit is lost, doubled or mixed with another   *)
(* response's.                                                             *)
ResponsesInOrder ==
  \A c \in Conns : \A k \in DOMAIN wire[c] : wire[c][k] = k

(* A connection the server holds open is waiting for an event, in its      *)
(* method, or held by the application: none is forgotten with its          *)
(* descriptor open.                                                        *)
NoOrphan == fdopen \subseteq armed \union {cur} \union kept

(* A registered connection has its descriptor and a function to call, and  *)
(* one whose response is postponed is not registered: the dispatcher can   *)
(* neither poll a closed descriptor nor read a request behind the back of  *)
(* the application that owes an answer.                                    *)
ArmedSound ==
  \A c \in armed \ {Listener} : c \in fdopen /\ params[c] \in {"header", "body", "write"}

(* A request that the application owes the answer of is one that waits for *)
(* it, the last one taken on its connection: an answer never goes to       *)
(* another request than the one that was postponed.                        *)
DebtSound ==
  \A c \in Conns :
    debt[c] # 0 => /\ c \in kept /\ c \in fdopen /\ c \notin armed
                   /\ params[c] = "postponed" /\ debt[c] = taken[c]

(* The dispatcher and the application never hold the same connection.      *)
SourcesSound == ArmedSound /\ DebtSound

(* Keep alive is negotiated: with its last request answered, the connection*)
(* of a client that is still there is open if and only if that request did *)
(* not ask to close it.                                                    *)
KeepAliveNegotiated ==
  lopen =>
    \A c \in Conns :
      peer[c] = "up" /\ taken[c] > 0 /\ Len(wire[c]) = taken[c] * RespUnits =>
        (c \in fdopen <=> Plan[c][taken[c]] # "close")

(* The server goes on listening until it is closed, whatever accept() meets*)
(* with: serveAccept means to tell that it would block from an error.      *)
KeepsListening == [][lopen /\ ~lopen' => Close]_vars

(* The server implements the promise of RpcService, one request at a time. *)
Promise == INSTANCE RpcService
  WITH alive <- fdopen, asked <- taken, answered <- [c \in Conns |-> Answered(c)]
ImplementsRpcService == Promise!Spec

(* Each connection is one that Client relies on: a request is answered when*)
(* it is whole, with its response in order, and the end of the connection  *)
(* comes only where it was asked for or when the server is closed.  Client *)
(* keeps to what is assumed of the clients (cl_main); one that leaves hangs*)
(* up.                                                                     *)
OnLine(c) == peer[c] = "up" /\ c \in backlog \union fdopen
Link(c) == INSTANCE Connection WITH
  Calls <- 1..Length(c), Kinds <- {"keep", "close"}, Failing <- TRUE,
  conn <- IF OnLine(c) THEN "up" ELSE IF peer[c] = "up" THEN "eof" ELSE "none",
  heard <- IF OnLine(c) THEN [i \in 1..(sent[c] - taken[c] * ReqUnits) |-> taken[c] + 1] ELSE <<>>,
  reply <- IF OnLine(c) THEN [i \in 1..(taken[c] * RespUnits - Len(wire[c])) |-> Len(wire[c]) + i] ELSE <<>>,
  inbox <- IF peer[c] = "up" THEN SubSeq(wire[c], got[c] + 1, Len(wire[c])) ELSE <<>>,
  kind <- Plan[c],
  broken <- ~lopen
ServesConnections ==
  /\ \A c \in Conns : Link(c)!Init
  /\ [][\A c \in Conns : Link(c)!Next \/ UNCHANGED Link(c)!vars]_vars

-----------------------------------------------------------------------------
(* Liveness, under FairSpec.                                               *)

(* A client that trickles its request in or does not read its response     *)
(* holds up nobody, nor does the loss of the listener: a request that has  *)
(* arrived in full is answered, as far as its own client reads, whatever   *)
(* the other clients do, and so is one that was postponed; unless          *)
(* server.close has left the connection to the application.                *)
Left(c) == c \in kept /\ c \notin armed /\ c # cur /\ debt[c] = 0
Asked(c) ==
  peer[c] = "up" /\ c \in fdopen /\ ~Left(c) /\ sent[c] = ReqUnits * (Answered(c) + 1)
EveryRequestAnswered ==
  \A c \in Conns : Asked(c) ~> (~Asked(c) \/ Space(c) = 0)

(* Every connection is accepted, or lost with the listener.                *)
EveryClientAccepted ==
  \A c \in Conns : c \in backlog ~> (c \notin backlog)

=============================================================================
