------------------------------- MODULE Client -------------------------------
(***************************************************************************)
(* The client of py-xmlrpc: rpcClient.c.                                   *)
(*                                                                         *)
(* nbExecute queues a call on the client's dispatcher, where work() takes  *)
(* it through connecting, writing and reading, and ends with a callback.   *)
(* execute does the same on a dispatcher of its own, which it runs until   *)
(* the call has ended or its time is up.  The connection is kept from call *)
(* to call as long as the responses allow it.                              *)
(*                                                                         *)
(* The dispatcher is here what EventLoop promises; Dispatcher is its       *)
(* detail.  A request is ReqUnits units of data, a response RespUnits      *)
(* units, of which the first is the header; the units of the responses are *)
(* numbered, so a number tells the call it answers.                        *)
(***************************************************************************)
EXTENDS Integers, Sequences, SequencesExt, FiniteSetsExt

CONSTANTS
  MaxCalls,    (* bound on the calls of the application                    *)
  ReqUnits,    (* the length of a request                                  *)
  RespUnits,   (* the length of a response                                 *)
  Kinds,       (* the kinds of responses that the server gives, see below  *)
  OnErr,       (* what the error handler returns, as sets of ONERR_ flags  *)
  Failing,     (* whether the server and the network may fail              *)
  Timeouts,    (* whether execute is called with a timeout                 *)
  Careless     (* the mistakes the application may make, see below         *)

(* "keep":  it has a length and the connection is kept;  "close": the      *)
(* server closes the connection after it;  "eof": so it does, and the end  *)
(* of the connection is the end of the response, which has no length;      *)
(* "abrupt": as "eof", but of HTTP/1.1 and without a line that says so;    *)
(* "bad":   its length or a chunk of it cannot be parsed.                  *)
ReplyKinds == {"keep", "close", "eof", "abrupt", "bad"}

(* "timeout": going on with a client whose execute has timed out, without  *)
(*            closing it;                                                  *)
(* "overlap": calling execute while a call of nbExecute is in progress;    *)
(* "raise":   failing in a callback that has queued another call;          *)
(* "chain":   making a call in a callback whose connection is to be closed *)
(*            when it ends.                                                *)
Mistakes == {"timeout", "overlap", "raise", "chain"}

ASSUME CallsAssumption == MaxCalls \in Nat
ASSUME ClientUnitsAssumption == ReqUnits \in Nat \ {0} /\ RespUnits \in Nat \ {0, 1}
ASSUME ClientFlagsAssumption ==
  /\ Kinds \subseteq ReplyKinds /\ Kinds # {}
  /\ OnErr \subseteq SUBSET {"KEEP_DEF", "KEEP_WORK"}
  /\ Failing \in BOOLEAN /\ Timeouts \in BOOLEAN
  /\ Careless \subseteq Mistakes

VARIABLES
  execing,   (* cp->execing: a call is in progress                         *)
  fd,        (* the client's source has a descriptor                       *)
  disp,      (* the dispatcher it is registered with: none, own or temp    *)
  left,      (* further entries of it in the client's own dispatcher       *)
  stage,     (* the state of the call: connect, connecting, write or read  *)
  now,       (* it waits for ACT_IMMEDIATE, not for its descriptor         *)
  cur,       (* the call                                                   *)
  out,       (* how much of its request is yet to be written               *)
  buf,       (* what has been read of its response                         *)
  stash,     (* the response that execute is to return                     *)
  pc,        (* where the application's thread is: out, work, exec,        *)
             (* callback or crashed                                        *)
  back,      (* where the active execute returns to                        *)
  cbs,       (* for each active callback, innermost last: whether the      *)
             (* connection is kept when it has ended                       *)
  stale,     (* an execute has timed out since the client was closed       *)
  conn,      (* the connection: none, syn, up, eof (the server has closed  *)
             (* its end) or reset                                          *)
  heard,     (* what the server has yet to serve: a call for each unit     *)
  reply,     (* the units of a response that the server has yet to send    *)
  inbox,     (* those that the client has yet to read                      *)
  kind,      (* the kind of each response, none before there is one        *)
  broken,    (* the server or the network has failed                       *)
  outcome,   (* what the application has seen of each call                 *)
  answer     (* the response it has seen                                   *)

call == <<disp, left, stage, now, cur, out, buf>>
thread == <<pc, back, cbs>>
net == <<conn, heard, reply, inbox>>
vars == <<execing, fd, call, stash, thread, stale, net, kind, broken, outcome, answer>>

Calls == 1..MaxCalls
IsHeader(u) == (u - 1) % RespUnits = 0
Careful(mistake, safe) == mistake \in Careless \/ safe
Becomes(k, result) == outcome' = [outcome EXCEPT ![k] = result]

Init ==
  /\ execing = FALSE
  /\ fd = FALSE
  /\ disp = "none" /\ left = 0 /\ stage = "none" /\ now = FALSE
  /\ cur = 0 /\ out = 0 /\ buf = <<>>
  /\ stash = <<>>
  /\ pc = "out" /\ back = "out" /\ cbs = <<>>
  /\ stale = FALSE
  /\ conn = "none" /\ heard = <<>> /\ reply = <<>> /\ inbox = <<>>
  /\ kind = [k \in Calls |-> "none"]
  /\ broken = FALSE
  /\ outcome = [k \in Calls |-> "none"]
  /\ answer = [k \in Calls |-> <<>>]

-----------------------------------------------------------------------------
(* The server and the network.                                             *)

Wire == INSTANCE Connection

Server ==
  /\ Wire!Serve
  /\ UNCHANGED <<execing, fd, call, stash, thread, stale, outcome, answer>>
Drop ==
  /\ Wire!Drop
  /\ UNCHANGED <<execing, fd, call, stash, thread, stale, outcome, answer>>

-----------------------------------------------------------------------------
(* The application.  Its code runs outside of work(), in the callbacks of  *)
(* other sources that work() serves, and in the client's own.              *)

PythonRuns == pc \in {"out", "work", "callback"}
MayCall ==
  /\ PythonRuns
  /\ Careful("timeout", ~stale)
  /\ Careful("chain", \A i \in 1..Len(cbs) : cbs[i])
NextCall == {k \in Calls : outcome[k] = "none" /\ \A j \in 1..(k - 1) : outcome[j] # "none"}

(* Mutant: the descriptor is closed, but not forgotten.                    *)
HangupKeepsFd ==
  /\ UNCHANGED fd
  /\ conn' = "none" /\ heard' = <<>> /\ reply' = <<>> /\ inbox' = <<>>

(* rpcClientClose.                                                         *)
Hangup ==
  /\ fd' = FALSE
  /\ conn' = "none" /\ heard' = <<>> /\ reply' = <<>> /\ inbox' = <<>>

(* Mutant: the call is not marked as in progress.                          *)
QueueForgetsExecing(k, d) ==
  /\ ~execing
  /\ execing' = FALSE
  /\ disp' = d /\ left' = (IF disp = "own" THEN left + 1 ELSE left)
  /\ stage' = (IF fd THEN "write" ELSE "connect") /\ now' = TRUE
  /\ cur' = k /\ out' = ReqUnits /\ buf' = <<>>
  /\ Becomes(k, "pending")

(* rpcClientNbExecute: the source is registered, to be called at once.     *)
(* When execing has been reset during a call (ExecuteRefused), the source  *)
(* of that call becomes the source of this one and is registered twice.    *)
Queue(k, d) ==
  /\ ~execing
  /\ execing' = TRUE
  /\ disp' = d /\ left' = (IF disp = "own" THEN left + 1 ELSE left)
  /\ stage' = (IF fd THEN "write" ELSE "connect") /\ now' = TRUE
  /\ cur' = k /\ out' = ReqUnits /\ buf' = <<>>
  /\ Becomes(k, "pending")

(* nbexecute, and its refusal.                                             *)
NbExecute(k) ==
  /\ MayCall /\ k \in NextCall
  /\ Queue(k, "own")
  /\ UNCHANGED <<fd, stash, thread, stale, net, kind, broken, answer>>
NbExecuteRefused(k) ==
  /\ MayCall /\ k \in NextCall
  /\ execing
  /\ Becomes(k, "refused")
  /\ UNCHANGED <<execing, fd, call, stash, thread, stale, net, kind, broken, answer>>

(* execute: the call is queued on a new dispatcher, which is run.          *)
Execute(k) ==
  /\ MayCall /\ k \in NextCall
  /\ Queue(k, "temp")
  /\ back' = pc
  /\ pc' = "exec"
  /\ UNCHANGED <<fd, stash, cbs, stale, net, kind, broken, answer>>

(* Its refusal is handled like any other error: execing is reset.          *)
ExecuteRefused(k) ==
  /\ MayCall /\ k \in NextCall
  /\ "overlap" \in Careless
  /\ execing
  /\ execing' = FALSE
  /\ Becomes(k, "refused")
  /\ UNCHANGED <<fd, call, stash, thread, stale, net, kind, broken, answer>>

(* client.close.  Closing a client with a call in progress leaves a source *)
(* without a descriptor to the dispatcher, which is a matter of Dispatcher.*)
Close ==
  /\ PythonRuns
  /\ disp = "none"
  /\ fd \/ stale
  /\ Hangup
  /\ stale' = FALSE
  /\ UNCHANGED <<execing, call, stash, thread, kind, broken, outcome, answer>>

(* client.work, from outside or from a callback, and its end.              *)
Work ==
  /\ pc \in {"out", "callback"}
  /\ pc' = "work"
  /\ UNCHANGED <<execing, fd, call, stash, back, cbs, stale, net, kind, broken, outcome, answer>>
Outside == IF cbs = <<>> THEN "out" ELSE "callback"
EndWork ==
  /\ pc = "work"
  /\ pc' = Outside
  /\ UNCHANGED <<execing, fd, call, stash, back, cbs, stale, net, kind, broken, outcome, answer>>

Application ==
  \/ \E k \in Calls : NbExecute(k) \/ NbExecuteRefused(k) \/ Execute(k) \/ ExecuteRefused(k)
  \/ Close

-----------------------------------------------------------------------------
(* The steps of a call (execDispatch).                                     *)

Running == (pc = "work" /\ disp = "own") \/ (pc = "exec" /\ disp = "temp")
Called == Running /\ execing

(* What the source waits for is there.                                     *)
Ready ==
  \/ now
  \/ stage \in {"connecting", "write"} /\ conn \in {"up", "eof", "reset"}
  \/ stage = "read" /\ (inbox # <<>> \/ conn \in {"eof", "reset"})

(* execDispatch asserts that a call is in progress.                        *)
AssertionFails ==
  /\ Running /\ ~execing
  /\ Ready
  /\ pc' = "crashed"
  /\ UNCHANGED <<execing, fd, call, stash, back, cbs, stale, net, kind, broken, outcome, answer>>

(* The source is not registered again.  What is left of it in a dispatcher *)
(* waits for nothing, and is what the next call registers.                 *)
NoSource ==
  /\ disp' = "none" /\ UNCHANGED left
  /\ stage' = "none" /\ now' = FALSE /\ out' = 0 /\ buf' = <<>>
NoCall == NoSource /\ cur' = 0

(* A step fails: execDispatch ends the call and dispHandleError decides on *)
(* the descriptor and on whether work() goes on.                           *)
Fail(flags) ==
  /\ execing' = FALSE
  /\ NoSource
  /\ IF "KEEP_WORK" \in flags THEN UNCHANGED pc
     ELSE pc' = IF pc = "exec" THEN back ELSE Outside
  /\ IF pc = "exec" /\ "KEEP_WORK" \in flags
     THEN UNCHANGED <<cur, outcome>>
     ELSE cur' = 0 /\ Becomes(cur, "failed")
  /\ UNCHANGED <<stash, back, cbs, stale, kind, broken, answer>>
Keeps(flags) == "KEEP_DEF" \notin flags

Connect ==
  /\ Called /\ stage = "connect"
  /\ fd' = TRUE /\ conn' = "syn"
  /\ stage' = "connecting" /\ now' = FALSE
  /\ UNCHANGED <<execing, disp, left, cur, out, buf, stash, thread, stale, heard, reply, inbox, kind, broken, outcome, answer>>
ConnectFails(flags) ==
  /\ Called /\ stage = "connect"
  /\ broken
  /\ Fail(flags)
  /\ IF Keeps(flags) THEN fd' = TRUE /\ conn' = "reset" ELSE UNCHANGED <<fd, conn>>
  /\ UNCHANGED <<heard, reply, inbox>>

Connected ==
  /\ Called /\ stage = "connecting"
  /\ conn \in {"up", "eof"}
  /\ stage' = "write"
  /\ UNCHANGED <<execing, fd, disp, left, now, cur, out, buf, stash, thread, stale, net, kind, broken, outcome, answer>>
ConnectingFails(flags) ==
  /\ Called /\ stage = "connecting"
  /\ conn = "reset"
  /\ Fail(flags)
  /\ IF Keeps(flags) THEN UNCHANGED <<fd, net>> ELSE Hangup

(* Mutant: the rest is not written.                                        *)
WriteSomeReads ==
  /\ Called /\ stage = "write"
  /\ conn \in {"syn", "up", "eof"}
  /\ now \/ conn # "syn"
  /\ \E n \in (IF now THEN 0 ELSE 1)..(out - 1) :
       /\ conn = "syn" => n = 0
       /\ out' = out - n
       /\ heard' = IF conn = "up" THEN heard \o [i \in 1..n |-> cur] ELSE heard
  /\ now' = FALSE
  /\ stage' = "read"
  /\ UNCHANGED <<execing, fd, disp, left, cur, buf, stash, thread, stale, conn, reply, inbox, kind, broken, outcome, answer>>

(* writeRequest: a part is written, and the rest when there is space.      *)
WriteSome ==
  /\ Called /\ stage = "write"
  /\ conn \in {"syn", "up", "eof"}
  /\ now \/ conn # "syn"
  /\ \E n \in (IF now THEN 0 ELSE 1)..(out - 1) :
       /\ conn = "syn" => n = 0
       /\ out' = out - n
       /\ heard' = IF conn = "up" THEN heard \o [i \in 1..n |-> cur] ELSE heard
  /\ now' = FALSE
  /\ UNCHANGED <<execing, fd, disp, left, stage, cur, buf, stash, thread, stale, conn, reply, inbox, kind, broken, outcome, answer>>
WriteFails(flags) ==
  /\ Called /\ stage = "write"
  /\ conn = "reset" \/ (conn = "none" /\ now)
  /\ Fail(flags)
  /\ IF Keeps(flags) THEN UNCHANGED <<fd, net>> ELSE Hangup

-----------------------------------------------------------------------------
(* Reading: everything that has arrived is read, right after the last of   *)
(* the request has been written and whenever there is more.                *)

AllWritten == stage = "write" /\ conn \in {"up", "eof"}
Reads ==
  /\ Called
  /\ \/ AllWritten
     \/ stage = "read" /\ Ready
Heard == IF AllWritten /\ conn = "up" THEN heard \o [i \in 1..out |-> cur] ELSE heard
Data == buf \o inbox

(* readHeader finds the end of the header when something follows it.       *)
HeaderEnds == {i \in 1..(Len(Data) - 1) : IsHeader(Data[i])}
Kind == kind[Wire!CallOf(Data[Min(HeaderEnds)])]
BodyLength == Len(Data) - Min(HeaderEnds)

(* Mutant: the last part of the body is not waited for.                    *)
ReplyEndsEarly ==
  /\ conn # "reset"
  /\ HeaderEnds # {}
  /\ \/ Kind \in {"eof", "abrupt"} /\ conn = "eof"
     \/ Kind \in {"keep", "close"} /\ BodyLength + 1 >= RespUnits - 1

(* readResponse: what follows the body is taken for a part of it.          *)
ReplyEnds ==
  /\ conn # "reset"
  /\ HeaderEnds # {}
  /\ \/ Kind \in {"eof", "abrupt"} /\ conn = "eof"
     \/ Kind \in {"keep", "close"} /\ BodyLength >= RespUnits - 1
ReplyBreaks ==
  \/ conn = "reset"
  \/ conn = "eof" /\ ~ReplyEnds
  \/ HeaderEnds # {} /\ Kind = "bad"

ReadMore ==
  /\ Reads
  /\ ~ReplyEnds /\ ~ReplyBreaks
  /\ stage' = "read" /\ now' = FALSE /\ out' = 0 /\ buf' = Data
  /\ heard' = Heard /\ inbox' = <<>>
  /\ UNCHANGED <<execing, fd, disp, left, cur, stash, thread, stale, conn, reply, kind, broken, outcome, answer>>

ReadFails(flags) ==
  /\ Reads
  /\ ReplyBreaks
  /\ Fail(flags)
  /\ IF Keeps(flags)
     THEN heard' = Heard /\ inbox' = <<>> /\ UNCHANGED <<fd, conn, reply>>
     ELSE Hangup

(* The connection is kept if the response, as a whole, says so, be it that *)
(* it has ended with the response (doKeepAliveFromDict).                   *)
KeepAlive == IsHeader(Data[1]) /\ Kind \in {"keep", "abrupt"}

(* Mutant: execing is not reset.                                           *)
CallBackStaysExecing ==
  /\ Reads /\ pc = "work"
  /\ ReplyEnds
  /\ NoCall
  /\ heard' = Heard /\ inbox' = <<>>
  /\ Becomes(cur, "answered")
  /\ answer' = [answer EXCEPT ![cur] = Data]
  /\ cbs' = Append(cbs, KeepAlive)
  /\ pc' = "callback"
  /\ UNCHANGED <<execing, fd, stash, back, stale, conn, reply, kind, broken>>

(* The response of a call of nbExecute is complete: its callback is called *)
(* (pyClientCallback).                                                     *)
CallBack ==
  /\ Reads /\ pc = "work"
  /\ ReplyEnds
  /\ execing' = FALSE
  /\ NoCall
  /\ heard' = Heard /\ inbox' = <<>>
  /\ Becomes(cur, "answered")
  /\ answer' = [answer EXCEPT ![cur] = Data]
  /\ cbs' = Append(cbs, KeepAlive)
  /\ pc' = "callback"
  /\ UNCHANGED <<fd, stash, back, stale, conn, reply, kind, broken>>

(* Mutant: the connection is not closed.                                   *)
CallbackReturnsKeeps ==
  /\ pc = "callback"
  /\ cbs' = Front(cbs)
  /\ pc' = "work"
  /\ UNCHANGED <<execing, fd, call, stash, back, stale, net, kind, broken, outcome, answer>>

(* The callback returns, or raises an error.                               *)
CallbackReturns ==
  /\ pc = "callback"
  /\ cbs' = Front(cbs)
  /\ pc' = "work"
  /\ IF Last(cbs) THEN UNCHANGED <<fd, net>> ELSE Hangup
  /\ UNCHANGED <<execing, call, stash, back, stale, kind, broken, outcome, answer>>
CallbackRaises(flags) ==
  /\ pc = "callback"
  /\ Careful("raise", disp = "none")
  /\ cbs' = Front(cbs)
  /\ pc' = IF "KEEP_WORK" \in flags THEN "work" ELSE IF Len(cbs) = 1 THEN "out" ELSE "callback"
  /\ IF Last(cbs) /\ Keeps(flags) THEN UNCHANGED <<fd, net>> ELSE Hangup
  /\ UNCHANGED <<execing, call, stash, back, stale, kind, broken, outcome, answer>>

-----------------------------------------------------------------------------
(* The end of execute.                                                     *)

(* The response is complete (executed): its dispatcher has nothing left.   *)
Executed ==
  /\ Reads /\ pc = "exec"
  /\ ReplyEnds
  /\ execing' = FALSE
  /\ NoSource
  /\ stash' = Data
  /\ IF KeepAlive
     THEN heard' = Heard /\ inbox' = <<>> /\ UNCHANGED <<fd, conn, reply>>
     ELSE Hangup
  /\ UNCHANGED <<cur, thread, stale, kind, broken, outcome, answer>>

(* The response is parsed and returned, unless something else is in it.    *)
Parses(text) == \E k \in Calls : text = Wire!Reply(k)
ExecuteReturns ==
  /\ pc = "exec" /\ disp = "none"
  /\ stash # <<>>
  /\ IF Parses(stash)
     THEN Becomes(cur, "answered") /\ answer' = [answer EXCEPT ![cur] = stash]
     ELSE Becomes(cur, "failed") /\ UNCHANGED answer
  /\ stash' = <<>> /\ cur' = 0
  /\ pc' = back
  /\ UNCHANGED <<execing, fd, disp, left, stage, now, out, buf, back, cbs, stale, net, kind, broken>>

(* There is none, because the error handler has made work() go on: NULL is *)
(* parsed.                                                                 *)
ExecuteReturnsNull ==
  /\ pc = "exec" /\ disp = "none"
  /\ stash = <<>>
  /\ pc' = "crashed"
  /\ UNCHANGED <<execing, fd, call, stash, back, cbs, stale, net, kind, broken, outcome, answer>>

(* What the dispatcher of execute leaves of a call when it is freed: an    *)
(* older entry of the source in the client's own stays registered.         *)
Unregister ==
  IF left = 0 THEN NoCall
  ELSE disp' = "own" /\ left' = left - 1 /\ UNCHANGED <<stage, now, cur, out, buf>>

(* Mutant: execing is not reset.                                           *)
TimeOutStaysExecing ==
  /\ pc = "exec" /\ Timeouts
  /\ Unregister
  /\ stash' = <<>>
  /\ Becomes(cur, "timedout")
  /\ pc' = back
  /\ stale' = TRUE
  /\ UNCHANGED <<execing, fd, back, cbs, net, kind, broken, answer>>

(* Its time is up, be it that the response has arrived all the same: the   *)
(* dispatcher is freed and with it the registration, the response is       *)
(* forgotten, the connection is left as it is.                             *)
TimeOut ==
  /\ pc = "exec" /\ Timeouts
  /\ execing' = FALSE
  /\ Unregister
  /\ stash' = <<>>
  /\ Becomes(cur, "timedout")
  /\ pc' = back
  /\ stale' = TRUE
  /\ UNCHANGED <<fd, back, cbs, net, kind, broken, answer>>

-----------------------------------------------------------------------------
Steps ==
  \/ Connect \/ Connected \/ WriteSome \/ ReadMore \/ CallBack \/ Executed
  \/ \E flags \in OnErr :
       ConnectFails(flags) \/ ConnectingFails(flags) \/ WriteFails(flags) \/ ReadFails(flags)
Returns == ExecuteReturns \/ ExecuteReturnsNull \/ TimeOut
Raises == \E flags \in OnErr : CallbackRaises(flags)

Next ==
  \/ Server \/ Drop \/ Application \/ Work \/ EndWork
  \/ Steps \/ AssertionFails \/ CallbackReturns \/ Raises \/ Returns

Spec == Init /\ [][Next]_vars

(* work() is called again and again and serves what is ready before it     *)
(* returns, execute runs on, callbacks end, and the server answers what it *)
(* has heard.  Steps and callbacks are interrupted by ends of work() and   *)
(* nested calls of it, hence the strong fairness.                          *)
Fairness ==
  /\ WF_vars(Server) /\ WF_vars(Work) /\ WF_vars(ExecuteReturns)
  /\ SF_vars(Steps) /\ SF_vars(CallbackReturns)
FairSpec == Spec /\ Fairness

-----------------------------------------------------------------------------
(* Types.                                                                  *)

Units == 1..(MaxCalls * RespUnits)
Outcomes == {"none", "pending", "answered", "failed", "timedout", "refused"}

(* Every variable has its type (rpcClient.c), execute returns to where it  *)
(* may be called, and a callback is active if one is running.              *)
TypeOK ==
  /\ execing \in BOOLEAN /\ fd \in BOOLEAN /\ now \in BOOLEAN /\ stale \in BOOLEAN
  /\ disp \in {"none", "own", "temp"} /\ left \in Nat
  /\ stage \in {"none", "connect", "connecting", "write", "read"}
  /\ cur \in 0..MaxCalls /\ out \in 0..ReqUnits
  /\ buf \in Seq(Units) /\ stash \in Seq(Units)
  /\ pc \in {"out", "work", "exec", "callback", "crashed"}
  /\ back \in {"out", "work", "callback"}
  /\ cbs \in Seq(BOOLEAN) /\ (pc = "callback" => cbs # <<>>)
  /\ conn \in {"none", "syn", "up", "eof", "reset"} /\ (fd <=> conn # "none")
  /\ heard \in Seq(Calls) /\ reply \in Seq(Units) /\ inbox \in Seq(Units)
  /\ kind \in [Calls -> ReplyKinds \cup {"none"}] /\ broken \in BOOLEAN
  /\ outcome \in [Calls -> Outcomes] /\ answer \in [Calls -> Seq(Units)]

-----------------------------------------------------------------------------
(* Safety.                                                                 *)

(* The response an application gets is that of its call, whole and nothing *)
(* else, whatever calls the connection has carried before (rpcClientExecute*)
(* and execDispatch match responses with calls by their order only).  One  *)
(* without a length, which ends with the connection, may be cut short if   *)
(* the connection fails.                                                   *)
RightAnswer ==
  \A k \in Calls : outcome[k] = "answered" =>
    \/ answer[k] = Wire!Reply(k)
    \/ kind[k] \in {"eof", "abrupt"} /\ broken /\ IsPrefix(answer[k], Wire!Reply(k))

(* execing is set exactly while the client's source is registered: a call  *)
(* is never refused without reason, and no step of a call finds execing    *)
(* reset, which execDispatch asserts.                                      *)
ExecingSound == execing <=> disp # "none"

(* Between two calls the connection is silent: what is left of an earlier  *)
(* exchange would be taken for a part of the next one.                     *)
SilentWhenIdle ==
  disp = "none" /\ fd /\ ~stale /\ conn # "eof" =>
    heard = <<>> /\ reply = <<>> /\ inbox = <<>>

(* The server has closed the connection with the response to the call      *)
(* before k without saying so (doKeepAliveFromDict keeps it): the next call*)
(* pays for it.                                                            *)
CutBefore(k) ==
  \E j \in 1..(k - 1) :
    /\ outcome[j] = "answered" /\ kind[j] = "abrupt"
    /\ \A i \in (j + 1)..(k - 1) : outcome[i] = "refused"

(* As long as the server and the network do not fail, no call does, but for*)
(* what is wrong with its own response or how the one before it has ended: *)
(* keep alive is negotiated so that a call finds a connection it can use.  *)
CallsSucceed ==
  ~broken => \A k \in Calls : outcome[k] = "failed" => kind[k] = "bad" \/ CutBefore(k)

(* The client keeps to its part of the connection: it sends nothing but    *)
(* whole requests, one at a time, each when it has read the answer to the  *)
(* one before, which is what the server is checked with (srv_two).         *)
KeepsToConnection == [][Server \/ Drop \/ Wire!Use]_(Wire!vars)

(* A call is refused only when there is one in progress and ends at most   *)
(* once, and there is one at a time unless a refused execute has reset     *)
(* execing during a call.                                                  *)
Promise == INSTANCE RpcCalls WITH Exclusive <- "overlap" \notin Careless
ImplementsRpcCalls == Promise!Spec

(* A call is complained about when another one is in progress              *)
(* (src/CHANGELOG:109).                                                    *)
OneCallAtATime == \A j, k \in Calls : outcome[j] = "pending" /\ outcome[k] = "pending" => j = k

-----------------------------------------------------------------------------
(* Liveness, under FairSpec.                                               *)

(* Every call ends, with an answer, an error or a timeout: none stays in   *)
(* progress, whatever other calls are made from within callbacks.          *)
EveryCallEnds == []<>(\A k \in Calls : outcome[k] # "pending")
=============================================================================
