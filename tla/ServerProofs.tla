---------------------------- MODULE ServerProofs ----------------------------
(***************************************************************************)
(* The inductive invariant of Server, for every set of connections, every  *)
(* plan of requests, every length of requests and responses, whatever fits *)
(* into the kernel's buffer, and every mistake of the application.         *)
(*                                                                         *)
(* It has two layers.  Control relates the sources, the descriptors and    *)
(* the thread; it is inductive alone.  Data, on top of it, counts the units*)
(* of the requests and responses.  The last part draws the conclusions.    *)
(***************************************************************************)
EXTENDS Server, SequenceTheorems, TLAPS

(* The variables that the control depends on have their types.             *)
Modes ==
  /\ lopen \in BOOLEAN /\ backlog \subseteq Conns
  /\ armed \subseteq Conns \union {Listener} /\ fdopen \subseteq Conns
  /\ params \in [Conns -> {"null", "header", "body", "write", "postponed"}]
  /\ keep \in [Conns -> BOOLEAN]
  /\ peer \in [Conns -> {"none", "up", "eof", "gone"}]
  /\ kept \subseteq Conns
  /\ pc \in {"out", "loop", "select", "batch", "method", "crashed"}
  /\ due \subseteq armed /\ cur \in fdopen \union {NoConn}
  /\ pc = "method" => cur # NoConn
  /\ cur # NoConn => pc \in {"method", "crashed"}
  /\ watch \subseteq armed /\ limit \in BOOLEAN

(* Between two batches nothing is due and nothing is watched.              *)
Idle ==
  /\ pc \in {"out", "loop", "select"} => due = {}
  /\ pc \notin {"select", "crashed"} => watch = {}

(* A connection that the server has not accepted has nothing to do with it.*)
Fresh ==
  \A c \in Conns :
    /\ c \in backlog => peer[c] # "none"
    /\ peer[c] = "none" \/ c \in backlog =>
         c \notin armed /\ c \notin fdopen /\ c \notin kept /\ params[c] = "null"

(* A postponed connection is open and waits for no event.                  *)
PostponedOut == \A c \in kept : params[c] = "postponed" => c \in fdopen /\ c \notin armed

(* Nor does the one whose method runs, which has no params.                *)
CurOut == cur # NoConn => cur \notin armed /\ params[cur] = "null"

Control == Modes /\ Idle /\ NoOrphan /\ ArmedSound /\ Fresh /\ PostponedOut /\ CurOut

(* Every step keeps the control.                                           *)
LEMMA StepControl == Control /\ [Next]_vars => Control'
<1> SUFFICES ASSUME Control, [Next]_vars PROVE Control' OBVIOUS
<1> USE ConnsAssumption DEF Control, Modes, NoOrphan, ArmedSound, Idle, Fresh, PostponedOut, CurOut, request, client, app, loop, waiting
<1>1. ASSUME NEW c \in Conns, Connect(c) PROVE Control'
  BY <1>1 DEF Connect
<1>2. ASSUME NEW c \in Conns, Send(c) PROVE Control'
  BY <1>2 DEF Send
<1>3. ASSUME NEW c \in Conns, Receive(c) PROVE Control'
  BY <1>3 DEF Receive
<1>4. ASSUME NEW c \in Conns, Leave(c) PROVE Control'
  BY <1>4 DEF Leave
<1>5. ASSUME NEW c \in Conns, AcceptedElsewhere(c) PROVE Control'
  BY <1>5 DEF AcceptedElsewhere
<1>6. CASE Work BY <1>6 DEF Work
<1>7. CASE Select BY <1>7 DEF Select
<1>8. CASE SelectReturns BY <1>8 DEF SelectReturns
<1>9. CASE EndBatch BY <1>9 DEF EndBatch
<1>10. CASE ReturnEmpty BY <1>10 DEF ReturnEmpty
<1>11. ASSUME NEW c \in Conns, Accept(c) PROVE Control'
  BY <1>11 DEF Accept, Serves, Served
<1>12. ASSUME NEW c \in Conns, QuietClose(c) PROVE Control'
  BY <1>12 DEF QuietClose, Serves, Served, Reads
<1>13. ASSUME NEW c \in Conns, ReadMore(c) PROVE Control'
  BY <1>13 DEF ReadMore, Serves, Served, Reads
<1>14. ASSUME NEW c \in Conns, CallMethod(c) PROVE Control'
  BY <1>14 DEF CallMethod, Serves, Served, Reads, Complete
<1>15. ASSUME NEW flags \in OnErr, AcceptFails(flags) PROVE Control'
  BY <1>15 DEF AcceptFails, Serves, Served, Fail
<1>16. ASSUME NEW flags \in OnErr, NEW c \in Conns, ReadFails(c, flags) PROVE Control'
  BY <1>16 DEF ReadFails, Reads, Serves, Served, Fail
<1>17. ASSUME NEW flags \in OnErr, NEW c \in Conns, WriteFails(c, flags) PROVE Control'
  BY <1>17 DEF WriteFails, Serves, Served, Fail
<1>18. ASSUME NEW flags \in OnErr, NEW c \in Conns, RespondFails(c, flags) PROVE Control'
  BY <1>18 DEF RespondFails, Served, Fail
<1>19. ASSUME NEW c \in Conns, Postpone(c) PROVE Control'
  BY <1>19 DEF Postpone
<1>20. ASSUME NEW c \in Conns, QueueResponseFails(c) PROVE Control'
  BY <1>20 DEF QueueResponseFails, MayAnswer, Paid
<1>21. ASSUME NEW c \in Conns, QueueResponseCrashes(c) PROVE Control'
  BY <1>21 DEF QueueResponseCrashes, MayAnswer, PythonRuns
<1>22. ASSUME NEW c \in Conns, QueueFault(c) PROVE Control'
  BY <1>22 DEF QueueFault, MayAnswer, Paid
<1>23. ASSUME NEW c \in Conns, Forget(c) PROVE Control'
  BY <1>23 DEF Forget
<1>24. CASE Close
  BY <1>24 DEF Close
<1>25. ASSUME NEW c \in Conns, WriteMore(c) PROVE Control'
  <2>1. WriteResponse(c, out[c], keep[c]) BY <1>25 DEF WriteMore
  <2> QED BY <1>25, <2>1 DEF WriteMore, Serves, Served, WriteResponse
<1>26. ASSUME NEW c \in Conns, RefuseRequest(c) PROVE Control'
  <2>1. PICK ka \in BOOLEAN : WriteResponse(c, Response(taken[c] + 1), ka) BY <1>26 DEF RefuseRequest
  <2> QED BY <1>26, <2>1 DEF RefuseRequest, Complete, Reads, Serves, Served, WriteResponse
<1>27. ASSUME NEW c \in Conns, Respond(c) PROVE Control'
  BY <1>27 DEF Respond, WriteResponse
<1>28. ASSUME NEW c \in Conns, QueueResponse(c) PROVE Control'
  BY <1>28 DEF QueueResponse, MayAnswer, Paid, WriteResponse
<1>29. CASE UNCHANGED vars BY <1>29 DEF vars
<1> QED
  BY <1>1, <1>2, <1>3, <1>4, <1>5, <1>6, <1>7, <1>8, <1>9, <1>10, <1>11, <1>12, <1>13, <1>14, <1>15, <1>16, <1>17, <1>18, <1>19, <1>20, <1>21, <1>22, <1>23, <1>24, <1>25, <1>26, <1>27, <1>28, <1>29
     DEF Next, Clients, Loop, Callbacks, Failures, Methods, Application, Answers

-----------------------------------------------------------------------------
(* The counters and the sequences of units have their types.               *)
Counts ==
  /\ buf \in [Conns -> 0..(ReqUnits - 1)]
  /\ out \in [Conns -> Seq(Nat)] /\ wire \in [Conns -> Seq(Nat)]
  /\ taken \in [Conns -> Nat] /\ sent \in [Conns -> Nat]
  /\ rcvd \in [Conns -> Nat] /\ got \in [Conns -> Nat]
  /\ debt \in [Conns -> Nat]

(* Nobody reads what has not been sent, and the kernel holds no more than  *)
(* fits.                                                                   *)
Within ==
  \A c \in Conns :
    got[c] <= Len(wire[c]) /\ Len(wire[c]) <= got[c] + Window /\ rcvd[c] <= sent[c]

(* An answer is owed for the last request of a postponed connection.       *)
Owed == \A c \in Conns : debt[c] # 0 => c \in kept /\ params[c] = "postponed" /\ debt[c] = taken[c]

(* A connection that reads requests has answered all it has taken, one that*)
(* is postponed or whose method runs all but the last.                     *)
Progress ==
  \A c \in Conns :
    /\ peer[c] = "none" \/ c \in backlog => taken[c] = 0 /\ wire[c] = <<>> /\ debt[c] = 0
    /\ params[c] \in {"header", "body"} => Len(wire[c]) = taken[c] * RespUnits
    /\ params[c] = "postponed" \/ c = cur =>
         taken[c] > 0 /\ Len(wire[c]) = (taken[c] - 1) * RespUnits

(* What is yet to be written is the rest of the last response.             *)
Partly ==
  \A c \in Conns : params[c] = "write" =>
    /\ Len(wire[c]) + Len(out[c]) = taken[c] * RespUnits
    /\ Len(out[c]) \in 1..RespUnits
    /\ \A i \in 1..Len(out[c]) : out[c][i] = Len(wire[c]) + i

(* What is written is in order.                                            *)
InOrder == \A c \in Conns : \A k \in 1..Len(wire[c]) : wire[c][k] = k

Data == Counts /\ Within /\ Owed /\ Progress /\ Partly /\ InOrder

(* The first n elements of u are written behind w and the others remain.   *)
Written(w, u, n) == w \o SubSeq(u, 1, n)
Rest(u, n) == SubSeq(u, n + 1, Len(u))

(* Their lengths and elements.                                             *)
LEMMA WrittenIs ==
  ASSUME NEW w \in Seq(Nat), NEW u \in Seq(Nat), NEW n \in 0..Len(u)
  PROVE  /\ Written(w, u, n) \in Seq(Nat)
         /\ Len(Written(w, u, n)) = Len(w) + n
         /\ \A k \in 1..Len(w) : Written(w, u, n)[k] = w[k]
         /\ \A k \in 1..n : Written(w, u, n)[Len(w) + k] = u[k]
<1> DEFINE a == SubSeq(u, 1, n)
<1>1. Len(u) \in Nat /\ Len(w) \in Nat /\ n \in Nat /\ n <= Len(u)
  BY LenProperties
<1>2. a \in Seq(Nat) /\ Len(a) = n /\ \A i \in 1..n : a[i] = u[i]
  BY <1>1, SubSeqProperties
<1> HIDE DEF a
<1>4. /\ w \o a \in Seq(Nat) /\ Len(w \o a) = Len(w) + n
      /\ \A k \in 1..(Len(w) + n) : (w \o a)[k] = IF k <= Len(w) THEN w[k] ELSE a[k - Len(w)]
  BY <1>1, <1>2, ConcatProperties
<1>5. \A k \in 1..Len(w) : (w \o a)[k] = w[k]
  BY <1>1, <1>4
<1>6. ASSUME NEW k \in 1..n PROVE (w \o a)[Len(w) + k] = u[k]
  <2> DEFINE j == Len(w) + k
  <2>1. j \in 1..(Len(w) + n) /\ ~(j <= Len(w)) /\ j - Len(w) = k
    BY <1>1
  <2> HIDE DEF j
  <2>2. (w \o a)[j] = a[j - Len(w)] BY <1>4, <2>1
  <2> QED BY <1>2, <2>1, <2>2 DEF j
<1> QED BY <1>4, <1>5, <1>6 DEF a, Written

LEMMA RestIs ==
  ASSUME NEW u \in Seq(Nat), NEW n \in 0..Len(u)
  PROVE  /\ Rest(u, n) \in Seq(Nat)
         /\ Len(Rest(u, n)) = Len(u) - n
         /\ \A i \in 1..(Len(u) - n) : Rest(u, n)[i] = u[n + i]
<1> DEFINE r == Rest(u, n)
<1>1. Len(u) \in Nat /\ n \in Nat /\ n <= Len(u)
  BY LenProperties
<1>2. n + 1 \in Int /\ Len(u) \in Int /\ \A i \in (n + 1)..Len(u) : u[i] \in Nat
  BY <1>1
<1>3. /\ r \in Seq(Nat)
      /\ Len(r) = IF n + 1 <= Len(u) THEN Len(u) - (n + 1) + 1 ELSE 0
      /\ \A i \in 1..(Len(u) - (n + 1) + 1) : r[i] = u[(n + 1) + i - 1]
  BY <1>2, SubSeqProperties DEF Rest
<1> HIDE DEF r
<1>4. /\ (IF n + 1 <= Len(u) THEN Len(u) - (n + 1) + 1 ELSE 0) = Len(u) - n
      /\ \A i \in 1..(Len(u) - n) : i \in 1..(Len(u) - (n + 1) + 1) /\ (n + 1) + i - 1 = n + i
  BY <1>1
<1>5. r \in Seq(Nat) /\ Len(r) = Len(u) - n /\ \A i \in 1..(Len(u) - n) : r[i] = u[n + i]
  BY <1>3, <1>4, Zenon
<1> QED BY <1>5 DEF r

(* v has been written on c, r is left of the units.                        *)
Wrote(c, units, v, r) ==
  /\ wire' = [wire EXCEPT ![c] = v] /\ out' = [out EXCEPT ![c] = r]
  /\ Len(v) + Len(r) = Len(wire[c]) + Len(units)
  /\ Len(wire[c]) <= Len(v) /\ Len(v) <= got[c] + Window
  /\ \A k \in 1..Len(v) : v[k] = k
  /\ \A i \in 1..Len(r) : r[i] = Len(v) + i
  /\ params' = [params EXCEPT ![c] = IF Len(r) = 0 THEN "header" ELSE "write"]
  /\ buf' = [buf EXCEPT ![c] = 0]

(* writeResponse continues the order of what has been written.             *)
LEMMA Writes ==
  ASSUME Data, NEW c \in Conns, NEW units \in Seq(Nat), NEW ka \in BOOLEAN,
         WriteResponse(c, units, ka),
         \A i \in 1..Len(units) : units[i] = Len(wire[c]) + i
  PROVE  \E v \in Seq(Nat), r \in Seq(Nat) : Wrote(c, units, v, r)
<1> DEFINE w == wire[c]
           n == IF Len(units) <= Space(c) THEN Len(units) ELSE Space(c)
           v == Written(w, units, n)
           r == Rest(units, n)
<1>1. w \in Seq(Nat) /\ got[c] \in Nat /\ Len(w) \in Nat /\ Len(units) \in Nat /\ Window \in Nat
      /\ got[c] <= Len(w) /\ Len(w) <= got[c] + Window
      /\ \A k \in 1..Len(w) : w[k] = k
  BY UnitsAssumption, LenProperties DEF Data, Counts, Within, InOrder
<1>2. n \in 0..Len(units) /\ n <= got[c] + Window - Len(w)
  BY <1>1 DEF Space
<1>3. /\ wire' = [wire EXCEPT ![c] = v] /\ out' = [out EXCEPT ![c] = r]
      /\ params' = [params EXCEPT ![c] = IF n = Len(units) THEN "header" ELSE "write"]
      /\ buf' = [buf EXCEPT ![c] = 0]
  BY DEF WriteResponse, Data, Counts, Written, Rest
<1>4. \A i \in 1..Len(units) : units[i] = Len(w) + i
  OBVIOUS
<1> HIDE DEF n, w
<1>5. /\ v \in Seq(Nat) /\ Len(v) = Len(w) + n
      /\ \A k \in 1..Len(w) : v[k] = w[k]
      /\ \A k \in 1..n : v[Len(w) + k] = units[k]
      /\ r \in Seq(Nat) /\ Len(r) = Len(units) - n
      /\ \A i \in 1..(Len(units) - n) : r[i] = units[n + i]
  <2>1. w \in Seq(Nat) /\ units \in Seq(Nat) /\ n \in 0..Len(units)
    BY <1>1, <1>2
  <2>2. v \in Seq(Nat) /\ Len(v) = Len(w) + n /\ (\A k \in 1..Len(w) : v[k] = w[k])
        /\ \A k \in 1..n : v[Len(w) + k] = units[k]
    BY <2>1, WrittenIs
  <2>3. r \in Seq(Nat) /\ Len(r) = Len(units) - n /\ \A i \in 1..(Len(units) - n) : r[i] = units[n + i]
    BY <2>1, RestIs
  <2> QED BY <2>2, <2>3
<1> HIDE DEF v, r
<1>0. Len(v) = Len(w) + n /\ Len(r) = Len(units) - n
  BY <1>5
<1>6. ASSUME NEW k \in 1..Len(v) PROVE v[k] = k
  <2>1. CASE k <= Len(w)
    <3>1. k \in 1..Len(w) BY <1>1, <1>2, <1>0, <2>1
    <3> QED BY <1>1, <1>5, <3>1, Zenon
  <2>2. CASE ~(k <= Len(w))
    <3> DEFINE j == k - Len(w)
    <3>1. j \in 1..n /\ j \in 1..Len(units) /\ Len(w) + j = k
      BY <1>1, <1>2, <1>0, <2>2
    <3> HIDE DEF j
    <3>2. v[Len(w) + j] = units[j] /\ units[j] = Len(w) + j BY <1>4, <1>5, <3>1, Zenon
    <3> QED BY <3>1, <3>2, Zenon
  <2> QED BY <2>1, <2>2
<1>7. ASSUME NEW i \in 1..Len(r) PROVE r[i] = Len(v) + i
  <2>1. i \in 1..(Len(units) - n) /\ n + i \in 1..Len(units) /\ Len(w) + (n + i) = Len(v) + i
    BY <1>1, <1>2, <1>0
  <2> QED BY <1>4, <1>5, <2>1, Zenon
<1>8. /\ n = Len(units) <=> Len(r) = 0
      /\ Len(v) + Len(r) = Len(w) + Len(units) /\ Len(w) <= Len(v) /\ Len(v) <= got[c] + Window
  BY <1>1, <1>2, <1>5
<1>9. v \in Seq(Nat) /\ r \in Seq(Nat)
  BY <1>5
<1> USE <1>9
<1> WITNESS v \in Seq(Nat), r \in Seq(Nat)
<1> QED BY <1>3, <1>6, <1>7, <1>8 DEF w, Wrote

(* The units of the r-th response.                                         *)
LEMMA ResponseIs ==
  ASSUME NEW r \in Nat \ {0}
  PROVE  /\ Response(r) \in Seq(Nat) /\ Len(Response(r)) = RespUnits
         /\ \A i \in 1..RespUnits : Response(r)[i] = (r - 1) * RespUnits + i
<1>1. (r - 1) * RespUnits \in Nat BY UnitsAssumption
<1>2. \A k \in 1..RespUnits : (r - 1) * RespUnits + k \in Nat BY <1>1
<1> QED BY <1>1, <1>2, UnitsAssumption DEF Response

(* Wherever it is called, it keeps the data in order.                      *)
LEMMA AfterWrite ==
  ASSUME Control, Data, NEW c \in Conns, NEW units \in Seq(Nat), NEW ka \in BOOLEAN,
         WriteResponse(c, units, ka),
         \A i \in 1..Len(units) : units[i] = Len(wire[c]) + i,
         peer[c] # "none", c \notin backlog,
         taken' \in [Conns -> Nat], rcvd' \in [Conns -> Nat],
         Len(wire[c]) + Len(units) = taken'[c] * RespUnits, Len(units) <= RespUnits,
         \A d \in Conns \ {c} : taken'[d] = taken[d],
         \A d \in Conns : rcvd'[d] <= sent[d],
         UNCHANGED <<backlog, client, kept>>,
         debt' = [debt EXCEPT ![c] = 0],
         cur' \in {cur, NoConn}, c # cur'
  PROVE  Data'
<1>0. PICK v \in Seq(Nat), r \in Seq(Nat) : Wrote(c, units, v, r)
  BY Writes
<1>1. /\ wire' = [wire EXCEPT ![c] = v] /\ out' = [out EXCEPT ![c] = r]
      /\ Len(v) + Len(r) = Len(wire[c]) + Len(units)
      /\ Len(wire[c]) <= Len(v) /\ Len(v) <= got[c] + Window
      /\ \A k \in 1..Len(v) : v[k] = k
      /\ \A i \in 1..Len(r) : r[i] = Len(v) + i
      /\ params' = [params EXCEPT ![c] = IF Len(r) = 0 THEN "header" ELSE "write"]
      /\ buf' = [buf EXCEPT ![c] = 0]
  BY <1>0 DEF Wrote
<1>2. /\ wire'[c] = v /\ out'[c] = r
      /\ params'[c] = IF Len(r) = 0 THEN "header" ELSE "write"
      /\ \A d \in Conns \ {c} : /\ wire'[d] = wire[d] /\ out'[d] = out[d]
                                /\ params'[d] = params[d] /\ debt'[d] = debt[d]
      /\ debt'[c] = 0
  BY <1>1 DEF Control, Modes, Data, Counts
<1>3. Counts'
  <2>1. 0 \in 0..(ReqUnits - 1) BY UnitsAssumption
  <2>2. wire' \in [Conns -> Seq(Nat)] BY <1>1 DEF Data, Counts
  <2>3. out' \in [Conns -> Seq(Nat)] BY <1>1 DEF Data, Counts
  <2>4. buf' \in [Conns -> 0..(ReqUnits - 1)] BY <1>1, <2>1 DEF Data, Counts
  <2>5. debt' \in [Conns -> Nat] BY DEF Data, Counts
  <2> QED BY <2>2, <2>3, <2>4, <2>5 DEF Data, Counts, client
<1>4. Within'
  <2>1. got[c] \in Nat /\ got[c] <= Len(wire[c]) /\ Len(v) \in Nat /\ Len(wire[c]) \in Nat
    BY LenProperties DEF Data, Counts, Within
  <2>2. got[c] <= Len(v)
    BY <1>1, <2>1
  <2> QED BY <1>1, <1>2, <2>2 DEF Data, Within, client
<1>5. Owed'
  BY <1>2 DEF Data, Owed
<1>6. Progress'
  <2>1. params'[c] \in {"header", "body"} => Len(v) = taken'[c] * RespUnits
    BY <1>1, <1>2, LenProperties
  <2>2. params'[c] # "postponed"
    BY <1>2
  <2> QED BY <1>2, <2>1, <2>2, ConnsAssumption DEF Data, Progress, client
<1>7. Partly'
  <2>1. params'[c] = "write" =>
          Len(v) + Len(r) = taken'[c] * RespUnits /\ Len(r) \in 1..RespUnits
    BY <1>1, <1>2, LenProperties, UnitsAssumption
  <2>2. params'[c] = "write" => \A i \in 1..Len(r) : out'[c][i] = Len(wire'[c]) + i
    BY <1>1, <1>2
  <2>3. ASSUME NEW d \in Conns \ {c}, params'[d] = "write"
        PROVE  /\ Len(wire'[d]) + Len(out'[d]) = taken'[d] * RespUnits
               /\ Len(out'[d]) \in 1..RespUnits
               /\ \A i \in 1..Len(out'[d]) : out'[d][i] = Len(wire'[d]) + i
    <3>1. params[d] = "write" /\ wire'[d] = wire[d] /\ out'[d] = out[d] /\ taken'[d] = taken[d]
      BY <1>2, <2>3
    <3>2. /\ Len(wire[d]) + Len(out[d]) = taken[d] * RespUnits
          /\ Len(out[d]) \in 1..RespUnits
          /\ \A i \in 1..Len(out[d]) : out[d][i] = Len(wire[d]) + i
      BY <3>1 DEF Data, Partly
    <3> QED BY <3>1, <3>2
  <2> QED BY <1>2, <2>1, <2>2, <2>3 DEF Partly
<1>8. InOrder'
  BY <1>1, <1>2 DEF Data, InOrder
<1> QED BY <1>3, <1>4, <1>5, <1>6, <1>7, <1>8 DEF Data

(* So it does when the response is that of a request taken before, the end *)
(* of a method or of a postponement.                                       *)
LEMMA AfterAnswer ==
  ASSUME Control, Data, NEW c \in Conns, WriteResponse(c, Response(taken[c]), keep[c]),
         peer[c] # "none", c \notin backlog,
         taken[c] > 0, Len(wire[c]) = (taken[c] - 1) * RespUnits,
         UNCHANGED <<backlog, client, kept, taken, rcvd>>,
         debt' = [debt EXCEPT ![c] = 0],
         cur' \in {cur, NoConn}, c # cur'
  PROVE  Data'
<1> DEFINE r == taken[c]
<1>1. r \in Nat \ {0} /\ keep[c] \in BOOLEAN
  BY DEF Control, Modes, Data, Counts
<1>2. /\ Response(r) \in Seq(Nat) /\ Len(Response(r)) = RespUnits
      /\ \A i \in 1..RespUnits : Response(r)[i] = (r - 1) * RespUnits + i
  BY <1>1, ResponseIs
<1>3. (r - 1) * RespUnits + RespUnits = r * RespUnits
  BY <1>1, UnitsAssumption
<1>4. /\ Len(wire[c]) + Len(Response(r)) = taken'[c] * RespUnits
      /\ \A i \in 1..Len(Response(r)) : Response(r)[i] = Len(wire[c]) + i
  BY <1>2, <1>3
<1>5. /\ taken' \in [Conns -> Nat] /\ rcvd' \in [Conns -> Nat]
      /\ \A d \in Conns : rcvd'[d] <= sent[d]
      /\ \A d \in Conns \ {c} : taken'[d] = taken[d]
  BY DEF Data, Counts, Within
<1>6. UNCHANGED <<backlog, client, kept>>
  OBVIOUS
<1>7. Len(Response(r)) <= RespUnits
  BY <1>2, UnitsAssumption
<1> QED BY <1>1, <1>2, <1>4, <1>5, <1>6, <1>7, AfterWrite

(* Every step keeps the data.                                              *)
LEMMA StepData == Control /\ Data /\ [Next]_vars => Data'
<1> SUFFICES ASSUME Control, Data, [Next]_vars PROVE Data' OBVIOUS
<1> USE ConnsAssumption, UnitsAssumption DEF Control, Data, Modes, request, client, app, loop, waiting
<1>1. ASSUME NEW c \in Conns, Connect(c) PROVE Data'
  <2>1. Counts' BY <1>1 DEF Counts, Connect
  <2>2. Within' BY <1>1 DEF Counts, Within, Connect
  <2>3. Owed' BY <1>1 DEF Counts, Owed, Fresh, CurOut, ArmedSound, PostponedOut, Connect
  <2>4. Progress' BY <1>1 DEF Counts, Owed, Progress, Fresh, CurOut, ArmedSound, Connect
  <2>5. Partly' BY <1>1 DEF Counts, Partly, Connect
  <2>6. InOrder' BY <1>1 DEF Counts, InOrder, Connect
  <2> QED BY <2>1, <2>2, <2>3, <2>4, <2>5, <2>6 DEF Data
<1>2. ASSUME NEW c \in Conns, Send(c) PROVE Data'
  <2>1. Counts' BY <1>2 DEF Counts, Send
  <2>2. Within' BY <1>2 DEF Counts, Within, Send
  <2>3. Owed' BY <1>2 DEF Counts, Owed, Fresh, CurOut, ArmedSound, PostponedOut, Send
  <2>4. Progress' BY <1>2 DEF Counts, Owed, Progress, Fresh, CurOut, ArmedSound, Send
  <2>5. Partly' BY <1>2 DEF Counts, Partly, Send
  <2>6. InOrder' BY <1>2 DEF Counts, InOrder, Send
  <2> QED BY <2>1, <2>2, <2>3, <2>4, <2>5, <2>6 DEF Data
<1>3. ASSUME NEW c \in Conns, Receive(c) PROVE Data'
  <2>1. Counts' BY <1>3 DEF Counts, Receive
  <2>2. Within' BY <1>3 DEF Counts, Within, Receive
  <2>3. Owed' BY <1>3 DEF Counts, Owed, Fresh, CurOut, ArmedSound, PostponedOut, Receive
  <2>4. Progress' BY <1>3 DEF Counts, Owed, Progress, Fresh, CurOut, ArmedSound, Receive
  <2>5. Partly' BY <1>3 DEF Counts, Partly, Receive
  <2>6. InOrder' BY <1>3 DEF Counts, InOrder, Receive
  <2> QED BY <2>1, <2>2, <2>3, <2>4, <2>5, <2>6 DEF Data
<1>4. ASSUME NEW c \in Conns, Leave(c) PROVE Data'
  <2>1. Counts' BY <1>4 DEF Counts, Leave
  <2>2. Within' BY <1>4 DEF Counts, Within, Leave
  <2>3. Owed' BY <1>4 DEF Counts, Owed, Fresh, CurOut, ArmedSound, PostponedOut, Leave
  <2>4. Progress' BY <1>4 DEF Counts, Owed, Progress, Fresh, CurOut, ArmedSound, Leave
  <2>5. Partly' BY <1>4 DEF Counts, Partly, Leave
  <2>6. InOrder' BY <1>4 DEF Counts, InOrder, Leave
  <2> QED BY <2>1, <2>2, <2>3, <2>4, <2>5, <2>6 DEF Data
<1>5. ASSUME NEW c \in Conns, AcceptedElsewhere(c) PROVE Data'
  <2>1. Counts' BY <1>5 DEF Counts, AcceptedElsewhere
  <2>2. Within' BY <1>5 DEF Counts, Within, AcceptedElsewhere
  <2>3. Owed' BY <1>5 DEF Counts, Owed, Fresh, CurOut, ArmedSound, PostponedOut, AcceptedElsewhere
  <2>4. Progress' BY <1>5 DEF Counts, Owed, Progress, Fresh, CurOut, ArmedSound, AcceptedElsewhere
  <2>5. Partly' BY <1>5 DEF Counts, Partly, AcceptedElsewhere
  <2>6. InOrder' BY <1>5 DEF Counts, InOrder, AcceptedElsewhere
  <2> QED BY <2>1, <2>2, <2>3, <2>4, <2>5, <2>6 DEF Data
<1>6. CASE Work
  <2>1. Counts' BY <1>6 DEF Counts, Work
  <2>2. Within' BY <1>6 DEF Counts, Within, Work
  <2>3. Owed' BY <1>6 DEF Counts, Owed, Fresh, CurOut, ArmedSound, PostponedOut, Work
  <2>4. Progress' BY <1>6 DEF Counts, Owed, Progress, Fresh, CurOut, ArmedSound, Work
  <2>5. Partly' BY <1>6 DEF Counts, Partly, Work
  <2>6. InOrder' BY <1>6 DEF Counts, InOrder, Work
  <2> QED BY <2>1, <2>2, <2>3, <2>4, <2>5, <2>6 DEF Data
<1>7. CASE Select
  <2>1. Counts' BY <1>7 DEF Counts, Select
  <2>2. Within' BY <1>7 DEF Counts, Within, Select
  <2>3. Owed' BY <1>7 DEF Counts, Owed, Fresh, CurOut, ArmedSound, PostponedOut, Select
  <2>4. Progress' BY <1>7 DEF Counts, Owed, Progress, Fresh, CurOut, ArmedSound, Select
  <2>5. Partly' BY <1>7 DEF Counts, Partly, Select
  <2>6. InOrder' BY <1>7 DEF Counts, InOrder, Select
  <2> QED BY <2>1, <2>2, <2>3, <2>4, <2>5, <2>6 DEF Data
<1>8. CASE SelectReturns
  <2>1. Counts' BY <1>8 DEF Counts, SelectReturns
  <2>2. Within' BY <1>8 DEF Counts, Within, SelectReturns
  <2>3. Owed' BY <1>8 DEF Counts, Owed, Fresh, CurOut, ArmedSound, PostponedOut, SelectReturns
  <2>4. Progress' BY <1>8 DEF Counts, Owed, Progress, Fresh, CurOut, ArmedSound, SelectReturns
  <2>5. Partly' BY <1>8 DEF Counts, Partly, SelectReturns
  <2>6. InOrder' BY <1>8 DEF Counts, InOrder, SelectReturns
  <2> QED BY <2>1, <2>2, <2>3, <2>4, <2>5, <2>6 DEF Data
<1>9. CASE EndBatch
  <2>1. Counts' BY <1>9 DEF Counts, EndBatch
  <2>2. Within' BY <1>9 DEF Counts, Within, EndBatch
  <2>3. Owed' BY <1>9 DEF Counts, Owed, Fresh, CurOut, ArmedSound, PostponedOut, EndBatch
  <2>4. Progress' BY <1>9 DEF Counts, Owed, Progress, Fresh, CurOut, ArmedSound, EndBatch
  <2>5. Partly' BY <1>9 DEF Counts, Partly, EndBatch
  <2>6. InOrder' BY <1>9 DEF Counts, InOrder, EndBatch
  <2> QED BY <2>1, <2>2, <2>3, <2>4, <2>5, <2>6 DEF Data
<1>10. CASE ReturnEmpty
  <2>1. Counts' BY <1>10 DEF Counts, ReturnEmpty
  <2>2. Within' BY <1>10 DEF Counts, Within, ReturnEmpty
  <2>3. Owed' BY <1>10 DEF Counts, Owed, Fresh, CurOut, ArmedSound, PostponedOut, ReturnEmpty
  <2>4. Progress' BY <1>10 DEF Counts, Owed, Progress, Fresh, CurOut, ArmedSound, ReturnEmpty
  <2>5. Partly' BY <1>10 DEF Counts, Partly, ReturnEmpty
  <2>6. InOrder' BY <1>10 DEF Counts, InOrder, ReturnEmpty
  <2> QED BY <2>1, <2>2, <2>3, <2>4, <2>5, <2>6 DEF Data
<1>11. ASSUME NEW c \in Conns, Accept(c) PROVE Data'
  <2>1. Counts' BY <1>11 DEF Counts, Accept, Serves, Served
  <2>2. Within' BY <1>11 DEF Counts, Within, Accept, Serves, Served
  <2>3. Owed' BY <1>11 DEF Counts, Owed, Fresh, CurOut, ArmedSound, PostponedOut, Accept, Serves, Served
  <2>4. Progress' BY <1>11 DEF Counts, Owed, Progress, Fresh, CurOut, ArmedSound, Accept, Serves, Served
  <2>5. Partly' BY <1>11 DEF Counts, Partly, Accept, Serves, Served
  <2>6. InOrder' BY <1>11 DEF Counts, InOrder, Accept, Serves, Served
  <2> QED BY <2>1, <2>2, <2>3, <2>4, <2>5, <2>6 DEF Data
<1>12. ASSUME NEW c \in Conns, QuietClose(c) PROVE Data'
  <2>1. Counts' BY <1>12 DEF Counts, QuietClose, Serves, Served, Reads
  <2>2. Within' BY <1>12 DEF Counts, Within, QuietClose, Serves, Served, Reads
  <2>3. Owed' BY <1>12 DEF Counts, Owed, Fresh, CurOut, ArmedSound, PostponedOut, QuietClose, Serves, Served, Reads
  <2>4. Progress' BY <1>12 DEF Counts, Owed, Progress, Fresh, CurOut, ArmedSound, QuietClose, Serves, Served, Reads
  <2>5. Partly' BY <1>12 DEF Counts, Partly, QuietClose, Serves, Served, Reads
  <2>6. InOrder' BY <1>12 DEF Counts, InOrder, QuietClose, Serves, Served, Reads
  <2> QED BY <2>1, <2>2, <2>3, <2>4, <2>5, <2>6 DEF Data
<1>13. ASSUME NEW c \in Conns, ReadMore(c) PROVE Data'
  <2>1. Counts'
    <3>1. buf[c] \in 0..(ReqUnits - 1) /\ sent[c] \in Nat /\ rcvd[c] \in Nat /\ rcvd[c] <= sent[c]
          /\ Available(c) < ReqUnits
      BY <1>13 DEF Counts, Within, ReadMore
    <3>2. Available(c) \in 0..(ReqUnits - 1) BY <3>1 DEF Available
    <3> QED BY <1>13, <3>2 DEF Counts, ReadMore
  <2>2. Within' BY <1>13 DEF Counts, Within, ReadMore, Serves, Served, Reads, Available
  <2>3. Owed' BY <1>13 DEF Counts, Owed, Fresh, CurOut, ArmedSound, PostponedOut, ReadMore, Serves, Served, Reads, Available
  <2>4. Progress' BY <1>13 DEF Counts, Owed, Progress, Fresh, CurOut, ArmedSound, ReadMore, Serves, Served, Reads, Available
  <2>5. Partly' BY <1>13 DEF Counts, Partly, ReadMore, Serves, Served, Reads, Available
  <2>6. InOrder' BY <1>13 DEF Counts, InOrder, ReadMore, Serves, Served, Reads, Available
  <2> QED BY <2>1, <2>2, <2>3, <2>4, <2>5, <2>6 DEF Data
<1>14. ASSUME NEW c \in Conns, CallMethod(c) PROVE Data'
  <2>1. Counts' BY <1>14 DEF Counts, CallMethod, Serves, Served, Reads, Complete
  <2>2. Within' BY <1>14 DEF Counts, Within, CallMethod, Serves, Served, Reads, Complete
  <2>3. Owed' BY <1>14 DEF Counts, Owed, Fresh, CurOut, ArmedSound, PostponedOut, CallMethod, Serves, Served, Reads, Complete
  <2>4. Progress'
    <3>1. taken'[c] = taken[c] + 1 /\ taken[c] \in Nat /\ (taken[c] + 1) - 1 = taken[c]
      BY <1>14 DEF Counts, CallMethod, Complete
    <3>2. Len(wire[c]) = taken[c] * RespUnits
      BY <1>14 DEF Progress, CallMethod, Complete, Reads
    <3>3. taken'[c] > 0 /\ Len(wire'[c]) = (taken'[c] - 1) * RespUnits
      BY <1>14, <3>1, <3>2 DEF CallMethod
    <3>4. peer[c] # "none" /\ c \notin backlog
      BY <1>14 DEF CallMethod, Complete, Reads, Serves, Fresh
    <3>5. ASSUME NEW d \in Conns \ {c}
          PROVE  taken'[d] = taken[d] /\ wire'[d] = wire[d] /\ debt'[d] = debt[d]
                 /\ params'[d] = params[d] /\ d # cur'
      BY <1>14 DEF Counts, CallMethod, Complete
    <3>6. params'[c] = "null" /\ backlog' = backlog /\ peer' = peer
      BY <1>14 DEF CallMethod
    <3> QED BY <3>3, <3>4, <3>5, <3>6 DEF Progress
  <2>5. Partly' BY <1>14 DEF Counts, Partly, CallMethod, Serves, Served, Reads, Complete
  <2>6. InOrder' BY <1>14 DEF Counts, InOrder, CallMethod, Serves, Served, Reads, Complete
  <2> QED BY <2>1, <2>2, <2>3, <2>4, <2>5, <2>6 DEF Data
<1>15. ASSUME NEW flags \in OnErr, AcceptFails(flags) PROVE Data'
  <2>1. Counts' BY <1>15 DEF Counts, AcceptFails, Serves, Served, Fail
  <2>2. Within' BY <1>15 DEF Counts, Within, AcceptFails, Serves, Served, Fail
  <2>3. Owed' BY <1>15 DEF Counts, Owed, Fresh, CurOut, ArmedSound, PostponedOut, AcceptFails, Serves, Served, Fail
  <2>4. Progress' BY <1>15 DEF Counts, Owed, Progress, Fresh, CurOut, ArmedSound, AcceptFails, Serves, Served, Fail
  <2>5. Partly' BY <1>15 DEF Counts, Partly, AcceptFails, Serves, Served, Fail
  <2>6. InOrder' BY <1>15 DEF Counts, InOrder, AcceptFails, Serves, Served, Fail
  <2> QED BY <2>1, <2>2, <2>3, <2>4, <2>5, <2>6 DEF Data
<1>16. ASSUME NEW flags \in OnErr, NEW c \in Conns, ReadFails(c, flags) PROVE Data'
  <2>1. Counts' BY <1>16 DEF Counts, ReadFails, Reads, Serves, Served, Fail
  <2>2. Within' BY <1>16 DEF Counts, Within, ReadFails, Reads, Serves, Served, Fail
  <2>3. Owed' BY <1>16 DEF Counts, Owed, Fresh, CurOut, ArmedSound, PostponedOut, ReadFails, Reads, Serves, Served, Fail
  <2>4. Progress' BY <1>16 DEF Counts, Owed, Progress, Fresh, CurOut, ArmedSound, ReadFails, Reads, Serves, Served, Fail
  <2>5. Partly' BY <1>16 DEF Counts, Partly, ReadFails, Reads, Serves, Served, Fail
  <2>6. InOrder' BY <1>16 DEF Counts, InOrder, ReadFails, Reads, Serves, Served, Fail
  <2> QED BY <2>1, <2>2, <2>3, <2>4, <2>5, <2>6 DEF Data
<1>17. ASSUME NEW flags \in OnErr, NEW c \in Conns, WriteFails(c, flags) PROVE Data'
  <2>1. Counts' BY <1>17 DEF Counts, WriteFails, Serves, Served, Fail
  <2>2. Within' BY <1>17 DEF Counts, Within, WriteFails, Serves, Served, Fail
  <2>3. Owed' BY <1>17 DEF Counts, Owed, Fresh, CurOut, ArmedSound, PostponedOut, WriteFails, Serves, Served, Fail
  <2>4. Progress' BY <1>17 DEF Counts, Owed, Progress, Fresh, CurOut, ArmedSound, WriteFails, Serves, Served, Fail
  <2>5. Partly' BY <1>17 DEF Counts, Partly, WriteFails, Serves, Served, Fail
  <2>6. InOrder' BY <1>17 DEF Counts, InOrder, WriteFails, Serves, Served, Fail
  <2> QED BY <2>1, <2>2, <2>3, <2>4, <2>5, <2>6 DEF Data
<1>18. ASSUME NEW flags \in OnErr, NEW c \in Conns, RespondFails(c, flags) PROVE Data'
  <2>1. Counts' BY <1>18 DEF Counts, RespondFails, Served, Fail
  <2>2. Within' BY <1>18 DEF Counts, Within, RespondFails, Served, Fail
  <2>3. Owed' BY <1>18 DEF Counts, Owed, Fresh, CurOut, ArmedSound, PostponedOut, RespondFails, Served, Fail
  <2>4. Progress' BY <1>18 DEF Counts, Owed, Progress, Fresh, CurOut, ArmedSound, RespondFails, Served, Fail
  <2>5. Partly' BY <1>18 DEF Counts, Partly, RespondFails, Served, Fail
  <2>6. InOrder' BY <1>18 DEF Counts, InOrder, RespondFails, Served, Fail
  <2> QED BY <2>1, <2>2, <2>3, <2>4, <2>5, <2>6 DEF Data
<1>19. ASSUME NEW c \in Conns, Postpone(c) PROVE Data'
  <2>1. Counts' BY <1>19 DEF Counts, Postpone
  <2>2. Within' BY <1>19 DEF Counts, Within, Postpone
  <2>3. Owed' BY <1>19 DEF Counts, Owed, Fresh, CurOut, ArmedSound, PostponedOut, Postpone
  <2>4. Progress' BY <1>19 DEF Counts, Owed, Progress, Fresh, CurOut, ArmedSound, Postpone
  <2>5. Partly' BY <1>19 DEF Counts, Partly, Postpone
  <2>6. InOrder' BY <1>19 DEF Counts, InOrder, Postpone
  <2> QED BY <2>1, <2>2, <2>3, <2>4, <2>5, <2>6 DEF Data
<1>20. ASSUME NEW c \in Conns, QueueResponseFails(c) PROVE Data'
  <2>1. Counts' BY <1>20 DEF Counts, QueueResponseFails, MayAnswer, Paid
  <2>2. Within' BY <1>20 DEF Counts, Within, QueueResponseFails, MayAnswer, Paid
  <2>3. Owed' BY <1>20 DEF Counts, Owed, Fresh, CurOut, ArmedSound, PostponedOut, QueueResponseFails, MayAnswer, Paid
  <2>4. Progress' BY <1>20 DEF Counts, Owed, Progress, Fresh, CurOut, ArmedSound, QueueResponseFails, MayAnswer, Paid
  <2>5. Partly' BY <1>20 DEF Counts, Partly, QueueResponseFails, MayAnswer, Paid
  <2>6. InOrder' BY <1>20 DEF Counts, InOrder, QueueResponseFails, MayAnswer, Paid
  <2> QED BY <2>1, <2>2, <2>3, <2>4, <2>5, <2>6 DEF Data
<1>21. ASSUME NEW c \in Conns, QueueResponseCrashes(c) PROVE Data'
  <2>1. Counts' BY <1>21 DEF Counts, QueueResponseCrashes, MayAnswer, PythonRuns
  <2>2. Within' BY <1>21 DEF Counts, Within, QueueResponseCrashes, MayAnswer, PythonRuns
  <2>3. Owed' BY <1>21 DEF Counts, Owed, Fresh, CurOut, ArmedSound, PostponedOut, QueueResponseCrashes, MayAnswer, PythonRuns
  <2>4. Progress' BY <1>21 DEF Counts, Owed, Progress, Fresh, CurOut, ArmedSound, QueueResponseCrashes, MayAnswer, PythonRuns
  <2>5. Partly' BY <1>21 DEF Counts, Partly, QueueResponseCrashes, MayAnswer, PythonRuns
  <2>6. InOrder' BY <1>21 DEF Counts, InOrder, QueueResponseCrashes, MayAnswer, PythonRuns
  <2> QED BY <2>1, <2>2, <2>3, <2>4, <2>5, <2>6 DEF Data
<1>22. ASSUME NEW c \in Conns, QueueFault(c) PROVE Data'
  <2>1. Counts' BY <1>22 DEF Counts, QueueFault, MayAnswer, Paid
  <2>2. Within' BY <1>22 DEF Counts, Within, QueueFault, MayAnswer, Paid
  <2>3. Owed' BY <1>22 DEF Counts, Owed, Fresh, CurOut, ArmedSound, PostponedOut, QueueFault, MayAnswer, Paid
  <2>4. Progress' BY <1>22 DEF Counts, Owed, Progress, Fresh, CurOut, ArmedSound, QueueFault, MayAnswer, Paid
  <2>5. Partly' BY <1>22 DEF Counts, Partly, QueueFault, MayAnswer, Paid
  <2>6. InOrder' BY <1>22 DEF Counts, InOrder, QueueFault, MayAnswer, Paid
  <2> QED BY <2>1, <2>2, <2>3, <2>4, <2>5, <2>6 DEF Data
<1>23. ASSUME NEW c \in Conns, Forget(c) PROVE Data'
  <2>1. Counts' BY <1>23 DEF Counts, Forget
  <2>2. Within' BY <1>23 DEF Counts, Within, Forget
  <2>3. Owed' BY <1>23 DEF Counts, Owed, Fresh, CurOut, ArmedSound, PostponedOut, Forget
  <2>4. Progress' BY <1>23 DEF Counts, Owed, Progress, Fresh, CurOut, ArmedSound, Forget
  <2>5. Partly' BY <1>23 DEF Counts, Partly, Forget
  <2>6. InOrder' BY <1>23 DEF Counts, InOrder, Forget
  <2> QED BY <2>1, <2>2, <2>3, <2>4, <2>5, <2>6 DEF Data
<1>24. CASE Close
  <2>1. Counts' BY <1>24 DEF Counts, Close
  <2>2. Within' BY <1>24 DEF Counts, Within, Close
  <2>3. Owed' BY <1>24 DEF Counts, Owed, Fresh, CurOut, ArmedSound, PostponedOut, Close
  <2>4. Progress' BY <1>24 DEF Counts, Owed, Progress, Fresh, CurOut, ArmedSound, Close
  <2>5. Partly' BY <1>24 DEF Counts, Partly, Close
  <2>6. InOrder' BY <1>24 DEF Counts, InOrder, Close
  <2> QED BY <2>1, <2>2, <2>3, <2>4, <2>5, <2>6 DEF Data
<1>25. CASE UNCHANGED vars
  <2>1. Counts' BY <1>25 DEF Counts, vars
  <2>2. Within' BY <1>25 DEF Counts, Within, vars
  <2>3. Owed' BY <1>25 DEF Counts, Owed, Fresh, CurOut, ArmedSound, PostponedOut, vars
  <2>4. Progress' BY <1>25 DEF Counts, Owed, Progress, Fresh, CurOut, ArmedSound, vars
  <2>5. Partly' BY <1>25 DEF Counts, Partly, vars
  <2>6. InOrder' BY <1>25 DEF Counts, InOrder, vars
  <2> QED BY <2>1, <2>2, <2>3, <2>4, <2>5, <2>6 DEF Data
<1>26. ASSUME NEW c \in Conns, WriteMore(c) PROVE Data'
  <2> HIDE DEF Control, Data
  <2>1. out[c] \in Seq(Nat) /\ keep[c] \in BOOLEAN BY DEF Control, Modes, Data, Counts
  <2>2. params[c] = "write" /\ c \in armed /\ WriteResponse(c, out[c], keep[c])
    BY <1>26 DEF WriteMore, Serves, Control, Modes
  <2>3. peer[c] # "none" /\ c \notin backlog BY <2>2 DEF Control, Fresh
  <2>4. debt[c] = 0 BY <2>2 DEF Data, Owed
  <2>5. /\ Len(wire[c]) + Len(out[c]) = taken[c] * RespUnits /\ Len(out[c]) \in 1..RespUnits
        /\ \A i \in 1..Len(out[c]) : out[c][i] = Len(wire[c]) + i
    BY <2>2 DEF Data, Partly
  <2>6. taken \in [Conns -> Nat] /\ rcvd \in [Conns -> Nat] /\ debt = [debt EXCEPT ![c] = 0]
        /\ \A d \in Conns : rcvd[d] <= sent[d]
    BY <2>4 DEF Data, Counts, Within
  <2>7. c # cur BY <2>2 DEF Control, CurOut
  <2>8. Len(out[c]) <= RespUnits BY <2>5, UnitsAssumption
  <2>9. /\ taken' \in [Conns -> Nat] /\ rcvd' \in [Conns -> Nat]
        /\ \A d \in Conns : rcvd'[d] <= sent[d]
        /\ \A d \in Conns \ {c} : taken'[d] = taken[d]
        /\ debt' = [debt EXCEPT ![c] = 0] /\ cur' \in {cur, NoConn} /\ c # cur'
        /\ UNCHANGED <<backlog, client, kept>> /\ taken'[c] = taken[c]
    BY <1>26, <2>6, <2>7 DEF WriteMore
  <2> QED BY <2>1, <2>2, <2>3, <2>5, <2>8, <2>9, AfterWrite
<1>27. ASSUME NEW c \in Conns, RefuseRequest(c) PROVE Data'
  <2> HIDE DEF Control, Data
  <2> DEFINE r == taken[c] + 1
  <2>0. PICK ka \in BOOLEAN : WriteResponse(c, Response(r), ka) BY <1>27 DEF RefuseRequest
  <2>1. taken[c] \in Nat /\ r \in Nat \ {0} /\ r - 1 = taken[c] BY DEF Data, Counts
  <2>2. /\ Response(r) \in Seq(Nat) /\ Len(Response(r)) = RespUnits
        /\ \A i \in 1..RespUnits : Response(r)[i] = (r - 1) * RespUnits + i
    BY <2>1, ResponseIs
  <2>3. params[c] \in {"header", "body"} /\ c \in armed
    BY <1>27 DEF RefuseRequest, Complete, Reads, Serves, Control, Modes
  <2>4. peer[c] # "none" /\ c \notin backlog BY <2>3 DEF Control, Fresh
  <2>5. debt[c] = 0 BY <2>3 DEF Data, Owed
  <2>6. Len(wire[c]) = (r - 1) * RespUnits BY <2>1, <2>3 DEF Data, Progress
  <2>7. taken' = [taken EXCEPT ![c] = r] /\ rcvd' = [rcvd EXCEPT ![c] = sent[c]]
    BY <1>27 DEF RefuseRequest, Complete
  <2>8. c # cur BY <2>3 DEF Control, CurOut
  <2>9. /\ Len(wire[c]) + Len(Response(r)) = taken'[c] * RespUnits /\ Len(Response(r)) <= RespUnits
        /\ \A i \in 1..Len(Response(r)) : Response(r)[i] = Len(wire[c]) + i
    <3>1. taken'[c] = r BY <2>7 DEF Data, Counts
    <3>2. (r - 1) * RespUnits + RespUnits = r * RespUnits BY <2>1, UnitsAssumption
    <3> QED BY <2>2, <2>6, <3>1, <3>2, UnitsAssumption
  <2>10. /\ taken' \in [Conns -> Nat] /\ rcvd' \in [Conns -> Nat]
         /\ \A d \in Conns : rcvd'[d] <= sent[d]
         /\ \A d \in Conns \ {c} : taken'[d] = taken[d]
    BY <2>1, <2>7 DEF Data, Counts, Within
  <2>11. /\ debt' = [debt EXCEPT ![c] = 0] /\ cur' \in {cur, NoConn} /\ c # cur'
         /\ UNCHANGED <<backlog, client, kept>>
    BY <1>27, <2>5, <2>8 DEF RefuseRequest, Data, Counts
  <2> HIDE DEF r
  <2> QED BY <2>0, <2>2, <2>4, <2>9, <2>10, <2>11, AfterWrite
<1>28. ASSUME NEW c \in Conns, Respond(c) PROVE Data'
  <2> HIDE DEF Control, Data
  <2>1. c = cur /\ cur # NoConn /\ params[c] = "null" /\ WriteResponse(c, Response(taken[c]), keep[c])
    BY <1>28 DEF Respond, Control, CurOut
  <2>2. c \in fdopen BY <2>1 DEF Control, Modes
  <2>3. peer[c] # "none" /\ c \notin backlog BY <2>2 DEF Control, Fresh
  <2>4. debt[c] = 0 BY <2>1 DEF Data, Owed
  <2>5. /\ debt' = [debt EXCEPT ![c] = 0] /\ cur' \in {cur, NoConn} /\ c # cur'
        /\ UNCHANGED <<backlog, client, kept, taken, rcvd>>
    BY <1>28, <2>1, <2>4 DEF Respond, Data, Counts
  <2>6. taken[c] > 0 /\ Len(wire[c]) = (taken[c] - 1) * RespUnits BY <2>1 DEF Data, Progress
  <2> QED BY <2>1, <2>3, <2>5, <2>6, AfterAnswer
<1>29. ASSUME NEW c \in Conns, QueueResponse(c) PROVE Data'
  <2> HIDE DEF Control, Data
  <2>1. params[c] = "postponed" /\ c \in kept /\ WriteResponse(c, Response(taken[c]), keep[c])
    BY <1>29 DEF QueueResponse, MayAnswer
  <2>2. c \in fdopen BY <2>1 DEF Control, PostponedOut
  <2>3. peer[c] # "none" /\ c \notin backlog BY <2>2 DEF Control, Fresh
  <2>4. c # cur BY <2>1 DEF Control, CurOut
  <2>5. /\ debt' = [debt EXCEPT ![c] = 0] /\ cur' \in {cur, NoConn} /\ c # cur'
        /\ UNCHANGED <<backlog, client, kept, taken, rcvd>>
    BY <1>29, <2>4 DEF QueueResponse, Paid
  <2>6. taken[c] > 0 /\ Len(wire[c]) = (taken[c] - 1) * RespUnits BY <2>1 DEF Data, Progress
  <2> QED BY <2>1, <2>3, <2>5, <2>6, AfterAnswer
<1> QED
  BY <1>1, <1>2, <1>3, <1>4, <1>5, <1>6, <1>7, <1>8, <1>9, <1>10, <1>11, <1>12, <1>13, <1>14, <1>15, <1>16, <1>17, <1>18, <1>19, <1>20, <1>21, <1>22, <1>23, <1>24, <1>25, <1>26, <1>27, <1>28, <1>29
     DEF Next, Clients, Loop, Callbacks, Failures, Methods, Application, Answers

-----------------------------------------------------------------------------
(***************************************************************************)
(* What Server guarantees for every set of connections, every length of    *)
(* requests and responses, any error handler, clients that pipeline, fail  *)
(* or stop at any point, and an application that makes every mistake; and  *)
(* what it promises besides to clients that wait for their responses.      *)
(***************************************************************************)
Inv == Control /\ Data

LEMMA InvInit == Init => Inv
<1> SUFFICES ASSUME Init PROVE Inv OBVIOUS
<1>1. Control
  BY ConnsAssumption
     DEF Init, request, Control, Modes, Idle, NoOrphan, ArmedSound, Fresh, PostponedOut, CurOut
<1>2. 0 \in 0..(ReqUnits - 1) /\ <<>> \in Seq(Nat) /\ Len(<<>>) = 0 /\ 0 * RespUnits = 0
      /\ 0 <= 0 + Window
  BY UnitsAssumption
<1>3. Counts
  BY <1>2 DEF Init, Counts, Zero
<1>4. Within
  <2>1. \A c \in Conns : got[c] = 0 /\ wire[c] = <<>> /\ rcvd[c] = 0 /\ sent[c] = 0
    BY DEF Init, Zero
  <2>2. \A c \in Conns : Len(wire[c]) = 0 BY <1>2, <2>1
  <2>3. 0 <= 0 + Window /\ 0 <= 0 BY UnitsAssumption
  <2> QED BY <2>1, <2>2, <2>3 DEF Within
<1>5. Owed /\ Partly
  BY DEF Init, Owed, Partly, Zero
<1>6. Progress
  BY <1>2, ConnsAssumption DEF Init, Progress, Zero
<1>7. InOrder
  BY <1>2 DEF Init, InOrder
<1> QED BY <1>1, <1>3, <1>4, <1>5, <1>6, <1>7 DEF Inv, Data

LEMMA Invariant == Spec => []Inv
<1>1. Inv /\ [Next]_vars => Inv'
  BY StepControl, StepData DEF Inv
<1> QED BY InvInit, <1>1, PTL DEF Spec

-----------------------------------------------------------------------------
(* Every variable has its type, and a method runs for exactly one open     *)
(* connection.                                                             *)
THEOREM TypeCorrect == Spec => []TypeOK
<1>1. Inv => TypeOK
  BY DEF Inv, Control, Modes, Data, Counts, TypeOK
<1> QED BY Invariant, <1>1, PTL

(* What a client reads are whole responses in the order of its requests,   *)
(* however writeResponse is interrupted, postponed or retried.             *)
THEOREM ResponsesKeepOrder == Spec => []ResponsesInOrder
<1>1. Inv => ResponsesInOrder
  BY DEF Inv, Data, Counts, InOrder, ResponsesInOrder
<1> QED BY Invariant, <1>1, PTL

(* No open connection is forgotten.                                        *)
THEOREM NothingForgotten == Spec => []NoOrphan
<1>1. Inv => NoOrphan
  BY DEF Inv, Control
<1> QED BY Invariant, <1>1, PTL

(* No closed descriptor is polled, no request is read on a connection      *)
(* whose answer is owed, and that goes to the request that was postponed.  *)
THEOREM SourcesAreSound == Spec => []SourcesSound
<1>1. Inv => ArmedSound
  BY DEF Inv, Control
<1>2. Inv => DebtSound
  BY DEF Inv, Control, PostponedOut, Data, Owed, DebtSound
<1> QED BY Invariant, <1>1, <1>2, PTL DEF SourcesSound

-----------------------------------------------------------------------------
(* A quotient from its bounds.                                             *)
LEMMA QuotientIs ==
  ASSUME NEW d \in Nat \ {0}, NEW q \in Nat, NEW n \in Nat, q * d <= n, n < (q + 1) * d
  PROVE  n \div d = q
<1> DEFINE p == n \div d
<1>1. p \in Int /\ n % d \in 0..(d - 1) /\ n = d * p + (n % d)
  OBVIOUS
<1>2. p * d <= n /\ n < (p + 1) * d
  BY <1>1
<1> HIDE DEF p
<1>3. CASE p < q
  <2>1. p + 1 <= q BY <1>1, <1>3
  <2>2. (p + 1) * d <= q * d BY <2>1, <1>1
  <2> QED BY <1>1, <1>2, <2>2
<1>4. CASE q < p
  <2>1. q + 1 <= p BY <1>1, <1>4
  <2>2. (q + 1) * d <= p * d BY <2>1, <1>1
  <2> QED BY <1>1, <1>2, <2>2
<1>5. CASE p = q BY <1>5 DEF p
<1> QED BY <1>1, <1>3, <1>4, <1>5

(* So many responses are in what is written: all that were begun if it is  *)
(* whole responses, all but one if some of the last, or all of it, is left.*)
LEMMA Whole ==
  ASSUME NEW t \in Nat
  PROVE  (t * RespUnits) \div RespUnits = t
<1>1. t * RespUnits \in Nat /\ RespUnits \in Nat \ {0} /\ t * RespUnits < (t + 1) * RespUnits
  BY UnitsAssumption
<1> QED BY <1>1, QuotientIs

LEMMA AllButOne ==
  ASSUME NEW t \in Nat \ {0}, NEW n \in 1..RespUnits, NEW l \in Nat, l + n = t * RespUnits
  PROVE  l \div RespUnits = t - 1
<1>1. t - 1 \in Nat /\ (t - 1) * RespUnits = t * RespUnits - RespUnits /\ (t - 1) + 1 = t
      /\ RespUnits \in Nat \ {0}
  BY UnitsAssumption
<1>2. (t - 1) * RespUnits <= l /\ l < t * RespUnits
  BY <1>1
<1> QED BY <1>1, <1>2, QuotientIs

(* What connections lose is lost at once.                                  *)
LEMMA Drops ==
  ASSUME Control, fdopen' \subseteq fdopen, UNCHANGED <<taken, wire>>
  PROVE  Promise!Next
<1> DEFINE S == fdopen \ fdopen'
<1>1. S \in SUBSET Conns /\ fdopen' = fdopen \ S
  BY DEF Control, Modes
<1>2. Promise!Drop(S)
  BY <1>1 DEF Promise!Drop, Answered
<1> QED BY <1>1, <1>2 DEF Promise!Next

(* writeResponse keeps the promise: with the last unit it answers one      *)
(* request, before it none.                                                *)
LEMMA WritePromise ==
  ASSUME Control, Data, Data', NEW c \in Conns, NEW units, NEW ka \in BOOLEAN,
         WriteResponse(c, units, ka), c \in fdopen,
         \/ UNCHANGED taken /\ Answered(c) = taken[c] - 1 /\ taken[c] > 0
         \/ taken' = [taken EXCEPT ![c] = @ + 1] /\ Answered(c) = taken[c]
  PROVE  Promise!Next \/ UNCHANGED Promise!vars
<1> DEFINE a == [d \in Conns |-> Answered(d)]
<1>1. \A d \in Conns \ {c} : wire'[d] = wire[d]
  BY DEF WriteResponse, Data, Counts
<1>2. taken'[c] \in Nat \ {0} /\ taken[c] \in Nat
  BY DEF Data, Counts
<1>3. /\ params' = [params EXCEPT ![c] = params'[c]] /\ params'[c] \in {"header", "write"}
      /\ params'[c] = "header" => fdopen' \in {fdopen, fdopen \ {c}}
      /\ params'[c] = "write" => fdopen' = fdopen
  BY DEF WriteResponse, Control, Modes
<1>4. params'[c] = "header" => Answered(c)' = taken'[c]
  <2> SUFFICES ASSUME params'[c] = "header" PROVE Answered(c)' = taken'[c]
    OBVIOUS
  <2>1. Len(wire'[c]) = taken'[c] * RespUnits
    BY DEF Data, Progress
  <2>2. (taken'[c] * RespUnits) \div RespUnits = taken'[c]
    BY <1>2, Whole
  <2> QED BY <2>1, <2>2 DEF Answered
<1>5. params'[c] = "write" => Answered(c)' = taken'[c] - 1
  <2> SUFFICES ASSUME params'[c] = "write" PROVE Answered(c)' = taken'[c] - 1
    OBVIOUS
  <2>1. Len(wire'[c]) + Len(out'[c]) = taken'[c] * RespUnits /\ Len(out'[c]) \in 1..RespUnits
    BY DEF Data, Partly
  <2>2. Len(wire'[c]) \in Nat
    BY LenProperties DEF Data, Counts
  <2>3. Len(wire'[c]) \div RespUnits = taken'[c] - 1
    BY <1>2, <2>1, <2>2, AllButOne
  <2> QED BY <2>3 DEF Answered
<1>6. a' = [a EXCEPT ![c] = Answered(c)']
  BY <1>1 DEF Answered
<1>7. a[c] = Answered(c) /\ [a EXCEPT ![c] = a[c]] = a
  OBVIOUS
<1>0. ASSUME UNCHANGED taken PROVE Answered(c) = taken[c] - 1 /\ taken'[c] = taken[c]
  BY <1>0, <1>2 DEF Data, Counts
<1> HIDE DEF a
<1>8. CASE UNCHANGED taken /\ params'[c] = "write"
  <2>1. a' = a
    BY <1>0, <1>5, <1>6, <1>7, <1>8
  <2> QED BY <1>3, <1>8, <2>1 DEF Promise!vars, a
<1>9. CASE UNCHANGED taken /\ params'[c] = "header"
  <2>1. a' = [a EXCEPT ![c] = @ + 1] /\ a[c] < taken[c]
    <3>1. a[c] = taken[c] - 1 /\ Answered(c)' = taken[c] BY <1>0, <1>4, <1>7, <1>9
    <3>2. Answered(c)' = a[c] + 1 /\ a[c] < taken[c] BY <1>2, <3>1
    <3> QED BY <1>6, <3>2
  <2>2. Promise!Answer(c)
    BY <1>3, <1>9, <2>1 DEF Promise!Answer, a
  <2> QED BY <2>2 DEF Promise!Next
<1>10. CASE taken' # taken /\ params'[c] = "write"
  <2>1. taken' = [taken EXCEPT ![c] = @ + 1] /\ a[c] = taken[c] /\ taken'[c] = taken[c] + 1
    BY <1>7, <1>10 DEF Data, Counts
  <2>2. a' = a
    <3>1. Answered(c)' = a[c] BY <1>2, <1>5, <1>10, <2>1
    <3> QED BY <1>6, <1>7, <3>1
  <2>3. Promise!Take(c)
    BY <1>3, <1>10, <2>1, <2>2 DEF Promise!Take, a
  <2> QED BY <2>3 DEF Promise!Next
<1>11. CASE taken' # taken /\ params'[c] = "header"
  <2>1. taken' = [taken EXCEPT ![c] = @ + 1] /\ a[c] = taken[c] /\ taken'[c] = taken[c] + 1
    BY <1>7, <1>11 DEF Data, Counts
  <2>2. a' = [a EXCEPT ![c] = @ + 1]
    BY <1>2, <1>4, <1>6, <1>7, <1>11, <2>1
  <2>3. Promise!Refuse(c)
    BY <1>3, <1>11, <2>1, <2>2 DEF Promise!Refuse, a
  <2> QED BY <2>3 DEF Promise!Next
<1> QED BY <1>3, <1>8, <1>9, <1>10, <1>11

(* Every step of the server is one of the promise, or none.                *)
LEMMA StepPromise ==
  ASSUME Inv, Inv', [Next]_vars
  PROVE  Promise!Next \/ UNCHANGED Promise!vars
<1> USE DEF Inv
<1>1. ASSUME NEW c \in Conns, Connect(c) \/ Send(c) \/ Receive(c) \/ Leave(c) \/ AcceptedElsewhere(c)
      PROVE  Promise!Next
  BY <1>1, Drops DEF Connect, Send, Receive, Leave, AcceptedElsewhere
<1>2. CASE Work \/ Select \/ SelectReturns \/ EndBatch \/ ReturnEmpty
  BY <1>2, Drops DEF Work, Select, SelectReturns, EndBatch, ReturnEmpty
<1>3. ASSUME NEW c \in Conns, Accept(c) PROVE Promise!Next
  <2>1. c \notin fdopen /\ UNCHANGED <<taken, wire>> /\ fdopen' = fdopen \union {c}
    BY <1>3 DEF Accept, Control, Fresh
  <2>2. Promise!Accept(c)
    BY <2>1 DEF Promise!Accept, Answered
  <2> QED BY <2>2 DEF Promise!Next
<1>4. ASSUME NEW c \in Conns, QuietClose(c) \/ ReadMore(c) PROVE Promise!Next
  BY <1>4, Drops DEF QuietClose, ReadMore
<1>5. ASSUME NEW c \in Conns, CallMethod(c) PROVE Promise!Next
  <2>1. c \in fdopen /\ params[c] \in {"header", "body"}
    BY <1>5, ConnsAssumption DEF CallMethod, Complete, Reads, Serves, Control, Modes, ArmedSound
  <2>2. Answered(c) = taken[c]
    BY <2>1, Whole DEF Data, Counts, Progress, Answered
  <2>3. UNCHANGED <<fdopen, wire>> /\ taken' = [taken EXCEPT ![c] = @ + 1]
    BY <1>5 DEF CallMethod, Complete
  <2>4. Promise!Take(c)
    BY <2>1, <2>2, <2>3 DEF Promise!Take, Answered
  <2> QED BY <2>4 DEF Promise!Next
<1>6. ASSUME NEW c \in Conns, RefuseRequest(c) PROVE Promise!Next \/ UNCHANGED Promise!vars
  <2>1. c \in fdopen /\ params[c] \in {"header", "body"}
    BY <1>6, ConnsAssumption DEF RefuseRequest, Complete, Reads, Serves, Control, Modes, ArmedSound
  <2>2. Answered(c) = taken[c]
    BY <2>1, Whole DEF Data, Counts, Progress, Answered
  <2>3. taken' = [taken EXCEPT ![c] = @ + 1]
    BY <1>6 DEF RefuseRequest, Complete
  <2>4. PICK ka \in BOOLEAN : WriteResponse(c, Response(taken[c] + 1), ka)
    BY <1>6 DEF RefuseRequest
  <2> QED BY <2>1, <2>2, <2>3, <2>4, WritePromise
<1>7. ASSUME NEW c \in Conns, WriteMore(c) PROVE Promise!Next \/ UNCHANGED Promise!vars
  <2>1. c \in fdopen /\ params[c] = "write"
    BY <1>7, ConnsAssumption DEF WriteMore, Serves, Control, Modes, ArmedSound
  <2>2. Len(wire[c]) + Len(out[c]) = taken[c] * RespUnits /\ Len(out[c]) \in 1..RespUnits
    BY <2>1 DEF Data, Partly
  <2>3. Len(wire[c]) \in Nat /\ taken[c] \in Nat
    BY LenProperties DEF Data, Counts
  <2>4. taken[c] > 0
    <3>1. \A m \in Nat, n \in 1..RespUnits : m + n # 0
      BY UnitsAssumption
    <3>2. Len(wire[c]) + Len(out[c]) # 0
      BY <2>2, <2>3, <3>1
    <3>3. taken[c] = 0 => taken[c] * RespUnits = 0
      BY UnitsAssumption
    <3>4. taken[c] # 0
      BY <2>2, <3>2, <3>3, Zenon
    <3> QED BY <2>3, <3>4
  <2>5. taken[c] \in Nat \ {0} BY <2>3, <2>4
  <2>6. Answered(c) = taken[c] - 1
    BY <2>2, <2>3, <2>5, AllButOne DEF Answered
  <2>7. WriteResponse(c, out[c], keep[c]) /\ UNCHANGED taken /\ keep[c] \in BOOLEAN
    BY <1>7 DEF WriteMore, Control, Modes
  <2> QED BY <2>1, <2>4, <2>6, <2>7, WritePromise
<1>8. ASSUME NEW c \in Conns, Respond(c) \/ QueueResponse(c)
      PROVE  Promise!Next \/ UNCHANGED Promise!vars
  <2>1. c \in fdopen /\ (params[c] = "postponed" \/ c = cur)
    BY <1>8 DEF Respond, QueueResponse, MayAnswer, Control, Modes, PostponedOut
  <2>2. taken[c] > 0 /\ Len(wire[c]) = (taken[c] - 1) * RespUnits
    BY <2>1 DEF Data, Progress
  <2>3. taken[c] - 1 \in Nat
    BY <2>2 DEF Data, Counts
  <2>4. Answered(c) = taken[c] - 1
    BY <2>2, <2>3, Whole DEF Answered
  <2>5. WriteResponse(c, Response(taken[c]), keep[c]) /\ UNCHANGED taken /\ keep[c] \in BOOLEAN
    BY <1>8 DEF Respond, QueueResponse, Control, Modes
  <2> QED BY <2>1, <2>2, <2>4, <2>5, WritePromise
<1>9. ASSUME NEW flags \in OnErr, AcceptFails(flags) PROVE Promise!Next
  BY <1>9, Drops DEF AcceptFails, Fail
<1>10. ASSUME NEW flags \in OnErr, NEW c \in Conns,
              ReadFails(c, flags) \/ WriteFails(c, flags) \/ RespondFails(c, flags)
       PROVE  Promise!Next
  BY <1>10, Drops DEF ReadFails, WriteFails, RespondFails, Fail
<1>11. ASSUME NEW c \in Conns,
              Postpone(c) \/ QueueResponseFails(c) \/ QueueResponseCrashes(c) \/ QueueFault(c)
              \/ Forget(c)
       PROVE  Promise!Next
  BY <1>11, Drops DEF Postpone, QueueResponseFails, QueueResponseCrashes, QueueFault, Forget
<1>12. CASE Close
  BY <1>12, Drops DEF Close
<1>13. CASE UNCHANGED vars
  BY <1>13, Drops DEF vars
<1> QED
  BY <1>1, <1>2, <1>3, <1>4, <1>5, <1>6, <1>7, <1>8, <1>9, <1>10, <1>11, <1>12, <1>13
     DEF Next, Clients, Loop, Callbacks, Failures, Methods, Application, Answers

(* The server implements RpcService: on every connection one request at a  *)
(* time is taken and answered, and none once the connection is closed.     *)
THEOREM ServerKeepsPromise == Spec => ImplementsRpcService
<1>1. Init => Promise!Init
  <2>1. ASSUME Init, NEW c \in Conns PROVE Answered(c) = 0
    <3>1. Len(wire[c]) = 0 BY <2>1 DEF Init
    <3>2. 0 * RespUnits = 0 BY UnitsAssumption
    <3> QED BY <3>1, <3>2, Whole DEF Answered
  <2> QED BY <2>1 DEF Init, Promise!Init, Zero
<1>2. Inv /\ Inv' /\ [Next]_vars => [Promise!Next]_(Promise!vars)
  BY StepPromise
<1> QED BY Invariant, <1>1, <1>2, PTL DEF Spec, ImplementsRpcService, Promise!Spec

-----------------------------------------------------------------------------
(* Keep alive, among clients that send one request at a time, all of them  *)
(* well formed.                                                            *)
Polite == ~Pipelining /\ \A c \in Conns : Plan[c] \in Seq({"keep", "close"})

(* A connection whose last request is yet to be answered in full.          *)
Answering(c) == params[c] \in {"postponed", "write"} \/ c = cur

(* Of what its client has sent the server has taken all but one request,   *)
(* whose units are read into buf, and answers go with the keepAlive of the *)
(* request they are for.                                                   *)
Turn(c) ==
  /\ Len(wire[c]) <= taken[c] * RespUnits
  /\ sent[c] <= (taken[c] + 1) * ReqUnits /\ sent[c] <= Length(c) * ReqUnits
  /\ taken[c] <= Length(c)
  /\ params[c] # "null" \/ c = cur => rcvd[c] = taken[c] * ReqUnits + buf[c]
  /\ peer[c] = "none" \/ c \in backlog => rcvd[c] = 0 /\ buf[c] = 0
  /\ Answering(c) => buf[c] = 0 /\ keep[c] = (Plan[c][taken[c]] = "keep")
Turns == \A c \in Conns : Turn(c)

(* Products grow with their factors.                                       *)
LEMMA TimesMonotone ==
  ASSUME NEW r \in Nat, NEW a \in Nat, NEW b \in Nat, a <= b
  PROVE  a * r \in Nat /\ b * r \in Nat /\ a * r <= b * r
OBVIOUS

(* The bounds of a quotient.                                               *)
LEMMA QuotientBounds ==
  ASSUME NEW d \in Nat \ {0}, NEW n \in Nat
  PROVE  n \div d \in Nat /\ n < (n \div d + 1) * d
<1> DEFINE p == n \div d
<1>1. p \in Int /\ n % d \in 0..(d - 1) /\ n = d * p + (n % d)
  OBVIOUS
<1> HIDE DEF p
<1>2. (p + 1) * d = d * p + d /\ d * p \in Int
  BY <1>1
<1>3. n < (p + 1) * d
  BY <1>1, <1>2
<1>4. ASSUME p < 0 PROVE FALSE
  <2>1. p + 1 <= 0 BY <1>1, <1>4
  <2>2. (p + 1) * d <= 0 * d BY <1>1, <2>1
  <2>3. 0 * d = 0 /\ (p + 1) * d \in Int BY <1>1
  <2> QED BY <1>3, <2>2, <2>3
<1> QED BY <1>1, <1>3, <1>4 DEF p

LEMMA InitTurns == Init => Turns
<1> SUFFICES ASSUME Init, NEW c \in Conns PROVE Turn(c)
  BY DEF Turns
<1>1. /\ taken[c] = 0 /\ sent[c] = 0 /\ rcvd[c] = 0 /\ buf[c] = 0 /\ wire[c] = <<>>
      /\ params[c] = "null" /\ c # cur
  BY ConnsAssumption DEF Init, Zero
<1>2. /\ Length(c) \in Nat /\ Len(<<>>) = 0 /\ 0 * RespUnits = 0
      /\ 0 <= (0 + 1) * ReqUnits /\ 0 <= Length(c) * ReqUnits
  BY UnitsAssumption, PlanAssumption, LenProperties DEF Length
<1> QED BY <1>1, <1>2 DEF Turn, Answering

(* A client sends no more before it has its answer.                        *)
LEMMA SendsOne ==
  ASSUME Inv, Turns, Polite, NEW c \in Conns, Send(c)
  PROVE  sent'[c] <= (taken[c] + 1) * ReqUnits /\ sent'[c] <= Length(c) * ReqUnits
<1> DEFINE k == sent[c] \div ReqUnits
           t == taken[c]
<1>1. /\ sent[c] \in Nat /\ t \in Nat /\ got[c] \in Nat /\ Len(wire[c]) \in Nat
      /\ ReqUnits \in Nat \ {0} /\ RespUnits \in Nat \ {0} /\ Length(c) \in Nat
  BY UnitsAssumption, PlanAssumption, LenProperties DEF Inv, Data, Counts, Length
<1>2. sent'[c] = sent[c] + 1 /\ sent[c] < Length(c) * ReqUnits /\ got[c] >= k * RespUnits
  BY <1>1 DEF Send, Polite, Inv, Data, Counts
<1>3. k \in Nat /\ sent[c] < (k + 1) * ReqUnits
  BY <1>1, QuotientBounds
<1> HIDE DEF k, t
<1>4. k * RespUnits <= t * RespUnits
  <2>1. got[c] <= Len(wire[c]) /\ Len(wire[c]) <= t * RespUnits
    BY DEF Inv, Data, Within, Turns, Turn, t
  <2>2. k * RespUnits \in Int /\ t * RespUnits \in Int BY <1>1, <1>3
  <2> QED BY <1>1, <1>2, <2>1, <2>2
<1>5. k <= t
  <2>1. CASE t + 1 <= k
    <3>1. t + 1 \in Nat /\ (t + 1) * RespUnits = t * RespUnits + RespUnits
      BY <1>1
    <3>2. (t + 1) * RespUnits <= k * RespUnits
      BY <1>1, <1>3, <2>1, <3>1, TimesMonotone
    <3>3. t * RespUnits \in Int /\ k * RespUnits \in Int BY <1>1, <1>3
    <3> QED BY <1>1, <1>4, <3>1, <3>2, <3>3
  <2>2. t + 1 <= k \/ k <= t BY <1>1, <1>3
  <2> QED BY <2>1, <2>2
<1>6. (k + 1) * ReqUnits <= (t + 1) * ReqUnits
  <2>1. k + 1 \in Nat /\ t + 1 \in Nat /\ k + 1 <= t + 1 /\ ReqUnits \in Nat BY <1>1, <1>3, <1>5
  <2> QED BY <2>1, TimesMonotone
<1>7. (k + 1) * ReqUnits \in Int /\ (t + 1) * ReqUnits \in Int /\ Length(c) * ReqUnits \in Int
  BY <1>1, <1>3
<1>8. sent'[c] <= (t + 1) * ReqUnits /\ sent'[c] <= Length(c) * ReqUnits
  <2>1. \A x \in Int, y \in Int : x < y => x + 1 <= y
    OBVIOUS
  <2>2. sent[c] < (t + 1) * ReqUnits /\ sent[c] \in Int
    BY <1>1, <1>3, <1>6, <1>7
  <2> QED BY <1>2, <1>7, <2>1, <2>2
<1> QED BY <1>8 DEF t

(* What has arrived belongs to the request after those that were taken, and*)
(* is no more than that.                                                   *)
LEMMA ReadsOne ==
  ASSUME Inv, Turns, Polite, NEW c \in Conns, Reads(c)
  PROVE  /\ Available(c) \in Nat /\ Available(c) <= ReqUnits
         /\ sent[c] = taken[c] * ReqUnits + Available(c)
         /\ Available(c) > 0 => taken[c] < Length(c) /\ Kind(c) \in {"keep", "close"}
         /\ Kind(c) = Plan[c][taken[c] + 1]
<1> DEFINE t == taken[c]
           a == Available(c)
<1>1. /\ t \in Nat /\ sent[c] \in Nat /\ rcvd[c] \in Nat /\ buf[c] \in Nat
      /\ ReqUnits \in Nat \ {0} /\ Length(c) \in Nat /\ rcvd[c] <= sent[c]
  BY UnitsAssumption, PlanAssumption, LenProperties DEF Inv, Data, Counts, Within, Length
<1>2. rcvd[c] = t * ReqUnits + buf[c] /\ sent[c] <= (t + 1) * ReqUnits /\ sent[c] <= Length(c) * ReqUnits
  BY DEF Turns, Turn, Reads
<1>3. t * ReqUnits \in Nat /\ (t + 1) * ReqUnits = t * ReqUnits + ReqUnits
  BY <1>1
<1>4. a \in Nat /\ a <= ReqUnits /\ sent[c] = t * ReqUnits + a
  BY <1>1, <1>2, <1>3 DEF Available
<1>5. Request(c) = t + 1
  <2>1. rcvd[c] - buf[c] = t * ReqUnits BY <1>1, <1>2, <1>3
  <2>2. (t * ReqUnits) \div ReqUnits = t BY <1>1, <1>3, QuotientIs
  <2> QED BY <2>1, <2>2 DEF Request
<1>6. a > 0 => t < Length(c)
  <2> SUFFICES ASSUME a > 0, ~(t < Length(c)) PROVE FALSE OBVIOUS
  <2>1. Length(c) <= t BY <1>1
  <2>2. Length(c) * ReqUnits <= t * ReqUnits BY <1>1, <2>1
  <2>3. Length(c) * ReqUnits \in Int BY <1>1
  <2> HIDE DEF a
  <2> QED BY <1>1, <1>2, <1>3, <1>4, <2>2, <2>3
<1>7. a > 0 => Plan[c][t + 1] \in {"keep", "close"}
  BY <1>1, <1>6 DEF Polite, Length
<1> QED BY <1>4, <1>5, <1>6, <1>7 DEF Kind

(* So nothing that a client sends makes the server give it up.             *)
LEMMA NoBadData ==
  ASSUME Inv, Turns, Polite, NEW c \in Conns, Reads(c), BadData(c)
  PROVE  peer[c] # "up"
<1>1. /\ Available(c) \in Nat /\ Available(c) <= ReqUnits
      /\ Available(c) > 0 => Kind(c) \in {"keep", "close"}
  BY ReadsOne
<1> QED BY <1>1, UnitsAssumption DEF BadData, HeaderSeen, Eof

(* A complete request is the next of its client's plan.                    *)
LEMMA CompleteIs ==
  ASSUME Inv, Turns, Polite, NEW c \in Conns, Complete(c)
  PROVE  /\ taken'[c] = taken[c] + 1 /\ taken'[c] <= Length(c)
         /\ rcvd'[c] = taken'[c] * ReqUnits /\ sent[c] <= (taken'[c] + 1) * ReqUnits
         /\ Len(wire[c]) <= taken'[c] * RespUnits
         /\ Kind(c) = Plan[c][taken'[c]] /\ Kind(c) \in {"keep", "close"}
<1>1. /\ taken[c] \in Nat /\ sent[c] \in Nat /\ Len(wire[c]) \in Nat /\ Length(c) \in Nat
      /\ ReqUnits \in Nat \ {0} /\ RespUnits \in Nat \ {0}
  BY UnitsAssumption, PlanAssumption, LenProperties DEF Inv, Data, Counts, Length
<1>2. taken'[c] = taken[c] + 1 /\ rcvd'[c] = sent[c] /\ Available(c) = ReqUnits /\ Reads(c)
  BY DEF Complete, Inv, Data, Counts
<1>3. /\ sent[c] = taken[c] * ReqUnits + ReqUnits
      /\ taken[c] < Length(c) /\ Kind(c) \in {"keep", "close"} /\ Kind(c) = Plan[c][taken[c] + 1]
  BY <1>1, <1>2, ReadsOne
<1>4. /\ (taken[c] + 1) * ReqUnits = taken[c] * ReqUnits + ReqUnits
      /\ ((taken[c] + 1) + 1) * ReqUnits = (taken[c] + 1) * ReqUnits + ReqUnits
      /\ (taken[c] + 1) * RespUnits = taken[c] * RespUnits + RespUnits
      /\ taken[c] * ReqUnits \in Int /\ taken[c] * RespUnits \in Int
  BY <1>1
<1>5. Len(wire[c]) <= taken[c] * RespUnits
  BY DEF Turns, Turn
<1>6. /\ rcvd'[c] = (taken[c] + 1) * ReqUnits
      /\ sent[c] <= ((taken[c] + 1) + 1) * ReqUnits
      /\ Len(wire[c]) <= (taken[c] + 1) * RespUnits
  <2> DEFINE a == taken[c] * ReqUnits
             a1 == (taken[c] + 1) * ReqUnits
             a2 == ((taken[c] + 1) + 1) * ReqUnits
             b == taken[c] * RespUnits
             b1 == (taken[c] + 1) * RespUnits
  <2>1. a1 = a + ReqUnits /\ a2 = a1 + ReqUnits /\ b1 = b + RespUnits /\ a \in Int /\ b \in Int
    BY <1>4
  <2>2. sent[c] = a + ReqUnits /\ Len(wire[c]) <= b
    BY <1>3, <1>5
  <2> HIDE DEF a, a1, a2, b, b1
  <2>3. sent[c] = a1 /\ sent[c] <= a2 /\ Len(wire[c]) <= b1
    BY <1>1, <2>1, <2>2
  <2> QED BY <1>2, <2>3 DEF a1, a2, b1
<1>7. taken[c] + 1 <= Length(c)
  BY <1>1, <1>3
<1> QED BY <1>2, <1>3, <1>6, <1>7

(* A connection that a step leaves alone, or gives up, keeps its turn.     *)
LEMMA SameTurn ==
  ASSUME Turns, NEW c \in Conns,
         wire'[c] = wire[c], sent'[c] = sent[c], taken'[c] = taken[c],
         rcvd'[c] = rcvd[c], buf'[c] = buf[c], keep'[c] = keep[c],
         params'[c] # "null" \/ c = cur' => params[c] # "null" \/ c = cur,
         Answering(c)' => Answering(c),
         peer'[c] = "none" \/ c \in backlog' => peer[c] = "none" \/ c \in backlog
  PROVE  Turn(c)'
<1>1. Turn(c) BY DEF Turns
<1> QED BY <1>1 DEF Turn, Length

(* It keeps it while its answer is written.                                *)
LEMMA WriteTurn ==
  ASSUME Inv, Inv', Turns, NEW c \in Conns, NEW units, WriteResponse(c, units, keep[c]), Answering(c),
         c \in fdopen, UNCHANGED <<taken, client, rcvd, backlog>>
  PROVE  Turn(c)'
<1>1. Turn(c) /\ peer[c] # "none" /\ c \notin backlog
  BY DEF Turns, Inv, Control, Fresh
<1>2. /\ params'[c] \in {"header", "write"} /\ buf'[c] = 0 /\ keep'[c] = keep[c] /\ taken' = taken
      /\ sent' = sent /\ peer' = peer
  BY DEF WriteResponse, Inv, Control, Modes, Data, Counts, client
<1>3. Len(wire'[c]) <= taken'[c] * RespUnits
  <2>1. CASE params'[c] = "header"
    <3>1. Len(wire'[c]) = taken'[c] * RespUnits /\ Len(wire'[c]) \in Nat
      BY <2>1, LenProperties DEF Inv, Data, Progress, Counts
    <3> QED BY <3>1
  <2>2. CASE params'[c] = "write"
    <3>1. Len(wire'[c]) + Len(out'[c]) = taken'[c] * RespUnits
          /\ Len(out'[c]) \in 1..RespUnits /\ Len(wire'[c]) \in Nat
      BY <2>2, LenProperties DEF Inv, Data, Partly, Counts
    <3> DEFINE b == taken'[c] * RespUnits
    <3> HIDE DEF b
    <3>2. \A l \in Nat, n \in 1..RespUnits : l + n = b => l <= b
      BY UnitsAssumption
    <3>3. Len(wire'[c]) <= b
      BY <3>1, <3>2 DEF b
    <3> QED BY <3>3 DEF b
  <2> QED BY <1>2, <2>1, <2>2
<1> QED BY <1>1, <1>2, <1>3 DEF Turn, Answering, Length

(* Every step keeps the turns.                                             *)
LEMMA StepTurns ==
  ASSUME Inv, Inv', Turns, Polite, [Next]_vars
  PROVE  Turns'
<1> USE ConnsAssumption DEF Inv, request, client, app, loop, waiting
<1>a. Control /\ Modes
  BY DEF Control
<1>1. ASSUME NEW c \in Conns, Connect(c) PROVE Turns'
  BY <1>1, <1>a, SameTurn DEF Connect, Turns, Answering, Modes
<1>2. ASSUME NEW c \in Conns, Send(c) PROVE Turns'
  <2>1. sent'[c] <= (taken[c] + 1) * ReqUnits /\ sent'[c] <= Length(c) * ReqUnits /\ Turn(c)
    BY <1>2, SendsOne DEF Turns
  <2>2. Turn(c)'
    BY <1>2, <2>1 DEF Send, Turn, Answering, Length
  <2>3. \A d \in Conns \ {c} : Turn(d)'
    BY <1>2, SameTurn DEF Send, Answering, Data, Counts
  <2> QED BY <2>2, <2>3 DEF Turns
<1>3. ASSUME NEW c \in Conns, Receive(c) \/ Leave(c) \/ AcceptedElsewhere(c) PROVE Turns'
  BY <1>3, <1>a, SameTurn DEF Receive, Leave, AcceptedElsewhere, Turns, Answering, Modes
<1>4. CASE Work \/ Select \/ SelectReturns \/ EndBatch \/ ReturnEmpty
  BY <1>4, SameTurn DEF Work, Select, SelectReturns, EndBatch, ReturnEmpty, Turns, Answering
<1>5. ASSUME NEW c \in Conns, Accept(c) PROVE Turns'
  <2>1. Turn(c) /\ c \in backlog /\ taken[c] = 0 /\ 0 * ReqUnits = 0
    BY <1>5, UnitsAssumption DEF Accept, Turns, Data, Progress
  <2>2. c # cur /\ params'[c] = "header" /\ peer[c] # "none"
    BY <1>5, <1>a, <2>1 DEF Accept, Control, Fresh, Modes
  <2>3. Turn(c)'
    BY <1>5, <2>1, <2>2 DEF Accept, Turn, Answering, Length
  <2>4. \A d \in Conns \ {c} : Turn(d)'
    BY <1>5, <1>a, SameTurn DEF Accept, Answering, Modes
  <2> QED BY <2>3, <2>4 DEF Turns
<1>6. ASSUME NEW c \in Conns, QuietClose(c) PROVE Turns'
  BY <1>6, <1>a, SameTurn DEF QuietClose, Turns, Answering, Modes
<1>7. ASSUME NEW c \in Conns, ReadMore(c) PROVE Turns'
  <2>1. Reads(c) /\ Turn(c)
    BY <1>7 DEF ReadMore, Turns
  <2>2. Available(c) \in Nat /\ sent[c] = taken[c] * ReqUnits + Available(c)
    BY <2>1, ReadsOne
  <2>3. /\ params'[c] \in {"header", "body"} /\ c # cur /\ peer[c] # "none" /\ c \notin backlog
        /\ rcvd'[c] = sent[c] /\ buf'[c] = Available(c)
    BY <1>7, <1>a, <2>1 DEF ReadMore, Reads, Serves, Control, Modes, CurOut, Fresh, Data, Counts
  <2>4. Turn(c)'
    BY <1>7, <2>1, <2>2, <2>3 DEF ReadMore, Turn, Answering, Length
  <2>5. \A d \in Conns \ {c} : Turn(d)'
    BY <1>7, <1>a, SameTurn DEF ReadMore, Answering, Modes, Data, Counts
  <2> QED BY <2>4, <2>5 DEF Turns
<1>8. ASSUME NEW c \in Conns, CallMethod(c) PROVE Turns'
  <2>1. Complete(c) /\ Reads(c)
    BY <1>8 DEF CallMethod, Complete
  <2>2. /\ taken'[c] <= Length(c)
        /\ rcvd'[c] = taken'[c] * ReqUnits /\ sent[c] <= (taken'[c] + 1) * ReqUnits
        /\ Len(wire[c]) <= taken'[c] * RespUnits
        /\ Kind(c) = Plan[c][taken'[c]] /\ sent[c] <= Length(c) * ReqUnits
    BY <2>1, CompleteIs DEF Turns, Turn
  <2>3. peer[c] # "none" /\ c \notin backlog
    BY <1>a, <2>1 DEF Reads, Serves, Control, Modes, Fresh
  <2>4. /\ buf'[c] = 0 /\ keep'[c] = (Plan[c][taken'[c]] = "keep")
        /\ rcvd'[c] = taken'[c] * ReqUnits + buf'[c]
    <3>1. buf'[c] = 0 /\ keep'[c] = (Plan[c][taken'[c]] = "keep") /\ rcvd'[c] \in Nat
      BY <1>8, <2>2 DEF CallMethod, Control, Modes, Data, Counts
    <3> QED BY <2>2, <3>1
  <2>5. Turn(c)'
    BY <1>8, <2>2, <2>3, <2>4 DEF CallMethod, Turn, Length
  <2>6. ASSUME NEW d \in Conns \ {c} PROVE Turn(d)'
    BY <1>8, <1>a, SameTurn DEF CallMethod, Complete, Answering, Modes, Data, Counts
  <2> QED BY <2>5, <2>6 DEF Turns
<1>9. ASSUME NEW c \in Conns, RefuseRequest(c) PROVE FALSE
  BY <1>9, CompleteIs DEF RefuseRequest
<1>10. ASSUME NEW c \in Conns, WriteMore(c) \/ Respond(c) \/ QueueResponse(c) PROVE Turns'
  <2>1. /\ Answering(c) /\ c \in fdopen
        /\ \E units : WriteResponse(c, units, keep[c])
        /\ UNCHANGED <<taken, client, rcvd, backlog>>
    BY <1>10, <1>a DEF WriteMore, Respond, QueueResponse, MayAnswer, Serves, Answering, Control,
                      Modes, ArmedSound, PostponedOut
  <2>2. Turn(c)'
    BY <2>1, WriteTurn
  <2>3. ASSUME NEW d \in Conns \ {c} PROVE Turn(d)'
    <3>1. /\ wire'[d] = wire[d] /\ buf'[d] = buf[d] /\ keep'[d] = keep[d] /\ params'[d] = params[d]
          /\ cur' \in {cur, NoConn}
      BY <1>10, <1>a, <2>1 DEF WriteResponse, WriteMore, Respond, QueueResponse, Modes, Data, Counts
    <3> QED BY <2>1, <3>1, SameTurn DEF Answering
  <2> QED BY <2>2, <2>3 DEF Turns
<1>11. ASSUME NEW flags \in OnErr, AcceptFails(flags) PROVE Turns'
  BY <1>11, SameTurn DEF AcceptFails, Fail, Turns, Answering
<1>12. ASSUME NEW flags \in OnErr, NEW c \in Conns, ReadFails(c, flags) PROVE Turns'
  <2>1. /\ Turn(c) /\ cur' = NoConn /\ params'[c] = "null" /\ peer[c] # "none" /\ c \notin backlog
    BY <1>12, <1>a DEF ReadFails, Fail, Reads, Serves, Control, Modes, Fresh, Turns
  <2>2. Turn(c)'
    BY <1>12, <2>1 DEF ReadFails, Turn, Answering, Length
  <2>3. \A d \in Conns \ {c} : Turn(d)'
    BY <1>12, <1>a, <2>1, SameTurn DEF ReadFails, Answering, Modes, Data, Counts
  <2> QED BY <2>2, <2>3 DEF Turns
<1>13. ASSUME NEW flags \in OnErr, NEW c \in Conns, WriteFails(c, flags) \/ RespondFails(c, flags)
       PROVE  Turns'
  BY <1>13, <1>a, SameTurn DEF WriteFails, RespondFails, Fail, Turns, Answering, Modes
<1>14. ASSUME NEW c \in Conns, Postpone(c) PROVE Turns'
  <2>1. c = cur /\ cur' = NoConn
    BY <1>14 DEF Postpone
  <2>2. params' = [params EXCEPT ![c] = "postponed"]
    BY <1>14 DEF Postpone
  <2> QED BY <1>14, <1>a, <2>1, <2>2, SameTurn DEF Postpone, Turns, Answering, Modes
<1>15. ASSUME NEW c \in Conns,
              QueueResponseFails(c) \/ QueueResponseCrashes(c) \/ QueueFault(c) \/ Forget(c)
       PROVE  Turns'
  BY <1>15, <1>a, SameTurn DEF QueueResponseFails, QueueResponseCrashes, QueueFault, Forget,
                              Turns, Answering, Modes
<1>16. CASE Close
  BY <1>16, SameTurn DEF Close, Turns, Answering
<1>17. CASE UNCHANGED vars
  BY <1>17, SameTurn DEF vars, Turns, Answering
<1> QED
  BY <1>1, <1>2, <1>3, <1>4, <1>5, <1>6, <1>7, <1>8, <1>9, <1>10, <1>11, <1>12, <1>13, <1>14,
     <1>15, <1>16, <1>17
     DEF Next, Clients, Loop, Callbacks, Failures, Methods, Application, Answers

(* The last request of a client that is there has its whole answer.        *)
Settled(c) == lopen /\ peer[c] = "up" /\ taken[c] > 0 /\ Len(wire[c]) = taken[c] * RespUnits

(* Then the connection waits for the next one, or is closed.               *)
Negotiated(c) ==
  Settled(c) => IF Plan[c][taken[c]] = "keep" THEN c \in armed ELSE c \notin fdopen
AllNegotiated == \A c \in Conns : Negotiated(c)

(* Steps that do not touch the connection keep it so.                      *)
LEMMA SameNegotiated ==
  ASSUME AllNegotiated, NEW c \in Conns,
         wire'[c] = wire[c], taken'[c] = taken[c],
         lopen' => lopen, lopen' /\ peer'[c] = "up" => peer[c] = "up",
         lopen' /\ peer'[c] = "up" /\ c \in armed => c \in armed',
         c \in fdopen' => c \in fdopen
  PROVE  Negotiated(c)'
BY DEF AllNegotiated, Negotiated, Settled

(* writeResponse does what the request asked for when the answer is whole. *)
LEMMA WriteNegotiates ==
  ASSUME Inv, Inv', Turns, NEW c \in Conns, NEW units, WriteResponse(c, units, keep[c]),
         Answering(c), UNCHANGED taken
  PROVE  Negotiated(c)'
<1>1. keep[c] = (Plan[c][taken[c]] = "keep")
  BY DEF Turns, Turn
<1>2. CASE params'[c] = "header"
  <2>1. /\ armed' = IF ~keep[c] THEN armed \ {c} ELSE armed \union {c}
        /\ fdopen' = IF ~keep[c] THEN fdopen \ {c} ELSE fdopen
    BY <1>2 DEF WriteResponse, Inv, Control, Modes
  <2> QED BY <1>1, <2>1 DEF Negotiated
<1>3. CASE params'[c] = "write"
  <2> DEFINE b == taken'[c] * RespUnits
  <2>1. Len(wire'[c]) + Len(out'[c]) = b /\ Len(out'[c]) \in 1..RespUnits /\ Len(wire'[c]) \in Nat
    BY <1>3, LenProperties DEF Inv, Data, Partly, Counts
  <2> HIDE DEF b
  <2>2. \A l \in Nat, n \in 1..RespUnits : l + n = b => l # b
    BY UnitsAssumption
  <2>3. Len(wire'[c]) # b
    BY <2>1, <2>2
  <2> QED BY <2>3 DEF Negotiated, Settled, b
<1> QED BY <1>2, <1>3 DEF WriteResponse, Inv, Control, Modes

(* Every step keeps to what was negotiated.                                *)
LEMMA StepNegotiated ==
  ASSUME Inv, Inv', Turns, Polite, AllNegotiated, [Next]_vars
  PROVE  AllNegotiated'
<1> USE ConnsAssumption DEF Inv, request, client, app, loop, waiting
<1>a. Control /\ Modes
  BY DEF Control
<1>1. ASSUME NEW c \in Conns, Connect(c) PROVE AllNegotiated'
  <2>1. taken'[c] = 0
    BY <1>1 DEF Connect, Data, Progress
  <2>2. Negotiated(c)'
    BY <2>1 DEF Negotiated, Settled
  <2>3. \A d \in Conns \ {c} : Negotiated(d)'
    BY <1>1, <1>a, SameNegotiated DEF Connect, Modes
  <2> QED BY <2>2, <2>3 DEF AllNegotiated
<1>2. ASSUME NEW c \in Conns, Send(c) \/ Receive(c) \/ Leave(c) \/ AcceptedElsewhere(c)
      PROVE  AllNegotiated'
  BY <1>2, <1>a, SameNegotiated DEF Send, Receive, Leave, AcceptedElsewhere, AllNegotiated, Modes
<1>3. CASE Work \/ Select \/ SelectReturns \/ EndBatch \/ ReturnEmpty
  BY <1>3, SameNegotiated DEF Work, Select, SelectReturns, EndBatch, ReturnEmpty, AllNegotiated
<1>4. ASSUME NEW c \in Conns, Accept(c) PROVE AllNegotiated'
  <2>1. taken'[c] = 0
    BY <1>4 DEF Accept, Data, Progress
  <2>2. Negotiated(c)'
    BY <2>1 DEF Negotiated, Settled
  <2>3. \A d \in Conns \ {c} : Negotiated(d)'
    BY <1>4, SameNegotiated DEF Accept
  <2> QED BY <2>2, <2>3 DEF AllNegotiated
<1>5. ASSUME NEW c \in Conns, QuietClose(c) PROVE AllNegotiated'
  BY <1>5, SameNegotiated DEF QuietClose, AllNegotiated
<1>6. ASSUME NEW c \in Conns, ReadMore(c) PROVE AllNegotiated'
  BY <1>6, SameNegotiated DEF ReadMore, AllNegotiated
<1>7. ASSUME NEW c \in Conns, CallMethod(c) PROVE AllNegotiated'
  <2>1. /\ Len(wire'[c]) = taken[c] * RespUnits /\ taken'[c] = taken[c] + 1
        /\ taken[c] \in Nat /\ RespUnits \in Nat \ {0}
    BY <1>7, UnitsAssumption DEF CallMethod, Complete, Reads, Data, Counts, Progress
  <2>2. ~Settled(c)'
    <3>1. \A t \in Nat, r \in Nat \ {0} : t * r # (t + 1) * r
      <4> TAKE t \in Nat, r \in Nat \ {0}
      <4>1. (t + 1) * r = t * r + r /\ t * r \in Int OBVIOUS
      <4> QED BY <4>1
    <3>2. Len(wire'[c]) # taken'[c] * RespUnits
      BY <2>1, <3>1
    <3> QED BY <3>2 DEF Settled
  <2>3. \A d \in Conns \ {c} : Negotiated(d)'
    BY <1>7, SameNegotiated DEF CallMethod, Complete, Data, Counts
  <2> QED BY <2>2, <2>3 DEF AllNegotiated, Negotiated
<1>8. ASSUME NEW c \in Conns, RefuseRequest(c) PROVE FALSE
  BY <1>8, CompleteIs DEF RefuseRequest
<1>9. ASSUME NEW c \in Conns, WriteMore(c) \/ Respond(c) \/ QueueResponse(c) PROVE AllNegotiated'
  <2>1. /\ Answering(c) /\ UNCHANGED <<lopen, peer, taken>>
        /\ \E units : WriteResponse(c, units, keep[c])
    BY <1>9 DEF WriteMore, Respond, QueueResponse, Answering
  <2>2. Negotiated(c)'
    BY <2>1, WriteNegotiates
  <2>3. \A d \in Conns \ {c} : Negotiated(d)'
    BY <2>1, SameNegotiated DEF WriteResponse, Data, Counts
  <2> QED BY <2>2, <2>3 DEF AllNegotiated
<1>10. ASSUME NEW flags \in OnErr, AcceptFails(flags) PROVE AllNegotiated'
  BY <1>10, SameNegotiated DEF AcceptFails, Fail, AllNegotiated
<1>11. ASSUME NEW flags \in OnErr, NEW c \in Conns,
              ReadFails(c, flags) \/ WriteFails(c, flags) \/ RespondFails(c, flags)
       PROVE  AllNegotiated'
  <2>1. peer[c] # "up"
    BY <1>11, NoBadData DEF ReadFails, WriteFails, RespondFails
  <2>2. /\ wire' = wire /\ taken' = taken /\ peer' = peer
        /\ (lopen' => lopen)
        /\ armed' = armed \ {c} /\ fdopen' \subseteq fdopen
    BY <1>11 DEF ReadFails, WriteFails, RespondFails, Fail
  <2>3. ASSUME NEW d \in Conns PROVE Negotiated(d)'
    <3>1. CASE d = c
      BY <2>1, <2>2, <3>1 DEF Negotiated, Settled
    <3>2. CASE d # c
      BY <2>2, <3>2, SameNegotiated
    <3> QED BY <3>1, <3>2
  <2> QED BY <2>3 DEF AllNegotiated
<1>12. ASSUME NEW c \in Conns,
              Postpone(c) \/ QueueResponseFails(c) \/ QueueResponseCrashes(c) \/ QueueFault(c)
              \/ Forget(c)
       PROVE  AllNegotiated'
  BY <1>12, SameNegotiated DEF Postpone, QueueResponseFails, QueueResponseCrashes, QueueFault,
                              Forget, AllNegotiated
<1>13. CASE Close
  BY <1>13 DEF Close, AllNegotiated, Negotiated, Settled
<1>14. CASE UNCHANGED vars
  BY <1>14, SameNegotiated DEF vars, AllNegotiated
<1> QED
  BY <1>1, <1>2, <1>3, <1>4, <1>5, <1>6, <1>7, <1>8, <1>9, <1>10, <1>11, <1>12, <1>13, <1>14
     DEF Next, Clients, Loop, Callbacks, Failures, Methods, Application, Answers

(* With its last request answered, a connection is open if and only if that*)
(* request did not ask to close it, whatever the application does wrong and*)
(* the other clients do, among clients that send whole requests one by one.*)
THEOREM KeepAliveIsNegotiated ==
  ASSUME Polite
  PROVE  Spec => []KeepAliveNegotiated
<1>1. Init => Turns /\ AllNegotiated
  <2>1. Init => AllNegotiated
    BY DEF Init, Zero, AllNegotiated, Negotiated, Settled
  <2> QED BY <2>1, InitTurns
<1>2. Inv /\ Inv' /\ Turns /\ [Next]_vars => Turns'
  BY StepTurns
<1>3. Inv /\ Inv' /\ Turns /\ AllNegotiated /\ [Next]_vars => AllNegotiated'
  BY StepNegotiated
<1>4. Inv /\ Turns /\ AllNegotiated => KeepAliveNegotiated
  <2> SUFFICES ASSUME Inv, Turns, AllNegotiated, NEW c \in Conns, Settled(c)
               PROVE  c \in fdopen <=> Plan[c][taken[c]] # "close"
    BY DEF KeepAliveNegotiated, Settled
  <2>1. Plan[c][taken[c]] \in {"keep", "close"}
    <3>1. taken[c] \in Nat /\ taken[c] > 0 /\ taken[c] <= Length(c)
      BY DEF Inv, Data, Counts, Turns, Turn, Settled
    <3> QED BY <3>1 DEF Polite, Length
  <2>2. c \in armed => c \in fdopen
    BY ConnsAssumption DEF Inv, Control, Modes, ArmedSound
  <2> QED BY <2>1, <2>2 DEF AllNegotiated, Negotiated
<1> QED BY Invariant, <1>1, <1>2, <1>3, <1>4, PTL DEF Spec

-----------------------------------------------------------------------------
(* The connections, as Connection has them: consecutive units in either    *)
(* direction.                                                              *)
Run(a, n) == [i \in 1..n |-> a + i]

LEMMA RunIs ==
  ASSUME NEW a \in Nat, NEW n \in Nat
  PROVE  Run(a, n) \in Seq(Nat) /\ Len(Run(a, n)) = n /\ \A i \in 1..n : Run(a, n)[i] = a + i
<1>1. \A i \in 1..n : a + i \in Nat OBVIOUS
<1> QED BY <1>1 DEF Run

(* The first k units of a run, and the others.                             *)
LEMMA RunSplit ==
  ASSUME NEW a \in Nat, NEW n \in Nat, NEW k \in 0..n
  PROVE  SubSeq(Run(a, n), 1, k) = Run(a, k) /\ SubSeq(Run(a, n), k + 1, n) = Run(a + k, n - k)
<1>1. Run(a, n) \in Seq(Nat) /\ Len(Run(a, n)) = n /\ \A i \in 1..n : Run(a, n)[i] = a + i
  BY RunIs
<1>2. /\ Run(a, k) \in Seq(Nat) /\ Len(Run(a, k)) = k /\ \A i \in 1..k : Run(a, k)[i] = a + i
      /\ Run(a + k, n - k) \in Seq(Nat) /\ Len(Run(a + k, n - k)) = n - k
      /\ \A i \in 1..(n - k) : Run(a + k, n - k)[i] = (a + k) + i
  <2>1. k \in Nat /\ n - k \in Nat /\ a + k \in Nat OBVIOUS
  <2> QED BY <2>1, RunIs
<1>3. SubSeq(Run(a, n), 1, k) = Run(a, k)
  <2> DEFINE d == SubSeq(Run(a, n), 1, k)
  <2>1. d \in Seq(Nat) /\ Len(d) = k /\ \A i \in 1..k : d[i] = Run(a, n)[i]
    <3>1. k \in Int /\ \A i \in 1..k : Run(a, n)[i] \in Nat BY <1>1
    <3> QED BY <3>1, SubSeqProperties
  <2> HIDE DEF d
  <2>2. \A i \in 1..Len(d) : d[i] = Run(a, k)[i]
    BY <1>1, <1>2, <2>1
  <2>3. d = Run(a, k)
    BY <1>2, <2>1, <2>2, SeqEqual
  <2> QED BY <2>3 DEF d
<1>4. SubSeq(Run(a, n), k + 1, n) = Run(a + k, n - k)
  <2> DEFINE d == Rest(Run(a, n), k)
  <2>1. d \in Seq(Nat) /\ Len(d) = n - k /\ \A i \in 1..(n - k) : d[i] = Run(a, n)[k + i]
    BY <1>1, RestIs
  <2>2. SubSeq(Run(a, n), k + 1, n) = d
    BY <1>1 DEF Rest
  <2> HIDE DEF d
  <2>3. \A i \in 1..Len(d) : d[i] = Run(a + k, n - k)[i]
    BY <1>1, <1>2, <2>1
  <2>4. d = Run(a + k, n - k)
    BY <1>2, <2>1, <2>3, SeqEqual
  <2> QED BY <2>2, <2>4
<1> QED BY <1>3, <1>4

(* A run and the one that follows it.                                      *)
LEMMA RunJoin ==
  ASSUME NEW a \in Nat, NEW n \in Nat, NEW m \in Nat
  PROVE  Run(a, n) \o Run(a + n, m) = Run(a, n + m)
<1> DEFINE r == Run(a, n)
           q == Run(a + n, m)
           p == Run(a, n + m)
<1>1. a + n \in Nat /\ n + m \in Nat OBVIOUS
<1>2. /\ r \in Seq(Nat) /\ Len(r) = n /\ \A i \in 1..n : r[i] = a + i
      /\ q \in Seq(Nat) /\ Len(q) = m /\ \A i \in 1..m : q[i] = (a + n) + i
      /\ p \in Seq(Nat) /\ Len(p) = n + m /\ \A i \in 1..(n + m) : p[i] = a + i
  BY <1>1, RunIs
<1> HIDE DEF r, q, p
<1>3. r \o q \in Seq(Nat) /\ Len(r \o q) = n + m
      /\ \A i \in 1..(n + m) : (r \o q)[i] = IF i <= n THEN r[i] ELSE q[i - n]
  BY <1>2, ConcatProperties
<1>4. ASSUME NEW i \in 1..(n + m) PROVE (r \o q)[i] = p[i]
  <2>1. CASE i <= n
    <3>1. i \in 1..n BY <2>1
    <3> QED BY <1>2, <1>3, <2>1, <3>1
  <2>2. CASE ~(i <= n)
    <3>1. i - n \in 1..m /\ (a + n) + (i - n) = a + i BY <2>2
    <3> QED BY <1>2, <1>3, <2>2, <3>1
  <2> QED BY <2>1, <2>2
<1>5. r \o q = p
  BY <1>2, <1>3, <1>4, SeqEqual
<1> QED BY <1>5 DEF r, q, p

(* The units between w and v move from a run that ends at t to one that    *)
(* begins at g.                                                            *)
Moves(g, w, v, t) ==
  /\ Len(Run(w, t - w)) = t - w /\ Run(w, t - w)[1] = w + 1
  /\ v - w \in 1..(t - w) /\ (v - w = t - w <=> v = t)
  /\ Run(g, w - g) \o SubSeq(Run(w, t - w), 1, v - w) = Run(g, v - g)
  /\ SubSeq(Run(w, t - w), (v - w) + 1, t - w) = Run(v, t - v)

LEMMA RunMoves ==
  \A g, w, v, t \in Nat : g <= w /\ w < v /\ v <= t => Moves(g, w, v, t)
<1> TAKE g, w, v, t \in Nat
<1> HAVE g <= w /\ w < v /\ v <= t
<1> DEFINE n == v - w
           m == t - w
           l == w - g
<1>1. /\ n \in Nat /\ m \in Nat /\ l \in Nat /\ n \in 0..m /\ n \in 1..m /\ 1 \in 1..m
      /\ g + l = w /\ w + n = v /\ m - n = t - v /\ l + n = v - g /\ (n = m <=> v = t)
  OBVIOUS
<1> HIDE DEF n, m, l
<1>2. Len(Run(w, m)) = m /\ \A i \in 1..m : Run(w, m)[i] = w + i
  BY <1>1, RunIs
<1>3. SubSeq(Run(w, m), 1, n) = Run(w, n) /\ SubSeq(Run(w, m), n + 1, m) = Run(w + n, m - n)
  BY <1>1, RunSplit
<1>4. Run(g, l) \o Run(g + l, n) = Run(g, l + n)
  <2>1. n \in Nat /\ l \in Nat
    BY <1>1
  <2> QED BY <2>1, RunJoin
<1> QED BY <1>1, <1>2, <1>3, <1>4 DEF Moves, n, m, l

(* What the client has yet to read of what is written.                     *)
LEMMA UnreadIs ==
  ASSUME NEW w \in Seq(Nat), \A k \in 1..Len(w) : w[k] = k, NEW g \in 0..Len(w)
  PROVE  SubSeq(w, g + 1, Len(w)) = Run(g, Len(w) - g)
<1> DEFINE d == Rest(w, g)
<1>1. Len(w) \in Nat BY LenProperties
<1>2. d \in Seq(Nat) /\ Len(d) = Len(w) - g /\ \A i \in 1..(Len(w) - g) : d[i] = w[g + i]
  BY <1>1, RestIs
<1>3. Run(g, Len(w) - g) \in Seq(Nat) /\ Len(Run(g, Len(w) - g)) = Len(w) - g
      /\ \A i \in 1..(Len(w) - g) : Run(g, Len(w) - g)[i] = g + i
  <2>1. g \in Nat /\ Len(w) - g \in Nat BY <1>1
  <2> QED BY <2>1, RunIs
<1> HIDE DEF d
<1>4. \A i \in 1..Len(d) : d[i] = Run(g, Len(w) - g)[i]
  <2> TAKE i \in 1..Len(d)
  <2>1. i \in 1..(Len(w) - g) /\ g + i \in 1..Len(w) BY <1>1, <1>2
  <2> QED BY <1>2, <1>3, <2>1
<1>5. d = Run(g, Len(w) - g)
  BY <1>2, <1>3, <1>4, SeqEqual
<1> QED BY <1>5 DEF d, Rest

(* The variables of a connection's link.                                   *)
LConn(c) == IF OnLine(c) THEN "up" ELSE IF peer[c] = "up" THEN "eof" ELSE "none"
LHeard(c) ==
  IF OnLine(c) THEN [i \in 1..(sent[c] - taken[c] * ReqUnits) |-> taken[c] + 1] ELSE <<>>
LReply(c) ==
  IF OnLine(c) THEN [i \in 1..(taken[c] * RespUnits - Len(wire[c])) |-> Len(wire[c]) + i] ELSE <<>>
LInbox(c) == IF peer[c] = "up" THEN SubSeq(wire[c], got[c] + 1, Len(wire[c])) ELSE <<>>

(* What is on it while it is up.                                           *)
LEMMA LinkIs ==
  ASSUME Inv, Turns, NEW c \in Conns, OnLine(c)
  PROVE  /\ LConn(c) = "up"
         /\ Len(wire[c]) \in Nat /\ got[c] \in 0..Len(wire[c]) /\ taken[c] * RespUnits \in Nat
         /\ Len(wire[c]) <= taken[c] * RespUnits
         /\ LInbox(c) = Run(got[c], Len(wire[c]) - got[c])
         /\ LReply(c) = Run(Len(wire[c]), taken[c] * RespUnits - Len(wire[c]))
<1>1. wire[c] \in Seq(Nat) /\ got[c] \in Nat /\ taken[c] \in Nat /\ RespUnits \in Nat
      /\ got[c] <= Len(wire[c]) /\ \A k \in 1..Len(wire[c]) : wire[c][k] = k
  BY UnitsAssumption DEF Inv, Data, Counts, Within, InOrder
<1>2. Len(wire[c]) \in Nat /\ got[c] \in 0..Len(wire[c]) /\ taken[c] * RespUnits \in Nat
  BY <1>1, LenProperties
<1>3. Len(wire[c]) <= taken[c] * RespUnits
  BY DEF Turns, Turn
<1>4. LInbox(c) = Run(got[c], Len(wire[c]) - got[c])
  BY <1>1, <1>2, UnreadIs DEF LInbox, OnLine
<1> QED BY <1>2, <1>3, <1>4 DEF LConn, LReply, Run

(* A connection that a step leaves alone.                                  *)
LEMMA SameLink ==
  ASSUME NEW c \in Conns,
         peer'[c] = peer[c], (c \in backlog' \union fdopen') = (c \in backlog \union fdopen),
         sent'[c] = sent[c], taken'[c] = taken[c], wire'[c] = wire[c], got'[c] = got[c],
         lopen' = lopen
  PROVE  UNCHANGED Link(c)!vars
BY DEF Link!vars, Link!net, OnLine

(* Requests are never taken before they have arrived, and an open          *)
(* connection that waits for nothing is one whose answer is owed.          *)
Line(c) ==
  /\ peer[c] = "none" => sent[c] = 0
  /\ sent[c] >= taken[c] * ReqUnits
  /\ lopen /\ peer[c] = "up" /\ c \in fdopen => c \in armed \/ c = cur \/ debt[c] # 0
Lines == \A c \in Conns : Line(c)

LEMMA SameLine ==
  ASSUME Lines, NEW c \in Conns, sent'[c] = sent[c], taken'[c] = taken[c],
         peer'[c] = "none" => peer[c] = "none",
         lopen' /\ peer'[c] = "up" /\ c \in fdopen' => c \in armed' \/ c = cur' \/ debt'[c] # 0
  PROVE  Line(c)'
BY DEF Lines, Line

(* Every step keeps the lines, if no response is left to queueFault.       *)
LEMMA StepLines ==
  ASSUME Inv, Inv', Turns, Polite, Lines, "fault" \notin Careless, [Next]_vars
  PROVE  Lines'
<1> USE ConnsAssumption DEF Inv, request, client, app, loop, waiting
<1>a. Control /\ Modes
  BY DEF Control
<1>b. ASSUME NEW c \in Conns, lopen, peer[c] = "up", c \in fdopen
      PROVE  c \in armed \/ c = cur \/ debt[c] # 0
  BY <1>b DEF Lines, Line
<1>1. ASSUME NEW c \in Conns, Connect(c) PROVE Lines'
  <2>1. c \notin fdopen'
    BY <1>1, <1>a DEF Connect, Control, Fresh
  <2>2. peer'[c] # "none" /\ \A d \in Conns : d # c => peer'[d] = peer[d]
    BY <1>1, <1>a DEF Connect, Modes
  <2> QED BY <1>1, <1>b, <2>1, <2>2, SameLine DEF Connect, Lines
<1>2. ASSUME NEW c \in Conns, Send(c) PROVE Lines'
  <2>1. sent[c] >= taken[c] * ReqUnits /\ sent[c] \in Nat /\ sent'[c] = sent[c] + 1
    BY <1>2 DEF Send, Lines, Line, Data, Counts
  <2>2. taken[c] * ReqUnits \in Int
    BY UnitsAssumption DEF Data, Counts
  <2>3. sent'[c] >= taken[c] * ReqUnits
    BY <2>1, <2>2
  <2>4. Line(c)'
    BY <1>2, <1>b, <2>3 DEF Send, Line
  <2>5. \A d \in Conns \ {c} : Line(d)'
    BY <1>2, <1>b, SameLine DEF Send, Data, Counts
  <2> QED BY <2>4, <2>5 DEF Lines
<1>3. ASSUME NEW c \in Conns, Receive(c) \/ Leave(c) \/ AcceptedElsewhere(c) PROVE Lines'
  <2>1. \A d \in Conns : peer'[d] \in {"none", "up"} => peer[d] = peer'[d]
    BY <1>3, <1>a DEF Receive, Leave, AcceptedElsewhere, Modes
  <2> QED BY <1>3, <1>b, <2>1, SameLine DEF Receive, Leave, AcceptedElsewhere, Lines
<1>4. CASE Work \/ Select \/ SelectReturns \/ EndBatch \/ ReturnEmpty
  BY <1>4, <1>b, SameLine DEF Work, Select, SelectReturns, EndBatch, ReturnEmpty, Lines
<1>5. ASSUME NEW c \in Conns, Accept(c) PROVE Lines'
  BY <1>5, <1>b, SameLine DEF Accept, Lines
<1>6. ASSUME NEW c \in Conns, QuietClose(c) \/ ReadMore(c) PROVE Lines'
  BY <1>6, <1>b, SameLine DEF QuietClose, ReadMore, Lines
<1>7. ASSUME NEW c \in Conns, CallMethod(c) PROVE Lines'
  <2>1. Reads(c) /\ Available(c) = ReqUnits /\ taken'[c] = taken[c] + 1 /\ sent' = sent
    BY <1>7 DEF CallMethod, Complete, Data, Counts
  <2>2. sent[c] = taken[c] * ReqUnits + ReqUnits
    BY <2>1, ReadsOne
  <2>3. \A t \in Nat, r \in Nat : (t + 1) * r = t * r + r
    OBVIOUS
  <2>4. sent'[c] = taken'[c] * ReqUnits
    BY <2>1, <2>2, <2>3, UnitsAssumption DEF Data, Counts
  <2>5. Line(c)'
    <3>1. sent'[c] \in Nat BY DEF Data, Counts
    <3>2. peer'[c] # "none"
      BY <1>7, <1>a, <2>1 DEF CallMethod, Reads, Serves, Control, Modes, Fresh
    <3> QED BY <1>7, <2>4, <3>1, <3>2 DEF CallMethod, Line
  <2>6. ASSUME NEW d \in Conns \ {c} PROVE Line(d)'
    <3>1. d # cur BY <1>7, <1>a DEF CallMethod, Complete, Reads, Serves, Modes
    <3> QED BY <1>7, <1>b, <3>1, SameLine DEF CallMethod, Complete, Data, Counts
  <2> QED BY <2>5, <2>6 DEF Lines
<1>8. ASSUME NEW c \in Conns, RefuseRequest(c) PROVE FALSE
  BY <1>8, CompleteIs DEF RefuseRequest
<1>9. ASSUME NEW c \in Conns, WriteMore(c) \/ Respond(c) \/ QueueResponse(c) PROVE Lines'
  <2>1. /\ \E units : WriteResponse(c, units, keep[c])
        /\ UNCHANGED <<taken, sent, peer, lopen>>
    BY <1>9 DEF WriteMore, Respond, QueueResponse
  <2>2. c \in fdopen' => c \in armed'
    BY <2>1, <1>a DEF WriteResponse, Modes
  <2>3. /\ \A d \in Conns \ {c} : d \in armed => d \in armed'
        /\ fdopen' \subseteq fdopen
        /\ \A d \in Conns \ {c} : debt'[d] = debt[d] /\ (d = cur => d = cur')
    BY <1>9, <2>1 DEF WriteResponse, WriteMore, Respond, QueueResponse, Paid, Data, Counts
  <2>4. Line(c)'
    BY <2>1, <2>2, SameLine
  <2>5. \A d \in Conns \ {c} : Line(d)'
    BY <1>b, <2>1, <2>3, SameLine
  <2> QED BY <2>4, <2>5 DEF Lines
<1>10. ASSUME NEW flags \in OnErr, AcceptFails(flags) PROVE Lines'
  <2>1. cur # NoConn => pc = "crashed"
    BY <1>10, <1>a DEF AcceptFails, Serves, Modes
  <2>2. cur = NoConn
    BY <1>10, <1>a, <2>1 DEF AcceptFails, Serves
  <2> QED BY <1>10, <1>b, <2>2, SameLine DEF AcceptFails, Fail, Lines
<1>11. ASSUME NEW flags \in OnErr, NEW c \in Conns,
              ReadFails(c, flags) \/ WriteFails(c, flags) \/ RespondFails(c, flags)
       PROVE  Lines'
  <2>1. peer[c] # "up"
    BY <1>11, NoBadData DEF ReadFails, WriteFails, RespondFails
  <2>2. cur \in {c, NoConn}
    BY <1>11, <1>a DEF ReadFails, Reads, WriteFails, RespondFails, Serves, Modes
  <2>3. /\ sent' = sent /\ taken' = taken /\ peer' = peer /\ debt' = debt
        /\ (lopen' => lopen)
        /\ armed' = armed \ {c} /\ fdopen' \subseteq fdopen
    BY <1>11 DEF ReadFails, WriteFails, RespondFails, Fail
  <2>4. ASSUME NEW d \in Conns PROVE Line(d)'
    <3>1. CASE d = c
      BY <2>1, <2>3, <3>1, SameLine
    <3>2. CASE d # c
      BY <1>b, <2>2, <2>3, <3>2, SameLine
    <3> QED BY <3>1, <3>2
  <2> QED BY <2>4 DEF Lines
<1>12. ASSUME NEW c \in Conns, Postpone(c) PROVE Lines'
  <2>1. taken[c] > 0 /\ c = cur /\ taken[c] \in Nat
    BY <1>12 DEF Postpone, Data, Progress, Counts
  <2>2. debt'[c] # 0
    BY <1>12, <2>1 DEF Postpone, Data, Counts
  <2>3. \A d \in Conns \ {c} : debt'[d] = debt[d] /\ d # cur
    BY <1>12, <2>1 DEF Postpone, Data, Counts
  <2> QED BY <1>12, <1>b, <2>2, <2>3, SameLine DEF Postpone, Lines
<1>13. ASSUME NEW c \in Conns, QueueResponseFails(c) PROVE Lines'
  <2>1. peer[c] # "up" /\ \A d \in Conns \ {c} : debt'[d] = debt[d]
    BY <1>13 DEF QueueResponseFails, Paid, Data, Counts
  <2> QED BY <1>13, <1>b, <2>1, SameLine DEF QueueResponseFails, Lines
<1>14. ASSUME NEW c \in Conns, QueueResponseCrashes(c) \/ Forget(c) PROVE Lines'
  BY <1>14, <1>b, SameLine DEF QueueResponseCrashes, Forget, Lines
<1>15. ASSUME NEW c \in Conns, QueueFault(c) PROVE FALSE
  BY <1>15 DEF QueueFault
<1>16. CASE Close
  BY <1>16, SameLine DEF Close, Lines
<1>17. CASE UNCHANGED vars
  BY <1>17, <1>b, SameLine DEF vars, Lines
<1> QED
  BY <1>1, <1>2, <1>3, <1>4, <1>5, <1>6, <1>7, <1>8, <1>9, <1>10, <1>11, <1>12, <1>13, <1>14,
     <1>15, <1>16, <1>17
     DEF Next, Clients, Loop, Callbacks, Failures, Methods, Application, Answers

-----------------------------------------------------------------------------
(* The steps of a connection that is not up are none of the link's.        *)
LEMMA DownLink ==
  ASSUME NEW c \in Conns, peer[c] # "up", peer'[c] # "up", lopen' = lopen
  PROVE  UNCHANGED Link(c)!vars
BY DEF Link!vars, Link!net, OnLine

(* The client sends when it has read the answer to all it has sent before. *)
LEMMA SendLink ==
  ASSUME Inv, Turns, Lines, Polite, NEW c \in Conns, Send(c)
  PROVE  Link(c)!Next
<1> DEFINE t == taken[c]
           h == sent[c] - t * ReqUnits
<1>1. /\ t \in Nat /\ sent[c] \in Nat /\ got[c] \in Nat /\ ReqUnits \in Nat \ {0}
      /\ RespUnits \in Nat \ {0} /\ Length(c) \in Nat
      /\ t * ReqUnits \in Nat /\ t * RespUnits \in Nat
  BY UnitsAssumption, PlanAssumption, LenProperties DEF Inv, Data, Counts, Length
<1>2. OnLine(c) /\ sent'[c] = sent[c] + 1 /\ got[c] >= (sent[c] \div ReqUnits) * RespUnits
  BY DEF Send, OnLine, Polite, Inv, Data, Counts
<1>3. h \in Nat /\ h < ReqUnits /\ sent[c] < Length(c) * ReqUnits
  <2>1. sent'[c] <= (t + 1) * ReqUnits /\ sent[c] >= t * ReqUnits
    BY SendsOne DEF Lines, Line
  <2>2. (t + 1) * ReqUnits = t * ReqUnits + ReqUnits
    BY <1>1
  <2> QED BY <1>1, <1>2, <2>1, <2>2 DEF Send
<1>4. t + 1 \in 1..Length(c)
  <2> SUFFICES ASSUME Length(c) <= t PROVE FALSE
    BY <1>1
  <2>1. Length(c) * ReqUnits <= t * ReqUnits /\ Length(c) * ReqUnits \in Int
    BY <1>1
  <2> QED BY <1>1, <1>3, <2>1
<1>5. sent[c] \div ReqUnits = t
  <2>1. t * ReqUnits <= sent[c] /\ sent[c] < (t + 1) * ReqUnits
    <3>1. (t + 1) * ReqUnits = t * ReqUnits + ReqUnits BY <1>1
    <3> QED BY <1>1, <1>3, <3>1
  <2> QED BY <1>1, <2>1, QuotientIs
<1>6. /\ Len(wire[c]) = t * RespUnits /\ got[c] = Len(wire[c])
      /\ LInbox(c) = Run(got[c], 0) /\ LReply(c) = Run(Len(wire[c]), 0)
  <2>1. got[c] >= t * RespUnits
    BY <1>2, <1>5
  <2>2. /\ Len(wire[c]) \in Nat /\ got[c] \in 0..Len(wire[c]) /\ Len(wire[c]) <= t * RespUnits
        /\ LInbox(c) = Run(got[c], Len(wire[c]) - got[c])
        /\ LReply(c) = Run(Len(wire[c]), t * RespUnits - Len(wire[c]))
    BY <1>2, LinkIs
  <2>3. Len(wire[c]) = t * RespUnits /\ got[c] = Len(wire[c])
    <3>1. \A w \in Nat, u \in Nat : \A g \in 0..w : g >= u /\ w <= u => w = u /\ g = w
      OBVIOUS
    <3> QED BY <1>1, <2>1, <2>2, <3>1
  <2>4. Len(wire[c]) - got[c] = 0 /\ t * RespUnits - Len(wire[c]) = 0
    BY <1>1, <2>3
  <2> QED BY <2>2, <2>3, <2>4
<1>7. LInbox(c) = <<>> /\ LReply(c) = <<>> /\ LConn(c) = "up"
  BY <1>2, <1>6 DEF Run, LConn
<1>8. /\ LHeard(c) = [i \in 1..h |-> t + 1] /\ LHeard(c)' = [i \in 1..(h + 1) |-> t + 1]
      /\ OnLine(c)'
  <2>1. OnLine(c)' /\ taken' = taken
    BY <1>2 DEF Send, OnLine
  <2>2. sent'[c] - t * ReqUnits = h + 1
    BY <1>1, <1>2
  <2> QED BY <1>2, <2>1, <2>2 DEF LHeard
<1> HIDE DEF t, h
<1>9. LHeard(c)' = LHeard(c) \o [i \in 1..1 |-> t + 1] /\ Len(LHeard(c)) = h
  <2> DEFINE u == [i \in 1..1 |-> t + 1]
             a == [i \in 1..h |-> t + 1]
             b == [i \in 1..(h + 1) |-> t + 1]
  <2>1. t + 1 \in Nat /\ h + 1 \in Nat BY <1>1, <1>3
  <2>2. /\ u \in Seq(Nat) /\ Len(u) = 1 /\ a \in Seq(Nat) /\ Len(a) = h /\ b \in Seq(Nat) /\ Len(b) = h + 1
        /\ \A i \in 1..1 : u[i] = t + 1
        /\ \A i \in 1..h : a[i] = t + 1
        /\ \A i \in 1..(h + 1) : b[i] = t + 1
    BY <1>3, <2>1
  <2> HIDE DEF u, a, b
  <2>3. /\ a \o u \in Seq(Nat) /\ Len(a \o u) = h + 1
        /\ \A i \in 1..(h + 1) : (a \o u)[i] = IF i <= h THEN a[i] ELSE u[i - h]
    <3>1. /\ a \o u \in Seq(Nat) /\ Len(a \o u) = Len(a) + Len(u)
          /\ \A i \in 1..(Len(a) + Len(u)) : (a \o u)[i] = IF i <= Len(a) THEN a[i] ELSE u[i - Len(a)]
      BY <2>2, ConcatProperties
    <3> QED BY <2>2, <3>1
  <2>4. ASSUME NEW i \in 1..(h + 1) PROVE b[i] = (a \o u)[i]
    <3>1. CASE i <= h
      <4>1. i \in 1..h BY <3>1
      <4> QED BY <2>2, <2>3, <3>1, <4>1
    <3>2. CASE ~(i <= h)
      <4>1. i - h \in 1..1 BY <1>3, <3>2
      <4> QED BY <2>2, <2>3, <3>2, <4>1
    <3> QED BY <3>1, <3>2
  <2>5. b = a \o u
    BY <2>2, <2>3, <2>4, SeqEqual
  <2> QED BY <1>8, <2>2, <2>5 DEF u, a, b
<1>10. /\ LConn(c)' = LConn(c) /\ LReply(c)' = LReply(c) /\ LInbox(c)' = LInbox(c)
       /\ UNCHANGED lopen
  BY <1>2, <1>8 DEF Send, LConn, LReply, LInbox, OnLine
<1>11. \A i \in 1..Len(LHeard(c)) : LHeard(c)[i] = t + 1
  BY <1>8, <1>9
<1>12. 1 \in 1..(ReqUnits - Len(LHeard(c)))
  BY <1>1, <1>3, <1>9
<1>13. Link(c)!Say(t + 1)
  BY <1>7, <1>9, <1>10, <1>11, <1>12 DEF Link!Say, LConn, LHeard, LReply, LInbox
<1> QED BY <1>4, <1>13 DEF Link!Next, Link!Use

(* A request is taken when it is whole.                                    *)
LEMMA TakeLink ==
  ASSUME Inv, Inv', Turns, Turns', Polite, NEW c \in Conns, CallMethod(c), peer[c] = "up"
  PROVE  Link(c)!Next
<1> DEFINE t == taken[c]
           w == Len(wire[c])
<1>0. PICK q \in Nat : q = taken[c] + 1
  <2>1. taken[c] + 1 \in Nat
    BY DEF Inv, Data, Counts
  <2> QED BY <2>1
<1>1. /\ t \in Nat /\ q \in Nat \ {0} /\ q - 1 = t /\ w \in Nat
      /\ ReqUnits \in Nat \ {0} /\ RespUnits \in Nat \ {0}
      /\ t * ReqUnits \in Nat /\ t * RespUnits \in Nat
      /\ q * ReqUnits = t * ReqUnits + ReqUnits /\ q * RespUnits = t * RespUnits + RespUnits
  <2>1. /\ t \in Nat /\ w \in Nat /\ ReqUnits \in Nat \ {0} /\ RespUnits \in Nat \ {0}
    BY UnitsAssumption, LenProperties DEF Inv, Data, Counts
  <2>2. \A x \in Nat, r \in Nat : x * r \in Nat /\ (x + 1) * r = x * r + r
    OBVIOUS
  <2>3. q = t + 1
    BY <1>0
  <2> HIDE DEF t, w
  <2> QED BY <2>1, <2>2, <2>3
<1>2. /\ Reads(c) /\ Available(c) = ReqUnits /\ c \in armed
      /\ UNCHANGED <<lopen, backlog, fdopen, peer, got, wire, sent>>
  BY ConnsAssumption DEF CallMethod, Complete, Reads, Serves, Inv, Control, Modes, client
<1>3. OnLine(c) /\ OnLine(c)'
  BY <1>2, ConnsAssumption DEF OnLine, Inv, Control, ArmedSound
<1>4. taken'[c] = q /\ q \in 1..Length(c) /\ sent[c] = t * ReqUnits + ReqUnits
  <2>1. taken'[c] = q /\ q <= Length(c)
    BY <1>0, CompleteIs DEF CallMethod
  <2>2. sent[c] = t * ReqUnits + ReqUnits
    BY <1>2, ReadsOne
  <2> QED BY <1>1, <2>1, <2>2, PlanAssumption, LenProperties DEF Length
<1>5. w = t * RespUnits
  BY <1>2 DEF Inv, Data, Progress, Reads
<1>6. /\ LConn(c) = "up" /\ LConn(c)' = "up" /\ LInbox(c)' = LInbox(c)
      /\ LReply(c) = [i \in 1..(t * RespUnits - w) |-> w + i]
      /\ LReply(c)' = [i \in 1..(q * RespUnits - w) |-> w + i]
      /\ LHeard(c) = [i \in 1..(sent[c] - t * ReqUnits) |-> q]
      /\ LHeard(c)' = [i \in 1..(sent[c] - q * ReqUnits) |-> q + 1]
  BY <1>0, <1>2, <1>3, <1>4 DEF LConn, LInbox, LReply, LHeard
<1>7. /\ t * RespUnits - w = 0 /\ q * RespUnits - w = RespUnits /\ w = (q - 1) * RespUnits
      /\ sent[c] - t * ReqUnits = ReqUnits /\ sent[c] - q * ReqUnits = 0
  <2> DEFINE tr == t * RespUnits
             tq == t * ReqUnits
             qr == q * RespUnits
             qq == q * ReqUnits
             s == sent[c]
  <2>1. tr \in Nat /\ tq \in Nat /\ qq = tq + ReqUnits /\ qr = tr + RespUnits /\ w = tr
        /\ s = tq + ReqUnits /\ ReqUnits \in Nat /\ RespUnits \in Nat
    BY <1>1, <1>4, <1>5
  <2>2. w = (q - 1) * RespUnits
    BY <1>1, <1>5
  <2> HIDE DEF tr, tq, qr, qq, s, t, w
  <2>3. tr - w = 0 /\ qr - w = RespUnits /\ s - tq = ReqUnits /\ s - qq = 0
    BY <2>1
  <2> QED BY <2>2, <2>3 DEF tr, tq, qr, qq, s
<1> HIDE DEF t, w
<1>8. LReply(c) = <<>> /\ LReply(c)' = [i \in 1..RespUnits |-> (q - 1) * RespUnits + i]
  BY <1>6, <1>7
<1>9. LHeard(c) = [i \in 1..ReqUnits |-> q] /\ LHeard(c)' = <<>> /\ Len(LHeard(c)) = ReqUnits
  BY <1>1, <1>6, <1>7
<1>10. LHeard(c)' = SubSeq(LHeard(c), ReqUnits + 1, Len(LHeard(c)))
  BY <1>1, <1>9, SubSeqEmpty
<1>11. Plan[c] \in {[Plan[c] EXCEPT ![q] = kd] : kd \in {"keep", "close"}}
  <2>1. Plan[c][q] \in {"keep", "close"} /\ Plan[c] = [Plan[c] EXCEPT ![q] = Plan[c][q]]
    BY <1>4 DEF Polite, Length
  <2> QED BY <2>1
<1>12. \A i \in 1..ReqUnits : LHeard(c)[i] = q
  BY <1>9
<1>13. Link(c)!Answer(q)
  <2>1. Link(c)!Whole(q)
    <3>1. Len(LHeard(c)) >= ReqUnits
      BY <1>1, <1>9
    <3> QED BY <1>12, <3>1 DEF Link!Whole, LHeard
  <2> QED BY <1>2, <1>6, <1>8, <1>10, <1>11, <2>1
          DEF Link!Answer, Link!Reply, LConn, LHeard, LReply, LInbox
<1>14. \E j \in 1..Length(c) : Link(c)!Answer(j)
  BY <1>4, <1>13, Zenon
<1> QED BY <1>14 DEF Link!Next, Link!Serve

(* What is written goes into the inbox, and the end of the connection      *)
(* behind the last unit if the request asked for it.                       *)
LEMMA WriteLink ==
  ASSUME Inv, Inv', Turns, Turns', Polite, NEW c \in Conns, NEW units \in Seq(Nat),
         WriteResponse(c, units, keep[c]), Answering(c), c \in fdopen, peer[c] = "up",
         Len(wire[c]) < taken[c] * RespUnits, (taken[c] - 1) * RespUnits <= Len(wire[c]), taken[c] > 0,
         UNCHANGED <<lopen, backlog, taken, client>>
  PROVE  Link(c)!Next \/ UNCHANGED Link(c)!vars
<1> DEFINE t == taken[c] * RespUnits
           w == Len(wire[c])
           v == Len(wire'[c])
           g == got[c]
           last == Plan[c][taken[c]]
<1>1. /\ t \in Nat /\ w \in Nat /\ v \in Nat /\ g \in Nat /\ g <= w /\ g <= v /\ w < t
      /\ taken[c] \in Nat \ {0} /\ v <= t
  <2>1. /\ w \in Nat /\ v \in Nat /\ g \in Nat /\ g <= w /\ g <= v
        /\ taken[c] \in Nat \ {0} /\ v <= t
    BY LenProperties DEF Inv, Data, Counts, Within, Turns, Turn, client
  <2>2. \A x \in Nat, r \in Nat : x * r \in Nat
    OBVIOUS
  <2>3. t \in Nat
    BY <2>1, <2>2, UnitsAssumption
  <2> QED BY <2>1, <2>3
<1>2. OnLine(c) /\ c \notin backlog /\ w <= v
  <2>1. OnLine(c) /\ c \notin backlog
    BY DEF OnLine, Inv, Control, Fresh
  <2>2. w <= v
    <3> DEFINE n == IF Len(units) <= Space(c) THEN Len(units) ELSE Space(c)
    <3>1. Space(c) \in Nat
      BY <1>1, UnitsAssumption DEF Space, Inv, Data, Within
    <3>2. n \in 0..Len(units) /\ n \in Nat
      BY <3>1, LenProperties
    <3>3. wire'[c] = Written(wire[c], units, n)
      BY DEF WriteResponse, Written, Inv, Data, Counts
    <3> HIDE DEF n
    <3>4. wire[c] \in Seq(Nat)
      BY DEF Inv, Data, Counts
    <3>5. v = w + n
      BY <3>2, <3>3, <3>4, WrittenIs
    <3> QED BY <1>1, <3>2, <3>5
  <2> QED BY <2>1, <2>2
<1>3. /\ LConn(c) = "up" /\ LInbox(c) = Run(g, w - g) /\ LReply(c) = Run(w, t - w)
  BY <1>2, LinkIs
<1>4. LInbox(c)' = Run(g, v - g)
  <2>1. /\ wire'[c] \in Seq(Nat) /\ (\A k \in 1..Len(wire'[c]) : wire'[c][k] = k) /\ g \in 0..Len(wire'[c])
    BY <1>1 DEF Inv, Data, Counts, InOrder
  <2>2. SubSeq(wire'[c], g + 1, Len(wire'[c])) = Run(g, Len(wire'[c]) - g)
    BY <2>1, UnreadIs
  <2> QED BY <2>2 DEF LInbox, client
<1>5. last \in {"keep", "close"} /\ keep[c] = (last = "keep")
  <2>1. taken[c] \in 1..Len(Plan[c]) /\ keep[c] = (last = "keep")
    BY <1>1 DEF Turns, Turn, Length
  <2> QED BY <2>1 DEF Polite
<1>a. w \div RespUnits = taken[c] - 1
  <2>1. taken[c] - 1 \in Nat /\ (taken[c] - 1) * RespUnits <= w /\ w < ((taken[c] - 1) + 1) * RespUnits
    BY <1>1
  <2> QED BY <1>1, <2>1, UnitsAssumption, QuotientIs
<1>b. ASSUME w < v
      PROVE  /\ Len(LReply(c)) = t - w /\ LReply(c)[1] = w + 1
             /\ v - w \in 1..Len(LReply(c)) /\ (v - w = Len(LReply(c)) <=> v = t)
             /\ LInbox(c)' = LInbox(c) \o SubSeq(LReply(c), 1, v - w)
             /\ SubSeq(LReply(c), (v - w) + 1, Len(LReply(c))) = Run(v, t - v)
  <2> HIDE DEF t, w, v, g
  <2>1. g \in Nat /\ w \in Nat /\ v \in Nat /\ t \in Nat /\ g <= w /\ w < v /\ v <= t
    BY <1>1, <1>b
  <2>2. Moves(g, w, v, t)
    BY <2>1, RunMoves, Zenon
  <2> QED BY <1>3, <1>4, <2>2 DEF Moves
<1>c. w < v => Link(c)!CallOf(LReply(c)[1]) = taken[c]
  <2> SUFFICES ASSUME w < v PROVE Link(c)!CallOf(LReply(c)[1]) = taken[c]
    OBVIOUS
  <2>1. LReply(c)[1] = w + 1
    BY <1>b
  <2> HIDE DEF t, w, v, g
  <2>2. (w + 1) - 1 = w
    BY <1>1
  <2> QED BY <1>1, <1>a, <2>1, <2>2 DEF Link!CallOf
<1>6. CASE v = t /\ last = "close"
  <2>1. params'[c] = "header"
    <3>1. params'[c] = "write" => Len(wire'[c]) + Len(out'[c]) = t /\ Len(out'[c]) \in 1..RespUnits
      BY DEF Inv, Data, Partly
    <3> HIDE DEF t
    <3>2. params'[c] # "write"
      BY <1>1, <1>6, <3>1, UnitsAssumption
    <3> QED BY <3>2 DEF WriteResponse, Inv, Control, Modes
  <2>2. fdopen' = fdopen \ {c}
    BY <1>5, <1>6, <2>1 DEF WriteResponse, Inv, Control, Modes
  <2>3. ~OnLine(c)' /\ peer'[c] = "up"
    BY <1>2, <2>2 DEF OnLine, client
  <2>4. LConn(c)' = "eof" /\ LHeard(c)' = <<>> /\ LReply(c)' = <<>>
    BY <2>3 DEF LConn, LHeard, LReply
  <2> HIDE DEF t, w, v, g
  <2>5. w < v /\ t - v = 0
    BY <1>1, <1>6
  <2>6. Run(v, t - v) = <<>>
    BY <2>5 DEF Run
  <2>7. last \in {"close", "eof", "abrupt"}
    BY <1>6
  <2>8. Link(c)!SendSome
    BY <1>3, <1>6, <1>b, <1>c, <2>4, <2>5, <2>6, <2>7
       DEF Link!SendSome, LConn, LHeard, LReply, LInbox
  <2> QED BY <2>8 DEF Link!Next, Link!Serve
<1>7. CASE ~(v = t /\ last = "close")
  <2>1. c \in fdopen'
    <3>1. CASE v # t
      <4>1. params'[c] = "write"
        BY <3>1 DEF Inv, Data, Progress, WriteResponse, Control, Modes
      <4> QED BY <4>1 DEF WriteResponse, Inv, Control, Modes
    <3>2. CASE last # "close"
      BY <1>5, <3>2 DEF WriteResponse
    <3> QED BY <1>7, <3>1, <3>2
  <2>2. OnLine(c)' /\ LConn(c)' = LConn(c) /\ LHeard(c)' = LHeard(c)
    BY <1>2, <2>1 DEF OnLine, LConn, LHeard, client
  <2>3. LReply(c)' = Run(v, t - v)
    BY <2>2 DEF LReply, Run
  <2>4. CASE v = w
    <3>1. LInbox(c)' = LInbox(c) /\ LReply(c)' = LReply(c)
      BY <1>3, <1>4, <2>3, <2>4
    <3> QED BY <2>2, <3>1 DEF Link!vars, Link!net, LConn, LHeard, LReply, LInbox
  <2>5. CASE v # w
    <3> HIDE DEF t, w, v, g
    <3>1. w < v
      BY <1>1, <1>2, <2>5
    <3>2. v - w = Len(LReply(c)) => last \notin {"close", "eof", "abrupt"}
      BY <1>5, <1>7, <1>b, <3>1
    <3>3. Link(c)!SendSome
      BY <1>3, <1>b, <1>c, <2>2, <2>3, <3>1, <3>2
         DEF Link!SendSome, LConn, LHeard, LReply, LInbox
    <3> QED BY <3>3 DEF Link!Next, Link!Serve
  <2> QED BY <2>4, <2>5
<1> QED BY <1>6, <1>7

(* Every step of the server is one that each of its links may take.        *)
Linked(c) == Link(c)!Next \/ UNCHANGED Link(c)!vars

(* A client comes, reads, leaves, or is let go when the server is closed.  *)
LEMMA ConnectLink ==
  ASSUME Inv, Lines, NEW c \in Conns, Connect(c)
  PROVE  Linked(c)
<1> USE DEF Inv, client
<1>1. /\ peer[c] = "none" /\ peer'[c] = "up" /\ ~OnLine(c) /\ OnLine(c)'
  BY DEF Connect, OnLine, Control, Modes
<1>2. /\ sent[c] = 0 /\ taken[c] = 0 /\ wire[c] = <<>> /\ Len(wire[c]) = 0 /\ got[c] = 0
  <2>1. sent[c] = 0 /\ taken[c] = 0 /\ wire[c] = <<>>
    BY <1>1 DEF Lines, Line, Data, Progress
  <2>2. Len(wire[c]) = 0
    BY <2>1
  <2> QED BY <2>1, <2>2 DEF Data, Within, Counts
<1>3. UNCHANGED <<lopen, sent, taken, wire, got>> /\ lopen
  BY DEF Connect
<1>4. LConn(c) = "none" /\ LConn(c)' = "up" /\ LHeard(c) = <<>> /\ LReply(c) = <<>> /\ LInbox(c) = <<>>
  BY <1>1 DEF LConn, LHeard, LReply, LInbox
<1>5. LHeard(c)' = <<>> /\ LReply(c)' = <<>> /\ LInbox(c)' = <<>>
  <2>1. sent[c] - taken[c] * ReqUnits = 0 /\ taken[c] * RespUnits - Len(wire[c]) = 0
    BY <1>2, UnitsAssumption
  <2>2. LHeard(c)' = <<>> /\ LReply(c)' = <<>>
    BY <1>1, <1>3, <2>1 DEF LHeard, LReply
  <2>3. SubSeq(wire[c], got[c] + 1, Len(wire[c])) = <<>>
    BY <1>2, SubSeqEmpty
  <2> QED BY <1>1, <1>3, <2>2, <2>3 DEF LInbox
<1>6. Link(c)!Dial
  BY <1>3, <1>4, <1>5 DEF Link!Dial, LConn, LHeard, LReply, LInbox
<1> QED BY <1>6 DEF Linked, Link!Next, Link!Use

LEMMA ReceiveLink ==
  ASSUME Inv, NEW c \in Conns, Receive(c)
  PROVE  Linked(c)
<1> USE DEF Inv, client
<1>1. CASE peer[c] # "up"
  <2>1. UNCHANGED Link(c)!vars
    BY <1>1, DownLink DEF Receive
  <2> QED BY <2>1 DEF Linked
<1>2. CASE peer[c] = "up"
  <2>1. UNCHANGED <<lopen, peer, backlog, fdopen, sent, taken, wire>> /\ got'[c] = Len(wire[c])
    BY DEF Receive, Data, Counts
  <2>2. LInbox(c)' = <<>>
    <3>1. Len(wire[c]) \in Nat
      BY LenProperties DEF Data, Counts
    <3>2. Len(wire[c]) + 1 \in Int /\ Len(wire[c]) \in Int /\ Len(wire[c]) < Len(wire[c]) + 1
      BY <3>1
    <3>3. SubSeq(wire[c], Len(wire[c]) + 1, Len(wire[c])) = <<>>
      BY <3>2, SubSeqEmpty
    <3> QED BY <1>2, <2>1, <3>3 DEF LInbox
  <2>3. LConn(c)' = LConn(c) /\ LHeard(c)' = LHeard(c) /\ LReply(c)' = LReply(c)
    BY <2>1 DEF LConn, LHeard, LReply, OnLine
  <2>4. Link(c)!Listen
    BY <2>1, <2>2, <2>3 DEF Link!Listen, LConn, LHeard, LReply, LInbox
  <2> QED BY <2>4 DEF Linked, Link!Next, Link!Use
<1> QED BY <1>1, <1>2

LEMMA LeaveLink ==
  ASSUME Inv, NEW c \in Conns, Leave(c)
  PROVE  Linked(c)
<1> USE DEF Inv, client
<1>1. peer'[c] \in {"eof", "gone"} /\ lopen' = lopen
  BY DEF Leave, Control, Modes
<1>2. LConn(c)' = "none" /\ LHeard(c)' = <<>> /\ LReply(c)' = <<>> /\ LInbox(c)' = <<>>
  BY <1>1 DEF LConn, LHeard, LReply, LInbox, OnLine
<1>3. Link(c)!Hangup
  BY <1>1, <1>2 DEF Link!Hangup, LConn, LHeard, LReply, LInbox
<1> QED BY <1>3 DEF Linked, Link!Next, Link!Use

LEMMA DropLink ==
  ASSUME NEW c \in Conns, UNCHANGED <<peer, sent, taken, wire, got>>, ~lopen',
         OnLine(c)' => OnLine(c), lopen \in BOOLEAN, lopen' \in BOOLEAN
  PROVE  Linked(c)
<1>1. CASE OnLine(c) /\ ~OnLine(c)'
  <2>1. /\ LConn(c) = "up" /\ LConn(c)' = "eof" /\ LHeard(c)' = <<>> /\ LReply(c)' = <<>>
        /\ LInbox(c)' = LInbox(c)
    BY <1>1 DEF LConn, LHeard, LReply, LInbox, OnLine
  <2>2. Link(c)!Drop
    BY <2>1 DEF Link!Drop, LConn, LHeard, LReply, LInbox
  <2> QED BY <2>2 DEF Linked, Link!Next
<1>2. CASE OnLine(c) <=> OnLine(c)'
  <2>1. /\ LConn(c)' = LConn(c) /\ LHeard(c)' = LHeard(c) /\ LReply(c)' = LReply(c)
        /\ LInbox(c)' = LInbox(c)
    BY <1>2 DEF LConn, LHeard, LReply, LInbox
  <2>2. CASE lopen
    <3>1. Link(c)!Drop
      BY <2>1, <2>2 DEF Link!Drop, Link!net, LConn, LHeard, LReply, LInbox
    <3> QED BY <3>1 DEF Linked, Link!Next
  <2>3. CASE ~lopen
    <3>1. UNCHANGED Link(c)!vars
      BY <2>1, <2>3 DEF Link!vars, Link!net, LConn, LHeard, LReply, LInbox
    <3> QED BY <3>1 DEF Linked
  <2> QED BY <2>2, <2>3
<1> QED BY <1>1, <1>2 DEF OnLine

(* An answer that goes out: from writeResponse's callback, the end of a    *)
(* method, or queueResponse.                                               *)
LEMMA AnswerLink ==
  ASSUME Inv, Inv', Turns, Turns', Polite, NEW c \in Conns,
         WriteMore(c) \/ Respond(c) \/ QueueResponse(c)
  PROVE  Linked(c)
<1> USE DEF Inv, client
<1>0. /\ \E units : WriteResponse(c, units, keep[c])
      /\ UNCHANGED <<lopen, backlog, taken, client>> /\ Answering(c) /\ c \in fdopen
  <2>1. Control /\ Modes
    BY DEF Control
  <2> QED BY <2>1, ConnsAssumption
          DEF WriteMore, Respond, QueueResponse, MayAnswer, Serves, Answering, Control, Modes,
              ArmedSound, PostponedOut
<1>1. CASE peer[c] # "up"
  <2>1. UNCHANGED Link(c)!vars
    BY <1>0, <1>1, DownLink
  <2> QED BY <2>1 DEF Linked
<1>2. CASE peer[c] = "up"
  <2>1. CASE WriteMore(c)
    <3>1. params[c] = "write" /\ WriteResponse(c, out[c], keep[c]) /\ out[c] \in Seq(Nat)
      BY <2>1 DEF WriteMore, Data, Counts
    <3>2. /\ Len(wire[c]) + Len(out[c]) = taken[c] * RespUnits /\ Len(out[c]) \in 1..RespUnits
          /\ Len(wire[c]) \in Nat /\ taken[c] \in Nat
      BY <3>1, LenProperties DEF Data, Partly, Counts
    <3>3. /\ Len(wire[c]) < taken[c] * RespUnits /\ (taken[c] - 1) * RespUnits <= Len(wire[c])
          /\ taken[c] > 0
      <4>1. \A x \in Nat, r \in Nat : /\ x * r \in Nat /\ (x - 1) * r = x * r - r
                                      /\ x = 0 => x * r = 0
        OBVIOUS
      <4> DEFINE t == taken[c] * RespUnits
                 p == (taken[c] - 1) * RespUnits
      <4>2. t \in Nat /\ p = t - RespUnits /\ (taken[c] = 0 => t = 0) /\ RespUnits \in Nat
        BY <3>2, <4>1, UnitsAssumption
      <4>3. /\ Len(wire[c]) + Len(out[c]) = t /\ Len(out[c]) \in 1..RespUnits
            /\ Len(wire[c]) \in Nat /\ taken[c] \in Nat
        BY <3>2
      <4> HIDE DEF t, p
      <4>4. Len(wire[c]) < t /\ p <= Len(wire[c]) /\ taken[c] # 0
        <5>1. \A w \in Nat, u \in Nat, r \in Nat : \A n \in 1..r :
                w + n = u => w < u /\ u - r <= w /\ u # 0
          OBVIOUS
        <5>2. Len(wire[c]) < t /\ t - RespUnits <= Len(wire[c]) /\ t # 0
          BY <4>2, <4>3, <5>1
        <5> QED BY <4>2, <5>2
      <4> QED BY <3>2, <4>4 DEF t, p
    <3>4. Link(c)!Next \/ UNCHANGED Link(c)!vars
      BY <1>0, <1>2, <3>1, <3>3, WriteLink
    <3> QED BY <3>4 DEF Linked
  <2>2. CASE Respond(c) \/ QueueResponse(c)
    <3>1. WriteResponse(c, Response(taken[c]), keep[c]) /\ (params[c] = "postponed" \/ c = cur)
      BY <2>2 DEF Respond, QueueResponse
    <3>2. taken[c] > 0 /\ taken[c] \in Nat /\ Len(wire[c]) = (taken[c] - 1) * RespUnits
      BY <3>1 DEF Data, Progress, Counts
    <3>3. Response(taken[c]) \in Seq(Nat)
      BY <3>2, ResponseIs
    <3>4. Len(wire[c]) < taken[c] * RespUnits /\ (taken[c] - 1) * RespUnits <= Len(wire[c])
      <4>1. \A x \in Nat, r \in Nat \ {0} : (x - 1) * r \in Int /\ (x - 1) * r < x * r
        <5> TAKE x \in Nat, r \in Nat \ {0}
        <5>1. (x - 1) * r = x * r - r /\ x * r \in Nat /\ (x - 1) * r \in Int
          OBVIOUS
        <5> QED BY <5>1
      <4> QED BY <3>2, <4>1, UnitsAssumption
    <3>5. Link(c)!Next \/ UNCHANGED Link(c)!vars
      BY <1>0, <1>2, <3>1, <3>2, <3>3, <3>4, WriteLink
    <3> QED BY <3>5 DEF Linked
  <2> QED BY <2>1, <2>2
<1> QED BY <1>1, <1>2

(* Whatever happens to one connection leaves the links of the others alone.*)
LEMMA StepLinks ==
  ASSUME Inv, Inv', Turns, Turns', Lines, Polite, ~Preforked, [Next]_vars
  PROVE  \A c \in Conns : Linked(c)
<1> USE ConnsAssumption DEF Inv, request, client, app, loop, waiting
<1>a. Control /\ Modes /\ lopen \in BOOLEAN /\ lopen' \in BOOLEAN
  BY DEF Control, Modes
<1>1. ASSUME NEW c \in Conns, Connect(c) \/ Send(c) \/ Receive(c) \/ Leave(c), NEW d \in Conns
      PROVE  Linked(d)
  <2>1. CASE d = c
    <3>1. Send(c) => Link(c)!Next
      BY SendLink
    <3> QED BY <1>1, <2>1, <3>1, ConnectLink, ReceiveLink, LeaveLink DEF Linked
  <2>2. CASE d # c
    <3>1. /\ UNCHANGED <<lopen, taken, wire, fdopen>> /\ backlog' \in {backlog, backlog \union {c}}
          /\ peer'[d] = peer[d] /\ sent'[d] = sent[d] /\ got'[d] = got[d]
      BY <1>1, <1>a, <2>2 DEF Connect, Send, Receive, Leave, Modes, Data, Counts
    <3>2. (d \in backlog' \union fdopen') = (d \in backlog \union fdopen)
      BY <2>2, <3>1
    <3> QED BY <3>1, <3>2, SameLink DEF Linked
  <2> QED BY <2>1, <2>2
<1>2. ASSUME NEW c \in Conns, AcceptedElsewhere(c) PROVE FALSE
  BY <1>2 DEF AcceptedElsewhere
<1>3. ASSUME Work \/ Select \/ SelectReturns \/ EndBatch \/ ReturnEmpty, NEW d \in Conns
      PROVE  Linked(d)
  BY <1>3, SameLink DEF Work, Select, SelectReturns, EndBatch, ReturnEmpty, Linked
<1>4. ASSUME NEW c \in Conns, Accept(c), NEW d \in Conns PROVE Linked(d)
  <2>1. backlog' \union fdopen' = backlog \union fdopen
    BY <1>4 DEF Accept
  <2> QED BY <1>4, <2>1, SameLink DEF Accept, Linked
<1>5. ASSUME NEW c \in Conns, QuietClose(c), NEW d \in Conns PROVE Linked(d)
  <2>1. peer[c] # "up" /\ fdopen' = fdopen \ {c} /\ UNCHANGED <<lopen, backlog, client, taken, wire>>
    BY <1>5 DEF QuietClose
  <2> QED BY <2>1, SameLink, DownLink DEF Linked
<1>6. ASSUME NEW c \in Conns, ReadMore(c), NEW d \in Conns PROVE Linked(d)
  BY <1>6, SameLink DEF ReadMore, Linked
<1>7. ASSUME NEW c \in Conns, CallMethod(c), NEW d \in Conns PROVE Linked(d)
  <2>1. CASE d = c /\ peer[c] = "up"
    BY <1>7, <2>1, TakeLink DEF Linked
  <2>2. CASE d = c /\ peer[c] # "up"
    BY <1>7, <2>2, DownLink DEF CallMethod, Linked
  <2>3. CASE d # c
    <3>1. taken'[d] = taken[d]
      BY <1>7, <2>3 DEF CallMethod, Complete, Data, Counts
    <3> QED BY <1>7, <3>1, SameLink DEF CallMethod, Linked
  <2> QED BY <2>1, <2>2, <2>3
<1>8. ASSUME NEW c \in Conns, RefuseRequest(c) PROVE FALSE
  BY <1>8, CompleteIs DEF RefuseRequest
<1>9. ASSUME NEW c \in Conns, WriteMore(c) \/ Respond(c) \/ QueueResponse(c), NEW d \in Conns
      PROVE  Linked(d)
  <2>1. CASE d = c
    BY <1>9, <2>1, AnswerLink
  <2>2. CASE d # c
    <3>1. /\ \E units : WriteResponse(c, units, keep[c])
          /\ UNCHANGED <<lopen, backlog, taken, client>>
      BY <1>9 DEF WriteMore, Respond, QueueResponse
    <3>2. wire'[d] = wire[d] /\ (d \in fdopen' <=> d \in fdopen)
      BY <2>2, <3>1 DEF WriteResponse, Data, Counts
    <3> QED BY <3>1, <3>2, SameLink DEF Linked
  <2> QED BY <2>1, <2>2
<1>10. ASSUME NEW flags \in OnErr, AcceptFails(flags), NEW d \in Conns PROVE Linked(d)
  <2>1. UNCHANGED <<peer, sent, taken, wire, got, fdopen>>
    BY <1>10, <1>a DEF AcceptFails, Fail, Modes
  <2>2. backlog' \subseteq backlog
    BY <1>10 DEF AcceptFails
  <2>3. CASE ~lopen'
    <3>1. OnLine(d)' => OnLine(d)
      BY <2>1, <2>2 DEF OnLine
    <3> QED BY <1>a, <2>1, <2>3, <3>1, DropLink
  <2>4. CASE lopen'
    <3>1. lopen' = lopen
      BY <1>10, <1>a, <2>4 DEF AcceptFails, Fail
    <3>2. peer[d] = "up" => (d \in backlog' <=> d \in backlog)
      BY <1>10, <2>4 DEF AcceptFails
    <3> QED BY <2>1, <3>1, <3>2, SameLink, DownLink DEF Linked
  <2> QED BY <2>3, <2>4
<1>11. ASSUME NEW flags \in OnErr, NEW c \in Conns,
              ReadFails(c, flags) \/ WriteFails(c, flags) \/ RespondFails(c, flags),
              NEW d \in Conns
       PROVE  Linked(d)
  <2>1. peer[c] # "up"
    BY <1>11, NoBadData DEF ReadFails, WriteFails, RespondFails
  <2>2. /\ UNCHANGED <<backlog, client, taken, wire>> /\ fdopen' \in {fdopen, fdopen \ {c}}
        /\ lopen' = lopen
    BY <1>11, <1>a DEF ReadFails, WriteFails, RespondFails, Fail
  <2> QED BY <2>1, <2>2, SameLink, DownLink DEF Linked
<1>12. ASSUME NEW c \in Conns,
              Postpone(c) \/ QueueResponseFails(c) \/ QueueResponseCrashes(c) \/ QueueFault(c),
              NEW d \in Conns
       PROVE  Linked(d)
  BY <1>12, SameLink DEF Postpone, QueueResponseFails, QueueResponseCrashes, QueueFault, Linked
<1>13. ASSUME NEW c \in Conns, Forget(c), NEW d \in Conns PROVE Linked(d)
  <2>1. /\ UNCHANGED <<lopen, backlog, client, taken, wire>> /\ fdopen' \in {fdopen, fdopen \ {c}}
        /\ debt[c] = 0 /\ (c \in armed \/ c = cur => fdopen' = fdopen)
    BY <1>13 DEF Forget
  <2>2. CASE ~lopen
    BY <1>a, <2>1, <2>2, DropLink DEF OnLine
  <2>3. CASE peer[c] = "up" /\ c \in fdopen /\ lopen
    <3>1. c \in armed \/ c = cur
      BY <2>1, <2>3 DEF Lines, Line
    <3> QED BY <2>1, <3>1, SameLink DEF Linked
  <2>4. CASE peer[c] # "up"
    BY <2>1, <2>4, SameLink, DownLink DEF Linked
  <2>5. CASE c \notin fdopen
    BY <2>1, <2>5, SameLink DEF Linked
  <2> QED BY <2>2, <2>3, <2>4, <2>5
<1>14. ASSUME Close, NEW d \in Conns PROVE Linked(d)
  <2>1. UNCHANGED <<peer, sent, taken, wire, got>> /\ ~lopen' /\ backlog' = {} /\ fdopen' \subseteq fdopen
    BY <1>14 DEF Close
  <2>2. OnLine(d)' => OnLine(d)
    BY <2>1 DEF OnLine
  <2> QED BY <1>a, <2>1, <2>2, DropLink
<1>15. ASSUME UNCHANGED vars, NEW d \in Conns PROVE Linked(d)
  BY <1>15, SameLink DEF vars, Linked
<1> QED
  BY <1>1, <1>2, <1>3, <1>4, <1>5, <1>6, <1>7, <1>8, <1>9, <1>10, <1>11, <1>12, <1>13, <1>14,
     <1>15
     DEF Next, Clients, Loop, Callbacks, Failures, Methods, Application, Answers

(* The server keeps to its part of Connection on every connection, which is*)
(* all that the client's model assumes of it: what is proved of the one    *)
(* holds when it talks to the other.                                       *)
THEOREM ServerKeepsToConnections ==
  ASSUME Polite, ~Preforked, "fault" \notin Careless
  PROVE  Spec => ServesConnections
<1>1. Init => Turns /\ Lines /\ \A c \in Conns : Link(c)!Init
  <2> SUFFICES ASSUME Init PROVE Turns /\ Lines /\ \A c \in Conns : Link(c)!Init
    OBVIOUS
  <2>1. Turns
    BY InitTurns
  <2>2. ASSUME NEW c \in Conns PROVE Line(c) /\ Link(c)!Init
    <3>1. /\ sent[c] = 0 /\ taken[c] = 0 /\ peer[c] = "none" /\ lopen = TRUE /\ 0 * ReqUnits = 0
      BY <2>2, UnitsAssumption DEF Init, Zero
    <3>2. Line(c)
      BY <3>1 DEF Line
    <3>3. Plan[c] \in [1..Length(c) -> {"keep", "close"}]
      BY DEF Polite, Length
    <3> QED BY <3>1, <3>2, <3>3 DEF Link!Init, OnLine
  <2> QED BY <2>1, <2>2 DEF Lines
<1>2. Inv /\ Inv' /\ Turns /\ [Next]_vars => Turns'
  BY StepTurns
<1>3. Inv /\ Inv' /\ Turns /\ Lines /\ [Next]_vars => Lines'
  BY StepLines
<1>4. Inv /\ Inv' /\ Turns /\ Turns' /\ Lines /\ [Next]_vars
        => [\A c \in Conns : Link(c)!Next \/ UNCHANGED Link(c)!vars]_vars
  BY StepLinks DEF Linked
<1> QED BY Invariant, <1>1, <1>2, <1>3, <1>4, PTL DEF Spec, ServesConnections
=============================================================================
