----------------------------- MODULE RpcService -----------------------------
(***************************************************************************)
(* What the server of py-xmlrpc promises to the clients on its             *)
(* connections: one request at a time.  A request is taken only when the   *)
(* one before it has been answered, each is answered at most once, and     *)
(* nothing is taken or answered on a connection that has been closed.      *)
(***************************************************************************)
EXTENDS Naturals

CONSTANT Conns

VARIABLES
  alive,     (* the connections the server holds open                      *)
  asked,     (* asked[c]: how many requests it has taken from c            *)
  answered   (* answered[c]: how many of them it has answered in full      *)

vars == <<alive, asked, answered>>

Init ==
  /\ alive = {}
  /\ asked = [c \in Conns |-> 0]
  /\ answered = [c \in Conns |-> 0]

Accept(c) ==
  /\ c \notin alive
  /\ alive' = alive \union {c}
  /\ UNCHANGED <<asked, answered>>

Take(c) ==
  /\ c \in alive
  /\ asked[c] = answered[c]
  /\ asked' = [asked EXCEPT ![c] = @ + 1]
  /\ UNCHANGED <<alive, answered>>

(* The last of an answer is written; the connection may be closed with it. *)
Answer(c) ==
  /\ c \in alive
  /\ answered[c] < asked[c]
  /\ answered' = [answered EXCEPT ![c] = @ + 1]
  /\ alive' \in {alive, alive \ {c}}
  /\ UNCHANGED asked

(* A request that cannot be dispatched is answered with a fault at once.   *)
Refuse(c) ==
  /\ c \in alive
  /\ asked[c] = answered[c]
  /\ asked' = [asked EXCEPT ![c] = @ + 1]
  /\ answered' = [answered EXCEPT ![c] = @ + 1]
  /\ alive' \in {alive, alive \ {c}}

Drop(S) ==
  /\ alive' = alive \ S
  /\ UNCHANGED <<asked, answered>>

Next ==
  \/ \E c \in Conns : Accept(c) \/ Take(c) \/ Answer(c) \/ Refuse(c)
  \/ \E S \in SUBSET Conns : Drop(S)

Spec == Init /\ [][Next]_vars
=============================================================================
