----------------------------- MODULE Connection -----------------------------
(***************************************************************************)
(* A connection between a client and a server of py-xmlrpc: what each may  *)
(* rely on of the other.                                                   *)
(*                                                                         *)
(* Client runs against the server's steps of this module and keeps to the  *)
(* client's; Server runs against clients that keep to the client's steps   *)
(* and keeps to the server's.  So what is checked of the one holds when it *)
(* talks to the other.                                                     *)
(***************************************************************************)
EXTENDS Integers, Sequences

CONSTANTS
  Calls,       (* the calls of the client                                  *)
  ReqUnits,    (* the length of a request                                  *)
  RespUnits,   (* the length of a response                                 *)
  Kinds,       (* the kinds of responses                                   *)
  Failing      (* whether the server and the network may fail              *)

VARIABLES
  conn,      (* the connection: none, syn, up, eof (the server has closed  *)
             (* its end) or reset                                          *)
  heard,     (* what the server has yet to serve: a call for each unit     *)
  reply,     (* the units of a response that the server has yet to send    *)
  inbox,     (* those that the client has yet to read                      *)
  kind,      (* the kind of each response, if it is known                  *)
  broken     (* the server or the network has failed                       *)

net == <<conn, heard, reply, inbox>>
vars == <<net, kind, broken>>

Reply(k) == [i \in 1..RespUnits |-> (k - 1) * RespUnits + i]
CallOf(u) == (u - 1) \div RespUnits + 1

Init ==
  /\ conn = "none" /\ heard = <<>> /\ reply = <<>> /\ inbox = <<>>
  /\ kind \in [Calls -> Kinds \cup {"none"}]
  /\ broken = FALSE

-----------------------------------------------------------------------------
(* The server and the network.                                             *)

Establish ==
  /\ conn = "syn"
  /\ conn' = "up"
  /\ UNCHANGED <<heard, reply, inbox, kind, broken>>

(* A request that is whole is answered; one that is not, because the client*)
(* has begun another one in its middle, ends the connection.               *)
Whole(k) == Len(heard) >= ReqUnits /\ \A i \in 1..ReqUnits : heard[i] = k
Answer(k) ==
  /\ conn = "up" /\ reply = <<>>
  /\ Whole(k)
  /\ kind' \in {[kind EXCEPT ![k] = kd] : kd \in Kinds}
  /\ reply' = Reply(k)
  /\ heard' = SubSeq(heard, ReqUnits + 1, Len(heard))
  /\ UNCHANGED <<conn, inbox, broken>>
RefuseTorn ==
  /\ conn = "up" /\ reply = <<>>
  /\ Len(heard) >= ReqUnits
  /\ ~\E k \in Calls : Whole(k)
  /\ conn' = "eof" /\ heard' = <<>>
  /\ UNCHANGED <<reply, inbox, kind, broken>>

(* A part of the response is sent.  The last unit is followed by the end   *)
(* of the connection, or is not.                                           *)
SendSome ==
  /\ conn = "up"
  /\ \E n \in 1..Len(reply) :
       /\ inbox' = inbox \o SubSeq(reply, 1, n)
       /\ reply' = SubSeq(reply, n + 1, Len(reply))
       /\ IF n = Len(reply) /\ kind[CallOf(reply[1])] \in {"close", "eof", "abrupt"}
          THEN conn' = "eof" /\ heard' = <<>>
          ELSE UNCHANGED <<conn, heard>>
  /\ UNCHANGED <<kind, broken>>

Serve == Establish \/ (\E k \in Calls : Answer(k)) \/ RefuseTorn \/ SendSome

(* The server stops listening, which leaves the connections whose answers  *)
(* it owes; or it closes or loses the connection, or does not accept it.   *)
Drop ==
  /\ Failing
  /\ \/ ~broken /\ UNCHANGED net
     \/ conn = "up" /\ conn' = "eof" /\ heard' = <<>> /\ reply' = <<>> /\ UNCHANGED inbox
     \/ conn \in {"syn", "up", "eof"} /\ conn' = "reset" /\ heard' = <<>> /\ reply' = <<>> /\ inbox' = <<>>
  /\ broken' = TRUE
  /\ UNCHANGED kind

-----------------------------------------------------------------------------
(* The client.                                                             *)

Dial ==
  /\ conn = "none"
  /\ conn' \in (IF broken THEN {"syn", "up", "reset"} ELSE {"syn", "up"})
  /\ UNCHANGED <<heard, reply, inbox, kind, broken>>

(* It sends one request at a time, in order and whole, when it has read the*)
(* answer to the one before.                                               *)
Say(k) ==
  /\ conn = "up" /\ reply = <<>> /\ inbox = <<>>
  /\ \A i \in 1..Len(heard) : heard[i] = k
  /\ \E n \in 1..(ReqUnits - Len(heard)) : heard' = heard \o [i \in 1..n |-> k]
  /\ UNCHANGED <<conn, reply, inbox, kind, broken>>

Listen ==
  /\ inbox' = <<>>
  /\ UNCHANGED <<conn, heard, reply, kind, broken>>

Hangup ==
  /\ conn' = "none" /\ heard' = <<>> /\ reply' = <<>> /\ inbox' = <<>>
  /\ UNCHANGED <<kind, broken>>

Use == Dial \/ (\E k \in Calls : Say(k)) \/ Listen \/ Hangup

Next == Serve \/ Drop \/ Use

Spec == Init /\ [][Next]_vars
=============================================================================
