------------------------------ MODULE RpcCalls ------------------------------
(***************************************************************************)
(* What the client of py-xmlrpc promises to the code that uses it: one     *)
(* call at a time, if it is exclusive.  A call is refused only when another*)
(* one is in progress; one that is not refused ends at most once, with an  *)
(* answer, an error or a timeout.                                          *)
(***************************************************************************)

CONSTANTS
  Calls,
  Exclusive    (* whether a call is refused whenever one is in progress    *)

VARIABLE outcome   (* what has become of each call                         *)

Init == outcome = [k \in Calls |-> "none"]

InProgress == {k \in Calls : outcome[k] = "pending"}
Becomes(k, result) == outcome' = [outcome EXCEPT ![k] = result]

Issue(k) == outcome[k] = "none" /\ (Exclusive => InProgress = {}) /\ Becomes(k, "pending")
Refuse(k) == outcome[k] = "none" /\ InProgress # {} /\ Becomes(k, "refused")
Answer(k) == k \in InProgress /\ Becomes(k, "answered")
Fail(k) == k \in InProgress /\ Becomes(k, "failed")
TimeOut(k) == k \in InProgress /\ Becomes(k, "timedout")

Next ==
  \E k \in Calls : Issue(k) \/ Refuse(k) \/ Answer(k) \/ Fail(k) \/ TimeOut(k)

Spec == Init /\ [][Next]_outcome
=============================================================================
