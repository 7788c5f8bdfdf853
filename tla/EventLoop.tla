------------------------------ MODULE EventLoop ------------------------------
(***************************************************************************)
(* What the dispatcher of py-xmlrpc promises to the code that uses it,     *)
(* without its source array, its ids, its snapshots or its select().       *)
(*                                                                         *)
(* Registrations are one-shot.  A callback starts only for a source that   *)
(* is registered with a non-empty interest; starting it uses up the        *)
(* registration, so it takes one registration per call; callbacks nest     *)
(* only as a stack (a callback may run the loop again).  Everything else   *)
(* is the application arming and disarming sources, or a callback that     *)
(* ends and possibly leaves its source armed again.                        *)
(***************************************************************************)
EXTENDS Sequences, SequencesExt

CONSTANTS
  Sources,   (* the sources the application owns                            *)
  Acts       (* what can happen to a source: input, output, immediate ...   *)

VARIABLES
  armed,     (* the registered sources                                      *)
  want,      (* the acts each source is interested in                       *)
  running    (* the sources whose callbacks are executing, innermost last   *)

vars == <<armed, want, running>>

Init ==
  /\ armed = {}
  /\ want = [s \in Sources |-> {}]
  /\ running = <<>>

(* The application changes what a source waits for.                         *)
Want(s, acts) ==
  /\ want' = [want EXCEPT ![s] = acts]
  /\ UNCHANGED <<armed, running>>

(* The application registers a source, or removes some.                     *)
Arm(s) ==
  /\ want[s] # {}
  /\ armed' = armed \union {s}
  /\ UNCHANGED <<want, running>>

Disarm(S) ==
  /\ armed' = armed \ S
  /\ UNCHANGED <<want, running>>

(* A callback starts: its registration and its interest are used up.        *)
Fire(s) ==
  /\ s \in armed
  /\ want[s] # {}
  /\ armed' = armed \ {s}
  /\ want' = [want EXCEPT ![s] = {}]
  /\ running' = Append(running, s)

(* The innermost callback ends, for good or to be called again.             *)
Finish ==
  /\ running # <<>>
  /\ running' = Front(running)
  /\ UNCHANGED <<armed, want>>

Reinstall(acts) ==
  /\ running # <<>>
  /\ acts # {}
  /\ running' = Front(running)
  /\ armed' = armed \union {Last(running)}
  /\ want' = [want EXCEPT ![Last(running)] = acts]

Next ==
  \/ \E s \in Sources : Arm(s) \/ Fire(s)
  \/ \E s \in Sources, acts \in SUBSET Acts : Want(s, acts)
  \/ \E S \in SUBSET Sources : Disarm(S)
  \/ Finish
  \/ \E acts \in SUBSET Acts : Reinstall(acts)

Spec == Init /\ [][Next]_vars

==============================================================================
