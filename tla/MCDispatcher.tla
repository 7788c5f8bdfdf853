---------------------------- MODULE MCDispatcher ----------------------------
(* Instances of Dispatcher for TLC.                                        *)
EXTENDS Dispatcher, TLC

CONSTANTS a, b

MCFds == {3, 4}
OwnFds == (a :> 3) @@ (b :> 4)
SharedFd == (a :> 3) @@ (b :> 3)
InNow == {{"input"}, {"immediate"}}
Default == {{"KEEP_DEF"}}
DropOrWork == {{"KEEP_DEF"}, {"KEEP_WORK"}}
=============================================================================
