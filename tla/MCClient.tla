------------------------------ MODULE MCClient ------------------------------
(* Instances of Client for TLC.                                            *)
EXTENDS Client

Default == {{"KEEP_DEF"}}
AllAnswers == SUBSET {"KEEP_DEF", "KEEP_WORK"}
=============================================================================
