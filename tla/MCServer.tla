------------------------------ MODULE MCServer ------------------------------
(* Instances of Server for TLC.                                            *)
EXTENDS Server, TLC

CONSTANTS c1, c2

BothTwo == (c1 :> <<"keep", "keep">>) @@ (c2 :> <<"keep", "close">>)
Mixed == (c1 :> <<"bad", "nolength">>) @@ (c2 :> <<"keep", "close">>)
Alone == (c1 :> <<"keep", "close">>)
Default == {{"KEEP_DEF"}}
AllAnswers == SUBSET {"KEEP_DEF", "KEEP_WORK"}
=============================================================================
