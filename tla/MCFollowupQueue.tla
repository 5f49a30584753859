-------------------------- MODULE MCFollowupQueue --------------------------
(* Constants for TLC: four messages of one session, from two threads of a  *)
(* chat.                                                                   *)
EXTENDS FollowupQueue, TLC

CONSTANTS m1, m2, m3, m4, direct, thread

MCOrigin == (m1 :> direct) @@ (m2 :> direct) @@ (m3 :> thread) @@ (m4 :> thread)

Setting(m, d, c) == [mode |-> m, drop |-> d, cap |-> c]
MCSettings == {Setting("followup", "summarize", 2), Setting("followup", "old", 2),
               Setting("collect", "summarize", 2), Setting("collect", "new", 2)}
MCDefault  == {Setting("collect", "summarize", 2)}
=============================================================================
