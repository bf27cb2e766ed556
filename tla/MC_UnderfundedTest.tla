------------------------- MODULE MC_UnderfundedTest -------------------------
(***************************************************************************)
(* One channel (unfundedChannelID) with participants A and B.  A deposits *)
(* 1 and finalBalance [20, 10] is scaled to A owed 2, B owed 1: the pot   *)
(* covers less than A's share, the block's "deposit refusal" by B.        *)
(***************************************************************************)
EXTENDS UnderfundedTest

MC_Channel == {U}
MC_Part == 1..2
MC_FinalBalance == <<2, 1>>
=============================================================================
