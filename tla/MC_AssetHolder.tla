--------------------------- MODULE MC_AssetHolder ---------------------------
(***************************************************************************)
(* Two channels with two participants each, as the AssetHolder suite's     *)
(* channelID and unfundedChannelID.  Deposits of up to 1 per funding ID    *)
(* and shares of up to 2 make most settlements underfunded, the case the   *)
(* payout order decides.                                                   *)
(***************************************************************************)
EXTENDS AssetHolder

CONSTANTS C1, C2

MC_Channel == {C1, C2}
MC_Part == 1..2
=============================================================================
