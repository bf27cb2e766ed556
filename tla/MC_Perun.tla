------------------------------ MODULE MC_Perun ------------------------------
(***************************************************************************)
(* A funded ledger channel L locking one app sub-channel S0, two           *)
(* participants who deposit up to 2 each into L while the dispute runs.    *)
(* L's signed history: version 0 locking 2 in S0, and a final version 1    *)
(* that has absorbed S0.  Deposits can under- or over-fund the outcome.    *)
(***************************************************************************)
EXTENDS Perun

CONSTANTS L, S0

MC_Channel == {L, S0}
MC_Funded == {L}
MC_Part == 1..2
MC_HasApp == [c \in MC_Channel |-> c = S0]

St(c, v, fin, a, b, locked) ==
    [channelID |-> c, version |-> v, isFinal |-> fin,
     bal |-> (1 :> a @@ 2 :> b), locked |-> locked]

MC_Signed ==
    { St(S0, 0, FALSE, 1, 1, <<>>),
      St(L,  0, FALSE, 1, 0, <<[ID |-> S0, balances |-> 2]>>),
      St(L,  1, TRUE,  2, 2, <<>>) }
=============================================================================
