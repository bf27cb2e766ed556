--------------------------- MODULE MC_Adjudicator ---------------------------
(***************************************************************************)
(* A ledger channel L locking sub-channel S0, which locks S1: the depth-2 *)
(* tree of the "conclude with subchannels" test, two participants.  L and  *)
(* S1 have an app, S0 has none (the test's txNoApp).  The signed history   *)
(* of every channel conserves its funds and L also carries the test's      *)
(* final state of lower version (1) than a registered one (2).             *)
(***************************************************************************)
EXTENDS Adjudicator

CONSTANTS L, S0, S1

MC_Channel == {L, S0, S1}
MC_Part == {1, 2}
MC_HasApp == [c \in MC_Channel |-> c # S0]

\* A state of channel c as both participants sign it.
St(c, v, fin, a, b, locked) ==
    [channelID |-> c, version |-> v, isFinal |-> fin,
     bal |-> (1 :> a @@ 2 :> b), locked |-> locked]

MC_Signed ==
    { St(S1, 0, FALSE, 1, 0, <<>>),
      St(S0, 0, FALSE, 1, 0, <<[ID |-> S1, balances |-> 1]>>),
      St(L,  0, FALSE, 1, 1, <<[ID |-> S0, balances |-> 2]>>),
      St(L,  2, FALSE, 2, 0, <<[ID |-> S0, balances |-> 2]>>),
      St(L,  1, TRUE,  2, 2, <<>>) }
=============================================================================
