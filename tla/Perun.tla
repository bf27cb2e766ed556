-------------------------------- MODULE Perun --------------------------------
(***************************************************************************)
(* The Adjudicator and the asset holder of its one asset together:         *)
(* conclude and concludeFinal push the outcome to the asset holder's       *)
(* setOutcome in the same transaction, and revert with it (a channel that  *)
(* is already settled cannot be concluded again).  Deposits and            *)
(* withdrawals interleave freely with the dispute.                         *)
(***************************************************************************)
EXTENDS Adjudicator

CONSTANTS
    Funded,                \* the channels participants fund on chain (ledger channels)
    MaxDeposit,
    MaxOutcome,
    WithdrawBeforeSettle

VARIABLES holdings, settled, balance, deposited, withdrawn, outcome

AH == INSTANCE AssetHolder

ahVars == <<holdings, settled, balance, deposited, withdrawn, outcome>>
vars == <<disputes, now, holdings, settled, balance, deposited, withdrawn, outcome>>

(* conclude(params, state, subStates) then AssetHolder.setOutcome(channel *)
(* ID, participants, accumulated outcome).                                *)
ConcludeAndSettle(c) ==
    /\ Conclude(c)
    /\ AH!SetOutcome(c, Accumulated(c))

(* concludeFinal(params, state, sigs) then setOutcome with its balances.  *)
ConcludeFinalAndSettle(c, s) ==
    /\ ConcludeFinal(c, s)
    /\ AH!SetOutcome(c, s.bal)

PerunInit == AdjInit /\ AH!AHInit

PerunNext ==
    \/ /\ \/ \E c \in Channel, s \in Signed : Register(c, s)
          \/ \E c \in Channel, a \in Part, b \in [Part -> 0..MaxBal], f \in BOOLEAN :
                Progress(c, a, b, f)
          \/ Tick
       /\ UNCHANGED ahVars
    \/ \E c \in Channel : ConcludeAndSettle(c)
    \/ \E c \in Channel, s \in Signed : ConcludeFinalAndSettle(c, s)
    \/ /\ \/ \E c \in Funded, p \in Part, a \in 1..MaxDeposit : AH!Deposit(c, p, a)
          \/ \E c \in Funded, p \in Part, a \in 0..MaxDeposit : AH!Withdraw(c, p, a)
       /\ UNCHANGED adjVars
    \/ Terminated /\ UNCHANGED ahVars

(* As in the Adjudicator alone: registrations, conclusions and the clock *)
(* are eventually mined; deposits, withdrawals and forced progression are *)
(* the participants' choice and get no fairness.                          *)
PerunFairness ==
    /\ WF_vars(Tick /\ UNCHANGED ahVars)
    /\ \A c \in Channel : WF_vars(\E s \in Signed : Register(c, s) /\ UNCHANGED ahVars)
    /\ \A c \in Channel : WF_vars(ConcludeAndSettle(c))

PerunSpec == PerunInit /\ [][PerunNext]_vars /\ PerunFairness

-----------------------------------------------------------------------------
(* The asset holder only ever pays out what the Adjudicator concluded: a  *)
(* settled channel is concluded, and each participant's share is its      *)
(* balance in the concluded state plus its balances in every concluded    *)
(* sub-channel state of the tree below it (the ledger test's              *)
(* accumulatedOutcome).                                                   *)
SettledOutcomeIsConcludedOutcome ==
    \A c \in Channel :
        settled[c] =>
            LET s == disputes[c].stateHash
            IN /\ Registered(c)
               /\ disputes[c].phase = "CONCLUDED"
               /\ \A p \in Part :
                     outcome[c].owed[p]
                       = s.bal[p]
                         + SumFunction([id \in TreeBelow(s.locked, Cardinality(Channel))
                                          |-> disputes[id].stateHash.bal[p]])

(* Every funded channel is eventually settled on the asset holder, so its *)
(* deposits become withdrawable: register, the challenge window, conclude *)
(* and the setOutcome it calls cannot be blocked by an uncooperative      *)
(* participant.                                                           *)
FundedEventuallySettled ==
    \A c \in Funded : <>settled[c]
=============================================================================
