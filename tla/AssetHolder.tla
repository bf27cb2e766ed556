----------------------------- MODULE AssetHolder -----------------------------
(***************************************************************************)
(* The custody ledger of one asset (AssetHolderETH or AssetHolderERC20):   *)
(* holdings per funding ID, a settled flag per channel, deposits,          *)
(* the Adjudicator's one-time setOutcome and signed withdrawals.  The      *)
(* contract is not part of the repository; its behaviour is the one the    *)
(* shared test suite genericAssetHolderTest (src/test/AssetHolder.ts)      *)
(* pins, completed from the specification (4.2) where the tests are        *)
(* silent.                                                                 *)
(*                                                                         *)
(* A funding ID is the pair <<channel, participant>> (fundingID hashes     *)
(* both, collision free).  Participants are the indices 1..N of the        *)
(* params.participants list that setOutcome receives.                      *)
(***************************************************************************)
EXTENDS Naturals, Sequences, FiniteSets, SequencesExt

CONSTANTS
    Channel,               \* channel IDs
    Part,                  \* participant indices 1..N
    MaxDeposit,            \* bound on what is deposited to one funding ID
    MaxOutcome,            \* bound on one participant's share in an outcome
    WithdrawBeforeSettle   \* TRUE: withdraw as spec 4.2 words it, FALSE: as the tests expect

ASSUME Part = 1..Cardinality(Part)

VARIABLES
    holdings,     \* AssetHolder.holdings: funding ID -> amount
    settled,      \* AssetHolder.settled: channel ID -> BOOLEAN
    balance,      \* the asset holder's own balance of the asset
    deposited,    \* sum of the Deposited events per funding ID
    withdrawn,    \* sum of the Withdrawn events per funding ID
    outcome       \* per channel: the outcome setOutcome received and the
                  \* deposits of the channel at that moment (history)

ahVars == <<holdings, settled, balance, deposited, withdrawn, outcome>>

FundingID(c, p) == <<c, p>>
FundingIDs == {FundingID(c, p) : c \in Channel, p \in Part}

NoOutcome == [owed |-> <<>>, funded |-> 0]

\* What a channel's participants have deposited in total.
ChannelDeposits(c) == SumFunction([p \in Part |-> deposited[FundingID(c, p)]])

\* Mutant: the outcome is paid whatever the channel holds.
MutPayUncapped(owed, pot) == owed

(* Underfunding is resolved in participant order (spec 4.2): each         *)
(* participant receives min(owed, what is left of the pot).               *)
RECURSIVE PayInOrder(_, _)
PayInOrder(owed, pot) ==
    IF owed = <<>> THEN <<>>
    ELSE LET pay == IF Head(owed) < pot THEN Head(owed) ELSE pot
         IN <<pay>> \o PayInOrder(Tail(owed), pot - pay)

-----------------------------------------------------------------------------
(* deposit(fundingID, amount) with the asset attached (msg.value = amount *)
(* for ETH, a prior approve of amount for the token).                     *)
Deposit(c, p, amount) ==
    LET fid == FundingID(c, p)
    IN /\ deposited[fid] + amount <= MaxDeposit
       /\ holdings' = [holdings EXCEPT ![fid] = @ + amount]
       /\ balance' = balance + amount
       /\ deposited' = [deposited EXCEPT ![fid] = @ + amount]
       /\ UNCHANGED <<settled, withdrawn, outcome>>

\* Mutant: a channel can be settled twice.
MutSetOutcomeTwice(c, newBals) ==
    LET pot == SumFunction([p \in Part |-> holdings[FundingID(c, p)]])
        pay == PayInOrder(newBals, pot)
    IN /\ DOMAIN newBals = Part
       /\ holdings' = [fid \in FundingIDs |->
                         IF fid[1] = c THEN pay[fid[2]] ELSE holdings[fid]]
       /\ settled' = [settled EXCEPT ![c] = TRUE]
       /\ outcome' = [outcome EXCEPT ![c] =
                        [owed |-> newBals, funded |-> ChannelDeposits(c)]]
       /\ UNCHANGED <<balance, deposited, withdrawn>>

\* Mutant: setOutcome reverts when the deposits do not cover the outcome
\* instead of paying in participant order.
MutSetOutcomeRequireFunded(c, newBals) ==
    LET pot == SumFunction([p \in Part |-> holdings[FundingID(c, p)]])
    IN /\ ~settled[c]
       /\ DOMAIN newBals = Part
       /\ pot >= SumFunction(newBals)
       /\ holdings' = [fid \in FundingIDs |->
                         IF fid[1] = c THEN newBals[fid[2]] ELSE holdings[fid]]
       /\ settled' = [settled EXCEPT ![c] = TRUE]
       /\ outcome' = [outcome EXCEPT ![c] =
                        [owed |-> newBals, funded |-> ChannelDeposits(c)]]
       /\ UNCHANGED <<balance, deposited, withdrawn>>

(* setOutcome(channelID, parts, newBals), called by the Adjudicator only, *)
(* once per channel, with one balance per participant.                    *)
SetOutcome(c, newBals) ==
    LET pot == SumFunction([p \in Part |-> holdings[FundingID(c, p)]])
        pay == PayInOrder(newBals, pot)
    IN /\ ~settled[c]
       /\ DOMAIN newBals = Part
       /\ holdings' = [fid \in FundingIDs |->
                         IF fid[1] = c THEN pay[fid[2]] ELSE holdings[fid]]
       /\ settled' = [settled EXCEPT ![c] = TRUE]
       /\ outcome' = [outcome EXCEPT ![c] =
                        [owed |-> newBals, funded |-> ChannelDeposits(c)]]
       /\ UNCHANGED <<balance, deposited, withdrawn>>

\* Mutant: the amount is not checked against the holdings.
MutWithdrawOverdraw(c, p, amount) ==
    LET fid == FundingID(c, p)
    IN /\ settled[c] \/ WithdrawBeforeSettle
       /\ holdings' = [holdings EXCEPT ![fid] = @ - amount]
       /\ balance' = balance - amount
       /\ withdrawn' = [withdrawn EXCEPT ![fid] = @ + amount]
       /\ UNCHANGED <<settled, deposited, outcome>>

(* withdraw(authorization, sig): the participant signs for amount to a    *)
(* receiver; the channel must be settled and hold enough for it.          *)
Withdraw(c, p, amount) ==
    LET fid == FundingID(c, p)
    IN /\ settled[c] \/ WithdrawBeforeSettle
       /\ amount <= holdings[fid]
       /\ holdings' = [holdings EXCEPT ![fid] = @ - amount]
       /\ balance' = balance - amount
       /\ withdrawn' = [withdrawn EXCEPT ![fid] = @ + amount]
       /\ UNCHANGED <<settled, deposited, outcome>>

AHInit ==
    /\ holdings = [fid \in FundingIDs |-> 0]
    /\ settled = [c \in Channel |-> FALSE]
    /\ balance = 0
    /\ deposited = [fid \in FundingIDs |-> 0]
    /\ withdrawn = [fid \in FundingIDs |-> 0]
    /\ outcome = [c \in Channel |-> NoOutcome]

\* The Adjudicator account calls setOutcome with some outcome; the tests'
\* finalBalance is [20, 10] against deposits of [10, 20] and [1, 0].
AdjudicatorSetsOutcome ==
    \E c \in Channel, b \in [Part -> 0..MaxOutcome] : SetOutcome(c, b)

AHNext ==
    \/ \E c \in Channel, p \in Part, a \in 1..MaxDeposit : Deposit(c, p, a)
    \/ AdjudicatorSetsOutcome
    \/ \E c \in Channel, p \in Part, a \in 0..MaxDeposit : Withdraw(c, p, a)

AHSpec == AHInit /\ [][AHNext]_ahVars

-----------------------------------------------------------------------------
AHTypeOK ==
    /\ holdings \in [FundingIDs -> Nat]
    /\ settled \in [Channel -> BOOLEAN]
    /\ balance \in Nat
    /\ deposited \in [FundingIDs -> Nat]
    /\ withdrawn \in [FundingIDs -> Nat]
    /\ \A c \in Channel : settled[c] <=> outcome[c] # NoOutcome

(* The asset holder can always pay out every holding: the holdings of all *)
(* funding IDs never exceed the asset it actually holds, across deposits, *)
(* underfunded settlements and withdrawals.                               *)
Solvency ==
    SumFunction(holdings) <= balance

(* If a channel's participants had deposited at least its outcome when   *)
(* setOutcome ran, every participant can collect its full share: what it *)
(* still holds plus what it has withdrawn covers what it was owed.       *)
FairSettlement ==
    \A c \in Channel :
        (settled[c] /\ outcome[c].funded >= SumFunction(outcome[c].owed))
        => \A p \in Part :
              holdings[FundingID(c, p)] + withdrawn[FundingID(c, p)]
                  >= outcome[c].owed[p]
=============================================================================
