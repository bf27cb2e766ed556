---------------------------- MODULE UnderfundedTest ----------------------------
(***************************************************************************)
(* The schedule of the "Test underfunded channel" block of the shared      *)
(* asset holder suite (src/test/AssetHolder.ts:176-210) against the        *)
(* AssetHolder model.  Two of its calls are not awaited: testDeposit in    *)
(* "A deposits eth" (line 184) and assertHoldings in "set outcome ..."     *)
(* (line 196).  Each runs on as a detached promise chain: mocha starts the *)
(* next test as soon as the test function's promise resolves, and the      *)
(* node answers the requests of the chains in whatever order they reach    *)
(* it.  A detached chain's failed assertion rejects a promise nobody       *)
(* awaits: it is not charged to the test that started it.                  *)
(*                                                                         *)
(* Participant A is index 1; recv[A] is the account that pays A's deposit  *)
(* (setup.deposit(fid, amount, setup.recv[idx])) and receives A's          *)
(* withdrawals.  With ERC20 the deposit is an approve followed by the      *)
(* deposit transaction (AssetHolderERC20.ts:42-52).                        *)
(***************************************************************************)
EXTENDS AssetHolder

CONSTANTS
    U,              \* setup.unfundedChannelID
    FinalBalance,   \* finalBalance, scaled: A is owed more than it deposits
    Wallet0,        \* recv[A]'s balance of the asset before the block
    ERC20           \* TRUE: AssetHolderERC20's deposit, FALSE: AssetHolderETH's

A == 1
FidA == FundingID(U, A)

VARIABLES
    main,       \* the test mocha is running and the line it is at
    dep,        \* the detached testDeposit chain of line 184
    oldBal,     \* its `oldBal`
    hold,       \* the detached assertHoldings chain of line 196
    wallet,     \* setup.balanceOf(recv[A])
    before,     \* testWithdraw's `balanceBefore`
    failed,     \* tests mocha reports as failed
    unhandled   \* detached assertions that failed (unhandled rejections)

utVars == <<main, dep, oldBal, hold, wallet, before, failed, unhandled, ahVars>>

\* A test fails: mocha records it and runs the next one.
Fail(test, next) ==
    /\ failed' = failed \cup {test}
    /\ main' = next

-----------------------------------------------------------------------------
(* Line 184: testDeposit is called and not awaited; the test resolves.    *)
StartDeposit ==
    /\ main = "t184"
    /\ dep' = "readOld"
    /\ main' = "t187read"
    /\ UNCHANGED <<oldBal, hold, wallet, before, failed, unhandled, ahVars>>

\* testDeposit, line 34: oldBal = await holdings.call(fid).
DepReadOld ==
    /\ dep = "readOld"
    /\ oldBal' = holdings[FidA]
    /\ dep' = IF ERC20 THEN "approve" ELSE "deposit"
    /\ UNCHANGED <<main, hold, wallet, before, failed, unhandled, ahVars>>

\* AssetHolderERC20 deposit, line 44: token.approve(ah, amount).
DepApprove ==
    /\ dep = "approve"
    /\ dep' = "deposit"
    /\ UNCHANGED <<main, oldBal, hold, wallet, before, failed, unhandled, ahVars>>

\* testDeposit, line 36: setup.deposit(fid, amount, recv[A]) is mined.
DepDeposit ==
    /\ dep = "deposit"
    /\ Deposit(U, A, 1)
    /\ wallet' = wallet - 1
    /\ dep' = "assert"
    /\ UNCHANGED <<main, oldBal, hold, before, failed, unhandled>>

\* testDeposit, line 42: assertHoldings(fid, oldBal + amount).
DepAssert ==
    /\ dep = "assert"
    /\ unhandled' = IF holdings[FidA] = oldBal + 1 THEN unhandled
                    ELSE unhandled \cup {"testDeposit"}
    /\ dep' = "done"
    /\ UNCHANGED <<main, oldBal, hold, wallet, before, failed, ahVars>>

(* Lines 188-196: settled must be false, setOutcome(finalBalance) from   *)
(* the Adjudicator account, settled must be true, then assertHoldings(A, *)
(* 1) is called and not awaited.                                          *)
ReadSettled ==
    /\ main = "t187read"
    /\ IF ~settled[U] THEN main' = "t187set" /\ UNCHANGED failed
                      ELSE Fail("t187", "t199")
    /\ UNCHANGED <<dep, oldBal, hold, wallet, before, unhandled, ahVars>>

SetOutcomeStep ==
    /\ main = "t187set"
    /\ \/ SetOutcome(U, FinalBalance) /\ hold' = "read" /\ main' = "t199"
          /\ UNCHANGED failed
       \/ ~ENABLED SetOutcome(U, FinalBalance) /\ Fail("t187", "t199")
          /\ UNCHANGED <<hold, ahVars>>
    /\ UNCHANGED <<dep, oldBal, wallet, before, unhandled>>

\* The detached assertHoldings(id, ether(1)) of line 196.
HoldRead ==
    /\ hold = "read"
    /\ unhandled' = IF holdings[FidA] = 1 THEN unhandled
                    ELSE unhandled \cup {"assertHoldings"}
    /\ hold' = "done"
    /\ UNCHANGED <<main, dep, oldBal, wallet, before, failed, ahVars>>

(* Lines 199-205: withdrawing 2 must revert.                              *)
WithdrawTwo ==
    /\ main = "t199"
    /\ \/ Withdraw(U, A, 2) /\ wallet' = wallet + 2 /\ Fail("t199", "t207before")
       \/ ~ENABLED Withdraw(U, A, 2) /\ main' = "t207before"
          /\ UNCHANGED <<wallet, failed, ahVars>>
    /\ UNCHANGED <<dep, oldBal, hold, before, unhandled>>

(* Lines 207-209, testWithdraw(A, 1): balanceBefore, the withdrawal       *)
(* (which must not revert), and balanceAfter = balanceBefore + 1.         *)
BalanceBefore ==
    /\ main = "t207before"
    /\ before' = wallet
    /\ main' = "t207withdraw"
    /\ UNCHANGED <<dep, oldBal, hold, wallet, failed, unhandled, ahVars>>

WithdrawOne ==
    /\ main = "t207withdraw"
    /\ \/ Withdraw(U, A, 1) /\ wallet' = wallet + 1 /\ main' = "t207after"
          /\ UNCHANGED failed
       \/ ~ENABLED Withdraw(U, A, 1) /\ Fail("t207", "done")
          /\ UNCHANGED <<wallet, ahVars>>
    /\ UNCHANGED <<dep, oldBal, hold, before, unhandled>>

BalanceAfter ==
    /\ main = "t207after"
    /\ IF wallet = before + 1 THEN main' = "done" /\ UNCHANGED failed
                              ELSE Fail("t207", "done")
    /\ UNCHANGED <<dep, oldBal, hold, wallet, before, unhandled, ahVars>>

\* The suite is over and the detached chains have settled.
Finished ==
    /\ main = "done" /\ dep = "done" /\ hold \in {"idle", "done"}
    /\ UNCHANGED utVars

UTInit ==
    /\ AHInit
    /\ main = "t184"
    /\ dep = "idle" /\ oldBal = 0
    /\ hold = "idle"
    /\ wallet = Wallet0
    /\ before = 0
    /\ failed = {} /\ unhandled = {}

UTNext ==
    \/ StartDeposit \/ DepReadOld \/ DepApprove \/ DepDeposit \/ DepAssert
    \/ ReadSettled \/ SetOutcomeStep \/ HoldRead
    \/ WithdrawTwo \/ BalanceBefore \/ WithdrawOne \/ BalanceAfter
    \/ Finished

\* Every request is eventually answered: each chain keeps going.
UTSpec == UTInit /\ [][UTNext]_utVars /\ WF_utVars(UTNext)

-----------------------------------------------------------------------------
(* Whichever comes first, A's deposit or the underfunded setOutcome, A    *)
(* ends up with exactly its deposit (held or withdrawn) once the deposit  *)
(* is mined: paying in participant order from the pot makes the two       *)
(* commute, so the late deposit of line 184 cannot change the outcome.    *)
DepositAndSettlementCommute ==
    (settled[U] /\ deposited[FidA] = 1)
        => holdings[FidA] + withdrawn[FidA] = 1

(* When the deposit is mined before setOutcome, as the awaited test would *)
(* order it, mocha reports no failed test: every failure the block can    *)
(* report comes from the missing awaits.                                  *)
AwaitedScheduleReportsNoFailure ==
    (main = "done" /\ outcome[U].funded = 1) => failed = {}

(* The block passes: no test fails and no detached assertion fails, in    *)
(* every order the node may answer the detached chains' requests.         *)
UnderfundedBlockPasses ==
    (main = "done" /\ dep = "done" /\ hold \in {"idle", "done"})
        => failed = {} /\ unhandled = {}
=============================================================================
