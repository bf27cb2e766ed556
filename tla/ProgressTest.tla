----------------------------- MODULE ProgressTest -----------------------------
(***************************************************************************)
(* The schedule of the "progress" block of the Adjudicator suite           *)
(* (src/test/Adjudicator.ts:494-697) against the Adjudicator model.  Its   *)
(* before hook registers two channels, `tx` (version 4) and tx2 of         *)
(* differentChannelID (version 0), and awaits neither: register(tx) and    *)
(* assertRegister(res, tx) run on as a detached promise chain, one per     *)
(* channel, while mocha runs the tests.  The node answers the requests of  *)
(* the chains and of the running test in whatever order they reach it.     *)
(* A detached chain's failed assertion rejects a promise nobody awaits.    *)
(*                                                                         *)
(* The tests of the block up to "progress in CONCLUDED fails" are          *)
(* modelled; the testWithModifiedOldState tests that follow use a channel  *)
(* of their own (nonce "1") and never read these two.  Block time moves    *)
(* only by advanceBlockTime: evm_increaseTime sets the timestamp of the    *)
(* next block, and a transaction mined between it and evm_mine sees the    *)
(* same time, so the two requests are one step.                            *)
(***************************************************************************)
EXTENDS Naturals, Sequences, TLC

CONSTANTS
    C,          \* the channel of the block's `tx` (nonce 0xB0B0FACE)
    Different,  \* differentChannelID, the channel of tx2 (nonce 0x02)
    Timeout     \* `timeout`: both channels' challengeDuration

VARIABLES
    disputes, now,  \* the Adjudicator's state
    mocha,      \* the test mocha is running and the step it is at
    reg,        \* per channel: the step of its detached register chain
    snapshot,   \* the Adjudicator state evm_snapshot saved for a wrapped test
    early,      \* history: channels registered before test 2 advanced the time
    reported,   \* tests mocha reports as failed
    rejected    \* detached assertions that failed (unhandled rejections)

ptVars == <<disputes, now, mocha, reg, snapshot, early, reported, rejected>>

RegChannels == {C, Different}

\* balance = [ether(10), ether(20)], scaled to 1 and 2.
Bal == [p \in 1..2 |-> p]

\* The state a Transaction of the block carries at a given version.
TxState(c, v) ==
    [channelID |-> c, version |-> v, isFinal |-> FALSE, bal |-> Bal, locked |-> <<>>]

\* The versions the before hook registers.
RegVersion == C :> 4 @@ Different :> 0

Adj == INSTANCE Adjudicator
         WITH Channel <- RegChannels, Part <- 1..2,
              HasApp <- [c \in RegChannels |-> TRUE],
              ChallengeDuration <- Timeout,
              Signed <- {TxState(c, RegVersion[c]) : c \in RegChannels},
              MaxVersion <- 7, MaxBal <- 2

\* progress(tx, txOld.state, 0, sig) on `tx`'s channel from version old to
\* old + 1: the contract checks oldState against the registered state.
TxProgress(old) ==
    /\ Adj!Registered(C)
    /\ disputes[C].stateHash = TxState(C, old)
    /\ Adj!Progress(C, 1, Bal, FALSE)

\* conclude(txOld) with txOld at version v.
TxConclude(v) ==
    /\ Adj!Registered(C)
    /\ disputes[C].stateHash = TxState(C, v)
    /\ Adj!Conclude(C)

\* A test fails: mocha records it and goes on with the next one.
Report(test, next) ==
    /\ reported' = reported \cup {test}
    /\ mocha' = next

\* An awaited call that must revert, and one that must succeed.  A test
\* body that throws ends the test at once: a wrapped test then skips its
\* evm_revert (onFail).
ExpectRevert(call, test, next, onFail) ==
    \/ call /\ Report(test, onFail)
    \/ ~ENABLED call /\ mocha' = next /\ UNCHANGED <<reported, disputes, now>>

ExpectSuccess(call, test, next, onFail) ==
    \/ call /\ mocha' = next /\ UNCHANGED reported
    \/ ~ENABLED call /\ Report(test, onFail) /\ UNCHANGED <<disputes, now>>

\* advanceBlockTime(d).
AdvanceBlockTime(d) == now' = now + d /\ UNCHANGED disputes
-----------------------------------------------------------------------------
(* Lines 497-510: sign tx, send register(tx) unawaited, sign tx2, send    *)
(* register(tx2) unawaited; the hook resolves.                             *)
BeforeHook(c, next) ==
    /\ mocha = IF c = C THEN "before" ELSE "before2"
    /\ reg' = [reg EXCEPT ![c] = "mine"]
    /\ mocha' = next
    /\ UNCHANGED <<disputes, now, snapshot, early, reported, rejected>>

(* A detached register is mined.  If it reverts, `await res` in           *)
(* assertRegister rejects.                                                *)
RegMine(c) ==
    /\ reg[c] = "mine"
    /\ \/ Adj!Register(c, TxState(c, RegVersion[c])) /\ reg' = [reg EXCEPT ![c] = "read"]
          /\ UNCHANGED rejected
       \/ ~ENABLED Adj!Register(c, TxState(c, RegVersion[c]))
          /\ reg' = [reg EXCEPT ![c] = "done"] /\ rejected' = rejected \cup {c}
          /\ UNCHANGED <<disputes, now>>
    /\ early' = IF mocha \in {"before2", "t1", "t2"} /\ ENABLED Adj!Register(c, TxState(c, RegVersion[c]))
                THEN early \cup {c} ELSE early
    /\ UNCHANGED <<mocha, snapshot, reported>>

(* assertDisputePhase(id, DISPUTE): disputes(id) of a channel without a   *)
(* record is the zero struct, whose phase reads as DISPUTE.               *)
RegRead(c) ==
    /\ reg[c] = "read"
    /\ rejected' = IF ~Adj!Registered(c) \/ disputes[c].phase = "DISPUTE"
                   THEN rejected ELSE rejected \cup {c}
    /\ reg' = [reg EXCEPT ![c] = "done"]
    /\ UNCHANGED <<disputes, now, mocha, snapshot, early, reported>>

testVars == <<reg, snapshot, early, rejected>>

(* "progress with valid state before timeout fails".                      *)
BeforeTimeoutFails ==
    /\ mocha = "t1"
    /\ ExpectRevert(TxProgress(4), "t1", "t2", "t2")
    /\ UNCHANGED testVars

(* "advance past timeout; progress with unknown channelID fails": the     *)
(* unknown channel reverts "not registered" whatever is registered.       *)
AdvancePastTimeout ==
    /\ mocha = "t2"
    /\ AdvanceBlockTime(Timeout + 10)
    /\ mocha' = "t3"
    /\ UNCHANGED <<reported, testVars>>

(* "progress with different channelID fails" expects "invalid params":    *)
(* the contract looks the state's channel up first (test 2 gets "not      *)
(* registered" with mismatching params too), so the revert carries the    *)
(* expected message only once tx2's registration is mined.                *)
DifferentChannelFails ==
    /\ mocha = "t3"
    /\ mocha' = "t4"
    /\ reported' = IF Adj!Registered(Different) THEN reported
                   ELSE reported \cup {"t3"}
    /\ UNCHANGED <<disputes, now, testVars>>

(* The tests from "invalid signature" to "progress without app": each     *)
(* call breaks a check that no registration or time makes pass, and       *)
(* reverts whatever the chain holds.                                       *)
MalformedProgressFails ==
    /\ mocha = "t4"
    /\ mocha' = "t12"
    /\ UNCHANGED <<disputes, now, reported, testVars>>

(* "progress with valid state succeeds", then "... twice fails".          *)
ValidProgress ==
    /\ mocha = "t12"
    /\ ExpectSuccess(TxProgress(4), "t12", "t13", "t13")
    /\ UNCHANGED testVars

ValidProgressTwiceFails ==
    /\ mocha = "t13"
    /\ ExpectRevert(TxProgress(4), "t13", "t14", "t14")
    /\ UNCHANGED testVars

(* "progress with next valid state succeeds" (version 5 to 6).            *)
NextValidProgress ==
    /\ mocha = "t14"
    /\ ExpectSuccess(TxProgress(5), "t14", "t15snap", "t15snap")
    /\ UNCHANGED testVars

(* itWithBlockRevert (lib/test.ts:55-59): evm_snapshot, the body, and     *)
(* evm_revert, which a throwing body never reaches.                        *)
EvmSnapshot(test) ==
    /\ mocha = test \o "snap"
    /\ snapshot' = <<disputes, now>>
    /\ mocha' = test \o "adv"
    /\ UNCHANGED <<disputes, now, reg, early, reported, rejected>>

EvmRevert(test, next) ==
    /\ mocha = test \o "revert"
    /\ disputes' = snapshot[1] /\ now' = snapshot[2]
    /\ mocha' = next
    /\ UNCHANGED <<reg, snapshot, early, reported, rejected>>

\* Both wrapped tests start with advanceBlockTime(timeout + 1).
WrappedAdvance(test, next) ==
    /\ mocha = test \o "adv"
    /\ AdvanceBlockTime(Timeout + 1)
    /\ mocha' = next
    /\ UNCHANGED <<reported, testVars>>

(* "progress after timeout fails" (version 6 to 7 after FORCEEXEC).       *)
ProgressAfterTimeoutFails ==
    /\ mocha = "t15prog"
    /\ ExpectRevert(TxProgress(6), "t15", "t15revert", "t16snap")
    /\ UNCHANGED testVars

(* "progress in CONCLUDED fails": conclude(txOld) must succeed, then the  *)
(* progress must revert.                                                  *)
ConcludeFirst ==
    /\ mocha = "t16conc"
    /\ ExpectSuccess(TxConclude(6), "t16", "t16prog", "done")
    /\ UNCHANGED testVars

ProgressInConcludedFails ==
    /\ mocha = "t16prog"
    /\ ExpectRevert(TxProgress(6), "t16", "t16revert", "done")
    /\ UNCHANGED testVars

\* The block is over and the detached chains have settled.
BlockFinished ==
    /\ mocha = "done" /\ \A c \in RegChannels : reg[c] = "done"
    /\ UNCHANGED ptVars

PTInit ==
    /\ Adj!AdjInit
    /\ mocha = "before"
    /\ reg = [c \in RegChannels |-> "idle"]
    /\ snapshot = <<[c \in RegChannels |-> Adj!NoDispute], 0>>
    /\ early = {} /\ reported = {} /\ rejected = {}

PTNext ==
    \/ BeforeHook(C, "before2") \/ BeforeHook(Different, "t1")
    \/ \E c \in RegChannels : RegMine(c) \/ RegRead(c)
    \/ BeforeTimeoutFails \/ AdvancePastTimeout \/ DifferentChannelFails
    \/ MalformedProgressFails \/ ValidProgress \/ ValidProgressTwiceFails
    \/ NextValidProgress
    \/ EvmSnapshot("t15") \/ WrappedAdvance("t15", "t15prog")
    \/ ProgressAfterTimeoutFails \/ EvmRevert("t15", "t16snap")
    \/ EvmSnapshot("t16") \/ WrappedAdvance("t16", "t16conc")
    \/ ConcludeFirst \/ ProgressInConcludedFails \/ EvmRevert("t16", "done")
    \/ BlockFinished

PTSpec == PTInit /\ [][PTNext]_ptVars
-----------------------------------------------------------------------------
(* When both registrations of the before hook are mined before test 2    *)
(* advances the time, as awaiting them would order it, mocha reports no   *)
(* failed test: the block's expectations of register, progress and        *)
(* conclude are those of the Adjudicator, and every failure the block can  *)
(* report comes from the missing awaits.                                   *)
AwaitedRegistrationsReportNoFailure ==
    (mocha = "done" /\ early = RegChannels) => reported = {}

=============================================================================
