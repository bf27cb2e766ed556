----------------------------- MODULE TestChain -----------------------------
(***************************************************************************)
(* The test harness of lib/test.ts on the development node: test suites    *)
(* wrapped by describeWithBlockRevert (one evm_snapshot before the first   *)
(* test, evm_revert after the last) and tests wrapped by itWithBlockRevert *)
(* (snapshot, body, revert), all JSON-RPC calls sent through asyncWeb3Send *)
(* of lib/web3.ts.  Test bodies send transactions and advance block time;  *)
(* any body may throw (a failed assertion), after which mocha goes on      *)
(* with the next test and still runs the suite's after hook.               *)
(*                                                                         *)
(* The chain's state is the log of effects applied to it.  The node keeps  *)
(* a snapshot per id; evm_revert(id) restores the state of snapshot id and *)
(* drops it and every later snapshot, and is a no-op for an unknown id.    *)
(***************************************************************************)
EXTENDS Naturals, Sequences, FiniteSets, TLC

CONSTANTS
    Suite       \* the describe blocks in order; each a sequence of tests
                \* [wrapped: BOOLEAN (itWithBlockRevert), steps: Nat]

VARIABLES
    log,        \* the node's state: effects applied, in order
    snaps,      \* snapshot id -> the log it saved
    live,       \* snapshot ids the node still holds
    nextId,     \* id of the next snapshot
    d, t,       \* the running describe block and test (0: its before hook)
    phase,      \* "before", "test", "body", "revert", "after", "done"
    done,       \* steps the running test body has taken
    descSnap,   \* describeWithBlockRevert's snapshot_id (line 39)
    testSnap,   \* itWithBlockRevert's snapshot_id (line 56)
    testStart   \* history: the log when the running test started

tcVars == <<log, snaps, live, nextId, d, t, phase, done, descSnap, testSnap, testStart>>
nodeVars == <<log, snaps, live, nextId>>

Test == Suite[d][t]

(* asyncWeb3Send(method, params): one JSON-RPC request to the node, and    *)
(* what the node does with it.                                            *)
EvmSnapshot(id) ==
    /\ id = nextId
    /\ snaps' = snaps @@ (id :> log)
    /\ live' = live \cup {id}
    /\ nextId' = nextId + 1
    /\ UNCHANGED log

EvmRevert(id) ==
    IF id \in live
    THEN /\ log' = snaps[id]
         /\ live' = {i \in live : i < id}
         /\ UNCHANGED <<snaps, nextId>>
    ELSE UNCHANGED nodeVars

(* advanceBlockTime(time): evm_increaseTime then evm_mine; no user code   *)
(* runs between the two requests.                                         *)
AdvanceBlockTime == log' = Append(log, <<"time", d, t, done>>)

\* A transaction of the test body (register, progress, deposit...).
SendTransaction == log' = Append(log, <<"tx", d, t, done>>)

\* Move on to test i of the running describe block, or to its after hook.
NextTest(i) ==
    /\ t' = i
    /\ phase' = IF i <= Len(Suite[d]) THEN "test" ELSE "after"
    /\ done' = 0

(* describeWithBlockRevert, before hook: snapshot_id = (await             *)
(* asyncWeb3Send('evm_snapshot', [])).result.                             *)
DescribeBefore ==
    /\ phase = "before"
    /\ EvmSnapshot(nextId)
    /\ descSnap' = nextId
    /\ NextTest(1)
    /\ UNCHANGED <<d, testSnap, testStart>>

\* Mutant: the suite snapshot is retaken before every test (beforeEach).
MutStartTestResnapshot ==
    /\ phase = "test"
    /\ EvmSnapshot(nextId)
    /\ descSnap' = nextId
    /\ testSnap' = nextId
    /\ testStart' = log
    /\ phase' = "body"
    /\ UNCHANGED <<d, t, done>>

(* A test starts: itWithBlockRevert first takes its own snapshot; a       *)
(* plain it runs its body directly.                                       *)
StartTest ==
    /\ phase = "test"
    /\ IF Test.wrapped
       THEN EvmSnapshot(nextId) /\ testSnap' = nextId
       ELSE UNCHANGED <<snaps, live, nextId, log, testSnap>>
    /\ testStart' = log
    /\ phase' = "body"
    /\ UNCHANGED <<d, t, done, descSnap>>

(* await test(): the body takes its steps.                                *)
BodyStep ==
    /\ phase = "body"
    /\ done < Test.steps
    /\ AdvanceBlockTime \/ SendTransaction
    /\ done' = done + 1
    /\ UNCHANGED <<snaps, live, nextId, d, t, phase, descSnap, testSnap, testStart>>

(* The body throws: the await on line 57 rejects, line 58 never runs, and *)
(* mocha records the failure and starts the next test.                    *)
BodyThrows ==
    /\ phase = "body"
    /\ NextTest(t + 1)
    /\ UNCHANGED <<nodeVars, d, descSnap, testSnap, testStart>>

\* The body resolves.
BodyReturns ==
    /\ phase = "body"
    /\ done = Test.steps
    /\ IF Test.wrapped THEN phase' = "revert" /\ UNCHANGED <<t, done>>
                      ELSE NextTest(t + 1)
    /\ UNCHANGED <<nodeVars, d, descSnap, testSnap, testStart>>

(* await asyncWeb3Send('evm_revert', [snapshot_id]).                      *)
TestRevert ==
    /\ phase = "revert"
    /\ EvmRevert(testSnap)
    /\ NextTest(t + 1)
    /\ UNCHANGED <<d, descSnap, testSnap, testStart>>

(* describeWithBlockRevert, after hook: asyncWeb3Send('evm_revert',       *)
(* [snapshot_id]); then the next describe block.                          *)
DescribeAfter ==
    /\ phase = "after"
    /\ EvmRevert(descSnap)
    /\ IF d < Len(Suite) THEN d' = d + 1 /\ phase' = "before"
                         ELSE phase' = "done" /\ UNCHANGED d
    /\ t' = 0
    /\ UNCHANGED <<done, descSnap, testSnap, testStart>>

SuiteFinished == phase = "done" /\ UNCHANGED tcVars

TCInit ==
    /\ log = << >>
    /\ snaps = << >>
    /\ live = {}
    /\ nextId = 1
    /\ d = 1 /\ t = 0
    /\ phase = "before"
    /\ done = 0
    /\ descSnap = 0 /\ testSnap = 0
    /\ testStart = << >>

TCNext ==
    \/ DescribeBefore \/ StartTest \/ BodyStep \/ BodyThrows \/ BodyReturns
    \/ TestRevert \/ DescribeAfter \/ SuiteFinished

TCSpec == TCInit /\ [][TCNext]_tcVars

-----------------------------------------------------------------------------
(* Between describe blocks the chain is the one the test run started     *)
(* with: the suite's revert undoes its plain tests and whatever a failing *)
(* wrapped test leaked, so no failure spreads to another describe block.  *)
DescribeRestoresChain ==
    phase \in {"before", "done"} => log = << >>

(* A test wrapped in itWithBlockRevert leaves the chain as it found it    *)
(* ("it test followed by blockchain revert"), passed or failed.           *)
WrappedTestLeavesNoTrace ==
    [][ (phase = "body" \/ phase = "revert") /\ Test.wrapped
        /\ phase' \in {"test", "after"}
        => log' = testStart ]_tcVars
=============================================================================
