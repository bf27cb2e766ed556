----------------------------- MODULE Adjudicator -----------------------------
(***************************************************************************)
(* The on-chain dispute state machine of a Perun channel.  One dispute     *)
(* record per channel ID moves DISPUTE -> FORCEEXEC -> CONCLUDED (a        *)
(* channel without app goes DISPUTE -> CONCLUDED).  The Solidity contract  *)
(* is not part of the repository; every guard below is the one the        *)
(* truffle test suite src/test/Adjudicator.ts pins with a passing or a     *)
(* reverting call, completed from the specification where the tests are   *)
(* silent (see README).                                                    *)
(*                                                                         *)
(* Data abstraction: a channel ID is a model value (channelID = hash of    *)
(* the encoded Params, collision free), a participant is its index in      *)
(* params.participants, a signature is membership of the signed state in   *)
(* Signed (signed by every participant), and the committed stateHash is    *)
(* the state itself.  There is one asset, so Allocation.balances is a      *)
(* single vector and SubAlloc.balances a single amount.                    *)
(***************************************************************************)
EXTENDS Naturals, Sequences, FiniteSets, SequencesExt

CONSTANTS
    Channel,            \* channel IDs
    Part,               \* participant indices 1..N of params.participants
    HasApp,             \* [Channel -> BOOLEAN]: params.app # zeroAddress
    ChallengeDuration,  \* params.challengeDuration (the tests' `timeout`)
    Signed,             \* the states signed by every participant (off-chain history)
    MaxVersion,         \* bound on the versions forced progression may reach
    MaxBal              \* bound on a single balance

VARIABLES
    disputes,           \* Adjudicator.disputes: channel ID -> dispute record
    now                 \* block.timestamp

adjVars == <<disputes, now>>

Phases == {"DISPUTE", "FORCEEXEC", "CONCLUDED"}

\* Channel.State with one asset; locked is the sequence of SubAllocs.
SubAllocs == [ID : Channel, balances : Nat]
States == [channelID : Channel, version : Nat, isFinal : BOOLEAN,
           bal : [Part -> 0..MaxBal], locked : Seq(SubAllocs)]

\* disputes[c] before the first successful register or concludeFinal.
NoDispute == [phase |-> "NONE"]

Disputes == [timeout : Nat, stateHash : States, version : Nat,
             hasApp : BOOLEAN, phase : Phases]

Registered(c) == disputes[c] # NoDispute

\* Mutant: conclude ignores the FORCEEXEC window of a channel with app.
MutDeadlineNoForceExec(d) == d.timeout

\* The earliest time conclude accepts the record: a DISPUTE-phase channel
\* with app first has to sit out the FORCEEXEC window as well.
Deadline(d) ==
    IF d.phase = "DISPUTE" /\ d.hasApp THEN d.timeout + ChallengeDuration
                                        ELSE d.timeout

\* Mutant: only the directly locked sub-channels are read.
MutSubChannelsDirect(locked) == [i \in DOMAIN locked |-> locked[i].ID]

\* The sub-channel IDs conclude reads from subStates, in the order the
\* contract consumes them: depth first, each sub-channel before its own
\* sub-channels (the ledger test passes sub0, sub1, sub2, sub3).
RECURSIVE SubChannels(_)
SubChannels(locked) ==
    IF locked = <<>> THEN <<>>
    ELSE LET id    == Head(locked).ID
             below == IF Registered(id)
                      THEN SubChannels(disputes[id].stateHash.locked)
                      ELSE <<>>
         IN <<id>> \o below \o SubChannels(Tail(locked))

\* Mutant: the outcome is the channel's own balances, without the
\* sub-channels' shares.
MutAccumulatedOwnOnly(c) == disputes[c].stateHash.bal

\* The outcome conclude pushes: the channel's own balances plus, per
\* participant, the balances of every sub-channel state of the tree.
Accumulated(c) ==
    LET s    == disputes[c].stateHash
        subs == SubChannels(s.locked)
    IN [p \in Part |->
          s.bal[p] + SumFunction([i \in DOMAIN subs |->
                                    disputes[subs[i]].stateHash.bal[p]])]

-----------------------------------------------------------------------------
\* Mutant: a refutation is accepted after the timeout.
MutRegisterLate(c, s) ==
    /\ s \in Signed
    /\ s.channelID = c
    /\ \/ /\ ~Registered(c)
          /\ disputes' = [disputes EXCEPT ![c] =
                [timeout |-> now + ChallengeDuration, stateHash |-> s,
                 version |-> s.version, hasApp |-> HasApp[c],
                 phase |-> "DISPUTE"]]
       \/ /\ Registered(c)
          /\ disputes[c].phase = "DISPUTE"
          /\ s.version > disputes[c].version
          /\ disputes' = [disputes EXCEPT ![c].stateHash = s,
                                          ![c].version = s.version]
    /\ UNCHANGED now

\* Mutant: a refutation is accepted whatever its version.
MutRegisterAnyVersion(c, s) ==
    /\ s \in Signed
    /\ s.channelID = c
    /\ \/ /\ ~Registered(c)
          /\ disputes' = [disputes EXCEPT ![c] =
                [timeout |-> now + ChallengeDuration, stateHash |-> s,
                 version |-> s.version, hasApp |-> HasApp[c],
                 phase |-> "DISPUTE"]]
       \/ /\ Registered(c)
          /\ disputes[c].phase = "DISPUTE"
          /\ now < disputes[c].timeout
          /\ disputes' = [disputes EXCEPT ![c].stateHash = s,
                                          ![c].version = s.version]
    /\ UNCHANGED now

\* Mutant: the channel ID of the state is not checked against the params.
MutRegisterAnyChannel(c, s) ==
    /\ s \in Signed
    /\ \/ /\ ~Registered(c)
          /\ disputes' = [disputes EXCEPT ![c] =
                [timeout |-> now + ChallengeDuration, stateHash |-> s,
                 version |-> s.version, hasApp |-> HasApp[c],
                 phase |-> "DISPUTE"]]
       \/ /\ Registered(c)
          /\ disputes[c].phase = "DISPUTE"
          /\ now < disputes[c].timeout
          /\ s.version > disputes[c].version
          /\ disputes' = [disputes EXCEPT ![c].stateHash = s,
                                          ![c].version = s.version]
    /\ UNCHANGED now

(* register(params, state, sigs): first registration or refutation.        *)
Register(c, s) ==
    /\ s \in Signed
    /\ s.channelID = c
    /\ \/ /\ ~Registered(c)
          /\ disputes' = [disputes EXCEPT ![c] =
                [timeout |-> now + ChallengeDuration, stateHash |-> s,
                 version |-> s.version, hasApp |-> HasApp[c],
                 phase |-> "DISPUTE"]]
       \/ /\ Registered(c)
          /\ disputes[c].phase = "DISPUTE"
          /\ now < disputes[c].timeout
          /\ s.version > disputes[c].version
          /\ disputes' = [disputes EXCEPT ![c].stateHash = s,
                                          ![c].version = s.version]
    /\ UNCHANGED now

\* Mutant: progress is accepted in DISPUTE before the timeout.
MutProgressBeforeTimeout(c, actor, bal, isFinal) ==
    LET d   == disputes[c]
        old == d.stateHash
        new == [old EXCEPT !.version = old.version + 1,
                           !.bal = bal, !.isFinal = isFinal]
    IN /\ Registered(c)
       /\ d.hasApp
       /\ \/ d.phase = "DISPUTE"
          \/ d.phase = "FORCEEXEC" /\ now < d.timeout
       /\ ~old.isFinal
       /\ old.locked = <<>>
       /\ old.version < MaxVersion
       /\ actor \in Part
       /\ SumFunction(bal) = SumFunction(old.bal)
       /\ disputes' = [disputes EXCEPT ![c] =
             [d EXCEPT !.stateHash = new, !.version = new.version,
                       !.timeout = now + ChallengeDuration,
                       !.phase = "FORCEEXEC"]]
       /\ UNCHANGED now

(* progress(params, oldState, newState, actorIdx, sig): the actor signs a  *)
(* successor of the committed state that the app accepts.  The app is     *)
(* opaque (the tests deploy TrivialApp, which accepts every transition),  *)
(* so the successor's balances and finality are any that conserve funds.  *)
(* Neither state may lock funds in sub-channels.                          *)
Progress(c, actor, bal, isFinal) ==
    LET d   == disputes[c]
        old == d.stateHash
        new == [old EXCEPT !.version = old.version + 1,
                           !.bal = bal, !.isFinal = isFinal]
    IN /\ Registered(c)
       /\ d.hasApp
       /\ \/ d.phase = "DISPUTE" /\ now >= d.timeout
          \/ d.phase = "FORCEEXEC" /\ now < d.timeout
       /\ ~old.isFinal
       /\ old.locked = <<>>
       /\ old.version < MaxVersion
       /\ actor \in Part
       /\ SumFunction(bal) = SumFunction(old.bal)
       /\ disputes' = [disputes EXCEPT ![c] =
             [d EXCEPT !.stateHash = new, !.version = new.version,
                       !.timeout = now + ChallengeDuration,
                       !.phase = "FORCEEXEC"]]
       /\ UNCHANGED now

\* Mutant: concludeFinal does not check that the channel is still open.
MutConcludeFinalAfterConclude(c, s) ==
    /\ s \in Signed
    /\ s.channelID = c
    /\ s.isFinal
    /\ s.locked = <<>>
    /\ disputes' = [disputes EXCEPT ![c] =
          [timeout |-> now, stateHash |-> s, version |-> s.version,
           hasApp |-> HasApp[c], phase |-> "CONCLUDED"]]
    /\ UNCHANGED now

\* Mutant: concludeFinal keeps a registered state of higher version.
MutConcludeFinalKeepsHigher(c, s) ==
    /\ s \in Signed
    /\ s.channelID = c
    /\ s.isFinal
    /\ s.locked = <<>>
    /\ ~Registered(c) \/ disputes[c].phase # "CONCLUDED"
    /\ LET keep == Registered(c) /\ disputes[c].version > s.version
           t    == IF keep THEN disputes[c].stateHash ELSE s
       IN disputes' = [disputes EXCEPT ![c] =
             [timeout |-> now, stateHash |-> t, version |-> t.version,
              hasApp |-> HasApp[c], phase |-> "CONCLUDED"]]
    /\ UNCHANGED now

(* concludeFinal(params, state, sigs): a final state signed by all ends   *)
(* the channel at once, whatever is registered.                           *)
ConcludeFinal(c, s) ==
    /\ s \in Signed
    /\ s.channelID = c
    /\ s.isFinal
    /\ s.locked = <<>>
    /\ ~Registered(c) \/ disputes[c].phase # "CONCLUDED"
    /\ disputes' = [disputes EXCEPT ![c] =
          [timeout |-> now, stateHash |-> s, version |-> s.version,
           hasApp |-> HasApp[c], phase |-> "CONCLUDED"]]
    /\ UNCHANGED now

\* Every sub-channel of the tree is registered and either concluded or
\* past its own deadline.
SubChannelsConcludable(c) ==
    \A i \in DOMAIN SubChannels(disputes[c].stateHash.locked) :
        LET id == SubChannels(disputes[c].stateHash.locked)[i]
        IN /\ Registered(id)
           /\ disputes[id].phase = "CONCLUDED" \/ now >= Deadline(disputes[id])

\* Mutant: a channel with app concludes only from FORCEEXEC, as spec 4.3
\* words the timeout path.
MutConcludeOnlyAfterForceExec(c) ==
    LET subs == ToSet(SubChannels(disputes[c].stateHash.locked))
    IN /\ Registered(c)
       /\ disputes[c].phase # "CONCLUDED"
       /\ disputes[c].hasApp => disputes[c].phase = "FORCEEXEC"
       /\ now >= Deadline(disputes[c])
       /\ SubChannelsConcludable(c)
       /\ disputes' = [x \in Channel |->
             IF x \in subs \cup {c}
             THEN [disputes[x] EXCEPT !.phase = "CONCLUDED"]
             ELSE disputes[x]]
       /\ UNCHANGED now

(* conclude(params, state, subStates): after the deadline the committed   *)
(* state and the committed states of its whole sub-channel tree become    *)
(* final together.                                                        *)
Conclude(c) ==
    LET subs == ToSet(SubChannels(disputes[c].stateHash.locked))
    IN /\ Registered(c)
       /\ disputes[c].phase # "CONCLUDED"
       /\ now >= Deadline(disputes[c])
       /\ SubChannelsConcludable(c)
       /\ disputes' = [x \in Channel |->
             IF x \in subs \cup {c}
             THEN [disputes[x] EXCEPT !.phase = "CONCLUDED"]
             ELSE disputes[x]]
       /\ UNCHANGED now

(* The block timestamp advances (advanceBlockTime in the tests).  Only    *)
(* comparisons with pending deadlines observe it, so it advances while    *)
(* some unconcluded channel still has a deadline ahead.                   *)
Tick ==
    /\ \E c \in Channel : /\ Registered(c)
                          /\ disputes[c].phase # "CONCLUDED"
                          /\ now < Deadline(disputes[c])
    /\ now' = now + 1
    /\ UNCHANGED disputes

\* Every channel is concluded: nothing is left to do.
Terminated ==
    /\ \A c \in Channel : Registered(c) /\ disputes[c].phase = "CONCLUDED"
    /\ UNCHANGED adjVars

AdjInit ==
    /\ disputes = [c \in Channel |-> NoDispute]
    /\ now = 0

AdjNext ==
    \/ \E c \in Channel, s \in Signed : Register(c, s)
    \/ \E c \in Channel, a \in Part, b \in [Part -> 0..MaxBal], f \in BOOLEAN :
          Progress(c, a, b, f)
    \/ \E c \in Channel, s \in Signed : ConcludeFinal(c, s)
    \/ \E c \in Channel : Conclude(c)
    \/ Tick
    \/ Terminated

(* Participants watch the chain: a registration, a conclusion or a clock  *)
(* tick that stays possible is eventually submitted or mined.  Forced     *)
(* progression is the app's business and gets no fairness.               *)
AdjFairness ==
    /\ WF_adjVars(Tick)
    /\ \A c \in Channel : WF_adjVars(\E s \in Signed : Register(c, s))
    /\ \A c \in Channel : WF_adjVars(Conclude(c))

AdjSpec == AdjInit /\ [][AdjNext]_adjVars /\ AdjFairness

-----------------------------------------------------------------------------
TypeOK ==
    /\ disputes \in [Channel -> Disputes \cup {NoDispute}]
    /\ \A c \in Channel : Registered(c) => disputes[c].stateHash.channelID = c
    /\ now \in Nat

(* Register and progress only ever replace the committed state of an      *)
(* open dispute by one of strictly higher version (stale states are       *)
(* rejected); only a final state may end a channel on a lower version.    *)
CommittedVersionIncreases ==
    [][\A c \in Channel :
         (Registered(c) /\ disputes'[c].phase # "CONCLUDED"
                        /\ disputes'[c].stateHash # disputes[c].stateHash)
         => disputes'[c].version > disputes[c].version
      ]_adjVars

(* No channel, ledger or sub-channel, is concluded from a non-final state *)
(* while its participants may still refute (DISPUTE before the timeout)   *)
(* or force progress (the FORCEEXEC window of a channel with app).        *)
NoConclusionInResponseWindow ==
    [][\A c \in Channel :
         (/\ Registered(c)
          /\ disputes[c].phase # "CONCLUDED"
          /\ disputes'[c].phase = "CONCLUDED"
          /\ ~disputes'[c].stateHash.isFinal)
         => \/ disputes[c].phase = "FORCEEXEC" /\ now >= disputes[c].timeout
            \/ /\ disputes[c].phase = "DISPUTE"
               /\ now >= disputes[c].timeout
               /\ disputes[c].hasApp => now >= disputes[c].timeout + ChallengeDuration
      ]_adjVars

\* The sub-channel IDs below a list of SubAllocs, read independently of
\* SubChannels (as a set, through the registered records).
RECURSIVE TreeBelow(_, _)
TreeBelow(locked, depth) ==
    IF depth = 0 THEN {}
    ELSE UNION {{l.ID} \cup
                  (IF Registered(l.ID)
                   THEN TreeBelow(disputes[l.ID].stateHash.locked, depth - 1)
                   ELSE {})
                : l \in ToSet(locked)}

(* A concluded channel's outcome includes its sub-channels' outcomes, so  *)
(* every sub-channel in the tree below a concluded state is concluded too *)
(* (the ledger test asserts CONCLUDED for all four sub-channels).         *)
SubtreeConcluded ==
    \A c \in Channel :
        (Registered(c) /\ disputes[c].phase = "CONCLUDED")
        => \A id \in TreeBelow(disputes[c].stateHash.locked,
                               Cardinality(Channel)) :
              Registered(id) /\ disputes[id].phase = "CONCLUDED"

(* Every registered dispute is eventually concluded: nobody can keep a    *)
(* channel open by withholding forced progression.                        *)
RegisteredEventuallyConcluded ==
    \A c \in Channel :
        Registered(c) ~> (Registered(c) /\ disputes[c].phase = "CONCLUDED")

-----------------------------------------------------------------------------
(* Refinement: the dispute records seen as the abstract channel of        *)
(* AbstractAdjudicator.  A channel without a record is open, a CONCLUDED   *)
(* one closed, a FORCEEXEC one or a DISPUTE one past its timeout expired,  *)
(* any other disputed; the committed state is the registered stateHash.    *)
(* The clock and the timeouts are hidden: Tick is the abstract Expire of   *)
(* the channels whose timeout it reaches, or a stuttering step.            *)
AbsStatus ==
    [c \in Channel |-> IF ~Registered(c) THEN "open"
                       ELSE IF disputes[c].phase = "CONCLUDED" THEN "closed"
                       ELSE IF disputes[c].phase = "FORCEEXEC"
                               \/ now >= disputes[c].timeout THEN "expired"
                       ELSE "disputed"]

AbsCommitted ==
    [c \in Channel |-> IF Registered(c) THEN disputes[c].stateHash ELSE "none"]

Abs == INSTANCE AbstractAdjudicator WITH status <- AbsStatus, committed <- AbsCommitted

(* The Adjudicator implements the abstract channel: register, progress,   *)
(* concludeFinal, conclude and the clock each move the committed state and *)
(* status only as the abstract channel allows: a higher signed version     *)
(* only inside the refutation window (a register racing the timeout loses),*)
(* an app successor only after it, a window that never reopens, closing    *)
(* only after the window with the whole locked tree, never reopening or    *)
(* rewriting a closed channel; and every dispute is eventually closed.     *)
AdjImplementsAbstract == Abs!AbsSpec

=============================================================================
