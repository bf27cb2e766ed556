------------------------- MODULE AbstractAdjudicator -------------------------
(***************************************************************************)
(* What the Adjudicator promises, without its clock: a channel is open,    *)
(* disputed (its refutation window is open), expired (the window has       *)
(* closed) or closed, and a channel past open has a committed state.  The  *)
(* window closes once and never reopens; the committed state changes to a  *)
(* signed state of higher version only while it is open, and to the app's  *)
(* successor only once it has closed; a channel closes only once expired,   *)
(* together with the sub-channels its committed state locks, all of them   *)
(* expired or closed; a signed final state closes a channel at any time; a *)
(* closed channel never changes again; and every dispute is eventually     *)
(* closed.                                                                 *)
(***************************************************************************)
EXTENDS Naturals, Sequences, FiniteSets, SequencesExt

CONSTANTS Channel, Part, HasApp, Signed, MaxBal

VARIABLES status, committed

absVars == <<status, committed>>

\* The channels locked, directly or further down, by a list of SubAllocs
\* through the committed states.
RECURSIVE Subtree(_, _)
Subtree(locked, depth) ==
    IF depth = 0 THEN {}
    ELSE UNION {{l.ID} \cup
                  (IF status[l.ID] # "open"
                   THEN Subtree(committed[l.ID].locked, depth - 1) ELSE {})
                : l \in ToSet(locked)}

Below(c) == Subtree(committed[c].locked, Cardinality(Channel))

Dispute(c, s) ==
    /\ status[c] = "open"
    /\ s \in Signed /\ s.channelID = c
    /\ status' = [status EXCEPT ![c] = "disputed"]
    /\ committed' = [committed EXCEPT ![c] = s]

\* The refutation window of some disputed channels closes.
Expire ==
    \E E \in SUBSET {c \in Channel : status[c] = "disputed"} :
        /\ E # {}
        /\ status' = [c \in Channel |-> IF c \in E THEN "expired" ELSE status[c]]
        /\ UNCHANGED committed

Refute(c, s) ==
    /\ status[c] = "disputed"
    /\ s \in Signed /\ s.channelID = c
    /\ s.version > committed[c].version
    /\ committed' = [committed EXCEPT ![c] = s]
    /\ UNCHANGED status

Advance(c) ==
    LET old == committed[c]
    IN /\ status[c] = "expired"
       /\ HasApp[c]
       /\ ~old.isFinal /\ old.locked = << >>
       /\ \E bal \in [Part -> 0..MaxBal], fin \in BOOLEAN :
             /\ FoldFunction(+, 0, bal) = FoldFunction(+, 0, old.bal)
             /\ committed' = [committed EXCEPT ![c] =
                   [old EXCEPT !.version = old.version + 1, !.bal = bal, !.isFinal = fin]]
       /\ UNCHANGED status

Close(c) ==
    /\ status[c] = "expired"
    /\ \A x \in Below(c) : status[x] \in {"expired", "closed"}
    /\ status' = [x \in Channel |-> IF x \in Below(c) \cup {c} THEN "closed" ELSE status[x]]
    /\ UNCHANGED committed

CloseFinal(c, s) ==
    /\ status[c] # "closed"
    /\ s \in Signed /\ s.channelID = c /\ s.isFinal /\ s.locked = << >>
    /\ status' = [status EXCEPT ![c] = "closed"]
    /\ committed' = [committed EXCEPT ![c] = s]

AbsInit ==
    /\ status = [c \in Channel |-> "open"]
    /\ committed = [c \in Channel |-> "none"]

AbsNext ==
    \/ \E c \in Channel, s \in Signed : Dispute(c, s) \/ Refute(c, s) \/ CloseFinal(c, s)
    \/ \E c \in Channel : Advance(c) \/ Close(c)
    \/ Expire

AbsSpec ==
    /\ AbsInit /\ [][AbsNext]_absVars
    /\ WF_absVars(Expire)
    /\ \A c \in Channel : WF_absVars(Close(c))
=============================================================================
