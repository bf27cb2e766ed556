---------------------------- MODULE MC_TestChain ----------------------------
(***************************************************************************)
(* The shape of the Adjudicator "progress" suite: a plain test whose       *)
(* effects the later tests build on, then tests wrapped in                 *)
(* itWithBlockRevert that advance time and send transactions ("progress    *)
(* after timeout fails", "progress in CONCLUDED fails"); then a second     *)
(* suite like "concludeFinal bypasses ongoing dispute".                    *)
(***************************************************************************)
EXTENDS TestChain

Plain(n) == [wrapped |-> FALSE, steps |-> n]
Wrapped(n) == [wrapped |-> TRUE, steps |-> n]

MC_Suite == << << Plain(1), Wrapped(2), Wrapped(1) >>,
               << Wrapped(1), Plain(1) >> >>
=============================================================================
