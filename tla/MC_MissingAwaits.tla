-------------------------- MODULE MC_MissingAwaits --------------------------
(***************************************************************************)
(* The two blocks of the suites whose calls are not awaited, checked in    *)
(* one run: the underfunded-channel block of the asset holder suite        *)
(* (MC_UnderfundedTest) and the progress block of the Adjudicator suite    *)
(* (ProgressTest).  They run in different test files and share no state;   *)
(* their steps interleave here only so that one model covers both.         *)
(***************************************************************************)
EXTENDS MC_UnderfundedTest, ProgressTest

maVars == <<utVars, ptVars>>

MAInit == UTInit /\ PTInit

MANext == \/ UTNext /\ UNCHANGED ptVars
          \/ PTNext /\ UNCHANGED utVars

MASpec == MAInit /\ [][MANext]_maVars
=============================================================================
