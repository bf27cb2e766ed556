----------------------------- MODULE MC_Harness -----------------------------
(***************************************************************************)
(* The deployment migration (Migration) and the test harness's snapshot   *)
(* discipline (MC_TestChain), checked in one run.  They share no state:   *)
(* the migration is modelled under `truffle migrate` with its reruns, the *)
(* describe blocks over the node's log.  Their steps interleave here only *)
(* so that one model covers both; each keeps its own fairness.           *)
(***************************************************************************)
EXTENDS Migration, MC_TestChain

hVars == <<migVars, tcVars>>

HInit == MigInit /\ TCInit

HNext == \/ MigNext /\ UNCHANGED tcVars
         \/ TCNext /\ UNCHANGED migVars

HSpec == HInit /\ [][HNext]_hVars /\ MigFairness
=============================================================================
