----------------------------- MODULE MC_Helpers -----------------------------
(***************************************************************************)
(* The conversions of the JavaScript helpers checked together: sign()      *)
(* (Signing), wei2eth and ether (Units), incrementVersion (VersionNumber). *)
(* They share no state, so each is exercised on its own inputs while the   *)
(* others rest on a fixed one: the signatures grow from every initial      *)
(* state, and an initial state varies either the amount or the version.    *)
(***************************************************************************)
EXTENDS MC_Signing, Units, VersionNumber

\* The version the others rest on.
RestVersion == Plus(1, 0)

HelpersInit ==
    /\ SigInit
    /\ \/ UnitsInit /\ version = RestVersion
       \/ amount = 0 /\ VersionInit

HelpersNext == SigNext /\ UNCHANGED <<amount, version>>

HelpersSpec == HelpersInit /\ [][HelpersNext]_<<sigs, amount, version>>
=============================================================================
