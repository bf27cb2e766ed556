----------------------------- MODULE MC_Signing -----------------------------
(***************************************************************************)
(* Two participants signing two payloads (a state and an authorization).   *)
(***************************************************************************)
EXTENDS Signing

CONSTANTS A, B, St, Auth

MC_Accounts == {A, B}
MC_Data == {St, Auth}
=============================================================================
