------------------------------ MODULE MCAccount ------------------------------
(***************************************************************************)
(* Small instances of Account for TLC.                                     *)
(***************************************************************************)
EXTENDS Account, TLC

AccountSymmetry == Permutations(Device) \cup Permutations(Account)
=============================================================================
