----------------------------- MODULE MCPosting -----------------------------
(***************************************************************************)
(* Small instances of Posting for TLC.                                     *)
(***************************************************************************)
EXTENDS Posting, TLC

\* The posts of the instance, the values of its collection.
MCValue == [uid : Device, time : Key, contentText : BOOLEAN, imageLink : BOOLEAN]

DeviceSymmetry == Permutations(Device)
=============================================================================
