----------------------------- MODULE MCChatSync -----------------------------
(***************************************************************************)
(* Small instances of ChatSync for TLC.                                    *)
(***************************************************************************)
EXTENDS ChatSync, TLC

\* The messages of the instance, the values of its collection.
MCValue == [uID : Device, time : Key, content : Content \cup {""}]
MCObserver == 0 .. MaxObservers

DeviceSymmetry == Permutations(Device)
=============================================================================
