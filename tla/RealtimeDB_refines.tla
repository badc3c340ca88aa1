------------------------- MODULE RealtimeDB_refines -------------------------
(***************************************************************************)
(* RealtimeDB implements SharedBoard: the server's copy is the board, the  *)
(* write tree holds the pending writes, and the replies are the answers on *)
(* their way to a device or held back there.                               *)
(***************************************************************************)
EXTENDS RealtimeDB

Replied(d) == HeldIds(d) \cup ArrivingIds(d)

Board == INSTANCE SharedBoard WITH
    board   <- store,
    pending <- writes,
    replied <- [d \in Device |-> Replied(d)]

\* The promise about writes holds of the library on its connections: whatever
\* restoreState sends again, whatever ackPuts holds back and whatever a lost
\* connection takes with it, the writes of a device are decided one after the
\* other, settled only after a reply and in order, and given up only by a killed
\* process.
ImplementsBoard == Board!BoardSpec
=============================================================================
