---------------------------- MODULE SharedBoard ----------------------------
(***************************************************************************)
(* What the Realtime Database promises the app about its writes, without   *)
(* connections, queues or caches: a board of one value per key that all    *)
(* devices share, and on every device a list of pending writes.            *)
(*                                                                         *)
(* A pending write reaches the board in the order in which the device made *)
(* its writes, possibly more than once, or is refused; after a reply it is *)
(* settled, again in that order; and it is lost only with its process.     *)
(***************************************************************************)
EXTENDS Naturals

CONSTANTS Device, Key, Value, NoValue

Write == [id : Nat, key : Key, value : Value]

VARIABLES
    board,      \* the value of every key
    pending,    \* the writes of each device that are not settled
    replied     \* the ids of those the device is to be told the outcome of

boardVars == <<board, pending, replied>>

BoardInit ==
    /\ board = [k \in Key |-> NoValue]
    /\ pending = [d \in Device |-> {}]
    /\ replied = [d \in Device |-> {}]

Issue(d, w) ==
    /\ \A v \in pending[d] : v.id < w.id
    /\ pending' = [pending EXCEPT ![d] = @ \cup {w}]
    /\ UNCHANGED <<board, replied>>

\* The writes that device d made before w.
Before(d, w) == {v \in pending[d] : v.id < w.id}

\* Whether w is the next write of device d to be decided.
Due(d, w) ==
    /\ w \in pending[d] /\ w.id \notin replied[d]
    /\ \A v \in Before(d, w) : v.id \in replied[d]

Reply(d, w) == replied' = [replied EXCEPT ![d] = @ \cup {w.id}]

Commit(d, w) ==
    /\ Due(d, w)
    /\ board' = [board EXCEPT ![w.key] = w.value]
    /\ Reply(d, w)
    /\ UNCHANGED pending

Refuse(d, w) ==
    /\ Due(d, w)
    /\ Reply(d, w)
    /\ UNCHANGED <<board, pending>>

\* Replies are lost with the connection; their writes are to be made again.
LoseReplies(d) ==
    /\ \E kept \in SUBSET replied[d] : replied' = [replied EXCEPT ![d] = kept]
    /\ UNCHANGED <<board, pending>>

Settle(d, w) ==
    /\ w \in pending[d] /\ w.id \in replied[d]
    /\ Before(d, w) = {}
    /\ pending' = [pending EXCEPT ![d] = @ \ {w}]
    /\ replied' = [replied EXCEPT ![d] = @ \ {w.id}]
    /\ UNCHANGED board

\* The process of the device ends.
Abandon(d) ==
    /\ pending' = [pending EXCEPT ![d] = {}]
    /\ replied' = [replied EXCEPT ![d] = {}]
    /\ UNCHANGED board

BoardNext == \E d \in Device :
    \/ LoseReplies(d) \/ Abandon(d)
    \/ \E w \in pending[d] : Commit(d, w) \/ Refuse(d, w) \/ Settle(d, w)
    \/ \E w \in pending'[d] : w \in Write /\ Issue(d, w)

BoardSpec == BoardInit /\ [][BoardNext]_boardVars
=============================================================================
