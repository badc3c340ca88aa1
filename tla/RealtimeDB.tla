----------------------------- MODULE RealtimeDB -----------------------------
(***************************************************************************)
(* One location of the Firebase Realtime Database as the app uses it: a    *)
(* collection of children (the messages of a chat, the posts, the users)   *)
(* kept by the server, and on every device the client library that mirrors *)
(* it.  The library                                                        *)
(*                                                                         *)
(*   - records each setValue in its write tree and shows it to the app at  *)
(*     once, over the cache of what the server has sent (FRepo, FSyncTree, *)
(*     FWriteTree);                                                        *)
(*   - keeps each put until the server has answered it and sends it again  *)
(*     on every new connection (FPersistentConnection);                    *)
(*   - holds the answers of puts back while a listen is unanswered, so that*)
(*     a write never leaves the write tree before its data is in the cache;*)
(*   - tells the app of a changed snapshot by blocks on the main queue     *)
(*     (FView, FEventRaiser), which run long after the change.             *)
(*                                                                         *)
(* All of a device's library code runs on one serial dispatch queue: a     *)
(* handler is one action.  No disk persistence is enabled by the app, so a *)
(* killed process loses every write the server has not received.           *)
(***************************************************************************)
EXTENDS Naturals, Sequences, FiniteSets, Functions

(***************************************************************************)
(* A definition that starts with a comment "Bug:" is no part of the model: *)
(* it is a mistake the code could have made in the definition after it, on *)
(* which the properties are tried.                                         *)
(***************************************************************************)

CONSTANTS
    Device,         \* the running copies of the app
    Key,            \* the keys of the collection's children
    Value,          \* what a child can hold
    NoValue,        \* the absent child (a null node)
    Observer,       \* the blocks the app passes to observe(.value)
    MaxWrites,      \* bound: setValue calls of one run of the app
    MaxObservers,   \* bound: observe calls of one run of the app
    MaxFaults,      \* bound: lost connections and killed processes, all devices
    MaxRejects      \* bound: puts refused by the server's rules

ASSUME ValueAssumption == NoValue \notin Value
ASSUME BoundAssumption == {MaxWrites, MaxObservers, MaxFaults, MaxRejects} \subseteq Nat

Child    == Value \cup {NoValue}
Snapshot == [Key -> Child]
Write    == [id : Nat, key : Key, value : Value]
Answer   == [id : Nat, ok : BOOLEAN]

\* What a device sends: a listen on the collection, or a put of one child.
Request  == [type : {"listen"}] \cup [type : {"put"}, write : Write]

\* What it receives: the whole collection, one changed child, the end of a
\* listen, the answer to a put.
Push     ==      [type : {"data"}, snapshot : Snapshot]
            \cup [type : {"set"}, key : Key, value : Value]
            \cup [type : {"listenOk"}]
            \cup [type : {"answer"}, answer : Answer]

\* A block on the main queue: the observer and the snapshot it is called with.
Event    == [to : Observer, snapshot : Snapshot]

VARIABLES
    store,           \* the server's copy of the collection
    session,         \* the server's side of each device's connection
    up, down,        \* the connection's two directions, in order
    connected,       \* the library believes it is connected
    unackedListens,  \* listens sent and not yet answered
    writes,          \* FWriteTree.allWrites: writes shown over the cache
    outstandingPuts, \* puts without an answer
    putsToAck,       \* answers held back until every listen is answered
    nextWriteId,     \* FRepo's and FPersistentConnection's counters
    cache, complete, \* the server cache of the view, and whether it is complete
    registrations,   \* FView.eventRegistrations, inner views first
    events,          \* blocks dispatched to the main queue
    faults, rejects  \* how often each bounded misfortune has happened

serverVars == <<store, session>>
linkVars   == <<up, down, connected, unackedListens>>
putVars    == <<writes, outstandingPuts, putsToAck, nextWriteId>>
viewVars   == <<cache, complete, registrations, events>>
boundVars  == <<faults, rejects>>
dbVars     == <<serverVars, linkVars, putVars, viewVars, boundVars>>

Empty == [k \in Key |-> NoValue]

DBInit ==
    /\ store = Empty
    /\ session = [d \in Device |-> "closed"]
    /\ up = [d \in Device |-> <<>>]
    /\ down = [d \in Device |-> <<>>]
    /\ connected = [d \in Device |-> FALSE]
    /\ unackedListens = [d \in Device |-> 0]
    /\ writes = [d \in Device |-> {}]
    /\ outstandingPuts = [d \in Device |-> {}]
    /\ putsToAck = [d \in Device |-> <<>>]
    /\ nextWriteId = [d \in Device |-> 0]
    /\ cache = [d \in Device |-> Empty]
    /\ complete = [d \in Device |-> FALSE]
    /\ registrations = [d \in Device |-> <<>>]
    /\ events = [d \in Device |-> <<>>]
    /\ faults = 0
    /\ rejects = 0

-----------------------------------------------------------------------------
(* What the library shows: the cache with the pending writes over it, the  *)
(* newest write of a child hiding the older ones.                          *)

Newest(ws) == CHOOSE w \in ws : \A v \in ws : v.id <= w.id

Overlay(ws, base) ==
    [k \in Key |-> LET over == {w \in ws : w.key = k}
                   IN  IF over = {} THEN base[k] ELSE Newest(over).value]

View(d) == Overlay(writes[d], cache[d])

\* The blocks that tell every observer of device d of snapshot s.
Notices(d, s) ==
    [i \in 1 .. Len(registrations[d]) |-> [to |-> registrations[d][i], snapshot |-> s]]

\* Bug: a change without a block.
RaiseNothing(d, shown, full) == UNCHANGED events

\* A view that is complete, and changed or became so, tells its observers what
\* it shows now.
Raise(d, shown, full) ==
    events' = [events EXCEPT ![d] =
        IF full /\ (shown # View(d) \/ ~complete[d]) THEN @ \o Notices(d, shown) ELSE @]

\* ackPuts is running: the listens are answered and held back answers remain.
Acking(d) == connected[d] /\ unackedListens[d] = 0 /\ putsToAck[d] # <<>>

Listen == [type |-> "listen"]
Put(w) == [type |-> "put", write |-> w]

\* Bug: a new connection starts without the listens of the old one.
NoListens(d) == <<>>

\* What restoreState sends for the observers there are.
ListensToRestore(d) == IF registrations[d] = <<>> THEN <<>> ELSE <<Listen>>

\* Bug: what was sent on the old connection is not sent again.
NothingToResend(puts) == {<<>>}

\* Bug: the puts are resent from the newest to the oldest.
NewestPutFirst(puts) ==
    {s \in Bijection(1 .. Cardinality(puts), puts) :
        \A i, j \in DOMAIN s : i < j => s[i].id > s[j].id}

\* The puts in the order of their indices.
InIndexOrder(puts) ==
    {s \in Bijection(1 .. Cardinality(puts), puts) :
        \A i, j \in DOMAIN s : i < j => s[i].id < s[j].id}

-----------------------------------------------------------------------------
(* Calls of the app.                                                       *)

\* observe(.value) by observer r, whose place among the registrations is given
\* by regs.  The first observer makes the library listen, now if it is
\* connected and with restoreState if it is not.  A complete view calls the new
\* observer with what it shows.
Observe(d, r, regs) ==
    /\ ~Acking(d)
    /\ Len(registrations[d]) < MaxObservers
    /\ registrations' = [registrations EXCEPT ![d] = regs]
    /\ LET sendListen == registrations[d] = <<>> /\ connected[d] IN
         /\ up' = [up EXCEPT ![d] = IF sendListen THEN Append(@, Listen) ELSE @]
         /\ unackedListens' = [unackedListens EXCEPT ![d] = IF sendListen THEN @ + 1 ELSE @]
    /\ events' = [events EXCEPT ![d] =
                     IF complete[d] THEN Append(@, [to |-> r, snapshot |-> View(d)]) ELSE @]
    /\ UNCHANGED <<serverVars, down, connected, putVars, cache, complete, boundVars>>

\* An observer of the collection's parent, called after the inner views.
ObserveParent(d, r) == Observe(d, r, Append(registrations[d], r))

\* An observer of the collection itself, an inner view of the parent's.
ObserveChildren(d, r) == Observe(d, r, <<r>> \o registrations[d])

\* child(k).setValue(v): the write is shown at once and its put is sent if the
\* connection is up; otherwise it waits for restoreState.
SetValue(d, k, v) ==
    LET w == [id |-> nextWriteId[d], key |-> k, value |-> v] IN
    /\ ~Acking(d)
    /\ nextWriteId[d] < MaxWrites
    /\ nextWriteId' = [nextWriteId EXCEPT ![d] = @ + 1]
    /\ writes' = [writes EXCEPT ![d] = @ \cup {w}]
    /\ outstandingPuts' = [outstandingPuts EXCEPT ![d] = @ \cup {w}]
    /\ up' = [up EXCEPT ![d] = IF connected[d] THEN Append(@, Put(w)) ELSE @]
    /\ Raise(d, Overlay(writes[d] \cup {w}, cache[d]), complete[d])
    /\ UNCHANGED <<serverVars, down, connected, unackedListens, putsToAck,
                   cache, complete, registrations, boundVars>>

-----------------------------------------------------------------------------
(* The library's connection.                                               *)

\* The connection is established and authenticated: restoreState sends the
\* listen again, then every put without an answer, in the order of the indices.
Connect(d) ==
    /\ ~connected[d]
    /\ connected' = [connected EXCEPT ![d] = TRUE]
    /\ session' = [session EXCEPT ![d] = "idle"]
    /\ \E puts \in InIndexOrder(outstandingPuts[d]) :
          up' = [up EXCEPT ![d] = ListensToRestore(d) \o [i \in DOMAIN puts |-> Put(puts[i])]]
    /\ unackedListens' = [unackedListens EXCEPT ![d] = @ + Len(ListensToRestore(d))]
    /\ UNCHANGED <<store, down, putVars, viewVars, boundVars>>

\* Bug: the listens of the lost connection stay counted.
LoseConnectionCounting(d) ==
    /\ connected' = [connected EXCEPT ![d] = FALSE]
    /\ session' = [session EXCEPT ![d] = "closed"]
    /\ up' = [up EXCEPT ![d] = <<>>]
    /\ down' = [down EXCEPT ![d] = <<>>]
    /\ UNCHANGED unackedListens

\* Bug: what the lost connection delivered late is still taken.
LoseConnectionLate(d) ==
    /\ connected' = [connected EXCEPT ![d] = FALSE]
    /\ session' = [session EXCEPT ![d] = "closed"]
    /\ up' = [up EXCEPT ![d] = <<>>]
    /\ unackedListens' = [unackedListens EXCEPT ![d] = 0]
    /\ UNCHANGED down

LoseConnection(d) ==
    /\ connected' = [connected EXCEPT ![d] = FALSE]
    /\ session' = [session EXCEPT ![d] = "closed"]
    /\ up' = [up EXCEPT ![d] = <<>>]
    /\ down' = [down EXCEPT ![d] = <<>>]
    /\ unackedListens' = [unackedListens EXCEPT ![d] = 0]

\* Bug: the puts are purged with the connection, as purgeOutstandingWrites does
\* on request of the app.
DisconnectPurging(d) ==
    /\ connected[d] /\ ~Acking(d)
    /\ faults < MaxFaults
    /\ faults' = faults + 1
    /\ LoseConnection(d)
    /\ writes' = [writes EXCEPT ![d] = {}]
    /\ outstandingPuts' = [outstandingPuts EXCEPT ![d] = {}]
    /\ putsToAck' = [putsToAck EXCEPT ![d] = <<>>]
    /\ UNCHANGED <<store, nextWriteId, viewVars, rejects>>

\* The connection is lost with everything on it; no listen is unanswered any
\* more, and what was written, cached or held back stays.
Disconnect(d) ==
    /\ connected[d] /\ ~Acking(d)
    /\ faults < MaxFaults
    /\ faults' = faults + 1
    /\ LoseConnection(d)
    /\ UNCHANGED <<store, putVars, viewVars, rejects>>

\* Takes the next message of the server.
NextPush(d, type) ==
    /\ ~Acking(d)
    /\ down[d] # <<>>
    /\ Head(down[d]).type = type
    /\ down' = [down EXCEPT ![d] = Tail(@)]

\* The collection as a whole, the first part of the answer to a listen.
ReceiveData(d) ==
    /\ NextPush(d, "data")
    /\ LET data == Head(down[d]).snapshot IN
         /\ cache' = [cache EXCEPT ![d] = data]
         /\ Raise(d, Overlay(writes[d], data), TRUE)
    /\ complete' = [complete EXCEPT ![d] = TRUE]
    /\ UNCHANGED <<serverVars, up, connected, unackedListens, putVars, registrations, boundVars>>

Cached(d, set) == [cache[d] EXCEPT ![set.key] = set.value]

\* One child that somebody has set.
ReceiveSet(d) ==
    /\ NextPush(d, "set")
    /\ LET data == Cached(d, Head(down[d]))
       IN  /\ cache' = [cache EXCEPT ![d] = data]
           /\ Raise(d, Overlay(writes[d], data), complete[d])
    /\ UNCHANGED <<serverVars, up, connected, unackedListens, putVars,
                   complete, registrations, boundVars>>

\* The listen is answered; ackPuts follows if that was the last one.
ReceiveListenOk(d) ==
    /\ NextPush(d, "listenOk")
    /\ unackedListens' = [unackedListens EXCEPT ![d] = @ - 1]
    /\ UNCHANGED <<serverVars, up, connected, putVars, viewVars, boundVars>>

\* ackWrite: the write leaves the write tree and the cache shows through.  A
\* refused write leaves it in the same way.
AckWrite(d, answer) ==
    LET left == {w \in writes[d] : w.id # answer.id} IN
    /\ writes' = [writes EXCEPT ![d] = left]
    /\ Raise(d, Overlay(left, cache[d]), complete[d])

\* Bug: an answer that is held back does not complete its put.
StillOutstanding(d, answer) ==
    IF unackedListens[d] = 0 THEN {w \in outstandingPuts[d] : w.id # answer.id}
                             ELSE outstandingPuts[d]

Outstanding(d, answer) == {w \in outstandingPuts[d] : w.id # answer.id}

\* Bug: no answer waits for the listens.
NeverHeldBack(d) == FALSE

HeldBack(d) == unackedListens[d] # 0

\* The answer to a put: the put is no longer outstanding.  Its write is
\* acknowledged now, or held back while a listen is unanswered.
ReceiveAnswer(d) ==
    /\ NextPush(d, "answer")
    /\ LET answer == Head(down[d]).answer IN
         /\ outstandingPuts' = [outstandingPuts EXCEPT ![d] = Outstanding(d, answer)]
         /\ \/ /\ HeldBack(d)
               /\ putsToAck' = [putsToAck EXCEPT ![d] = Append(@, answer)]
               /\ UNCHANGED <<writes, events>>
            \/ /\ ~HeldBack(d)
               /\ AckWrite(d, answer)
               /\ UNCHANGED putsToAck
    /\ UNCHANGED <<serverVars, up, connected, unackedListens, nextWriteId,
                   cache, complete, registrations, boundVars>>

\* One turn of the loop of ackPuts.
AckPuts(d) ==
    /\ Acking(d)
    /\ AckWrite(d, Head(putsToAck[d]))
    /\ putsToAck' = [putsToAck EXCEPT ![d] = Tail(@)]
    /\ UNCHANGED <<serverVars, linkVars, outstandingPuts, nextWriteId,
                   cache, complete, registrations, boundVars>>

\* The process ends, by the user or by iOS, and starts again with nothing.
Kill(d) ==
    /\ faults < MaxFaults
    /\ faults' = faults + 1
    /\ LoseConnection(d)
    /\ writes' = [writes EXCEPT ![d] = {}]
    /\ outstandingPuts' = [outstandingPuts EXCEPT ![d] = {}]
    /\ putsToAck' = [putsToAck EXCEPT ![d] = <<>>]
    /\ nextWriteId' = [nextWriteId EXCEPT ![d] = 0]
    /\ cache' = [cache EXCEPT ![d] = Empty]
    /\ complete' = [complete EXCEPT ![d] = FALSE]
    /\ registrations' = [registrations EXCEPT ![d] = <<>>]
    /\ events' = [events EXCEPT ![d] = <<>>]
    /\ UNCHANGED <<store, rejects>>

-----------------------------------------------------------------------------
(* The server (not in the repository): it takes a connection's requests in *)
(* order, but may answer a listen after later puts of the connection.  A   *)
(* put is pushed to every listener, the writer's own listen included,      *)
(* before it is answered.                                                  *)

NextRequest(d, type) ==
    /\ up[d] # <<>>
    /\ Head(up[d]).type = type
    /\ up' = [up EXCEPT ![d] = Tail(@)]

ServerListen(d) ==
    /\ NextRequest(d, "listen")
    /\ session' = [session EXCEPT ![d] = "loading"]
    /\ UNCHANGED <<store, down, connected, unackedListens, putVars, viewVars, boundVars>>

ServerLoad(d) ==
    /\ session[d] = "loading"
    /\ session' = [session EXCEPT ![d] = "listening"]
    /\ down' = [down EXCEPT ![d] =
                   @ \o <<[type |-> "data", snapshot |-> store], [type |-> "listenOk"]>>]
    /\ UNCHANGED <<store, up, connected, unackedListens, putVars, viewVars, boundVars>>

AnswerTo(w, ok) == [type |-> "answer", answer |-> [id |-> w.id, ok |-> ok]]

ServerPut(d) ==
    /\ NextRequest(d, "put")
    /\ LET w == Head(up[d]).write
           pushed(e) == IF session[e] = "listening"
                        THEN <<[type |-> "set", key |-> w.key, value |-> w.value]>>
                        ELSE <<>>
           answered(e) == IF e = d THEN <<AnswerTo(w, TRUE)>> ELSE <<>>
       IN  /\ store' = [store EXCEPT ![w.key] = w.value]
           /\ down' = [e \in Device |-> down[e] \o pushed(e) \o answered(e)]
    /\ UNCHANGED <<session, connected, unackedListens, putVars, viewVars, boundVars>>

ServerReject(d) ==
    /\ NextRequest(d, "put")
    /\ rejects < MaxRejects
    /\ rejects' = rejects + 1
    /\ down' = [down EXCEPT ![d] = Append(@, AnswerTo(Head(up[d]).write, FALSE))]
    /\ UNCHANGED <<serverVars, connected, unackedListens, putVars, viewVars, faults>>

-----------------------------------------------------------------------------
(* The main queue runs its first block; what the block does is the app's.  *)

TakeEvent(d) ==
    /\ events[d] # <<>>
    /\ events' = [events EXCEPT ![d] = Tail(@)]
    /\ UNCHANGED <<serverVars, linkVars, putVars, cache, complete, registrations, boundVars>>

\* What happens on device d without the app or its user doing anything.
Library(d) ==
    \/ Connect(d)
    \/ ReceiveData(d) \/ ReceiveSet(d) \/ ReceiveListenOk(d) \/ ReceiveAnswer(d)
    \/ AckPuts(d)

Server(d) ==
    \/ ServerListen(d) \/ ServerLoad(d)
    \/ ServerPut(d) \/ ServerReject(d)

App(d) ==
    \/ \E r \in Observer : ObserveParent(d, r) \/ ObserveChildren(d, r)
    \/ \E k \in Key, v \in Value : SetValue(d, k, v)
    \/ TakeEvent(d)

DBNext == \E d \in Device :
    \/ App(d)
    \/ Library(d)
    \/ Server(d)
    \/ Disconnect(d)
    \/ Kill(d)

DBSpec == DBInit /\ [][DBNext]_dbVars

-----------------------------------------------------------------------------
(* Invariants.                                                             *)

\* Every variable holds what its declaration in the code allows.
DBTypeOK ==
    /\ store \in Snapshot
    /\ session \in [Device -> {"closed", "idle", "loading", "listening"}]
    /\ up \in [Device -> Seq(Request)]
    /\ down \in [Device -> Seq(Push)]
    /\ connected \in [Device -> BOOLEAN]
    /\ unackedListens \in [Device -> Nat]
    /\ writes \in [Device -> SUBSET Write]
    /\ outstandingPuts \in [Device -> SUBSET Write]
    /\ putsToAck \in [Device -> Seq(Answer)]
    /\ nextWriteId \in [Device -> Nat]
    /\ cache \in [Device -> Snapshot]
    /\ complete \in [Device -> BOOLEAN]
    /\ registrations \in [Device -> Seq(Observer)]
    /\ events \in [Device -> Seq(Event)]
    /\ faults \in Nat
    /\ rejects \in Nat

\* Where a listen of device d is under way: sent, being answered, answered.
OfType(s, type) == {i \in DOMAIN s : s[i].type = type}

ListensUp(d)   == OfType(up[d], "listen")
ListensDown(d) == OfType(down[d], "listenOk")

ListenUnderWay(d) == \/ ListensUp(d) # {}
                     \/ session[d] = "loading"
                     \/ ListensDown(d) # {}

AtMostOne(S) == \A x, y \in S : x = y

\* What is under way for device d agrees with its count of unanswered listens,
\* with the server's side of the connection and with its observers.
ListensAgree(d) ==
    /\ unackedListens[d] = IF ListenUnderWay(d) THEN 1 ELSE 0
    /\ AtMostOne(ListensUp(d)) /\ AtMostOne(ListensDown(d))
    /\ ListensUp(d) # {} => session[d] = "idle"
    /\ ListensDown(d) # {} => session[d] = "listening"
    /\ connected[d] =>
          IF registrations[d] = <<>> THEN session[d] = "idle" /\ ~ListenUnderWay(d)
                                    ELSE ListenUnderWay(d) \/ session[d] = "listening"
    /\ ~connected[d] => session[d] = "closed" /\ up[d] = <<>> /\ down[d] = <<>>

\* A device that observes has asked the server once on every connection, from
\* the first observer or from restoreState but never from both, and the count
\* of unanswered listens, on which every answer of a put depends, is exact: it
\* never falls below zero (FPersistentConnection.m:683 asserts it) and is zero
\* only when no listen is under way.
ListensCounted == \A d \in Device : ListensAgree(d)

\* The puts whose answer is held back on device d, and those whose answer is on
\* its way there.
AnswersDown(d) == OfType(down[d], "answer")
HeldIds(d)     == {putsToAck[d][i].id : i \in DOMAIN putsToAck[d]}
ArrivingIds(d) == {down[d][i].answer.id : i \in AnswersDown(d)}

\* The answers come back in the order of the writes, those held back first.
AnswersInOrder(d) ==
    /\ \A i, j \in DOMAIN putsToAck[d] : i < j => putsToAck[d][i].id < putsToAck[d][j].id
    /\ \A i, j \in AnswersDown(d) : i < j => down[d][i].answer.id < down[d][j].answer.id
    /\ \A h \in HeldIds(d), a \in ArrivingIds(d) : h < a

\* Across resends, lost connections and answers held back, a write stays in the
\* write tree exactly as long as its put is outstanding or its answer is held
\* back, and the server's answers come back once each and in the order of the
\* writes: so removeWriteId is never called for a write that is not there
\* (FWriteTree.m:125 asserts it) and no put is completed twice.
PutsAccountedFor ==
    \A d \in Device :
        LET outstandingIds == {w.id : w \in outstandingPuts[d]} IN
        /\ {w.id : w \in writes[d]} = HeldIds(d) \cup outstandingIds
        /\ outstandingPuts[d] \subseteq writes[d]
        /\ HeldIds(d) \cap outstandingIds = {}
        /\ ArrivingIds(d) \subseteq outstandingIds
        /\ AnswersInOrder(d)

\* Nothing is under way between device d and the server.
Quiet(d) ==
    /\ session[d] = "listening"
    /\ up[d] = <<>> /\ down[d] = <<>>

\* A listening device with nothing under way has no write left to be answered
\* and shows exactly what the server stores, whatever was lost, sent twice,
\* refused or written by others before.
QuietMirrorsStore ==
    \A d \in Device : Quiet(d) /\ ~Acking(d) => /\ writes[d] = {}
                                                /\ View(d) = store
=============================================================================
