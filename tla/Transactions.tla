---------------------------- MODULE Transactions ----------------------------
(***************************************************************************)
(* The transactions of FRepo beside its sets, over a parent and its        *)
(* children.  The handlers of FRepo run on one serial queue and call each  *)
(* other, so each is an operator from the client's state to the client's   *)
(* state, and an action is what one event sets off.  The app observes the  *)
(* parent all along and its data has arrived; a transaction's own observer *)
(* changes nothing then.  Every transaction increments what is at its      *)
(* place, or aborts when a child has reached Limit.                        *)
(*                                                                         *)
(* An operation of the sync tree returns events, and raising them is a call *)
(* of its own: the order of these calls is what the app is told last.      *)
(***************************************************************************)
EXTENDS WriteTree

CONSTANTS
    MaxTransactions,   \* runTransactionBlock calls
    LocalEvents,       \* the values of withLocalEvents the app uses
    Limit,             \* the block aborts at this value
    MaxRetries,        \* kFTransactionMaxRetries, 25 in the code
    MaxDisturbances    \* setValue calls, changes by other clients, lost
                       \* connections and puts the rules refuse, together

ASSUME TransactionsAssumption ==
    /\ MaxTransactions \in Nat /\ LocalEvents \subseteq BOOLEAN
    /\ Limit \in Nat /\ MaxRetries \in Nat \ {0} /\ MaxDisturbances \in Nat

Transaction == 1 .. MaxTransactions

VARIABLES
    client,      \* FRepo with its sync tree and its connection
    store,       \* the server's data
    listening,   \* the server has taken the connection's listen
    answers,     \* messages of the server on the connection
    executed,    \* how often the server executed each transaction
    disturbances

remoteVars == <<store, listening, answers, executed>>
transactionVars == <<client, remoteVars, disturbances>>

New == [path |-> Parent, status |-> "new", applyLocally |-> TRUE, retryCount |-> 0,
        currentWriteId |-> 0, output |-> [c \in {} |-> 0], outcome |-> "none"]

TransactionsInit ==
    /\ store = [c \in Child |-> 0]
    /\ client = [cache |-> store, tree |-> EmptyTree, nextWriteId |-> 1,
                 shown |-> store, events |-> <<>>, told |-> store,
                 transactions |-> [t \in Transaction |-> New],
                 queues |-> [p \in Place |-> <<>>],
                 outstandingPuts |-> <<>>, requests |-> <<>>, connected |-> TRUE]
    /\ listening = TRUE
    /\ answers = <<>>
    /\ executed = [t \in Transaction |-> 0]
    /\ disturbances = 0

Disturbed ==
    /\ disturbances < MaxDisturbances
    /\ disturbances' = disturbances + 1

-----------------------------------------------------------------------------
(* The sync tree.                                                          *)

\* latestStateAtPath:excludeWriteIds:
LatestState(c, path, excluded) == CompleteEventCache(c.tree, path, c.cache, excluded)

\* The view of the parent shows new data; the events have its snapshot.  Of the
\* events that are raised together the last one counts.
Show(c, data) ==
    LET shown == Shadow(c.shown, data) IN
    [c EXCEPT !.shown = shown, !.events = IF shown = c.shown THEN @ ELSE <<shown>>]

\* The view after a change of what is under its writes, at a path.
Reevaluate(c, path) ==
    IF ShadowingWriteAt(c.tree, path)
    THEN c
    ELSE Show(c, Restrict(EventCache(c.tree, c.cache), Under(path)))

\* applyUserOverwriteAtPath with the next write id.
ApplyUserOverwrite(c, path, data, visible) ==
    LET written == [c EXCEPT !.tree = AddOverwrite(@, [id |-> c.nextWriteId, path |-> path,
                                                       data |-> data, visible |-> visible]),
                             !.nextWriteId = @ + 1]
    IN  IF visible THEN Show(written, data) ELSE written

\* ackUserWriteWithWriteId
AckUserWrite(c, id) ==
    LET path == WriteForId(c.tree, id).path
        removed == RemoveWriteId(c.tree, id)
        acked == [c EXCEPT !.tree = removed.tree]
    IN  IF removed.wasVisible THEN Reevaluate(acked, path) ELSE acked

\* applyServerOverwriteAtPath
ApplyServerOverwrite(c, path, data) == Reevaluate([c EXCEPT !.cache = Shadow(@, data)], path)

\* raiseEvents, with the events since the last call or with earlier ones.
Raise(c, events) == [c EXCEPT !.told = IF events = <<>> THEN @ ELSE events[1]]
ForgetEvents(c) == [c EXCEPT !.events = <<>>]
RaiseEvents(c) == ForgetEvents(Raise(c, c.events))

\* putData: the put is outstanding, and sent if there is a connection.
PutData(c, put) ==
    LET sending == [put EXCEPT !.sent = c.connected] IN
    [c EXCEPT !.outstandingPuts = Append(@, sending),
              !.requests = IF c.connected THEN Append(@, sending) ELSE @]

-----------------------------------------------------------------------------
(* The transaction queue tree.                                             *)

\* A finite set of numbers in ascending order, and what is left of a sequence.
InOrder(S) == [i \in 1 .. Cardinality(S) |->
                  CHOOSE n \in S : Cardinality({m \in S : m < n}) = i - 1]
Among(seq, S) ==
    LET kept == InOrder({i \in DOMAIN seq : seq[i] \in S}) IN [i \in DOMAIN kept |-> seq[kept[i]]]

QueueTreeIsEmpty(c) == \A p \in Place : c.queues[p] = <<>>

\* buildTransactionQueueAtNode: the transactions at and below, oldest first.
QueueAt(c, path) ==
    InOrder(UNION {Range(c.queues[p]) : p \in {q \in Place : Covers(path, q)}})

\* Bug: what is over stays in its queue.
PruneNothing(c, path) == c

\* pruneCompletedTransactionsBelowNode
Prune(c, path) ==
    [c EXCEPT !.queues = [p \in Place |->
        IF Covers(path, p)
        THEN Among(c.queues[p], {t \in Transaction : c.transactions[t].status # "completed"})
        ELSE c.queues[p]]]

\* getAncestorTransactionNodeForPath: the uppermost node with a queue on the
\* way to the path, the path itself if there is none.
AncestorNode(c, path) == IF c.queues[Parent] # <<>> THEN Parent ELSE path

AllRun(c, queue) == \A t \in Range(queue) : c.transactions[t].status = "run"

WriteIdsOf(c, queue) == {c.transactions[t].currentWriteId : t \in Range(queue)}

SentAgain(tx) == [tx EXCEPT !.status = "sent", !.retryCount = @ + 1]

\* sendTransactionQueue: the outputs of the queue over the latest state, with
\* that state as the hash.
SendTransactionQueue(c, queue, path) ==
    LET latest == LatestState(c, path, WriteIdsOf(c, queue))
        data == FoldLeft(Shadow, latest, [i \in DOMAIN queue |-> c.transactions[queue[i]].output])
        sent == [c EXCEPT !.transactions = [t \in Transaction |->
                    IF t \in Range(queue) THEN SentAgain(@[t]) ELSE @[t]]]
    IN  PutData(sent, [type |-> "transaction", path |-> path, data |-> data, hash |-> latest,
                       queue |-> queue, id |-> 0, sent |-> FALSE])

\* One node of sendReadyTransactionsForTree: a queue goes out as a whole, and
\* only when no transaction of it is on its way.
SendReady(c, path) ==
    LET queue == QueueAt(c, path) IN
    IF c.queues[path] # <<>> /\ AllRun(c, queue) THEN SendTransactionQueue(c, queue, path) ELSE c

\* Below a node with a queue nothing is sent on its own.
SendAllReadyTransactions(client0) ==
    LET c == Prune(client0, Parent) IN
    IF c.queues[Parent] # <<>> THEN SendReady(c, Parent)
                               ELSE FoldLeft(SendReady, c, SetToSeq(Child))

\* The transaction is over and its completion block is called.
Finish(c, t, outcome) ==
    [c EXCEPT !.transactions[t].status = "completed", !.transactions[t].outcome = outcome]

-----------------------------------------------------------------------------
(* Running the blocks.                                                     *)

Succeeds(data) == \A c \in DOMAIN data : data[c] < Limit
Updated(data) == [c \in DOMAIN data |-> data[c] + 1]

\* The output of a transaction becomes a pending write.
WriteOutput(c, t, output) ==
    LET tx == c.transactions[t] IN
    ApplyUserOverwrite(
        [c EXCEPT !.transactions[t].output = output,
                  !.transactions[t].currentWriteId = c.nextWriteId],
        tx.path, output, tx.applyLocally)

\* What rerunTransactionQueue does with one transaction, but for the events.  A
\* sent one is left as it is.
Ran(pass, t) ==
    LET c == pass.client
        tx == c.transactions[t]
        input == LatestState(c, tx.path, pass.excluded)
        aborted(outcome) ==
            [pass EXCEPT !.client = Finish(AckUserWrite(c, tx.currentWriteId), t, outcome)]
    IN  CASE tx.status = "needsAbort" -> aborted(tx.outcome)
          [] tx.status = "run" /\ tx.retryCount >= MaxRetries -> aborted("tooManyRetries")
          [] tx.status = "run" /\ tx.retryCount < MaxRetries /\ ~Succeeds(input) -> aborted("aborted")
          [] tx.status = "run" /\ tx.retryCount < MaxRetries /\ Succeeds(input) ->
                [pass EXCEPT
                    !.client = AckUserWrite(WriteOutput(c, t, Updated(input)), tx.currentWriteId),
                    !.excluded = @ \ {tx.currentWriteId}]
          [] OTHER -> pass

\* The array of events is nil after the first transaction: what is added to it
\* for the others is gone, and raising it raises nothing.
Rerun(pass, t) ==
    [Ran(pass, t) EXCEPT !.first = FALSE,
                         !.client = IF pass.first THEN RaiseEvents(@) ELSE ForgetEvents(@)]

\* Bug: what has run again is not sent.
RerunOnly(c, queue) ==
    LET pass == [client |-> c, excluded |-> WriteIdsOf(c, queue), first |-> TRUE] IN
    Prune(FoldLeft(Rerun, pass, queue).client, Parent)

\* rerunTransactionQueue leaves out the writes of the whole queue at first,
\* "since we're re-running all of them".
RerunTransactionQueue(c, queue) ==
    LET pass == [client |-> c, excluded |-> WriteIdsOf(c, queue), first |-> TRUE] IN
    IF queue = <<>> THEN c ELSE SendAllReadyTransactions(FoldLeft(Rerun, pass, queue).client)

RerunTransactionsForPath(c, changedPath) ==
    IF QueueTreeIsEmpty(c) THEN c ELSE RerunTransactionQueue(c, QueueAt(c, AncestorNode(c, changedPath)))

\* Events of the sync tree make the transactions run again, and are raised after
\* the events of that.
RerunIfChanged(c, path) ==
    IF c.events = <<>>
    THEN c
    ELSE Raise(RerunTransactionsForPath(ForgetEvents(c), path), c.events)

-----------------------------------------------------------------------------
(* A set aborts the transactions above and below it.                       *)

\* Bug: one that is on its way is over, too.
AbortSentToo(pass, t) ==
    [pass EXCEPT !.client =
        Finish(AckUserWrite(@, @.transactions[t].currentWriteId), t, "set")]

\* One transaction of abortTransactionsAtNode.  One that is on its way is
\* only marked; lastSent counts those that are marked now.
Abort(pass, t) ==
    LET c == pass.client
        tx == c.transactions[t]
    IN  CASE tx.status = "sentNeedsAbort" -> pass
          [] tx.status = "sent" ->
                [client |-> [c EXCEPT !.transactions[t].status = "sentNeedsAbort",
                                      !.transactions[t].outcome = "set"],
                 marked |-> pass.marked + 1]
          [] OTHER -> [pass EXCEPT !.client = Finish(AckUserWrite(c, tx.currentWriteId), t, "set")]

\* The queue keeps as many transactions as were marked.
AbortTransactionsAtNode(c, path) ==
    LET pass == FoldLeft(Abort, [client |-> c, marked |-> 0], c.queues[path])
    IN  RaiseEvents([pass.client EXCEPT !.queues[path] = SubSeq(@, 1, pass.marked)])

NodesToAbort(path) == IF path = Parent THEN <<Parent>> \o SetToSeq(Child) ELSE <<Parent, path>>

AbortTransactionsAtPath(c, path) == FoldLeft(AbortTransactionsAtNode, c, NodesToAbort(path))

-----------------------------------------------------------------------------
(* Calls of the app.                                                       *)

\* Transactions are numbered in the order in which the app starts them.
Unused(t) ==
    /\ client.transactions[t].status = "new"
    /\ \A u \in 1 .. t - 1 : client.transactions[u].status # "new"

Queued(queue, t) == Append(queue, t)

\* startTransactionOnPath, which runs the block at once.
StartTransactionOnPath(t, path, applyLocally) ==
    /\ Unused(t)
    /\ LET input == LatestState(client, path, {})
           started == [client EXCEPT !.transactions[t].path = path,
                                     !.transactions[t].applyLocally = applyLocally]
           queued == [started EXCEPT !.transactions[t].status = "run",
                                     !.queues[path] = Queued(@, t)]
       IN  client' = IF Succeeds(input)
                     THEN SendAllReadyTransactions(RaiseEvents(WriteOutput(queued, t, Updated(input))))
                     ELSE Finish(started, t, "aborted")
    /\ UNCHANGED <<remoteVars, disturbances>>

\* set:withNode: removes what is at the path: the write, the put, and then the
\* transactions.
SetValue(path) ==
    /\ Disturbed
    /\ LET data == [c \in Under(path) |-> 0]
           written == RaiseEvents(ApplyUserOverwrite(client, path, data, TRUE))
           put == [type |-> "set", path |-> path, data |-> data, hash |-> data,
                   queue |-> <<>>, id |-> client.nextWriteId, sent |-> FALSE]
           affected == AncestorNode(client, path)
       IN  client' = RerunTransactionsForPath(
                         AbortTransactionsAtPath(PutData(written, put), path), affected)
    /\ UNCHANGED remoteVars

-----------------------------------------------------------------------------
(* Answers.                                                                *)

\* The transactions of a put that was not executed are no longer sent: they are
\* run again if their data was stale, unless they are marked, and over otherwise.
StatusAfter(answer, status) ==
    IF answer = "datastale" /\ status # "sentNeedsAbort" THEN "run" ELSE "needsAbort"
Failed(tx, answer) ==
    [tx EXCEPT !.status = StatusAfter(answer, @),
               !.outcome = IF answer = "datastale" THEN @ ELSE answer]

Marked(c, put, answer) ==
    [c EXCEPT !.transactions = [t \in Transaction |->
        IF t \in Range(put.queue) THEN Failed(@[t], answer) ELSE @[t]]]

\* Bug: the write stays in the tree.
CommittedKeeping(c, t) == Finish(c, t, "committed")

\* The transactions of a put that the server executed are over.
Committed(c, t) == Finish(AckUserWrite(c, c.transactions[t].currentWriteId), t, "committed")

\* The callback that sendTransactionQueue gives to putData.
TransactionAnswered(c, put, status) ==
    IF status = "ok"
    THEN LET committed == FoldLeft(Committed, c, put.queue)
             sent == SendAllReadyTransactions(Prune(ForgetEvents(committed), put.path))
         IN  Raise(RerunTransactionsForPath(sent, put.path), committed.events)
    ELSE RerunTransactionsForPath(Marked(c, put, status), put.path)

\* ackWrite: the write of a set leaves the tree, whatever the answer.
SetAnswered(c, put) == RerunIfChanged(AckUserWrite(c, put.id), put.path)

Answered(c, put, status) ==
    IF put.type = "transaction" THEN TransactionAnswered(c, put, status) ELSE SetAnswered(c, put)

\* The answer to the oldest put of the connection.
ReceiveAnswer ==
    /\ answers # <<>> /\ Head(answers).type = "answer"
    /\ answers' = Tail(answers)
    /\ LET put == Head(client.outstandingPuts)
       IN  client' = Answered([client EXCEPT !.outstandingPuts = Tail(@)], put, Head(answers).status)
    /\ UNCHANGED <<store, listening, executed, disturbances>>

\* onDataUpdate
ReceiveData ==
    /\ answers # <<>> /\ Head(answers).type = "data"
    /\ answers' = Tail(answers)
    /\ LET message == Head(answers)
       IN  client' = RerunIfChanged(ApplyServerOverwrite(client, message.path, message.data),
                                    message.path)
    /\ UNCHANGED <<store, listening, executed, disturbances>>

-----------------------------------------------------------------------------
(* The connection.                                                         *)

Disconnected(c, put) == TransactionAnswered(c, put, "disconnect")

\* cancelSentTransactions, on the way of onDisconnect: what was sent may have
\* been executed.  The puts are enumerated from a dictionary, in any order.
LoseConnection ==
    /\ client.connected
    /\ Disturbed
    /\ LET puts == Range(client.outstandingPuts)
           cancelled == {put \in puts : put.type = "transaction" /\ put.sent}
           offline == [client EXCEPT !.connected = FALSE, !.requests = <<>>,
                                     !.outstandingPuts = Among(@, puts \ cancelled)]
       IN  \E order \in SetToSeqs(cancelled) : client' = FoldLeft(Disconnected, offline, order)
    /\ listening' = FALSE
    /\ answers' = <<>>
    /\ UNCHANGED <<store, executed>>

\* restoreState: the listen, and then all puts in the order of their indices.
Connect ==
    /\ ~client.connected
    /\ LET puts == [i \in DOMAIN client.outstandingPuts |->
                        [client.outstandingPuts[i] EXCEPT !.sent = TRUE]]
       IN  client' = [client EXCEPT !.connected = TRUE, !.outstandingPuts = puts,
                                    !.requests = <<[type |-> "listen"]>> \o puts]
    /\ UNCHANGED <<remoteVars, disturbances>>

-----------------------------------------------------------------------------
(* The server (not in the repository) takes requests in order and pushes   *)
(* what changes before it answers.                                         *)

Push(path, data) == IF listening THEN <<[type |-> "data", path |-> path, data |-> data]>> ELSE <<>>
Reply(status) == <<[type |-> "answer", status |-> status]>>

NextRequest(types) ==
    /\ client.requests # <<>>
    /\ Head(client.requests).type \in types
    /\ client' = [client EXCEPT !.requests = Tail(@)]

ServeListen ==
    /\ NextRequest({"listen"})
    /\ listening' = TRUE
    /\ answers' = Append(answers, [type |-> "data", path |-> Parent, data |-> store])
    /\ UNCHANGED <<store, executed, disturbances>>

ServePut ==
    /\ NextRequest({"set", "transaction"})
    /\ LET put == Head(client.requests) IN
         IF put.type = "set" \/ Restrict(store, Under(put.path)) = put.hash
         THEN /\ store' = Shadow(store, put.data)
              /\ answers' = answers \o Push(put.path, put.data) \o Reply("ok")
              /\ executed' = [t \in Transaction |->
                                 executed[t] + IF t \in Range(put.queue) THEN 1 ELSE 0]
         ELSE /\ answers' = answers \o Reply("datastale")
              /\ UNCHANGED <<store, executed>>
    /\ UNCHANGED <<listening, disturbances>>

RefusePut ==
    /\ NextRequest({"set", "transaction"})
    /\ Disturbed
    /\ answers' = answers \o Reply("permission_denied")
    /\ UNCHANGED <<store, listening, executed>>

\* Another client increments a child.
ForeignChange(child) ==
    /\ Disturbed
    /\ store' = [store EXCEPT ![child] = @ + 1]
    /\ answers' = answers \o Push(child, [c \in {child} |-> store[child] + 1])
    /\ UNCHANGED <<client, listening, executed>>

-----------------------------------------------------------------------------
Progress == Connect \/ ServeListen \/ ServePut \/ ReceiveData \/ ReceiveAnswer

App ==
    \/ \E t \in Transaction, path \in Place, applyLocally \in LocalEvents :
          StartTransactionOnPath(t, path, applyLocally)
    \/ \E path \in Place : SetValue(path)

TransactionsNext ==
    \/ App
    \/ Progress
    \/ RefusePut
    \/ LoseConnection
    \/ \E child \in Child : ForeignChange(child)

TransactionsSpec == TransactionsInit /\ [][TransactionsNext]_transactionVars

-----------------------------------------------------------------------------
(* Properties.                                                             *)

Statuses == {"new", "run", "sent", "sentNeedsAbort", "needsAbort", "completed"}
Underway(t) == client.transactions[t].status \notin {"new", "completed"}

\* A transaction whose queue was emptied under it.
Dropped(t) == Underway(t) /\ \A p \in Place : t \notin Range(client.queues[p])

\* The types of the client's transactions and queues; every transaction waits
\* in the queue of its own place, once, and what is completed waits nowhere.
TransactionsTypeOK ==
    /\ \A t \in Transaction :
         /\ client.transactions[t].status \in Statuses
         /\ client.transactions[t].path \in Place
         /\ client.transactions[t].retryCount \in 0 .. MaxRetries
    /\ \A p \in Place : IsInjective(client.queues[p]) /\
         \A t \in Range(client.queues[p]) : Underway(t) /\ client.transactions[t].path = p
    /\ DOMAIN store = Child /\ DOMAIN client.cache = Child

\* The write tree has the write of every set that is outstanding and of every
\* transaction that is not over, and no other: removeWriteId always finds its
\* write, and no write stays behind.
WritesAccountedFor ==
    /\ WriteIds(client.tree) =
         {put.id : put \in {p \in Range(client.outstandingPuts) : p.type = "set"}}
         \cup {client.transactions[t].currentWriteId : t \in {u \in Transaction : Underway(u)}}
    /\ Len(client.tree.allWrites) = Cardinality(WriteIds(client.tree))

\* A transaction is executed once at most.  Its completion block tells the
\* truth: committed if it was executed, and not if it was not, unless the
\* connection was lost while it was on its way.
OutcomeTold ==
    \A t \in Transaction :
       LET tx == client.transactions[t] IN
       /\ executed[t] <= 1
       /\ tx.status = "run" => executed[t] = 0
       /\ tx.status = "completed" /\ tx.outcome = "committed" => executed[t] = 1
       /\ tx.status = "completed" /\ tx.outcome \notin {"committed", "disconnect"} => executed[t] = 0

\* Nothing is under way between the client and the server.
Quiet == client.connected /\ listening /\ client.requests = <<>> /\ answers = <<>>

\* With nothing under way nothing is left waiting: every transaction is over and
\* the view of the app has the server's data.  Left out are transactions that were
\* dropped, and views over writes without local events, which can come to light.
\* The app was last told what its view has; left out is the case of two transactions,
\* as the events of all but the first that are run again are lost (FRepo.m:933).
QuietIsSettled ==
    Quiet => /\ client.outstandingPuts = <<>>
             /\ \A t \in Transaction : Underway(t) => Dropped(t)
             /\ client.cache = store
             /\ (\A t \in Transaction : client.transactions[t].applyLocally /\ ~Dropped(t)) =>
                   client.shown = store
             /\ Cardinality({t \in Transaction : client.transactions[t].status # "new"}) < 2 =>
                   client.told = client.shown

\* runTransactionBlock: when the client had stale data, "your block will be run
\* again with the latest data from the server".  The data a put carries is what the
\* blocks of its queue make of the state whose hash it carries.
NoStaleOutput ==
    \A put \in {p \in Range(client.outstandingPuts) : p.type = "transaction"} :
       \A c \in Under(put.path) :
          put.data[c] = put.hash[c] +
             Cardinality({t \in Range(put.queue) : c \in Under(client.transactions[t].path)})
=============================================================================
