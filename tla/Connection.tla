----------------------------- MODULE Connection -----------------------------
(***************************************************************************)
(* One client's persistent connection: FPersistentConnection with the      *)
(* FConnection, the FIRRetryHelper and the token provider under it.  It    *)
(* goes from disconnected through fetching a token, connecting and         *)
(* authenticating to connected, and back whenever the network, the server, *)
(* the user or the app says so.  Listens and puts outlive a connection;    *)
(* the blocks waiting for answers do not.                                  *)
(*                                                                         *)
(* RealtimeDB takes this module's four stages below "connected" for one    *)
(* and models what the messages say; here only their coming and going      *)
(* counts.  Every block runs on the library's serial queue, so a handler   *)
(* is one step.  How long a retry waits is left out: it may run any time   *)
(* after it was scheduled.  The token provider is FIRAuth: it answers a    *)
(* fetch for the user who was signed in when it took the fetch up, whoever *)
(* is signed in by then.  When removeWriteId does not find its write, an   *)
(* exception ends the process.                                             *)
(***************************************************************************)
EXTENDS Integers, FiniteSets, Sequences, SequencesExt

CONSTANTS
    Query,              \* the queries the app listens on
    MaxCalls,           \* bound: calls of the app
    MaxDisturbances     \* bound: faults, wake-ups and changes of the account

ASSUME ConnectionBounds == MaxCalls \in Nat /\ MaxDisturbances \in Nat

VARIABLES
    connectionState,
    interruptReasons,           \* why no connection is wanted
    scheduledRetry,             \* forceRefresh of the scheduled block, if there is one
    fetches,                    \* token fetches under way
    currentFetchTokenAttempt,
    signedIn,                   \* FIRAuth: whether the latest user is still signed in
    tokens,                     \* FIRAuth: the newest token of each user, in the order they signed in
    issued,                     \* external: the newest token of all
    refused,                    \* external: tokens up to this are not accepted
    authToken,
    sessionToken,               \* the last credential sent on this connection
    forceAuthTokenRefresh,
    requestCBHash,              \* the requests whose answers are awaited, oldest first
    listens,
    unackedListensCount,
    outstandingPuts,
    putCounter,
    putsToAck,                  \* answered puts held back for unanswered listens
    allWrites,                  \* the puts whose writes are in the write tree
    assertionFailed,            \* removeWriteId has missed a write: the process is gone
    completions,                \* history: how often each put's block has run
    sends,                      \* history: how often each put was sent
    calls, disturbances

stageVars   == <<connectionState, interruptReasons, scheduledRetry, fetches,
                 currentFetchTokenAttempt>>
accountVars == <<signedIn, tokens, issued, refused>>
tokenVars   == <<authToken, sessionToken, forceAuthTokenRefresh>>
listenVars  == <<listens, unackedListensCount>>
putVars     == <<outstandingPuts, putCounter, putsToAck, allWrites, assertionFailed,
                 completions, sends>>
boundVars   == <<calls, disturbances>>
connectionVars == <<stageVars, accountVars, tokenVars, requestCBHash, listenVars, putVars, boundVars>>

State  == {"disconnected", "gettingToken", "connecting", "authenticating", "connected"}
Reason == {"waiting_for_open", "repo_interrupt", "server_kill"}

\* Index numbers the calls that make a put or a listen; users are numbered as they
\* sign in, tokens as they are issued.
Index   == 1 .. MaxCalls
Token   == Nat
NoToken == 0
Nobody  == 0

Put       == [index : Index, transaction : BOOLEAN, sent : BOOLEAN]
Listen    == [query : Query, spec : Index]
Fetch     == [attempt : Nat, force : BOOLEAN, asked : BOOLEAN, user : Nat]
Requests  ==      [type : {"auth"}, token : Token, restore : BOOLEAN]
             \cup [type : {"listen"}, listen : Listen]
             \cup [type : {"put"}, index : Index]

\* The methods connected and canSendWrites, and whether realtime is set.
Established   == connectionState \in {"authenticating", "connected"}
CanSendWrites == connectionState = "connected"
Realtime      == connectionState \in {"connecting", "authenticating", "connected"}

\* Who is signed in, and the token the provider has.
CurrentUser   == IF signedIn THEN Len(tokens) ELSE Nobody
TokenOf(user) == IF user = Nobody THEN NoToken ELSE tokens[user]
Current       == TokenOf(CurrentUser)

ConnectionInit ==
    /\ connectionState = "disconnected"
    /\ interruptReasons = {"waiting_for_open"}
    /\ scheduledRetry = {} /\ fetches = {} /\ currentFetchTokenAttempt = 0
    /\ signedIn \in BOOLEAN /\ tokens = <<1>> /\ issued = 1 /\ refused = 0
    /\ authToken = NoToken /\ sessionToken = NoToken
    /\ forceAuthTokenRefresh = FALSE
    /\ requestCBHash = <<>> /\ listens = {} /\ unackedListensCount = 0
    /\ outstandingPuts = {} /\ putCounter = 0 /\ putsToAck = {} /\ allWrites = {}
    /\ assertionFailed = FALSE
    /\ completions = [i \in Index |-> 0] /\ sends = [i \in Index |-> 0]
    /\ calls = 0 /\ disturbances = 0

-----------------------------------------------------------------------------
Called ==
    /\ calls < MaxCalls
    /\ calls' = calls + 1
    /\ UNCHANGED disturbances

Disturbed ==
    /\ disturbances < MaxDisturbances
    /\ disturbances' = disturbances + 1
    /\ UNCHANGED calls

(* Blocks of puts. *)

Indices(puts) == {p.index : p \in puts}

Ran(indices, count) == [i \in Index |-> IF i \in indices THEN count[i] + 1 ELSE count[i]]

\* The blocks of puts: whatever the answer was, FRepo takes the write out of the
\* tree, which must have it.
RunBlocks(puts) ==
    /\ completions' = Ran(Indices(puts), completions)
    /\ allWrites' = allWrites \ Indices(puts)
    /\ assertionFailed' = ~(Indices(puts) \subseteq allWrites)

\* Bug: what was held back stays held back.
AckPutsAgain == RunBlocks(putsToAck) /\ UNCHANGED putsToAck

AckPuts == RunBlocks(putsToAck) /\ putsToAck' = {}

\* Bug: transactions are resent like any put.
SentNothing == {}

\* A transaction that was sent cannot be sent again: it may have been executed.
SentTransactions == {p \in outstandingPuts : p.transaction /\ p.sent}

CancelSentTransactions ==
    LET cancelled == SentTransactions IN
    /\ outstandingPuts' = outstandingPuts \ cancelled
    /\ RunBlocks(cancelled)
    /\ UNCHANGED <<putCounter, putsToAck, sends>>

-----------------------------------------------------------------------------
(* Scheduling. *)

\* retry and cancel of FIRRetryHelper: one block is scheduled at most.
Retry(force) == scheduledRetry' = {force}
CancelRetry  == scheduledRetry' = {}

\* The block captures forceAuthTokenRefresh, which is cleared.
TryScheduleReconnect(reasons, force) ==
    IF reasons = {}
      THEN Retry(force) /\ forceAuthTokenRefresh' = FALSE
      ELSE forceAuthTokenRefresh' = force /\ UNCHANGED scheduledRetry

\* Bug: the count survives the connection it counts on.
StillUnacked == unackedListensCount

UnackedAfterLoss == 0

\* Bug: a late answer still finds its block.
LateAnswers == requestCBHash

RequestsAfterLoss == <<>>

\* onDisconnect, with the reasons and the flag the caller has just set.
OnDisconnect(reasons, force) ==
    /\ connectionState' = "disconnected"
    /\ interruptReasons' = reasons
    /\ CancelSentTransactions
    /\ requestCBHash' = RequestsAfterLoss
    /\ unackedListensCount' = UnackedAfterLoss
    /\ sessionToken' = NoToken
    /\ TryScheduleReconnect(reasons, force)
    /\ UNCHANGED <<fetches, currentFetchTokenAttempt, listens>>

\* The scheduled block: asks the provider for a token.
RetryFires ==
    \E force \in scheduledRetry :
       /\ scheduledRetry' = {}
       /\ connectionState' = "gettingToken"
       /\ currentFetchTokenAttempt' = currentFetchTokenAttempt + 1
       /\ fetches' = fetches \cup
            {[attempt |-> currentFetchTokenAttempt + 1, force |-> force,
              asked |-> FALSE, user |-> Nobody]}
       /\ UNCHANGED <<interruptReasons, accountVars, tokenVars, requestCBHash,
                      listenVars, putVars, boundVars>>

IsLatest(fetch) == fetch.attempt = currentFetchTokenAttempt

\* Bug: the token is used although the connection was interrupted meanwhile.
AlwaysWanted == TRUE

TokenWanted == connectionState = "gettingToken"

\* The provider takes the fetch up, for the user it has now.
GetToken(fetch) ==
    /\ ~fetch.asked
    /\ fetches' = (fetches \ {fetch}) \cup {[fetch EXCEPT !.asked = TRUE, !.user = CurrentUser]}
    /\ UNCHANGED <<connectionState, interruptReasons, scheduledRetry, currentFetchTokenAttempt,
                   accountVars, tokenVars, requestCBHash, listenVars, putVars, boundVars>>

\* A forced fetch for somebody is answered when there is a new token.
MayAnswer(fetch) == fetch.asked /\ (fetch.force => fetch.user = Nobody)

\* The token arrives: the newest of the user it was asked for.
FetchSucceeds(fetch) ==
    /\ MayAnswer(fetch)
    /\ fetches' = fetches \ {fetch}
    /\ IF IsLatest(fetch) /\ TokenWanted
         THEN connectionState' = "connecting" /\ authToken' = TokenOf(fetch.user)
         ELSE UNCHANGED <<connectionState, authToken>>
    /\ UNCHANGED <<interruptReasons, scheduledRetry, currentFetchTokenAttempt, accountVars,
                   sessionToken, forceAuthTokenRefresh, requestCBHash,
                   listenVars, putVars, boundVars>>

FetchFails(fetch) ==
    /\ Disturbed
    /\ fetch.asked /\ fetch.user # Nobody
    /\ fetches' = fetches \ {fetch}
    /\ IF IsLatest(fetch)
         THEN /\ connectionState' = "disconnected"
              /\ TryScheduleReconnect(interruptReasons, forceAuthTokenRefresh)
         ELSE UNCHANGED <<connectionState, scheduledRetry, forceAuthTokenRefresh>>
    /\ UNCHANGED <<interruptReasons, currentFetchTokenAttempt, accountVars, authToken,
                   sessionToken, requestCBHash, listenVars, putVars>>

\* Bug: the connection is wanted again and nobody asks for it.
NobodySchedules(reasons) == UNCHANGED <<scheduledRetry, forceAuthTokenRefresh>>

\* Bug: a retry is scheduled beside the connection there is.
ScheduleAnyway(reasons) == TryScheduleReconnect(reasons, forceAuthTokenRefresh)

ScheduleWhenIdle(reasons) ==
    IF connectionState = "disconnected"
      THEN TryScheduleReconnect(reasons, forceAuthTokenRefresh)
      ELSE UNCHANGED <<scheduledRetry, forceAuthTokenRefresh>>

\* goOnline, and open.
ResumeForReason(reason) ==
    /\ reason \in interruptReasons
    /\ interruptReasons' = interruptReasons \ {reason}
    /\ ScheduleWhenIdle(interruptReasons')
    /\ UNCHANGED <<connectionState, fetches, currentFetchTokenAttempt, accountVars, authToken,
                   sessionToken, requestCBHash, listenVars, putVars, boundVars>>

\* The network becomes reachable, or the app comes to the foreground.
Wakes ==
    /\ Disturbed
    /\ ScheduleWhenIdle(interruptReasons)
    /\ UNCHANGED <<connectionState, interruptReasons, fetches, currentFetchTokenAttempt,
                   accountVars, authToken, sessionToken, requestCBHash,
                   listenVars, putVars>>

\* goOffline.
InterruptForReason(reason) ==
    /\ Disturbed
    /\ UNCHANGED <<accountVars, authToken>>
    /\ LET reasons == interruptReasons \cup {reason} IN
         \/ Realtime /\ OnDisconnect(reasons, forceAuthTokenRefresh)
         \/ /\ ~Realtime
            /\ connectionState' = "disconnected"
            /\ interruptReasons' = reasons
            /\ CancelRetry
            /\ UNCHANGED <<fetches, currentFetchTokenAttempt, sessionToken,
                           forceAuthTokenRefresh, requestCBHash, listenVars, putVars>>

\* The socket fails, times out or closes, or the server sends a reset.
ConnectionLost ==
    /\ Disturbed
    /\ Realtime
    /\ OnDisconnect(interruptReasons, forceAuthTokenRefresh)
    /\ UNCHANGED <<accountVars, authToken>>

\* The server shuts the connection down for good.
OnKill ==
    /\ Disturbed
    /\ Realtime
    /\ OnDisconnect(interruptReasons \cup {"server_kill"}, forceAuthTokenRefresh)
    /\ UNCHANGED <<accountVars, authToken>>

-----------------------------------------------------------------------------
(* Credentials, and what is sent again on a new connection. *)

ListenRequest(listen) == [type |-> "listen", listen |-> listen]
PutRequest(put)       == [type |-> "put", index |-> put.index]

\* Bug: only what was never sent is sent.
UnsentPuts == {p \in outstandingPuts : ~p.sent}

PutsToRestore == outstandingPuts

\* The puts in the order of their indices, and the listens in any order: theirs
\* is the order of a dictionary.
InIndexOrder(puts) ==
    {s \in Bijection(1 .. Cardinality(puts), puts) :
        \A i, j \in DOMAIN s : i < j => s[i].index < s[j].index}

InAnyOrder(set) == Bijection(1 .. Cardinality(set), set)

\* Every listen, after whatever was sent while authenticating, and every put.
RestoreState(pending) ==
    /\ \E order \in InAnyOrder(listens), puts \in InIndexOrder(PutsToRestore) :
          requestCBHash' = pending \o [i \in DOMAIN order |-> ListenRequest(order[i])]
                                   \o [i \in DOMAIN puts |-> PutRequest(puts[i])]
    /\ unackedListensCount' = unackedListensCount + Cardinality(listens)
    /\ outstandingPuts' = {IF p \in PutsToRestore THEN [p EXCEPT !.sent = TRUE] ELSE p :
                              p \in outstandingPuts}
    /\ sends' = Ran(Indices(PutsToRestore), sends)
    /\ UNCHANGED <<listens, putCounter, putsToAck, allWrites, assertionFailed, completions>>

AuthRequest(token, restore) == [type |-> "auth", token |-> token, restore |-> restore]

\* The handshake is done.
OnReady ==
    /\ connectionState = "connecting"
    /\ IF authToken = NoToken
         THEN /\ connectionState' = "connected"
              /\ RestoreState(requestCBHash)
         ELSE /\ connectionState' = "authenticating"
              /\ requestCBHash' = Append(requestCBHash, AuthRequest(authToken, TRUE))
              /\ UNCHANGED <<listenVars, putVars>>
    /\ sessionToken' = authToken
    /\ UNCHANGED <<interruptReasons, scheduledRetry, fetches, currentFetchTokenAttempt, accountVars,
                   authToken, forceAuthTokenRefresh, boundVars>>

\* The server answers credentials in the order they were sent.
NextAuth(i) ==
    /\ i \in DOMAIN requestCBHash
    /\ requestCBHash[i].type = "auth"
    /\ \A j \in 1 .. i - 1 : requestCBHash[j].type # "auth"

AuthAccepted(i) ==
    /\ NextAuth(i)
    /\ requestCBHash[i].token > refused
    /\ connectionState' = "connected"
    /\ LET pending == RemoveAt(requestCBHash, i) IN
         IF requestCBHash[i].restore
           THEN RestoreState(pending)
           ELSE requestCBHash' = pending /\ UNCHANGED <<listenVars, putVars>>
    /\ UNCHANGED <<interruptReasons, scheduledRetry, fetches, currentFetchTokenAttempt, accountVars,
                   tokenVars, boundVars>>

\* A token that is no good: close, and ask for a new one.
DropToken ==
    /\ authToken' = NoToken
    /\ OnDisconnect(interruptReasons, TRUE)
    /\ UNCHANGED accountVars

AuthRefused(i) ==
    /\ NextAuth(i)
    /\ requestCBHash[i].token <= refused
    /\ DropToken
    /\ UNCHANGED boundVars

\* The server says that it took a token back, maybe an earlier one than was sent
\* last.
OnAuthRevoked ==
    /\ Disturbed
    /\ Established
    /\ refused > 0
    /\ DropToken

\* Bug: the new credential is not sent while the old one is being checked.
SendsWhenConnected == CanSendWrites

SendsCredential == Established

\* The listener of listenForTokenChanges.  An unauth has no block.
RefreshAuthToken(token) ==
    /\ authToken' = token
    /\ IF SendsCredential
         THEN /\ sessionToken' = token
              /\ requestCBHash' = IF token = NoToken THEN requestCBHash
                                  ELSE Append(requestCBHash, AuthRequest(token, FALSE))
         ELSE UNCHANGED <<sessionToken, requestCBHash>>
    /\ UNCHANGED <<connectionState, interruptReasons, scheduledRetry, currentFetchTokenAttempt,
                   refused, forceAuthTokenRefresh, listenVars, putVars>>

\* A forced fetch makes the provider get a new token for the user it took the
\* fetch up for; it tells the listeners if that user is still signed in.
ProviderRefreshes(fetch) ==
    /\ fetch.asked /\ fetch.force /\ fetch.user # Nobody
    /\ fetches' = (fetches \ {fetch}) \cup {[fetch EXCEPT !.force = FALSE]}
    /\ issued' = issued + 1
    /\ tokens' = [tokens EXCEPT ![fetch.user] = issued + 1]
    /\ IF fetch.user = CurrentUser
         THEN RefreshAuthToken(issued + 1)
         ELSE UNCHANGED <<connectionState, interruptReasons, scheduledRetry,
                          currentFetchTokenAttempt, refused, tokenVars, requestCBHash,
                          listenVars, putVars>>
    /\ UNCHANGED <<signedIn, boundVars>>

\* The token of the signed in user is renewed in time.
RenewToken ==
    /\ Disturbed
    /\ signedIn
    /\ issued' = issued + 1
    /\ tokens' = [tokens EXCEPT ![CurrentUser] = issued + 1]
    /\ RefreshAuthToken(issued + 1)
    /\ UNCHANGED <<signedIn, fetches>>

\* A user signs in, maybe in place of another.
SignIn ==
    /\ Disturbed
    /\ signedIn' = TRUE
    /\ issued' = issued + 1
    /\ tokens' = Append(tokens, issued + 1)
    /\ RefreshAuthToken(issued + 1)
    /\ UNCHANGED fetches

SignOut ==
    /\ Disturbed
    /\ signedIn
    /\ signedIn' = FALSE
    /\ RefreshAuthToken(NoToken)
    /\ UNCHANGED <<tokens, issued, fetches>>

\* The server no longer accepts what was issued so far.
Revoke ==
    /\ Disturbed
    /\ refused' = issued
    /\ UNCHANGED <<stageVars, signedIn, tokens, issued, tokenVars, requestCBHash, listenVars,
                   putVars>>

-----------------------------------------------------------------------------
(* Listens and puts. *)

listen(query) ==
    LET new == [query |-> query, spec |-> calls + 1] IN
    /\ Called
    /\ \A l \in listens : l.query # query
    /\ listens' = listens \cup {new}
    /\ IF Established
         THEN /\ requestCBHash' = Append(requestCBHash, ListenRequest(new))
              /\ unackedListensCount' = unackedListensCount + 1
         ELSE UNCHANGED <<requestCBHash, unackedListensCount>>
    /\ UNCHANGED <<stageVars, accountVars, tokenVars, putVars>>

\* unlisten, and onListenRevoked: the unlisten that is sent has no block.
Unlisten(query) ==
    /\ \E l \in listens : l.query = query
    /\ listens' = {l \in listens : l.query # query}
    /\ UNCHANGED <<stageVars, accountVars, tokenVars, requestCBHash, unackedListensCount,
                   putVars, boundVars>>

\* A refused listen is removed, unless it was removed (and made again) before.
ListenAnswered(i, ok) ==
    /\ i \in DOMAIN requestCBHash
    /\ requestCBHash[i].type = "listen"
    /\ requestCBHash' = RemoveAt(requestCBHash, i)
    /\ listens' = IF ok THEN listens ELSE listens \ {requestCBHash[i].listen}
    /\ unackedListensCount' = unackedListensCount - 1
    /\ IF unackedListensCount = 1
         THEN AckPuts /\ UNCHANGED <<outstandingPuts, putCounter, sends>>
         ELSE UNCHANGED putVars
    /\ UNCHANGED <<stageVars, accountVars, tokenVars, boundVars>>

\* set, and a transaction's put with a hash.  The tree has the write already.
putData(transaction) ==
    LET put == [index |-> putCounter + 1, transaction |-> transaction, sent |-> CanSendWrites] IN
    /\ Called
    /\ putCounter' = put.index
    /\ outstandingPuts' = outstandingPuts \cup {put}
    /\ allWrites' = allWrites \cup {put.index}
    /\ IF CanSendWrites
         THEN /\ requestCBHash' = Append(requestCBHash, PutRequest(put))
              /\ sends' = Ran({put.index}, sends)
         ELSE UNCHANGED <<requestCBHash, sends>>
    /\ UNCHANGED <<stageVars, accountVars, tokenVars, listenVars, putsToAck, assertionFailed,
                   completions>>

\* Bug: a put is found by its number alone, even one that is gone.
AnsweredAgain(index) == {[index |-> index, transaction |-> FALSE, sent |-> TRUE]}

Answered(index) == {p \in outstandingPuts : p.index = index}

\* The answer to a put that was purged is ignored.
PutAnswered(i) ==
    /\ i \in DOMAIN requestCBHash
    /\ requestCBHash[i].type = "put"
    /\ requestCBHash' = RemoveAt(requestCBHash, i)
    /\ LET answered == Answered(requestCBHash[i].index) IN
         /\ outstandingPuts' = outstandingPuts \ answered
         /\ IF unackedListensCount = 0
              THEN RunBlocks(answered) /\ UNCHANGED putsToAck
              ELSE /\ putsToAck' = putsToAck \cup answered
                   /\ UNCHANGED <<allWrites, assertionFailed, completions>>
    /\ UNCHANGED <<stageVars, accountVars, tokenVars, listenVars, putCounter, sends, boundVars>>

\* FRepo empties the write tree first and marks the transactions that were sent;
\* then the blocks of the answers held back run, and then the puts are cancelled,
\* whose blocks release nothing any more.  Of the held back blocks only those of
\* transactions whose data was stale find nothing to release, either; any other
\* asks the tree for a write it has lost.
PurgeOutstandingWrites ==
    /\ Called
    /\ allWrites' = {}
    /\ \E stale \in SUBSET {p \in putsToAck : p.transaction} :
         IF putsToAck = stale
           THEN /\ completions' = Ran(Indices(putsToAck \cup outstandingPuts), completions)
                /\ putsToAck' = {} /\ outstandingPuts' = {}
                /\ UNCHANGED assertionFailed
           ELSE /\ assertionFailed' = TRUE
                /\ UNCHANGED <<completions, putsToAck, outstandingPuts>>
    /\ UNCHANGED <<stageVars, accountVars, tokenVars, requestCBHash, listenVars, putCounter, sends>>

-----------------------------------------------------------------------------
Requested == DOMAIN requestCBHash

\* What the library, the provider and a server that keeps up do by themselves.
Progress ==
    /\ ~assertionFailed
    /\ \/ RetryFires
       \/ \E fetch \in fetches : GetToken(fetch) \/ ProviderRefreshes(fetch) \/ FetchSucceeds(fetch)
       \/ OnReady
       \/ \E i \in Requested : AuthAccepted(i) \/ AuthRefused(i) \/ ListenAnswered(i, TRUE)
                               \/ PutAnswered(i)

Opens == ~assertionFailed /\ ResumeForReason("waiting_for_open")

App ==
    /\ ~assertionFailed
    /\ \/ ResumeForReason("repo_interrupt")
       \/ InterruptForReason("repo_interrupt")
       \/ SignIn
       \/ SignOut
       \/ \E query \in Query : listen(query) \/ Unlisten(query)
       \/ \E transaction \in BOOLEAN : putData(transaction)
       \/ PurgeOutstandingWrites

Surroundings ==
    /\ ~assertionFailed
    /\ \/ \E fetch \in fetches : FetchFails(fetch)
       \/ Wakes
       \/ ConnectionLost
       \/ OnKill
       \/ OnAuthRevoked
       \/ RenewToken
       \/ Revoke
       \/ \E i \in Requested : ListenAnswered(i, FALSE)

ConnectionNext == Progress \/ Opens \/ App \/ Surroundings

ConnectionSpec == ConnectionInit /\ [][ConnectionNext]_connectionVars

ConnectionFairness ==
    /\ WF_connectionVars(Progress)
    /\ WF_connectionVars(Opens)

FairConnectionSpec == ConnectionSpec /\ ConnectionFairness

-----------------------------------------------------------------------------
(* Properties. *)

\* The values of the variables; in particular the count of unanswered listens,
\* which sendListen's block asserts is never below zero, is the number of listen
\* requests whose blocks wait: answers are held back for one that can come.
ConnectionTypeOK ==
    /\ connectionState \in State
    /\ interruptReasons \subseteq Reason
    /\ scheduledRetry \subseteq BOOLEAN
    /\ fetches \subseteq Fetch /\ currentFetchTokenAttempt \in Nat
    /\ signedIn \in BOOLEAN /\ tokens \in Seq(Token) /\ issued \in Token /\ refused \in Token
    /\ \A fetch \in fetches : fetch.user <= Len(tokens)
    /\ authToken \in Token /\ sessionToken \in Token
    /\ forceAuthTokenRefresh \in BOOLEAN
    /\ requestCBHash \in Seq(Requests)
    /\ listens \subseteq Listen
    /\ unackedListensCount =
         Cardinality({i \in DOMAIN requestCBHash : requestCBHash[i].type = "listen"})
    /\ outstandingPuts \subseteq Put /\ putsToAck \subseteq Put
    /\ putCounter \in Nat /\ allWrites \subseteq Index /\ assertionFailed \in BOOLEAN
    /\ completions \in [Index -> Nat] /\ sends \in [Index -> Nat]
    /\ calls \in Nat /\ disturbances \in Nat

\* Whatever interrupts, resumes, wakes and failed fetches come in between, a
\* client that wants a connection is on its way to one: while disconnected a
\* retry is scheduled, while getting a token the latest fetch is under way.
NeverStranded ==
    /\ connectionState = "disconnected" /\ interruptReasons = {} => scheduledRetry # {}
    /\ connectionState = "gettingToken" => \E fetch \in fetches : IsLatest(fetch)

\* What the NSAsserts of tryScheduleReconnect and of its blocks expect: there is
\* one way to a connection at a time.  A retry is scheduled only while
\* disconnected, and the latest fetch finds nobody beyond getting a token.
OneWayToConnect ==
    /\ scheduledRetry # {} => connectionState = "disconnected"
    /\ \A fetch \in fetches :
          IsLatest(fetch) => connectionState \in {"disconnected", "gettingToken"}

\* An interrupted client has no connection and is not getting one.
InterruptedStaysDown ==
    interruptReasons # {} => connectionState = "disconnected" /\ scheduledRetry = {}

\* The connection has a credential that is not the provider's.
Outdated == Realtime /\ authToken # Current

\* On an established connection the last credential sent is the one the library
\* has.  Whenever the user or the user's token changes, before, during or after the
\* fetch, the handshake and the authentication, it becomes the new one; and the
\* only step that puts another one in its place is the answer to a fetch that was
\* taken up for a former user, or when nobody was signed in.  It then stays until
\* the next change.
CredentialFollowsUser ==
    [][/\ Established' => sessionToken' = authToken'
       /\ Current' # Current => ~Outdated'
       /\ Outdated' => Outdated \/ \E fetch \in fetches :
                                     fetch.user # CurrentUser /\ FetchSucceeds(fetch)
      ]_connectionVars

\* Every put is outstanding, held back or completed, and just one of these; its
\* block runs once, whether it is answered, cancelled or purged, and an answer
\* that comes late is nobody's.  The write tree has the write of every put whose
\* block has not run, and no other, unless an assertion has failed.  A transaction
\* is sent on one connection at most, and a put that waits for its answer has one
\* request on the connection.
EveryPutOnce ==
    /\ \A i \in Index :
         LET places == completions[i] + Cardinality({p \in outstandingPuts : p.index = i})
                                      + Cardinality({p \in putsToAck : p.index = i})
         IN  places = IF i <= putCounter THEN 1 ELSE 0
    /\ ~assertionFailed => allWrites = Indices(outstandingPuts \cup putsToAck)
    /\ \A p \in outstandingPuts : p.transaction => sends[p.index] <= 1
    /\ \A i, j \in DOMAIN requestCBHash :
         requestCBHash[i].type = "put" /\ requestCBHash[j] = requestCBHash[i] => i = j

\* removeWriteId has never been called for a write that the tree does not have, which
\* is what it asserts (FWriteTree.m:125).
WritesFound == ~assertionFailed

\* No answer, cancellation or release of held back answers calls removeWriteId for
\* a write that is gone, however often puts were resent and connections lost; only
\* a purge does, and only while answers are held back.
MissedOnlyByPurge ==
    [][WritesFound => WritesFound' \/ (PurgeOutstandingWrites /\ putsToAck # {})]_connectionVars

\* Once nobody interrupts the connection it is established for good: every
\* stage is left, refused tokens are replaced, failed fetches are tried again.
EventuallyConnected ==
    <>[](interruptReasons = {} /\ WritesFound) => <>[](connectionState = "connected")

\* Once nobody interrupts the connection, and some listen is kept, the block of
\* every put runs.  Without a listen it need not: an answer held back for one that
\* is removed before the connection is lost waits for the next listen's.
EveryBlockRuns ==
    <>[](interruptReasons = {} /\ WritesFound /\ listens # {}) =>
        \A i \in Index : (putCounter >= i) ~> (completions[i] = 1)
=============================================================================
