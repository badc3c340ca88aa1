-------------------------- MODULE Connection_proof --------------------------
(***************************************************************************)
(* The stages, the credentials, the requests and the puts of a connection  *)
(* are right for any number of queries, calls and disturbances.            *)
(***************************************************************************)
EXTENDS Connection, FiniteSetTheorems, TLAPS

(***************************************************************************)
(* The inductive invariant.  The properties about the stages do not need   *)
(* the listens and the puts; they need that an answer can only arrive on   *)
(* an established connection (NoRequests), and that no two fetches carry   *)
(* the latest attempt (Attempts).  For the credential it must be known     *)
(* that a fetch is for a user there has been, who has a token.             *)
(***************************************************************************)
StageTyped ==
    /\ connectionState \in State
    /\ interruptReasons \subseteq Reason
    /\ scheduledRetry \subseteq BOOLEAN
    /\ fetches \subseteq Fetch
    /\ currentFetchTokenAttempt \in Nat
    /\ forceAuthTokenRefresh \in BOOLEAN

Attempts ==
    /\ \A f \in fetches : f.attempt <= currentFetchTokenAttempt
    /\ \A f, g \in fetches : IsLatest(f) /\ IsLatest(g) => f = g

NoRequests == ~Established => requestCBHash = <<>>

Stages == StageTyped /\ Attempts /\ NoRequests /\ NeverStranded /\ OneWayToConnect
          /\ InterruptedStaysDown

Users ==
    /\ signedIn \in BOOLEAN /\ issued \in Token
    /\ tokens \in Seq(Token) /\ tokens # <<>>
    /\ \A f \in fetches : f.user <= Len(tokens)

Credentials == Established => sessionToken = authToken

ConnectionInv == Stages /\ Users /\ Credentials

USE DEF State, Reason, Fetch, Token, NoToken, Nobody, Realtime, Established, CanSendWrites

LEMMA InitInv == ConnectionInit => ConnectionInv
<1> SUFFICES ASSUME ConnectionInit PROVE ConnectionInv
  OBVIOUS
<1>1. /\ connectionState = "disconnected" /\ interruptReasons = {"waiting_for_open"}
      /\ scheduledRetry = {} /\ fetches = {} /\ currentFetchTokenAttempt = 0 /\ issued = 1
      /\ forceAuthTokenRefresh = FALSE /\ requestCBHash = <<>>
      /\ signedIn \in BOOLEAN /\ tokens = <<1>>
  BY DEF ConnectionInit
<1>2. StageTyped
  BY <1>1 DEF StageTyped
<1>3. Attempts /\ NoRequests /\ NeverStranded /\ OneWayToConnect /\ InterruptedStaysDown
  BY <1>1 DEF Attempts, NoRequests, NeverStranded, OneWayToConnect, InterruptedStaysDown
<1>4. Users /\ Credentials
  BY <1>1 DEF Users, Credentials
<1> QED
  BY <1>2, <1>3, <1>4 DEF ConnectionInv, Stages

\* Losing a connection leaves the client on its way to the next one, if it wants it.
LEMMA LossKeepsStages ==
  ASSUME Stages, Realtime, NEW reasons \in SUBSET Reason, NEW force \in BOOLEAN,
         interruptReasons \subseteq reasons, OnDisconnect(reasons, force)
  PROVE  Stages' /\ connectionState' = "disconnected"
<1>1. connectionState' = "disconnected" /\ interruptReasons' = reasons /\ requestCBHash' = <<>>
      /\ fetches' = fetches /\ currentFetchTokenAttempt' = currentFetchTokenAttempt
  BY DEF OnDisconnect, RequestsAfterLoss
<1>2. scheduledRetry = {}
  BY DEF Stages, OneWayToConnect
<1>3. /\ reasons = {} => scheduledRetry' = {force} /\ forceAuthTokenRefresh' = FALSE
      /\ reasons # {} => scheduledRetry' = {} /\ forceAuthTokenRefresh' = force
  BY <1>2 DEF OnDisconnect, TryScheduleReconnect, Retry
<1> QED
  BY <1>1, <1>2, <1>3 DEF Stages, StageTyped, Attempts, NoRequests, NeverStranded, OneWayToConnect,
                          InterruptedStaysDown, IsLatest

\* A step that changes no stage keeps the stages; a request is only sent, and
\* only answered, while the connection is established.
LEMMA SameStages ==
  ASSUME Stages, UNCHANGED stageVars, forceAuthTokenRefresh' \in BOOLEAN,
         requestCBHash' = requestCBHash \/ Established
  PROVE  Stages'
  BY DEF Stages, StageTyped, Attempts, NoRequests, NeverStranded, OneWayToConnect,
         InterruptedStaysDown, IsLatest, stageVars

\* What the provider does to a fetch leaves its attempt.
LEMMA FetchReplaced ==
  ASSUME Stages, NEW fetch \in fetches, NEW new \in Fetch, new.attempt = fetch.attempt,
         fetches' = (fetches \ {fetch}) \cup {new},
         UNCHANGED <<connectionState, interruptReasons, scheduledRetry, currentFetchTokenAttempt,
                     forceAuthTokenRefresh>>,
         requestCBHash' = requestCBHash \/ Established
  PROVE  Stages'
<1>1. StageTyped'
  BY DEF Stages, StageTyped
<1>2. \A f \in fetches : IsLatest(f) /\ IsLatest(fetch) => f = fetch
  BY DEF Stages, Attempts
<1>3. IsLatest(new)' <=> IsLatest(fetch)
  BY DEF IsLatest
<1>4. \A f \in fetches : IsLatest(f)' <=> IsLatest(f)
  BY DEF IsLatest
<1>5. \A f \in fetches' : IsLatest(f)' => (f = new /\ IsLatest(fetch)) \/ (f \in fetches /\ f # fetch /\ IsLatest(f))
  BY <1>3, <1>4
<1>6. Attempts'
  <2>1. \A f \in fetches' : f.attempt <= currentFetchTokenAttempt'
    BY DEF Stages, Attempts
  <2>2. \A f, g \in fetches' : IsLatest(f)' /\ IsLatest(g)' => f = g
    BY <1>2, <1>5 DEF Stages, Attempts
  <2> QED  BY <2>1, <2>2 DEF Attempts, IsLatest
<1>7. NeverStranded'
  <2>1. ASSUME NEW f \in fetches, IsLatest(f) PROVE \E g \in fetches' : IsLatest(g)'
    BY <1>3, <1>4, <2>1
  <2> QED  BY <2>1 DEF Stages, NeverStranded
<1>8. OneWayToConnect'
  BY <1>5 DEF Stages, OneWayToConnect
<1> QED  BY <1>1, <1>6, <1>7, <1>8 DEF Stages, NoRequests, InterruptedStaysDown

\* The handshake and the authentication only move on from one stage to the next.
LEMMA NextStage ==
  ASSUME Stages, Realtime, connectionState' \in {"authenticating", "connected"},
         UNCHANGED <<interruptReasons, scheduledRetry, fetches, currentFetchTokenAttempt,
                     forceAuthTokenRefresh>>
  PROVE  Stages'
  BY DEF Stages, StageTyped, Attempts, NoRequests, NeverStranded, OneWayToConnect,
         InterruptedStaysDown, IsLatest

\* An answer can only arrive where a request was sent.
LEMMA AnsweredWhenEstablished ==
  ASSUME Stages, NEW i \in DOMAIN requestCBHash PROVE Established
  BY DOMAIN <<>> = {} DEF Stages, NoRequests

\* A user who is signed in is the last of those who signed in.
LEMMA CurrentUserTyped ==
  ASSUME ConnectionInv
  PROVE  CurrentUser \in 0 .. Len(tokens) /\ (signedIn => CurrentUser \in DOMAIN tokens)
BY DEF ConnectionInv, Users, CurrentUser

\* Every step keeps the stages.
LEMMA NextStages ==
  ASSUME ConnectionInv, [ConnectionNext]_connectionVars PROVE Stages'
<1> USE DEF ConnectionInv
<1> forceAuthTokenRefresh \in BOOLEAN
  BY DEF Stages, StageTyped
<1>1. CASE RetryFires
  <2>1. PICK force \in scheduledRetry :
           /\ scheduledRetry' = {} /\ connectionState' = "gettingToken"
           /\ currentFetchTokenAttempt' = currentFetchTokenAttempt + 1
           /\ fetches' = fetches \cup
                {[attempt |-> currentFetchTokenAttempt + 1, force |-> force,
                  asked |-> FALSE, user |-> Nobody]}
           /\ UNCHANGED <<interruptReasons, forceAuthTokenRefresh, requestCBHash>>
    BY <1>1 DEF RetryFires, tokenVars
  <2>2. connectionState = "disconnected" /\ interruptReasons = {}
    BY DEF Stages, OneWayToConnect, InterruptedStaysDown
  <2> DEFINE new == [attempt |-> currentFetchTokenAttempt + 1, force |-> force,
                     asked |-> FALSE, user |-> Nobody]
  <2>3. StageTyped'
    <3>1. new \in Fetch /\ currentFetchTokenAttempt + 1 \in Nat
      BY DEF Stages, StageTyped
    <3>2. fetches' = fetches \cup {new}
      BY <2>1
    <3> HIDE DEF new
    <3> QED  BY <2>1, <3>1, <3>2 DEF Stages, StageTyped
  <2>4. \A f \in fetches : f.attempt < currentFetchTokenAttempt' /\ f.attempt <= currentFetchTokenAttempt'
    BY <2>1 DEF Stages, StageTyped, Attempts
  <2>5. Attempts'
    <3>1. \A f \in fetches' : f.attempt <= currentFetchTokenAttempt'
      BY <2>1, <2>4, currentFetchTokenAttempt \in Nat DEF Stages, StageTyped
    <3>2. \A f \in fetches : f.attempt # currentFetchTokenAttempt'
      BY <2>1, <2>4 DEF Stages, StageTyped
    <3>3. \A f \in fetches' : f.attempt = currentFetchTokenAttempt' => f = new
      BY <2>1, <3>2
    <3> QED
      BY <3>1, <3>3 DEF Attempts, IsLatest
  <2>6. NeverStranded' /\ OneWayToConnect' /\ InterruptedStaysDown' /\ NoRequests'
    <3>1. new \in fetches' /\ new.attempt = currentFetchTokenAttempt'
      BY <2>1
    <3> QED
      BY <2>1, <2>2, <3>1 DEF NeverStranded, OneWayToConnect, InterruptedStaysDown, IsLatest,
                              Stages, NoRequests
  <2> QED
    BY <2>3, <2>5, <2>6 DEF Stages
<1>2. ASSUME NEW fetch \in fetches, FetchSucceeds(fetch) PROVE Stages'
  <2>1. /\ fetches' = fetches \ {fetch}
        /\ UNCHANGED <<interruptReasons, scheduledRetry, currentFetchTokenAttempt,
                       forceAuthTokenRefresh, requestCBHash>>
    BY <1>2 DEF FetchSucceeds, TokenWanted
  <2>2. CASE IsLatest(fetch) /\ connectionState = "gettingToken"
    <3>1. connectionState' = "connecting"
      BY <1>2, <2>2 DEF FetchSucceeds, TokenWanted
    <3>2. \A f \in fetches' : ~IsLatest(f)
      BY <2>1, <2>2 DEF Stages, Attempts
    <3> QED
      BY <2>1, <2>2, <3>1, <3>2 DEF Stages, StageTyped, Attempts, NoRequests, NeverStranded,
                                    OneWayToConnect, InterruptedStaysDown, IsLatest
  <2>3. CASE ~(IsLatest(fetch) /\ connectionState = "gettingToken")
    <3>1. connectionState' = connectionState
      BY <1>2, <2>3 DEF FetchSucceeds, TokenWanted
    <3> QED
      BY <2>1, <2>3, <3>1 DEF Stages, StageTyped, Attempts, NoRequests, NeverStranded,
                              OneWayToConnect, InterruptedStaysDown, IsLatest
  <2> QED
    BY <2>2, <2>3
<1>3. ASSUME NEW fetch \in fetches, FetchFails(fetch) PROVE Stages'
  <2>1. /\ fetches' = fetches \ {fetch}
        /\ UNCHANGED <<interruptReasons, currentFetchTokenAttempt, requestCBHash>>
    BY <1>3 DEF FetchFails
  <2>2. CASE IsLatest(fetch)
    <3>1. connectionState' = "disconnected"
          /\ TryScheduleReconnect(interruptReasons, forceAuthTokenRefresh)
      BY <1>3, <2>2 DEF FetchFails
    <3>2. ~Established
      BY <2>2 DEF Stages, OneWayToConnect
    <3> QED
      BY <2>1, <3>1, <3>2 DEF Stages, StageTyped, Attempts, NoRequests, NeverStranded,
             OneWayToConnect, InterruptedStaysDown, IsLatest, TryScheduleReconnect, Retry
  <2>3. CASE ~IsLatest(fetch)
    <3>1. UNCHANGED <<connectionState, scheduledRetry, forceAuthTokenRefresh>>
      BY <1>3, <2>3 DEF FetchFails
    <3> QED
      BY <2>1, <2>3, <3>1 DEF Stages, StageTyped, Attempts, NoRequests, NeverStranded,
                              OneWayToConnect, InterruptedStaysDown, IsLatest
  <2> QED
    BY <2>2, <2>3
<1>4. ASSUME NEW reason \in Reason, ResumeForReason(reason) PROVE Stages'
  <2>1. /\ interruptReasons # {} /\ interruptReasons' = interruptReasons \ {reason}
        /\ ScheduleWhenIdle(interruptReasons')
        /\ UNCHANGED <<connectionState, fetches, currentFetchTokenAttempt, requestCBHash>>
    BY <1>4 DEF ResumeForReason
  <2>2. connectionState = "disconnected" /\ scheduledRetry = {}
    BY <2>1 DEF Stages, InterruptedStaysDown
  <2> QED
    BY <2>1, <2>2 DEF Stages, StageTyped, Attempts, NoRequests, NeverStranded, OneWayToConnect,
           InterruptedStaysDown, IsLatest, ScheduleWhenIdle, TryScheduleReconnect, Retry
<1>5. CASE Wakes
  BY <1>5 DEF Wakes, Stages, StageTyped, Attempts, NoRequests, NeverStranded,
         OneWayToConnect, InterruptedStaysDown, IsLatest, ScheduleWhenIdle, TryScheduleReconnect, Retry
<1>6. CASE InterruptForReason("repo_interrupt")
  <2> DEFINE reasons == interruptReasons \cup {"repo_interrupt"}
  <2>1. reasons \in SUBSET Reason
    BY DEF Stages, StageTyped
  <2>2. CASE Realtime /\ OnDisconnect(reasons, forceAuthTokenRefresh)
    BY <2>1, <2>2, LossKeepsStages
  <2>3. CASE /\ ~Realtime /\ connectionState' = "disconnected" /\ interruptReasons' = reasons
             /\ scheduledRetry' = {}
             /\ UNCHANGED <<fetches, currentFetchTokenAttempt, forceAuthTokenRefresh, requestCBHash>>
    BY <2>1, <2>3 DEF Stages, StageTyped, Attempts, NoRequests, NeverStranded, OneWayToConnect,
                      InterruptedStaysDown, IsLatest
  <2> QED
    BY <1>6, <2>2, <2>3 DEF InterruptForReason, CancelRetry
<1>7. CASE ConnectionLost
  BY <1>7, LossKeepsStages DEF ConnectionLost, Stages, StageTyped
<1>8. CASE OnKill
  BY <1>8, LossKeepsStages DEF OnKill, Stages, StageTyped
<1>9. CASE OnReady
  BY <1>9, NextStage DEF OnReady
<1>10. ASSUME NEW i \in DOMAIN requestCBHash, AuthAccepted(i) PROVE Stages'
  BY <1>10, NextStage, AnsweredWhenEstablished DEF AuthAccepted, tokenVars
<1>11. ASSUME Realtime, DropToken PROVE Stages'
  BY <1>11, LossKeepsStages DEF DropToken, Stages, StageTyped
<1>12. ASSUME NEW token, RefreshAuthToken(token), UNCHANGED fetches PROVE Stages'
  BY <1>12, SameStages DEF RefreshAuthToken, SendsCredential, stageVars
<1>13. CASE Revoke
  BY <1>13, SameStages DEF Revoke, tokenVars
<1>14. ASSUME NEW i \in DOMAIN requestCBHash, NEW ok \in BOOLEAN, ListenAnswered(i, ok) PROVE Stages'
  BY <1>14, SameStages, AnsweredWhenEstablished DEF ListenAnswered, tokenVars
<1>15. ASSUME NEW i \in DOMAIN requestCBHash, PutAnswered(i) PROVE Stages'
  BY <1>15, SameStages, AnsweredWhenEstablished DEF PutAnswered, tokenVars
<1>16. ASSUME NEW query \in Query, listen(query) \/ Unlisten(query) PROVE Stages'
  BY <1>16, SameStages DEF listen, Unlisten, tokenVars
<1>17. ASSUME NEW transaction \in BOOLEAN, putData(transaction) PROVE Stages'
  BY <1>17, SameStages DEF putData, tokenVars
<1>18. CASE PurgeOutstandingWrites
  BY <1>18, SameStages DEF PurgeOutstandingWrites, tokenVars
<1>19. CASE UNCHANGED connectionVars
  BY <1>19, SameStages DEF connectionVars, tokenVars
<1>20. RenewToken \/ SignIn \/ SignOut => Stages'
  BY <1>12 DEF RenewToken, SignIn, SignOut
<1>21. ASSUME NEW i \in DOMAIN requestCBHash, AuthRefused(i) PROVE Stages'
  BY <1>11, <1>21, AnsweredWhenEstablished DEF AuthRefused
<1>22. OnAuthRevoked => Stages'
  BY <1>11 DEF OnAuthRevoked
<1>23. ASSUME NEW fetch \in fetches, GetToken(fetch) PROVE Stages'
  <2> DEFINE new == [fetch EXCEPT !.asked = TRUE, !.user = CurrentUser]
  <2>1. new \in Fetch /\ new.attempt = fetch.attempt
    <3>1. fetch \in Fetch
      BY DEF Stages, StageTyped
    <3>2. CurrentUser \in Nat
      BY CurrentUserTyped DEF Users
    <3> QED  BY <3>1, <3>2
  <2>2. /\ fetches' = (fetches \ {fetch}) \cup {new}
        /\ UNCHANGED <<connectionState, interruptReasons, scheduledRetry, currentFetchTokenAttempt,
                       forceAuthTokenRefresh, requestCBHash>>
    BY <1>23 DEF GetToken, tokenVars
  <2> HIDE DEF new
  <2> QED  BY <2>1, <2>2, FetchReplaced
<1>24. ASSUME NEW fetch \in fetches, ProviderRefreshes(fetch) PROVE Stages'
  <2> DEFINE new == [fetch EXCEPT !.force = FALSE]
  <2>1. new \in Fetch /\ new.attempt = fetch.attempt
    BY DEF Stages, StageTyped
  <2>2. fetches' = (fetches \ {fetch}) \cup {new}
    BY <1>24 DEF ProviderRefreshes
  <2>3. /\ UNCHANGED <<connectionState, interruptReasons, scheduledRetry, currentFetchTokenAttempt,
                       forceAuthTokenRefresh>>
        /\ requestCBHash' = requestCBHash \/ Established
    BY <1>24 DEF ProviderRefreshes, RefreshAuthToken, SendsCredential, tokenVars
  <2> HIDE DEF new
  <2> QED  BY <2>1, <2>2, <2>3, FetchReplaced
<1> QED
  BY <1>1, <1>2, <1>3, <1>4, <1>5, <1>6, <1>7, <1>8, <1>9, <1>10, <1>13, <1>14, <1>15, <1>16, <1>17,
     <1>18, <1>19, <1>20, <1>21, <1>22, <1>23, <1>24
     DEF ConnectionNext, Progress, Opens, App, Surroundings, Requested

\* Every step keeps the users: a token is given to one of them, and a fetch is
\* for one of them or for nobody.
LEMMA NextUsers ==
  ASSUME ConnectionInv, [ConnectionNext]_connectionVars PROVE Users'
<1> USE DEF Users
<1>0. Users /\ Len(tokens) \in Nat /\ Len(tokens) # 0
  BY DEF ConnectionInv
<1>1. ASSUME UNCHANGED accountVars, fetches' \subseteq fetches PROVE Users'
  BY <1>0, <1>1 DEF accountVars
<1>2. ASSUME NEW user \in DOMAIN tokens, tokens' = [tokens EXCEPT ![user] = issued + 1],
             issued' = issued + 1, signedIn' = signedIn,
             \A f \in fetches' : f.user <= Len(tokens)
      PROVE  Users'
  <2>1. tokens' \in Seq(Token) /\ Len(tokens') = Len(tokens)
    BY <1>0, <1>2
  <2>2. tokens' # <<>>
    BY <1>0, <2>1
  <2> QED  BY <1>0, <1>2, <2>1, <2>2
<1>3. RetryFires => Users'
  <2> SUFFICES ASSUME RetryFires PROVE Users'
    OBVIOUS
  <2>1. UNCHANGED accountVars /\ \A f \in fetches' : f \in fetches \/ f.user = 0
    BY DEF RetryFires
  <2> QED  BY <1>0, <2>1 DEF accountVars
<1>4. ASSUME NEW fetch \in fetches, GetToken(fetch) PROVE Users'
  <2>1. [fetch EXCEPT !.asked = TRUE, !.user = CurrentUser].user <= Len(tokens)
    BY CurrentUserTyped DEF ConnectionInv, Stages, StageTyped
  <2> QED  BY <1>0, <1>4, <2>1 DEF GetToken, accountVars
<1>5. ASSUME NEW fetch \in fetches, ProviderRefreshes(fetch) PROVE Users'
  <2>1. fetch \in Fetch /\ fetch.user \in DOMAIN tokens
    BY <1>0, <1>5 DEF ProviderRefreshes, ConnectionInv, Stages, StageTyped
  <2>2. [fetch EXCEPT !.force = FALSE].user <= Len(tokens)
    BY <1>0, <2>1
  <2> QED  BY <1>0, <1>2, <1>5, <2>1, <2>2 DEF ProviderRefreshes
<1>6. RenewToken => Users'
  BY <1>0, <1>2, CurrentUserTyped DEF RenewToken
<1>7. SignIn => Users'
  <2> SUFFICES ASSUME SignIn PROVE Users'
    OBVIOUS
  <2>1. tokens' = Append(tokens, issued + 1) /\ issued' = issued + 1 /\ signedIn' = TRUE
        /\ fetches' = fetches
    BY DEF SignIn
  <2>2. tokens' \in Seq(Token) /\ Len(tokens') = Len(tokens) + 1
    BY <1>0, <2>1
  <2>3. \A f \in fetches : f.user \in Nat
    BY DEF ConnectionInv, Stages, StageTyped
  <2>4. tokens' # <<>> /\ \A f \in fetches' : f.user <= Len(tokens')
    BY <1>0, <2>1, <2>2, <2>3
  <2> QED  BY <1>0, <2>1, <2>2, <2>4
<1>8. SignOut \/ Revoke => Users'
  BY <1>0 DEF SignOut, Revoke, stageVars
<1>9. ASSUME NEW reasons, NEW force, OnDisconnect(reasons, force), UNCHANGED accountVars PROVE Users'
  BY <1>1, <1>9 DEF OnDisconnect
<1>10. ASSUME NEW fetch \in fetches, FetchSucceeds(fetch) \/ FetchFails(fetch) PROVE Users'
  BY <1>1, <1>10 DEF FetchSucceeds, FetchFails
<1>11. ASSUME NEW reason, ResumeForReason(reason) \/ InterruptForReason(reason) PROVE Users'
  BY <1>1, <1>9, <1>11 DEF ResumeForReason, InterruptForReason
<1>12. ConnectionLost \/ OnKill \/ OnAuthRevoked => Users'
  BY <1>9 DEF ConnectionLost, OnKill, OnAuthRevoked, DropToken
<1>13. Wakes \/ OnReady \/ PurgeOutstandingWrites \/ UNCHANGED connectionVars => Users'
  BY <1>1 DEF Wakes, OnReady, PurgeOutstandingWrites, connectionVars, stageVars
<1>14. ASSUME NEW i \in DOMAIN requestCBHash,
              AuthAccepted(i) \/ AuthRefused(i) \/ (\E ok \in BOOLEAN : ListenAnswered(i, ok))
              \/ PutAnswered(i)
       PROVE  Users'
  BY <1>1, <1>9, <1>14 DEF AuthAccepted, AuthRefused, DropToken, ListenAnswered, PutAnswered, stageVars
<1>15. ASSUME NEW query, listen(query) \/ Unlisten(query) PROVE Users'
  BY <1>1, <1>15 DEF listen, Unlisten, stageVars
<1>16. ASSUME NEW transaction, putData(transaction) PROVE Users'
  BY <1>1, <1>16 DEF putData, stageVars
<1> QED
  BY <1>3, <1>4, <1>5, <1>6, <1>7, <1>8, <1>10, <1>11, <1>12, <1>13, <1>14, <1>15, <1>16
     DEF ConnectionNext, Progress, Opens, App, Surroundings, Requested

\* What CredentialFollowsUser says of a step, apart from the credential sent.
TokenFollows ==
    /\ Current' # Current => ~Outdated'
    /\ Outdated' => Outdated \/ \E fetch \in fetches :
                                  fetch.user # CurrentUser /\ FetchSucceeds(fetch)

\* Every step keeps the credential that was sent, and follows the user's token.
LEMMA NextCredentials ==
  ASSUME ConnectionInv, [ConnectionNext]_connectionVars PROVE Credentials' /\ TokenFollows
<1> DEFINE Both == Credentials' /\ TokenFollows
<1> SUFFICES Both
  OBVIOUS
<1> USE DEF Credentials, TokenFollows, Outdated
<1>0. ConnectionInv /\ Credentials
  BY DEF ConnectionInv
<1>a. UNCHANGED accountVars => Current' = Current
  BY DEF accountVars, Current, CurrentUser, TokenOf
<1>1. ASSUME NEW reasons, NEW force, OnDisconnect(reasons, force), UNCHANGED accountVars PROVE Both
  BY <1>a, <1>1 DEF OnDisconnect
<1>2. ASSUME connectionState' \in {"disconnected", "gettingToken"}, UNCHANGED accountVars PROVE Both
  BY <1>a, <1>2
<1>3. ASSUME UNCHANGED <<connectionState, authToken, sessionToken, accountVars>> PROVE Both
  BY <1>0, <1>a, <1>3
<1>4. CASE RetryFires
  BY <1>2, <1>4 DEF RetryFires
<1>5. ASSUME NEW fetch \in fetches, FetchSucceeds(fetch) PROVE Both
  <2>1. CASE IsLatest(fetch) /\ connectionState = "gettingToken"
    <3>1. connectionState' = "connecting" /\ authToken' = TokenOf(fetch.user) /\ Current' = Current
      BY <1>5, <1>a, <2>1 DEF FetchSucceeds, TokenWanted
    <3>2. fetch.user = CurrentUser => ~Outdated'
      BY <3>1 DEF Current
    <3> QED  BY <1>5, <3>1, <3>2
  <2>2. CASE ~(IsLatest(fetch) /\ connectionState = "gettingToken")
    BY <1>3, <1>5, <2>2 DEF FetchSucceeds, TokenWanted
  <2> QED
    BY <2>1, <2>2
<1>6. ASSUME NEW fetch \in fetches, FetchFails(fetch) PROVE Both
  <2>1. CASE IsLatest(fetch)
    BY <1>2, <1>6, <2>1 DEF FetchFails
  <2>2. CASE ~IsLatest(fetch)
    BY <1>3, <1>6, <2>2 DEF FetchFails
  <2> QED
    BY <2>1, <2>2
<1>7. ASSUME NEW reason \in Reason, ResumeForReason(reason) PROVE Both
  BY <1>3, <1>7 DEF ResumeForReason
<1>8. CASE InterruptForReason("repo_interrupt")
  BY <1>1, <1>2, <1>8 DEF InterruptForReason
<1>9. CASE Wakes
  BY <1>3, <1>9 DEF Wakes
<1>10. ConnectionLost \/ OnKill => Both
  BY <1>1 DEF ConnectionLost, OnKill
<1>11. CASE OnReady
  BY <1>0, <1>a, <1>11 DEF OnReady
<1>12. ASSUME NEW i \in DOMAIN requestCBHash, AuthAccepted(i) PROVE Both
  <2>1. Established
    BY <1>0, AnsweredWhenEstablished DEF ConnectionInv
  <2> QED
    BY <1>0, <1>a, <1>12, <2>1 DEF AuthAccepted, tokenVars
<1>13. ASSUME DropToken PROVE Both
  BY <1>1, <1>13 DEF DropToken
<1>14. ASSUME NEW token, RefreshAuthToken(token), token = Current' PROVE Both
  <2>1. Credentials'
    BY <1>0, <1>14 DEF RefreshAuthToken, SendsCredential
  <2>2. ~Outdated'
    BY <1>14 DEF RefreshAuthToken
  <2> QED  BY <2>1, <2>2
<1>15. ASSUME NEW fetch \in fetches, ProviderRefreshes(fetch) PROVE Both
  <2>1. /\ fetch.user \in DOMAIN tokens /\ CurrentUser \in Nat
        /\ signedIn => CurrentUser \in DOMAIN tokens
    BY <1>0, <1>15, CurrentUserTyped DEF ProviderRefreshes, ConnectionInv, Users, Stages, StageTyped
  <2>2. tokens' = [tokens EXCEPT ![fetch.user] = issued + 1] /\ signedIn' = signedIn
    BY <1>15 DEF ProviderRefreshes
  <2>3. Len(tokens') = Len(tokens) /\ CurrentUser' = CurrentUser
    BY <1>0, <2>2 DEF CurrentUser, ConnectionInv, Users
  <2>4. CASE fetch.user = CurrentUser
    <3>1. Current' = issued + 1
      BY <1>15, <2>1, <2>2, <2>3, <2>4 DEF ProviderRefreshes, Current, TokenOf
    <3> QED  BY <1>14, <1>15, <2>4, <3>1 DEF ProviderRefreshes
  <2>5. CASE fetch.user # CurrentUser
    <3>1. Current' = Current
      <4>1. CASE CurrentUser = Nobody
        BY <2>3, <4>1 DEF Current, TokenOf
      <4>2. CASE CurrentUser # Nobody
        <5>1. tokens'[CurrentUser] = tokens[CurrentUser]
          BY <2>1, <2>2, <2>5, <4>2 DEF CurrentUser
        <5> QED  BY <2>3, <4>2, <5>1 DEF Current, TokenOf
      <4> QED  BY <4>1, <4>2
    <3>2. UNCHANGED <<connectionState, authToken, sessionToken>>
      BY <1>15, <2>5 DEF ProviderRefreshes, tokenVars
    <3> QED  BY <1>0, <3>1, <3>2
  <2> QED  BY <2>4, <2>5
<1>16. CASE RenewToken
  <2>1. signedIn /\ CurrentUser \in DOMAIN tokens /\ signedIn' = signedIn
        /\ tokens' = [tokens EXCEPT ![CurrentUser] = issued + 1]
        /\ tokens \in Seq(Token)
    BY <1>16, CurrentUserTyped DEF RenewToken, ConnectionInv, Users
  <2>2. CurrentUser' = CurrentUser /\ CurrentUser # Nobody /\ tokens'[CurrentUser] = issued + 1
    BY <2>1 DEF CurrentUser
  <2>3. Current' = issued + 1
    BY <2>2 DEF Current, TokenOf
  <2> QED  BY <1>14, <1>16, <2>3 DEF RenewToken
<1>16a. CASE SignIn
  <2>1. signedIn' /\ tokens' = Append(tokens, issued + 1) /\ tokens \in Seq(Token)
    BY <1>16a DEF SignIn, ConnectionInv, Users
  <2>2. CurrentUser' = Len(tokens) + 1 /\ tokens'[Len(tokens) + 1] = issued + 1 /\ Len(tokens) \in Nat
    BY <2>1 DEF CurrentUser
  <2>3. Current' = issued + 1
    BY <2>2 DEF Current, TokenOf
  <2> QED  BY <1>14, <1>16a, <2>3 DEF SignIn
<1>17. CASE SignOut
  BY <1>14, <1>17 DEF SignOut, Current, CurrentUser, TokenOf
<1>18. CASE Revoke
  <2>1. Current' = Current
    BY <1>18 DEF Revoke, Current, CurrentUser, TokenOf
  <2> QED  BY <1>0, <1>18, <2>1 DEF Revoke, stageVars, tokenVars
<1>19. ASSUME NEW i \in DOMAIN requestCBHash, NEW ok \in BOOLEAN, ListenAnswered(i, ok) PROVE Both
  BY <1>3, <1>19 DEF ListenAnswered, stageVars, tokenVars
<1>20. ASSUME NEW i \in DOMAIN requestCBHash, PutAnswered(i) PROVE Both
  BY <1>3, <1>20 DEF PutAnswered, stageVars, tokenVars
<1>21. ASSUME NEW query \in Query, listen(query) \/ Unlisten(query) PROVE Both
  BY <1>3, <1>21 DEF listen, Unlisten, stageVars, tokenVars
<1>22. ASSUME NEW transaction \in BOOLEAN, putData(transaction) PROVE Both
  BY <1>3, <1>22 DEF putData, stageVars, tokenVars
<1>23. CASE PurgeOutstandingWrites
  BY <1>3, <1>23 DEF PurgeOutstandingWrites, stageVars, tokenVars
<1>24. CASE UNCHANGED connectionVars
  BY <1>3, <1>24 DEF connectionVars, stageVars, tokenVars
<1>25. ASSUME NEW i \in DOMAIN requestCBHash, AuthRefused(i) PROVE Both
  BY <1>13, <1>25 DEF AuthRefused
<1>26. OnAuthRevoked => Both
  BY <1>13 DEF OnAuthRevoked
<1>27. ASSUME NEW fetch \in fetches, GetToken(fetch) PROVE Both
  BY <1>3, <1>27 DEF GetToken, tokenVars
<1> HIDE DEF Both, Credentials, TokenFollows, Outdated
<1>28. Progress \/ Opens => Both
  BY <1>4, <1>5, <1>7, <1>11, <1>12, <1>15, <1>19, <1>20, <1>25, <1>27 DEF Progress, Opens, Requested
<1>29. App => Both
  BY <1>7, <1>8, <1>16a, <1>17, <1>21, <1>22, <1>23 DEF App
<1>30. Surroundings => Both
  BY <1>6, <1>9, <1>10, <1>16, <1>18, <1>19, <1>26 DEF Surroundings, Requested
<1> QED
  BY <1>24, <1>28, <1>29, <1>30 DEF ConnectionNext

-----------------------------------------------------------------------------
THEOREM ConnectionInvariant == ConnectionSpec => []ConnectionInv
<1>1. ConnectionInv /\ [ConnectionNext]_connectionVars => ConnectionInv'
  <2> SUFFICES ASSUME ConnectionInv, [ConnectionNext]_connectionVars PROVE ConnectionInv'
    OBVIOUS
  <2> QED
    BY NextStages, NextUsers, NextCredentials DEF ConnectionInv
<1> QED
  BY InitInv, <1>1, PTL DEF ConnectionSpec

\* A client that wants a connection always has a retry scheduled, a fetch under
\* way or a connection, whatever interrupted it in between (tryScheduleReconnect).
THEOREM ClientNeverStranded == ConnectionSpec => []NeverStranded
<1>1. ConnectionInv => NeverStranded
  BY DEF ConnectionInv, Stages
<1> QED
  BY ConnectionInvariant, <1>1, PTL

\* The assertions of tryScheduleReconnect hold: a retry runs, and the latest
\* token arrives, only where no connection has been begun.
THEOREM AttemptsExclusive == ConnectionSpec => []OneWayToConnect
<1>1. ConnectionInv => OneWayToConnect
  BY DEF ConnectionInv, Stages
<1> QED
  BY ConnectionInvariant, <1>1, PTL

\* interruptForReason holds until every reason is taken back.
THEOREM InterruptHolds == ConnectionSpec => []InterruptedStaysDown
<1>1. ConnectionInv => InterruptedStaysDown
  BY DEF ConnectionInv, Stages
<1> QED
  BY ConnectionInvariant, <1>1, PTL

\* The last credential sent on an established connection is the library's; it
\* becomes the new one whenever the user or the token changes, and only the late
\* answer to a fetch for somebody else puts another in its place
\* (refreshAuthToken, restoreAuth, the block of fetchTokenForcingRefresh).
THEOREM CredentialFollows == ConnectionSpec => CredentialFollowsUser
<1> DEFINE Follows == /\ Established' => sessionToken' = authToken'
                      /\ Current' # Current => ~Outdated'
                      /\ Outdated' => Outdated \/ \E fetch \in fetches :
                                                    fetch.user # CurrentUser /\ FetchSucceeds(fetch)
<1>1. ConnectionInv /\ [ConnectionNext]_connectionVars => [Follows]_connectionVars
  <2> SUFFICES ASSUME ConnectionInv, [ConnectionNext]_connectionVars PROVE Follows
    OBVIOUS
  <2> QED  BY NextCredentials DEF Credentials, TokenFollows
<1> HIDE DEF Follows
<1>2. ConnectionSpec => [][Follows]_connectionVars
  BY ConnectionInvariant, <1>1, PTL DEF ConnectionSpec
<1> QED  BY <1>2 DEF CredentialFollowsUser, Follows

-----------------------------------------------------------------------------
(* Requests: what the sequences of requests have in them. *)

\* The requests whose answers are listens'.
ListensIn(s) == {i \in DOMAIN s : s[i].type = "listen"}

LEMMA ListensCounted ==
    ASSUME NEW S, NEW s \in Seq(S)
    PROVE  IsFiniteSet(ListensIn(s)) /\ Cardinality(ListensIn(s)) \in Nat
<1>1. DOMAIN s = 1 .. Len(s) /\ Len(s) \in Nat
  OBVIOUS
<1>2. IsFiniteSet(1 .. Len(s))
  BY <1>1, FS_Interval
<1>3. ListensIn(s) \in SUBSET (1 .. Len(s))
  BY <1>1 DEF ListensIn
<1> QED  BY <1>2, <1>3, FS_Subset, FS_CardinalityType

LEMMA ListensAppended ==
    ASSUME NEW S, NEW s \in Seq(S), NEW x \in S
    PROVE  Cardinality(ListensIn(Append(s, x))) =
             Cardinality(ListensIn(s)) + (IF x.type = "listen" THEN 1 ELSE 0)
<1>1. /\ Len(s) \in Nat /\ DOMAIN s = 1 .. Len(s) /\ DOMAIN Append(s, x) = 1 .. Len(s) + 1
      /\ \A i \in 1 .. Len(s) : Append(s, x)[i] = s[i]
      /\ Append(s, x)[Len(s) + 1] = x
  OBVIOUS
<1>2. IsFiniteSet(ListensIn(s)) /\ Cardinality(ListensIn(s)) \in Nat
  BY ListensCounted
<1>3. CASE x.type = "listen"
  <2>1. ListensIn(Append(s, x)) = ListensIn(s) \cup {Len(s) + 1}
    BY <1>1, <1>3 DEF ListensIn
  <2>2. Len(s) + 1 \notin ListensIn(s)
    BY <1>1 DEF ListensIn
  <2> QED  BY <1>2, <1>3, <2>1, <2>2, FS_AddElement
<1>4. CASE x.type # "listen"
  <2>1. ListensIn(Append(s, x)) = ListensIn(s)
    BY <1>1, <1>4 DEF ListensIn
  <2> QED  BY <1>2, <1>4, <2>1
<1> QED  BY <1>3, <1>4

\* The sequence without one of its elements.
LEMMA Removing ==
    ASSUME NEW S, NEW s \in Seq(S), NEW i \in DOMAIN s
    PROVE  /\ RemoveAt(s, i) \in Seq(S)
           /\ Len(s) \in Nat /\ DOMAIN s = 1 .. Len(s)
           /\ DOMAIN RemoveAt(s, i) = 1 .. Len(s) - 1
           /\ \A k \in 1 .. Len(s) - 1 :
                 RemoveAt(s, i)[k] = IF k < i THEN s[k] ELSE s[k + 1]
<1> DEFINE a == SubSeq(s, 1, i - 1)
           b == SubSeq(s, i + 1, Len(s))
<1>1. i \in 1 .. Len(s) /\ Len(s) \in Nat /\ i \in Nat
  OBVIOUS
<1>2. a \in Seq(S) /\ Len(a) = i - 1 /\ \A k \in 1 .. i - 1 : a[k] = s[k]
  BY <1>1
<1>3. b \in Seq(S) /\ Len(b) = Len(s) - i /\ \A k \in 1 .. Len(s) - i : b[k] = s[i + k]
  BY <1>1
<1>4. RemoveAt(s, i) = a \o b
  BY DEF RemoveAt
<1> HIDE DEF a, b
<1>5. /\ a \o b \in Seq(S) /\ Len(a \o b) = Len(s) - 1
      /\ \A k \in 1 .. i - 1 : (a \o b)[k] = a[k]
      /\ \A k \in i .. Len(s) - 1 : (a \o b)[k] = b[k - (i - 1)]
  BY <1>1, <1>2, <1>3
<1>6. ASSUME NEW k \in 1 .. Len(s) - 1
      PROVE  (a \o b)[k] = IF k < i THEN s[k] ELSE s[k + 1]
  <2>1. CASE k < i
    BY <1>1, <1>2, <1>5, <2>1
  <2>2. CASE k >= i
    <3>1. k - (i - 1) \in 1 .. Len(s) - i /\ i + (k - (i - 1)) = k + 1
      BY <1>1, <2>2
    <3>2. (a \o b)[k] = b[k - (i - 1)]
      BY <1>1, <1>5, <2>2
    <3>3. b[k - (i - 1)] = s[i + (k - (i - 1))]
      BY <1>3, <3>1
    <3>4. ~(k < i)
      BY <1>1, <2>2
    <3> QED  BY <3>1, <3>2, <3>3, <3>4
  <2>3. k < i \/ k >= i
    BY <1>1
  <2> QED  BY <2>1, <2>2, <2>3
<1> QED  BY <1>1, <1>4, <1>5, <1>6

LEMMA ListensRemoved ==
    ASSUME NEW S, NEW s \in Seq(S), NEW i \in DOMAIN s
    PROVE  Cardinality(ListensIn(RemoveAt(s, i))) =
             Cardinality(ListensIn(s)) - (IF s[i].type = "listen" THEN 1 ELSE 0)
<1> DEFINE t == RemoveAt(s, i)
           others == ListensIn(s) \ {i}
           place == [k \in others |-> IF k < i THEN k ELSE k - 1]
<1>1. /\ t \in Seq(S) /\ Len(s) \in Nat /\ DOMAIN s = 1 .. Len(s) /\ DOMAIN t = 1 .. Len(s) - 1
      /\ \A k \in 1 .. Len(s) - 1 : t[k] = IF k < i THEN s[k] ELSE s[k + 1]
  BY Removing
<1> HIDE DEF t
<1>2. IsFiniteSet(ListensIn(s)) /\ Cardinality(ListensIn(s)) \in Nat
  BY ListensCounted
<1>3. place \in Bijection(others, ListensIn(t))
  <2>1. ASSUME NEW k \in others PROVE place[k] \in ListensIn(t)
    <3>1. k \in 1 .. Len(s) /\ k # i /\ s[k].type = "listen" /\ i \in 1 .. Len(s)
      BY <1>1 DEF ListensIn
    <3>2. CASE k < i
      BY <1>1, <3>1, <3>2 DEF ListensIn
    <3>3. CASE k > i
      <4>1. k - 1 \in 1 .. Len(s) - 1 /\ ~(k - 1 < i) /\ (k - 1) + 1 = k
        BY <1>1, <3>1, <3>3
      <4>2. t[k - 1] = s[k]
        BY <1>1, <4>1
      <4> QED  BY <1>1, <3>1, <3>3, <4>1, <4>2 DEF ListensIn
    <3> QED  BY <1>1, <3>1, <3>2, <3>3
  <2>2. ASSUME NEW k \in others, NEW l \in others, place[k] = place[l] PROVE k = l
    <3>1. k \in 1 .. Len(s) /\ k # i /\ l \in 1 .. Len(s) /\ l # i /\ i \in 1 .. Len(s)
      BY <1>1 DEF ListensIn
    <3> QED  BY <1>1, <2>2, <3>1
  <2>3. ASSUME NEW m \in ListensIn(t) PROVE \E k \in others : place[k] = m
    <3>1. m \in 1 .. Len(s) - 1 /\ t[m].type = "listen" /\ i \in 1 .. Len(s)
      BY <1>1 DEF ListensIn
    <3>2. CASE m < i
      BY <1>1, <3>1, <3>2 DEF ListensIn
    <3>3. CASE m >= i
      <4>1. m + 1 \in others /\ ~(m + 1 < i) /\ (m + 1) - 1 = m
        BY <1>1, <3>1, <3>3 DEF ListensIn
      <4> QED  BY <4>1
    <3> QED  BY <1>1, <3>1, <3>2, <3>3
  <2>4. place \in [others -> ListensIn(t)]
    BY <2>1
  <2> QED  BY <2>2, <2>3, <2>4 DEF Bijection, Injection, Surjection, IsInjective
<1>4. IsFiniteSet(others)
      /\ Cardinality(others) =
           IF i \in ListensIn(s) THEN Cardinality(ListensIn(s)) - 1 ELSE Cardinality(ListensIn(s))
  BY <1>2, FS_RemoveElement
<1>5. Cardinality(ListensIn(t)) = Cardinality(others)
  BY <1>3, <1>4, FS_Bijection DEF ExistsBijection
<1>6. i \in ListensIn(s) <=> s[i].type = "listen"
  BY DEF ListensIn
<1> QED  BY <1>2, <1>4, <1>5, <1>6 DEF t

\* The elements of one sequence, then those of another.
LEMMA Joined ==
    ASSUME NEW S, NEW s \in Seq(S), NEW t \in Seq(S), NEW n, Len(t) = n
    PROVE  /\ s \o t \in Seq(S) /\ Len(s) \in Nat /\ n \in Nat
           /\ DOMAIN s = 1 .. Len(s) /\ DOMAIN t = 1 .. n
           /\ Len(s \o t) = Len(s) + n /\ DOMAIN (s \o t) = 1 .. Len(s) + n
           /\ \A i \in 1 .. Len(s) : (s \o t)[i] = s[i]
           /\ \A i \in (Len(s) + 1) .. (Len(s) + n) : (s \o t)[i] = t[i - Len(s)]
OBVIOUS

LEMMA ListensJoined ==
    ASSUME NEW S, NEW s \in Seq(S), NEW t \in Seq(S)
    PROVE  Cardinality(ListensIn(s \o t)) = Cardinality(ListensIn(s)) + Cardinality(ListensIn(t))
<1> DEFINE moved == {i \in (Len(s) + 1) .. (Len(s) + Len(t)) : t[i - Len(s)].type = "listen"}
           place == [k \in ListensIn(t) |-> k + Len(s)]
<1>1. /\ Len(s) \in Nat /\ DOMAIN s = 1 .. Len(s) /\ Len(t) \in Nat /\ DOMAIN t = 1 .. Len(t)
      /\ DOMAIN (s \o t) = 1 .. Len(s) + Len(t)
      /\ \A i \in 1 .. Len(s) : (s \o t)[i] = s[i]
      /\ \A i \in (Len(s) + 1) .. (Len(s) + Len(t)) : (s \o t)[i] = t[i - Len(s)]
  OBVIOUS
<1>2. /\ IsFiniteSet(ListensIn(s)) /\ Cardinality(ListensIn(s)) \in Nat
      /\ IsFiniteSet(ListensIn(t)) /\ Cardinality(ListensIn(t)) \in Nat
  BY ListensCounted
<1>3. ListensIn(s \o t) = ListensIn(s) \cup moved /\ ListensIn(s) \cap moved = {}
  BY <1>1 DEF ListensIn
<1>4. place \in Bijection(ListensIn(t), moved)
  <2>1. place \in [ListensIn(t) -> moved]
    <3>1. ASSUME NEW k \in ListensIn(t) PROVE k + Len(s) \in moved
      <4>1. k \in 1 .. Len(t) /\ t[k].type = "listen"
        BY <1>1 DEF ListensIn
      <4>2. k + Len(s) \in (Len(s) + 1) .. (Len(s) + Len(t)) /\ (k + Len(s)) - Len(s) = k
        BY <1>1, <4>1
      <4> QED  BY <4>1, <4>2
    <3> QED  BY <3>1
  <2>2. ASSUME NEW k \in ListensIn(t), NEW l \in ListensIn(t), place[k] = place[l] PROVE k = l
    <3>1. k \in 1 .. Len(t) /\ l \in 1 .. Len(t)
      BY <1>1 DEF ListensIn
    <3> QED  BY <1>1, <2>2, <3>1
  <2>3. ASSUME NEW m \in moved PROVE \E k \in ListensIn(t) : place[k] = m
    <3>1. m - Len(s) \in ListensIn(t) /\ (m - Len(s)) + Len(s) = m
      BY <1>1 DEF ListensIn
    <3> QED  BY <3>1
  <2> QED  BY <2>1, <2>2, <2>3 DEF Bijection, Injection, Surjection, IsInjective
<1>5. IsFiniteSet(moved) /\ Cardinality(moved) = Cardinality(ListensIn(t))
  BY <1>2, <1>4, FS_Bijection DEF ExistsBijection
<1> HIDE DEF moved
<1>6. Cardinality(ListensIn(s) \cup moved) = Cardinality(ListensIn(s)) + Cardinality(moved) - Cardinality({})
  BY <1>2, <1>3, <1>5, FS_Union
<1> QED  BY <1>2, <1>3, <1>5, <1>6, FS_EmptySet

\* A dictionary whose keys are in a finite range is finite.
LEMMA FinitePuts ==
    ASSUME NEW puts \in SUBSET Put, \A p, q \in puts : p.index = q.index => p = q
    PROVE  IsFiniteSet(puts) /\ Cardinality(puts) \in Nat
<1> DEFINE f == [p \in puts |-> p.index]
<1>1. IsFiniteSet(Index)
  BY FS_Interval, ConnectionBounds DEF Index
<1>2. f \in Injection(puts, Index)
  BY DEF Injection, IsInjective, Put
<1> QED  BY <1>1, <1>2, FS_Injection, FS_CardinalityType

\* Requests of which the middle ones are listens and the last ones puts.
NoPuts(s)   == \A i \in DOMAIN s : s[i].type # "put"
Only(s, kind) == \A i \in DOMAIN s : s[i].type = kind
Distinct(s) == \A i, j \in DOMAIN s : s[i] = s[j] => i = j

InOrder(requests, pending, a, b) ==
    /\ requests \in Seq(Requests)
    /\ Cardinality(ListensIn(requests)) = Cardinality(ListensIn(pending)) + Len(a)
    /\ \A i \in DOMAIN requests :
          requests[i].type = "auth" => i \in DOMAIN pending /\ requests[i] = pending[i]
    /\ \A i \in DOMAIN requests :
          requests[i].type = "put" => \E j \in DOMAIN b : requests[i] = b[j]
    /\ \A i, j \in DOMAIN requests :
          requests[i].type = "put" /\ requests[j] = requests[i] => i = j

LEMMA RestoredInOrder ==
    ASSUME NEW pending \in Seq(Requests), NEW a \in Seq(Requests), NEW b \in Seq(Requests),
           NoPuts(pending), Only(a, "listen"), Only(b, "put"), Distinct(b)
    PROVE  InOrder(pending \o a \o b, pending, a, b)
<1> USE DEF NoPuts, Only, Distinct
<1> DEFINE c == pending \o a
           all == c \o b
           k == Len(pending)
           n == Len(a)
           m == Len(b)
<1>1. /\ k \in Nat /\ n \in Nat /\ m \in Nat
      /\ DOMAIN pending = 1 .. k /\ DOMAIN a = 1 .. n /\ DOMAIN b = 1 .. m
      /\ c \in Seq(Requests) /\ Len(c) = k + n
      /\ \A i \in 1 .. k : c[i] = pending[i]
      /\ \A i \in (k + 1) .. (k + n) : c[i] = a[i - k]
  BY Joined
<1>2. /\ all \in Seq(Requests) /\ DOMAIN all = 1 .. Len(c) + m
      /\ \A i \in 1 .. Len(c) : all[i] = c[i]
      /\ \A i \in (Len(c) + 1) .. (Len(c) + m) : all[i] = b[i - Len(c)]
  <2>1. c \in Seq(Requests)
    BY <1>1
  <2> HIDE DEF c, k, n
  <2> QED  BY <2>1, Joined
<1>3. /\ Cardinality(ListensIn(c)) = Cardinality(ListensIn(pending)) + Cardinality(ListensIn(a))
      /\ Cardinality(ListensIn(all)) = Cardinality(ListensIn(c)) + Cardinality(ListensIn(b))
  <2>1. Cardinality(ListensIn(c)) = Cardinality(ListensIn(pending)) + Cardinality(ListensIn(a))
    BY ListensJoined
  <2> HIDE DEF c
  <2> QED  BY <1>1, <2>1, ListensJoined
<1>4. ListensIn(a) = 1 .. n /\ ListensIn(b) = {}
  BY <1>1 DEF ListensIn
<1>5. Cardinality(ListensIn(pending)) \in Nat
  BY ListensCounted
<1> HIDE DEF c, all, k, n, m
<1>6. Cardinality(ListensIn(a)) = n /\ Cardinality(ListensIn(b)) = 0
  BY <1>1, <1>4, FS_Interval, FS_EmptySet
<1>7. Cardinality(ListensIn(all)) = Cardinality(ListensIn(pending)) + n
  BY <1>1, <1>3, <1>5, <1>6
<1>8. \A i \in DOMAIN all : i \in 1 .. k \/ i \in (k + 1) .. (k + n) \/ i \in (k + n + 1) .. (k + n + m)
  BY <1>1, <1>2
<1>9. \A i \in 1 .. k : all[i] = pending[i]
  BY <1>1, <1>2
<1>10. ASSUME NEW i \in (k + 1) .. (k + n) PROVE all[i].type = "listen"
  <2>1. i \in 1 .. Len(c) /\ i - k \in DOMAIN a
    BY <1>1
  <2>2. all[i] = a[i - k]
    BY <1>1, <1>2, <2>1
  <2> QED  BY <2>1, <2>2
<1>11. ASSUME NEW i \in (k + n + 1) .. (k + n + m)
       PROVE  i - (k + n) \in DOMAIN b /\ all[i] = b[i - (k + n)]
  BY <1>1, <1>2
<1>12. \A i \in DOMAIN all : all[i].type = "put" => i \in (k + n + 1) .. (k + n + m)
  BY <1>1, <1>8, <1>9, <1>10
<1>13. \A i \in DOMAIN all : all[i].type = "auth" => i \in DOMAIN pending /\ all[i] = pending[i]
  BY <1>1, <1>8, <1>9, <1>10, <1>11
<1>14. \A i \in DOMAIN all : all[i].type = "put" => \E j \in DOMAIN b : all[i] = b[j]
  BY <1>11, <1>12
<1>15. ASSUME NEW i \in DOMAIN all, NEW j \in DOMAIN all, all[i].type = "put", all[j] = all[i]
       PROVE  i = j
  <2>1. i \in (k + n + 1) .. (k + n + m) /\ j \in (k + n + 1) .. (k + n + m)
    BY <1>12, <1>15
  <2>2. i - (k + n) = j - (k + n)
    BY <1>11, <1>15, <2>1
  <2> QED  BY <1>1, <2>1, <2>2
<1> QED  BY <1>2, <1>7, <1>13, <1>14, <1>15 DEF InOrder, all, c, n

\* What waits for an answer after a restore.
RestoredTo(all, pending, puts, heard) ==
    /\ all \in Seq(Requests)
    /\ Cardinality(ListensIn(all)) = Cardinality(ListensIn(pending)) + Cardinality(heard)
    /\ \A i \in DOMAIN all : all[i].type = "auth" => i \in DOMAIN pending /\ all[i] = pending[i]
    /\ \A i \in DOMAIN all : all[i].type = "put" => \E p \in puts : all[i].index = p.index
    /\ \A i, j \in DOMAIN all : all[i].type = "put" /\ all[j] = all[i] => i = j

LEMMA Restored ==
    ASSUME NEW pending \in Seq(Requests), NEW puts \in SUBSET Put, NEW heard \in SUBSET Listen,
           \A p, q \in puts : p.index = q.index => p = q, IsFiniteSet(heard),
           NEW order \in InAnyOrder(heard), NEW queue \in InIndexOrder(puts),
           NoPuts(pending), NEW all
    PROVE  all = pending \o [i \in DOMAIN order |-> ListenRequest(order[i])]
                         \o [i \in DOMAIN queue |-> PutRequest(queue[i])] =>
           RestoredTo(all, pending, puts, heard)
<1> DEFINE n == Cardinality(heard)
           m == Cardinality(puts)
           a == [i \in DOMAIN order |-> ListenRequest(order[i])]
           b == [i \in DOMAIN queue |-> PutRequest(queue[i])]
<1>1. n \in Nat /\ m \in Nat
  BY FinitePuts, FS_CardinalityType
<1>2. /\ order \in [1 .. n -> heard] /\ DOMAIN order = 1 .. n
      /\ queue \in [1 .. m -> puts] /\ DOMAIN queue = 1 .. m
      /\ \A i, j \in 1 .. m : queue[i] = queue[j] => i = j
  BY DEF InAnyOrder, InIndexOrder, Bijection, Injection, IsInjective
<1>3. a \in Seq(Requests) /\ Len(a) = n /\ \A i \in DOMAIN a : a[i].type = "listen"
  <2>1. \A i \in 1 .. n : ListenRequest(order[i]) \in Requests /\ ListenRequest(order[i]).type = "listen"
    BY <1>2 DEF ListenRequest, Requests
  <2>2. a \in [1 .. n -> Requests] /\ \A i \in 1 .. n : a[i].type = "listen"
    BY <1>2, <2>1
  <2> HIDE DEF a, n
  <2> QED  BY <1>1, <2>2
<1>4. /\ b \in Seq(Requests) /\ DOMAIN b = 1 .. m
      /\ \A i \in 1 .. m : b[i].type = "put" /\ b[i].index = queue[i].index
  <2>1. \A i \in 1 .. m : PutRequest(queue[i]) \in Requests /\ PutRequest(queue[i]).type = "put"
                          /\ PutRequest(queue[i]).index = queue[i].index
    BY <1>2 DEF PutRequest, Requests, Put
  <2>2. b \in [1 .. m -> Requests]
        /\ \A i \in 1 .. m : b[i].type = "put" /\ b[i].index = queue[i].index
    BY <1>2, <2>1
  <2> HIDE DEF b, m
  <2> QED  BY <1>1, <2>2
<1> HIDE DEF a, b
<1>5. \A i, j \in DOMAIN b : b[i] = b[j] => i = j
  BY <1>2, <1>4
<1>6. \A i \in DOMAIN b : b[i].type = "put" /\ \E p \in puts : b[i].index = p.index
  BY <1>2, <1>4
<1>7. ASSUME all = pending \o a \o b
      PROVE  /\ all \in Seq(Requests)
             /\ Cardinality(ListensIn(all)) = Cardinality(ListensIn(pending)) + n
             /\ \A i \in DOMAIN all : all[i].type = "auth" => i \in DOMAIN pending /\ all[i] = pending[i]
             /\ \A i \in DOMAIN all : all[i].type = "put" => \E p \in puts : all[i].index = p.index
             /\ \A i, j \in DOMAIN all : all[i].type = "put" /\ all[j] = all[i] => i = j
  <2>1. InOrder(all, pending, a, b)
    <3>1. NoPuts(pending) /\ Only(a, "listen") /\ Only(b, "put") /\ Distinct(b)
      BY <1>3, <1>5, <1>6 DEF Only, Distinct
    <3>2. a \in Seq(Requests) /\ b \in Seq(Requests)
      BY <1>3, <1>4
    <3> QED  BY <1>7, <3>1, <3>2, RestoredInOrder
  <2>2. ASSUME NEW i \in DOMAIN all, all[i].type = "put" PROVE \E p \in puts : all[i].index = p.index
    <3>1. PICK j \in DOMAIN b : all[i] = b[j]
      BY <2>1, <2>2 DEF InOrder
    <3> QED  BY <1>6, <3>1
  <2> QED  BY <1>3, <2>1, <2>2 DEF InOrder
<1> QED  BY <1>7 DEF RestoredTo, a, b, n

-----------------------------------------------------------------------------
(***************************************************************************)
(* The inductive invariant of the requests and the puts.  That a put runs  *)
(* its block once needs more than the places of the puts: a new index must *)
(* be new (the counter bounds every index that is anywhere), and a put can *)
(* be sent again only when no transaction among the outstanding was sent,  *)
(* which needs that only one authentication restores the state and that no *)
(* put is sent while it is awaited.  A block finds its write because the   *)
(* tree has the writes of all puts that are outstanding or held back.      *)
(***************************************************************************)
AccountTyped == refused \in Token /\ authToken \in Token /\ sessionToken \in Token

RequestsTyped ==
    /\ requestCBHash \in Seq(Requests)
    /\ listens \subseteq Listen /\ IsFiniteSet(listens)
    /\ unackedListensCount = Cardinality(ListensIn(requestCBHash))

PutsTyped ==
    /\ outstandingPuts \subseteq Put /\ putsToAck \subseteq Put
    /\ putCounter \in Nat /\ allWrites \subseteq Index /\ assertionFailed \in BOOLEAN
    /\ completions \in [Index -> Nat] /\ sends \in [Index -> Nat]
    /\ calls \in Nat /\ disturbances \in Nat

\* Only the first request authenticates for a restore, and only while it is awaited.
AuthsAwaited ==
    /\ connectionState = "authenticating" =>
          /\ 1 \in DOMAIN requestCBHash
          /\ requestCBHash[1].type = "auth" /\ requestCBHash[1].restore
    /\ \A i \in DOMAIN requestCBHash :
          requestCBHash[i].type = "auth" /\ requestCBHash[i].restore =>
              i = 1 /\ connectionState = "authenticating"

\* A put is sent when writes can be sent, once.
PutsAwaited ==
    /\ \A i \in DOMAIN requestCBHash : requestCBHash[i].type = "put" =>
          CanSendWrites /\ requestCBHash[i].index <= putCounter
    /\ \A i, j \in DOMAIN requestCBHash :
          requestCBHash[i].type = "put" /\ requestCBHash[j] = requestCBHash[i] => i = j

SentWhileConnected == ~CanSendWrites => SentTransactions = {}

OnePlace ==
    /\ \A p, q \in outstandingPuts \cup putsToAck : p.index = q.index => p = q
    /\ outstandingPuts \cap putsToAck = {}
    /\ \A p \in outstandingPuts \cup putsToAck : p.index <= putCounter
    /\ putCounter <= calls
    /\ completions = [i \in Index |->
          IF i <= putCounter /\ i \notin Indices(outstandingPuts \cup putsToAck) THEN 1 ELSE 0]
    /\ ~assertionFailed => allWrites = Indices(outstandingPuts \cup putsToAck)

SentOnce ==
    /\ \A i \in Index : i > putCounter => sends[i] = 0
    /\ \A p \in outstandingPuts : ~p.sent => sends[p.index] = 0
    /\ \A p \in outstandingPuts : p.transaction => sends[p.index] <= 1

RequestsInv == RequestsTyped /\ AuthsAwaited /\ PutsAwaited
PutsInv     == PutsTyped /\ OnePlace /\ SentOnce

EachPutInv == AccountTyped /\ RequestsInv /\ PutsInv /\ SentWhileConnected

LEMMA InitEachPut == ConnectionInit => EachPutInv
<1> SUFFICES ASSUME ConnectionInit PROVE EachPutInv
  OBVIOUS
<1>1. AccountTyped
  BY DEF ConnectionInit, AccountTyped
<1>2. requestCBHash = <<>> /\ listens = {} /\ unackedListensCount = 0
      /\ connectionState = "disconnected"
  BY DEF ConnectionInit
<1>3. requestCBHash \in Seq(Requests) /\ DOMAIN requestCBHash = {}
  BY <1>2
<1>4. ListensIn(requestCBHash) = {}
  BY <1>3 DEF ListensIn
<1>5. RequestsInv
  BY <1>2, <1>3, <1>4, FS_EmptySet DEF RequestsInv, RequestsTyped, AuthsAwaited, PutsAwaited
<1>6. /\ outstandingPuts = {} /\ putCounter = 0 /\ putsToAck = {} /\ allWrites = {}
      /\ assertionFailed = FALSE
      /\ completions = [i \in Index |-> 0] /\ sends = [i \in Index |-> 0]
      /\ calls = 0 /\ disturbances = 0
  BY DEF ConnectionInit
<1>7. PutsInv
  <2>1. PutsTyped /\ SentOnce
    BY <1>6 DEF PutsTyped, SentOnce, Index
  <2>2. Indices(outstandingPuts \cup putsToAck) = {}
    BY <1>6 DEF Indices
  <2>3. \A i \in Index : ~(i <= putCounter)
    BY <1>6 DEF Index
  <2>4. OnePlace
    BY <1>6, <2>2, <2>3 DEF OnePlace
  <2> QED  BY <2>1, <2>4 DEF PutsInv
<1>8. SentWhileConnected
  BY <1>6 DEF SentWhileConnected, SentTransactions
<1> QED  BY <1>1, <1>5, <1>7, <1>8 DEF EachPutInv

-----------------------------------------------------------------------------
(* Requests sent and answered. *)

LEMMA RequestSent ==
    ASSUME RequestsInv, NEW x \in Requests, requestCBHash' = Append(requestCBHash, x),
           connectionState' = connectionState, putCounter \in Nat, putCounter' \in Nat,
           putCounter <= putCounter', x.type = "auth" => ~x.restore,
           x.type = "put" => CanSendWrites /\ putCounter < x.index /\ x.index = putCounter',
           unackedListensCount' = unackedListensCount + (IF x.type = "listen" THEN 1 ELSE 0),
           listens' \subseteq Listen, IsFiniteSet(listens')
    PROVE  RequestsInv'
<1>1. requestCBHash \in Seq(Requests)
  BY DEF RequestsInv, RequestsTyped
<1>2. /\ requestCBHash' \in Seq(Requests) /\ Len(requestCBHash) \in Nat
      /\ DOMAIN requestCBHash = 1 .. Len(requestCBHash)
      /\ DOMAIN requestCBHash' = 1 .. Len(requestCBHash) + 1
      /\ \A i \in DOMAIN requestCBHash : requestCBHash'[i] = requestCBHash[i]
      /\ requestCBHash'[Len(requestCBHash) + 1] = x
  BY <1>1
<1>3. RequestsTyped'
  BY <1>1, <1>2, ListensAppended DEF RequestsInv, RequestsTyped
<1>4. AuthsAwaited'
  BY <1>2 DEF RequestsInv, AuthsAwaited
<1>5. ASSUME NEW i \in DOMAIN requestCBHash', requestCBHash'[i].type = "put"
      PROVE  /\ CanSendWrites' /\ requestCBHash'[i].index <= putCounter'
             /\ i \in DOMAIN requestCBHash \/ i = Len(requestCBHash) + 1
             /\ i \in DOMAIN requestCBHash => requestCBHash'[i].index <= putCounter
  <2>1. CASE i \in DOMAIN requestCBHash
    <3>1. requestCBHash'[i] = requestCBHash[i] /\ requestCBHash[i] \in Requests
      BY <1>1, <1>2, <2>1
    <3>2. CanSendWrites /\ requestCBHash[i].index <= putCounter
      BY <1>5, <2>1, <3>1 DEF RequestsInv, PutsAwaited
    <3>3. requestCBHash[i].index \in Nat
      BY <1>5, <3>1 DEF Requests, Index
    <3> QED  BY <2>1, <3>1, <3>2, <3>3
  <2>2. CASE i = Len(requestCBHash) + 1
    BY <1>2, <1>5, <2>2
  <2> QED  BY <1>2, <2>1, <2>2
<1>6. ASSUME NEW i \in DOMAIN requestCBHash', NEW j \in DOMAIN requestCBHash',
             requestCBHash'[i].type = "put", requestCBHash'[j] = requestCBHash'[i]
      PROVE  i = j
  <2>1. CASE i \in DOMAIN requestCBHash /\ j \in DOMAIN requestCBHash
    BY <1>2, <1>6, <2>1 DEF RequestsInv, PutsAwaited
  <2>2. CASE i \in DOMAIN requestCBHash /\ j = Len(requestCBHash) + 1
    BY <1>2, <1>5, <1>6, <2>2
  <2>3. CASE j \in DOMAIN requestCBHash /\ i = Len(requestCBHash) + 1
    BY <1>2, <1>5, <1>6, <2>3
  <2> QED  BY <1>2, <2>1, <2>2, <2>3
<1>7. PutsAwaited'
  BY <1>5, <1>6 DEF PutsAwaited
<1> QED  BY <1>3, <1>4, <1>7 DEF RequestsInv

LEMMA RequestAnswered ==
    ASSUME RequestsInv, NEW i \in DOMAIN requestCBHash, requestCBHash' = RemoveAt(requestCBHash, i),
           requestCBHash[i].type = "auth" => ~requestCBHash[i].restore,
           UNCHANGED <<connectionState, putCounter>>, listens' \subseteq listens,
           unackedListensCount' =
               unackedListensCount - (IF requestCBHash[i].type = "listen" THEN 1 ELSE 0)
    PROVE  RequestsInv'
<1> DEFINE from(k) == IF k < i THEN k ELSE k + 1
<1>1. requestCBHash \in Seq(Requests)
  BY DEF RequestsInv, RequestsTyped
<1>2. /\ requestCBHash' \in Seq(Requests) /\ Len(requestCBHash) \in Nat
      /\ DOMAIN requestCBHash = 1 .. Len(requestCBHash)
      /\ DOMAIN requestCBHash' = 1 .. Len(requestCBHash) - 1
      /\ \A k \in 1 .. Len(requestCBHash) - 1 : requestCBHash'[k] =
            IF k < i THEN requestCBHash[k] ELSE requestCBHash[k + 1]
  BY <1>1, Removing
<1>3. /\ \A k \in DOMAIN requestCBHash' :
            from(k) \in DOMAIN requestCBHash /\ requestCBHash'[k] = requestCBHash[from(k)]
      /\ \A k, l \in DOMAIN requestCBHash' : from(k) = from(l) => k = l
      /\ \A k \in DOMAIN requestCBHash' : from(k) = 1 => k = 1
  BY <1>1, <1>2
<1>4. RequestsTyped'
  BY <1>1, <1>2, ListensRemoved, FS_Subset DEF RequestsInv, RequestsTyped
<1>5. AuthsAwaited'
  <2>1. CASE connectionState = "authenticating"
    <3>1. i # 1 /\ 1 \in DOMAIN requestCBHash
      BY <2>1 DEF RequestsInv, AuthsAwaited
    <3>2. 1 \in DOMAIN requestCBHash' /\ from(1) = 1
      BY <1>2, <3>1
    <3> QED  BY <1>3, <2>1, <3>2 DEF RequestsInv, AuthsAwaited
  <2>2. CASE connectionState # "authenticating"
    <3>1. \A k \in DOMAIN requestCBHash : ~(requestCBHash[k].type = "auth" /\ requestCBHash[k].restore)
      BY <2>2 DEF RequestsInv, AuthsAwaited
    <3> HIDE DEF from
    <3> QED  BY <1>3, <2>2, <3>1 DEF AuthsAwaited
  <2> QED  BY <2>1, <2>2
<1> HIDE DEF from
<1>6. PutsAwaited'
  BY <1>3 DEF RequestsInv, PutsAwaited
<1> QED  BY <1>4, <1>5, <1>6 DEF RequestsInv

\* A step that neither sends nor answers.
LEMMA SameRequests ==
    ASSUME RequestsInv, UNCHANGED <<connectionState, requestCBHash, unackedListensCount, putCounter>>,
           listens' \subseteq Listen, IsFiniteSet(listens')
    PROVE  RequestsInv'
BY DEF RequestsInv, RequestsTyped, AuthsAwaited, PutsAwaited

\* No request is awaited on a connection that is not established.
LEMMA NothingRequested ==
    ASSUME requestCBHash' = <<>>, connectionState' # "authenticating", unackedListensCount' = 0,
           listens' \subseteq Listen, IsFiniteSet(listens')
    PROVE  RequestsInv'
<1>1. requestCBHash' \in Seq(Requests) /\ DOMAIN requestCBHash' = {}
  OBVIOUS
<1>2. ListensIn(requestCBHash') = {}
  BY <1>1 DEF ListensIn
<1> QED  BY <1>1, <1>2, FS_EmptySet DEF RequestsInv, RequestsTyped, AuthsAwaited, PutsAwaited

-----------------------------------------------------------------------------
(* Puts made, sent and completed. *)

\* Puts leave for good, each with its block, which finds its write.
LEMMA PutsLeave ==
    ASSUME PutsInv, WritesFound, outstandingPuts' \subseteq outstandingPuts,
           putsToAck' \subseteq outstandingPuts \cup putsToAck,
           outstandingPuts' \cap putsToAck' = {},
           NEW gone, gone = (outstandingPuts \cup putsToAck) \ (outstandingPuts' \cup putsToAck'),
           RunBlocks(gone),
           UNCHANGED <<putCounter, sends>>, calls' \in Nat, calls <= calls', disturbances' \in Nat
    PROVE  PutsInv' /\ WritesFound'
<1> DEFINE before == outstandingPuts \cup putsToAck
           after  == outstandingPuts' \cup putsToAck'
<1>1. /\ after \subseteq before /\ gone = before \ after /\ before \subseteq Put
      /\ \A p, q \in before : p.index = q.index => p = q
      /\ \A p \in before : p.index <= putCounter /\ p.index \in Index
      /\ putCounter \in Nat /\ calls \in Nat /\ putCounter <= calls
      /\ completions \in [Index -> Nat] /\ allWrites \subseteq Index
  BY DEF PutsInv, PutsTyped, OnePlace, Put
<1>2. /\ completions = [i \in Index |-> IF i <= putCounter /\ i \notin Indices(before) THEN 1 ELSE 0]
      /\ allWrites = Indices(before)
  BY DEF PutsInv, OnePlace, WritesFound
<1>2a. /\ completions' = Ran(Indices(gone), completions) /\ allWrites' = allWrites \ Indices(gone)
       /\ assertionFailed' = ~(Indices(gone) \subseteq allWrites)
  BY DEF RunBlocks
<1>3. PutsTyped'
  BY <1>1, <1>2a DEF PutsInv, PutsTyped, Ran
<1>4. SentOnce'
  BY DEF PutsInv, SentOnce
<1> HIDE DEF before, after
<1>5. Indices(after) = Indices(before) \ Indices(gone) /\ Indices(gone) \subseteq Indices(before)
  BY <1>1 DEF Indices
<1>6. \A i \in Index : /\ i \in Indices(gone) => i \in Indices(before) /\ i \notin Indices(after) /\ i <= putCounter
                       /\ i \in Indices(before) => i \in Indices(gone) \/ i \in Indices(after)
                       /\ i \in Indices(after) => i \in Indices(before)
  BY <1>1 DEF Indices
<1>7. completions' = [i \in Index |-> IF i <= putCounter /\ i \notin Indices(after) THEN 1 ELSE 0]
  <2>1. \A i \in Index : (IF i \in Indices(gone) THEN completions[i] + 1 ELSE completions[i]) =
                         (IF i <= putCounter /\ i \notin Indices(after) THEN 1 ELSE 0)
    <3>1. \A i \in Index : completions[i] = IF i <= putCounter /\ i \notin Indices(before) THEN 1 ELSE 0
      BY <1>2
    <3>2. \A i \in Index : i \in Indices(gone) => completions[i] = 0
      BY <1>6, <3>1
    <3>3. ASSUME NEW i \in Index
          PROVE  (IF i \in Indices(gone) THEN completions[i] + 1 ELSE completions[i]) =
                 (IF i <= putCounter /\ i \notin Indices(after) THEN 1 ELSE 0)
      <4>1. CASE i \in Indices(gone)
        BY <1>6, <3>2, <4>1
      <4>2. CASE i \notin Indices(gone)
        <5>1. i \in Indices(before) <=> i \in Indices(after)
          BY <1>6, <4>2
        <5> QED  BY <3>1, <4>2, <5>1
      <4> QED  BY <4>1, <4>2
    <3> QED  BY <3>3
  <2> QED  BY <1>2a, <2>1 DEF Ran
<1>8. OnePlace'
  <2>1. \A p, q \in after : p.index = q.index => p = q
    BY <1>1
  <2>2. \A p \in after : p.index <= putCounter'
    BY <1>1
  <2>3. putCounter' <= calls'
    BY <1>1
  <2>4. allWrites' = Indices(after)
    BY <1>2, <1>2a, <1>5
  <2> QED  BY <1>7, <2>1, <2>2, <2>3, <2>4 DEF OnePlace, after
<1>9. WritesFound'
  BY <1>2, <1>2a, <1>5 DEF WritesFound
<1> QED  BY <1>3, <1>4, <1>8, <1>9 DEF PutsInv

\* Nothing happens to the puts.
LEMMA SamePuts ==
    ASSUME PutsInv, WritesFound, UNCHANGED putVars, calls' \in Nat, calls <= calls',
           disturbances' \in Nat
    PROVE  PutsInv' /\ WritesFound'
<1>1. UNCHANGED <<outstandingPuts, putCounter, putsToAck, allWrites, assertionFailed, completions,
                  sends>>
  BY DEF putVars
<1>2. putCounter <= calls'
  BY DEF PutsInv, PutsTyped, OnePlace
<1> QED  BY <1>1, <1>2 DEF PutsInv, PutsTyped, OnePlace, SentOnce, WritesFound

\* set and the put of a transaction.
LEMMA PutMade ==
    ASSUME PutsInv, WritesFound, NEW transaction \in BOOLEAN, putData(transaction)
    PROVE  /\ PutsInv' /\ WritesFound' /\ putCounter' = putCounter + 1 /\ putCounter' \in Index
           /\ calls' = calls + 1
<1> DEFINE put == [index |-> putCounter + 1, transaction |-> transaction, sent |-> CanSendWrites]
           before == outstandingPuts \cup putsToAck
<1>1. /\ calls < MaxCalls /\ calls' = calls + 1 /\ disturbances' = disturbances
      /\ putCounter' = putCounter + 1 /\ outstandingPuts' = outstandingPuts \cup {put}
      /\ allWrites' = allWrites \cup {putCounter + 1}
      /\ sends' = IF CanSendWrites THEN Ran({putCounter + 1}, sends) ELSE sends
      /\ UNCHANGED <<putsToAck, assertionFailed, completions>>
  BY DEF putData, Called
<1>2. /\ calls \in Nat /\ putCounter \in Nat /\ putCounter <= calls /\ disturbances \in Nat
      /\ before \subseteq Put /\ allWrites \subseteq Index /\ assertionFailed = FALSE
      /\ completions \in [Index -> Nat] /\ sends \in [Index -> Nat]
      /\ \A p \in before : p.index <= putCounter /\ p.index \in Index
  BY DEF PutsInv, PutsTyped, OnePlace, Put, WritesFound
<1>2a. /\ completions = [i \in Index |-> IF i <= putCounter /\ i \notin Indices(before) THEN 1 ELSE 0]
       /\ allWrites = Indices(before)
  BY <1>2 DEF PutsInv, OnePlace
<1>3. putCounter + 1 \in Index
  BY <1>1, <1>2, ConnectionBounds DEF Index
<1>3a. sends[putCounter + 1] = 0
  BY <1>2, <1>3 DEF PutsInv, SentOnce
<1>4. put \in Put /\ put.index = putCounter + 1 /\ put.transaction = transaction /\ put.sent = CanSendWrites
  BY <1>3 DEF Put
<1> HIDE DEF put
<1>5. put \notin before /\ \A p \in before : p.index # put.index
  BY <1>2, <1>4
<1>6. Indices(before \cup {put}) = Indices(before) \cup {putCounter + 1}
  BY <1>4 DEF Indices
<1>7. PutsTyped'
  <2>1. outstandingPuts' \subseteq Put /\ putsToAck' \subseteq Put /\ putCounter' \in Nat
        /\ calls' \in Nat /\ disturbances' \in Nat /\ completions' \in [Index -> Nat]
    BY <1>1, <1>2, <1>4
  <2>2. allWrites' \subseteq Index
    BY <1>1, <1>2, <1>3
  <2>3. sends' \in [Index -> Nat]
    BY <1>1, <1>2 DEF Ran
  <2> QED  BY <1>1, <1>2, <2>1, <2>2, <2>3 DEF PutsTyped
<1>8. OnePlace'
  <2>1. \A p, q \in before \cup {put} : p.index = q.index => p = q
    BY <1>5 DEF PutsInv, OnePlace
  <2>2. outstandingPuts' \cap putsToAck' = {}
    BY <1>1, <1>5 DEF PutsInv, OnePlace
  <2>3. \A p \in before \cup {put} : p.index <= putCounter'
    <3>1. \A p \in before : p.index \in Nat
      BY <1>2 DEF Index
    <3> QED  BY <1>1, <1>2, <1>4, <3>1
  <2>4. completions' = [i \in Index |->
            IF i <= putCounter' /\ i \notin Indices(before \cup {put}) THEN 1 ELSE 0]
    <3>1. \A i \in Index : i <= putCounter' /\ i # putCounter + 1 <=> i <= putCounter
      BY <1>1, <1>2 DEF Index
    <3> HIDE DEF before
    <3>2. \A i \in Index : i <= putCounter' /\ i \notin Indices(before \cup {put})
                           <=> i <= putCounter /\ i \notin Indices(before)
      BY <1>6, <3>1
    <3> QED  BY <1>1, <1>2a, <3>2
  <2>5. outstandingPuts' \cup putsToAck' = before \cup {put}
    BY <1>1
  <2>6. allWrites' = Indices(before \cup {put})
    BY <1>1, <1>2a, <1>6
  <2>7. putCounter' <= calls'
    BY <1>1, <1>2
  <2> QED  BY <2>1, <2>2, <2>3, <2>4, <2>5, <2>6, <2>7 DEF OnePlace
<1>9. SentOnce'
  <2>1. \A i \in Index : i # putCounter + 1 => sends'[i] = sends[i]
    BY <1>1, <1>2 DEF Ran
  <2>2. sends'[putCounter + 1] = IF CanSendWrites THEN 1 ELSE 0
    BY <1>1, <1>2, <1>3, <1>3a DEF Ran
  <2>3. \A i \in Index : i > putCounter' => sends'[i] = 0
    <3>1. \A i \in Index : i > putCounter' => i # putCounter + 1 /\ i > putCounter
      BY <1>1, <1>2 DEF Index
    <3> QED  BY <2>1, <3>1 DEF PutsInv, SentOnce
  <2>4. ASSUME NEW p \in outstandingPuts'
        PROVE  (~p.sent => sends'[p.index] = 0) /\ (p.transaction => sends'[p.index] <= 1)
    <3>1. CASE p = put
      <4>1. CASE CanSendWrites
        <5>1. put.sent /\ sends'[put.index] = 1
          BY <1>4, <2>2, <4>1
        <5> QED  BY <3>1, <5>1
      <4>2. CASE ~CanSendWrites
        BY <1>4, <2>2, <3>1, <4>2
      <4> QED  BY <4>1, <4>2
    <3>2. CASE p \in outstandingPuts
      <4>1. sends'[p.index] = sends[p.index]
        BY <1>2, <1>4, <1>5, <2>1, <3>2
      <4> QED  BY <3>2, <4>1 DEF PutsInv, SentOnce
    <3> QED  BY <1>1, <2>4, <3>1, <3>2
  <2> QED  BY <2>3, <2>4 DEF SentOnce
<1> QED  BY <1>1, <1>2, <1>3, <1>7, <1>8, <1>9 DEF PutsInv, WritesFound

\* Every outstanding put is sent again, and no transaction for the second time.
LEMMA PutsRestored ==
    ASSUME PutsInv, WritesFound, SentTransactions = {}, NEW pending, RestoreState(pending),
           UNCHANGED <<calls, disturbances>>
    PROVE  PutsInv' /\ WritesFound'
<1> DEFINE again(p) == [p EXCEPT !.sent = TRUE]
<1>1. /\ outstandingPuts' = {again(p) : p \in outstandingPuts}
      /\ sends' = Ran(Indices(outstandingPuts), sends)
      /\ UNCHANGED <<listens, putCounter, putsToAck, allWrites, assertionFailed, completions>>
  BY DEF RestoreState, PutsToRestore
<1>2. /\ outstandingPuts \subseteq Put /\ putsToAck \subseteq Put
      /\ sends \in [Index -> Nat] /\ putCounter \in Nat
  BY DEF PutsInv, PutsTyped
<1>3. ASSUME NEW p \in outstandingPuts
      PROVE  /\ again(p) \in Put /\ again(p).index = p.index /\ again(p).sent
             /\ again(p).transaction = p.transaction
             /\ p.index \in Index /\ p.index <= putCounter
             /\ \A q \in putsToAck : q.index # p.index
  <2>1. again(p) \in Put /\ again(p).index = p.index /\ again(p).sent
        /\ again(p).transaction = p.transaction /\ p.index \in Index
    BY <1>2 DEF Put
  <2>2. p.index <= putCounter /\ \A q \in putsToAck : q.index # p.index
    BY DEF PutsInv, OnePlace
  <2> QED  BY <2>1, <2>2
<1> HIDE DEF again
<1>4. outstandingPuts' \subseteq Put
  BY <1>1, <1>3
<1>5. \A p, q \in outstandingPuts : p.index = q.index => again(p) = again(q)
  BY DEF PutsInv, OnePlace
<1>6. PutsTyped'
  <2>1. sends' \in [Index -> Nat]
    BY <1>1, <1>2 DEF Ran
  <2> QED  BY <1>1, <1>4, <2>1 DEF PutsInv, PutsTyped
<1>7. Indices(outstandingPuts' \cup putsToAck') = Indices(outstandingPuts \cup putsToAck)
  BY <1>1, <1>3 DEF Indices
<1>8. allWrites' = Indices(outstandingPuts' \cup putsToAck') /\ WritesFound'
  BY <1>1, <1>7 DEF PutsInv, OnePlace, WritesFound
<1>9. OnePlace'
  <2>1. ASSUME NEW x \in outstandingPuts' \cup putsToAck', NEW y \in outstandingPuts' \cup putsToAck',
               x.index = y.index
        PROVE  x = y
    <3>1. CASE x \in putsToAck /\ y \in putsToAck
      BY <2>1, <3>1 DEF PutsInv, OnePlace
    <3>2. CASE x \in outstandingPuts' /\ y \in outstandingPuts'
      BY <1>1, <1>3, <1>5, <2>1, <3>2
    <3>3. ~(x \in outstandingPuts' /\ y \in putsToAck) /\ ~(y \in outstandingPuts' /\ x \in putsToAck)
      BY <1>1, <1>3, <2>1
    <3> QED  BY <1>1, <2>1, <3>1, <3>2, <3>3
  <2>2. outstandingPuts' \cap putsToAck' = {}
    BY <1>1, <1>3
  <2>3. \A p \in outstandingPuts' \cup putsToAck' : p.index <= putCounter'
    BY <1>1, <1>3 DEF PutsInv, OnePlace
  <2>4. putCounter' <= calls' /\ allWrites' = Indices(outstandingPuts' \cup putsToAck')
    BY <1>1, <1>8 DEF PutsInv, OnePlace
  <2>5. completions' = [i \in Index |->
            IF i <= putCounter' /\ i \notin Indices(outstandingPuts' \cup putsToAck') THEN 1 ELSE 0]
    BY <1>1, <1>7 DEF PutsInv, OnePlace
  <2> QED  BY <2>1, <2>2, <2>3, <2>4, <2>5 DEF OnePlace
<1>10. SentOnce'
  <2>1. \A i \in Index : i > putCounter' => sends'[i] = 0
    <3>1. \A i \in Index : i \in Indices(outstandingPuts) => i <= putCounter
      BY <1>3 DEF Indices
    <3>2. \A i \in Index : i > putCounter => i \notin Indices(outstandingPuts)
      BY <1>2, <3>1 DEF Index
    <3> QED  BY <1>1, <3>2 DEF Ran, PutsInv, SentOnce
  <2>2. ASSUME NEW x \in outstandingPuts', x.transaction PROVE sends'[x.index] <= 1
    <3>1. PICK p \in outstandingPuts : x = again(p)
      BY <1>1
    <3>2. p.transaction /\ x.index = p.index /\ p.index \in Index
      BY <1>3, <2>2, <3>1
    <3>3. sends[p.index] = 0
      BY <3>2 DEF SentTransactions, PutsInv, SentOnce
    <3> QED  BY <1>1, <3>2, <3>3 DEF Ran
  <2>3. \A x \in outstandingPuts' : x.sent
    BY <1>1, <1>3
  <2> QED  BY <2>1, <2>2, <2>3 DEF SentOnce
<1> QED  BY <1>6, <1>8, <1>9, <1>10 DEF PutsInv

\* A restore after which nothing is awaited but what was before and what it sent.
LEMMA StateRestored ==
    ASSUME EachPutInv, WritesFound, ~CanSendWrites, connectionState' = "connected", NEW pending \in Seq(Requests),
           NoPuts(pending), \A i \in DOMAIN pending : pending[i].type = "auth" => ~pending[i].restore,
           Cardinality(ListensIn(pending)) = unackedListensCount, RestoreState(pending),
           UNCHANGED <<calls, disturbances>>
    PROVE  RequestsInv' /\ PutsInv' /\ WritesFound' /\ SentWhileConnected'
<1>1. /\ RequestsTyped /\ PutsInv /\ SentTransactions = {}
      /\ listens \subseteq Listen /\ IsFiniteSet(listens) /\ outstandingPuts \in SUBSET Put
      /\ \A p, q \in outstandingPuts : p.index = q.index => p = q
      /\ \A p \in outstandingPuts : p.index <= putCounter
  BY DEF EachPutInv, RequestsInv, RequestsTyped, PutsInv, PutsTyped, OnePlace, SentWhileConnected
<1>2. /\ unackedListensCount' = unackedListensCount + Cardinality(listens)
      /\ UNCHANGED <<listens, putCounter>>
      /\ \E order \in InAnyOrder(listens), puts \in InIndexOrder(outstandingPuts) :
            requestCBHash' = pending \o [i \in DOMAIN order |-> ListenRequest(order[i])]
                                     \o [i \in DOMAIN puts |-> PutRequest(puts[i])]
  BY DEF RestoreState, PutsToRestore
<1>3. PICK order \in InAnyOrder(listens), puts \in InIndexOrder(outstandingPuts) :
         requestCBHash' = pending \o [i \in DOMAIN order |-> ListenRequest(order[i])]
                                  \o [i \in DOMAIN puts |-> PutRequest(puts[i])]
  BY <1>2
<1>4. /\ requestCBHash' \in Seq(Requests)
      /\ Cardinality(ListensIn(requestCBHash')) = Cardinality(ListensIn(pending)) + Cardinality(listens)
      /\ \A i \in DOMAIN requestCBHash' : requestCBHash'[i].type = "auth" =>
            i \in DOMAIN pending /\ requestCBHash'[i] = pending[i]
      /\ \A i \in DOMAIN requestCBHash' : requestCBHash'[i].type = "put" =>
            \E p \in outstandingPuts : requestCBHash'[i].index = p.index
      /\ \A i, j \in DOMAIN requestCBHash' :
            requestCBHash'[i].type = "put" /\ requestCBHash'[j] = requestCBHash'[i] => i = j
  <2>1. RestoredTo(requestCBHash', pending, outstandingPuts, listens)
    BY <1>1, <1>3, Restored
  <2> QED  BY <2>1 DEF RestoredTo
<1>5. RequestsTyped'
  BY <1>1, <1>2, <1>4 DEF RequestsTyped
<1>6. AuthsAwaited'
  BY <1>4 DEF AuthsAwaited
<1>7. PutsAwaited'
  <2>1. \A i \in DOMAIN requestCBHash' : requestCBHash'[i].type = "put" =>
            requestCBHash'[i].index <= putCounter'
    BY <1>1, <1>2, <1>4
  <2> QED  BY <1>4, <2>1 DEF PutsAwaited
<1>8. PutsInv' /\ WritesFound'
  BY <1>1, PutsRestored
<1> QED  BY <1>5, <1>6, <1>7, <1>8 DEF RequestsInv, SentWhileConnected

-----------------------------------------------------------------------------
(* Every step keeps the invariant of the requests and the puts. *)

LEMMA NextAccount ==
    ASSUME ConnectionInv, AccountTyped, [ConnectionNext]_connectionVars PROVE AccountTyped'
<1> USE DEF AccountTyped
<1>1. ASSUME NEW reasons, NEW force, OnDisconnect(reasons, force), UNCHANGED accountVars,
             authToken' \in Token
      PROVE  AccountTyped'
  BY <1>1 DEF OnDisconnect, accountVars
<1>2. ASSUME UNCHANGED <<accountVars, sessionToken>>, authToken' \in Token PROVE AccountTyped'
  BY <1>2 DEF accountVars
<1>3. ASSUME NEW token \in Token, RefreshAuthToken(token) PROVE AccountTyped'
  BY <1>3 DEF RefreshAuthToken
<1>3a. issued \in Token /\ issued + 1 \in Token /\ NoToken \in Token
  BY DEF ConnectionInv, Users
<1>4. RetryFires \/ Wakes \/ PurgeOutstandingWrites \/ UNCHANGED connectionVars => AccountTyped'
  BY <1>2 DEF RetryFires, Wakes, PurgeOutstandingWrites, tokenVars, connectionVars
<1>5. ASSUME NEW fetch \in fetches, FetchSucceeds(fetch) \/ FetchFails(fetch) \/ GetToken(fetch)
      PROVE  AccountTyped'
  <2>1. TokenOf(fetch.user) \in Token
    <3>1. fetch.user \in Nat /\ fetch.user <= Len(tokens) /\ tokens \in Seq(Token)
      BY DEF ConnectionInv, Users, Stages, StageTyped
    <3> QED  BY <3>1 DEF TokenOf
  <2> QED  BY <1>2, <1>5, <2>1 DEF FetchSucceeds, FetchFails, GetToken, tokenVars
<1>6. ASSUME NEW reason, ResumeForReason(reason) PROVE AccountTyped'
  BY <1>2, <1>6 DEF ResumeForReason
<1>7. ASSUME NEW reason, InterruptForReason(reason) PROVE AccountTyped'
  BY <1>1, <1>2, <1>7 DEF InterruptForReason
<1>8. ConnectionLost \/ OnKill => AccountTyped'
  BY <1>1 DEF ConnectionLost, OnKill
<1>9. DropToken => AccountTyped'
  BY DEF DropToken, OnDisconnect, accountVars
<1>10. OnReady => AccountTyped'
  BY DEF OnReady, accountVars
<1>11. ASSUME NEW i \in DOMAIN requestCBHash,
              AuthAccepted(i) \/ (\E ok \in BOOLEAN : ListenAnswered(i, ok)) \/ PutAnswered(i)
       PROVE  AccountTyped'
  BY <1>2, <1>11 DEF AuthAccepted, ListenAnswered, PutAnswered, tokenVars
<1>12. ASSUME NEW i \in DOMAIN requestCBHash, AuthRefused(i) PROVE AccountTyped'
  BY <1>9, <1>12 DEF AuthRefused
<1>13. OnAuthRevoked => AccountTyped'
  BY <1>9 DEF OnAuthRevoked
<1>14. ASSUME NEW fetch \in fetches, ProviderRefreshes(fetch) PROVE AccountTyped'
  BY <1>3, <1>3a, <1>14 DEF ProviderRefreshes, tokenVars
<1>15. RenewToken \/ SignIn \/ SignOut => AccountTyped'
  BY <1>3, <1>3a DEF RenewToken, SignIn, SignOut
<1>16. Revoke => AccountTyped'
  BY <1>3a DEF Revoke, tokenVars
<1>17. ASSUME NEW query \in Query, listen(query) \/ Unlisten(query) PROVE AccountTyped'
  BY <1>2, <1>17 DEF listen, Unlisten, tokenVars
<1>18. ASSUME NEW transaction \in BOOLEAN, putData(transaction) PROVE AccountTyped'
  BY <1>2, <1>18 DEF putData, tokenVars
<1> QED
  BY <1>4, <1>5, <1>6, <1>7, <1>8, <1>10, <1>11, <1>12, <1>13, <1>14, <1>15, <1>16, <1>17, <1>18
     DEF ConnectionNext, Progress, Opens, App, Surroundings, Requested

\* The step counts a call or a disturbance, or none.
Counted == calls' \in Nat /\ calls <= calls' /\ disturbances' \in Nat

LEMMA NextCounted == ASSUME PutsInv, Called \/ Disturbed \/ UNCHANGED boundVars PROVE Counted
BY DEF PutsInv, PutsTyped, Counted, Called, Disturbed, boundVars

\* A lost connection takes its requests and the transactions sent on it along.
LEMMA LossKeepsPuts ==
    ASSUME EachPutInv, WritesFound, NEW reasons, NEW force, OnDisconnect(reasons, force), Counted
    PROVE  RequestsInv' /\ PutsInv' /\ WritesFound' /\ SentWhileConnected'
<1>1. /\ connectionState' = "disconnected" /\ requestCBHash' = <<>> /\ unackedListensCount' = 0
      /\ listens' = listens /\ CancelSentTransactions
  BY DEF OnDisconnect, RequestsAfterLoss, UnackedAfterLoss
<1>2. RequestsInv'
  BY <1>1, NothingRequested DEF EachPutInv, RequestsInv, RequestsTyped
<1>3. /\ outstandingPuts' = outstandingPuts \ SentTransactions
      /\ RunBlocks(SentTransactions)
      /\ UNCHANGED <<putCounter, putsToAck, sends>>
  BY <1>1 DEF CancelSentTransactions
<1>4. SentTransactions \subseteq outstandingPuts
  BY DEF SentTransactions
<1>5. outstandingPuts \cap putsToAck = {}
  BY DEF EachPutInv, PutsInv, OnePlace
<1>6. SentTransactions = (outstandingPuts \cup putsToAck) \ (outstandingPuts' \cup putsToAck')
  BY <1>3, <1>4, <1>5
<1>7. PutsInv' /\ WritesFound'
  BY <1>3, <1>4, <1>5, <1>6, PutsLeave DEF EachPutInv, Counted
<1>8. SentWhileConnected'
  BY <1>3 DEF SentWhileConnected, SentTransactions
<1> QED  BY <1>2, <1>7, <1>8

\* A step that concerns neither the requests nor the puts.
LEMMA EachPutSame ==
    ASSUME EachPutInv, WritesFound, connectionState' = connectionState, Counted,
           UNCHANGED <<requestCBHash, listenVars, putVars>>
    PROVE  RequestsInv' /\ PutsInv' /\ WritesFound' /\ SentWhileConnected'
<1>1. RequestsInv'
  BY SameRequests DEF EachPutInv, RequestsInv, RequestsTyped, listenVars, putVars
<1>2. PutsInv' /\ WritesFound'
  BY SamePuts DEF EachPutInv, Counted
<1> QED  BY <1>1, <1>2 DEF EachPutInv, SentWhileConnected, SentTransactions, putVars

\* A step on the way to a connection.
LEMMA EachPutUnestablished ==
    ASSUME ConnectionInv, EachPutInv, WritesFound, ~Established, ~Established', Counted,
           UNCHANGED <<requestCBHash, listenVars, putVars>>
    PROVE  RequestsInv' /\ PutsInv' /\ WritesFound' /\ SentWhileConnected'
<1>1. requestCBHash = <<>>
  BY DEF ConnectionInv, Stages, NoRequests
<1>2. ListensIn(requestCBHash) = {}
  BY <1>1 DEF ListensIn
<1>3. unackedListensCount = 0
  BY <1>2, FS_EmptySet DEF EachPutInv, RequestsInv, RequestsTyped
<1>4. RequestsInv'
  BY <1>1, <1>3, NothingRequested DEF EachPutInv, RequestsInv, RequestsTyped, listenVars
<1>5. PutsInv' /\ WritesFound'
  BY SamePuts DEF EachPutInv, Counted
<1> QED  BY <1>4, <1>5 DEF EachPutInv, SentWhileConnected, SentTransactions, putVars

\* The rest of the invariant, for the steps that follow.
EachPut == RequestsInv /\ PutsInv /\ WritesFound /\ SentWhileConnected

\* What is awaited is of one of three types.
LEMMA RequestTyped ==
    ASSUME EachPutInv, NEW i \in DOMAIN requestCBHash
    PROVE  /\ requestCBHash[i] \in Requests
           /\ requestCBHash[i].type \in {"auth", "listen", "put"}
BY DEF EachPutInv, RequestsInv, RequestsTyped, Requests

LEMMA HandshakeKeepsPuts ==
    ASSUME ConnectionInv, EachPutInv, WritesFound, OnReady PROVE EachPut'
<1>1. /\ connectionState = "connecting" /\ requestCBHash = <<>>
      /\ UNCHANGED <<calls, disturbances>> /\ authToken \in Token
  BY DEF OnReady, ConnectionInv, Stages, NoRequests, boundVars, EachPutInv, AccountTyped
<1>2. /\ requestCBHash \in Seq(Requests) /\ DOMAIN requestCBHash = {}
      /\ Cardinality(ListensIn(requestCBHash)) = unackedListensCount
  BY <1>1 DEF EachPutInv, RequestsInv, RequestsTyped
<1>3. CASE authToken = NoToken
  <2>1. connectionState' = "connected" /\ RestoreState(requestCBHash)
    BY <1>3 DEF OnReady
  <2> QED  BY <1>1, <1>2, <2>1, StateRestored DEF NoPuts, EachPut
<1>4. CASE authToken # NoToken
  <2> DEFINE x == AuthRequest(authToken, TRUE)
  <2>1. /\ connectionState' = "authenticating" /\ requestCBHash' = Append(requestCBHash, x)
        /\ UNCHANGED <<listenVars, putVars>>
    BY <1>4 DEF OnReady
  <2>2. x \in Requests /\ x.type = "auth" /\ x.restore
    BY <1>1 DEF AuthRequest, Requests
  <2> HIDE DEF x
  <2>3. requestCBHash' \in Seq(Requests) /\ DOMAIN requestCBHash' = {1} /\ requestCBHash'[1] = x
    BY <1>1, <2>1, <2>2
  <2>4. Cardinality(ListensIn(requestCBHash')) = Cardinality(ListensIn(requestCBHash))
    <3>1. ListensIn(requestCBHash') = ListensIn(requestCBHash)
      BY <1>2, <2>2, <2>3 DEF ListensIn
    <3> QED  BY <3>1
  <2>5. RequestsInv'
    BY <1>2, <2>1, <2>2, <2>3, <2>4
       DEF EachPutInv, RequestsInv, RequestsTyped, AuthsAwaited, PutsAwaited, listenVars
  <2>6. PutsInv' /\ WritesFound'
    BY <1>1, <2>1, SamePuts DEF EachPutInv, PutsInv, PutsTyped
  <2> QED
    BY <1>1, <2>1, <2>5, <2>6 DEF EachPut, EachPutInv, SentWhileConnected, SentTransactions, putVars
<1> QED  BY <1>3, <1>4

LEMMA AcceptanceKeepsPuts ==
    ASSUME ConnectionInv, EachPutInv, WritesFound, NEW i \in DOMAIN requestCBHash, AuthAccepted(i)
    PROVE  EachPut'
<1> DEFINE pending == RemoveAt(requestCBHash, i)
<1>1. /\ requestCBHash[i].type = "auth" /\ \A j \in 1 .. i - 1 : requestCBHash[j].type # "auth"
      /\ connectionState' = "connected" /\ UNCHANGED <<calls, disturbances>>
      /\ requestCBHash \in Seq(Requests)
  BY DEF AuthAccepted, NextAuth, boundVars, EachPutInv, RequestsInv, RequestsTyped
<1>2. Established
  BY AnsweredWhenEstablished DEF ConnectionInv
<1>3. i \in Nat /\ i >= 1
  BY <1>1
<1>4. /\ pending \in Seq(Requests) /\ Len(requestCBHash) \in Nat
      /\ DOMAIN requestCBHash = 1 .. Len(requestCBHash)
      /\ DOMAIN pending = 1 .. Len(requestCBHash) - 1
      /\ \A k \in DOMAIN pending :
            pending[k] = IF k < i THEN requestCBHash[k] ELSE requestCBHash[k + 1]
  BY <1>1, Removing
<1>5. CASE requestCBHash[i].restore
  <2>1. RestoreState(pending)
    BY <1>5 DEF AuthAccepted
  <2>2. Cardinality(ListensIn(pending)) = unackedListensCount
    <3>1. Cardinality(ListensIn(requestCBHash)) \in Nat
      BY <1>1, ListensCounted
    <3> QED  BY <1>1, <3>1, ListensRemoved DEF EachPutInv, RequestsInv, RequestsTyped
  <2> HIDE DEF pending
  <2>3. i = 1 /\ connectionState = "authenticating"
    BY <1>1, <1>5 DEF EachPutInv, RequestsInv, AuthsAwaited
  <2>4. \A k \in DOMAIN pending : k + 1 \in DOMAIN requestCBHash /\ k + 1 # 1
                                  /\ pending[k] = requestCBHash[k + 1]
    BY <1>4, <2>3
  <2>5. NoPuts(pending)
    BY <2>3, <2>4 DEF EachPutInv, RequestsInv, PutsAwaited, NoPuts
  <2>6. \A k \in DOMAIN pending : pending[k].type = "auth" => ~pending[k].restore
    BY <2>4 DEF EachPutInv, RequestsInv, AuthsAwaited
  <2> QED  BY <1>1, <1>4, <2>1, <2>2, <2>3, <2>5, <2>6, StateRestored DEF EachPut
<1>6. CASE ~requestCBHash[i].restore
  <2>1. requestCBHash' = pending /\ UNCHANGED <<listenVars, putVars>>
    BY <1>6 DEF AuthAccepted
  <2>2. connectionState # "authenticating"
    <3>1. CASE connectionState = "authenticating"
      <4>1. requestCBHash[1].type = "auth" /\ requestCBHash[1].restore
        BY <3>1 DEF EachPutInv, RequestsInv, AuthsAwaited
      <4>2. i # 1
        BY <1>6, <4>1
      <4> QED  BY <1>1, <1>3, <4>1, <4>2
    <3> QED  BY <3>1
  <2>3. connectionState' = connectionState
    BY <1>1, <1>2, <2>2
  <2>4. unackedListensCount' = unackedListensCount - 0
    <3>1. Cardinality(ListensIn(requestCBHash)) \in Nat
      BY <1>1, ListensCounted
    <3> QED  BY <2>1, <3>1 DEF listenVars, EachPutInv, RequestsInv, RequestsTyped
  <2>5. RequestsInv'
    BY <1>1, <1>6, <2>1, <2>3, <2>4, RequestAnswered DEF EachPutInv, listenVars, putVars
  <2>6. PutsInv' /\ WritesFound'
    BY <1>1, <2>1, SamePuts DEF EachPutInv, PutsInv, PutsTyped
  <2> QED
    BY <2>1, <2>3, <2>5, <2>6 DEF EachPut, EachPutInv, SentWhileConnected, SentTransactions, putVars
<1> QED  BY <1>5, <1>6

\* An answered put completes; while listens are unanswered its block is held back.
LEMMA AnswerKeepsPuts ==
    ASSUME EachPutInv, WritesFound, NEW i \in DOMAIN requestCBHash, PutAnswered(i) PROVE EachPut'
<1> DEFINE answered == Answered(requestCBHash[i].index)
<1>1. /\ requestCBHash[i].type = "put" /\ requestCBHash' = RemoveAt(requestCBHash, i)
      /\ outstandingPuts' = outstandingPuts \ answered /\ answered \subseteq outstandingPuts
      /\ UNCHANGED <<connectionState, listens, unackedListensCount, putCounter, sends, calls,
                     disturbances>>
  BY DEF PutAnswered, Answered, stageVars, listenVars, boundVars
<1>2. /\ unackedListensCount = 0 => RunBlocks(answered) /\ UNCHANGED putsToAck
      /\ unackedListensCount # 0 => putsToAck' = putsToAck \cup answered
                                    /\ UNCHANGED <<allWrites, assertionFailed, completions>>
  BY DEF PutAnswered
<1> HIDE DEF answered
<1>3. unackedListensCount \in Nat
  BY ListensCounted DEF EachPutInv, RequestsInv, RequestsTyped
<1>4. RequestsInv'
  BY <1>1, <1>3, RequestAnswered DEF EachPutInv
<1>5. outstandingPuts \cap putsToAck = {} /\ calls \in Nat /\ disturbances \in Nat
      /\ completions \in [Index -> Nat] /\ assertionFailed \in BOOLEAN
  BY DEF EachPutInv, PutsInv, OnePlace, PutsTyped
<1>6. ASSUME unackedListensCount = 0 PROVE PutsInv' /\ WritesFound'
  <2>1. answered = (outstandingPuts \cup putsToAck) \ (outstandingPuts' \cup putsToAck')
    BY <1>1, <1>2, <1>5, <1>6
  <2> QED  BY <1>1, <1>2, <1>5, <1>6, <2>1, PutsLeave DEF EachPutInv
<1>7. ASSUME unackedListensCount # 0 PROVE PutsInv' /\ WritesFound'
  <2>1. {} = (outstandingPuts \cup putsToAck) \ (outstandingPuts' \cup putsToAck')
    BY <1>1, <1>2, <1>7
  <2>2. Indices({}) = {} /\ assertionFailed' = FALSE
    BY <1>2, <1>5, <1>7 DEF Indices, WritesFound
  <2>3. RunBlocks({})
    BY <1>2, <1>5, <1>7, <2>2 DEF RunBlocks, Ran
  <2>4. outstandingPuts' \cap putsToAck' = {} /\ putsToAck' \subseteq outstandingPuts \cup putsToAck
    BY <1>1, <1>2, <1>5, <1>7
  <2> QED  BY <1>1, <1>5, <2>1, <2>3, <2>4, PutsLeave DEF EachPutInv
<1>8. SentWhileConnected'
  BY <1>1 DEF EachPutInv, SentWhileConnected, SentTransactions
<1> QED  BY <1>1, <1>4, <1>6, <1>7, <1>8 DEF EachPut, EachPutInv

LEMMA ListenAnswerKeepsPuts ==
    ASSUME EachPutInv, WritesFound, NEW i \in DOMAIN requestCBHash, NEW ok \in BOOLEAN,
           ListenAnswered(i, ok)
    PROVE  EachPut'
<1>1. /\ requestCBHash[i].type = "listen" /\ requestCBHash' = RemoveAt(requestCBHash, i)
      /\ listens' \subseteq listens /\ unackedListensCount' = unackedListensCount - 1
      /\ UNCHANGED <<connectionState, calls, disturbances, putCounter, outstandingPuts, sends>>
  BY DEF ListenAnswered, stageVars, putVars, boundVars
<1>2. /\ unackedListensCount = 1 => AckPuts
      /\ unackedListensCount # 1 => UNCHANGED putVars
  BY DEF ListenAnswered
<1>3. RequestsInv'
  BY <1>1, RequestAnswered DEF EachPutInv
<1>4. outstandingPuts \cap putsToAck = {} /\ calls \in Nat /\ disturbances \in Nat
  BY DEF EachPutInv, PutsInv, OnePlace, PutsTyped
<1>5. ASSUME unackedListensCount = 1 PROVE PutsInv' /\ WritesFound'
  <2>1. RunBlocks(putsToAck) /\ putsToAck' = {}
    BY <1>2, <1>5 DEF AckPuts
  <2>2. putsToAck = (outstandingPuts \cup putsToAck) \ (outstandingPuts' \cup putsToAck')
    BY <1>1, <1>4, <2>1
  <2> QED  BY <1>1, <1>4, <2>1, <2>2, PutsLeave DEF EachPutInv
<1>6. ASSUME unackedListensCount # 1 PROVE PutsInv' /\ WritesFound'
  BY <1>1, <1>2, <1>4, <1>6, SamePuts DEF EachPutInv
<1>7. SentWhileConnected'
  BY <1>1 DEF EachPutInv, SentWhileConnected, SentTransactions
<1> QED  BY <1>3, <1>5, <1>6, <1>7 DEF EachPut

\* A purge completes, or one of the answers held back misses its write.
LEMMA PurgeKeepsPuts ==
    ASSUME EachPutInv, WritesFound, PurgeOutstandingWrites
    PROVE  RequestsInv' /\ PutsInv' /\ SentWhileConnected' /\ (WritesFound' \/ putsToAck # {})
<1>1. /\ Called /\ allWrites' = {}
      /\ UNCHANGED <<connectionState, requestCBHash, listens, unackedListensCount, putCounter, sends>>
  BY DEF PurgeOutstandingWrites, stageVars, listenVars
<1>2. Counted
  BY <1>1, NextCounted DEF EachPutInv
<1>3. RequestsInv'
  BY <1>1, SameRequests DEF EachPutInv, RequestsInv, RequestsTyped
<1>4. /\ outstandingPuts \subseteq Put /\ allWrites = Indices(outstandingPuts \cup putsToAck)
      /\ putsToAck \cup outstandingPuts = outstandingPuts \cup putsToAck
  BY DEF EachPutInv, PutsInv, PutsTyped, OnePlace, WritesFound
<1>5. CASE /\ completions' = Ran(Indices(putsToAck \cup outstandingPuts), completions)
           /\ putsToAck' = {} /\ outstandingPuts' = {} /\ UNCHANGED assertionFailed
  <2> DEFINE gone == outstandingPuts \cup putsToAck
  <2>1. assertionFailed' = FALSE
    BY <1>5 DEF WritesFound, EachPutInv, PutsInv, PutsTyped
  <2>2. RunBlocks(gone)
    BY <1>1, <1>4, <1>5, <2>1 DEF RunBlocks
  <2>3. gone = (outstandingPuts \cup putsToAck) \ (outstandingPuts' \cup putsToAck')
    BY <1>5
  <2> HIDE DEF gone
  <2>4. PutsInv' /\ WritesFound'
    BY <1>1, <1>2, <1>5, <2>2, <2>3, PutsLeave DEF EachPutInv, Counted
  <2>5. SentWhileConnected'
    BY <1>5 DEF SentWhileConnected, SentTransactions
  <2> QED  BY <1>3, <2>4, <2>5
<1>6. CASE /\ assertionFailed' = TRUE /\ putsToAck # {}
           /\ UNCHANGED <<completions, putsToAck, outstandingPuts>>
  <2>1. PutsTyped'
    BY <1>1, <1>2, <1>6 DEF EachPutInv, PutsInv, PutsTyped, Counted
  <2>2. OnePlace' /\ SentOnce'
    BY <1>1, <1>2, <1>6 DEF EachPutInv, PutsInv, PutsTyped, OnePlace, SentOnce, Counted
  <2>3. SentWhileConnected'
    BY <1>1, <1>6 DEF EachPutInv, SentWhileConnected, SentTransactions
  <2> QED  BY <1>3, <1>6, <2>1, <2>2, <2>3 DEF PutsInv
<1>7. PICK stale \in SUBSET {p \in putsToAck : p.transaction} :
         IF putsToAck = stale
           THEN /\ completions' = Ran(Indices(putsToAck \cup outstandingPuts), completions)
                /\ putsToAck' = {} /\ outstandingPuts' = {}
                /\ UNCHANGED assertionFailed
           ELSE /\ assertionFailed' = TRUE
                /\ UNCHANGED <<completions, putsToAck, outstandingPuts>>
  BY DEF PurgeOutstandingWrites
<1>8. putsToAck = stale \/ putsToAck # {}
  OBVIOUS
<1> QED  BY <1>5, <1>6, <1>7, <1>8

LEMMA PutKeepsPuts ==
    ASSUME EachPutInv, WritesFound, NEW transaction \in BOOLEAN, putData(transaction) PROVE EachPut'
<1> DEFINE put == [index |-> putCounter + 1, transaction |-> transaction, sent |-> CanSendWrites]
<1>1. /\ outstandingPuts' = outstandingPuts \cup {put}
      /\ CanSendWrites => requestCBHash' = Append(requestCBHash, PutRequest(put))
      /\ ~CanSendWrites => UNCHANGED requestCBHash
      /\ UNCHANGED <<connectionState, listens, unackedListensCount>>
  BY DEF putData, stageVars, listenVars
<1>2. PutsInv' /\ WritesFound' /\ putCounter' = putCounter + 1 /\ putCounter' \in Index
      /\ putCounter \in Nat
  BY PutMade DEF EachPutInv, PutsInv, PutsTyped
<1>3. /\ RequestsTyped /\ AuthsAwaited /\ PutsAwaited /\ unackedListensCount \in Nat
      /\ listens \subseteq Listen /\ IsFiniteSet(listens)
  BY ListensCounted DEF EachPutInv, RequestsInv, RequestsTyped
<1>4. put.sent = CanSendWrites /\ put.index = putCounter + 1
  OBVIOUS
<1>5. PutRequest(put) = [type |-> "put", index |-> putCounter']
  BY <1>2, <1>4 DEF PutRequest
<1> HIDE DEF put
<1>6. RequestsInv'
  <2>1. CASE CanSendWrites
    <3> DEFINE x == [type |-> "put", index |-> putCounter']
    <3>1. x \in Requests /\ x.type = "put" /\ x.index = putCounter' /\ putCounter < x.index
      BY <1>2 DEF Requests
    <3>2. requestCBHash' = Append(requestCBHash, x)
      BY <1>1, <1>5, <2>1
    <3> HIDE DEF x
    <3>3. unackedListensCount' = unackedListensCount + (IF x.type = "listen" THEN 1 ELSE 0)
      BY <1>1, <1>3, <3>1
    <3>4. putCounter' \in Nat /\ putCounter <= putCounter'
      BY <1>2
    <3> QED  BY <1>1, <1>2, <1>3, <2>1, <3>1, <3>2, <3>3, <3>4, RequestSent DEF EachPutInv
  <2>2. CASE ~CanSendWrites
    <3>1. \A i \in DOMAIN requestCBHash : requestCBHash[i].type # "put"
      BY <1>3, <2>2 DEF PutsAwaited
    <3> QED  BY <1>1, <1>3, <2>2, <3>1 DEF RequestsInv, RequestsTyped, AuthsAwaited, PutsAwaited
  <2> QED  BY <2>1, <2>2
<1>7. SentWhileConnected'
  BY <1>1, <1>4 DEF EachPutInv, SentWhileConnected, SentTransactions
<1> QED  BY <1>2, <1>6, <1>7 DEF EachPut

LEMMA ListenKeepsPuts ==
    ASSUME EachPutInv, WritesFound, NEW query \in Query, listen(query) \/ Unlisten(query) PROVE EachPut'
<1>1. UNCHANGED <<connectionState, putVars>> /\ (Called \/ UNCHANGED boundVars)
  BY DEF listen, Unlisten, stageVars
<1>2. Counted
  BY <1>1, NextCounted DEF EachPutInv
<1>3. PutsInv' /\ WritesFound'
  BY <1>1, <1>2, SamePuts DEF EachPutInv, Counted
<1>4. SentWhileConnected'
  BY <1>1 DEF EachPutInv, SentWhileConnected, SentTransactions, putVars
<1>5. /\ putCounter' = putCounter /\ putCounter \in Nat /\ unackedListensCount \in Nat
      /\ listens \subseteq Listen /\ IsFiniteSet(listens)
  BY <1>1, ListensCounted
     DEF putVars, EachPutInv, PutsInv, PutsTyped, RequestsInv, RequestsTyped
<1>6. CASE listen(query)
  <2> DEFINE new == [query |-> query, spec |-> calls + 1]
  <2>1. /\ listens' = listens \cup {new} /\ calls < MaxCalls
        /\ Established => requestCBHash' = Append(requestCBHash, ListenRequest(new))
                          /\ unackedListensCount' = unackedListensCount + 1
        /\ ~Established => UNCHANGED <<requestCBHash, unackedListensCount>>
    BY <1>6 DEF listen, Called
  <2>2. new \in Listen
    BY <2>1, ConnectionBounds DEF Listen, Index, EachPutInv, PutsInv, PutsTyped
  <2> HIDE DEF new
  <2>3. listens' \subseteq Listen /\ IsFiniteSet(listens')
    BY <1>5, <2>1, <2>2, FS_AddElement
  <2>4. CASE Established
    <3> DEFINE x == ListenRequest(new)
    <3>1. x \in Requests /\ x.type = "listen"
      BY <2>2 DEF ListenRequest, Requests
    <3>2. requestCBHash' = Append(requestCBHash, x)
          /\ unackedListensCount' = unackedListensCount + (IF x.type = "listen" THEN 1 ELSE 0)
      BY <2>1, <2>4, <3>1
    <3> HIDE DEF x
    <3> QED  BY <1>1, <1>3, <1>4, <1>5, <2>3, <3>1, <3>2, RequestSent DEF EachPutInv, EachPut
  <2>5. CASE ~Established
    BY <1>1, <1>3, <1>4, <1>5, <2>1, <2>3, <2>5, SameRequests DEF EachPutInv, EachPut
  <2> QED  BY <2>4, <2>5
<1>7. CASE Unlisten(query)
  <2>1. listens' \subseteq listens /\ UNCHANGED <<requestCBHash, unackedListensCount>>
    BY <1>7 DEF Unlisten
  <2> QED  BY <1>1, <1>3, <1>4, <1>5, <2>1, FS_Subset, SameRequests DEF EachPutInv, EachPut
<1> QED  BY <1>6, <1>7

LEMMA RefreshKeepsPuts ==
    ASSUME EachPutInv, WritesFound, NEW token \in Token, RefreshAuthToken(token), Counted
    PROVE  EachPut'
<1>1. UNCHANGED <<connectionState, listens, unackedListensCount, putVars>> /\ UNCHANGED listenVars
  BY DEF RefreshAuthToken, stageVars, listenVars
<1>2. CASE UNCHANGED requestCBHash
  BY <1>1, <1>2, EachPutSame DEF EachPut
<1>3. CASE requestCBHash' = Append(requestCBHash, AuthRequest(token, FALSE))
  <2> DEFINE x == AuthRequest(token, FALSE)
  <2>1. x \in Requests /\ x.type = "auth" /\ ~x.restore
    BY DEF AuthRequest, Requests
  <2>2. requestCBHash' = Append(requestCBHash, x)
    BY <1>3
  <2> HIDE DEF x
  <2>3. /\ putCounter' = putCounter /\ putCounter \in Nat /\ unackedListensCount \in Nat
        /\ listens' \subseteq Listen /\ IsFiniteSet(listens')
    BY <1>1, ListensCounted
       DEF putVars, EachPutInv, PutsInv, PutsTyped, RequestsInv, RequestsTyped
  <2>4. unackedListensCount' = unackedListensCount + (IF x.type = "listen" THEN 1 ELSE 0)
    BY <1>1, <2>1, <2>3
  <2>5. RequestsInv'
    BY <1>1, <2>1, <2>2, <2>3, <2>4, RequestSent DEF EachPutInv
  <2>6. PutsInv' /\ WritesFound'
    BY <1>1, SamePuts DEF EachPutInv, Counted
  <2> QED
    BY <1>1, <2>5, <2>6 DEF EachPut, EachPutInv, SentWhileConnected, SentTransactions, putVars
<1> QED  BY <1>2, <1>3 DEF RefreshAuthToken

\* A step keeps the invariant, and nothing but a purge misses a write.
LEMMA StepKeepsPuts ==
    ASSUME ConnectionInv, EachPutInv, ConnectionNext
    PROVE  /\ RequestsInv' /\ PutsInv' /\ SentWhileConnected'
           /\ WritesFound' \/ (PurgeOutstandingWrites /\ putsToAck # {})
<1>1. WritesFound
  BY DEF ConnectionNext, Progress, Opens, App, Surroundings, WritesFound
<1>2. Called \/ Disturbed \/ UNCHANGED boundVars => Counted
  BY NextCounted DEF EachPutInv
<1>3. ASSUME NEW reasons, NEW force, OnDisconnect(reasons, force), Disturbed \/ UNCHANGED boundVars
      PROVE  EachPut'
  BY <1>1, <1>2, <1>3, LossKeepsPuts DEF EachPut
<1>4. ASSUME connectionState' = connectionState, UNCHANGED <<requestCBHash, listenVars, putVars>>,
             Disturbed \/ UNCHANGED boundVars
      PROVE  EachPut'
  BY <1>1, <1>2, <1>4, EachPutSame DEF EachPut
<1>5. ASSUME ~Established, ~Established', UNCHANGED <<requestCBHash, listenVars, putVars>>,
             Disturbed \/ UNCHANGED boundVars
      PROVE  EachPut'
  BY <1>1, <1>2, <1>5, EachPutUnestablished DEF EachPut
<1>6. RetryFires => EachPut'
  <2> SUFFICES ASSUME RetryFires PROVE EachPut'
    OBVIOUS
  <2>1. connectionState = "disconnected" /\ connectionState' = "gettingToken"
        /\ UNCHANGED <<requestCBHash, listenVars, putVars, boundVars>>
    BY DEF RetryFires, ConnectionInv, Stages, OneWayToConnect
  <2> QED  BY <1>5, <2>1
<1>7. ASSUME NEW fetch \in fetches, FetchSucceeds(fetch) PROVE EachPut'
  <2>1. UNCHANGED <<requestCBHash, listenVars, putVars, boundVars>>
    BY <1>7 DEF FetchSucceeds
  <2>2. connectionState' = connectionState
        \/ (connectionState = "gettingToken" /\ connectionState' = "connecting")
    BY <1>7 DEF FetchSucceeds, TokenWanted
  <2> QED  BY <1>4, <1>5, <2>1, <2>2
<1>8. ASSUME NEW fetch \in fetches, FetchFails(fetch) PROVE EachPut'
  <2>1. UNCHANGED <<requestCBHash, listenVars, putVars>> /\ Disturbed
    BY <1>8 DEF FetchFails
  <2>2. connectionState' = connectionState \/ (~Established /\ connectionState' = "disconnected")
    BY <1>8 DEF FetchFails, ConnectionInv, Stages, OneWayToConnect
  <2> QED  BY <1>4, <1>5, <2>1, <2>2
<1>9. ASSUME NEW reason, ResumeForReason(reason) PROVE EachPut'
  BY <1>4, <1>9 DEF ResumeForReason
<1>10. Wakes => EachPut'
  BY <1>4 DEF Wakes
<1>11. ASSUME NEW reason, InterruptForReason(reason) PROVE EachPut'
  BY <1>3, <1>5, <1>11 DEF InterruptForReason
<1>12. ConnectionLost \/ OnKill => EachPut'
  BY <1>3 DEF ConnectionLost, OnKill
<1>13. OnReady => EachPut'
  BY <1>1, HandshakeKeepsPuts
<1>14. ASSUME NEW i \in DOMAIN requestCBHash,
              AuthAccepted(i) \/ AuthRefused(i) \/ (\E ok \in BOOLEAN : ListenAnswered(i, ok))
              \/ PutAnswered(i)
       PROVE  EachPut'
  BY <1>1, <1>3, <1>14, AcceptanceKeepsPuts, ListenAnswerKeepsPuts, AnswerKeepsPuts
     DEF AuthRefused, DropToken
<1>15. OnAuthRevoked => EachPut'
  BY <1>3 DEF OnAuthRevoked, DropToken
<1>16. issued + 1 \in Token /\ NoToken \in Token
  BY DEF ConnectionInv, Users
<1>17. ASSUME NEW fetch \in fetches, ProviderRefreshes(fetch) PROVE EachPut'
  <2>1. CASE fetch.user = CurrentUser
    BY <1>1, <1>2, <1>16, <1>17, <2>1, RefreshKeepsPuts DEF ProviderRefreshes
  <2>2. CASE fetch.user # CurrentUser
    BY <1>4, <1>17, <2>2 DEF ProviderRefreshes
  <2> QED  BY <2>1, <2>2
<1>18. RenewToken \/ SignIn \/ SignOut => EachPut'
  BY <1>1, <1>2, <1>16, RefreshKeepsPuts DEF RenewToken, SignIn, SignOut
<1>19. ASSUME NEW fetch \in fetches, GetToken(fetch) PROVE EachPut'
  BY <1>4, <1>19 DEF GetToken
<1>20. Revoke => EachPut'
  BY <1>4 DEF Revoke, stageVars
<1>21. ASSUME NEW query \in Query, listen(query) \/ Unlisten(query) PROVE EachPut'
  BY <1>1, <1>21, ListenKeepsPuts
<1>22. ASSUME NEW transaction \in BOOLEAN, putData(transaction) PROVE EachPut'
  BY <1>1, <1>22, PutKeepsPuts
<1>23. EachPut' \/ PurgeOutstandingWrites
  BY <1>6, <1>7, <1>8, <1>9, <1>10, <1>11, <1>12, <1>13, <1>14, <1>15, <1>17, <1>18, <1>19, <1>20,
     <1>21, <1>22
     DEF ConnectionNext, Progress, Opens, App, Surroundings, Requested
<1> QED  BY <1>1, <1>23, PurgeKeepsPuts DEF EachPut

LEMMA NextEachPut ==
    ASSUME ConnectionInv, EachPutInv, [ConnectionNext]_connectionVars PROVE EachPutInv'
<1>1. AccountTyped'
  BY NextAccount DEF EachPutInv
<1>2. CASE ConnectionNext
  BY <1>1, <1>2, StepKeepsPuts DEF EachPutInv
<1>3. CASE UNCHANGED connectionVars
  <2>1. UNCHANGED <<connectionState, requestCBHash, listens, unackedListensCount, outstandingPuts,
                    putCounter, putsToAck, allWrites, assertionFailed, completions, sends, calls,
                    disturbances>>
    BY <1>3 DEF connectionVars, stageVars, listenVars, putVars, boundVars
  <2>2. RequestsInv'
    BY <2>1 DEF EachPutInv, RequestsInv, RequestsTyped, AuthsAwaited, PutsAwaited
  <2>3. PutsInv'
    BY <2>1 DEF EachPutInv, PutsInv, PutsTyped, OnePlace, SentOnce
  <2> QED
    BY <1>1, <2>1, <2>2, <2>3 DEF EachPutInv, SentWhileConnected, SentTransactions
<1> QED  BY <1>2, <1>3

THEOREM EachPutInvariant == ConnectionSpec => []EachPutInv
<1>1. ConnectionInv /\ EachPutInv /\ [ConnectionNext]_connectionVars => EachPutInv'
  BY NextEachPut
<1> QED  BY ConnectionInvariant, InitEachPut, <1>1, PTL DEF ConnectionSpec

\* The values of the variables; the count of unanswered listens, which sendListen's
\* block asserts is never below zero, is the number of listen requests awaited.
THEOREM ConnectionTyped == ConnectionSpec => []ConnectionTypeOK
<1>1. ConnectionInv /\ EachPutInv => ConnectionTypeOK
  BY DEF ConnectionInv, Stages, StageTyped, Users, EachPutInv, AccountTyped, RequestsInv,
         RequestsTyped, PutsInv, PutsTyped, ConnectionTypeOK, ListensIn
<1> QED  BY ConnectionInvariant, EachPutInvariant, <1>1, PTL

\* The members of a dictionary of puts with one index: one or none.
LEMMA AtMostOne ==
    ASSUME NEW puts, NEW i, \A p, q \in puts : p.index = q.index => p = q
    PROVE  Cardinality({p \in puts : p.index = i}) = IF i \in Indices(puts) THEN 1 ELSE 0
<1>1. CASE i \in Indices(puts)
  <2>1. PICK p \in puts : p.index = i
    BY <1>1 DEF Indices
  <2>2. {q \in puts : q.index = i} = {p}
    BY <2>1
  <2> QED  BY <1>1, <2>2, FS_Singleton
<1>2. CASE i \notin Indices(puts)
  <2>1. {q \in puts : q.index = i} = {}
    BY <1>2 DEF Indices
  <2> QED  BY <1>2, <2>1, FS_EmptySet
<1> QED  BY <1>1, <1>2

\* Whatever is answered, lost, cancelled, purged or sent again, and in whatever
\* order, every put is outstanding, held back or completed, and its block runs once;
\* the write tree has the writes of those whose blocks are still to run (putInternal,
\* sendPut, ackPuts, cancelSentTransactions, purgeOutstandingWrites).
THEOREM PutsOnce == ConnectionSpec => []EveryPutOnce
<1>1. ASSUME EachPutInv PROVE EveryPutOnce
  <2>1. PutsTyped /\ OnePlace /\ SentOnce /\ PutsAwaited
    BY <1>1 DEF EachPutInv, PutsInv, RequestsInv
  <2>2. ASSUME NEW i \in Index
        PROVE  completions[i] + Cardinality({p \in outstandingPuts : p.index = i})
                              + Cardinality({p \in putsToAck : p.index = i}) =
                 IF i <= putCounter THEN 1 ELSE 0
    <3>1. /\ Cardinality({p \in outstandingPuts : p.index = i}) = IF i \in Indices(outstandingPuts) THEN 1 ELSE 0
          /\ Cardinality({p \in putsToAck : p.index = i}) = IF i \in Indices(putsToAck) THEN 1 ELSE 0
      <4>1. \A p, q \in outstandingPuts : p.index = q.index => p = q
        BY <2>1 DEF OnePlace
      <4>2. \A p, q \in putsToAck : p.index = q.index => p = q
        BY <2>1 DEF OnePlace
      <4> QED  BY <4>1, <4>2, AtMostOne
    <3>2. /\ ~(i \in Indices(outstandingPuts) /\ i \in Indices(putsToAck))
          /\ i \in Indices(outstandingPuts) \/ i \in Indices(putsToAck) => i <= putCounter
          /\ i \in Indices(outstandingPuts \cup putsToAck) <=>
                i \in Indices(outstandingPuts) \/ i \in Indices(putsToAck)
      BY <2>1 DEF OnePlace, Indices
    <3>3. completions[i] = IF i <= putCounter /\ i \notin Indices(outstandingPuts \cup putsToAck) THEN 1 ELSE 0
      BY <2>1 DEF OnePlace
    <3> QED  BY <3>1, <3>2, <3>3
  <2>3. /\ ~assertionFailed => allWrites = Indices(outstandingPuts \cup putsToAck)
        /\ \A p \in outstandingPuts : p.transaction => sends[p.index] <= 1
        /\ \A i, j \in DOMAIN requestCBHash :
              requestCBHash[i].type = "put" /\ requestCBHash[j] = requestCBHash[i] => i = j
    BY <2>1 DEF OnePlace, SentOnce, PutsAwaited
  <2> QED  BY <2>2, <2>3 DEF EveryPutOnce
<1> QED  BY EachPutInvariant, <1>1, PTL

\* The assertion of removeWriteId: the block of a put finds its write whenever it
\* runs, except that a purge takes the writes from the answers held back.
THEOREM OnlyPurgeMisses == ConnectionSpec => MissedOnlyByPurge
<1> DEFINE Misses == WritesFound => WritesFound' \/ (PurgeOutstandingWrites /\ putsToAck # {})
<1>1. ConnectionInv /\ EachPutInv /\ [ConnectionNext]_connectionVars => [Misses]_connectionVars
  BY StepKeepsPuts
<1> HIDE DEF Misses
<1>2. ConnectionSpec => [][Misses]_connectionVars
  BY ConnectionInvariant, EachPutInvariant, <1>1, PTL DEF ConnectionSpec
<1> QED  BY <1>2 DEF MissedOnlyByPurge, Misses
=============================================================================
