-------------------------- MODULE RealtimeDB_proof --------------------------
(***************************************************************************)
(* Proofs about RealtimeDB, for every number of devices, keys, writes,     *)
(* observers, lost connections, killed processes and refused puts: types,  *)
(* the count of listens, and of the writes that they are accounted for,    *)
(* that they are decided as SharedBoard promises and that a device with    *)
(* nothing under way shows what the server stores.  While no put is        *)
(* refused, what a device shows only grows.                                *)
(***************************************************************************)
EXTENDS RealtimeDB_refines, FiniteSetTheorems, SequenceTheorems, TLAPS

-----------------------------------------------------------------------------
(* Lemmas about the operators.                                             *)

\* A non-empty set of writes whose ids are bounded has a newest one.
LEMMA NewestInSet ==
    ASSUME NEW ws \in SUBSET Write, ws # {},
           NEW n \in Nat, \A w \in ws : w.id < n
    PROVE  Newest(ws) \in ws /\ \A v \in ws : v.id <= Newest(ws).id
<1> DEFINE below == {n - w.id : w \in ws}
<1>1. below \subseteq Nat /\ below # {}
  BY DEF Write
<1>2. PICK m \in below : \A k \in below : ~ (<<k, m>> \in OpToRel(<, Nat))
  <2> HIDE DEF below
  <2> QED  BY <1>1, NatLessThanWellFounded, WFMin
<1>3. PICK w \in ws : m = n - w.id
  OBVIOUS
<1>4. ASSUME NEW v \in ws  PROVE v.id <= w.id
  <2>1. n - v.id \in below /\ n - v.id \in Nat /\ m \in Nat
    BY <1>1
  <2>2. ~ (n - v.id < m)
    BY <1>2, <2>1 DEF OpToRel
  <2> QED  BY <2>1, <2>2, <1>3 DEF Write
<1> QED  BY <1>4 DEF Newest

\* What a device shows is a snapshot.
LEMMA OverlayType ==
    ASSUME NEW ws \in SUBSET Write, NEW base \in Snapshot,
           NEW n \in Nat, \A w \in ws : w.id < n
    PROVE  Overlay(ws, base) \in Snapshot
<1> SUFFICES ASSUME NEW k \in Key,
                    {w \in ws : w.key = k} # {}
             PROVE  Newest({w \in ws : w.key = k}).value \in Value
  BY DEF Overlay, Snapshot, Child
<1>1. Newest({w \in ws : w.key = k}) \in {w \in ws : w.key = k}
  BY NewestInSet
<1> QED  BY <1>1 DEF Write

-----------------------------------------------------------------------------
(* Type correctness.  The puts of a device must be finitely many for       *)
(* restoreState to have an order to send them in, and write ids must stay  *)
(* below the counter for a newest write to exist.                          *)

WritesBounded ==
    \A d \in Device :
        /\ IsFiniteSet(outstandingPuts[d])
        /\ \A w \in writes[d] : w.id < nextWriteId[d]

DBTypeInv == DBTypeOK /\ WritesBounded

\* What an observer is told is an event of the main queue.
LEMMA RaiseType ==
    ASSUME DBTypeOK, NEW d \in Device, NEW shown \in Snapshot, NEW full,
           Raise(d, shown, full)
    PROVE  events' \in [Device -> Seq(Event)]
<1>1. Notices(d, shown) \in Seq(Event)
  BY DEF DBTypeOK, Notices, Event
<1>2. events[d] \o Notices(d, shown) \in Seq(Event)
  BY <1>1 DEF DBTypeOK
<1> QED  BY <1>2 DEF DBTypeOK, Raise

\* The view of a device is a snapshot.
LEMMA ViewType ==
    ASSUME DBTypeInv, NEW d \in Device
    PROVE  View(d) \in Snapshot
BY OverlayType DEF DBTypeInv, DBTypeOK, WritesBounded, View

LEMMA InitTyped == DBInit => DBTypeInv
BY FS_EmptySet, ValueAssumption
   DEF DBInit, DBTypeInv, DBTypeOK, WritesBounded, Empty, Snapshot, Child

LEMMA ObserveTyped ==
    ASSUME DBTypeInv, NEW d \in Device, NEW r \in Observer,
           ObserveParent(d, r) \/ ObserveChildren(d, r)
    PROVE  DBTypeInv'
<1>1. PICK regs \in Seq(Observer) : Observe(d, r, regs)
  <2>1. Append(registrations[d], r) \in Seq(Observer) /\ <<r>> \o registrations[d] \in Seq(Observer)
    BY DEF DBTypeInv, DBTypeOK
  <2> QED  BY <2>1 DEF ObserveParent, ObserveChildren
<1>2. events' \in [Device -> Seq(Event)]
  <2> DEFINE e == [to |-> r, snapshot |-> View(d)]
  <2>1. e \in Event
    BY ViewType DEF Event
  <2>2. Append(events[d], e) \in Seq(Event)
    BY <2>1 DEF DBTypeInv, DBTypeOK
  <2> HIDE DEF e
  <2>3. events' = [events EXCEPT ![d] = IF complete[d] THEN Append(events[d], e) ELSE events[d]]
    BY <1>1 DEF Observe, e
  <2> QED  BY <2>2, <2>3 DEF DBTypeInv, DBTypeOK
<1>3. up' \in [Device -> Seq(Request)]
  <2>1. Append(up[d], Listen) \in Seq(Request)
    BY DEF DBTypeInv, DBTypeOK, Listen, Request
  <2> QED  BY <1>1, <2>1 DEF DBTypeInv, DBTypeOK, Observe
<1>4. unackedListens' \in [Device -> Nat] /\ registrations' \in [Device -> Seq(Observer)]
  BY <1>1 DEF DBTypeInv, DBTypeOK, Observe
<1>5. DBTypeOK'
  BY <1>1, <1>2, <1>3, <1>4 DEF DBTypeInv, DBTypeOK, Observe, serverVars, putVars, boundVars
<1> QED  BY <1>1, <1>5 DEF DBTypeInv, WritesBounded, Observe, putVars

LEMMA SetValueTyped ==
    ASSUME DBTypeInv, NEW d \in Device, NEW k \in Key, NEW v \in Value,
           SetValue(d, k, v)
    PROVE  DBTypeInv'
<1> DEFINE w == [id |-> nextWriteId[d], key |-> k, value |-> v]
<1>1. w \in Write /\ w.id < nextWriteId[d] + 1
  BY DEF DBTypeInv, DBTypeOK, Write
<1>2. Overlay(writes[d] \cup {w}, cache[d]) \in Snapshot
  <2>1. writes[d] \cup {w} \in SUBSET Write /\ nextWriteId[d] + 1 \in Nat
    BY <1>1 DEF DBTypeInv, DBTypeOK
  <2>2. \A x \in writes[d] \cup {w} : x.id < nextWriteId[d] + 1
    BY <1>1, <2>1 DEF DBTypeInv, DBTypeOK, WritesBounded, Write
  <2> QED  BY <2>1, <2>2, OverlayType DEF DBTypeInv, DBTypeOK
<1>3. events' \in [Device -> Seq(Event)]
  BY <1>2, RaiseType DEF DBTypeInv, SetValue
<1>4. up' \in [Device -> Seq(Request)]
  BY <1>1 DEF DBTypeInv, DBTypeOK, SetValue, Put, Request
<1>5. DBTypeOK'
  BY <1>1, <1>3, <1>4 DEF DBTypeInv, DBTypeOK, SetValue, serverVars, boundVars
<1>6. WritesBounded'
  <2>1. IsFiniteSet(outstandingPuts[d] \cup {w})
    BY FS_AddElement DEF DBTypeInv, WritesBounded
  <2>2. \A e \in Device : IsFiniteSet(outstandingPuts'[e])
    BY <2>1 DEF DBTypeInv, DBTypeOK, WritesBounded, SetValue
  <2>3. \A e \in Device : \A x \in writes'[e] : x.id < nextWriteId'[e]
    <3> SUFFICES ASSUME NEW e \in Device, NEW x \in writes'[e]
                 PROVE  x.id < nextWriteId'[e]
      OBVIOUS
    <3>1. CASE e = d
      BY <3>1, <1>1 DEF DBTypeInv, DBTypeOK, WritesBounded, SetValue, Write
    <3>2. CASE e # d
      BY <3>2 DEF DBTypeInv, DBTypeOK, WritesBounded, SetValue
    <3> QED  BY <3>1, <3>2
  <2> QED  BY <2>2, <2>3 DEF WritesBounded
<1> QED  BY <1>5, <1>6 DEF DBTypeInv

\* Putting the writes of restoreState in order takes each put once.
LEMMA InIndexOrderType ==
    ASSUME NEW puts \in SUBSET Write, IsFiniteSet(puts),
           NEW s \in InIndexOrder(puts)
    PROVE  s \in Seq(Write) /\ DOMAIN s = 1 .. Len(s)
<1>1. Cardinality(puts) \in Nat
  BY FS_CardinalityType
<1>2. s \in [1 .. Cardinality(puts) -> puts]
  BY DEF InIndexOrder, Bijection, Injection
<1> QED  BY <1>1, <1>2

LEMMA ListensToRestoreType ==
    ASSUME NEW d \in Device
    PROVE  ListensToRestore(d) \in Seq(Request) /\ Len(ListensToRestore(d)) \in Nat
<1>1. <<Listen>> \in Seq(Request) /\ <<>> \in Seq(Request)
  BY DEF Listen, Request
<1> QED  BY <1>1 DEF ListensToRestore

LEMMA ConnectTyped ==
    ASSUME DBTypeInv, NEW d \in Device, Connect(d)
    PROVE  DBTypeInv'
<1>1. PICK s \in InIndexOrder(outstandingPuts[d]) :
        up' = [up EXCEPT ![d] = ListensToRestore(d) \o [i \in DOMAIN s |-> Put(s[i])]]
  BY DEF Connect
<1>2. s \in Seq(Write) /\ DOMAIN s = 1 .. Len(s)
  BY <1>1, InIndexOrderType DEF DBTypeInv, DBTypeOK, WritesBounded
<1>3. [i \in DOMAIN s |-> Put(s[i])] \in Seq(Request)
  BY <1>2 DEF Put, Request
<1>4. up' \in [Device -> Seq(Request)]
  <2>1. ListensToRestore(d) \o [i \in DOMAIN s |-> Put(s[i])] \in Seq(Request)
    BY <1>3, ListensToRestoreType
  <2> QED  BY <1>1, <2>1 DEF DBTypeInv, DBTypeOK
<1>5. unackedListens' \in [Device -> Nat]
  BY ListensToRestoreType DEF Connect, DBTypeInv, DBTypeOK
<1> QED  BY <1>4, <1>5 DEF DBTypeInv, DBTypeOK, WritesBounded, Connect, putVars, viewVars, boundVars

LEMMA DisconnectTyped ==
    ASSUME DBTypeInv, NEW d \in Device, Disconnect(d)
    PROVE  DBTypeInv'
BY DEF DBTypeInv, DBTypeOK, WritesBounded, Disconnect, LoseConnection, putVars, viewVars

LEMMA KillTyped ==
    ASSUME DBTypeInv, NEW d \in Device, Kill(d)
    PROVE  DBTypeInv'
<1>1. Empty \in Snapshot
  BY DEF Empty, Snapshot, Child
<1>2. DBTypeOK'
  BY <1>1 DEF DBTypeInv, DBTypeOK, Kill, LoseConnection
<1>3. WritesBounded'
  BY FS_EmptySet DEF DBTypeInv, DBTypeOK, WritesBounded, Kill
<1> QED  BY <1>2, <1>3 DEF DBTypeInv

-----------------------------------------------------------------------------
(* Messages of the server.                                                 *)

\* What is taken from the connection is a push, and the rest is still typed.
LEMMA NextPushType ==
    ASSUME DBTypeInv, NEW d \in Device, NEW type, NextPush(d, type)
    PROVE  /\ Head(down[d]) \in Push /\ Head(down[d]).type = type
           /\ down' \in [Device -> Seq(Push)]
<1>1. Head(down[d]) \in Push /\ Tail(down[d]) \in Seq(Push)
  BY DEF DBTypeInv, DBTypeOK, NextPush
<1> QED  BY <1>1 DEF DBTypeInv, DBTypeOK, NextPush

LEMMA ReceiveDataTyped ==
    ASSUME DBTypeInv, NEW d \in Device, ReceiveData(d)
    PROVE  DBTypeInv'
<1> DEFINE data == Head(down[d]).snapshot
<1>1. data \in Snapshot /\ down' \in [Device -> Seq(Push)]
  BY NextPushType DEF ReceiveData, Push
<1>2. Overlay(writes[d], data) \in Snapshot
  BY <1>1, OverlayType DEF DBTypeInv, DBTypeOK, WritesBounded
<1>3. events' \in [Device -> Seq(Event)]
  BY <1>2, RaiseType DEF DBTypeInv, ReceiveData
<1>4. cache' \in [Device -> Snapshot] /\ complete' \in [Device -> BOOLEAN]
  BY <1>1 DEF DBTypeInv, DBTypeOK, ReceiveData
<1> QED  BY <1>1, <1>3, <1>4
         DEF DBTypeInv, DBTypeOK, WritesBounded, ReceiveData, serverVars, putVars, boundVars

LEMMA ReceiveSetTyped ==
    ASSUME DBTypeInv, NEW d \in Device, ReceiveSet(d)
    PROVE  DBTypeInv'
<1> DEFINE set  == Head(down[d])
           data == [cache[d] EXCEPT ![set.key] = set.value]
<1>1. set.key \in Key /\ set.value \in Value /\ down' \in [Device -> Seq(Push)]
  BY NextPushType DEF ReceiveSet, Push
<1>2. data \in Snapshot
  BY <1>1 DEF DBTypeInv, DBTypeOK, Snapshot, Child
<1>3. Overlay(writes[d], data) \in Snapshot
  BY <1>2, OverlayType DEF DBTypeInv, DBTypeOK, WritesBounded
<1>4. events' \in [Device -> Seq(Event)]
  BY <1>3, RaiseType DEF DBTypeInv, ReceiveSet, Cached
<1>5. cache' \in [Device -> Snapshot]
  BY <1>2 DEF DBTypeInv, DBTypeOK, ReceiveSet, Cached
<1> QED  BY <1>1, <1>4, <1>5
         DEF DBTypeInv, DBTypeOK, WritesBounded, ReceiveSet, serverVars, putVars, boundVars

\* Acknowledging a write keeps the types of what it changes.
LEMMA AckWriteType ==
    ASSUME DBTypeInv, NEW d \in Device, NEW answer \in Answer, AckWrite(d, answer)
    PROVE  /\ writes' \in [Device -> SUBSET Write]
           /\ \A e \in Device : writes'[e] \subseteq writes[e]
           /\ events' \in [Device -> Seq(Event)]
<1> DEFINE left == {w \in writes[d] : w.id # answer.id}
<1>1. left \in SUBSET Write /\ left \subseteq writes[d]
  BY DEF DBTypeInv, DBTypeOK
<1>2. Overlay(left, cache[d]) \in Snapshot
  BY <1>1, OverlayType DEF DBTypeInv, DBTypeOK, WritesBounded
<1>3. events' \in [Device -> Seq(Event)]
  BY <1>2, RaiseType DEF DBTypeInv, AckWrite
<1> QED  BY <1>1, <1>3 DEF DBTypeInv, DBTypeOK, AckWrite

LEMMA ReceiveAnswerTyped ==
    ASSUME DBTypeInv, NEW d \in Device, ReceiveAnswer(d)
    PROVE  DBTypeInv'
<1> DEFINE answer == Head(down[d]).answer
<1>1. answer \in Answer /\ down' \in [Device -> Seq(Push)]
  BY NextPushType DEF ReceiveAnswer, Push
<1>2. \/ AckWrite(d, answer) /\ UNCHANGED putsToAck
      \/ /\ putsToAck' = [putsToAck EXCEPT ![d] = Append(@, answer)]
         /\ UNCHANGED <<writes, events>>
  BY DEF ReceiveAnswer
<1>3. /\ writes' \in [Device -> SUBSET Write]
      /\ \A e \in Device : writes'[e] \subseteq writes[e]
      /\ events' \in [Device -> Seq(Event)]
      /\ putsToAck' \in [Device -> Seq(Answer)]
  <2>1. CASE AckWrite(d, answer) /\ UNCHANGED putsToAck
    BY <2>1, <1>1, AckWriteType DEF DBTypeInv, DBTypeOK
  <2>2. CASE /\ putsToAck' = [putsToAck EXCEPT ![d] = Append(@, answer)]
             /\ UNCHANGED <<writes, events>>
    <3>1. Append(putsToAck[d], answer) \in Seq(Answer)
      BY <1>1 DEF DBTypeInv, DBTypeOK
    <3> QED  BY <2>2, <3>1 DEF DBTypeInv, DBTypeOK
  <2> QED  BY <1>2, <2>1, <2>2
<1>4. \A e \in Device : /\ outstandingPuts'[e] \subseteq outstandingPuts[e]
                        /\ IsFiniteSet(outstandingPuts'[e])
  <2>1. \A e \in Device : outstandingPuts'[e] \subseteq outstandingPuts[e]
    BY DEF DBTypeInv, DBTypeOK, ReceiveAnswer, Outstanding
  <2> QED  BY <2>1, FS_Subset DEF DBTypeInv, WritesBounded
<1>5. outstandingPuts' \in [Device -> SUBSET Write]
  BY DEF DBTypeInv, DBTypeOK, ReceiveAnswer, Outstanding
<1> QED  BY <1>1, <1>3, <1>4, <1>5
         DEF DBTypeInv, DBTypeOK, WritesBounded, ReceiveAnswer, serverVars, boundVars

LEMMA AckPutsTyped ==
    ASSUME DBTypeInv, NEW d \in Device, AckPuts(d)
    PROVE  DBTypeInv'
<1>1. Head(putsToAck[d]) \in Answer /\ Tail(putsToAck[d]) \in Seq(Answer)
  BY DEF DBTypeInv, DBTypeOK, AckPuts, Acking
<1>2. /\ writes' \in [Device -> SUBSET Write]
      /\ \A e \in Device : writes'[e] \subseteq writes[e]
      /\ events' \in [Device -> Seq(Event)]
  BY <1>1, AckWriteType DEF AckPuts
<1>3. putsToAck' \in [Device -> Seq(Answer)]
  BY <1>1 DEF DBTypeInv, DBTypeOK, AckPuts
<1> QED  BY <1>2, <1>3
         DEF DBTypeInv, DBTypeOK, WritesBounded, AckPuts, serverVars, linkVars, boundVars

\* The one action whose typing is not local: the count of unanswered listens
\* is a natural number because a listen's answer finds it at one.
LEMMA ReceiveListenOkTyped ==
    ASSUME DBTypeInv, ListensCounted, NEW d \in Device, ReceiveListenOk(d)
    PROVE  DBTypeInv'
<1>1. down' \in [Device -> Seq(Push)]
  BY NextPushType DEF ReceiveListenOk
<1>2. unackedListens[d] = 1
  <2>1. 1 \in ListensDown(d)
    BY DEF DBTypeInv, DBTypeOK, ReceiveListenOk, NextPush, ListensDown, OfType
  <2> QED  BY <2>1 DEF ListensCounted, ListensAgree, ListenUnderWay
<1>3. unackedListens' \in [Device -> Nat]
  BY <1>2 DEF DBTypeInv, DBTypeOK, ReceiveListenOk
<1> QED  BY <1>1, <1>3
         DEF DBTypeInv, DBTypeOK, WritesBounded, ReceiveListenOk, serverVars, putVars, viewVars, boundVars

-----------------------------------------------------------------------------
(* The server.                                                             *)

LEMMA NextRequestType ==
    ASSUME DBTypeInv, NEW d \in Device, NEW type, NextRequest(d, type)
    PROVE  /\ Head(up[d]) \in Request /\ Head(up[d]).type = type
           /\ up' \in [Device -> Seq(Request)]
<1>1. Head(up[d]) \in Request /\ Tail(up[d]) \in Seq(Request)
  BY DEF DBTypeInv, DBTypeOK, NextRequest
<1> QED  BY <1>1 DEF DBTypeInv, DBTypeOK, NextRequest

LEMMA ServerListenTyped ==
    ASSUME DBTypeInv, NEW d \in Device, ServerListen(d)
    PROVE  DBTypeInv'
<1>1. up' \in [Device -> Seq(Request)]
  BY NextRequestType DEF ServerListen
<1> QED  BY <1>1 DEF DBTypeInv, DBTypeOK, WritesBounded, ServerListen, putVars, viewVars, boundVars

LEMMA ServerLoadTyped ==
    ASSUME DBTypeInv, NEW d \in Device, ServerLoad(d)
    PROVE  DBTypeInv'
<1> DEFINE loaded == <<[type |-> "data", snapshot |-> store], [type |-> "listenOk"]>>
<1>1. loaded \in Seq(Push)
  <2>1. [type |-> "data", snapshot |-> store] \in Push /\ [type |-> "listenOk"] \in Push
    BY DEF DBTypeInv, DBTypeOK, Push
  <2> QED  BY <2>1
<1>2. down' \in [Device -> Seq(Push)]
  <2> HIDE DEF loaded
  <2>1. down[d] \o loaded \in Seq(Push)
    BY <1>1 DEF DBTypeInv, DBTypeOK
  <2>2. down' = [down EXCEPT ![d] = down[d] \o loaded]
    BY DEF ServerLoad, loaded
  <2> QED  BY <2>1, <2>2 DEF DBTypeInv, DBTypeOK
<1> QED  BY <1>2 DEF DBTypeInv, DBTypeOK, WritesBounded, ServerLoad, putVars, viewVars, boundVars

LEMMA ServerPutTyped ==
    ASSUME DBTypeInv, NEW d \in Device, ServerPut(d)
    PROVE  DBTypeInv'
<1> DEFINE w == Head(up[d]).write
           pushed(e) == IF session[e] = "listening"
                        THEN <<[type |-> "set", key |-> w.key, value |-> w.value]>>
                        ELSE <<>>
           answered(e) == IF e = d THEN <<AnswerTo(w, TRUE)>> ELSE <<>>
<1>1. w \in Write /\ up' \in [Device -> Seq(Request)]
  BY NextRequestType DEF ServerPut, Request
<1>2. ASSUME NEW e \in Device  PROVE down[e] \o pushed(e) \o answered(e) \in Seq(Push)
  <2>1. pushed(e) \in Seq(Push)
    <3>1. [type |-> "set", key |-> w.key, value |-> w.value] \in Push
      BY <1>1 DEF Push, Write
    <3> QED  BY <3>1
  <2>2. answered(e) \in Seq(Push)
    <3> DEFINE a == AnswerTo(w, TRUE)
    <3>1. a \in Push
      BY <1>1 DEF Push, Write, AnswerTo, Answer
    <3>2. <<a>> \in Seq(Push) /\ <<>> \in Seq(Push)
      <4> HIDE DEF a
      <4> QED  BY <3>1
    <3>3. answered(e) = IF e = d THEN <<a>> ELSE <<>>
      OBVIOUS
    <3> HIDE DEF answered, a
    <3> QED  BY <3>2, <3>3
  <2> HIDE DEF pushed, answered
  <2> QED  BY <2>1, <2>2 DEF DBTypeInv, DBTypeOK
<1>3. down' \in [Device -> Seq(Push)]
  BY <1>2 DEF ServerPut
<1>4. store' \in Snapshot
  BY <1>1 DEF DBTypeInv, DBTypeOK, ServerPut, Snapshot, Child, Write
<1> QED  BY <1>1, <1>3, <1>4
         DEF DBTypeInv, DBTypeOK, WritesBounded, ServerPut, putVars, viewVars, boundVars

LEMMA ServerRejectTyped ==
    ASSUME DBTypeInv, NEW d \in Device, ServerReject(d)
    PROVE  DBTypeInv'
<1>1. Head(up[d]).write \in Write /\ up' \in [Device -> Seq(Request)]
  BY NextRequestType DEF ServerReject, Request
<1>2. AnswerTo(Head(up[d]).write, FALSE) \in Push
  BY <1>1 DEF AnswerTo, Push, Answer, Write
<1>3. down' \in [Device -> Seq(Push)]
  <2> DEFINE a == AnswerTo(Head(up[d]).write, FALSE)
  <2>1. down' = [down EXCEPT ![d] = Append(down[d], a)]
    BY DEF ServerReject
  <2>2. a \in Push
    BY <1>2
  <2> HIDE DEF a
  <2>3. Append(down[d], a) \in Seq(Push)
    BY <2>2 DEF DBTypeInv, DBTypeOK
  <2> QED  BY <2>1, <2>3 DEF DBTypeInv, DBTypeOK
<1>4. rejects' \in Nat /\ faults' \in Nat
  BY DEF DBTypeInv, DBTypeOK, ServerReject
<1> QED  BY <1>1, <1>3, <1>4
         DEF DBTypeInv, DBTypeOK, WritesBounded, ServerReject, serverVars, putVars, viewVars

LEMMA TakeEventTyped ==
    ASSUME DBTypeInv, NEW d \in Device, TakeEvent(d)
    PROVE  DBTypeInv'
<1>1. Tail(events[d]) \in Seq(Event)
  BY DEF DBTypeInv, DBTypeOK, TakeEvent
<1>2. events' \in [Device -> Seq(Event)]
  BY <1>1 DEF DBTypeInv, DBTypeOK, TakeEvent
<1> QED  BY <1>2
         DEF DBTypeInv, DBTypeOK, WritesBounded, TakeEvent, serverVars, linkVars, putVars, boundVars

-----------------------------------------------------------------------------
(* The count of unanswered listens.                                        *)

\* Taking the only message of its type leaves none; taking another one leaves
\* that type alone.
LEMMA OfTypeTail ==
    ASSUME NEW S, NEW s \in Seq(S), s # <<>>, NEW t
    PROVE  /\ Head(s).type = t /\ AtMostOne(OfType(s, t)) => OfType(Tail(s), t) = {}
           /\ Head(s).type # t => (OfType(Tail(s), t) = {} <=> OfType(s, t) = {})
           /\ AtMostOne(OfType(s, t)) => AtMostOne(OfType(Tail(s), t))
<1>1. /\ Len(s) \in Nat /\ Len(s) > 0 /\ DOMAIN s = 1 .. Len(s)
      /\ DOMAIN Tail(s) = 1 .. Len(s) - 1 /\ Head(s) = s[1]
      /\ \A i \in 1 .. Len(s) - 1 : Tail(s)[i] = s[i + 1]
  OBVIOUS
<1>2. \A i \in OfType(Tail(s), t) : i \in Nat /\ i > 0 /\ i + 1 \in OfType(s, t)
  BY <1>1 DEF OfType
<1>3. \A i \in OfType(s, t) : i # 1 => i - 1 \in OfType(Tail(s), t)
  BY <1>1 DEF OfType
<1>4. Head(s).type = t => 1 \in OfType(s, t)
  BY <1>1 DEF OfType
<1>5. ASSUME Head(s).type = t, AtMostOne(OfType(s, t))  PROVE OfType(Tail(s), t) = {}
  BY <1>2, <1>4, <1>5 DEF AtMostOne
<1>6. ASSUME Head(s).type # t  PROVE OfType(Tail(s), t) = {} <=> OfType(s, t) = {}
  <2>1. \A i \in OfType(s, t) : i # 1
    BY <1>1, <1>6 DEF OfType
  <2> QED  BY <1>2, <1>3, <2>1
<1>7. ASSUME AtMostOne(OfType(s, t))  PROVE AtMostOne(OfType(Tail(s), t))
  <2> SUFFICES ASSUME NEW x \in OfType(Tail(s), t), NEW y \in OfType(Tail(s), t)
               PROVE  x = y
    BY DEF AtMostOne
  <2>1. x + 1 = y + 1
    BY <1>2, <1>7 DEF AtMostOne
  <2> QED  BY <1>2, <2>1
<1> QED  BY <1>5, <1>6, <1>7

\* Adding messages of other types leaves the type alone.
LEMMA OfTypeOthers ==
    ASSUME NEW S, NEW s \in Seq(S), NEW r \in Seq(S), NEW t,
           \A i \in DOMAIN r : r[i].type # t
    PROVE  OfType(s \o r, t) = OfType(s, t)
<1>1. /\ Len(s) \in Nat /\ Len(r) \in Nat
      /\ DOMAIN s = 1 .. Len(s) /\ DOMAIN r = 1 .. Len(r)
      /\ DOMAIN (s \o r) = 1 .. Len(s) + Len(r)
      /\ \A i \in 1 .. Len(s) + Len(r) : (s \o r)[i] = IF i <= Len(s) THEN s[i] ELSE r[i - Len(s)]
  OBVIOUS
<1>2. ASSUME NEW i  PROVE i \in OfType(s \o r, t) <=> i \in OfType(s, t)
  <2>1. CASE i \in 1 .. Len(s)
    BY <1>1, <2>1 DEF OfType
  <2>2. CASE i \in 1 .. Len(s) + Len(r) /\ i \notin 1 .. Len(s)
    <3>1. (s \o r)[i] = r[i - Len(s)] /\ i - Len(s) \in DOMAIN r
      BY <1>1, <2>2
    <3> QED  BY <1>1, <2>2, <3>1 DEF OfType
  <2>3. CASE i \notin 1 .. Len(s) + Len(r)
    BY <1>1, <2>3 DEF OfType
  <2> QED  BY <2>1, <2>2, <2>3
<1> QED  BY <1>2

\* Adding one message of the type, when there was none, makes one.
LEMMA OfTypeFirst ==
    ASSUME NEW S, NEW s \in Seq(S), NEW m \in S, NEW t,
           OfType(s, t) = {}, m.type = t
    PROVE  OfType(Append(s, m), t) = {Len(s) + 1}
<1>1. /\ Len(s) \in Nat /\ DOMAIN s = 1 .. Len(s)
      /\ DOMAIN Append(s, m) = 1 .. Len(s) + 1
      /\ \A i \in 1 .. Len(s) : Append(s, m)[i] = s[i]
      /\ Append(s, m)[Len(s) + 1] = m
  OBVIOUS
<1> QED  BY <1>1 DEF OfType

\* A device on which a step changes nothing that the count depends on.
LEMMA ListensFrame ==
    ASSUME NEW e \in Device, ListensAgree(e),
           up'[e] = up[e], down'[e] = down[e], session'[e] = session[e],
           connected'[e] = connected[e], unackedListens'[e] = unackedListens[e],
           registrations'[e] = registrations[e]
    PROVE  ListensAgree(e)'
BY DEF ListensAgree, ListenUnderWay, ListensUp, ListensDown

\* A step of one device that leaves the others alone need only be looked at on
\* that device.
LEMMA ListensLocal ==
    ASSUME DBTypeOK, ListensCounted, NEW d \in Device, ListensAgree(d)',
           \A e \in Device : e # d =>
              /\ up'[e] = up[e] /\ down'[e] = down[e] /\ session'[e] = session[e]
              /\ connected'[e] = connected[e] /\ unackedListens'[e] = unackedListens[e]
              /\ registrations'[e] = registrations[e]
    PROVE  ListensCounted'
<1> SUFFICES ASSUME NEW e \in Device, e # d
             PROVE  ListensAgree(e)'
  BY DEF ListensCounted
<1> QED  BY ListensFrame DEF ListensCounted

LEMMA ObserveCounted ==
    ASSUME DBTypeInv, ListensCounted, NEW d \in Device, NEW r \in Observer,
           ObserveParent(d, r) \/ ObserveChildren(d, r)
    PROVE  ListensCounted'
<1>1. PICK regs \in Seq(Observer) : regs # <<>> /\ Observe(d, r, regs)
  <2>1. /\ Append(registrations[d], r) \in Seq(Observer) /\ Append(registrations[d], r) # <<>>
        /\ <<r>> \o registrations[d] \in Seq(Observer) /\ <<r>> \o registrations[d] # <<>>
    <3>1. registrations[d] \in Seq(Observer) /\ <<r>> \in Seq(Observer)
      BY DEF DBTypeInv, DBTypeOK
    <3>2. /\ Len(Append(registrations[d], r)) > 0
          /\ Len(<<r>> \o registrations[d]) > 0
      BY <3>1
    <3> QED  BY <3>1, <3>2
  <2> QED  BY <2>1 DEF ObserveParent, ObserveChildren
<1>2. registrations'[d] # <<>>
  BY <1>1 DEF Observe, DBTypeInv, DBTypeOK
<1>3. ListensAgree(d)'
  <2>1. CASE registrations[d] = <<>> /\ connected[d]
    <3>1. ~ListenUnderWay(d) /\ unackedListens[d] = 0 /\ session[d] = "idle"
      BY <2>1 DEF ListensCounted, ListensAgree
    <3>2. up'[d] = Append(up[d], Listen) /\ unackedListens'[d] = 1
      BY <1>1, <2>1, <3>1 DEF Observe, DBTypeInv, DBTypeOK
    <3>3. up[d] \in Seq(Request) /\ Listen \in Request /\ Listen.type = "listen"
      BY DEF DBTypeInv, DBTypeOK, Listen, Request
    <3>4. ListensUp(d)' = {Len(up[d]) + 1}
      <4>1. OfType(up[d], "listen") = {}
        BY <3>1 DEF ListenUnderWay, ListensUp
      <4>2. \A s \in Seq(Request), m \in Request :
               OfType(s, "listen") = {} /\ m.type = "listen"
                 => OfType(Append(s, m), "listen") = {Len(s) + 1}
        BY OfTypeFirst
      <4>3. OfType(Append(up[d], Listen), "listen") = {Len(up[d]) + 1}
        BY <3>3, <4>1, <4>2
      <4> QED  BY <3>2, <4>3 DEF ListensUp
    <3>5. ListensDown(d)' = {} /\ session'[d] = "idle" /\ connected'[d]
      BY <1>1, <2>1, <3>1 DEF Observe, ListenUnderWay, ListensDown, serverVars
    <3> QED  BY <1>2, <3>2, <3>4, <3>5 DEF ListensAgree, ListenUnderWay, AtMostOne
  <2>2. CASE ~(registrations[d] = <<>> /\ connected[d])
    <3>1. /\ up'[d] = up[d] /\ down'[d] = down[d] /\ session'[d] = session[d]
          /\ connected'[d] = connected[d] /\ unackedListens'[d] = unackedListens[d]
      BY <1>1, <2>2 DEF Observe, DBTypeInv, DBTypeOK, serverVars
    <3> QED  BY <1>2, <2>2, <3>1
             DEF ListensCounted, ListensAgree, ListenUnderWay, ListensUp, ListensDown
  <2> QED  BY <2>1, <2>2
<1> QED  BY <1>1, <1>3, ListensLocal DEF Observe, DBTypeInv, DBTypeOK, serverVars

LEMMA SetValueCounted ==
    ASSUME DBTypeInv, ListensCounted, NEW d \in Device, NEW k \in Key, NEW v \in Value,
           SetValue(d, k, v)
    PROVE  ListensCounted'
<1> DEFINE w == [id |-> nextWriteId[d], key |-> k, value |-> v]
<1> DEFINE sent == <<Put(w)>>
<1>1. /\ up[d] \in Seq(Request) /\ sent \in Seq(Request)
      /\ \A i \in DOMAIN sent : sent[i].type # "listen"
  <2>1. Put(w) \in Request /\ Put(w).type # "listen"
    BY DEF DBTypeInv, DBTypeOK, Put, Request, Write
  <2> HIDE DEF w
  <2> QED  BY <2>1 DEF DBTypeInv, DBTypeOK
<1>2. up'[d] = IF connected[d] THEN up[d] \o sent ELSE up[d]
  <2>1. up' = [up EXCEPT ![d] = IF connected[d] THEN Append(up[d], Put(w)) ELSE up[d]]
    BY DEF SetValue
  <2>2. Append(up[d], Put(w)) = up[d] \o sent
    <3> HIDE DEF w
    <3> QED  BY <1>1
  <2> HIDE DEF w, sent
  <2> QED  BY <2>1, <2>2 DEF DBTypeInv, DBTypeOK
<1>3. ListensUp(d)' = ListensUp(d)
  <2> HIDE DEF sent
  <2>1. OfType(up[d] \o sent, "listen") = OfType(up[d], "listen")
    BY <1>1, OfTypeOthers
  <2> QED  BY <1>2, <2>1 DEF ListensUp
<1>4. /\ down'[d] = down[d] /\ session'[d] = session[d] /\ connected'[d] = connected[d]
      /\ unackedListens'[d] = unackedListens[d] /\ registrations'[d] = registrations[d]
  BY DEF SetValue, serverVars
<1>5. ListensAgree(d)'
  BY <1>2, <1>3, <1>4 DEF ListensCounted, ListensAgree, ListenUnderWay, ListensDown
<1> QED  BY <1>5, ListensLocal DEF SetValue, DBTypeInv, DBTypeOK, serverVars

LEMMA ConnectCounted ==
    ASSUME DBTypeInv, ListensCounted, NEW d \in Device, Connect(d)
    PROVE  ListensCounted'
<1>1. PICK s \in InIndexOrder(outstandingPuts[d]) :
        up' = [up EXCEPT ![d] = ListensToRestore(d) \o [i \in DOMAIN s |-> Put(s[i])]]
  BY DEF Connect
<1> DEFINE puts == [i \in DOMAIN s |-> Put(s[i])]
<1>2. /\ puts \in Seq(Request)
      /\ \A i \in DOMAIN puts : puts[i].type # "listen"
  <2>1. s \in Seq(Write) /\ DOMAIN s = 1 .. Len(s)
    BY <1>1, InIndexOrderType DEF DBTypeInv, DBTypeOK, WritesBounded
  <2>2. puts \in Seq(Request)
    BY <2>1 DEF Put, Request
  <2>3. \A i \in DOMAIN puts : puts[i].type # "listen"
    BY DEF Put
  <2> QED  BY <2>2, <2>3
<1>3. /\ OfType(ListensToRestore(d), "listen") = IF registrations[d] = <<>> THEN {} ELSE {1}
      /\ Len(ListensToRestore(d)) = IF registrations[d] = <<>> THEN 0 ELSE 1
  BY DEF OfType, Listen, ListensToRestore
<1>4. ListensUp(d)' = IF registrations[d] = <<>> THEN {} ELSE {1}
  <2>1. up'[d] = ListensToRestore(d) \o puts
    BY <1>1 DEF DBTypeInv, DBTypeOK
  <2> HIDE DEF puts
  <2> QED  BY <1>2, <1>3, <2>1, ListensToRestoreType, OfTypeOthers DEF ListensUp
<1>5. ListensDown(d)' = {} /\ unackedListens[d] = 0
  BY DEF Connect, ListensCounted, ListensAgree, ListenUnderWay, ListensUp, ListensDown, OfType
<1>6. unackedListens'[d] = IF registrations[d] = <<>> THEN 0 ELSE 1
  BY <1>3, <1>5 DEF Connect, DBTypeInv, DBTypeOK
<1>7. /\ session'[d] = "idle" /\ connected'[d] /\ registrations'[d] = registrations[d]
  BY DEF Connect, DBTypeInv, DBTypeOK, viewVars
<1>8. ListensAgree(d)'
  BY <1>4, <1>5, <1>6, <1>7 DEF ListensAgree, ListenUnderWay, AtMostOne
<1> QED  BY <1>1, <1>8, ListensLocal DEF Connect, DBTypeInv, DBTypeOK, viewVars

\* A connection that is gone carries nothing.
LEMMA ClosedAgrees ==
    ASSUME NEW d \in Device, up'[d] = <<>>, down'[d] = <<>>, ~connected'[d],
           session'[d] = "closed", unackedListens'[d] = 0
    PROVE  ListensAgree(d)'
BY DEF ListensAgree, ListenUnderWay, ListensUp, ListensDown, OfType, AtMostOne

LEMMA DisconnectCounted ==
    ASSUME DBTypeInv, ListensCounted, NEW d \in Device, Disconnect(d) \/ Kill(d)
    PROVE  ListensCounted'
<1>1. ListensAgree(d)'
  BY ClosedAgrees DEF Disconnect, Kill, LoseConnection, DBTypeInv, DBTypeOK
<1> QED  BY <1>1, ListensLocal DEF Disconnect, Kill, LoseConnection, DBTypeInv, DBTypeOK, viewVars

\* A message that is neither a listen's answer nor a listen.
LEMMA OtherPushCounted ==
    ASSUME DBTypeInv, ListensCounted, NEW d \in Device, NEW type,
           NextPush(d, type), type # "listenOk",
           UNCHANGED <<up, session, connected, unackedListens, registrations>>
    PROVE  ListensCounted'
<1>1. /\ down[d] \in Seq(Push) /\ down[d] # <<>> /\ Head(down[d]).type # "listenOk"
      /\ down'[d] = Tail(down[d])
  BY DEF NextPush, DBTypeInv, DBTypeOK
<1>2. /\ ListensDown(d)' = {} <=> ListensDown(d) = {}
      /\ AtMostOne(ListensDown(d)) => AtMostOne(ListensDown(d))'
  <2>1. /\ OfType(Tail(down[d]), "listenOk") = {} <=> OfType(down[d], "listenOk") = {}
        /\ AtMostOne(OfType(down[d], "listenOk")) => AtMostOne(OfType(Tail(down[d]), "listenOk"))
    BY <1>1, OfTypeTail, Zenon
  <2> QED  BY <1>1, <2>1 DEF ListensDown
<1>3. ListensAgree(d)'
  <2>1. ListensAgree(d) /\ connected[d]
    BY <1>1 DEF ListensCounted, ListensAgree
  <2> QED  BY <1>2, <2>1 DEF ListensAgree, ListenUnderWay, ListensUp
<1> QED  BY <1>3, ListensLocal DEF NextPush, DBTypeInv, DBTypeOK

LEMMA ReceiveCounted ==
    ASSUME DBTypeInv, ListensCounted, NEW d \in Device,
           ReceiveData(d) \/ ReceiveSet(d) \/ ReceiveAnswer(d)
    PROVE  ListensCounted'
BY OtherPushCounted DEF ReceiveData, ReceiveSet, ReceiveAnswer, serverVars

LEMMA ReceiveListenOkCounted ==
    ASSUME DBTypeInv, ListensCounted, NEW d \in Device, ReceiveListenOk(d)
    PROVE  ListensCounted'
<1>1. /\ down[d] \in Seq(Push) /\ down[d] # <<>> /\ Head(down[d]).type = "listenOk"
      /\ down'[d] = Tail(down[d])
  BY DEF ReceiveListenOk, NextPush, DBTypeInv, DBTypeOK
<1>2. ListensAgree(d) /\ ListensDown(d) # {}
  <2>1. 1 \in OfType(down[d], "listenOk")
    BY <1>1 DEF OfType
  <2> QED  BY <2>1 DEF ListensCounted, ListensDown
<1>3. ListensDown(d)' = {}
  <2>1. OfType(Tail(down[d]), "listenOk") = {}
    BY <1>1, <1>2, OfTypeTail, Zenon DEF ListensAgree, ListensDown
  <2> QED  BY <1>1, <2>1 DEF ListensDown
<1>4. unackedListens[d] = 1 /\ session[d] = "listening" /\ ListensUp(d) = {} /\ connected[d]
  BY <1>1, <1>2 DEF ListensAgree, ListenUnderWay
<1>5. /\ unackedListens'[d] = 0 /\ session'[d] = "listening" /\ ListensUp(d)' = {}
      /\ connected'[d] /\ registrations'[d] = registrations[d]
  BY <1>4 DEF ReceiveListenOk, DBTypeInv, DBTypeOK, serverVars, viewVars, ListensUp
<1>6. registrations[d] # <<>>
  BY <1>2, <1>4 DEF ListensAgree
<1>7. ListensAgree(d)'
  BY <1>3, <1>5, <1>6 DEF ListensAgree, ListenUnderWay, AtMostOne
<1> QED  BY <1>7, ListensLocal
         DEF ReceiveListenOk, NextPush, DBTypeInv, DBTypeOK, serverVars, viewVars

-----------------------------------------------------------------------------
(* The server's steps and the count.                                       *)

\* The server takes a request only from a connection that is up.
LEMMA RequestTaken ==
    ASSUME DBTypeInv, ListensCounted, NEW d \in Device, NEW type, NextRequest(d, type)
    PROVE  /\ up[d] \in Seq(Request) /\ up[d] # <<>> /\ up'[d] = Tail(up[d])
           /\ Head(up[d]).type = type /\ connected[d] /\ ListensAgree(d)
BY DEF NextRequest, DBTypeInv, DBTypeOK, ListensCounted, ListensAgree

LEMMA ServerListenCounted ==
    ASSUME DBTypeInv, ListensCounted, NEW d \in Device, ServerListen(d)
    PROVE  ListensCounted'
<1>1. /\ up[d] \in Seq(Request) /\ up[d] # <<>> /\ up'[d] = Tail(up[d])
      /\ Head(up[d]).type = "listen" /\ connected[d] /\ ListensAgree(d)
  BY RequestTaken DEF ServerListen
<1>2. ListensUp(d) # {}
  <2>1. 1 \in OfType(up[d], "listen")
    BY <1>1 DEF OfType
  <2> QED  BY <2>1 DEF ListensUp
<1>3. ListensUp(d)' = {}
  <2>1. OfType(Tail(up[d]), "listen") = {}
    BY <1>1, OfTypeTail, Zenon DEF ListensAgree, ListensUp
  <2> QED  BY <1>1, <2>1 DEF ListensUp
<1>4. ListensDown(d)' = {} /\ unackedListens'[d] = 1 /\ session'[d] = "loading"
  BY <1>1, <1>2 DEF ServerListen, ListensAgree, ListenUnderWay, ListensDown, DBTypeInv, DBTypeOK
<1>5. connected'[d] /\ registrations'[d] = registrations[d] /\ registrations[d] # <<>>
  BY <1>1, <1>2 DEF ServerListen, ListensAgree, ListenUnderWay, viewVars
<1>6. ListensAgree(d)'
  BY <1>3, <1>4, <1>5 DEF ListensAgree, ListenUnderWay, AtMostOne
<1> QED  BY <1>6, ListensLocal
         DEF ServerListen, NextRequest, DBTypeInv, DBTypeOK, viewVars

LEMMA ServerLoadCounted ==
    ASSUME DBTypeInv, ListensCounted, NEW d \in Device, ServerLoad(d)
    PROVE  ListensCounted'
<1> DEFINE data == [type |-> "data", snapshot |-> store]
           ok   == [type |-> "listenOk"]
<1>1. /\ ListensAgree(d) /\ connected[d] /\ session[d] = "loading"
      /\ ListensUp(d) = {} /\ ListensDown(d) = {} /\ unackedListens[d] = 1
  BY DEF ServerLoad, ListensCounted, ListensAgree, ListenUnderWay
<1>2. down[d] \in Seq(Push) /\ data \in Push /\ ok \in Push
  BY DEF DBTypeInv, DBTypeOK, Push
<1>3. AtMostOne(ListensDown(d)') /\ ListensDown(d)' # {}
  <2>1. data.type # "listenOk" /\ ok.type = "listenOk"
    OBVIOUS
  <2>2. down' = [down EXCEPT ![d] = down[d] \o <<data, ok>>]
    BY DEF ServerLoad
  <2> HIDE DEF data, ok
  <2>3. /\ Append(down[d], data) \in Seq(Push)
        /\ down[d] \o <<data, ok>> = Append(Append(down[d], data), ok)
        /\ Append(down[d], data) = down[d] \o <<data>> /\ <<data>> \in Seq(Push)
        /\ \A i \in DOMAIN <<data>> : <<data>>[i] = data
    BY <1>2
  <2>4. OfType(Append(down[d], data), "listenOk") = {}
    <3>1. OfType(down[d] \o <<data>>, "listenOk") = OfType(down[d], "listenOk")
      BY <1>2, <2>1, <2>3, OfTypeOthers
    <3> QED  BY <1>1, <2>3, <3>1 DEF ListensDown
  <2>5. \A s \in Seq(Push), m \in Push :
           OfType(s, "listenOk") = {} /\ m.type = "listenOk"
             => OfType(Append(s, m), "listenOk") = {Len(s) + 1}
    BY OfTypeFirst
  <2>6. OfType(down[d] \o <<data, ok>>, "listenOk") = {Len(Append(down[d], data)) + 1}
    BY <1>2, <2>1, <2>3, <2>4, <2>5
  <2>7. down'[d] = down[d] \o <<data, ok>>
    BY <2>2 DEF DBTypeInv, DBTypeOK
  <2>8. ListensDown(d)' = {Len(Append(down[d], data)) + 1}
    BY <2>6, <2>7 DEF ListensDown
  <2> QED  BY <2>8, Zenon DEF AtMostOne
<1>4. /\ session'[d] = "listening" /\ ListensUp(d)' = {} /\ unackedListens'[d] = 1
      /\ connected'[d] /\ registrations'[d] = registrations[d]
  BY <1>1 DEF ServerLoad, DBTypeInv, DBTypeOK, viewVars, ListensUp
<1>5. registrations[d] # <<>>
  BY <1>1 DEF ListensAgree
<1>6. ListensAgree(d)'
  BY <1>3, <1>4, <1>5 DEF ListensAgree, ListenUnderWay, AtMostOne
<1> QED  BY <1>6, ListensLocal DEF ServerLoad, DBTypeInv, DBTypeOK, viewVars

\* A put reaches every listener, but no push it causes is a listen's answer.
LEMMA ServerPutCounted ==
    ASSUME DBTypeInv, ListensCounted, NEW d \in Device,
           ServerPut(d) \/ ServerReject(d)
    PROVE  ListensCounted'
<1>1. /\ up[d] \in Seq(Request) /\ up[d] # <<>> /\ up'[d] = Tail(up[d])
      /\ Head(up[d]).type = "put" /\ connected[d] /\ Head(up[d]) \in Request
  BY RequestTaken, NextRequestType DEF ServerPut, ServerReject
<1>2. Head(up[d]).write \in Write
  BY <1>1 DEF Request
<1>3. ASSUME NEW e \in Device
      PROVE  ListensUp(e)' = {} <=> ListensUp(e) = {}
  <2>1. CASE e = d
    <3>1. OfType(Tail(up[d]), "listen") = {} <=> OfType(up[d], "listen") = {}
      BY <1>1, OfTypeTail, Zenon
    <3> QED  BY <1>1, <2>1, <3>1 DEF ListensUp
  <2>2. CASE e # d
    BY <2>2 DEF ServerPut, ServerReject, NextRequest, ListensUp, DBTypeInv, DBTypeOK
  <2> QED  BY <2>1, <2>2
<1>4. ASSUME NEW e \in Device, AtMostOne(ListensUp(e))
      PROVE  AtMostOne(ListensUp(e)')
  <2>1. CASE e = d
    <3>1. AtMostOne(OfType(Tail(up[d]), "listen"))
      BY <1>1, <1>4, <2>1, OfTypeTail, Zenon DEF ListensUp
    <3> QED  BY <1>1, <2>1, <3>1 DEF ListensUp
  <2>2. CASE e # d
    BY <1>4, <2>2 DEF ServerPut, ServerReject, NextRequest, ListensUp, DBTypeInv, DBTypeOK
  <2> QED  BY <2>1, <2>2
<1>5. ASSUME NEW e \in Device
      PROVE  /\ ListensDown(e)' = ListensDown(e)
             /\ down'[e] # down[e] => session[e] = "listening" \/ e = d
  <2>1. PICK r \in Seq(Push) : /\ down'[e] = down[e] \o r
                               /\ \A i \in DOMAIN r : r[i].type # "listenOk"
                               /\ r # <<>> => session[e] = "listening" \/ e = d
    <3> DEFINE w == Head(up[d]).write
               set == [type |-> "set", key |-> w.key, value |-> w.value]
               ok  == AnswerTo(w, TRUE)
               no  == AnswerTo(w, FALSE)
               pushed == IF session[e] = "listening" THEN <<set>> ELSE <<>>
               answered == IF e = d THEN <<ok>> ELSE <<>>
               refused == IF e = d THEN <<no>> ELSE <<>>
    <3>1. /\ set \in Push /\ set.type # "listenOk"
          /\ ok \in Push /\ ok.type # "listenOk"
          /\ no \in Push /\ no.type # "listenOk"
      BY <1>2 DEF AnswerTo, Push, Answer, Write
    <3>2. CASE ServerPut(d)
      <4>1. down'[e] = down[e] \o pushed \o answered
        BY <3>2 DEF ServerPut
      <4> HIDE DEF set, ok
      <4>2. /\ pushed \in Seq(Push) /\ answered \in Seq(Push)
            /\ \A i \in DOMAIN pushed : pushed[i].type # "listenOk"
            /\ \A i \in DOMAIN answered : answered[i].type # "listenOk"
            /\ pushed # <<>> => session[e] = "listening"
            /\ answered # <<>> => e = d
        BY <3>1
      <4> HIDE DEF pushed, answered
      <4>3. /\ pushed \o answered \in Seq(Push)
            /\ \A i \in DOMAIN (pushed \o answered) : (pushed \o answered)[i].type # "listenOk"
            /\ pushed \o answered # <<>> => pushed # <<>> \/ answered # <<>>
        BY <4>2
      <4>4. down'[e] = down[e] \o (pushed \o answered)
        <5>1. down[e] \in Seq(Push)
          BY DEF DBTypeInv, DBTypeOK
        <5>2. \A p, q, s \in Seq(Push) : p \o q \o s = p \o (q \o s)
          BY ConcatAssociative
        <5> QED  BY <4>1, <4>2, <5>1, <5>2
      <4> QED  BY <4>2, <4>3, <4>4
    <3>3. CASE ServerReject(d)
      <4>1. down'[e] = IF e = d THEN Append(down[e], no) ELSE down[e]
        BY <3>3 DEF ServerReject, DBTypeInv, DBTypeOK
      <4> HIDE DEF no
      <4>2. /\ refused \in Seq(Push)
            /\ \A i \in DOMAIN refused : refused[i].type # "listenOk"
            /\ refused # <<>> => e = d
        BY <3>1
      <4>3. down'[e] = down[e] \o refused
        BY <3>1, <4>1 DEF DBTypeInv, DBTypeOK
      <4> QED  BY <4>2, <4>3
    <3> QED  BY <3>2, <3>3
  <2>2. down[e] \in Seq(Push)
    BY DEF DBTypeInv, DBTypeOK
  <2>3. OfType(down[e] \o r, "listenOk") = OfType(down[e], "listenOk")
    BY <2>1, <2>2, OfTypeOthers
  <2>4. r = <<>> => down'[e] = down[e]
    BY <2>1, <2>2
  <2> QED  BY <2>1, <2>3, <2>4 DEF ListensDown
<1>6. ASSUME NEW e \in Device
      PROVE  /\ session'[e] = session[e] /\ connected'[e] = connected[e]
             /\ unackedListens'[e] = unackedListens[e]
             /\ registrations'[e] = registrations[e]
             /\ e # d => up'[e] = up[e]
  BY DEF ServerPut, ServerReject, NextRequest, DBTypeInv, DBTypeOK, serverVars, viewVars
<1> SUFFICES ASSUME NEW e \in Device  PROVE ListensAgree(e)'
  BY DEF ListensCounted
<1>7. ListensAgree(e)
  BY DEF ListensCounted
<1>8. ~connected[e] => up'[e] = up[e] /\ down'[e] = down[e]
  BY <1>1, <1>5, <1>6, <1>7 DEF ListensAgree
<1> QED  BY <1>3, <1>4, <1>5, <1>6, <1>7, <1>8 DEF ListensAgree, ListenUnderWay

-----------------------------------------------------------------------------
(* The two together are inductive: a listen's answer must find the count at *)
(* one for the count to stay a natural number.                              *)

DBInv == DBTypeInv /\ ListensCounted

LEMMA InitInv == DBInit => DBInv
<1> SUFFICES ASSUME DBInit  PROVE DBInv
  OBVIOUS
<1>1. ASSUME NEW d \in Device  PROVE ListensAgree(d)
  BY DEF DBInit, ListensAgree, ListenUnderWay, ListensUp, ListensDown, OfType, AtMostOne
<1> QED  BY <1>1, InitTyped DEF DBInv, ListensCounted

LEMMA NextInv == DBInv /\ [DBNext]_dbVars => DBInv'
<1> SUFFICES ASSUME DBTypeInv, ListensCounted, [DBNext]_dbVars
             PROVE  DBTypeInv' /\ ListensCounted'
  BY DEF DBInv
<1>1. ASSUME NEW d \in Device, App(d)
      PROVE  DBTypeInv' /\ ListensCounted'
  <2>1. CASE \E r \in Observer : ObserveParent(d, r) \/ ObserveChildren(d, r)
    BY <2>1, ObserveTyped, ObserveCounted
  <2>2. CASE \E k \in Key, v \in Value : SetValue(d, k, v)
    BY <2>2, SetValueTyped, SetValueCounted
  <2>3. CASE TakeEvent(d)
    <3>1. ListensCounted'
      <4> SUFFICES ASSUME NEW e \in Device  PROVE ListensAgree(e)'
        BY DEF ListensCounted
      <4> QED  BY <2>3, ListensFrame DEF ListensCounted, TakeEvent, serverVars, linkVars
    <3> QED  BY <2>3, <3>1, TakeEventTyped
  <2> QED  BY <1>1, <2>1, <2>2, <2>3 DEF App
<1>2. ASSUME NEW d \in Device, Library(d)
      PROVE  DBTypeInv' /\ ListensCounted'
  <2>1. CASE Connect(d)
    BY <2>1, ConnectTyped, ConnectCounted
  <2>2. CASE ReceiveData(d)
    BY <2>2, ReceiveDataTyped, ReceiveCounted
  <2>3. CASE ReceiveSet(d)
    BY <2>3, ReceiveSetTyped, ReceiveCounted
  <2>4. CASE ReceiveListenOk(d)
    BY <2>4, ReceiveListenOkTyped, ReceiveListenOkCounted
  <2>5. CASE ReceiveAnswer(d)
    BY <2>5, ReceiveAnswerTyped, ReceiveCounted
  <2>6. CASE AckPuts(d)
    <3>1. ListensCounted'
      <4> SUFFICES ASSUME NEW e \in Device  PROVE ListensAgree(e)'
        BY DEF ListensCounted
      <4> QED  BY <2>6, ListensFrame DEF ListensCounted, AckPuts, serverVars, linkVars
    <3> QED  BY <2>6, <3>1, AckPutsTyped
  <2> QED  BY <1>2, <2>1, <2>2, <2>3, <2>4, <2>5, <2>6 DEF Library
<1>3. ASSUME NEW d \in Device, Server(d)
      PROVE  DBTypeInv' /\ ListensCounted'
  <2>1. CASE ServerListen(d)
    BY <2>1, ServerListenTyped, ServerListenCounted
  <2>2. CASE ServerLoad(d)
    BY <2>2, ServerLoadTyped, ServerLoadCounted
  <2>3. CASE ServerPut(d)
    BY <2>3, ServerPutTyped, ServerPutCounted
  <2>4. CASE ServerReject(d)
    BY <2>4, ServerRejectTyped, ServerPutCounted
  <2> QED  BY <1>3, <2>1, <2>2, <2>3, <2>4 DEF Server
<1>4. ASSUME NEW d \in Device, Disconnect(d) \/ Kill(d)
      PROVE  DBTypeInv' /\ ListensCounted'
  BY <1>4, DisconnectTyped, KillTyped, DisconnectCounted
<1>5. ASSUME UNCHANGED dbVars
      PROVE  DBTypeInv' /\ ListensCounted'
  <2>1. DBTypeInv'
    BY <1>5 DEF DBTypeInv, DBTypeOK, WritesBounded,
                dbVars, serverVars, linkVars, putVars, viewVars, boundVars
  <2>2. ASSUME NEW e \in Device  PROVE ListensAgree(e)'
    BY <1>5, ListensFrame DEF ListensCounted, dbVars, serverVars, linkVars, viewVars
  <2> QED  BY <2>1, <2>2 DEF ListensCounted
<1> QED  BY <1>1, <1>2, <1>3, <1>4, <1>5 DEF DBNext

LEMMA DBInvariance == DBSpec => []DBInv
<1> QED  BY InitInv, NextInv, PTL DEF DBSpec

\* Every variable of the library and of the server has its type, whatever the
\* handlers of FPersistentConnection, FRepo and FView are interleaved with.
THEOREM DBTyped == DBSpec => []DBTypeOK
<1>1. DBInv => DBTypeOK
  BY DEF DBInv, DBTypeInv
<1> QED  BY <1>1, DBInvariance, PTL

\* The assertion of sendListen's answer holds for any number of devices and
\* lost connections: a device listens once per connection and its count of
\* unanswered listens is exact.
THEOREM DBListensCounted == DBSpec => []ListensCounted
<1>1. DBInv => ListensCounted
  BY DEF DBInv
<1> QED  BY <1>1, DBInvariance, PTL

-----------------------------------------------------------------------------
(* The messages of one type in a connection's direction, which carry ids   *)
(* in increasing order.                                                    *)

Msgs(s, type) == {s[i] : i \in OfType(s, type)}

MsgId(m) == IF m.type = "put" THEN m.write.id ELSE m.answer.id

InOrder(s, type) == \A i, j \in OfType(s, type) : i < j => MsgId(s[i]) < MsgId(s[j])

\* Taking the first message: one of the type was the oldest.
LEMMA MsgsTail ==
    ASSUME NEW S, NEW s \in Seq(S), s # <<>>, NEW type, InOrder(s, type),
           \A m \in S : m.type = type => MsgId(m) \in Nat
    PROVE  /\ InOrder(Tail(s), type)
           /\ Msgs(Tail(s), type) \subseteq Msgs(s, type)
           /\ \A m \in Msgs(s, type) : m \in Msgs(Tail(s), type) \/ m = Head(s)
           /\ Head(s).type = type =>
                /\ Head(s) \in Msgs(s, type)
                /\ \A m \in Msgs(Tail(s), type) : MsgId(Head(s)) < MsgId(m)
           /\ Head(s).type # type => Msgs(Tail(s), type) = Msgs(s, type)
<1>1. /\ Len(s) \in Nat /\ Len(s) > 0 /\ DOMAIN s = 1 .. Len(s)
      /\ DOMAIN Tail(s) = 1 .. Len(s) - 1 /\ Head(s) = s[1]
      /\ \A i \in 1 .. Len(s) - 1 : Tail(s)[i] = s[i + 1]
  OBVIOUS
<1>2. \A i \in OfType(Tail(s), type) :
         i \in Nat /\ i + 1 \in OfType(s, type) /\ 1 < i + 1 /\ Tail(s)[i] = s[i + 1]
  BY <1>1 DEF OfType
<1>3. \A i \in OfType(s, type) : i # 1 => i - 1 \in OfType(Tail(s), type) /\ Tail(s)[i - 1] = s[i]
  BY <1>1 DEF OfType
<1>4. Head(s).type = type <=> 1 \in OfType(s, type)
  BY <1>1 DEF OfType
<1>5. InOrder(Tail(s), type)
  <2> SUFFICES ASSUME NEW i \in OfType(Tail(s), type), NEW j \in OfType(Tail(s), type), i < j
               PROVE  MsgId(Tail(s)[i]) < MsgId(Tail(s)[j])
    BY DEF InOrder
  <2>1. i + 1 < j + 1
    BY <1>2
  <2> QED  BY <1>2, <2>1 DEF InOrder
<1>6. Msgs(Tail(s), type) \subseteq Msgs(s, type)
  BY <1>2 DEF Msgs
<1>7. ASSUME NEW m \in Msgs(s, type)  PROVE m \in Msgs(Tail(s), type) \/ m = Head(s)
  <2>1. PICK i \in OfType(s, type) : m = s[i]
    BY DEF Msgs
  <2>2. CASE i = 1
    BY <1>1, <2>1, <2>2
  <2>3. CASE i # 1
    BY <1>3, <2>1, <2>3 DEF Msgs
  <2> QED  BY <2>2, <2>3
<1>8. ASSUME Head(s).type = type
      PROVE  /\ Head(s) \in Msgs(s, type)
             /\ \A m \in Msgs(Tail(s), type) : MsgId(Head(s)) < MsgId(m)
  BY <1>1, <1>2, <1>4, <1>8 DEF Msgs, InOrder
<1>9. ASSUME Head(s).type # type  PROVE Msgs(Tail(s), type) = Msgs(s, type)
  BY <1>3, <1>4, <1>6, <1>9 DEF Msgs
<1> QED  BY <1>5, <1>6, <1>7, <1>8, <1>9

\* Adding a message: one of the type must be newer than those there are.
LEMMA MsgsAppend ==
    ASSUME NEW S, NEW s \in Seq(S), NEW m \in S, NEW type, InOrder(s, type),
           m.type = type => \A n \in Msgs(s, type) : MsgId(n) < MsgId(m)
    PROVE  /\ InOrder(Append(s, m), type)
           /\ m.type = type => Msgs(Append(s, m), type) = Msgs(s, type) \cup {m}
           /\ m.type # type => Msgs(Append(s, m), type) = Msgs(s, type)
<1>1. /\ Len(s) \in Nat /\ DOMAIN s = 1 .. Len(s)
      /\ DOMAIN Append(s, m) = 1 .. Len(s) + 1
      /\ \A i \in 1 .. Len(s) : Append(s, m)[i] = s[i]
      /\ Append(s, m)[Len(s) + 1] = m
  OBVIOUS
<1>2. \A i \in OfType(s, type) : i \in OfType(Append(s, m), type) /\ Append(s, m)[i] = s[i]
                                 /\ i \in Nat /\ i < Len(s) + 1
  BY <1>1 DEF OfType
<1>3. \A i \in OfType(Append(s, m), type) :
         \/ i \in OfType(s, type)
         \/ i = Len(s) + 1 /\ m.type = type
  BY <1>1 DEF OfType
<1>4. InOrder(Append(s, m), type)
  <2> SUFFICES ASSUME NEW i \in OfType(Append(s, m), type),
                      NEW j \in OfType(Append(s, m), type), i < j
               PROVE  MsgId(Append(s, m)[i]) < MsgId(Append(s, m)[j])
    BY DEF InOrder
  <2>1. i \in OfType(s, type)
    BY <1>1, <1>2, <1>3
  <2>2. CASE j \in OfType(s, type)
    BY <1>2, <2>1, <2>2 DEF InOrder
  <2>3. CASE j = Len(s) + 1 /\ m.type = type
    BY <1>1, <1>2, <2>1, <2>3 DEF Msgs
  <2> QED  BY <1>3, <2>2, <2>3
<1>5. m.type = type => Len(s) + 1 \in OfType(Append(s, m), type)
  BY <1>1 DEF OfType
<1>6. Msgs(s, type) \subseteq Msgs(Append(s, m), type)
  BY <1>2 DEF Msgs
<1>7. ASSUME m.type = type  PROVE Msgs(Append(s, m), type) = Msgs(s, type) \cup {m}
  <2>1. m \in Msgs(Append(s, m), type)
    BY <1>1, <1>5, <1>7 DEF Msgs
  <2>2. \A n \in Msgs(Append(s, m), type) : n \in Msgs(s, type) \/ n = m
    BY <1>1, <1>2, <1>3 DEF Msgs
  <2> QED  BY <1>6, <2>1, <2>2
<1>8. ASSUME m.type # type  PROVE Msgs(Append(s, m), type) = Msgs(s, type)
  <2>1. \A n \in Msgs(Append(s, m), type) : n \in Msgs(s, type)
    BY <1>1, <1>2, <1>3, <1>8 DEF Msgs
  <2> QED  BY <1>6, <2>1
<1> QED  BY <1>4, <1>7, <1>8
-----------------------------------------------------------------------------
(* The inductive invariant.                                                *)

PutsUp(d)     == Msgs(up[d], "put")
AnswersDue(d) == Msgs(down[d], "answer")

\* Writes have their own ids, and those whose put is no longer outstanding are
\* those whose answer is held back, in order and older than every other.
HeldAgree(d) ==
    /\ \A v, w \in writes[d] : v.id = w.id => v = w
    /\ outstandingPuts[d] \subseteq writes[d]
    /\ \A i \in DOMAIN putsToAck[d] :
          \E w \in writes[d] \ outstandingPuts[d] : w.id = putsToAck[d][i].id
    /\ \A w \in writes[d] \ outstandingPuts[d] :
          \E i \in DOMAIN putsToAck[d] : w.id = putsToAck[d][i].id
    /\ \A i, j \in DOMAIN putsToAck[d] : i < j => putsToAck[d][i].id < putsToAck[d][j].id
    /\ \A i \in DOMAIN putsToAck[d], w \in outstandingPuts[d] : putsToAck[d][i].id < w.id

\* On a connection every outstanding put is on its way to the server or its
\* answer on its way back, and in each direction the older comes first.
SentAgree(d) ==
    /\ InOrder(up[d], "put") /\ InOrder(down[d], "answer")
    /\ \A m \in PutsUp(d) : m.write \in outstandingPuts[d]
    /\ \A m \in AnswersDue(d) : \E w \in outstandingPuts[d] : w.id = m.answer.id
    /\ \A m \in AnswersDue(d), n \in PutsUp(d) : m.answer.id < n.write.id
    /\ connected[d] => \A w \in outstandingPuts[d] :
                          \/ \E n \in PutsUp(d) : n.write = w
                          \/ \E m \in AnswersDue(d) : m.answer.id = w.id

PutsAgree == \A d \in Device : HeldAgree(d) /\ SentAgree(d)

\* What the server has committed it stores, until another value takes its place.
Committed(d, answer) ==
    answer.ok => \A w \in writes[d] : w.id = answer.id => store[w.key] # NoValue

CommitsStored ==
    \A d \in Device :
        /\ \A m \in AnswersDue(d) : Committed(d, m.answer)
        /\ \A i \in DOMAIN putsToAck[d] : Committed(d, putsToAck[d][i])

\* A push that says what child k is, and what it says.
Tells(m, k) == m.type = "data" \/ (m.type = "set" /\ m.key = k)
Told(m, k)  == IF m.type = "data" THEN m.snapshot[k] ELSE m.value

\* When the pushes of s have been taken over the cache c, goal is cached.
CatchesUp(c, s, goal) ==
    \A k \in Key :
        \/ c[k] = goal[k] /\ \A i \in DOMAIN s : ~Tells(s[i], k)
        \/ \E i \in DOMAIN s : /\ Tells(s[i], k) /\ Told(s[i], k) = goal[k]
                               /\ \A j \in DOMAIN s : i < j => ~Tells(s[j], k)

\* The server has told a listening device all that has happened to its store.
CachesCatchUp ==
    \A d \in Device : session[d] = "listening" => CatchesUp(cache[d], down[d], store)

\* Messages have the types that say what their ids are.
LEMMA MsgTypes ==
    ASSUME DBTypeInv, NEW d \in Device
    PROVE  /\ up[d] \in Seq(Request) /\ down[d] \in Seq(Push)
           /\ \A m \in Request : m.type = "put" => /\ MsgId(m) = m.write.id /\ MsgId(m) \in Nat
                                                   /\ m.write \in Write
           /\ \A m \in Push : m.type = "answer" => /\ MsgId(m) = m.answer.id /\ MsgId(m) \in Nat
                                                   /\ m.answer \in Answer
           /\ PutsUp(d) \subseteq Request /\ \A m \in PutsUp(d) : m.type = "put"
           /\ AnswersDue(d) \subseteq Push /\ \A m \in AnswersDue(d) : m.type = "answer"
<1>1. up[d] \in Seq(Request) /\ down[d] \in Seq(Push)
  BY DEF DBTypeInv, DBTypeOK
<1>2. \A m \in Request : m.type = "put" => /\ MsgId(m) = m.write.id /\ MsgId(m) \in Nat
                                           /\ m.write \in Write
  BY DEF Request, MsgId, Write
<1>3. \A m \in Push : m.type = "answer" => /\ MsgId(m) = m.answer.id /\ MsgId(m) \in Nat
                                           /\ m.answer \in Answer
  BY DEF Push, MsgId, Answer
<1>4. PutsUp(d) \subseteq Request /\ \A m \in PutsUp(d) : m.type = "put"
  BY <1>1 DEF PutsUp, Msgs, OfType
<1>5. AnswersDue(d) \subseteq Push /\ \A m \in AnswersDue(d) : m.type = "answer"
  BY <1>1 DEF AnswersDue, Msgs, OfType
<1> QED  BY <1>1, <1>2, <1>3, <1>4, <1>5

\* The server takes a request: a put was the oldest of its connection.
LEMMA RequestLeaves ==
    ASSUME DBTypeInv, NEW d \in Device, SentAgree(d), NEW type, NextRequest(d, type)
    PROVE  /\ InOrder(up'[d], "put")
           /\ PutsUp(d)' \subseteq PutsUp(d)
           /\ \A m \in PutsUp(d) : m \in PutsUp(d)' \/ m = Head(up[d])
           /\ type = "put" => /\ Head(up[d]) \in PutsUp(d)
                              /\ \A m \in PutsUp(d)' : Head(up[d]).write.id < m.write.id
           /\ type # "put" => PutsUp(d)' = PutsUp(d)
<1>1. /\ up[d] \in Seq(Request) /\ up[d] # <<>> /\ up'[d] = Tail(up[d])
      /\ Head(up[d]).type = type /\ InOrder(up[d], "put")
  BY DEF NextRequest, DBTypeInv, DBTypeOK, SentAgree
<1>2. \A m \in Request : m.type = "put" => MsgId(m) = m.write.id /\ MsgId(m) \in Nat
  BY MsgTypes
<1>3. /\ InOrder(Tail(up[d]), "put")
      /\ Msgs(Tail(up[d]), "put") \subseteq Msgs(up[d], "put")
      /\ \A m \in Msgs(up[d], "put") : m \in Msgs(Tail(up[d]), "put") \/ m = Head(up[d])
      /\ type = "put" =>
           /\ Head(up[d]) \in Msgs(up[d], "put")
           /\ \A m \in Msgs(Tail(up[d]), "put") : MsgId(Head(up[d])) < MsgId(m)
      /\ type # "put" => Msgs(Tail(up[d]), "put") = Msgs(up[d], "put")
  BY <1>1, <1>2, MsgsTail
<1>4. \A m \in PutsUp(d) : MsgId(m) = m.write.id
  BY MsgTypes
<1> QED  BY <1>1, <1>3, <1>4 DEF PutsUp

\* The library takes a push: an answer was the oldest of its connection.
LEMMA PushLeaves ==
    ASSUME DBTypeInv, NEW d \in Device, SentAgree(d), NEW type, NextPush(d, type)
    PROVE  /\ InOrder(down'[d], "answer")
           /\ AnswersDue(d)' \subseteq AnswersDue(d)
           /\ \A m \in AnswersDue(d) : m \in AnswersDue(d)' \/ m = Head(down[d])
           /\ type = "answer" => /\ Head(down[d]) \in AnswersDue(d)
                                 /\ \A m \in AnswersDue(d)' : Head(down[d]).answer.id < m.answer.id
           /\ type # "answer" => AnswersDue(d)' = AnswersDue(d)
<1>1. /\ down[d] \in Seq(Push) /\ down[d] # <<>> /\ down'[d] = Tail(down[d])
      /\ Head(down[d]).type = type /\ InOrder(down[d], "answer")
  BY DEF NextPush, DBTypeInv, DBTypeOK, SentAgree
<1>2. \A m \in Push : m.type = "answer" => MsgId(m) = m.answer.id /\ MsgId(m) \in Nat
  BY MsgTypes
<1>3. /\ InOrder(Tail(down[d]), "answer")
      /\ Msgs(Tail(down[d]), "answer") \subseteq Msgs(down[d], "answer")
      /\ \A m \in Msgs(down[d], "answer") : m \in Msgs(Tail(down[d]), "answer") \/ m = Head(down[d])
      /\ type = "answer" =>
           /\ Head(down[d]) \in Msgs(down[d], "answer")
           /\ \A m \in Msgs(Tail(down[d]), "answer") : MsgId(Head(down[d])) < MsgId(m)
      /\ type # "answer" => Msgs(Tail(down[d]), "answer") = Msgs(down[d], "answer")
  BY <1>1, <1>2, MsgsTail
<1>4. \A m \in AnswersDue(d) : MsgId(m) = m.answer.id
  BY MsgTypes
<1> QED  BY <1>1, <1>3, <1>4 DEF AnswersDue

\* A device on which a step changes nothing that its writes depend on.
LEMMA PutsFrame ==
    ASSUME NEW e \in Device, HeldAgree(e), SentAgree(e),
           up'[e] = up[e], down'[e] = down[e], connected'[e] = connected[e],
           writes'[e] = writes[e], outstandingPuts'[e] = outstandingPuts[e],
           putsToAck'[e] = putsToAck[e]
    PROVE  HeldAgree(e)' /\ SentAgree(e)'
<1>1. PutsUp(e)' = PutsUp(e) /\ AnswersDue(e)' = AnswersDue(e)
  BY DEF PutsUp, AnswersDue
<1>2. HeldAgree(e)'
  BY DEF HeldAgree
<1> QED  BY <1>1, <1>2 DEF SentAgree

\* A step of one device need only be looked at on that device.
LEMMA PutsLocal ==
    ASSUME PutsAgree, NEW d \in Device, HeldAgree(d)', SentAgree(d)',
           \A e \in Device : e # d =>
              /\ up'[e] = up[e] /\ down'[e] = down[e] /\ connected'[e] = connected[e]
              /\ writes'[e] = writes[e] /\ outstandingPuts'[e] = outstandingPuts[e]
              /\ putsToAck'[e] = putsToAck[e]
    PROVE  PutsAgree'
<1> SUFFICES ASSUME NEW e \in Device, e # d  PROVE HeldAgree(e)' /\ SentAgree(e)'
  BY DEF PutsAgree
<1> QED  BY PutsFrame DEF PutsAgree

\* A connection that is gone carries nothing.
LEMMA NothingSent ==
    ASSUME NEW d \in Device, up'[d] = <<>>, down'[d] = <<>>, ~connected'[d]
    PROVE  SentAgree(d)' /\ PutsUp(d)' = {} /\ AnswersDue(d)' = {}
BY DEF SentAgree, PutsUp, AnswersDue, Msgs, OfType, InOrder

-----------------------------------------------------------------------------
(* The writes, action by action.                                           *)

LEMMA ObservePuts ==
    ASSUME DBTypeInv, PutsAgree, NEW d \in Device, NEW r \in Observer,
           ObserveParent(d, r) \/ ObserveChildren(d, r)
    PROVE  PutsAgree' /\ PutsUp(d)' = PutsUp(d)
<1>1. /\ down' = down /\ connected' = connected
      /\ writes' = writes /\ outstandingPuts' = outstandingPuts /\ putsToAck' = putsToAck
      /\ \/ up' = up
         \/ up' = [up EXCEPT ![d] = Append(@, Listen)]
  BY DEF ObserveParent, ObserveChildren, Observe, putVars, DBTypeInv, DBTypeOK
<1>2. InOrder(up'[d], "put") /\ PutsUp(d)' = PutsUp(d)
  <2>1. CASE up' = up
    BY <2>1 DEF PutsUp, PutsAgree, SentAgree
  <2>2. CASE up' = [up EXCEPT ![d] = Append(@, Listen)]
    <3>1. up'[d] = Append(up[d], Listen) /\ up[d] \in Seq(Request) /\ InOrder(up[d], "put")
      BY <2>2 DEF DBTypeInv, DBTypeOK, PutsAgree, SentAgree
    <3>2. Listen \in Request /\ Listen.type # "put"
      BY DEF Listen, Request
    <3>3. \A s \in Seq(Request), m \in Request : InOrder(s, "put") /\ m.type # "put" =>
             InOrder(Append(s, m), "put") /\ Msgs(Append(s, m), "put") = Msgs(s, "put")
      BY MsgsAppend
    <3>4. InOrder(Append(up[d], Listen), "put") /\ Msgs(Append(up[d], Listen), "put") = Msgs(up[d], "put")
      BY <3>1, <3>2, <3>3
    <3> QED  BY <3>1, <3>4 DEF PutsUp
  <2> QED  BY <1>1, <2>1, <2>2
<1>3. AnswersDue(d)' = AnswersDue(d)
  BY <1>1 DEF AnswersDue
<1>4. HeldAgree(d)' /\ SentAgree(d)'
  BY <1>1, <1>2, <1>3 DEF PutsAgree, HeldAgree, SentAgree
<1>5. \A e \in Device : e # d => up'[e] = up[e]
  BY <1>1 DEF DBTypeInv, DBTypeOK
<1> QED  BY <1>1, <1>2, <1>4, <1>5, PutsLocal

\* A new write has the highest id, so that its put goes last.
LEMMA SetValuePuts ==
    ASSUME DBTypeInv, ListensCounted, PutsAgree,
           NEW d \in Device, NEW k \in Key, NEW v \in Value, SetValue(d, k, v)
    PROVE  PutsAgree'
<1> DEFINE w == [id |-> nextWriteId[d], key |-> k, value |-> v]
<1>1. w \in Write /\ w.id = nextWriteId[d] /\ nextWriteId[d] \in Nat
  BY DEF DBTypeInv, DBTypeOK, Write
<1>2. \A x \in writes[d] : x \in Write /\ x.id \in Nat /\ x.id < w.id
  BY <1>1 DEF DBTypeInv, DBTypeOK, WritesBounded, Write
<1>3. /\ writes'[d] = writes[d] \cup {w} /\ outstandingPuts'[d] = outstandingPuts[d] \cup {w}
      /\ putsToAck'[d] = putsToAck[d] /\ down'[d] = down[d] /\ connected'[d] = connected[d]
      /\ up'[d] = IF connected[d] THEN Append(up[d], Put(w)) ELSE up[d]
  BY DEF SetValue, DBTypeInv, DBTypeOK
<1>4. HeldAgree(d) /\ SentAgree(d)
  BY DEF PutsAgree
<1> HIDE DEF w
<1>5. HeldAgree(d)'
  <2>1. w \notin writes[d]
    BY <1>1, <1>2
  <2>2. \A i \in DOMAIN putsToAck[d] : putsToAck[d][i].id < w.id
    BY <1>2, <1>4 DEF HeldAgree
  <2> QED  BY <1>2, <1>3, <1>4, <2>1, <2>2 DEF HeldAgree
<1>6. \A m \in AnswersDue(d) : m.answer.id < w.id
  BY <1>2, <1>4 DEF SentAgree, HeldAgree
<1>7. \A m \in PutsUp(d) : m.write.id < w.id
  BY <1>2, <1>4 DEF SentAgree, HeldAgree
<1>8. SentAgree(d)'
  <2>1. AnswersDue(d)' = AnswersDue(d)
    BY <1>3 DEF AnswersDue
  <2>2. CASE connected[d]
    <3>1. Put(w) \in Request /\ Put(w).type = "put" /\ Put(w).write = w /\ MsgId(Put(w)) = w.id
      BY <1>1 DEF Put, Request, MsgId
    <3>2. \A n \in Msgs(up[d], "put") : MsgId(n) < MsgId(Put(w))
      BY <1>7, <3>1, MsgTypes DEF PutsUp
    <3>3. up[d] \in Seq(Request) /\ InOrder(up[d], "put")
      BY <1>4 DEF DBTypeInv, DBTypeOK, SentAgree
    <3>4. InOrder(Append(up[d], Put(w)), "put")
          /\ Msgs(Append(up[d], Put(w)), "put") = Msgs(up[d], "put") \cup {Put(w)}
      <4>1. \A s \in Seq(Request), m \in Request :
               InOrder(s, "put") /\ m.type = "put" /\ (\A n \in Msgs(s, "put") : MsgId(n) < MsgId(m))
               => /\ InOrder(Append(s, m), "put")
                  /\ Msgs(Append(s, m), "put") = Msgs(s, "put") \cup {m}
        BY MsgsAppend
      <4> QED  BY <3>1, <3>2, <3>3, <4>1
    <3>5. InOrder(up'[d], "put") /\ PutsUp(d)' = PutsUp(d) \cup {Put(w)}
      BY <1>3, <2>2, <3>4 DEF PutsUp
    <3> QED  BY <1>3, <1>4, <1>6, <2>1, <3>1, <3>5 DEF SentAgree
  <2>3. CASE ~connected[d]
    <3>1. up'[d] = <<>> /\ down'[d] = <<>>
      BY <1>3, <2>3 DEF ListensCounted, ListensAgree
    <3> QED  BY <1>3, <2>3, <3>1, NothingSent
  <2> QED  BY <2>2, <2>3
<1> QED  BY <1>5, <1>8, PutsLocal DEF SetValue, DBTypeInv, DBTypeOK

\* restoreState sends every outstanding put, the oldest first.
LEMMA ConnectPuts ==
    ASSUME DBTypeInv, ListensCounted, PutsAgree, NEW d \in Device, Connect(d)
    PROVE  PutsAgree'
<1>1. PICK s \in InIndexOrder(outstandingPuts[d]) :
        up' = [up EXCEPT ![d] = ListensToRestore(d) \o [i \in DOMAIN s |-> Put(s[i])]]
  BY DEF Connect
<1> DEFINE L    == ListensToRestore(d)
           puts == [i \in DOMAIN s |-> Put(s[i])]
<1>2. /\ s \in Seq(Write) /\ DOMAIN s = 1 .. Len(s)
      /\ \A i \in DOMAIN s : s[i] \in outstandingPuts[d]
      /\ \A w \in outstandingPuts[d] : \E i \in DOMAIN s : s[i] = w
      /\ \A i, j \in DOMAIN s : i < j => s[i].id < s[j].id
  <2>1. s \in Seq(Write) /\ DOMAIN s = 1 .. Len(s)
    BY InIndexOrderType DEF DBTypeInv, DBTypeOK, WritesBounded
  <2> QED  BY <2>1 DEF InIndexOrder, Bijection, Injection, Surjection
<1>3. /\ L \in Seq(Request) /\ puts \in Seq(Request) /\ DOMAIN puts = DOMAIN s
      /\ \A i \in DOMAIN L : L[i].type # "put"
      /\ \A i \in DOMAIN s : /\ puts[i].type = "put" /\ puts[i].write = s[i]
                             /\ MsgId(puts[i]) = s[i].id
  <2>1. puts \in Seq(Request) /\ DOMAIN puts = DOMAIN s
    BY <1>2 DEF Put, Request
  <2>2. \A i \in DOMAIN L : L[i].type # "put"
    BY DEF ListensToRestore, Listen
  <2>3. \A i \in DOMAIN s : /\ puts[i].type = "put" /\ puts[i].write = s[i]
                            /\ MsgId(puts[i]) = s[i].id
    BY DEF Put, MsgId
  <2> QED  BY <2>1, <2>2, <2>3, ListensToRestoreType
<1>4. up'[d] = L \o puts
  BY <1>1 DEF DBTypeInv, DBTypeOK
<1> HIDE DEF L, puts
<1>5. /\ Len(L) \in Nat /\ Len(s) \in Nat /\ DOMAIN L = 1 .. Len(L) /\ Len(puts) = Len(s)
      /\ DOMAIN (L \o puts) = 1 .. Len(L) + Len(s)
      /\ \A i \in 1 .. Len(L) + Len(s) :
            (L \o puts)[i] = IF i <= Len(L) THEN L[i] ELSE puts[i - Len(L)]
  <2>1. Len(L) \in Nat /\ Len(s) \in Nat /\ DOMAIN L = 1 .. Len(L)
    BY <1>2, <1>3
  <2>2. Len(puts) \in Nat /\ DOMAIN puts = 1 .. Len(puts) /\ DOMAIN puts = 1 .. Len(s)
    BY <1>2, <1>3
  <2>3. Len(puts) = Len(s)
    BY <2>1, <2>2
  <2> QED  BY <1>3, <2>1, <2>3
<1>6. \A i \in OfType(L \o puts, "put") :
         /\ i \in Nat /\ i - Len(L) \in DOMAIN s
         /\ (L \o puts)[i] = puts[i - Len(L)]
  BY <1>2, <1>3, <1>5 DEF OfType
<1>7. \A j \in DOMAIN s : /\ j + Len(L) \in OfType(L \o puts, "put")
                          /\ (L \o puts)[j + Len(L)] = puts[j]
  BY <1>2, <1>3, <1>5 DEF OfType
<1>8. InOrder(up'[d], "put")
  <2> SUFFICES ASSUME NEW i \in OfType(L \o puts, "put"), NEW j \in OfType(L \o puts, "put"), i < j
               PROVE  MsgId((L \o puts)[i]) < MsgId((L \o puts)[j])
    BY <1>4 DEF InOrder
  <2>1. i - Len(L) < j - Len(L) /\ i - Len(L) \in DOMAIN s /\ j - Len(L) \in DOMAIN s
    BY <1>5, <1>6
  <2>2. s[i - Len(L)].id < s[j - Len(L)].id
    BY <1>2, <2>1
  <2>3. /\ MsgId((L \o puts)[i]) = s[i - Len(L)].id
        /\ MsgId((L \o puts)[j]) = s[j - Len(L)].id
    BY <1>3, <1>6, <2>1
  <2> QED  BY <2>2, <2>3
<1>9. \A m \in PutsUp(d)' : m.write \in outstandingPuts[d]
  <2> SUFFICES ASSUME NEW i \in OfType(L \o puts, "put")
               PROVE  (L \o puts)[i].write \in outstandingPuts[d]
    BY <1>4 DEF PutsUp, Msgs
  <2> QED  BY <1>2, <1>3, <1>6
<1>10. ASSUME NEW w \in outstandingPuts[d]  PROVE \E m \in PutsUp(d)' : m.write = w
  <2>1. PICK j \in DOMAIN s : s[j] = w
    BY <1>2
  <2>2. puts[j] \in PutsUp(d)'
    BY <1>4, <1>7 DEF PutsUp, Msgs
  <2> QED  BY <1>3, <2>1, <2>2
<1>11. down'[d] = <<>> /\ AnswersDue(d)' = {}
  BY DEF Connect, ListensCounted, ListensAgree, AnswersDue, Msgs, OfType
<1>12. outstandingPuts' = outstandingPuts /\ writes' = writes /\ putsToAck' = putsToAck
  BY DEF Connect, putVars
<1>13. SentAgree(d)'
  BY <1>8, <1>9, <1>10, <1>11, <1>12 DEF SentAgree, InOrder, OfType
<1>14. HeldAgree(d)'
  BY <1>12 DEF PutsAgree, HeldAgree
<1> QED  BY <1>1, <1>12, <1>13, <1>14, PutsLocal DEF Connect, DBTypeInv, DBTypeOK

LEMMA DisconnectPuts ==
    ASSUME DBTypeInv, PutsAgree, NEW d \in Device, Disconnect(d)
    PROVE  PutsAgree'
<1>1. SentAgree(d)'
  BY NothingSent DEF Disconnect, LoseConnection, DBTypeInv, DBTypeOK
<1>2. HeldAgree(d)'
  BY DEF Disconnect, putVars, PutsAgree, HeldAgree
<1> QED  BY <1>1, <1>2, PutsLocal DEF Disconnect, LoseConnection, putVars, DBTypeInv, DBTypeOK

LEMMA KillPuts ==
    ASSUME DBTypeInv, PutsAgree, NEW d \in Device, Kill(d)
    PROVE  PutsAgree'
<1>1. SentAgree(d)'
  BY NothingSent DEF Kill, LoseConnection, DBTypeInv, DBTypeOK
<1>2. HeldAgree(d)'
  BY DEF Kill, HeldAgree, DBTypeInv, DBTypeOK
<1> QED  BY <1>1, <1>2, PutsLocal DEF Kill, LoseConnection, DBTypeInv, DBTypeOK

LEMMA ReceiveOtherPuts ==
    ASSUME DBTypeInv, PutsAgree, NEW d \in Device,
           ReceiveData(d) \/ ReceiveSet(d) \/ ReceiveListenOk(d)
    PROVE  PutsAgree' /\ AnswersDue(d)' = AnswersDue(d)
<1>1. /\ up' = up /\ connected' = connected
      /\ writes' = writes /\ outstandingPuts' = outstandingPuts /\ putsToAck' = putsToAck
  BY DEF ReceiveData, ReceiveSet, ReceiveListenOk, putVars
<1>2. /\ InOrder(down'[d], "answer") /\ AnswersDue(d)' = AnswersDue(d)
      /\ \A e \in Device : e # d => down'[e] = down[e]
  <2>1. PICK type : type # "answer" /\ NextPush(d, type)
    BY DEF ReceiveData, ReceiveSet, ReceiveListenOk
  <2> QED  BY <2>1, PushLeaves DEF PutsAgree, NextPush, DBTypeInv, DBTypeOK
<1>3. PutsUp(d)' = PutsUp(d)
  BY <1>1 DEF PutsUp
<1>4. HeldAgree(d)' /\ SentAgree(d)'
  BY <1>1, <1>2, <1>3 DEF PutsAgree, HeldAgree, SentAgree
<1> QED  BY <1>1, <1>2, <1>4, PutsLocal

\* Nothing is held back when the answer of a put is acknowledged at once.
LEMMA NothingHeld ==
    ASSUME ListensCounted, NEW d \in Device, down[d] # <<>>, ~Acking(d), unackedListens[d] = 0
    PROVE  putsToAck[d] = <<>>
BY DEF ListensCounted, ListensAgree, Acking

\* An answer is that of the oldest outstanding put.
LEMMA AnswerIsOldest ==
    ASSUME DBTypeInv, ListensCounted, PutsAgree, NEW d \in Device, NextPush(d, "answer")
    PROVE  \E w \in outstandingPuts[d] :
              /\ w.id = Head(down[d]).answer.id
              /\ Outstanding(d, Head(down[d]).answer) = outstandingPuts[d] \ {w}
              /\ \A v \in outstandingPuts[d] \ {w} : w.id < v.id
<1> DEFINE a == Head(down[d]).answer
<1>1. /\ Head(down[d]) \in AnswersDue(d)
      /\ \A m \in AnswersDue(d) : m \in AnswersDue(d)' \/ m = Head(down[d])
      /\ \A m \in AnswersDue(d)' : a.id < m.answer.id
  BY PushLeaves DEF PutsAgree
<1>2. PICK w \in outstandingPuts[d] : w.id = a.id
  BY <1>1 DEF PutsAgree, SentAgree
<1>3. \A v, x \in outstandingPuts[d] : v.id = x.id => v = x
  BY DEF PutsAgree, HeldAgree
<1>4. connected[d]
  BY DEF NextPush, ListensCounted, ListensAgree
<1>5. ASSUME NEW v \in outstandingPuts[d] \ {w}  PROVE w.id < v.id
  <2>1. v.id # w.id
    BY <1>3
  <2>2. CASE \E n \in PutsUp(d) : n.write = v
    BY <1>1, <1>2, <2>2 DEF PutsAgree, SentAgree
  <2>3. CASE \E m \in AnswersDue(d) : m.answer.id = v.id
    BY <1>1, <1>2, <2>1, <2>3
  <2> QED  BY <1>4, <2>2, <2>3 DEF PutsAgree, SentAgree
<1>6. Outstanding(d, a) = outstandingPuts[d] \ {w}
  BY <1>2, <1>3 DEF Outstanding
<1> QED  BY <1>2, <1>5, <1>6

LEMMA ReceiveAnswerPuts ==
    ASSUME DBTypeInv, ListensCounted, PutsAgree, NEW d \in Device, ReceiveAnswer(d)
    PROVE  PutsAgree'
<1> DEFINE answer == Head(down[d]).answer
<1>1. NextPush(d, "answer") /\ ~Acking(d) /\ down[d] # <<>>
  BY DEF ReceiveAnswer, NextPush
<1>2. PICK w \in outstandingPuts[d] :
        /\ w.id = answer.id /\ Outstanding(d, answer) = outstandingPuts[d] \ {w}
        /\ \A v \in outstandingPuts[d] \ {w} : w.id < v.id
  BY <1>1, AnswerIsOldest
<1>3. /\ InOrder(down'[d], "answer")
      /\ AnswersDue(d)' \subseteq AnswersDue(d)
      /\ \A m \in AnswersDue(d) : m \in AnswersDue(d)' \/ m = Head(down[d])
      /\ Head(down[d]) \in AnswersDue(d)
      /\ \A m \in AnswersDue(d)' : answer.id < m.answer.id
  BY <1>1, PushLeaves DEF PutsAgree
<1>4. /\ up' = up /\ connected' = connected /\ PutsUp(d)' = PutsUp(d)
      /\ outstandingPuts'[d] = outstandingPuts[d] \ {w}
  BY <1>2 DEF ReceiveAnswer, DBTypeInv, DBTypeOK, PutsUp
<1>5. HeldAgree(d) /\ SentAgree(d)
  BY DEF PutsAgree
<1>6. answer \in Answer /\ putsToAck[d] \in Seq(Answer)
  BY <1>1, NextPushType DEF Push, DBTypeInv, DBTypeOK
<1>7. \A v \in writes[d] : v \in Write /\ v.id \in Nat
  BY DEF DBTypeInv, DBTypeOK, Write
<1>8. SentAgree(d)'
  <2>1. \A m \in AnswersDue(d)' : \E v \in outstandingPuts'[d] : v.id = m.answer.id
    <3> SUFFICES ASSUME NEW m \in AnswersDue(d)'
                 PROVE  \E v \in outstandingPuts'[d] : v.id = m.answer.id
      OBVIOUS
    <3>1. PICK v \in outstandingPuts[d] : v.id = m.answer.id
      BY <1>3, <1>5 DEF SentAgree
    <3>2. v # w
      BY <1>2, <1>3, <1>5, <1>7, <3>1 DEF HeldAgree
    <3> QED  BY <1>4, <3>1, <3>2
  <2>2. \A m \in PutsUp(d)' : m.write \in outstandingPuts'[d]
    <3> SUFFICES ASSUME NEW m \in PutsUp(d)  PROVE m.write # w
      BY <1>4, <1>5 DEF SentAgree
    <3>1. answer.id < m.write.id
      BY <1>3, <1>5 DEF SentAgree
    <3> QED  BY <1>2, <1>5, <1>7, <3>1 DEF HeldAgree
  <2>3. ASSUME connected'[d], NEW v \in outstandingPuts'[d]
        PROVE  (\E n \in PutsUp(d)' : n.write = v) \/ (\E m \in AnswersDue(d)' : m.answer.id = v.id)
    <3>1. v \in outstandingPuts[d] /\ w.id < v.id
      BY <1>2, <1>4, <2>3
    <3>2. v.id # answer.id
      BY <1>2, <1>5, <1>7, <3>1 DEF HeldAgree
    <3> QED  BY <1>3, <1>4, <1>5, <2>3, <3>1, <3>2 DEF SentAgree
  <2> QED  BY <1>3, <1>4, <1>5, <2>1, <2>2, <2>3 DEF SentAgree
<1>9. HeldAgree(d)'
  <2>1. CASE putsToAck' = [putsToAck EXCEPT ![d] = Append(@, answer)] /\ writes' = writes
    <3>1. /\ putsToAck'[d] = Append(putsToAck[d], answer) /\ writes'[d] = writes[d]
      BY <2>1 DEF DBTypeInv, DBTypeOK
    <3> HIDE DEF answer
    <3>2. /\ Len(putsToAck[d]) \in Nat
          /\ DOMAIN putsToAck[d] = 1 .. Len(putsToAck[d])
          /\ DOMAIN putsToAck'[d] = 1 .. Len(putsToAck[d]) + 1
          /\ \A i \in DOMAIN putsToAck[d] : putsToAck'[d][i] = putsToAck[d][i]
          /\ putsToAck'[d][Len(putsToAck[d]) + 1] = answer
      BY <1>6, <3>1
    <3>3. \A i \in DOMAIN putsToAck'[d] :
             \E x \in writes'[d] \ outstandingPuts'[d] : x.id = putsToAck'[d][i].id
      <4> SUFFICES ASSUME NEW i \in DOMAIN putsToAck'[d]
                   PROVE  \E x \in writes'[d] \ outstandingPuts'[d] : x.id = putsToAck'[d][i].id
        OBVIOUS
      <4>1. CASE i \in DOMAIN putsToAck[d]
        BY <1>4, <1>5, <3>1, <3>2, <4>1 DEF HeldAgree
      <4>2. CASE i = Len(putsToAck[d]) + 1
        BY <1>2, <1>4, <1>5, <3>1, <3>2, <4>2 DEF HeldAgree
      <4> QED  BY <3>2, <4>1, <4>2
    <3>4. \A x \in writes'[d] \ outstandingPuts'[d] :
             \E i \in DOMAIN putsToAck'[d] : x.id = putsToAck'[d][i].id
      <4> SUFFICES ASSUME NEW x \in writes'[d] \ outstandingPuts'[d]
                   PROVE  \E i \in DOMAIN putsToAck'[d] : x.id = putsToAck'[d][i].id
        OBVIOUS
      <4>1. CASE x = w
        BY <1>2, <3>2, <4>1
      <4>2. CASE x # w
        <5>1. PICK i \in DOMAIN putsToAck[d] : x.id = putsToAck[d][i].id
          BY <1>4, <1>5, <3>1, <4>2 DEF HeldAgree
        <5> QED  BY <3>2, <5>1
      <4> QED  BY <4>1, <4>2
    <3>5. \A i, j \in DOMAIN putsToAck'[d] : i < j => putsToAck'[d][i].id < putsToAck'[d][j].id
      <4> SUFFICES ASSUME NEW i \in DOMAIN putsToAck'[d], NEW j \in DOMAIN putsToAck'[d], i < j
                   PROVE  putsToAck'[d][i].id < putsToAck'[d][j].id
        OBVIOUS
      <4>1. i \in DOMAIN putsToAck[d]
        BY <3>2
      <4>2. CASE j \in DOMAIN putsToAck[d]
        <5>1. putsToAck[d][i].id < putsToAck[d][j].id
          BY <1>5, <4>1, <4>2 DEF HeldAgree
        <5> QED  BY <3>2, <4>1, <4>2, <5>1
      <4>3. CASE j = Len(putsToAck[d]) + 1
        <5>1. putsToAck[d][i].id < w.id
          BY <1>5, <4>1 DEF HeldAgree
        <5> QED  BY <1>2, <3>2, <4>1, <4>3, <5>1
      <4> QED  BY <3>2, <4>2, <4>3
    <3>6. \A i \in DOMAIN putsToAck'[d], x \in outstandingPuts'[d] : putsToAck'[d][i].id < x.id
      BY <1>2, <1>4, <1>5, <3>2 DEF HeldAgree
    <3> QED  BY <1>4, <1>5, <3>1, <3>3, <3>4, <3>5, <3>6 DEF HeldAgree
  <2>2. CASE ~HeldBack(d) /\ AckWrite(d, answer) /\ UNCHANGED putsToAck
    <3>1. unackedListens[d] = 0
      BY <2>2 DEF HeldBack
    <3>2. putsToAck[d] = <<>> /\ putsToAck'[d] = <<>>
      BY <1>1, <2>2, <3>1, NothingHeld
    <3>3. writes'[d] = {v \in writes[d] : v.id # answer.id}
      BY <2>2 DEF AckWrite, DBTypeInv, DBTypeOK
    <3>4. writes[d] = outstandingPuts[d]
      <4>1. DOMAIN putsToAck[d] = {}
        BY <3>2
      <4> QED  BY <1>5, <4>1 DEF HeldAgree
    <3>5. writes'[d] = outstandingPuts'[d]
      BY <1>2, <1>4, <1>5, <3>3, <3>4 DEF HeldAgree
    <3> QED  BY <1>5, <3>2, <3>3, <3>5 DEF HeldAgree
  <2> QED  BY <2>1, <2>2 DEF ReceiveAnswer
<1>10. \A e \in Device : e # d =>
          /\ down'[e] = down[e] /\ writes'[e] = writes[e]
          /\ outstandingPuts'[e] = outstandingPuts[e] /\ putsToAck'[e] = putsToAck[e]
  BY DEF ReceiveAnswer, NextPush, AckWrite, DBTypeInv, DBTypeOK
<1> QED  BY <1>4, <1>8, <1>9, <1>10, PutsLocal

\* ackPuts settles the oldest write there is.
LEMMA AckIsOldest ==
    ASSUME DBTypeInv, PutsAgree, NEW d \in Device, putsToAck[d] # <<>>
    PROVE  \E w \in writes[d] \ outstandingPuts[d] :
              /\ w.id = Head(putsToAck[d]).id
              /\ {v \in writes[d] : v.id # Head(putsToAck[d]).id} = writes[d] \ {w}
              /\ \A v \in writes[d] \ {w} : w.id < v.id
<1>1. /\ putsToAck[d] \in Seq(Answer) /\ Len(putsToAck[d]) \in Nat
      /\ DOMAIN putsToAck[d] = 1 .. Len(putsToAck[d])
      /\ 1 \in DOMAIN putsToAck[d] /\ Head(putsToAck[d]) = putsToAck[d][1]
  BY DEF DBTypeInv, DBTypeOK
<1>2. HeldAgree(d)
  BY DEF PutsAgree
<1>3. PICK w \in writes[d] \ outstandingPuts[d] : w.id = putsToAck[d][1].id
  BY <1>1, <1>2 DEF HeldAgree
<1>4. {v \in writes[d] : v.id # w.id} = writes[d] \ {w}
  BY <1>2 DEF HeldAgree
<1>5. ASSUME NEW v \in writes[d] \ {w}  PROVE w.id < v.id
  <2>1. CASE v \in outstandingPuts[d]
    BY <1>1, <1>2, <1>3, <2>1 DEF HeldAgree
  <2>2. CASE v \notin outstandingPuts[d]
    <3>1. PICK i \in DOMAIN putsToAck[d] : v.id = putsToAck[d][i].id
      BY <1>2, <2>2 DEF HeldAgree
    <3>2. i # 1
      BY <1>2, <1>3, <3>1 DEF HeldAgree
    <3> QED  BY <1>1, <1>2, <1>3, <3>1, <3>2 DEF HeldAgree
  <2> QED  BY <2>1, <2>2
<1> QED  BY <1>1, <1>3, <1>4, <1>5

LEMMA AckPutsPuts ==
    ASSUME DBTypeInv, PutsAgree, NEW d \in Device, AckPuts(d)
    PROVE  PutsAgree'
<1>1. PICK w \in writes[d] \ outstandingPuts[d] :
              /\ w.id = Head(putsToAck[d]).id
              /\ {v \in writes[d] : v.id # Head(putsToAck[d]).id} = writes[d] \ {w}
              /\ \A v \in writes[d] \ {w} : w.id < v.id
  BY AckIsOldest DEF AckPuts, Acking
<1>2. /\ writes'[d] = writes[d] \ {w} /\ outstandingPuts' = outstandingPuts
      /\ putsToAck'[d] = Tail(putsToAck[d])
      /\ up' = up /\ down' = down /\ connected' = connected
  BY <1>1 DEF AckPuts, AckWrite, DBTypeInv, DBTypeOK, linkVars
<1>3. /\ putsToAck[d] \in Seq(Answer) /\ Len(putsToAck[d]) \in Nat /\ Len(putsToAck[d]) > 0
      /\ DOMAIN putsToAck[d] = 1 .. Len(putsToAck[d])
      /\ DOMAIN putsToAck'[d] = 1 .. Len(putsToAck[d]) - 1
      /\ Head(putsToAck[d]) = putsToAck[d][1]
      /\ \A i \in DOMAIN putsToAck'[d] : putsToAck'[d][i] = putsToAck[d][i + 1]
  <2>1. putsToAck[d] \in Seq(Answer) /\ putsToAck[d] # <<>>
    BY DEF DBTypeInv, DBTypeOK, AckPuts, Acking
  <2> QED  BY <1>2, <2>1
<1>4. HeldAgree(d) /\ SentAgree(d)
  BY DEF PutsAgree
<1>5. HeldAgree(d)'
  <2>1. \A i \in DOMAIN putsToAck'[d] :
           \E x \in writes'[d] \ outstandingPuts'[d] : x.id = putsToAck'[d][i].id
    <3> SUFFICES ASSUME NEW i \in DOMAIN putsToAck'[d]
                 PROVE  \E x \in writes'[d] \ outstandingPuts'[d] : x.id = putsToAck'[d][i].id
      OBVIOUS
    <3>1. i + 1 \in DOMAIN putsToAck[d] /\ 1 \in DOMAIN putsToAck[d] /\ 1 < i + 1
      BY <1>3
    <3>2. PICK x \in writes[d] \ outstandingPuts[d] : x.id = putsToAck[d][i + 1].id
      BY <1>4, <3>1 DEF HeldAgree
    <3>3. putsToAck[d][1].id < putsToAck[d][i + 1].id
      BY <1>4, <3>1 DEF HeldAgree
    <3>4. putsToAck[d][1].id \in Nat
      <4>1. putsToAck[d][1] \in Answer
        BY <1>3, <3>1
      <4> QED  BY <4>1 DEF Answer
    <3>5. x # w
      BY <1>1, <1>3, <3>2, <3>3, <3>4
    <3> QED  BY <1>2, <1>3, <3>2, <3>5
  <2>2. \A x \in writes'[d] \ outstandingPuts'[d] :
           \E i \in DOMAIN putsToAck'[d] : x.id = putsToAck'[d][i].id
    <3> SUFFICES ASSUME NEW x \in writes'[d] \ outstandingPuts'[d]
                 PROVE  \E i \in DOMAIN putsToAck'[d] : x.id = putsToAck'[d][i].id
      OBVIOUS
    <3>1. PICK i \in DOMAIN putsToAck[d] : x.id = putsToAck[d][i].id
      BY <1>2, <1>4 DEF HeldAgree
    <3>2. i # 1
      BY <1>1, <1>2, <1>3, <1>4, <3>1 DEF HeldAgree
    <3>3. i - 1 \in DOMAIN putsToAck'[d] /\ putsToAck'[d][i - 1] = putsToAck[d][i]
      BY <1>3, <3>1, <3>2
    <3> QED  BY <3>1, <3>3
  <2>3. \A i, j \in DOMAIN putsToAck'[d] : i < j => putsToAck'[d][i].id < putsToAck'[d][j].id
    <3> SUFFICES ASSUME NEW i \in DOMAIN putsToAck'[d], NEW j \in DOMAIN putsToAck'[d], i < j
                 PROVE  putsToAck'[d][i].id < putsToAck'[d][j].id
      OBVIOUS
    <3>1. i + 1 \in DOMAIN putsToAck[d] /\ j + 1 \in DOMAIN putsToAck[d] /\ i + 1 < j + 1
      BY <1>3
    <3>2. putsToAck[d][i + 1].id < putsToAck[d][j + 1].id
      BY <1>4, <3>1 DEF HeldAgree
    <3> QED  BY <1>3, <3>2
  <2>4. \A i \in DOMAIN putsToAck'[d], x \in outstandingPuts'[d] : putsToAck'[d][i].id < x.id
    <3> SUFFICES ASSUME NEW i \in DOMAIN putsToAck'[d], NEW x \in outstandingPuts[d]
                 PROVE  putsToAck'[d][i].id < x.id
      BY <1>2
    <3>1. i + 1 \in DOMAIN putsToAck[d]
      BY <1>3
    <3> QED  BY <1>3, <1>4, <3>1 DEF HeldAgree
  <2> QED  BY <1>2, <1>4, <2>1, <2>2, <2>3, <2>4 DEF HeldAgree
<1>6. SentAgree(d)'
  BY <1>2, <1>4 DEF SentAgree, PutsUp, AnswersDue
<1>7. \A e \in Device : e # d => writes'[e] = writes[e] /\ putsToAck'[e] = putsToAck[e]
  BY DEF AckPuts, AckWrite, DBTypeInv, DBTypeOK
<1> QED  BY <1>2, <1>5, <1>6, <1>7, PutsLocal

LEMMA ServerListenPuts ==
    ASSUME DBTypeInv, PutsAgree, NEW d \in Device, ServerListen(d)
    PROVE  PutsAgree'
<1>1. /\ InOrder(up'[d], "put") /\ PutsUp(d)' = PutsUp(d)
  BY RequestLeaves DEF ServerListen, PutsAgree
<1>2. /\ down' = down /\ connected' = connected /\ AnswersDue(d)' = AnswersDue(d)
      /\ writes' = writes /\ outstandingPuts' = outstandingPuts /\ putsToAck' = putsToAck
  BY DEF ServerListen, putVars, AnswersDue
<1>3. HeldAgree(d)' /\ SentAgree(d)'
  BY <1>1, <1>2 DEF PutsAgree, HeldAgree, SentAgree
<1> QED  BY <1>2, <1>3, PutsLocal DEF ServerListen, NextRequest, DBTypeInv, DBTypeOK

\* A push that is no answer changes nothing for the writes.
LEMMA OtherPushSent ==
    ASSUME NEW s \in Seq(Push), NEW m \in Push, m.type # "answer", InOrder(s, "answer")
    PROVE  /\ Append(s, m) \in Seq(Push) /\ InOrder(Append(s, m), "answer")
           /\ Msgs(Append(s, m), "answer") = Msgs(s, "answer")
BY MsgsAppend

\* An answer goes last.
LEMMA AnswerSent ==
    ASSUME NEW s \in Seq(Push), NEW m \in Push, m.type = "answer", InOrder(s, "answer"),
           \A n \in Msgs(s, "answer") : MsgId(n) < MsgId(m)
    PROVE  /\ Append(s, m) \in Seq(Push) /\ InOrder(Append(s, m), "answer")
           /\ Msgs(Append(s, m), "answer") = Msgs(s, "answer") \cup {m}
BY MsgsAppend

LEMMA ServerLoadPuts ==
    ASSUME DBTypeInv, PutsAgree, NEW d \in Device, ServerLoad(d)
    PROVE  PutsAgree' /\ AnswersDue(d)' = AnswersDue(d)
<1> DEFINE data == [type |-> "data", snapshot |-> store]
           ok   == [type |-> "listenOk"]
<1>1. /\ down[d] \in Seq(Push) /\ data \in Push /\ ok \in Push /\ InOrder(down[d], "answer")
      /\ data.type # "answer" /\ ok.type # "answer"
  BY DEF DBTypeInv, DBTypeOK, Push, PutsAgree, SentAgree
<1>2. down' = [down EXCEPT ![d] = down[d] \o <<data, ok>>]
  BY DEF ServerLoad
<1> HIDE DEF data, ok
<1>3. down'[d] = Append(Append(down[d], data), ok)
  BY <1>1, <1>2 DEF DBTypeInv, DBTypeOK
<1>4. /\ Append(down[d], data) \in Seq(Push) /\ InOrder(Append(down[d], data), "answer")
      /\ Msgs(Append(down[d], data), "answer") = Msgs(down[d], "answer")
  BY <1>1, OtherPushSent
<1>5. InOrder(down'[d], "answer") /\ AnswersDue(d)' = AnswersDue(d)
  BY <1>1, <1>3, <1>4, OtherPushSent DEF AnswersDue
<1>6. /\ up' = up /\ connected' = connected /\ PutsUp(d)' = PutsUp(d)
      /\ writes' = writes /\ outstandingPuts' = outstandingPuts /\ putsToAck' = putsToAck
  BY DEF ServerLoad, putVars, PutsUp
<1>7. HeldAgree(d)' /\ SentAgree(d)'
  BY <1>5, <1>6 DEF PutsAgree, HeldAgree, SentAgree
<1> QED  BY <1>2, <1>5, <1>6, <1>7, PutsLocal DEF DBTypeInv, DBTypeOK

\* What a put and its refusal add to the connections.
LEMMA AnswerTyped ==
    ASSUME NEW w \in Write, NEW ok \in BOOLEAN
    PROVE  /\ AnswerTo(w, ok) \in Push /\ AnswerTo(w, ok).type = "answer"
           /\ AnswerTo(w, ok).answer.id = w.id /\ AnswerTo(w, ok).answer.ok = ok
           /\ MsgId(AnswerTo(w, ok)) = w.id
BY DEF AnswerTo, Push, Answer, Write, MsgId

SetOf(w) == [type |-> "set", key |-> w.key, value |-> w.value]

LEMMA ServerPutDown ==
    ASSUME DBTypeInv, NEW d \in Device, ServerPut(d), NEW e \in Device
    PROVE  LET w == Head(up[d]).write
               s == IF session[e] = "listening" THEN Append(down[e], SetOf(w)) ELSE down[e]
           IN  /\ w \in Write /\ SetOf(w) \in Push
               /\ down'[e] = IF e = d THEN Append(s, AnswerTo(w, TRUE)) ELSE s
<1> DEFINE w == Head(up[d]).write
           a == AnswerTo(w, TRUE)
           set == SetOf(w)
           pushed == IF session[e] = "listening" THEN <<set>> ELSE <<>>
           answered == IF e = d THEN <<a>> ELSE <<>>
<1>1. w \in Write
  BY NextRequestType DEF ServerPut, Request
<1>2. set \in Push /\ a \in Push
  BY <1>1, AnswerTyped DEF SetOf, Push, Write
<1>3. down'[e] = down[e] \o pushed \o answered /\ down[e] \in Seq(Push)
  BY DEF ServerPut, SetOf, DBTypeInv, DBTypeOK
<1> HIDE DEF w, a, set
<1>4. down'[e] = IF e = d THEN Append(IF session[e] = "listening" THEN Append(down[e], set) ELSE down[e], a)
                 ELSE IF session[e] = "listening" THEN Append(down[e], set) ELSE down[e]
  <2>1. \A q \in Seq(Push), x, y \in Push :
           /\ q \o <<x>> \o <<y>> = Append(Append(q, x), y)
           /\ q \o <<x>> \o <<>> = Append(q, x)
           /\ q \o <<>> \o <<y>> = Append(q, y)
           /\ q \o <<>> \o <<>> = q
    OBVIOUS
  <2>2. CASE session[e] = "listening" /\ e = d
    BY <1>2, <1>3, <2>1, <2>2
  <2>3. CASE session[e] = "listening" /\ e # d
    BY <1>2, <1>3, <2>1, <2>3
  <2>4. CASE session[e] # "listening" /\ e = d
    BY <1>2, <1>3, <2>1, <2>4
  <2>5. CASE session[e] # "listening" /\ e # d
    BY <1>2, <1>3, <2>1, <2>5
  <2> QED  BY <2>2, <2>3, <2>4, <2>5
<1> QED  BY <1>1, <1>2, <1>4 DEF w, a, set

\* The answer of the put that the server takes is newer than those on their way.
LEMMA AnswerIsNewest ==
    ASSUME DBTypeInv, PutsAgree, NEW d \in Device, NextRequest(d, "put"), NEW ok \in BOOLEAN
    PROVE  LET w == Head(up[d]).write IN
           /\ w \in outstandingPuts[d] /\ w \in writes[d] /\ w \in Write
           /\ \A n \in AnswersDue(d) : MsgId(n) < MsgId(AnswerTo(w, ok))
           /\ /\ InOrder(down'[d], "answer")
              /\ AnswersDue(d)' = AnswersDue(d) \cup {AnswerTo(w, ok)}
              /\ UNCHANGED <<connected, putVars>>
              => HeldAgree(d)' /\ SentAgree(d)'
<1> DEFINE w == Head(up[d]).write
           a == AnswerTo(w, ok)
<1>1. /\ InOrder(up'[d], "put")
      /\ PutsUp(d)' \subseteq PutsUp(d)
      /\ \A m \in PutsUp(d) : m \in PutsUp(d)' \/ m = Head(up[d])
      /\ Head(up[d]) \in PutsUp(d)
      /\ \A m \in PutsUp(d)' : w.id < m.write.id
  BY RequestLeaves DEF PutsAgree
<1>2. HeldAgree(d) /\ SentAgree(d)
  BY DEF PutsAgree
<1>3. w \in outstandingPuts[d] /\ w \in writes[d] /\ w \in Write
  BY <1>1, <1>2 DEF HeldAgree, SentAgree, DBTypeInv, DBTypeOK
<1>4. \A n \in AnswersDue(d) : MsgId(n) < MsgId(a)
  BY <1>1, <1>2, <1>3, AnswerTyped, MsgTypes DEF SentAgree
<1>5. ASSUME InOrder(down'[d], "answer"), AnswersDue(d)' = AnswersDue(d) \cup {a},
             UNCHANGED <<connected, putVars>>
      PROVE  HeldAgree(d)' /\ SentAgree(d)'
  <2>1. /\ connected'[d] = connected[d] /\ writes'[d] = writes[d]
        /\ outstandingPuts'[d] = outstandingPuts[d] /\ putsToAck'[d] = putsToAck[d]
    BY <1>5 DEF putVars
  <2>2. a.answer.id = w.id
    BY <1>3, AnswerTyped
  <2> HIDE DEF a
  <2>3. HeldAgree(d)'
    BY <1>2, <2>1 DEF HeldAgree
  <2>4. \A m \in AnswersDue(d)' : \E v \in outstandingPuts'[d] : v.id = m.answer.id
    BY <1>2, <1>3, <1>5, <2>1, <2>2 DEF SentAgree
  <2>5. \A m \in AnswersDue(d)', n \in PutsUp(d)' : m.answer.id < n.write.id
    BY <1>1, <1>2, <1>5, <2>2 DEF SentAgree
  <2>6. connected'[d] => \A v \in outstandingPuts'[d] :
           (\E n \in PutsUp(d)' : n.write = v) \/ (\E m \in AnswersDue(d)' : m.answer.id = v.id)
    BY <1>1, <1>2, <1>5, <2>1, <2>2 DEF SentAgree
  <2>7. \A m \in PutsUp(d)' : m.write \in outstandingPuts'[d]
    BY <1>1, <1>2, <2>1 DEF SentAgree
  <2> QED  BY <1>1, <1>5, <2>3, <2>4, <2>5, <2>6, <2>7 DEF SentAgree
<1> QED  BY <1>3, <1>4, <1>5

\* Of a put every device may be told, but only its own is answered.
LEMMA ServerPutAnswers ==
    ASSUME DBTypeInv, PutsAgree, NEW d \in Device, ServerPut(d), NEW e \in Device
    PROVE  /\ InOrder(down'[e], "answer")
           /\ e = d => AnswersDue(e)' = AnswersDue(e) \cup {AnswerTo(Head(up[d]).write, TRUE)}
           /\ e # d => AnswersDue(e)' = AnswersDue(e)
<1> DEFINE w == Head(up[d]).write
           s == IF session[e] = "listening" THEN Append(down[e], SetOf(w)) ELSE down[e]
<1>1. /\ w \in Write /\ SetOf(w) \in Push
      /\ down'[e] = IF e = d THEN Append(s, AnswerTo(w, TRUE)) ELSE s
  BY ServerPutDown
<1>2. SetOf(w).type # "answer" /\ down[e] \in Seq(Push) /\ InOrder(down[e], "answer")
  BY DEF SetOf, DBTypeInv, DBTypeOK, PutsAgree, SentAgree
<1>3. s \in Seq(Push) /\ InOrder(s, "answer") /\ Msgs(s, "answer") = Msgs(down[e], "answer")
  BY <1>1, <1>2, OtherPushSent
<1>4. CASE e = d
  <2>1. \A n \in AnswersDue(d) : MsgId(n) < MsgId(AnswerTo(w, TRUE))
    BY AnswerIsNewest DEF ServerPut
  <2>2. AnswerTo(w, TRUE) \in Push /\ AnswerTo(w, TRUE).type = "answer"
    BY <1>1, AnswerTyped
  <2>3. \A n \in Msgs(s, "answer") : MsgId(n) < MsgId(AnswerTo(w, TRUE))
    BY <1>3, <1>4, <2>1 DEF AnswersDue
  <2> HIDE DEF s, w
  <2>4. /\ InOrder(Append(s, AnswerTo(w, TRUE)), "answer")
        /\ Msgs(Append(s, AnswerTo(w, TRUE)), "answer") = Msgs(s, "answer") \cup {AnswerTo(w, TRUE)}
    BY <1>3, <2>2, <2>3, AnswerSent
  <2> QED  BY <1>1, <1>3, <1>4, <2>4 DEF AnswersDue, w
<1>5. CASE e # d
  BY <1>1, <1>3, <1>5 DEF AnswersDue
<1> QED  BY <1>4, <1>5

LEMMA ServerPutPuts ==
    ASSUME DBTypeInv, PutsAgree, NEW d \in Device, ServerPut(d)
    PROVE  PutsAgree'
<1> SUFFICES ASSUME NEW e \in Device  PROVE HeldAgree(e)' /\ SentAgree(e)'
  BY DEF PutsAgree
<1>1. CASE e = d
  BY <1>1, ServerPutAnswers, AnswerIsNewest DEF ServerPut
<1>2. CASE e # d
  <2>1. InOrder(down'[e], "answer") /\ AnswersDue(e)' = AnswersDue(e)
    BY <1>2, ServerPutAnswers
  <2>2. /\ up'[e] = up[e] /\ PutsUp(e)' = PutsUp(e) /\ connected' = connected
        /\ writes' = writes /\ outstandingPuts' = outstandingPuts /\ putsToAck' = putsToAck
    BY <1>2 DEF ServerPut, NextRequest, putVars, PutsUp, DBTypeInv, DBTypeOK
  <2> QED  BY <2>1, <2>2 DEF PutsAgree, HeldAgree, SentAgree
<1> QED  BY <1>1, <1>2

LEMMA ServerRejectPuts ==
    ASSUME DBTypeInv, PutsAgree, NEW d \in Device, ServerReject(d)
    PROVE  PutsAgree' /\ AnswersDue(d)' = AnswersDue(d) \cup {AnswerTo(Head(up[d]).write, FALSE)}
<1> DEFINE w == Head(up[d]).write
           a == AnswerTo(w, FALSE)
<1>1. w \in Write /\ \A n \in AnswersDue(d) : MsgId(n) < MsgId(a)
  BY AnswerIsNewest DEF ServerReject
<1>2. /\ down' = [down EXCEPT ![d] = Append(down[d], a)]
      /\ down[d] \in Seq(Push) /\ InOrder(down[d], "answer")
  BY DEF ServerReject, DBTypeInv, DBTypeOK, PutsAgree, SentAgree
<1>3. a \in Push /\ a.type = "answer"
  BY <1>1, AnswerTyped
<1> HIDE DEF a
<1>4. /\ InOrder(Append(down[d], a), "answer")
      /\ Msgs(Append(down[d], a), "answer") = Msgs(down[d], "answer") \cup {a}
  BY <1>1, <1>2, <1>3, AnswerSent DEF AnswersDue
<1>5. InOrder(down'[d], "answer") /\ AnswersDue(d)' = AnswersDue(d) \cup {a}
  BY <1>2, <1>4 DEF AnswersDue, DBTypeInv, DBTypeOK
<1>6. HeldAgree(d)' /\ SentAgree(d)'
  BY <1>5, AnswerIsNewest DEF ServerReject, a
<1> QED  BY <1>2, <1>5, <1>6, PutsLocal DEF a, ServerReject, NextRequest, putVars, DBTypeInv, DBTypeOK

-----------------------------------------------------------------------------
(* What the server has committed, action by action.                        *)

\* A step that brings no new answer and no new write.
LEMMA CommitsKept ==
    ASSUME DBTypeInv, CommitsStored, NEW e \in Device,
           AnswersDue(e)' \subseteq AnswersDue(e),
           \A i \in DOMAIN putsToAck'[e] :
              \/ \E j \in DOMAIN putsToAck[e] : putsToAck'[e][i] = putsToAck[e][j]
              \/ \E m \in AnswersDue(e) : putsToAck'[e][i] = m.answer,
           writes'[e] \subseteq writes[e],
           \A k \in Key : store[k] # NoValue => store'[k] # NoValue
    PROVE  /\ \A m \in AnswersDue(e)' : Committed(e, m.answer)'
           /\ \A i \in DOMAIN putsToAck'[e] : Committed(e, putsToAck[e][i])'
<1>1. writes[e] \subseteq Write
  BY DEF DBTypeInv, DBTypeOK
<1>2. ASSUME NEW answer, Committed(e, answer)
      PROVE  writes'[e] \subseteq writes[e] /\ (answer.ok =>
                \A w \in writes'[e] : w.id = answer.id => store'[w.key] # NoValue)
  BY <1>1, <1>2 DEF Committed, Write
<1>3. ASSUME NEW m \in AnswersDue(e)'  PROVE Committed(e, m.answer)'
  <2>1. Committed(e, m.answer)
    BY <1>3 DEF CommitsStored
  <2> QED  BY <1>2, <2>1 DEF Committed
<1>4. ASSUME NEW i \in DOMAIN putsToAck'[e]  PROVE Committed(e, putsToAck[e][i])'
  <2>1. Committed(e, putsToAck'[e][i])
    BY <1>4 DEF CommitsStored
  <2> QED  BY <1>2, <2>1 DEF Committed
<1> QED  BY <1>3, <1>4

\* An answer on its way or held back is that of a write below the counter.
LEMMA AnswersBelow ==
    ASSUME DBTypeInv, PutsAgree, NEW d \in Device
    PROVE  /\ \A m \in AnswersDue(d) : m.answer.id < nextWriteId[d]
           /\ \A i \in DOMAIN putsToAck[d] : putsToAck[d][i].id < nextWriteId[d]
<1>1. \A w \in writes[d] : w.id < nextWriteId[d]
  BY DEF DBTypeInv, WritesBounded
<1> QED  BY <1>1 DEF PutsAgree, HeldAgree, SentAgree

LEMMA SetValueCommits ==
    ASSUME DBTypeInv, PutsAgree, CommitsStored,
           NEW d \in Device, NEW k \in Key, NEW v \in Value, SetValue(d, k, v)
    PROVE  CommitsStored'
<1> DEFINE w == [id |-> nextWriteId[d], key |-> k, value |-> v]
<1>1. /\ putsToAck' = putsToAck /\ down' = down /\ store' = store
      /\ \A e \in Device : AnswersDue(e)' = AnswersDue(e)
      /\ \A e \in Device : \A x \in writes'[e] : x \in writes[e] \/ (e = d /\ x = w)
  BY DEF SetValue, serverVars, AnswersDue, DBTypeInv, DBTypeOK
<1>2. w.id = nextWriteId[d] /\ nextWriteId[d] \in Nat
  BY DEF DBTypeInv, DBTypeOK
<1> HIDE DEF w
<1> SUFFICES ASSUME NEW e \in Device
             PROVE  /\ \A m \in AnswersDue(e) : Committed(e, m.answer)'
                    /\ \A i \in DOMAIN putsToAck[e] : Committed(e, putsToAck[e][i])'
  BY <1>1 DEF CommitsStored
<1>3. ASSUME NEW m \in AnswersDue(e)  PROVE Committed(e, m.answer)'
  <2>1. Committed(e, m.answer) /\ (e = d => m.answer.id # w.id)
    BY <1>2, AnswersBelow, MsgTypes DEF CommitsStored
  <2> QED  BY <1>1, <2>1 DEF Committed
<1>4. ASSUME NEW i \in DOMAIN putsToAck[e]  PROVE Committed(e, putsToAck[e][i])'
  <2>1. Committed(e, putsToAck[e][i]) /\ (e = d => putsToAck[e][i].id # w.id)
    BY <1>2, AnswersBelow DEF CommitsStored
  <2> QED  BY <1>1, <2>1 DEF Committed
<1> QED  BY <1>3, <1>4

\* A committed put is in the store at once.
LEMMA ServerPutCommits ==
    ASSUME DBTypeInv, PutsAgree, CommitsStored, NEW d \in Device, ServerPut(d)
    PROVE  CommitsStored'
<1> DEFINE w == Head(up[d]).write
           a == AnswerTo(w, TRUE)
<1>1. w \in writes[d] /\ w \in Write
  BY AnswerIsNewest DEF ServerPut
<1>2. store' = [store EXCEPT ![w.key] = w.value]
  BY DEF ServerPut
<1>3. store'[w.key] # NoValue /\ \A k \in Key : store[k] # NoValue => store'[k] # NoValue
  BY <1>1, <1>2, ValueAssumption DEF DBTypeInv, DBTypeOK, Snapshot, Write
<1>4. writes' = writes /\ putsToAck' = putsToAck
  BY DEF ServerPut, putVars
<1>5. a.answer.id = w.id
  BY <1>1, AnswerTyped
<1> HIDE DEF w, a
<1> SUFFICES ASSUME NEW e \in Device
             PROVE  /\ \A m \in AnswersDue(e)' : Committed(e, m.answer)'
                    /\ \A i \in DOMAIN putsToAck[e] : Committed(e, putsToAck[e][i])'
  BY <1>4 DEF CommitsStored
<1>6. ASSUME NEW answer, Committed(e, answer)
      PROVE  answer.ok => \A x \in writes'[e] : x.id = answer.id => store'[x.key] # NoValue
  <2>1. \A x \in writes[e] : x.key \in Key
    BY DEF DBTypeInv, DBTypeOK, Write
  <2> QED  BY <1>3, <1>4, <1>6, <2>1 DEF Committed
<1>7. ASSUME NEW i \in DOMAIN putsToAck[e]  PROVE Committed(e, putsToAck[e][i])'
  <2>1. Committed(e, putsToAck[e][i])
    BY DEF CommitsStored
  <2> QED  BY <1>4, <1>6, <2>1 DEF Committed
<1>8. ASSUME NEW m \in AnswersDue(e)'  PROVE Committed(e, m.answer)'
  <2>1. CASE m \in AnswersDue(e)
    <3>1. Committed(e, m.answer)
      BY <2>1 DEF CommitsStored
    <3> QED  BY <1>6, <3>1 DEF Committed
  <2>2. CASE e = d /\ m = a
    <3>1. \A x \in writes'[d] : x.id = w.id => x = w
      BY <1>1, <1>4 DEF PutsAgree, HeldAgree
    <3> QED  BY <1>3, <1>5, <2>2, <3>1 DEF Committed
  <2>3. m \in AnswersDue(e) \/ (e = d /\ m = a)
    BY ServerPutAnswers DEF a, w
  <2> QED  BY <2>1, <2>2, <2>3
<1> QED  BY <1>7, <1>8

LEMMA ServerRejectCommits ==
    ASSUME DBTypeInv, PutsAgree, CommitsStored, NEW d \in Device, ServerReject(d)
    PROVE  CommitsStored'
<1> DEFINE a == AnswerTo(Head(up[d]).write, FALSE)
<1>1. AnswersDue(d)' = AnswersDue(d) \cup {a}
  BY ServerRejectPuts
<1>2. ~ a.answer.ok
  BY DEF AnswerTo
<1> HIDE DEF a
<1>3. /\ store' = store /\ writes' = writes /\ putsToAck' = putsToAck
      /\ \A e \in Device : e # d => down'[e] = down[e]
  BY DEF ServerReject, serverVars, putVars, DBTypeInv, DBTypeOK
<1>4. \A e \in Device : \A m \in AnswersDue(e)' : m \in AnswersDue(e) \/ m = a
  BY <1>1, <1>3 DEF AnswersDue
<1> QED  BY <1>2, <1>3, <1>4 DEF CommitsStored, Committed

\* Every other step only moves answers, or loses them.
LEMMA OtherCommits ==
    ASSUME DBTypeInv, PutsAgree, CommitsStored, store' = store,
           \A e \in Device :
              /\ AnswersDue(e)' \subseteq AnswersDue(e)
              /\ writes'[e] \subseteq writes[e]
              /\ \A i \in DOMAIN putsToAck'[e] :
                    \/ \E j \in DOMAIN putsToAck[e] : putsToAck'[e][i] = putsToAck[e][j]
                    \/ \E m \in AnswersDue(e) : putsToAck'[e][i] = m.answer
    PROVE  CommitsStored'
<1> SUFFICES ASSUME NEW e \in Device
             PROVE  /\ \A m \in AnswersDue(e)' : Committed(e, m.answer)'
                    /\ \A i \in DOMAIN putsToAck'[e] : Committed(e, putsToAck[e][i])'
  BY DEF CommitsStored
<1> QED  BY CommitsKept

-----------------------------------------------------------------------------
(* The caches.                                                             *)

\* The cache after a push.
After(c, m) == CASE m.type = "data" -> m.snapshot
                 [] m.type = "set"  -> [c EXCEPT ![m.key] = m.value]
                 [] OTHER           -> c

\* Taking the first push into the cache.
LEMMA CatchesUpTail ==
    ASSUME NEW S, NEW s \in Seq(S), s # <<>>, NEW c \in Snapshot, NEW goal,
           CatchesUp(c, s, goal)
    PROVE  CatchesUp(After(c, Head(s)), Tail(s), goal)
<1>1. /\ Len(s) \in Nat /\ Len(s) > 0 /\ DOMAIN s = 1 .. Len(s) /\ 1 \in DOMAIN s
      /\ DOMAIN Tail(s) = 1 .. Len(s) - 1 /\ Head(s) = s[1]
      /\ \A i \in 1 .. Len(s) - 1 : Tail(s)[i] = s[i + 1] /\ i + 1 \in DOMAIN s
      /\ \A i \in DOMAIN s : i # 1 => i - 1 \in DOMAIN Tail(s) /\ Tail(s)[i - 1] = s[i]
  OBVIOUS
<1> SUFFICES ASSUME NEW k \in Key
             PROVE  \/ /\ After(c, s[1])[k] = goal[k]
                       /\ \A i \in DOMAIN Tail(s) : ~Tells(Tail(s)[i], k)
                    \/ \E i \in DOMAIN Tail(s) :
                          /\ Tells(Tail(s)[i], k) /\ Told(Tail(s)[i], k) = goal[k]
                          /\ \A j \in DOMAIN Tail(s) : i < j => ~Tells(Tail(s)[j], k)
  BY <1>1 DEF CatchesUp
<1>2. Tells(s[1], k) => After(c, s[1])[k] = Told(s[1], k)
  BY DEF Tells, Told, After, Snapshot
<1>3. ~Tells(s[1], k) => After(c, s[1])[k] = c[k]
  BY DEF Tells, After, Snapshot
<1>4. CASE c[k] = goal[k] /\ \A i \in DOMAIN s : ~Tells(s[i], k)
  BY <1>1, <1>3, <1>4
<1>5. ASSUME NEW i \in DOMAIN s, Tells(s[i], k), Told(s[i], k) = goal[k],
             \A j \in DOMAIN s : i < j => ~Tells(s[j], k)
      PROVE  \/ /\ After(c, s[1])[k] = goal[k]
                /\ \A j \in DOMAIN Tail(s) : ~Tells(Tail(s)[j], k)
             \/ \E h \in DOMAIN Tail(s) :
                   /\ Tells(Tail(s)[h], k) /\ Told(Tail(s)[h], k) = goal[k]
                   /\ \A j \in DOMAIN Tail(s) : h < j => ~Tells(Tail(s)[j], k)
  <2>1. CASE i = 1
    <3>1. \A j \in DOMAIN Tail(s) : ~Tells(Tail(s)[j], k)
      <4> SUFFICES ASSUME NEW j \in DOMAIN Tail(s)  PROVE ~Tells(Tail(s)[j], k)
        OBVIOUS
      <4>1. 1 < j + 1 /\ j + 1 \in DOMAIN s /\ Tail(s)[j] = s[j + 1]
        BY <1>1
      <4> QED  BY <1>5, <2>1, <4>1
    <3> QED  BY <1>2, <1>5, <2>1, <3>1
  <2>2. CASE i # 1
    <3>1. i - 1 \in DOMAIN Tail(s) /\ Tail(s)[i - 1] = s[i]
      BY <1>1, <2>2
    <3>2. ASSUME NEW j \in DOMAIN Tail(s), i - 1 < j  PROVE ~Tells(Tail(s)[j], k)
      <4>1. i < j + 1 /\ j + 1 \in DOMAIN s /\ Tail(s)[j] = s[j + 1]
        BY <1>1, <3>2
      <4> QED  BY <1>5, <4>1
    <3> QED  BY <1>5, <3>1, <3>2
  <2> QED  BY <2>1, <2>2
<1> QED  BY <1>1, <1>4, <1>5 DEF CatchesUp

\* Sending one more push.
LEMMA CatchesUpAppend ==
    ASSUME NEW S, NEW s \in Seq(S), NEW m \in S, NEW c, NEW goal, NEW goal2,
           \A k \in Key : \/ Tells(m, k) /\ Told(m, k) = goal2[k]
                          \/ /\ ~Tells(m, k) /\ goal2[k] = goal[k]
                             /\ CatchesUp(c, s, goal)
    PROVE  CatchesUp(c, Append(s, m), goal2)
<1> DEFINE t == Append(s, m)
           n == Len(s) + 1
<1>1. /\ Len(s) \in Nat /\ DOMAIN s = 1 .. Len(s) /\ DOMAIN t = 1 .. n
      /\ \A i \in DOMAIN s : t[i] = s[i] /\ i \in DOMAIN t
      /\ t[n] = m /\ n \in DOMAIN t
      /\ \A i \in DOMAIN t : i \in DOMAIN s \/ i = n
      /\ \A i \in DOMAIN t : ~(n < i)
  OBVIOUS
<1> HIDE DEF t, n
<1> SUFFICES ASSUME NEW k \in Key
             PROVE  \/ c[k] = goal2[k] /\ \A i \in DOMAIN t : ~Tells(t[i], k)
                    \/ \E i \in DOMAIN t : /\ Tells(t[i], k) /\ Told(t[i], k) = goal2[k]
                                           /\ \A j \in DOMAIN t : i < j => ~Tells(t[j], k)
  BY DEF CatchesUp, t
<1>2. CASE Tells(m, k) /\ Told(m, k) = goal2[k]
  BY <1>1, <1>2
<1>3. CASE ~Tells(m, k) /\ goal2[k] = goal[k] /\ CatchesUp(c, s, goal)
  <2>1. CASE c[k] = goal[k] /\ \A i \in DOMAIN s : ~Tells(s[i], k)
    BY <1>1, <1>3, <2>1
  <2>2. ASSUME NEW i \in DOMAIN s, Tells(s[i], k), Told(s[i], k) = goal[k],
               \A j \in DOMAIN s : i < j => ~Tells(s[j], k)
        PROVE  \E h \in DOMAIN t : /\ Tells(t[h], k) /\ Told(t[h], k) = goal2[k]
                                   /\ \A j \in DOMAIN t : h < j => ~Tells(t[j], k)
    <3>1. i \in DOMAIN t /\ t[i] = s[i]
      BY <1>1
    <3>2. \A j \in DOMAIN t : i < j => ~Tells(t[j], k)
      BY <1>1, <1>3, <2>2
    <3> QED  BY <1>3, <2>2, <3>1, <3>2
  <2> QED  BY <1>3, <2>1, <2>2 DEF CatchesUp
<1> QED  BY <1>2, <1>3

\* The library takes a push into its cache.
LEMMA PushTaken ==
    ASSUME DBTypeInv, NEW d \in Device,
           ReceiveData(d) \/ ReceiveSet(d) \/ ReceiveListenOk(d) \/ ReceiveAnswer(d)
    PROVE  /\ down[d] \in Seq(Push) /\ down[d] # <<>> /\ down'[d] = Tail(down[d])
           /\ cache[d] \in Snapshot /\ cache'[d] = After(cache[d], Head(down[d]))
           /\ store' = store /\ session' = session
           /\ \A e \in Device : e # d => down'[e] = down[e] /\ cache'[e] = cache[e]
<1>1. PICK type \in {"data", "set", "listenOk", "answer"} :
        /\ NextPush(d, type)
        /\ type = "data" => ReceiveData(d)
        /\ type = "set" => ReceiveSet(d)
        /\ type = "listenOk" => ReceiveListenOk(d)
        /\ type = "answer" => ReceiveAnswer(d)
  BY DEF ReceiveData, ReceiveSet, ReceiveListenOk, ReceiveAnswer
<1>2. /\ down[d] \in Seq(Push) /\ down[d] # <<>> /\ Head(down[d]).type = type
      /\ down'[d] = Tail(down[d]) /\ cache[d] \in Snapshot
      /\ \A e \in Device : e # d => down'[e] = down[e]
  BY <1>1 DEF NextPush, DBTypeInv, DBTypeOK
<1>3. /\ store' = store /\ session' = session
      /\ \A e \in Device : e # d => cache'[e] = cache[e]
  BY DEF ReceiveData, ReceiveSet, ReceiveListenOk, ReceiveAnswer, serverVars, viewVars,
         DBTypeInv, DBTypeOK
<1>4. cache'[d] = After(cache[d], Head(down[d]))
  <2>1. CASE type = "data"
    BY <1>1, <1>2, <2>1 DEF ReceiveData, After, DBTypeInv, DBTypeOK
  <2>2. CASE type = "set"
    BY <1>1, <1>2, <2>2 DEF ReceiveSet, Cached, After, DBTypeInv, DBTypeOK
  <2>3. CASE type = "listenOk"
    BY <1>1, <1>2, <2>3 DEF ReceiveListenOk, After, viewVars
  <2>4. CASE type = "answer"
    BY <1>1, <1>2, <2>4 DEF ReceiveAnswer, After
  <2> QED  BY <2>1, <2>2, <2>3, <2>4
<1> QED  BY <1>2, <1>3, <1>4

LEMMA ReceiveCaches ==
    ASSUME DBTypeInv, CachesCatchUp, NEW d \in Device,
           ReceiveData(d) \/ ReceiveSet(d) \/ ReceiveListenOk(d) \/ ReceiveAnswer(d)
    PROVE  CachesCatchUp'
<1>1. /\ down[d] \in Seq(Push) /\ down[d] # <<>> /\ down'[d] = Tail(down[d])
      /\ cache[d] \in Snapshot /\ cache'[d] = After(cache[d], Head(down[d]))
      /\ store' = store /\ session' = session
      /\ \A e \in Device : e # d => down'[e] = down[e] /\ cache'[e] = cache[e]
  BY PushTaken
<1>2. ASSUME session[d] = "listening"  PROVE CatchesUp(cache'[d], down'[d], store)
  <2>1. CatchesUp(cache[d], down[d], store)
    BY <1>2 DEF CachesCatchUp
  <2>2. \A s \in Seq(Push), c \in Snapshot :
           s # <<>> /\ CatchesUp(c, s, store) => CatchesUp(After(c, Head(s)), Tail(s), store)
    BY CatchesUpTail
  <2> QED  BY <1>1, <2>1, <2>2
<1> QED  BY <1>1, <1>2 DEF CachesCatchUp

\* The answer to a listen says all.
LEMMA ServerLoadCaches ==
    ASSUME DBTypeInv, CachesCatchUp, NEW d \in Device, ServerLoad(d)
    PROVE  CachesCatchUp'
<1> DEFINE data == [type |-> "data", snapshot |-> store]
           ok   == [type |-> "listenOk"]
<1>1. /\ down[d] \in Seq(Push) /\ data \in Push /\ ok \in Push
      /\ \A k \in Key : Tells(data, k) /\ Told(data, k) = store[k] /\ ~Tells(ok, k)
  BY DEF DBTypeInv, DBTypeOK, Push, Tells, Told
<1>2. /\ down' = [down EXCEPT ![d] = down[d] \o <<data, ok>>] /\ store' = store /\ cache' = cache
      /\ \A e \in Device : e # d => session'[e] = session[e]
  BY DEF ServerLoad, viewVars, DBTypeInv, DBTypeOK
<1> HIDE DEF data, ok
<1>3. down'[d] = Append(Append(down[d], data), ok) /\ Append(down[d], data) \in Seq(Push)
  BY <1>1, <1>2 DEF DBTypeInv, DBTypeOK
<1>4. CatchesUp(cache[d], Append(down[d], data), store)
  BY <1>1, CatchesUpAppend
<1>5. CatchesUp(cache[d], Append(Append(down[d], data), ok), store)
  BY <1>1, <1>3, <1>4, CatchesUpAppend
<1> QED  BY <1>2, <1>3, <1>5 DEF CachesCatchUp, DBTypeInv, DBTypeOK

\* Every listener is told of a put.
LEMMA ServerPutCaches ==
    ASSUME DBTypeInv, CachesCatchUp, NEW d \in Device, ServerPut(d)
    PROVE  CachesCatchUp'
<1> DEFINE w == Head(up[d]).write
<1>1. /\ store' = [store EXCEPT ![w.key] = w.value] /\ session' = session /\ cache' = cache
  BY DEF ServerPut, viewVars
<1> SUFFICES ASSUME NEW e \in Device, session[e] = "listening"
             PROVE  CatchesUp(cache[e], down'[e], store')
  BY <1>1 DEF CachesCatchUp
<1> DEFINE s == Append(down[e], SetOf(w))
           a == AnswerTo(w, TRUE)
<1>2. /\ w \in Write /\ SetOf(w) \in Push
      /\ down'[e] = IF e = d THEN Append(s, a) ELSE s
  BY ServerPutDown
<1>3. down[e] \in Seq(Push) /\ CatchesUp(cache[e], down[e], store)
  BY DEF DBTypeInv, DBTypeOK, CachesCatchUp
<1>4. \A k \in Key : IF k = w.key THEN Tells(SetOf(w), k) /\ Told(SetOf(w), k) = store'[k]
                     ELSE ~Tells(SetOf(w), k) /\ store'[k] = store[k]
  BY <1>1, <1>2 DEF SetOf, Tells, Told, Write, DBTypeInv, DBTypeOK, Snapshot
<1>5. s \in Seq(Push)
  BY <1>2, <1>3
<1>6. CatchesUp(cache[e], s, store')
  BY <1>2, <1>3, <1>4, CatchesUpAppend
<1>7. a \in Push /\ \A k \in Key : ~Tells(a, k)
  BY <1>2, AnswerTyped DEF Tells
<1> HIDE DEF s, a
<1>8. CatchesUp(cache[e], Append(s, a), store')
  BY <1>5, <1>6, <1>7, CatchesUpAppend
<1> QED  BY <1>2, <1>6, <1>8

LEMMA ServerRejectCaches ==
    ASSUME DBTypeInv, PutsAgree, CachesCatchUp, NEW d \in Device, ServerReject(d)
    PROVE  CachesCatchUp'
<1> DEFINE w == Head(up[d]).write
           a == AnswerTo(w, FALSE)
<1>1. w \in Write
  BY AnswerIsNewest DEF ServerReject
<1>2. a \in Push /\ \A k \in Key : ~Tells(a, k)
  BY <1>1, AnswerTyped DEF Tells
<1>3. /\ store' = store /\ session' = session /\ cache' = cache
      /\ down' = [down EXCEPT ![d] = Append(down[d], a)] /\ down[d] \in Seq(Push)
  BY DEF ServerReject, serverVars, viewVars, DBTypeInv, DBTypeOK
<1> HIDE DEF a
<1>4. CatchesUp(cache[d], down[d], store) => CatchesUp(cache[d], Append(down[d], a), store)
  BY <1>2, <1>3, CatchesUpAppend
<1> QED  BY <1>3, <1>4 DEF CachesCatchUp, DBTypeInv, DBTypeOK

\* A step after which fewer devices listen, to the same store.
LEMMA OtherCaches ==
    ASSUME CachesCatchUp, store' = store,
           \A e \in Device : session'[e] = "listening" =>
              /\ session[e] = "listening" /\ down'[e] = down[e] /\ cache'[e] = cache[e]
    PROVE  CachesCatchUp'
BY DEF CachesCatchUp

-----------------------------------------------------------------------------
(* All of it together is inductive.                                        *)

BoardInv == DBInv /\ PutsAgree /\ CommitsStored /\ CachesCatchUp

LEMMA InitBoard == DBInit => BoardInv
<1> SUFFICES ASSUME DBInit  PROVE BoardInv
  OBVIOUS
<1>1. \A d \in Device : PutsUp(d) = {} /\ AnswersDue(d) = {}
  BY DEF DBInit, PutsUp, AnswersDue, Msgs, OfType
<1>2. PutsAgree
  BY <1>1 DEF DBInit, PutsAgree, HeldAgree, SentAgree, InOrder, OfType
<1>3. CommitsStored
  BY <1>1 DEF DBInit, CommitsStored
<1>4. CachesCatchUp
  BY DEF DBInit, CachesCatchUp
<1> QED  BY <1>2, <1>3, <1>4, InitInv DEF BoardInv

LEMMA LibraryBoard ==
    ASSUME BoardInv, NEW d \in Device, Library(d)
    PROVE  PutsAgree' /\ CommitsStored' /\ CachesCatchUp'
<1> USE DEF BoardInv, DBInv
<1>1. CASE Connect(d)
  <2>1. AnswersDue(d)' \subseteq AnswersDue(d)
    BY <1>1 DEF Connect, AnswersDue
  <2>2. CommitsStored'
    BY <1>1, OtherCommits DEF Connect, putVars, AnswersDue
  <2>3. CachesCatchUp'
    BY <1>1, OtherCaches DEF Connect, viewVars, DBTypeInv, DBTypeOK
  <2> QED  BY <1>1, <2>2, <2>3, ConnectPuts
<1>2. CASE ReceiveData(d) \/ ReceiveSet(d) \/ ReceiveListenOk(d)
  <2>1. \A e \in Device : AnswersDue(e)' = AnswersDue(e)
    <3>1. AnswersDue(d)' = AnswersDue(d)
      BY <1>2, ReceiveOtherPuts
    <3>2. \A e \in Device : e # d => AnswersDue(e)' = AnswersDue(e)
      BY <1>2 DEF ReceiveData, ReceiveSet, ReceiveListenOk, NextPush, AnswersDue, DBTypeInv, DBTypeOK
    <3> QED  BY <3>1, <3>2
  <2>2. store' = store /\ writes' = writes /\ putsToAck' = putsToAck
    BY <1>2 DEF ReceiveData, ReceiveSet, ReceiveListenOk, serverVars, putVars
  <2>3. CommitsStored'
    BY <2>1, <2>2, OtherCommits
  <2> QED  BY <1>2, <2>3, ReceiveOtherPuts, ReceiveCaches
<1>3. CASE ReceiveAnswer(d)
  <2>1. /\ NextPush(d, "answer") /\ store' = store
        /\ \A e \in Device : e # d => down'[e] = down[e] /\ writes'[e] = writes[e]
                                      /\ putsToAck'[e] = putsToAck[e]
    BY <1>3 DEF ReceiveAnswer, NextPush, AckWrite, serverVars, DBTypeInv, DBTypeOK
  <2>2. Head(down[d]) \in AnswersDue(d) /\ AnswersDue(d)' \subseteq AnswersDue(d)
    BY <2>1, PushLeaves DEF PutsAgree
  <2>3. /\ writes'[d] \subseteq writes[d]
        /\ \A i \in DOMAIN putsToAck'[d] :
              \/ \E j \in DOMAIN putsToAck[d] : putsToAck'[d][i] = putsToAck[d][j]
              \/ putsToAck'[d][i] = Head(down[d]).answer
    <3>1. CASE writes' = writes /\ putsToAck' = [putsToAck EXCEPT ![d] = Append(@, Head(down[d]).answer)]
      <4>1. putsToAck[d] \in Seq(Answer) /\ putsToAck'[d] = Append(putsToAck[d], Head(down[d]).answer)
        BY <3>1 DEF DBTypeInv, DBTypeOK
      <4> QED  BY <3>1, <4>1
    <3>2. CASE AckWrite(d, Head(down[d]).answer) /\ UNCHANGED putsToAck
      BY <3>2 DEF AckWrite, DBTypeInv, DBTypeOK
    <3> QED  BY <1>3, <3>1, <3>2 DEF ReceiveAnswer
  <2>4. CommitsStored'
    <3>1. \A e \in Device :
              /\ AnswersDue(e)' \subseteq AnswersDue(e)
              /\ writes'[e] \subseteq writes[e]
              /\ \A i \in DOMAIN putsToAck'[e] :
                    \/ \E j \in DOMAIN putsToAck[e] : putsToAck'[e][i] = putsToAck[e][j]
                    \/ \E m \in AnswersDue(e) : putsToAck'[e][i] = m.answer
      <4> SUFFICES ASSUME NEW e \in Device
                   PROVE  /\ AnswersDue(e)' \subseteq AnswersDue(e)
                          /\ writes'[e] \subseteq writes[e]
                          /\ \A i \in DOMAIN putsToAck'[e] :
                                \/ \E j \in DOMAIN putsToAck[e] : putsToAck'[e][i] = putsToAck[e][j]
                                \/ \E m \in AnswersDue(e) : putsToAck'[e][i] = m.answer
        OBVIOUS
      <4>1. CASE e = d
        BY <2>2, <2>3, <4>1
      <4>2. CASE e # d
        BY <2>1, <4>2 DEF AnswersDue
      <4> QED  BY <4>1, <4>2
    <3> QED  BY <2>1, <3>1, OtherCommits
  <2> QED  BY <1>3, <2>4, ReceiveAnswerPuts, ReceiveCaches
<1>4. CASE AckPuts(d)
  <2>1. /\ store' = store /\ session' = session /\ down' = down /\ cache' = cache
        /\ \A e \in Device : writes'[e] \subseteq writes[e]
        /\ \A e \in Device : e # d => putsToAck'[e] = putsToAck[e]
        /\ putsToAck'[d] = Tail(putsToAck[d]) /\ putsToAck[d] # <<>>
        /\ putsToAck[d] \in Seq(Answer)
    BY <1>4 DEF AckPuts, Acking, AckWrite, serverVars, linkVars, DBTypeInv, DBTypeOK
  <2>2. \A i \in DOMAIN putsToAck'[d] : \E j \in DOMAIN putsToAck[d] : putsToAck'[d][i] = putsToAck[d][j]
    <3> SUFFICES ASSUME NEW i \in DOMAIN Tail(putsToAck[d])
                 PROVE  \E j \in DOMAIN putsToAck[d] : Tail(putsToAck[d])[i] = putsToAck[d][j]
      BY <2>1
    <3>1. i + 1 \in DOMAIN putsToAck[d] /\ Tail(putsToAck[d])[i] = putsToAck[d][i + 1]
      BY <2>1
    <3> QED  BY <3>1
  <2>3. \A e \in Device : \A i \in DOMAIN putsToAck'[e] :
           \E j \in DOMAIN putsToAck[e] : putsToAck'[e][i] = putsToAck[e][j]
    BY <2>1, <2>2
  <2>4. CommitsStored'
    BY <2>1, <2>3, OtherCommits DEF AnswersDue
  <2>5. CachesCatchUp'
    BY <2>1, OtherCaches
  <2> QED  BY <1>4, <2>4, <2>5, AckPutsPuts
<1> QED  BY <1>1, <1>2, <1>3, <1>4 DEF Library

LEMMA ServerBoard ==
    ASSUME BoardInv, NEW d \in Device, Server(d)
    PROVE  PutsAgree' /\ CommitsStored' /\ CachesCatchUp'
<1> USE DEF BoardInv, DBInv
<1>1. CASE ServerListen(d)
  <2>1. /\ store' = store /\ down' = down /\ writes' = writes /\ putsToAck' = putsToAck
        /\ cache' = cache /\ \A e \in Device : session'[e] = "listening" => session[e] = "listening"
    BY <1>1 DEF ServerListen, putVars, viewVars, DBTypeInv, DBTypeOK
  <2>2. CommitsStored'
    BY <2>1, OtherCommits DEF AnswersDue
  <2>3. CachesCatchUp'
    BY <2>1, OtherCaches
  <2> QED  BY <1>1, <2>2, <2>3, ServerListenPuts
<1>2. CASE ServerLoad(d)
  <2>1. /\ store' = store /\ writes' = writes /\ putsToAck' = putsToAck
        /\ \A e \in Device : e # d => down'[e] = down[e]
    BY <1>2 DEF ServerLoad, putVars, DBTypeInv, DBTypeOK
  <2>2. \A e \in Device : AnswersDue(e)' = AnswersDue(e)
    <3>1. \A e \in Device : e # d => AnswersDue(e)' = AnswersDue(e)
      BY <2>1 DEF AnswersDue
    <3> QED  BY <1>2, <3>1, ServerLoadPuts
  <2>3. CommitsStored'
    BY <2>1, <2>2, OtherCommits
  <2> QED  BY <1>2, <2>3, ServerLoadPuts, ServerLoadCaches
<1>3. CASE ServerPut(d)
  BY <1>3, ServerPutPuts, ServerPutCommits, ServerPutCaches
<1>4. CASE ServerReject(d)
  BY <1>4, ServerRejectPuts, ServerRejectCommits, ServerRejectCaches
<1> QED  BY <1>1, <1>2, <1>3, <1>4 DEF Server

LEMMA AppBoard ==
    ASSUME BoardInv, NEW d \in Device, App(d)
    PROVE  PutsAgree' /\ CommitsStored' /\ CachesCatchUp'
<1> USE DEF BoardInv, DBInv
<1>1. CASE \E r \in Observer : ObserveParent(d, r) \/ ObserveChildren(d, r)
  <2>1. /\ store' = store /\ session' = session /\ down' = down /\ cache' = cache
        /\ writes' = writes /\ putsToAck' = putsToAck
    BY <1>1 DEF ObserveParent, ObserveChildren, Observe, serverVars, putVars
  <2>2. CommitsStored' /\ CachesCatchUp'
    BY <2>1, OtherCommits, OtherCaches DEF AnswersDue
  <2> QED  BY <1>1, <2>2, ObservePuts
<1>2. CASE \E k \in Key, v \in Value : SetValue(d, k, v)
  <2>1. store' = store /\ session' = session /\ down' = down /\ cache' = cache
    BY <1>2 DEF SetValue, serverVars
  <2>2. CachesCatchUp'
    BY <2>1, OtherCaches
  <2> QED  BY <1>2, <2>2, SetValuePuts, SetValueCommits
<1>3. CASE TakeEvent(d)
  <2>1. /\ store' = store /\ session' = session /\ down' = down /\ cache' = cache /\ up' = up
        /\ writes' = writes /\ putsToAck' = putsToAck /\ connected' = connected
        /\ outstandingPuts' = outstandingPuts
    BY <1>3 DEF TakeEvent, serverVars, linkVars, putVars
  <2>2. CommitsStored' /\ CachesCatchUp'
    BY <2>1, OtherCommits, OtherCaches DEF AnswersDue
  <2>3. PutsAgree'
    BY <2>1, PutsFrame DEF PutsAgree
  <2> QED  BY <2>2, <2>3
<1> QED  BY <1>1, <1>2, <1>3 DEF App

LEMMA LossBoard ==
    ASSUME BoardInv, NEW d \in Device, Disconnect(d) \/ Kill(d)
    PROVE  PutsAgree' /\ CommitsStored' /\ CachesCatchUp'
<1> USE DEF BoardInv, DBInv
<1>1. /\ store' = store /\ session' = [session EXCEPT ![d] = "closed"]
      /\ down' = [down EXCEPT ![d] = <<>>]
      /\ \A e \in Device : e # d => cache'[e] = cache[e]
      /\ \A e \in Device : writes'[e] \subseteq writes[e]
      /\ \A e \in Device : putsToAck'[e] = putsToAck[e] \/ putsToAck'[e] = <<>>
  BY DEF Disconnect, Kill, LoseConnection, putVars, viewVars, DBTypeInv, DBTypeOK
<1>2. \A e \in Device : AnswersDue(e)' \subseteq AnswersDue(e)
  BY <1>1 DEF AnswersDue, Msgs, OfType, DBTypeInv, DBTypeOK
<1>3. CommitsStored'
  BY <1>1, <1>2, OtherCommits
<1>4. CachesCatchUp'
  BY <1>1, OtherCaches DEF DBTypeInv, DBTypeOK
<1> QED  BY <1>3, <1>4, DisconnectPuts, KillPuts

LEMMA NextBoard == BoardInv /\ [DBNext]_dbVars => BoardInv'
<1> SUFFICES ASSUME BoardInv, [DBNext]_dbVars
             PROVE  PutsAgree' /\ CommitsStored' /\ CachesCatchUp'
  BY NextInv DEF BoardInv
<1>1. CASE UNCHANGED dbVars
  <2>1. /\ store' = store /\ session' = session /\ down' = down /\ cache' = cache /\ up' = up
        /\ writes' = writes /\ putsToAck' = putsToAck /\ connected' = connected
        /\ outstandingPuts' = outstandingPuts
    BY <1>1 DEF dbVars, serverVars, linkVars, putVars, viewVars
  <2>2. CommitsStored' /\ CachesCatchUp'
    BY <2>1, OtherCommits, OtherCaches DEF AnswersDue, BoardInv, DBInv
  <2>3. PutsAgree'
    BY <2>1, PutsFrame DEF PutsAgree, BoardInv
  <2> QED  BY <2>2, <2>3
<1> QED  BY <1>1, AppBoard, LibraryBoard, ServerBoard, LossBoard DEF DBNext

LEMMA BoardInvariance == DBSpec => []BoardInv
BY InitBoard, NextBoard, PTL DEF DBSpec

-----------------------------------------------------------------------------
(* The properties.                                                         *)

LEMMA AnswersOfMsgs ==
    ASSUME DBTypeInv, NEW d \in Device
    PROVE  ArrivingIds(d) = {m.answer.id : m \in AnswersDue(d)}
BY DEF ArrivingIds, AnswersDown, AnswersDue, Msgs

\* However often puts are sent again, answers are held back or connections are
\* lost, the library's assertion in removeWriteId holds: the writes of the tree
\* are those outstanding or held back, and answers come once each and in order.
THEOREM DBPutsAccountedFor == DBSpec => []PutsAccountedFor
<1>1. BoardInv => PutsAccountedFor
  <2> SUFFICES ASSUME BoardInv, NEW d \in Device
               PROVE  LET outstandingIds == {w.id : w \in outstandingPuts[d]} IN
                      /\ {w.id : w \in writes[d]} = HeldIds(d) \cup outstandingIds
                      /\ outstandingPuts[d] \subseteq writes[d]
                      /\ HeldIds(d) \cap outstandingIds = {}
                      /\ ArrivingIds(d) \subseteq outstandingIds
                      /\ AnswersInOrder(d)
    BY DEF PutsAccountedFor
  <2> DEFINE outstandingIds == {w.id : w \in outstandingPuts[d]}
  <2>1. HeldAgree(d) /\ SentAgree(d) /\ DBTypeInv
    BY DEF BoardInv, DBInv, PutsAgree
  <2>2. {w.id : w \in writes[d]} = HeldIds(d) \cup outstandingIds
    BY <2>1 DEF HeldAgree, HeldIds
  <2>3. HeldIds(d) \cap outstandingIds = {}
    BY <2>1 DEF HeldAgree, HeldIds
  <2>4. ArrivingIds(d) \subseteq outstandingIds
    BY <2>1, AnswersOfMsgs DEF SentAgree
  <2>5. AnswersInOrder(d)
    <3>1. \A i, j \in AnswersDown(d) : i < j => down[d][i].answer.id < down[d][j].answer.id
      BY <2>1 DEF SentAgree, InOrder, MsgId, AnswersDown, OfType
    <3>2. \A h \in HeldIds(d), a \in ArrivingIds(d) : h < a
      BY <2>1, <2>4 DEF HeldAgree, HeldIds
    <3> QED  BY <2>1, <3>1, <3>2 DEF AnswersInOrder, HeldAgree
  <2> QED  BY <2>1, <2>2, <2>3, <2>4, <2>5 DEF HeldAgree
<1> QED  BY <1>1, BoardInvariance, PTL

\* A listening device with nothing under way shows what the server stores, with
\* any number of devices, keys, writes, faults and refusals before.
THEOREM DBQuietMirrorsStore == DBSpec => []QuietMirrorsStore
<1>1. BoardInv => QuietMirrorsStore
  <2> SUFFICES ASSUME BoardInv, NEW d \in Device, Quiet(d), ~Acking(d)
               PROVE  writes[d] = {} /\ View(d) = store
    BY DEF QuietMirrorsStore
  <2>1. HeldAgree(d) /\ SentAgree(d) /\ ListensAgree(d) /\ DBTypeOK
    BY DEF BoardInv, DBInv, DBTypeInv, PutsAgree, ListensCounted
  <2>2. connected[d] /\ unackedListens[d] = 0
    BY <2>1 DEF Quiet, ListensAgree, ListenUnderWay, ListensUp, ListensDown, OfType
  <2>3. putsToAck[d] = <<>>
    BY <2>2 DEF Acking
  <2>4. PutsUp(d) = {} /\ AnswersDue(d) = {}
    BY DEF Quiet, PutsUp, AnswersDue, Msgs, OfType
  <2>5. writes[d] = {}
    BY <2>1, <2>2, <2>3, <2>4 DEF HeldAgree, SentAgree
  <2>6. View(d) = cache[d]
    <3>1. \A k \in Key : {w \in writes[d] : w.key = k} = {}
      BY <2>5
    <3> QED  BY <2>1, <3>1 DEF View, Overlay, DBTypeOK, Snapshot
  <2>7. CatchesUp(cache[d], <<>>, store)
    BY DEF BoardInv, CachesCatchUp, Quiet
  <2>8. \A k \in Key : cache[d][k] = store[k]
    BY <2>7 DEF CatchesUp
  <2>9. cache[d] = store
    BY <2>1, <2>8 DEF DBTypeOK, Snapshot
  <2> QED  BY <2>5, <2>6, <2>9
<1> QED  BY <1>1, BoardInvariance, PTL

-----------------------------------------------------------------------------
(* What the observers have been told.  Blocks run long after the change    *)
(* they tell of, but the newest block of every observer tells what the     *)
(* view shows now.                                                         *)

\* There is a block for observer r, and the last one tells it s.
HasBlock(evs, r) == \E i \in DOMAIN evs : evs[i].to = r

LastTells(evs, r, s) ==
    \A i \in DOMAIN evs :
        evs[i].to = r /\ (\A j \in DOMAIN evs : i < j => evs[j].to # r) => evs[i].snapshot = s

\* The first block has run.
LEMMA BlockRuns ==
    ASSUME NEW evs \in Seq(Event), evs # <<>>, NEW r, NEW s, LastTells(evs, r, s)
    PROVE  /\ LastTells(Tail(evs), r, s)
           /\ HasBlock(Tail(evs), r) => HasBlock(evs, r)
           /\ HasBlock(Tail(evs), r) \/ (Head(evs).to = r => Head(evs).snapshot = s)
           /\ HasBlock(Tail(evs), r) \/ (Head(evs).to # r => ~HasBlock(evs, r))
<1>1. /\ Len(evs) \in Nat /\ DOMAIN evs = 1 .. Len(evs) /\ 1 \in DOMAIN evs
      /\ DOMAIN Tail(evs) = 1 .. Len(evs) - 1 /\ Head(evs) = evs[1]
      /\ \A i \in DOMAIN Tail(evs) : i + 1 \in DOMAIN evs /\ Tail(evs)[i] = evs[i + 1]
      /\ \A i \in DOMAIN evs : i # 1 => i - 1 \in DOMAIN Tail(evs) /\ Tail(evs)[i - 1] = evs[i]
  <2>1. Len(evs) \in Nat /\ DOMAIN evs = 1 .. Len(evs) /\ Len(evs) > 0 /\ Head(evs) = evs[1]
    OBVIOUS
  <2>2. /\ DOMAIN Tail(evs) = 1 .. Len(evs) - 1
        /\ \A i \in 1 .. Len(evs) - 1 : Tail(evs)[i] = evs[i + 1]
    OBVIOUS
  <2>3. ASSUME NEW i \in DOMAIN evs, i # 1
        PROVE  i - 1 \in DOMAIN Tail(evs) /\ Tail(evs)[i - 1] = evs[i]
    <3>1. i - 1 \in 1 .. Len(evs) - 1 /\ (i - 1) + 1 = i
      BY <2>1, <2>3
    <3> QED  BY <2>2, <3>1
  <2>4. \A i \in DOMAIN Tail(evs) : i + 1 \in DOMAIN evs
    BY <2>1, <2>2
  <2> QED  BY <2>1, <2>2, <2>3, <2>4
<1>2. LastTells(Tail(evs), r, s)
  <2> SUFFICES ASSUME NEW i \in DOMAIN Tail(evs), Tail(evs)[i].to = r,
                      \A j \in DOMAIN Tail(evs) : i < j => Tail(evs)[j].to # r
               PROVE  Tail(evs)[i].snapshot = s
    BY DEF LastTells
  <2>1. ASSUME NEW j \in DOMAIN evs, i + 1 < j  PROVE evs[j].to # r
    <3>1. i \in Nat /\ j \in Nat /\ j # 1 /\ i < j - 1
      BY <1>1, <2>1
    <3> QED  BY <1>1, <3>1
  <2> QED  BY <1>1, <2>1 DEF LastTells
<1>3. HasBlock(Tail(evs), r) => HasBlock(evs, r)
  BY <1>1 DEF HasBlock
<1>4. ASSUME ~HasBlock(Tail(evs), r)
      PROVE  \A j \in DOMAIN evs : j # 1 => evs[j].to # r
  BY <1>1, <1>4 DEF HasBlock
<1>5. ASSUME ~HasBlock(Tail(evs), r), Head(evs).to = r  PROVE Head(evs).snapshot = s
  <2>1. \A j \in DOMAIN evs : 1 < j => evs[j].to # r
    BY <1>1, <1>4, <1>5
  <2> QED  BY <1>1, <1>5, <2>1 DEF LastTells
<1>6. ASSUME ~HasBlock(Tail(evs), r), Head(evs).to # r  PROVE ~HasBlock(evs, r)
  BY <1>1, <1>4, <1>6 DEF HasBlock
<1> QED  BY <1>2, <1>3, <1>5, <1>6

\* Blocks are added that all tell s; for an observer without one among them
\* nothing changes.
LEMMA BlocksAdded ==
    ASSUME NEW evs \in Seq(Event), NEW added \in Seq(Event), NEW r, NEW s
    PROVE  LET all == evs \o added IN
           /\ HasBlock(all, r) <=> HasBlock(evs, r) \/ HasBlock(added, r)
           /\ HasBlock(added, r) /\ (\A i \in DOMAIN added : added[i].snapshot = s)
                 => LastTells(all, r, s)
           /\ ~HasBlock(added, r) /\ LastTells(evs, r, s) => LastTells(all, r, s)
<1> DEFINE all == evs \o added
<1>1. /\ Len(evs) \in Nat /\ Len(added) \in Nat
      /\ DOMAIN evs = 1 .. Len(evs) /\ DOMAIN added = 1 .. Len(added)
      /\ DOMAIN all = 1 .. Len(evs) + Len(added)
      /\ \A i \in DOMAIN evs : i \in DOMAIN all /\ all[i] = evs[i]
      /\ \A i \in DOMAIN added : Len(evs) + i \in DOMAIN all /\ all[Len(evs) + i] = added[i]
      /\ \A i \in DOMAIN all : i \notin DOMAIN evs =>
            i - Len(evs) \in DOMAIN added /\ all[i] = added[i - Len(evs)]
  OBVIOUS
<1> HIDE DEF all
<1>2. HasBlock(all, r) <=> HasBlock(evs, r) \/ HasBlock(added, r)
  BY <1>1 DEF HasBlock
<1>3. ASSUME HasBlock(added, r), \A i \in DOMAIN added : added[i].snapshot = s
      PROVE  LastTells(all, r, s)
  <2> SUFFICES ASSUME NEW i \in DOMAIN all, all[i].to = r,
                      \A j \in DOMAIN all : i < j => all[j].to # r
               PROVE  all[i].snapshot = s
    BY DEF LastTells
  <2>1. PICK m \in DOMAIN added : added[m].to = r
    BY <1>3 DEF HasBlock
  <2>2. i \notin DOMAIN evs
    BY <1>1, <2>1
  <2> QED  BY <1>1, <1>3, <2>2
<1>4. ASSUME ~HasBlock(added, r), LastTells(evs, r, s)  PROVE LastTells(all, r, s)
  <2> SUFFICES ASSUME NEW i \in DOMAIN all, all[i].to = r,
                      \A j \in DOMAIN all : i < j => all[j].to # r
               PROVE  all[i].snapshot = s
    BY DEF LastTells
  <2>1. i \in DOMAIN evs
    BY <1>1, <1>4 DEF HasBlock
  <2>2. \A j \in DOMAIN evs : i < j => evs[j].to # r
    BY <1>1
  <2> QED  BY <1>1, <1>4, <2>1, <2>2 DEF LastTells
<1> QED  BY <1>2, <1>3, <1>4 DEF all

\* What a step of the library does to device e: nothing that its observers see,
\* or every observer is told what the view shows after it.
Unmoved(e) == /\ events'[e] = events[e] /\ complete'[e] = complete[e]
              /\ complete[e] => View(e)' = View(e)
Renewed(e) == events'[e] = events[e] \o Notices(e, View(e)') /\ complete'[e]

LEMMA RaiseMoves ==
    ASSUME DBTypeInv, NEW d \in Device, NEW full \in BOOLEAN, NEW shown,
           View(d)' = shown, Raise(d, shown, full), complete[d] => full, complete'[d] = full
    PROVE  Unmoved(d) \/ Renewed(d)
<1>1. complete[d] \in BOOLEAN
  BY DEF DBTypeInv, DBTypeOK
<1>2. events'[d] = IF full /\ (View(d)' # View(d) \/ ~complete[d])
                   THEN events[d] \o Notices(d, View(d)') ELSE events[d]
  BY DEF Raise, DBTypeInv, DBTypeOK
<1> QED  BY <1>1, <1>2 DEF Unmoved, Renewed

LEMMA SameView ==
    ASSUME NEW e \in Device, writes'[e] = writes[e], cache'[e] = cache[e],
           events'[e] = events[e], complete'[e] = complete[e]
    PROVE  Unmoved(e)
BY DEF Unmoved, View, Overlay

\* Setting a value shows it at once.
LEMMA SetValueMoves ==
    ASSUME DBTypeInv, DBTypeInv', NEW d \in Device, NEW k \in Key, NEW v \in Value, SetValue(d, k, v)
    PROVE  registrations' = registrations /\ \A e \in Device : Unmoved(e) \/ Renewed(e)
<1> DEFINE w == [id |-> nextWriteId[d], key |-> k, value |-> v]
<1>1. /\ writes' = [writes EXCEPT ![d] = @ \cup {w}] /\ cache' = cache /\ complete' = complete
      /\ registrations' = registrations /\ Raise(d, Overlay(writes[d] \cup {w}, cache[d]), complete[d])
  BY DEF SetValue
<1> HIDE DEF w
<1>2. View(d)' = Overlay(writes[d] \cup {w}, cache[d])
  BY <1>1 DEF View, Overlay, DBTypeInv, DBTypeOK
<1>3. Unmoved(d) \/ Renewed(d)
  <2>1. complete[d] \in BOOLEAN /\ complete'[d] = complete[d]
    BY <1>1 DEF DBTypeInv, DBTypeOK
  <2> QED  BY <1>1, <1>2, <2>1, RaiseMoves
<1>4. \A e \in Device : e # d => Unmoved(e)
  BY <1>1, SameView DEF Raise, DBTypeInv, DBTypeOK
<1> QED  BY <1>1, <1>3, <1>4

LEMMA AckWriteMoves ==
    ASSUME DBTypeInv, DBTypeInv', NEW d \in Device, NEW answer, AckWrite(d, answer),
           cache' = cache, complete' = complete
    PROVE  \A e \in Device : Unmoved(e) \/ Renewed(e)
<1> DEFINE left == {w \in writes[d] : w.id # answer.id}
<1>1. writes' = [writes EXCEPT ![d] = left] /\ Raise(d, Overlay(left, cache[d]), complete[d])
  BY DEF AckWrite
<1> HIDE DEF left
<1>2. View(d)' = Overlay(left, cache[d])
  BY <1>1 DEF View, Overlay, DBTypeInv, DBTypeOK
<1>3. Unmoved(d) \/ Renewed(d)
  <2>1. complete[d] \in BOOLEAN /\ complete'[d] = complete[d]
    BY <1>1 DEF DBTypeInv, DBTypeOK
  <2> QED  BY <1>1, <1>2, <2>1, RaiseMoves
<1>4. \A e \in Device : e # d => Unmoved(e)
  BY <1>1, SameView DEF Raise, DBTypeInv, DBTypeOK
<1> QED  BY <1>3, <1>4

\* What the library does tells every observer, if it changes the view.
LEMMA LibraryMoves ==
    ASSUME DBTypeInv, DBTypeInv', NEW d \in Device, Library(d)
    PROVE  registrations' = registrations /\ \A e \in Device : Unmoved(e) \/ Renewed(e)
<1>1. CASE Connect(d) \/ ReceiveListenOk(d)
  BY <1>1, SameView DEF Connect, ReceiveListenOk, putVars, viewVars
<1>2. CASE ReceiveData(d)
  <2> DEFINE data == Head(down[d]).snapshot
  <2>1. /\ cache' = [cache EXCEPT ![d] = data] /\ Raise(d, Overlay(writes[d], data), TRUE)
        /\ complete' = [complete EXCEPT ![d] = TRUE]
        /\ writes' = writes /\ registrations' = registrations
    BY <1>2 DEF ReceiveData, putVars
  <2> HIDE DEF data
  <2>2. View(d)' = Overlay(writes[d], data)
    BY <2>1 DEF View, Overlay, DBTypeInv, DBTypeOK
  <2>3. Unmoved(d) \/ Renewed(d)
    <3>1. complete[d] \in BOOLEAN /\ complete'[d] \in {TRUE, complete[d]}
      BY <2>1 DEF DBTypeInv, DBTypeOK
    <3> QED  BY <2>1, <2>2, <3>1, RaiseMoves DEF DBTypeInv, DBTypeOK
  <2>4. \A e \in Device : e # d => Unmoved(e)
    <3>1. \A e \in Device : e # d => /\ writes'[e] = writes[e] /\ cache'[e] = cache[e]
                                     /\ events'[e] = events[e] /\ complete'[e] = complete[e]
      BY <2>1 DEF Raise, DBTypeInv, DBTypeOK
    <3> QED  BY <3>1, SameView
  <2> QED  BY <2>1, <2>3, <2>4
<1>3. CASE ReceiveSet(d)
  <2> DEFINE data == Cached(d, Head(down[d]))
  <2>1. /\ cache' = [cache EXCEPT ![d] = data] /\ Raise(d, Overlay(writes[d], data), complete[d])
        /\ complete' = complete /\ writes' = writes /\ registrations' = registrations
    BY <1>3 DEF ReceiveSet, putVars
  <2> HIDE DEF data
  <2>2. View(d)' = Overlay(writes[d], data)
    BY <2>1 DEF View, Overlay, DBTypeInv, DBTypeOK
  <2>3. Unmoved(d) \/ Renewed(d)
    <3>1. complete[d] \in BOOLEAN /\ complete'[d] \in {TRUE, complete[d]}
      BY <2>1 DEF DBTypeInv, DBTypeOK
    <3> QED  BY <2>1, <2>2, <3>1, RaiseMoves DEF DBTypeInv, DBTypeOK
  <2>4. \A e \in Device : e # d => Unmoved(e)
    <3>1. \A e \in Device : e # d => /\ writes'[e] = writes[e] /\ cache'[e] = cache[e]
                                     /\ events'[e] = events[e] /\ complete'[e] = complete[e]
      BY <2>1 DEF Raise, DBTypeInv, DBTypeOK
    <3> QED  BY <3>1, SameView
  <2> QED  BY <2>1, <2>3, <2>4
<1>4. CASE ReceiveAnswer(d)
  <2>1. cache' = cache /\ complete' = complete /\ registrations' = registrations
    BY <1>4 DEF ReceiveAnswer
  <2>2. CASE UNCHANGED <<writes, events>>
    BY <2>1, <2>2, SameView
  <2>3. CASE AckWrite(d, Head(down[d]).answer)
    BY <2>1, <2>3, AckWriteMoves
  <2> QED  BY <1>4, <2>1, <2>2, <2>3 DEF ReceiveAnswer
<1>5. CASE AckPuts(d)
  BY <1>5, AckWriteMoves DEF AckPuts
<1> QED  BY <1>1, <1>2, <1>3, <1>4, <1>5 DEF Library

\* The server and a lost connection leave the views alone.
LEMMA OthersUnmoved ==
    ASSUME NEW d \in Device, Server(d) \/ Disconnect(d)
    PROVE  registrations' = registrations /\ \A e \in Device : Unmoved(e)
<1>1. /\ writes' = writes /\ cache' = cache /\ events' = events /\ complete' = complete
      /\ registrations' = registrations
  BY DEF Server, ServerListen, ServerLoad, ServerPut, ServerReject, Disconnect, putVars, viewVars
<1> QED  BY <1>1, SameView

\* A new observer of a complete view is told what it shows.
LEMMA ObserveMoves ==
    ASSUME DBTypeInv, NEW d \in Device, NEW r \in Observer, NEW regs, Observe(d, r, regs)
    PROVE  /\ registrations' = [registrations EXCEPT ![d] = regs]
           /\ complete' = complete /\ \A e \in Device : View(e)' = View(e)
           /\ events' = [events EXCEPT ![d] =
                 @ \o IF complete[d] THEN <<[to |-> r, snapshot |-> View(d)]>> ELSE <<>>]
<1>1. /\ registrations' = [registrations EXCEPT ![d] = regs] /\ complete' = complete
      /\ writes' = writes /\ cache' = cache
      /\ events' = [events EXCEPT ![d] =
            IF complete[d] THEN Append(@, [to |-> r, snapshot |-> View(d)]) ELSE @]
  BY DEF Observe, putVars
<1>2. \A e \in Device : View(e)' = View(e)
  BY <1>1 DEF View, Overlay
<1> DEFINE told == [to |-> r, snapshot |-> View(d)]
<1>3. told \in Event /\ events[d] \in Seq(Event)
  BY ViewType DEF Event, DBTypeInv, DBTypeOK
<1> HIDE DEF told
<1>4. Append(events[d], told) = events[d] \o <<told>> /\ events[d] = events[d] \o <<>>
  BY <1>3
<1> QED  BY <1>1, <1>2, <1>4 DEF told

\* The blocks of a change, one for each observer there is.
LEMMA NoticesTold ==
    ASSUME DBTypeInv, NEW d \in Device, NEW s \in Snapshot
    PROVE  /\ Notices(d, s) \in Seq(Event)
           /\ \A i \in DOMAIN Notices(d, s) : Notices(d, s)[i].snapshot = s
           /\ \A i \in DOMAIN registrations[d] : HasBlock(Notices(d, s), registrations[d][i])
           /\ \A r : HasBlock(Notices(d, s), r) => r \in Range(registrations[d])
<1>1. registrations[d] \in Seq(Observer) /\ Len(registrations[d]) \in Nat
  BY DEF DBTypeInv, DBTypeOK
<1>2. DOMAIN registrations[d] = 1 .. Len(registrations[d])
  BY <1>1
<1>3. /\ DOMAIN Notices(d, s) = DOMAIN registrations[d]
      /\ \A i \in DOMAIN registrations[d] : /\ Notices(d, s)[i].to = registrations[d][i]
                                            /\ Notices(d, s)[i].snapshot = s
  BY <1>2 DEF Notices
<1>4. Notices(d, s) \in Seq(Event)
  BY <1>1 DEF Notices, Event
<1> DEFINE n == Notices(d, s)
<1> HIDE DEF n
<1>5. /\ DOMAIN n = DOMAIN registrations[d]
      /\ \A i \in DOMAIN registrations[d] : n[i].to = registrations[d][i]
  BY <1>3 DEF n
<1>6. \A i \in DOMAIN registrations[d] : HasBlock(n, registrations[d][i])
  BY <1>5 DEF HasBlock
<1>7. ASSUME NEW r, HasBlock(n, r)  PROVE r \in Range(registrations[d])
  BY <1>5, <1>7 DEF HasBlock, Range
<1> QED  BY <1>3, <1>4, <1>6, <1>7 DEF n

\* A listening device has the whole collection, or it is on its way there.
Completing ==
    \A d \in Device : session[d] = "listening" => complete[d] \/ OfType(down[d], "data") # {}

LEMMA ServerKeeps ==
    ASSUME DBTypeInv, NEW d \in Device, ServerPut(d) \/ ServerReject(d), NEW e \in Device,
           NEW i \in DOMAIN down[e]
    PROVE  i \in DOMAIN down'[e] /\ down'[e][i] = down[e][i]
<1>1. \A q \in Seq(Push), x \in Push : i \in DOMAIN q =>
         i \in DOMAIN Append(q, x) /\ Append(q, x)[i] = q[i] /\ Append(q, x) \in Seq(Push)
  OBVIOUS
<1>2. down[e] \in Seq(Push)
  BY DEF DBTypeInv, DBTypeOK
<1>3. CASE ServerPut(d)
  <2> DEFINE w == Head(up[d]).write
             s == IF session[e] = "listening" THEN Append(down[e], SetOf(w)) ELSE down[e]
  <2>1. /\ w \in Write /\ SetOf(w) \in Push /\ AnswerTo(w, TRUE) \in Push
        /\ down'[e] = IF e = d THEN Append(s, AnswerTo(w, TRUE)) ELSE s
    BY <1>3, ServerPutDown, AnswerTyped
  <2>2. s \in Seq(Push) /\ i \in DOMAIN s /\ s[i] = down[e][i]
    BY <1>1, <1>2, <2>1
  <2> HIDE DEF s, w
  <2> QED  BY <1>1, <2>1, <2>2
<1>4. CASE ServerReject(d)
  <2> DEFINE a == AnswerTo(Head(up[d]).write, FALSE)
  <2>1. a \in Push
    <3>1. Head(up[d]).write \in Write
      BY <1>4, NextRequestType DEF ServerReject, Request
    <3> QED  BY <3>1, AnswerTyped
  <2>2. down' = [down EXCEPT ![d] = Append(@, a)]
    BY <1>4 DEF ServerReject
  <2> HIDE DEF a
  <2> QED  BY <1>1, <1>2, <2>1, <2>2 DEF DBTypeInv, DBTypeOK
<1> QED  BY <1>3, <1>4

LEMMA ServerLoadSends ==
    ASSUME DBTypeInv, NEW d \in Device, ServerLoad(d)
    PROVE  OfType(down'[d], "data") # {}
<1> DEFINE data == [type |-> "data", snapshot |-> store]
           ok == [type |-> "listenOk"]
<1>1. down'[d] = down[d] \o <<data, ok>> /\ down[d] \in Seq(Push)
  BY DEF ServerLoad, DBTypeInv, DBTypeOK
<1>2. data \in Push /\ ok \in Push /\ data.type = "data"
  BY DEF Push, DBTypeInv, DBTypeOK
<1> HIDE DEF data, ok
<1>3. down'[d] = Append(Append(down[d], data), ok) /\ Append(down[d], data) \in Seq(Push)
  BY <1>1, <1>2
<1>4. /\ Len(down[d]) + 1 \in DOMAIN Append(down[d], data)
      /\ Append(down[d], data)[Len(down[d]) + 1] = data
  BY <1>1, <1>2
<1> DEFINE first == Append(down[d], data)
<1> HIDE DEF first
<1>5. \A i \in DOMAIN first : i \in DOMAIN Append(first, ok) /\ Append(first, ok)[i] = first[i]
  BY <1>2, <1>3 DEF first
<1>6. Len(down[d]) + 1 \in DOMAIN down'[d] /\ down'[d][Len(down[d]) + 1] = data
  BY <1>3, <1>4, <1>5 DEF first
<1> QED  BY <1>2, <1>6 DEF OfType

LEMMA CompletingNext == DBInv /\ Completing /\ [DBNext]_dbVars => Completing'
<1> SUFFICES ASSUME DBInv, Completing, [DBNext]_dbVars, NEW e \in Device,
                    session'[e] = "listening", ~complete'[e]
             PROVE  OfType(down'[e], "data") # {}
  BY DEF Completing, OfType
<1> USE DEF DBInv, DBTypeInv, DBTypeOK
<1>1. CASE UNCHANGED <<session, down, complete>>
  BY <1>1 DEF Completing
<1>2. ASSUME NEW d \in Device, NextPush(d, "set") \/ NextPush(d, "listenOk") \/ NextPush(d, "answer"),
             session' = session, complete' = complete
      PROVE  OfType(down'[e], "data") # {}
  <2>1. CASE e # d
    BY <1>2, <2>1 DEF Completing, NextPush
  <2>2. CASE e = d
    <3>1. down[d] \in Seq(Push) /\ down[d] # <<>> /\ Head(down[d]).type # "data" /\ down'[d] = Tail(down[d])
      BY <1>2 DEF NextPush
    <3>2. PICK i \in DOMAIN down[d] : down[d][i].type = "data"
      BY <1>2, <2>2 DEF Completing, OfType
    <3>3. i # 1 /\ i - 1 \in DOMAIN Tail(down[d]) /\ Tail(down[d])[i - 1] = down[d][i]
      <4>1. Head(down[d]) = down[d][1] /\ DOMAIN down[d] = 1 .. Len(down[d]) /\ Len(down[d]) \in Nat
        BY <3>1
      <4>2. PICK n \in Nat : DOMAIN down[d] = 1 .. n /\ Len(down[d]) = n
        BY <4>1
      <4>3. i # 1
        BY <3>1, <3>2, <4>1
      <4>4. i - 1 \in 1 .. n - 1 /\ (i - 1) + 1 = i
        BY <4>2, <4>3
      <4> QED  BY <3>1, <4>2, <4>3, <4>4
    <3> QED  BY <2>2, <3>1, <3>2, <3>3 DEF OfType
  <2> QED  BY <2>1, <2>2
<1>3. ASSUME NEW d \in Device, Library(d)  PROVE OfType(down'[e], "data") # {}
  <2>1. CASE Connect(d)
    BY <2>1, <1>1 DEF Connect, viewVars, Completing
  <2>2. CASE ReceiveData(d)
    BY <2>2 DEF ReceiveData, NextPush, serverVars, Completing
  <2>3. CASE ReceiveSet(d) \/ ReceiveListenOk(d) \/ ReceiveAnswer(d)
    BY <2>3, <1>2 DEF ReceiveSet, ReceiveListenOk, ReceiveAnswer, serverVars, viewVars
  <2>4. CASE AckPuts(d)
    BY <2>4, <1>1 DEF AckPuts, serverVars, linkVars
  <2> QED  BY <1>3, <2>1, <2>2, <2>3, <2>4 DEF Library
<1>4. ASSUME NEW d \in Device, Server(d)  PROVE OfType(down'[e], "data") # {}
  <2>1. complete' = complete
    BY <1>4 DEF Server, ServerListen, ServerLoad, ServerPut, ServerReject, viewVars
  <2>2. CASE ServerListen(d)
    BY <2>1, <2>2 DEF ServerListen, Completing
  <2>3. CASE ServerLoad(d)
    <3>1. CASE e # d
      BY <2>1, <2>3, <3>1 DEF ServerLoad, Completing
    <3>2. CASE e = d
      BY <2>3, <3>2, ServerLoadSends
    <3> QED  BY <3>1, <3>2
  <2>4. CASE ServerPut(d) \/ ServerReject(d)
    <3>1. session' = session
      BY <2>4 DEF ServerPut, ServerReject, serverVars
    <3>2. PICK i \in DOMAIN down[e] : down[e][i].type = "data"
      BY <2>1, <3>1 DEF Completing, OfType
    <3> QED  BY <2>4, <3>2, ServerKeeps DEF OfType
  <2> QED  BY <1>4, <2>2, <2>3, <2>4 DEF Server
<1>5. ASSUME NEW d \in Device, App(d)  PROVE OfType(down'[e], "data") # {}
  BY <1>1, <1>5 DEF App, ObserveParent, ObserveChildren, Observe, SetValue, TakeEvent, serverVars, linkVars
<1>6. ASSUME NEW d \in Device, Disconnect(d) \/ Kill(d)  PROVE OfType(down'[e], "data") # {}
  <2>1. session' = [session EXCEPT ![d] = "closed"] /\ e # d
    BY <1>6 DEF Disconnect, Kill, LoseConnection
  <2> QED  BY <1>6, <2>1 DEF Disconnect, Kill, LoseConnection, viewVars, Completing
<1> QED  BY <1>1, <1>3, <1>4, <1>5, <1>6 DEF DBNext, dbVars, serverVars, linkVars, viewVars

LEMMA CompletingInvariance == DBSpec => []Completing
<1>1. DBInit => Completing
  BY DEF DBInit, Completing
<1> QED  BY <1>1, InitInv, NextInv, CompletingNext, PTL DEF DBSpec

\* Only the app makes writes, and the server stores only what it has made.
LEMMA WritesOnlyLeave ==
    ASSUME BoardInv, NEW d \in Device, Library(d) \/ Server(d) \/ Disconnect(d) \/ Kill(d)
    PROVE  /\ \A e \in Device : writes'[e] \subseteq writes[e]
           /\ \/ store' = store
              \/ ServerPut(d) /\ \E w \in writes[d] : /\ w = Head(up[d]).write
                                                      /\ store' = [store EXCEPT ![w.key] = w.value]
<1> USE DEF BoardInv, DBInv
<1>1. CASE ServerPut(d)
  <2>1. Head(up[d]).write \in writes[d]
    BY <1>1, AnswerIsNewest DEF ServerPut, PutsAgree, HeldAgree
  <2> QED  BY <1>1, <2>1 DEF ServerPut, putVars
<1>2. CASE ServerListen(d) \/ ServerLoad(d) \/ ServerReject(d)
  BY <1>2 DEF ServerListen, ServerLoad, ServerReject, putVars, serverVars
<1>3. CASE Library(d)
  <2>1. CASE Connect(d) \/ ReceiveData(d) \/ ReceiveSet(d) \/ ReceiveListenOk(d)
    BY <2>1 DEF Connect, ReceiveData, ReceiveSet, ReceiveListenOk, putVars, serverVars
  <2>2. ASSUME NEW answer, AckWrite(d, answer)  PROVE \A e \in Device : writes'[e] \subseteq writes[e]
    BY <2>2 DEF AckWrite, DBTypeInv, DBTypeOK
  <2>3. CASE ReceiveAnswer(d)
    BY <2>2, <2>3 DEF ReceiveAnswer, serverVars
  <2>4. CASE AckPuts(d)
    BY <2>2, <2>4 DEF AckPuts, serverVars
  <2> QED  BY <1>3, <2>1, <2>3, <2>4 DEF Library
<1>4. CASE Disconnect(d) \/ Kill(d)
  BY <1>4 DEF Disconnect, Kill, putVars, DBTypeInv, DBTypeOK
<1> QED  BY <1>1, <1>2, <1>3, <1>4 DEF Server

\* A step that neither makes a write nor takes a put from a connection only
\* moves answers from the connection to those held back, or loses them.
LEMMA AnswersOnlyMove ==
    ASSUME BoardInv, NEW d \in Device,
           Library(d) \/ ServerListen(d) \/ ServerLoad(d) \/ Disconnect(d) \/ Kill(d), NEW e \in Device
    PROVE  /\ AnswersDue(e)' \subseteq AnswersDue(e)
           /\ \A i \in DOMAIN putsToAck'[e] :
                 \/ \E j \in DOMAIN putsToAck[e] : putsToAck'[e][i] = putsToAck[e][j]
                 \/ \E m \in AnswersDue(e) : putsToAck'[e][i] = m.answer
<1> USE DEF BoardInv, DBInv
<1>1. CASE Connect(d) \/ ServerListen(d)
  BY <1>1 DEF Connect, ServerListen, putVars, AnswersDue
<1>2. CASE ReceiveData(d) \/ ReceiveSet(d) \/ ReceiveListenOk(d) \/ ServerLoad(d)
  <2>1. AnswersDue(d)' = AnswersDue(d)
    BY <1>2, ReceiveOtherPuts, ServerLoadPuts
  <2>2. e # d => AnswersDue(e)' = AnswersDue(e)
    BY <1>2 DEF ReceiveData, ReceiveSet, ReceiveListenOk, ServerLoad, NextPush, AnswersDue, DBTypeInv, DBTypeOK
  <2>3. putsToAck' = putsToAck
    BY <1>2 DEF ReceiveData, ReceiveSet, ReceiveListenOk, ServerLoad, putVars
  <2> QED  BY <2>1, <2>2, <2>3
<1>3. CASE ReceiveAnswer(d)
  <2> DEFINE answer == Head(down[d]).answer
  <2>1. /\ NextPush(d, "answer") /\ (e # d => down'[e] = down[e] /\ putsToAck'[e] = putsToAck[e])
        /\ UNCHANGED putsToAck \/ putsToAck' = [putsToAck EXCEPT ![d] = Append(@, answer)]
    BY <1>3 DEF ReceiveAnswer, NextPush, DBTypeInv, DBTypeOK
  <2>2. Head(down[d]) \in AnswersDue(d) /\ AnswersDue(d)' \subseteq AnswersDue(d)
    BY <2>1, PushLeaves DEF PutsAgree
  <2>3. CASE e = d /\ putsToAck' = [putsToAck EXCEPT ![d] = Append(@, answer)]
    <3>1. putsToAck[d] \in Seq(Answer) /\ putsToAck'[d] = Append(putsToAck[d], answer)
      BY <2>3 DEF DBTypeInv, DBTypeOK
    <3> HIDE DEF answer
    <3>2. \A i \in DOMAIN putsToAck'[d] :
             \/ \E j \in DOMAIN putsToAck[d] : putsToAck'[d][i] = putsToAck[d][j]
             \/ putsToAck'[d][i] = answer
      BY <3>1
    <3> QED  BY <2>2, <2>3, <3>2 DEF answer
  <2>4. CASE e # d \/ UNCHANGED putsToAck
    BY <2>1, <2>2, <2>4 DEF AnswersDue
  <2> QED  BY <2>1, <2>3, <2>4
<1>4. CASE AckPuts(d)
  <2>1. /\ AnswersDue(e)' = AnswersDue(e) /\ (e # d => putsToAck'[e] = putsToAck[e])
        /\ putsToAck'[d] = Tail(putsToAck[d]) /\ putsToAck[d] # <<>> /\ putsToAck[d] \in Seq(Answer)
    BY <1>4 DEF AckPuts, Acking, linkVars, AnswersDue, DBTypeInv, DBTypeOK
  <2>2. \A i \in DOMAIN Tail(putsToAck[d]) :
           i + 1 \in DOMAIN putsToAck[d] /\ Tail(putsToAck[d])[i] = putsToAck[d][i + 1]
    BY <2>1
  <2> QED  BY <2>1, <2>2
<1>5. CASE Disconnect(d) \/ Kill(d)
  <2>1. down' = [down EXCEPT ![d] = <<>>]
        /\ (putsToAck' = putsToAck \/ putsToAck' = [putsToAck EXCEPT ![d] = <<>>])
    BY <1>5 DEF Disconnect, Kill, LoseConnection, putVars
  <2>2. AnswersDue(e)' \subseteq AnswersDue(e)
    BY <2>1 DEF AnswersDue, Msgs, OfType, DBTypeInv, DBTypeOK
  <2>3. putsToAck'[e] = putsToAck[e] \/ DOMAIN putsToAck'[e] = {}
    BY <2>1 DEF DBTypeInv, DBTypeOK
  <2> QED  BY <2>2, <2>3
<1> QED  BY <1>1, <1>2, <1>3, <1>4, <1>5 DEF Library

\* A write that the library settles has been answered.
LEMMA SettledIsAnswered ==
    ASSUME BoardInv, NEW d \in Device, Library(d), NEW e \in Device, NEW w \in writes[e], w \notin writes'[e]
    PROVE  \/ \E m \in AnswersDue(e) : m.answer.id = w.id
           \/ \E i \in DOMAIN putsToAck[e] : putsToAck[e][i].id = w.id
<1> USE DEF BoardInv, DBInv
<1>1. CASE Connect(d) \/ ReceiveData(d) \/ ReceiveSet(d) \/ ReceiveListenOk(d)
  BY <1>1 DEF Connect, ReceiveData, ReceiveSet, ReceiveListenOk, putVars
<1>2. ASSUME NEW answer, AckWrite(d, answer)  PROVE e = d /\ w.id = answer.id
  BY <1>2 DEF AckWrite, DBTypeInv, DBTypeOK
<1>3. CASE ReceiveAnswer(d)
  <2>1. NextPush(d, "answer") /\ AckWrite(d, Head(down[d]).answer)
    BY <1>3 DEF ReceiveAnswer
  <2>2. Head(down[d]) \in AnswersDue(d)
    BY <2>1, PushLeaves DEF PutsAgree
  <2> QED  BY <1>2, <2>1, <2>2
<1>4. CASE AckPuts(d)
  <2>1. AckWrite(d, Head(putsToAck[d])) /\ putsToAck[d] # <<>> /\ putsToAck[d] \in Seq(Answer)
    BY <1>4 DEF AckPuts, Acking, DBTypeInv, DBTypeOK
  <2>2. 1 \in DOMAIN putsToAck[d] /\ Head(putsToAck[d]) = putsToAck[d][1]
    BY <2>1
  <2> QED  BY <1>2, <2>1, <2>2
<1> QED  BY <1>1, <1>3, <1>4 DEF Library

LEMMA NextViewType ==
    ASSUME DBTypeInv', NEW d \in Device
    PROVE  View(d)' \in Snapshot
<1>1. /\ writes'[d] \in SUBSET Write /\ cache'[d] \in Snapshot /\ nextWriteId'[d] \in Nat
      /\ \A w \in writes'[d] : w.id < nextWriteId'[d]
  BY DEF DBTypeInv, DBTypeOK, WritesBounded
<1>2. Overlay(writes'[d], cache'[d]) \in Snapshot
  BY <1>1, OverlayType
<1> QED  BY <1>2 DEF View, Overlay

\* A step that moves the view or not keeps the last block up to date, and an
\* observer that is left without a block has missed nothing.
LEMMA BlocksMove ==
    ASSUME DBTypeInv, DBTypeInv', NEW e \in Device, NEW r \in Range(registrations[e]),
           Unmoved(e) \/ Renewed(e), complete'[e],
           complete[e] => LastTells(events[e], r, View(e))
    PROVE  /\ LastTells(events'[e], r, View(e)')
           /\ \/ HasBlock(events'[e], r)
              \/ complete[e] /\ ~HasBlock(events[e], r) /\ View(e)' = View(e)
<1>1. CASE Unmoved(e)
  BY <1>1 DEF Unmoved
<1>2. CASE Renewed(e)
  <2> DEFINE s == View(e)'
             added == Notices(e, s)
  <2>1. s \in Snapshot
    BY NextViewType
  <2>2. events'[e] = events[e] \o added
    BY <1>2 DEF Renewed
  <2> HIDE DEF s
  <2>3. /\ added \in Seq(Event) /\ HasBlock(added, r)
        /\ \A i \in DOMAIN added : added[i].snapshot = s
    BY <2>1, NoticesTold DEF Range
  <2> HIDE DEF added
  <2>4. events[e] \in Seq(Event)
    BY DEF DBTypeInv, DBTypeOK
  <2>5. LastTells(events'[e], r, s) /\ HasBlock(events'[e], r)
    BY <2>2, <2>3, <2>4, BlocksAdded
  <2> QED  BY <2>5 DEF s
<1> QED  BY <1>1, <1>2

-----------------------------------------------------------------------------
(* Every step of the library and of the server is one of the board, or     *)
(* none: a put that the server takes commits its write, one that it refuses *)
(* refuses it, an acknowledgement settles it.                              *)

RepliedIds == [d \in Device |-> Replied(d)]

\* What a step does to the replies of device e.
LEMMA RepliedAs ==
    ASSUME DBTypeInv, NEW e \in Device
    PROVE  /\ RepliedIds[e] = HeldIds(e) \cup {m.answer.id : m \in AnswersDue(e)}
           /\ DBTypeInv' => RepliedIds'[e] =
                 {putsToAck'[e][i].id : i \in DOMAIN putsToAck'[e]} \cup {m.answer.id : m \in AnswersDue(e)'}
<1>1. ArrivingIds(e) = {m.answer.id : m \in AnswersDue(e)}
  BY AnswersOfMsgs
<1>2. ArrivingIds(e)' = {m.answer.id : m \in AnswersDue(e)'}
  BY DEF ArrivingIds, AnswersDown, AnswersDue, Msgs
<1> QED  BY <1>1, <1>2 DEF RepliedIds, Replied, HeldIds

LEMMA SameReplies ==
    ASSUME DBTypeInv, DBTypeInv', NEW e \in Device,
           putsToAck'[e] = putsToAck[e], AnswersDue(e)' = AnswersDue(e)
    PROVE  RepliedIds'[e] = RepliedIds[e]
<1> DEFINE arriving(S) == {m.answer.id : m \in S}
<1>1. RepliedIds[e] = HeldIds(e) \cup arriving(AnswersDue(e))
  BY RepliedAs
<1>2. RepliedIds'[e] = {putsToAck'[e][i].id : i \in DOMAIN putsToAck'[e]} \cup arriving(AnswersDue(e)')
  BY RepliedAs
<1>3. arriving(AnswersDue(e)') = arriving(AnswersDue(e))
  OBVIOUS
<1>4. {putsToAck'[e][i].id : i \in DOMAIN putsToAck'[e]} = HeldIds(e)
  BY DEF HeldIds
<1> HIDE DEF arriving
<1> QED  BY <1>1, <1>2, <1>3, <1>4

\* A step that neither decides nor settles a write.
LEMMA BoardStutters ==
    ASSUME DBTypeInv, DBTypeInv', UNCHANGED <<store, writes, putsToAck>>,
           \A e \in Device : AnswersDue(e)' = AnswersDue(e)
    PROVE  UNCHANGED Board!boardVars
<1>1. \A e \in Device : RepliedIds'[e] = RepliedIds[e]
  BY SameReplies
<1>2. RepliedIds' = RepliedIds
  BY <1>1 DEF RepliedIds
<1> QED  BY <1>2 DEF Board!boardVars, RepliedIds

\* The replies after a step that changes those of one device only.
LEMMA RepliesOfOne ==
    ASSUME DBTypeInv, DBTypeInv', NEW d \in Device, NEW R,
           RepliedIds'[d] = R,
           \A e \in Device : e # d => putsToAck'[e] = putsToAck[e] /\ AnswersDue(e)' = AnswersDue(e)
    PROVE  RepliedIds' = [RepliedIds EXCEPT ![d] = R]
<1>1. \A e \in Device : e # d => RepliedIds'[e] = RepliedIds[e]
  BY SameReplies
<1> QED  BY <1>1 DEF RepliedIds

LEMMA AppRefines ==
    ASSUME BoardInv, BoardInv', NEW d \in Device, App(d)
    PROVE  [Board!BoardNext]_Board!boardVars
<1> USE DEF BoardInv, DBInv
<1>1. CASE \E r \in Observer : ObserveParent(d, r) \/ ObserveChildren(d, r)
  <2>1. UNCHANGED <<store, down, writes, putsToAck>>
    BY <1>1 DEF ObserveParent, ObserveChildren, Observe, serverVars, putVars
  <2> QED  BY <2>1, BoardStutters DEF AnswersDue
<1>2. CASE TakeEvent(d)
  <2>1. UNCHANGED <<store, down, writes, putsToAck>>
    BY <1>2 DEF TakeEvent, serverVars, linkVars, putVars
  <2> QED  BY <2>1, BoardStutters DEF AnswersDue
<1>3. ASSUME NEW k \in Key, NEW v \in Value, SetValue(d, k, v)
      PROVE  Board!BoardNext
  <2> DEFINE w == [id |-> nextWriteId[d], key |-> k, value |-> v]
  <2>1. w \in Board!Write /\ w.id = nextWriteId[d]
    BY DEF Board!Write, DBTypeInv, DBTypeOK
  <2>2. UNCHANGED <<store, down, putsToAck>> /\ writes' = [writes EXCEPT ![d] = @ \cup {w}]
    BY <1>3 DEF SetValue, serverVars
  <2> HIDE DEF w
  <2>3. \A e \in Device : RepliedIds'[e] = RepliedIds[e]
    BY <2>2, SameReplies DEF AnswersDue
  <2>4. RepliedIds' = RepliedIds
    BY <2>3 DEF RepliedIds
  <2>5. \A x \in writes[d] : x.id < w.id
    BY <2>1 DEF DBTypeInv, WritesBounded
  <2>6. Board!Issue(d, w)
    BY <2>2, <2>4, <2>5 DEF Board!Issue, RepliedIds
  <2>7. w \in writes'[d]
    BY <2>2 DEF DBTypeInv, DBTypeOK
  <2> QED  BY <2>1, <2>6, <2>7 DEF Board!BoardNext
<1> QED  BY <1>1, <1>2, <1>3 DEF App

\* The acknowledgement of the oldest write settles it.
LEMMA SettleRefines ==
    ASSUME BoardInv, BoardInv', NEW d \in Device, NEW w \in writes[d],
           w.id \in Replied(d), \A v \in writes[d] \ {w} : w.id < v.id,
           writes' = [writes EXCEPT ![d] = @ \ {w}], store' = store,
           \A e \in Device : e # d => putsToAck'[e] = putsToAck[e] /\ AnswersDue(e)' = AnswersDue(e),
           RepliedIds'[d] = Replied(d) \ {w.id}
    PROVE  Board!BoardNext
<1>1. RepliedIds' = [RepliedIds EXCEPT ![d] = Replied(d) \ {w.id}]
  BY RepliesOfOne DEF BoardInv, DBInv
<1>2. Board!Before(d, w) = {}
  <2>1. \A v \in writes[d] : v.id \in Nat
    BY DEF BoardInv, DBInv, DBTypeInv, DBTypeOK, Write
  <2>2. ASSUME NEW v \in writes[d]  PROVE ~(v.id < w.id)
    BY <2>1
  <2> QED  BY <2>2 DEF Board!Before
<1>3. Board!Settle(d, w)
  BY <1>1, <1>2 DEF Board!Settle, RepliedIds
<1> QED  BY <1>3 DEF Board!BoardNext

LEMMA ReceiveAnswerRefines ==
    ASSUME BoardInv, BoardInv', NEW d \in Device, ReceiveAnswer(d)
    PROVE  [Board!BoardNext]_Board!boardVars
<1> USE DEF BoardInv, DBInv
<1> DEFINE answer == Head(down[d]).answer
<1>1. NextPush(d, "answer") /\ ~Acking(d) /\ down[d] # <<>> /\ store' = store
  BY DEF ReceiveAnswer, NextPush, serverVars
<1>2. PICK w \in outstandingPuts[d] :
        /\ w.id = answer.id /\ Outstanding(d, answer) = outstandingPuts[d] \ {w}
        /\ \A v \in outstandingPuts[d] \ {w} : w.id < v.id
  BY <1>1, AnswerIsOldest
<1>3. /\ AnswersDue(d)' \subseteq AnswersDue(d)
      /\ \A m \in AnswersDue(d) : m \in AnswersDue(d)' \/ m = Head(down[d])
      /\ Head(down[d]) \in AnswersDue(d)
      /\ \A m \in AnswersDue(d)' : answer.id < m.answer.id
  BY <1>1, PushLeaves DEF PutsAgree
<1>4. HeldAgree(d) /\ SentAgree(d)
  BY DEF PutsAgree
<1>5. \A e \in Device : e # d => AnswersDue(e)' = AnswersDue(e) /\ putsToAck'[e] = putsToAck[e]
  BY DEF ReceiveAnswer, NextPush, AnswersDue, DBTypeInv, DBTypeOK
<1>6. answer \in Answer /\ putsToAck[d] \in Seq(Answer)
  BY <1>1, NextPushType DEF Push, DBTypeInv, DBTypeOK
<1>7. {m.answer.id : m \in AnswersDue(d)} = {m.answer.id : m \in AnswersDue(d)'} \cup {answer.id}
  BY <1>3
<1>8. answer.id \notin {m.answer.id : m \in AnswersDue(d)'}
  <2>1. \A m \in AnswersDue(d)' : m.answer.id # answer.id
    BY <1>3, <1>6 DEF Answer
  <2> QED  BY <2>1
<1>9. CASE putsToAck' = [putsToAck EXCEPT ![d] = Append(@, answer)] /\ writes' = writes
  <2>1. putsToAck'[d] = Append(putsToAck[d], answer)
    BY <1>9 DEF DBTypeInv, DBTypeOK
  <2> HIDE DEF answer
  <2>2. {putsToAck'[d][i].id : i \in DOMAIN putsToAck'[d]} = HeldIds(d) \cup {answer.id}
    <3>1. /\ Len(putsToAck[d]) \in Nat /\ DOMAIN putsToAck[d] = 1 .. Len(putsToAck[d])
          /\ DOMAIN putsToAck'[d] = 1 .. Len(putsToAck[d]) + 1
          /\ \A i \in DOMAIN putsToAck[d] : putsToAck'[d][i] = putsToAck[d][i]
          /\ putsToAck'[d][Len(putsToAck[d]) + 1] = answer
      BY <1>6, <2>1
    <3>2. ASSUME NEW i \in DOMAIN putsToAck'[d]
          PROVE  putsToAck'[d][i].id \in HeldIds(d) \cup {answer.id}
      <4>1. CASE i \in DOMAIN putsToAck[d]
        BY <3>1, <4>1 DEF HeldIds
      <4>2. CASE i = Len(putsToAck[d]) + 1
        BY <3>1, <4>2
      <4> QED  BY <3>1, <4>1, <4>2
    <3>3. ASSUME NEW i \in DOMAIN putsToAck[d]
          PROVE  putsToAck[d][i].id \in {putsToAck'[d][j].id : j \in DOMAIN putsToAck'[d]}
      BY <3>1
    <3>4. answer.id \in {putsToAck'[d][j].id : j \in DOMAIN putsToAck'[d]}
      BY <3>1
    <3> QED  BY <3>2, <3>3, <3>4 DEF HeldIds
  <2>3. RepliedIds'[d] = RepliedIds[d]
    BY <1>7, <2>2, RepliedAs
  <2>4. \A e \in Device : RepliedIds'[e] = RepliedIds[e]
    BY <1>5, <2>3, SameReplies
  <2>5. RepliedIds' = RepliedIds
    BY <2>4 DEF RepliedIds
  <2> QED  BY <1>1, <1>9, <2>5 DEF Board!boardVars, RepliedIds
<1>10. CASE ~HeldBack(d) /\ AckWrite(d, answer) /\ UNCHANGED putsToAck
  <2>1. putsToAck[d] = <<>>
    BY <1>1, <1>10, NothingHeld DEF HeldBack
  <2>2. DOMAIN putsToAck[d] = {} /\ HeldIds(d) = {}
    BY <2>1 DEF HeldIds
  <2>3. writes[d] = outstandingPuts[d]
    BY <1>4, <2>2 DEF HeldAgree
  <2>4. writes' = [writes EXCEPT ![d] = @ \ {w}]
    <3>1. {v \in writes[d] : v.id # answer.id} = writes[d] \ {w}
      BY <1>2, <1>4, <2>3 DEF HeldAgree
    <3> QED  BY <1>10, <3>1 DEF AckWrite
  <2>5. Replied(d) = {m.answer.id : m \in AnswersDue(d)}
    BY <2>2, RepliedAs DEF RepliedIds
  <2>6. RepliedIds'[d] = {m.answer.id : m \in AnswersDue(d)'}
    BY <1>10, <2>2, RepliedAs
  <2>7. RepliedIds'[d] = Replied(d) \ {w.id} /\ w.id \in Replied(d)
    BY <1>2, <1>7, <1>8, <2>5, <2>6
  <2> QED  BY <1>1, <1>2, <1>5, <2>3, <2>4, <2>7, SettleRefines
<1> QED  BY <1>9, <1>10 DEF ReceiveAnswer

LEMMA AckPutsRefines ==
    ASSUME BoardInv, BoardInv', NEW d \in Device, AckPuts(d)
    PROVE  Board!BoardNext
<1> USE DEF BoardInv, DBInv
<1>1. PICK w \in writes[d] \ outstandingPuts[d] :
              /\ w.id = Head(putsToAck[d]).id
              /\ {v \in writes[d] : v.id # Head(putsToAck[d]).id} = writes[d] \ {w}
              /\ \A v \in writes[d] \ {w} : w.id < v.id
  BY AckIsOldest DEF AckPuts, Acking
<1>2. /\ writes' = [writes EXCEPT ![d] = @ \ {w}] /\ putsToAck'[d] = Tail(putsToAck[d])
      /\ store' = store /\ down' = down
      /\ \A e \in Device : AnswersDue(e)' = AnswersDue(e)
      /\ \A e \in Device : e # d => putsToAck'[e] = putsToAck[e]
  BY <1>1 DEF AckPuts, AckWrite, DBTypeInv, DBTypeOK, serverVars, linkVars, AnswersDue
<1>3. /\ putsToAck[d] \in Seq(Answer) /\ Len(putsToAck[d]) \in Nat /\ Len(putsToAck[d]) > 0
      /\ DOMAIN putsToAck[d] = 1 .. Len(putsToAck[d]) /\ 1 \in DOMAIN putsToAck[d]
      /\ DOMAIN putsToAck'[d] = 1 .. Len(putsToAck[d]) - 1
      /\ Head(putsToAck[d]) = putsToAck[d][1]
      /\ \A i \in DOMAIN putsToAck'[d] : i + 1 \in DOMAIN putsToAck[d] /\ 1 < i + 1
                                         /\ putsToAck'[d][i] = putsToAck[d][i + 1]
      /\ \A i \in DOMAIN putsToAck[d] : i # 1 => i - 1 \in DOMAIN putsToAck'[d]
                                                 /\ putsToAck'[d][i - 1] = putsToAck[d][i]
  <2>1. putsToAck[d] \in Seq(Answer) /\ putsToAck[d] # <<>>
    BY DEF DBTypeInv, DBTypeOK, AckPuts, Acking
  <2> QED  BY <1>2, <2>1
<1>4. HeldAgree(d) /\ SentAgree(d)
  BY DEF PutsAgree
<1>5. \A x \in writes[d] : x.id \in Nat
  BY DEF DBTypeInv, DBTypeOK, Write
<1>6. {putsToAck'[d][i].id : i \in DOMAIN putsToAck'[d]} = HeldIds(d) \ {w.id}
  <2>1. ASSUME NEW i \in DOMAIN putsToAck'[d]
        PROVE  putsToAck'[d][i].id \in HeldIds(d) \ {w.id}
    <3>1. putsToAck[d][1].id < putsToAck[d][i + 1].id
      BY <1>3, <1>4 DEF HeldAgree
    <3>2. w.id # putsToAck[d][i + 1].id
      BY <1>1, <1>3, <1>5, <3>1
    <3> QED  BY <1>3, <3>2 DEF HeldIds
  <2>2. ASSUME NEW i \in DOMAIN putsToAck[d], putsToAck[d][i].id # w.id
        PROVE  putsToAck[d][i].id \in {putsToAck'[d][j].id : j \in DOMAIN putsToAck'[d]}
    <3>1. i # 1
      BY <1>1, <1>3, <2>2
    <3> QED  BY <1>3, <3>1
  <2> QED  BY <2>1, <2>2 DEF HeldIds
<1>7. w.id \notin {m.answer.id : m \in AnswersDue(d)}
  <2> SUFFICES ASSUME NEW m \in AnswersDue(d)  PROVE m.answer.id # w.id
    OBVIOUS
  <2>1. PICK v \in outstandingPuts[d] : v.id = m.answer.id
    BY <1>4 DEF SentAgree
  <2> QED  BY <1>1, <1>4, <2>1 DEF HeldAgree
<1>8. w.id \in HeldIds(d)
  BY <1>1, <1>3 DEF HeldIds
<1>9. Replied(d) = HeldIds(d) \cup {m.answer.id : m \in AnswersDue(d)}
  BY RepliedAs DEF RepliedIds
<1>10. RepliedIds'[d] = Replied(d) \ {w.id}
  BY <1>2, <1>6, <1>7, <1>9, RepliedAs
<1> QED  BY <1>1, <1>2, <1>8, <1>9, <1>10, SettleRefines

LEMMA LibraryRefines ==
    ASSUME BoardInv, BoardInv', NEW d \in Device, Library(d)
    PROVE  [Board!BoardNext]_Board!boardVars
<1> USE DEF BoardInv, DBInv
<1>1. CASE Connect(d)
  <2>1. UNCHANGED <<store, down, writes, putsToAck>>
    BY <1>1 DEF Connect, putVars
  <2> QED  BY <2>1, BoardStutters DEF AnswersDue
<1>2. CASE ReceiveData(d) \/ ReceiveSet(d) \/ ReceiveListenOk(d)
  <2>1. UNCHANGED <<store, writes, putsToAck>>
    BY <1>2 DEF ReceiveData, ReceiveSet, ReceiveListenOk, serverVars, putVars
  <2>2. AnswersDue(d)' = AnswersDue(d)
    BY <1>2, ReceiveOtherPuts
  <2>3. \A e \in Device : e # d => AnswersDue(e)' = AnswersDue(e)
    BY <1>2 DEF ReceiveData, ReceiveSet, ReceiveListenOk, NextPush, AnswersDue, DBTypeInv, DBTypeOK
  <2> QED  BY <2>1, <2>2, <2>3, BoardStutters
<1>3. CASE ReceiveAnswer(d)
  BY <1>3, ReceiveAnswerRefines
<1>4. CASE AckPuts(d)
  BY <1>4, AckPutsRefines
<1> QED  BY <1>1, <1>2, <1>3, <1>4 DEF Library

\* The put that the server takes is the next write of its device to be decided.
LEMMA PutIsDue ==
    ASSUME BoardInv, NEW d \in Device, NextRequest(d, "put")
    PROVE  LET w == Head(up[d]).write IN w \in writes[d] /\ Board!Due(d, w)
<1> USE DEF BoardInv, DBInv
<1> DEFINE w == Head(up[d]).write
<1>1. /\ \A m \in PutsUp(d) : m \in PutsUp(d)' \/ m = Head(up[d])
      /\ Head(up[d]) \in PutsUp(d)
      /\ \A m \in PutsUp(d)' : w.id < m.write.id
  BY RequestLeaves DEF PutsAgree
<1>2. HeldAgree(d) /\ SentAgree(d)
  BY DEF PutsAgree
<1>3. w \in outstandingPuts[d] /\ w \in writes[d]
  BY AnswerIsNewest
<1>4. \A x \in writes[d] : x.id \in Nat
  BY DEF DBTypeInv, DBTypeOK, Write
<1>5. connected[d]
  BY DEF NextRequest, ListensCounted, ListensAgree
<1>6. RepliedIds[d] = HeldIds(d) \cup {m.answer.id : m \in AnswersDue(d)}
  BY RepliedAs
<1>7. w.id \notin RepliedIds[d]
  <2>1. \A m \in AnswersDue(d) : m.answer.id < w.id /\ m.answer.id \in Nat
    BY <1>1, <1>2, MsgTypes DEF SentAgree
  <2>2. w.id \notin HeldIds(d)
    BY <1>2, <1>3 DEF HeldAgree, HeldIds
  <2> QED  BY <1>3, <1>4, <1>6, <2>1, <2>2
<1>8. ASSUME NEW v \in writes[d], v.id < w.id  PROVE v.id \in RepliedIds[d]
  <2>1. CASE v \notin outstandingPuts[d]
    BY <1>2, <1>6, <2>1 DEF HeldAgree, HeldIds
  <2>2. CASE v \in outstandingPuts[d]
    <3>1. ~ \E n \in PutsUp(d) : n.write = v
      BY <1>1, <1>3, <1>4, <1>8
    <3>2. \E m \in AnswersDue(d) : m.answer.id = v.id
      BY <1>2, <1>5, <2>2, <3>1 DEF SentAgree
    <3> QED  BY <1>6, <3>2
  <2> QED  BY <2>1, <2>2
<1> QED  BY <1>3, <1>7, <1>8 DEF Board!Due, Board!Before, RepliedIds

LEMMA ServerRefines ==
    ASSUME BoardInv, BoardInv', NEW d \in Device, Server(d)
    PROVE  [Board!BoardNext]_Board!boardVars
<1> USE DEF BoardInv, DBInv
<1> DEFINE w == Head(up[d]).write
<1>1. CASE ServerListen(d)
  <2>1. UNCHANGED <<store, down, writes, putsToAck>>
    BY <1>1 DEF ServerListen, putVars
  <2> QED  BY <2>1, BoardStutters DEF AnswersDue
<1>2. CASE ServerLoad(d)
  <2>1. UNCHANGED <<store, writes, putsToAck>>
    BY <1>2 DEF ServerLoad, putVars
  <2>2. \A e \in Device : e # d => AnswersDue(e)' = AnswersDue(e)
    BY <1>2 DEF ServerLoad, AnswersDue, DBTypeInv, DBTypeOK
  <2> QED  BY <1>2, <2>1, <2>2, ServerLoadPuts, BoardStutters
<1>3. ASSUME NEW ok \in BOOLEAN,
             AnswersDue(d)' = AnswersDue(d) \cup {AnswerTo(w, ok)},
             \A e \in Device : e # d => AnswersDue(e)' = AnswersDue(e),
             putsToAck' = putsToAck, w \in Write
      PROVE  RepliedIds' = [RepliedIds EXCEPT ![d] = @ \cup {w.id}]
  <2>1. AnswerTo(w, ok).answer.id = w.id
    BY <1>3, AnswerTyped
  <2>2. {m.answer.id : m \in AnswersDue(d)'} = {m.answer.id : m \in AnswersDue(d)} \cup {w.id}
    BY <1>3, <2>1
  <2>3. RepliedIds'[d] = RepliedIds[d] \cup {w.id}
    BY <1>3, <2>2, RepliedAs DEF HeldIds
  <2> QED  BY <1>3, <2>3, RepliesOfOne
<1>4. CASE ServerPut(d)
  <2>1. w \in writes[d] /\ Board!Due(d, w) /\ w \in Write
    BY <1>4, PutIsDue, AnswerIsNewest DEF ServerPut
  <2>2. /\ AnswersDue(d)' = AnswersDue(d) \cup {AnswerTo(w, TRUE)}
        /\ \A e \in Device : e # d => AnswersDue(e)' = AnswersDue(e)
    BY <1>4, ServerPutAnswers
  <2>3. store' = [store EXCEPT ![w.key] = w.value] /\ writes' = writes /\ putsToAck' = putsToAck
    BY <1>4 DEF ServerPut, putVars
  <2>4. RepliedIds' = [RepliedIds EXCEPT ![d] = @ \cup {w.id}]
    BY <1>3, <2>1, <2>2, <2>3
  <2> HIDE DEF w
  <2>5. Board!Commit(d, w)
    BY <2>1, <2>3, <2>4 DEF Board!Commit, Board!Reply, RepliedIds
  <2> QED  BY <2>1, <2>5 DEF Board!BoardNext
<1>5. CASE ServerReject(d)
  <2>1. w \in writes[d] /\ Board!Due(d, w) /\ w \in Write
    BY <1>5, PutIsDue, AnswerIsNewest DEF ServerReject
  <2>2. AnswersDue(d)' = AnswersDue(d) \cup {AnswerTo(w, FALSE)}
    BY <1>5, ServerRejectPuts
  <2>3. \A e \in Device : e # d => AnswersDue(e)' = AnswersDue(e)
    BY <1>5 DEF ServerReject, AnswersDue, DBTypeInv, DBTypeOK
  <2>4. store' = store /\ writes' = writes /\ putsToAck' = putsToAck
    BY <1>5 DEF ServerReject, serverVars, putVars
  <2>5. RepliedIds' = [RepliedIds EXCEPT ![d] = @ \cup {w.id}]
    BY <1>3, <2>1, <2>2, <2>3, <2>4
  <2> HIDE DEF w
  <2>6. Board!Refuse(d, w)
    BY <2>1, <2>4, <2>5 DEF Board!Refuse, Board!Reply, RepliedIds
  <2> QED  BY <2>1, <2>6 DEF Board!BoardNext
<1> QED  BY <1>1, <1>2, <1>4, <1>5 DEF Server

LEMMA LossRefines ==
    ASSUME BoardInv, BoardInv', NEW d \in Device, Disconnect(d) \/ Kill(d)
    PROVE  Board!BoardNext
<1> USE DEF BoardInv, DBInv
<1>1. /\ store' = store /\ down'[d] = <<>>
      /\ \A e \in Device : e # d => down'[e] = down[e] /\ putsToAck'[e] = putsToAck[e]
  <2>1. down' = [down EXCEPT ![d] = <<>>] /\ store' = store
    BY DEF Disconnect, Kill, LoseConnection
  <2>2. putsToAck' = putsToAck \/ putsToAck' = [putsToAck EXCEPT ![d] = <<>>]
    BY DEF Disconnect, Kill, putVars
  <2> QED  BY <2>1, <2>2 DEF DBTypeInv, DBTypeOK
<1>2. AnswersDue(d)' = {} /\ \A e \in Device : e # d => AnswersDue(e)' = AnswersDue(e)
  BY <1>1 DEF AnswersDue, Msgs, OfType
<1>3. RepliedIds'[d] = {putsToAck'[d][i].id : i \in DOMAIN putsToAck'[d]}
  BY <1>2, RepliedAs
<1>4. CASE Disconnect(d)
  <2>1. writes' = writes /\ putsToAck' = putsToAck
    BY <1>4 DEF Disconnect, putVars
  <2>2. RepliedIds'[d] = HeldIds(d)
    BY <1>3, <2>1 DEF HeldIds
  <2>3. RepliedIds' = [RepliedIds EXCEPT ![d] = HeldIds(d)] /\ HeldIds(d) \in SUBSET RepliedIds[d]
    BY <1>1, <1>2, <2>2, RepliesOfOne DEF RepliedIds, Replied
  <2>4. Board!LoseReplies(d)
    BY <1>1, <2>1, <2>3 DEF Board!LoseReplies, RepliedIds
  <2> QED  BY <2>4 DEF Board!BoardNext
<1>5. CASE Kill(d)
  <2>1. writes' = [writes EXCEPT ![d] = {}] /\ putsToAck'[d] = <<>>
    BY <1>5 DEF Kill, DBTypeInv, DBTypeOK
  <2>2. RepliedIds'[d] = {}
    BY <1>3, <2>1
  <2>3. RepliedIds' = [RepliedIds EXCEPT ![d] = {}]
    BY <1>1, <1>2, <2>2, RepliesOfOne
  <2>4. Board!Abandon(d)
    BY <1>1, <2>1, <2>3 DEF Board!Abandon, RepliedIds
  <2> QED  BY <2>4 DEF Board!BoardNext
<1> QED  BY <1>4, <1>5

\* The library on its connections implements what it promises of writes: they
\* are decided one after the other, settled only after a reply and in order, and
\* given up only with their process, for any number of devices and faults.
THEOREM DBImplementsBoard == DBSpec => ImplementsBoard
<1>1. DBInit => Board!BoardInit
  BY DEF DBInit, Board!BoardInit, Replied, HeldIds, ArrivingIds, AnswersDown, OfType, Empty
<1>2. BoardInv /\ BoardInv' /\ [DBNext]_dbVars => [Board!BoardNext]_Board!boardVars
  <2> SUFFICES ASSUME BoardInv, BoardInv', [DBNext]_dbVars
               PROVE  [Board!BoardNext]_Board!boardVars
    OBVIOUS
  <2>1. CASE UNCHANGED dbVars
    <3>1. UNCHANGED <<store, down, writes, putsToAck>>
      BY <2>1 DEF dbVars, serverVars, linkVars, putVars
    <3> QED  BY <3>1, BoardStutters DEF AnswersDue, BoardInv, DBInv
  <2> QED  BY <2>1, AppRefines, LibraryRefines, ServerRefines, LossRefines DEF DBNext
<1> QED  BY <1>1, <1>2, BoardInvariance, PTL DEF DBSpec, ImplementsBoard, Board!BoardSpec

-----------------------------------------------------------------------------
(* Children that stay.  While nothing is refused, what a device shows only *)
(* loses children with its process: a lost connection, a collection that   *)
(* is loaded again or a write that leaves the write tree takes none away.  *)

\* Every child of s is one of t.
Within(s, t) == \A k \in Key : s[k] # NoValue => t[k] # NoValue

\* With cache c and the pushes s on their way: what they have is in the store st,
\* a whole collection has all that comes before it, and the end of its listen
\* follows it.
PushesGrow(c, s, st) ==
    /\ Within(c, st)
    /\ \A i \in DOMAIN s :
          /\ s[i].type = "set" => st[s[i].key] # NoValue
          /\ s[i].type = "data" =>
                /\ Within(c, s[i].snapshot) /\ Within(s[i].snapshot, st)
                /\ i + 1 \in DOMAIN s /\ s[i + 1].type = "listenOk"
    /\ \A i, j \in DOMAIN s : j < i /\ s[i].type = "data" =>
          /\ s[j].type = "set" => s[i].snapshot[s[j].key] # NoValue
          /\ s[j].type = "data" => Within(s[j].snapshot, s[i].snapshot)

\* Child k is cached before the i-th push is taken, or a collection with it is on
\* its way.
Known(c, s, k, i) ==
    \/ c[k] # NoValue
    \/ \E j \in DOMAIN s :
          \/ s[j].type = "data" /\ s[j].snapshot[k] # NoValue
          \/ j < i /\ s[j].type = "set" /\ s[j].key = k

\* The writes ws that the server has taken are known before their answers are
\* taken from s, and those whose answers are held back are known.
AnswersKnown(c, s, held, ws) ==
    /\ \A i \in DOMAIN s : s[i].type = "answer" /\ s[i].answer.ok =>
          \A w \in ws : w.id = s[i].answer.id => Known(c, s, w.key, i)
    /\ \A i \in DOMAIN held : held[i].ok =>
          \A w \in ws : w.id = held[i].id => Known(c, s, w.key, 0)

\* Nothing has been refused.
AllTaken(d) ==
    /\ \A m \in AnswersDue(d) : m.answer.ok
    /\ \A i \in DOMAIN putsToAck[d] : putsToAck[d][i].ok

\* The blocks that wait show more and more, and the view v shows most.
BlocksGrow(evs, v) ==
    /\ \A i, j \in DOMAIN evs : i < j => Within(evs[i].snapshot, evs[j].snapshot)
    /\ \A i \in DOMAIN evs : Within(evs[i].snapshot, v)

PushInv == \A d \in Device : PushesGrow(cache[d], down[d], store)

KnownInv == \A d \in Device : session[d] = "listening" =>
                AnswersKnown(cache[d], down[d], putsToAck[d], writes[d])

CompleteInv == \A d \in Device : IF complete[d] THEN registrations[d] # <<>> ELSE events[d] = <<>>

BlocksInv == rejects = 0 => \A d \in Device : AllTaken(d) /\ BlocksGrow(events[d], View(d))

GrowInv == PushInv /\ KnownInv /\ CompleteInv /\ BlocksInv

\* The places of a sequence without its first element, and of one with another
\* element at its end.
LEMMA TailPlaces ==
    ASSUME NEW S, NEW s \in Seq(S), s # <<>>
    PROVE  /\ 1 \in DOMAIN s /\ Head(s) = s[1] /\ DOMAIN s \subseteq Nat
           /\ \A i \in DOMAIN s : 1 <= i
           /\ \A i \in DOMAIN Tail(s) : i \in Nat /\ i + 1 \in DOMAIN s /\ Tail(s)[i] = s[i + 1]
           /\ \A i \in DOMAIN s : i # 1 => i - 1 \in DOMAIN Tail(s) /\ Tail(s)[i - 1] = s[i]
<1>1. Len(s) \in Nat /\ DOMAIN s = 1 .. Len(s) /\ Len(s) > 0 /\ Head(s) = s[1]
  OBVIOUS
<1>2. /\ DOMAIN Tail(s) = 1 .. Len(s) - 1
      /\ \A i \in 1 .. Len(s) - 1 : Tail(s)[i] = s[i + 1]
  OBVIOUS
<1>3. ASSUME NEW i \in DOMAIN s, i # 1
      PROVE  i - 1 \in DOMAIN Tail(s) /\ Tail(s)[i - 1] = s[i]
  <2>1. i - 1 \in 1 .. Len(s) - 1 /\ (i - 1) + 1 = i
    BY <1>1, <1>3
  <2> QED  BY <1>2, <2>1
<1>4. \A i \in DOMAIN Tail(s) : i \in Nat /\ i + 1 \in DOMAIN s
  BY <1>1, <1>2
<1>5. 1 \in DOMAIN s /\ DOMAIN s \subseteq Nat /\ \A i \in DOMAIN s : 1 <= i
  BY <1>1
<1> QED  BY <1>1, <1>2, <1>3, <1>4, <1>5

LEMMA AppendPlaces ==
    ASSUME NEW S, NEW s \in Seq(S), NEW m \in S
    PROVE  LET n == Len(s) + 1 IN
           /\ Append(s, m) \in Seq(S) /\ n \in DOMAIN Append(s, m) /\ Append(s, m)[n] = m
           /\ \A i \in DOMAIN s : i \in Nat /\ i < n /\ i \in DOMAIN Append(s, m) /\ Append(s, m)[i] = s[i]
           /\ \A i \in DOMAIN Append(s, m) : i \in DOMAIN s \/ i = n
           /\ n \in Nat /\ n \notin DOMAIN s
OBVIOUS

-----------------------------------------------------------------------------
(* The pushes on their way.                                                *)

LEMMA PushesGrowTail ==
    ASSUME NEW s \in Seq(Push), s # <<>>, NEW c \in Snapshot, NEW st, PushesGrow(c, s, st)
    PROVE  PushesGrow(After(c, Head(s)), Tail(s), st)
<1> DEFINE c2 == After(c, Head(s))
           t == Tail(s)
<1>1. /\ 1 \in DOMAIN s /\ Head(s) = s[1] /\ DOMAIN s \subseteq Nat
      /\ \A i \in DOMAIN s : 1 <= i
      /\ \A i \in DOMAIN t : i \in Nat /\ i + 1 \in DOMAIN s /\ t[i] = s[i + 1]
      /\ \A i \in DOMAIN s : i # 1 => i - 1 \in DOMAIN t /\ t[i - 1] = s[i]
  BY TailPlaces
<1>2. \A k \in Key : c2[k] # NoValue =>
         \/ c[k] # NoValue
         \/ s[1].type = "set" /\ s[1].key = k
         \/ s[1].type = "data" /\ s[1].snapshot[k] # NoValue
  BY <1>1 DEF After, Snapshot
<1> HIDE DEF c2, t
<1>3. Within(c2, st)
  BY <1>1, <1>2 DEF PushesGrow, Within
<1>4. ASSUME NEW i \in DOMAIN t
      PROVE  /\ t[i].type = "set" => st[t[i].key] # NoValue
             /\ t[i].type = "data" =>
                  /\ Within(c2, t[i].snapshot) /\ Within(t[i].snapshot, st)
                  /\ i + 1 \in DOMAIN t /\ t[i + 1].type = "listenOk"
  <2>1. i \in Nat /\ i + 1 \in DOMAIN s /\ t[i] = s[i + 1] /\ 1 < i + 1
    BY <1>1
  <2>2. t[i].type = "set" => st[t[i].key] # NoValue
    BY <2>1 DEF PushesGrow
  <2>3. ASSUME t[i].type = "data"
        PROVE  /\ Within(c2, t[i].snapshot) /\ Within(t[i].snapshot, st)
               /\ i + 1 \in DOMAIN t /\ t[i + 1].type = "listenOk"
    <3>1. /\ Within(c, s[i + 1].snapshot) /\ Within(s[i + 1].snapshot, st)
          /\ (i + 1) + 1 \in DOMAIN s /\ s[(i + 1) + 1].type = "listenOk"
      BY <2>1, <2>3 DEF PushesGrow
    <3>2. /\ s[1].type = "set" => s[i + 1].snapshot[s[1].key] # NoValue
          /\ s[1].type = "data" => Within(s[1].snapshot, s[i + 1].snapshot)
      BY <1>1, <2>1, <2>3 DEF PushesGrow
    <3>3. Within(c2, s[i + 1].snapshot)
      BY <1>2, <3>1, <3>2 DEF Within
    <3>4. i + 1 \in DOMAIN t /\ t[i + 1] = s[(i + 1) + 1]
      <4>1. (i + 1) + 1 # 1 /\ ((i + 1) + 1) - 1 = i + 1
        BY <2>1
      <4> QED  BY <1>1, <3>1, <4>1
    <3> QED  BY <2>1, <3>1, <3>3, <3>4
  <2> QED  BY <2>2, <2>3
<1>5. ASSUME NEW i \in DOMAIN t, NEW j \in DOMAIN t, j < i, t[i].type = "data"
      PROVE  /\ t[j].type = "set" => t[i].snapshot[t[j].key] # NoValue
             /\ t[j].type = "data" => Within(t[j].snapshot, t[i].snapshot)
  <2>1. i + 1 \in DOMAIN s /\ t[i] = s[i + 1] /\ j + 1 \in DOMAIN s /\ t[j] = s[j + 1] /\ j + 1 < i + 1
    BY <1>1, <1>5
  <2> QED  BY <1>5, <2>1 DEF PushesGrow
<1>6. PushesGrow(c2, t, st)
  BY <1>3, <1>4, <1>5 DEF PushesGrow
<1> QED  BY <1>6 DEF c2, t

\* A push of one child that the store has, or one without a child.
LEMMA PushesGrowAppend ==
    ASSUME NEW s \in Seq(Push), NEW c, NEW m \in Push, NEW st, NEW st2, PushesGrow(c, s, st),
           \A i \in DOMAIN s : s[i].type = "set" => s[i].key \in Key,
           Within(st, st2), m.type # "data", m.type = "set" => st2[m.key] # NoValue
    PROVE  PushesGrow(c, Append(s, m), st2)
<1> DEFINE n == Len(s) + 1
           t == Append(s, m)
<1>1. /\ n \in DOMAIN t /\ t[n] = m /\ n \in Nat
      /\ \A i \in DOMAIN s : i \in Nat /\ i < n /\ i \in DOMAIN t /\ t[i] = s[i]
      /\ \A i \in DOMAIN t : i \in DOMAIN s \/ i = n
  BY AppendPlaces
<1> HIDE DEF n, t
<1>2. \A r : Within(r, st) => Within(r, st2)
  BY DEF Within
<1>3. ASSUME NEW i \in DOMAIN t
      PROVE  /\ t[i].type = "set" => st2[t[i].key] # NoValue
             /\ t[i].type = "data" =>
                  /\ Within(c, t[i].snapshot) /\ Within(t[i].snapshot, st2)
                  /\ i + 1 \in DOMAIN t /\ t[i + 1].type = "listenOk"
  <2>1. CASE i = n
    BY <1>1, <2>1
  <2>2. CASE i \in DOMAIN s
    <3>1. /\ s[i].type = "set" => st[s[i].key] # NoValue /\ s[i].key \in Key
          /\ s[i].type = "data" =>
                /\ Within(c, s[i].snapshot) /\ Within(s[i].snapshot, st)
                /\ i + 1 \in DOMAIN s /\ s[i + 1].type = "listenOk"
      BY <2>2 DEF PushesGrow
    <3>2. t[i] = s[i] /\ (i + 1 \in DOMAIN s => i + 1 \in DOMAIN t /\ t[i + 1] = s[i + 1])
      BY <1>1, <2>2
    <3> QED  BY <1>2, <3>1, <3>2 DEF Within
  <2> QED  BY <1>1, <2>1, <2>2
<1>4. ASSUME NEW i \in DOMAIN t, NEW j \in DOMAIN t, j < i, t[i].type = "data"
      PROVE  /\ t[j].type = "set" => t[i].snapshot[t[j].key] # NoValue
             /\ t[j].type = "data" => Within(t[j].snapshot, t[i].snapshot)
  <2>1. i \in DOMAIN s /\ j \in DOMAIN s /\ t[i] = s[i] /\ t[j] = s[j]
    BY <1>1, <1>4
  <2> QED  BY <1>4, <2>1 DEF PushesGrow
<1>5. PushesGrow(c, t, st2)
  BY <1>2, <1>3, <1>4 DEF PushesGrow
<1> QED  BY <1>5 DEF t

\* The answer to a listen: the store as a whole.
LEMMA PushesGrowLoad ==
    ASSUME NEW s \in Seq(Push), NEW c, NEW data \in Push, NEW ok \in Push, NEW st, PushesGrow(c, s, st),
           data.type = "data", data.snapshot = st, ok.type = "listenOk"
    PROVE  PushesGrow(c, Append(Append(s, data), ok), st)
<1> DEFINE n == Len(s) + 1
           t == Append(s, data)
           l == Len(t) + 1
           u == Append(t, ok)
<1>1. /\ t \in Seq(Push) /\ n \in DOMAIN t /\ t[n] = data /\ n \in Nat
      /\ \A i \in DOMAIN s : i \in Nat /\ i < n /\ i \in DOMAIN t /\ t[i] = s[i]
      /\ \A i \in DOMAIN t : i \in DOMAIN s \/ i = n
  BY AppendPlaces
<1>2. l = n + 1
  OBVIOUS
<1> HIDE DEF n, t
<1>3. /\ l \in DOMAIN u /\ u[l] = ok /\ l \in Nat
      /\ \A i \in DOMAIN t : i \in Nat /\ i < l /\ i \in DOMAIN u /\ u[i] = t[i]
      /\ \A i \in DOMAIN u : i \in DOMAIN t \/ i = l
  BY <1>1, AppendPlaces
<1> HIDE DEF u, l
<1>4. Within(st, st)
  BY DEF Within
<1>5. ASSUME NEW i \in DOMAIN u
      PROVE  /\ u[i].type = "set" => st[u[i].key] # NoValue
             /\ u[i].type = "data" =>
                  /\ Within(c, u[i].snapshot) /\ Within(u[i].snapshot, st)
                  /\ i + 1 \in DOMAIN u /\ u[i + 1].type = "listenOk"
  <2>1. CASE i = l
    BY <1>3, <2>1
  <2>2. CASE i = n
    <3>1. u[i] = data /\ i + 1 = l
      BY <1>1, <1>2, <1>3, <2>2
    <3> QED  BY <1>3, <1>4, <3>1 DEF PushesGrow
  <2>3. CASE i \in DOMAIN s
    <3>1. /\ s[i].type = "set" => st[s[i].key] # NoValue
          /\ s[i].type = "data" =>
                /\ Within(c, s[i].snapshot) /\ Within(s[i].snapshot, st)
                /\ i + 1 \in DOMAIN s /\ s[i + 1].type = "listenOk"
      BY <2>3 DEF PushesGrow
    <3>2. u[i] = s[i] /\ (i + 1 \in DOMAIN s => i + 1 \in DOMAIN u /\ u[i + 1] = s[i + 1])
      BY <1>1, <1>3, <2>3
    <3> QED  BY <3>1, <3>2
  <2> QED  BY <1>1, <1>3, <2>1, <2>2, <2>3
<1>6. ASSUME NEW i \in DOMAIN u, NEW j \in DOMAIN u, j < i, u[i].type = "data"
      PROVE  /\ u[j].type = "set" => u[i].snapshot[u[j].key] # NoValue
             /\ u[j].type = "data" => Within(u[j].snapshot, u[i].snapshot)
  <2>1. i \in DOMAIN t /\ u[i] = t[i]
    BY <1>3, <1>6
  <2>2. j \in DOMAIN s /\ u[j] = s[j]
    BY <1>1, <1>3, <1>6, <2>1
  <2>3. CASE i = n
    BY <1>1, <2>1, <2>2, <2>3 DEF PushesGrow
  <2>4. CASE i \in DOMAIN s
    BY <1>1, <1>6, <2>1, <2>2, <2>4 DEF PushesGrow
  <2> QED  BY <1>1, <2>1, <2>3, <2>4
<1>7. PushesGrow(c, u, st)
  BY <1>5, <1>6 DEF PushesGrow
<1> QED  BY <1>7 DEF u, t

-----------------------------------------------------------------------------
(* The answers on their way, and those held back.                          *)

LEMMA KnownTail ==
    ASSUME NEW s \in Seq(Push), s # <<>>, NEW c \in Snapshot, NEW st, PushesGrow(c, s, st),
           NEW k \in Key, NEW i \in Nat, NEW j \in Nat, i <= j + 1, Known(c, s, k, i)
    PROVE  Known(After(c, Head(s)), Tail(s), k, j)
<1> DEFINE c2 == After(c, Head(s))
           t == Tail(s)
<1>1. /\ 1 \in DOMAIN s /\ Head(s) = s[1] /\ DOMAIN s \subseteq Nat
      /\ \A h \in DOMAIN s : 1 <= h
      /\ \A h \in DOMAIN s : h # 1 => h - 1 \in DOMAIN t /\ t[h - 1] = s[h]
  BY TailPlaces
<1>2. /\ s[1].type = "data" => c2 = s[1].snapshot
      /\ s[1].type = "set" => \A x \in Key : c2[x] = IF x = s[1].key THEN s[1].value ELSE c[x]
      /\ s[1].type \notin {"data", "set"} => c2 = c
  BY <1>1 DEF After, Snapshot
<1>3. s[1].type = "set" => s[1].value # NoValue
  BY <1>1, ValueAssumption DEF Push
<1> HIDE DEF c2, t
<1>4. CASE c[k] # NoValue
  <2>1. s[1].type = "data" => s[1].snapshot[k] # NoValue
    BY <1>1, <1>4 DEF PushesGrow, Within
  <2> QED  BY <1>2, <1>3, <1>4, <2>1 DEF Known, c2, t
<1>5. ASSUME NEW h \in DOMAIN s, s[h].type = "data", s[h].snapshot[k] # NoValue
      PROVE  Known(c2, t, k, j)
  <2>1. CASE h = 1
    BY <1>2, <1>5, <2>1 DEF Known
  <2>2. CASE h # 1
    BY <1>1, <1>5, <2>2 DEF Known
  <2> QED  BY <2>1, <2>2
<1>6. ASSUME NEW h \in DOMAIN s, h < i, s[h].type = "set", s[h].key = k
      PROVE  Known(c2, t, k, j)
  <2>1. CASE h = 1
    BY <1>2, <1>3, <1>6, <2>1 DEF Known
  <2>2. CASE h # 1
    <3>1. h - 1 \in DOMAIN t /\ t[h - 1] = s[h] /\ h - 1 < j
      BY <1>1, <1>6, <2>2
    <3> QED  BY <1>6, <3>1 DEF Known
  <2> QED  BY <2>1, <2>2
<1> QED  BY <1>4, <1>5, <1>6 DEF Known, c2, t

LEMMA KnownLonger ==
    ASSUME NEW s, NEW t, NEW c, NEW k, NEW i, Known(c, s, k, i),
           \A j \in DOMAIN s : j \in DOMAIN t /\ t[j] = s[j]
    PROVE  Known(c, t, k, i)
BY DEF Known

\* Fewer writes, and fewer answers held back.
LEMMA AnswersKnownFewer ==
    ASSUME NEW s, NEW c, NEW held, NEW held2, NEW ws, NEW ws2, AnswersKnown(c, s, held, ws),
           ws2 \subseteq ws,
           \A i \in DOMAIN held2 : \E j \in DOMAIN held : held2[i] = held[j]
    PROVE  AnswersKnown(c, s, held2, ws2)
BY DEF AnswersKnown

\* A push is taken; if it was an answer, it is over or held back.
LEMMA AnswersKnownTail ==
    ASSUME NEW s \in Seq(Push), s # <<>>, NEW c \in Snapshot, NEW st, PushesGrow(c, s, st),
           NEW held, NEW held2, NEW ws \in SUBSET Write, AnswersKnown(c, s, held, ws),
           \A i \in DOMAIN held2 : \/ \E j \in DOMAIN held : held2[i] = held[j]
                                   \/ Head(s).type = "answer" /\ held2[i] = Head(s).answer
    PROVE  AnswersKnown(After(c, Head(s)), Tail(s), held2, ws)
<1> DEFINE c2 == After(c, Head(s))
           t == Tail(s)
<1>1. /\ 1 \in DOMAIN s /\ Head(s) = s[1]
      /\ \A i \in DOMAIN t : i \in Nat /\ i + 1 \in DOMAIN s /\ t[i] = s[i + 1]
  BY TailPlaces
<1>2. \A k \in Key, i, j \in Nat : i <= j + 1 /\ Known(c, s, k, i) => Known(c2, t, k, j)
  BY KnownTail
<1>3. \A w \in ws : w.key \in Key
  BY DEF Write
<1> HIDE DEF c2, t
<1>4. ASSUME NEW i \in DOMAIN t, t[i].type = "answer", t[i].answer.ok, NEW w \in ws, w.id = t[i].answer.id
      PROVE  Known(c2, t, w.key, i)
  <2>1. i \in Nat /\ i + 1 \in Nat /\ i + 1 <= i + 1 /\ i + 1 \in DOMAIN s /\ t[i] = s[i + 1]
    BY <1>1
  <2>2. Known(c, s, w.key, i + 1)
    BY <1>4, <2>1 DEF AnswersKnown
  <2> QED  BY <1>2, <1>3, <2>1, <2>2
<1>5. ASSUME NEW i \in DOMAIN held2, held2[i].ok, NEW w \in ws, w.id = held2[i].id
      PROVE  Known(c2, t, w.key, 0)
  <2>1. CASE \E j \in DOMAIN held : held2[i] = held[j]
    <3>1. Known(c, s, w.key, 0)
      BY <1>5, <2>1 DEF AnswersKnown
    <3> QED  BY <1>2, <1>3, <3>1
  <2>2. CASE Head(s).type = "answer" /\ held2[i] = Head(s).answer
    <3>1. Known(c, s, w.key, 1)
      BY <1>1, <1>5, <2>2 DEF AnswersKnown
    <3> QED  BY <1>2, <1>3, <3>1
  <2> QED  BY <2>1, <2>2
<1>6. AnswersKnown(c2, t, held2, ws)
  BY <1>4, <1>5 DEF AnswersKnown
<1> QED  BY <1>6 DEF c2, t

\* Another push; if it is an answer, its write is known.
LEMMA AnswersKnownAppend ==
    ASSUME NEW s \in Seq(Push), NEW m \in Push, NEW c, NEW held, NEW ws, AnswersKnown(c, s, held, ws),
           m.type = "answer" /\ m.answer.ok =>
              \A w \in ws : w.id = m.answer.id => Known(c, s, w.key, Len(s) + 1)
    PROVE  AnswersKnown(c, Append(s, m), held, ws)
<1> DEFINE n == Len(s) + 1
           t == Append(s, m)
<1>1. /\ n \in DOMAIN t /\ t[n] = m
      /\ \A i \in DOMAIN s : i \in DOMAIN t /\ t[i] = s[i]
      /\ \A i \in DOMAIN t : i \in DOMAIN s \/ i = n
  BY AppendPlaces
<1>2. m.type = "answer" /\ m.answer.ok => \A w \in ws : w.id = m.answer.id => Known(c, s, w.key, n)
  OBVIOUS
<1> HIDE DEF n, t
<1>3. \A k, i : Known(c, s, k, i) => Known(c, t, k, i)
  BY <1>1, KnownLonger
<1>4. ASSUME NEW i \in DOMAIN t, t[i].type = "answer", t[i].answer.ok, NEW w \in ws, w.id = t[i].answer.id
      PROVE  Known(c, t, w.key, i)
  <2>1. CASE i \in DOMAIN s
    BY <1>1, <1>3, <1>4, <2>1 DEF AnswersKnown
  <2>2. CASE i = n
    BY <1>1, <1>2, <1>3, <1>4, <2>2
  <2> QED  BY <1>1, <2>1, <2>2
<1>5. \A i \in DOMAIN held : held[i].ok => \A w \in ws : w.id = held[i].id => Known(c, t, w.key, 0)
  BY <1>3 DEF AnswersKnown
<1>6. AnswersKnown(c, t, held, ws)
  BY <1>4, <1>5 DEF AnswersKnown
<1> QED  BY <1>6 DEF t

-----------------------------------------------------------------------------
(* Both, step by step.                                                     *)

\* A put adds a child to the store, or replaces one.
LEMMA ServerPutStores ==
    ASSUME BoardInv, NEW d \in Device, ServerPut(d)
    PROVE  LET w == Head(up[d]).write IN
           /\ w \in writes[d] /\ w \in Write /\ store'[w.key] # NoValue /\ Within(store, store')
<1> USE DEF BoardInv, DBInv
<1>1. Head(up[d]).write \in writes[d] /\ Head(up[d]).write \in Write
  BY AnswerIsNewest DEF ServerPut
<1>2. store' = [store EXCEPT ![Head(up[d]).write.key] = Head(up[d]).write.value]
  BY DEF ServerPut
<1> QED  BY <1>1, <1>2, ValueAssumption DEF Within, DBTypeInv, DBTypeOK, Snapshot, Write

LEMMA PushNext ==
    ASSUME BoardInv, PushInv, [DBNext]_dbVars
    PROVE  PushInv'
<1> USE DEF BoardInv, DBInv
<1> SUFFICES ASSUME NEW e \in Device  PROVE PushesGrow(cache[e], down[e], store)'
  BY DEF PushInv
<1>1. /\ PushesGrow(cache[e], down[e], store) /\ down[e] \in Seq(Push) /\ cache[e] \in Snapshot
      /\ \A i \in DOMAIN down[e] : down[e][i] \in Push
  BY DEF PushInv, DBTypeInv, DBTypeOK
<1>2. \A i \in DOMAIN down[e] : down[e][i].type = "set" => down[e][i].key \in Key
  BY <1>1 DEF Push
<1>3. ASSUME store' = store, cache'[e] = cache[e], down'[e] = down[e]
      PROVE  PushesGrow(cache[e], down[e], store)'
  BY <1>1, <1>3 DEF PushesGrow, Within
<1>4. ASSUME store' = store, cache'[e] \in {cache[e], Empty}, down'[e] = <<>>
      PROVE  PushesGrow(cache[e], down[e], store)'
  <2>1. Within(cache'[e], store)
    BY <1>1, <1>4 DEF PushesGrow, Within, Empty
  <2> QED  BY <1>4, <2>1 DEF PushesGrow, Within
<1>5. ASSUME NEW d \in Device, ReceiveData(d) \/ ReceiveSet(d) \/ ReceiveListenOk(d) \/ ReceiveAnswer(d)
      PROVE  PushesGrow(cache[e], down[e], store)'
  <2>1. /\ down[d] # <<>> /\ down'[d] = Tail(down[d]) /\ cache'[d] = After(cache[d], Head(down[d]))
        /\ store' = store /\ (e # d => down'[e] = down[e] /\ cache'[e] = cache[e])
    BY <1>5, PushTaken
  <2>2. e = d => PushesGrow(After(cache[d], Head(down[d])), Tail(down[d]), store)
    BY <1>1, <2>1, PushesGrowTail
  <2>3. e = d => PushesGrow(cache'[e], down'[e], store')
    BY <2>1, <2>2
  <2>4. PushesGrow(cache'[e], down'[e], store') => PushesGrow(cache[e], down[e], store)'
    BY DEF PushesGrow, Within
  <2> QED  BY <1>3, <2>1, <2>3, <2>4
<1>6. ASSUME NEW d \in Device, ServerLoad(d)  PROVE PushesGrow(cache[e], down[e], store)'
  <2> DEFINE data == [type |-> "data", snapshot |-> store]
             ok   == [type |-> "listenOk"]
  <2>1. data \in Push /\ ok \in Push /\ data.type = "data" /\ data.snapshot = store /\ ok.type = "listenOk"
    BY DEF DBTypeInv, DBTypeOK, Push
  <2>2. /\ down' = [down EXCEPT ![d] = @ \o <<data, ok>>] /\ store' = store /\ cache' = cache
    BY <1>6 DEF ServerLoad, viewVars
  <2> HIDE DEF data, ok
  <2>3. e = d => down'[e] = Append(Append(down[e], data), ok)
    <3>1. e = d => down'[e] = down[e] \o <<data, ok>>
      BY <2>2 DEF DBTypeInv, DBTypeOK
    <3>2. \A q \in Seq(Push), x, y \in Push : q \o <<x, y>> = Append(Append(q, x), y)
      OBVIOUS
    <3> QED  BY <1>1, <2>1, <3>1, <3>2
  <2>4. PushesGrow(cache[e], Append(Append(down[e], data), ok), store)
    BY <1>1, <2>1, PushesGrowLoad
  <2>5. e = d => PushesGrow(cache'[e], down'[e], store')
    BY <2>2, <2>3, <2>4
  <2>6. PushesGrow(cache'[e], down'[e], store') => PushesGrow(cache[e], down[e], store)'
    BY DEF PushesGrow, Within
  <2>7. e # d => down'[e] = down[e]
    BY <2>2 DEF DBTypeInv, DBTypeOK
  <2> QED  BY <1>3, <2>2, <2>5, <2>6, <2>7
<1>7. ASSUME NEW d \in Device, ServerPut(d)  PROVE PushesGrow(cache[e], down[e], store)'
  <2> DEFINE w == Head(up[d]).write
             s == IF session[e] = "listening" THEN Append(down[e], SetOf(w)) ELSE down[e]
             a == AnswerTo(w, TRUE)
  <2>1. /\ w \in Write /\ store'[w.key] # NoValue /\ Within(store, store') /\ cache' = cache
    BY <1>7, ServerPutStores DEF ServerPut, viewVars
  <2>2. SetOf(w) \in Push /\ down'[e] = IF e = d THEN Append(s, a) ELSE s
    BY <1>7, ServerPutDown
  <2>3. /\ SetOf(w).type = "set" /\ SetOf(w).key = w.key
        /\ a \in Push /\ a.type = "answer"
    BY <2>1, AnswerTyped DEF SetOf
  <2>4. PushesGrow(cache[e], Append(down[e], SetOf(w)), store')
    BY <1>1, <1>2, <2>1, <2>2, <2>3, PushesGrowAppend
  <2>5. PushesGrow(cache[e], down[e], store')
    BY <1>1, <1>2, <2>1 DEF PushesGrow, Within
  <2>6. s \in Seq(Push) /\ PushesGrow(cache[e], s, store')
    BY <1>1, <2>2, <2>4, <2>5
  <2>7. \A i \in DOMAIN s : s[i] \in Push
    BY <2>6
  <2>8. \A i \in DOMAIN s : s[i].type = "set" => s[i].key \in Key
    BY <2>7 DEF Push
  <2>9. Within(store', store')
    BY DEF Within
  <2> HIDE DEF s, a, w
  <2>10. PushesGrow(cache[e], Append(s, a), store')
    BY <2>3, <2>6, <2>8, <2>9, PushesGrowAppend
  <2>11. PushesGrow(cache'[e], down'[e], store')
    BY <2>1, <2>2, <2>6, <2>10
  <2> QED  BY <2>11 DEF PushesGrow, Within
<1>8. ASSUME NEW d \in Device, ServerReject(d)  PROVE PushesGrow(cache[e], down[e], store)'
  <2> DEFINE a == AnswerTo(Head(up[d]).write, FALSE)
  <2>1. a \in Push /\ a.type = "answer"
    <3>1. Head(up[d]).write \in Write
      BY <1>8, NextRequestType DEF ServerReject, Request
    <3> QED  BY <3>1, AnswerTyped
  <2>2. down' = [down EXCEPT ![d] = Append(@, a)] /\ store' = store /\ cache' = cache
    BY <1>8 DEF ServerReject, serverVars, viewVars
  <2> HIDE DEF a
  <2>3. Within(store, store)
    BY DEF Within
  <2>4. PushesGrow(cache[e], Append(down[e], a), store)
    BY <1>1, <1>2, <2>1, <2>3, PushesGrowAppend
  <2>5. down'[e] = IF e = d THEN Append(down[e], a) ELSE down[e]
    BY <2>2 DEF DBTypeInv, DBTypeOK
  <2>6. e = d => PushesGrow(cache'[e], down'[e], store')
    BY <2>2, <2>4, <2>5
  <2>7. PushesGrow(cache'[e], down'[e], store') => PushesGrow(cache[e], down[e], store)'
    BY DEF PushesGrow, Within
  <2> QED  BY <1>3, <2>2, <2>5, <2>6, <2>7
<1>9. ASSUME NEW d \in Device, Disconnect(d) \/ Kill(d)  PROVE PushesGrow(cache[e], down[e], store)'
  <2>1. /\ down' = [down EXCEPT ![d] = <<>>] /\ store' = store
        /\ cache' = cache \/ cache' = [cache EXCEPT ![d] = Empty]
    BY <1>9 DEF Disconnect, Kill, LoseConnection, viewVars
  <2>2. IF e = d THEN down'[e] = <<>> /\ cache'[e] \in {cache[e], Empty}
                 ELSE down'[e] = down[e] /\ cache'[e] = cache[e]
    BY <2>1 DEF DBTypeInv, DBTypeOK
  <2> QED  BY <1>3, <1>4, <2>1, <2>2
<1>10. ASSUME NEW d \in Device, Connect(d) \/ AckPuts(d) \/ ServerListen(d)
       PROVE  PushesGrow(cache[e], down[e], store)'
  BY <1>3, <1>10 DEF Connect, AckPuts, ServerListen, serverVars, linkVars, viewVars
<1>11. ASSUME NEW d \in Device, App(d)  PROVE PushesGrow(cache[e], down[e], store)'
  BY <1>3, <1>11 DEF App, ObserveParent, ObserveChildren, Observe, SetValue, TakeEvent, serverVars, linkVars
<1>12. CASE UNCHANGED dbVars
  BY <1>3, <1>12 DEF dbVars, serverVars, linkVars, viewVars
<1> QED  BY <1>5, <1>6, <1>7, <1>8, <1>9, <1>10, <1>11, <1>12 DEF DBNext, Library, Server

\* After a put of device d: the set is known to it before the answer is.
LEMMA ServerPutKnown ==
    ASSUME BoardInv, PushInv, KnownInv, NEW d \in Device, ServerPut(d), NEW e \in Device,
           session[e] = "listening"
    PROVE  AnswersKnown(cache[e], down'[e], putsToAck[e], writes[e])
<1> USE DEF BoardInv, DBInv
<1> DEFINE w == Head(up[d]).write
           s == Append(down[e], SetOf(w))
           a == AnswerTo(w, TRUE)
<1>1. /\ w \in writes[d] /\ w \in Write
  BY ServerPutStores
<1>2. SetOf(w) \in Push /\ down'[e] = IF e = d THEN Append(s, a) ELSE s
  BY ServerPutDown
<1>3. /\ SetOf(w).type = "set" /\ SetOf(w).key = w.key
      /\ a \in Push /\ a.type = "answer" /\ a.answer.id = w.id
  BY <1>1, AnswerTyped DEF SetOf
<1>4. down[e] \in Seq(Push) /\ AnswersKnown(cache[e], down[e], putsToAck[e], writes[e])
  BY DEF KnownInv, DBTypeInv, DBTypeOK
<1>5. AnswersKnown(cache[e], s, putsToAck[e], writes[e])
  BY <1>2, <1>3, <1>4, AnswersKnownAppend
<1>6. ASSUME e = d  PROVE AnswersKnown(cache[e], Append(s, a), putsToAck[e], writes[e])
  <2>1. \A v \in writes[e] : v.id = w.id => v = w
    BY <1>1, <1>6 DEF PutsAgree, HeldAgree
  <2>2. Known(cache[e], s, w.key, Len(s) + 1)
    <3>1. /\ Len(down[e]) + 1 \in DOMAIN s /\ s[Len(down[e]) + 1] = SetOf(w)
          /\ s \in Seq(Push)
      BY <1>2, <1>4, AppendPlaces
    <3>2. Len(down[e]) + 1 < Len(s) + 1
      BY <1>2, <1>4
    <3> HIDE DEF s
    <3> QED  BY <1>3, <3>1, <3>2 DEF Known
  <2>3. s \in Seq(Push)
    BY <1>2, <1>4
  <2> HIDE DEF s, a, w
  <2> QED  BY <1>3, <1>5, <2>1, <2>2, <2>3, AnswersKnownAppend
<1> QED  BY <1>2, <1>5, <1>6

\* The answer to a listen has every child that a put has made.
LEMMA ServerLoadKnown ==
    ASSUME BoardInv, NEW d \in Device, ServerLoad(d)
    PROVE  AnswersKnown(cache[d], down'[d], putsToAck[d], writes[d])
<1> USE DEF BoardInv, DBInv
<1> DEFINE data == [type |-> "data", snapshot |-> store]
           ok   == [type |-> "listenOk"]
           t == Append(down[d], data)
<1>1. data \in Push /\ ok \in Push /\ data.type = "data" /\ data.snapshot = store /\ ok.type = "listenOk"
  BY DEF DBTypeInv, DBTypeOK, Push
<1>2. down[d] \in Seq(Push) /\ down'[d] = down[d] \o <<data, ok>>
  BY DEF ServerLoad, DBTypeInv, DBTypeOK
<1> HIDE DEF data, ok
<1>3. down'[d] = Append(t, ok)
  <2>1. \A q \in Seq(Push), x, y \in Push : q \o <<x, y>> = Append(Append(q, x), y)
    OBVIOUS
  <2> QED  BY <1>1, <1>2, <2>1
<1>4. /\ t \in Seq(Push) /\ Len(down[d]) + 1 \in DOMAIN t /\ t[Len(down[d]) + 1] = data
      /\ \A i \in DOMAIN t : i \in DOMAIN down[d] \/ i = Len(down[d]) + 1
      /\ \A i \in DOMAIN down[d] : t[i] = down[d][i]
  BY <1>1, <1>2, AppendPlaces
<1>5. \A k, i : store[k] # NoValue => Known(cache[d], t, k, i)
  BY <1>1, <1>4 DEF Known
<1> HIDE DEF t
<1>6. ASSUME NEW i \in DOMAIN t, t[i].type = "answer", t[i].answer.ok,
             NEW w \in writes[d], w.id = t[i].answer.id
      PROVE  store[w.key] # NoValue
  <2>1. i \in DOMAIN down[d] /\ t[i] = down[d][i]
    BY <1>1, <1>4, <1>6
  <2>2. t[i] \in AnswersDue(d)
    BY <1>6, <2>1 DEF AnswersDue, Msgs, OfType
  <2> QED  BY <1>6, <2>2 DEF CommitsStored, Committed
<1>7. ASSUME NEW i \in DOMAIN putsToAck[d], putsToAck[d][i].ok,
             NEW w \in writes[d], w.id = putsToAck[d][i].id
      PROVE  store[w.key] # NoValue
  BY <1>7 DEF CommitsStored, Committed
<1>8. AnswersKnown(cache[d], t, putsToAck[d], writes[d])
  BY <1>5, <1>6, <1>7 DEF AnswersKnown
<1> QED  BY <1>1, <1>3, <1>4, <1>8, AnswersKnownAppend

LEMMA ReceiveKnown ==
    ASSUME BoardInv, PushInv, KnownInv, NEW d \in Device,
           ReceiveData(d) \/ ReceiveSet(d) \/ ReceiveListenOk(d) \/ ReceiveAnswer(d),
           session[d] = "listening"
    PROVE  AnswersKnown(cache'[d], down'[d], putsToAck'[d], writes'[d])
<1> USE DEF BoardInv, DBInv
<1>1. /\ down[d] \in Seq(Push) /\ down[d] # <<>> /\ down'[d] = Tail(down[d])
      /\ cache[d] \in Snapshot /\ cache'[d] = After(cache[d], Head(down[d]))
  BY PushTaken
<1>2. /\ PushesGrow(cache[d], down[d], store) /\ writes[d] \in SUBSET Write
      /\ AnswersKnown(cache[d], down[d], putsToAck[d], writes[d])
  BY DEF PushInv, KnownInv, DBTypeInv, DBTypeOK
<1>3. writes'[d] \subseteq writes[d]
  BY WritesOnlyLeave DEF Library
<1>4. \A i \in DOMAIN putsToAck'[d] :
         \/ \E j \in DOMAIN putsToAck[d] : putsToAck'[d][i] = putsToAck[d][j]
         \/ Head(down[d]).type = "answer" /\ putsToAck'[d][i] = Head(down[d]).answer
  <2>1. CASE putsToAck' = putsToAck
    BY <2>1
  <2>2. CASE ReceiveAnswer(d) /\ putsToAck' # putsToAck
    <3> DEFINE answer == Head(down[d]).answer
    <3>1. /\ putsToAck'[d] = Append(putsToAck[d], answer) /\ putsToAck[d] \in Seq(Answer)
          /\ Head(down[d]).type = "answer" /\ Head(down[d]) \in Push
      BY <1>1, <2>2, NextPushType DEF ReceiveAnswer, NextPush, DBTypeInv, DBTypeOK
    <3>2. answer \in Answer
      BY <3>1 DEF Push
    <3> HIDE DEF answer
    <3>3. \A i \in DOMAIN putsToAck'[d] :
             \/ \E j \in DOMAIN putsToAck[d] : putsToAck'[d][i] = putsToAck[d][j]
             \/ putsToAck'[d][i] = answer
      BY <3>1, <3>2
    <3> QED  BY <3>1, <3>3 DEF answer
  <2> QED  BY <2>1, <2>2 DEF ReceiveData, ReceiveSet, ReceiveListenOk, putVars
<1>5. AnswersKnown(cache'[d], down'[d], putsToAck'[d], writes[d])
  BY <1>1, <1>2, <1>4, AnswersKnownTail
<1> QED  BY <1>3, <1>5, AnswersKnownFewer

LEMMA KnownNext ==
    ASSUME BoardInv, PushInv, KnownInv, [DBNext]_dbVars
    PROVE  KnownInv'
<1> USE DEF BoardInv, DBInv
<1> SUFFICES ASSUME NEW e \in Device, session'[e] = "listening"
             PROVE  AnswersKnown(cache'[e], down'[e], putsToAck'[e], writes'[e])
  BY DEF KnownInv, AnswersKnown, Known
<1>1. session[e] = "listening" => AnswersKnown(cache[e], down[e], putsToAck[e], writes[e])
  BY DEF KnownInv
<1>2. ASSUME session[e] = "listening", UNCHANGED <<cache[e], down[e], putsToAck[e], writes[e]>>
      PROVE  AnswersKnown(cache'[e], down'[e], putsToAck'[e], writes'[e])
  BY <1>1, <1>2
<1>3. ASSUME NEW d \in Device, ReceiveData(d) \/ ReceiveSet(d) \/ ReceiveListenOk(d) \/ ReceiveAnswer(d)
      PROVE  AnswersKnown(cache'[e], down'[e], putsToAck'[e], writes'[e])
  <2>1. session' = session /\ (e # d => UNCHANGED <<cache[e], down[e]>>)
    BY <1>3, PushTaken
  <2>2. e # d => UNCHANGED <<putsToAck[e], writes[e]>>
    BY <1>3 DEF ReceiveData, ReceiveSet, ReceiveListenOk, ReceiveAnswer, AckWrite, putVars, DBTypeInv, DBTypeOK
  <2> QED  BY <1>2, <1>3, <2>1, <2>2, ReceiveKnown
<1>4. ASSUME NEW d \in Device, AckPuts(d)
      PROVE  AnswersKnown(cache'[e], down'[e], putsToAck'[e], writes'[e])
  <2>1. /\ session' = session /\ cache' = cache /\ down' = down
        /\ putsToAck' = [putsToAck EXCEPT ![d] = Tail(@)] /\ putsToAck[d] # <<>>
        /\ putsToAck[d] \in Seq(Answer)
    BY <1>4 DEF AckPuts, Acking, serverVars, linkVars, DBTypeInv, DBTypeOK
  <2>2. writes'[e] \subseteq writes[e]
    BY <1>4, WritesOnlyLeave DEF Library
  <2>3. \A i \in DOMAIN Tail(putsToAck[d]) : \E j \in DOMAIN putsToAck[d] : Tail(putsToAck[d])[i] = putsToAck[d][j]
    BY <2>1, TailPlaces
  <2>4. \A i \in DOMAIN putsToAck'[e] : \E j \in DOMAIN putsToAck[e] : putsToAck'[e][i] = putsToAck[e][j]
    BY <2>1, <2>3 DEF DBTypeInv, DBTypeOK
  <2> QED  BY <1>1, <2>1, <2>2, <2>4, AnswersKnownFewer
<1>5. ASSUME NEW d \in Device, ServerLoad(d)
      PROVE  AnswersKnown(cache'[e], down'[e], putsToAck'[e], writes'[e])
  <2>1. /\ UNCHANGED <<cache, putsToAck, writes>>
        /\ e # d => session'[e] = session[e] /\ down'[e] = down[e]
    BY <1>5 DEF ServerLoad, viewVars, putVars, DBTypeInv, DBTypeOK
  <2> QED  BY <1>2, <1>5, <2>1, ServerLoadKnown
<1>6. ASSUME NEW d \in Device, ServerPut(d)
      PROVE  AnswersKnown(cache'[e], down'[e], putsToAck'[e], writes'[e])
  <2>1. UNCHANGED <<session, cache, putsToAck, writes>>
    BY <1>6 DEF ServerPut, viewVars, putVars
  <2> QED  BY <1>6, <2>1, ServerPutKnown
<1>7. ASSUME NEW d \in Device, ServerReject(d)
      PROVE  AnswersKnown(cache'[e], down'[e], putsToAck'[e], writes'[e])
  <2> DEFINE a == AnswerTo(Head(up[d]).write, FALSE)
  <2>1. a \in Push /\ ~a.answer.ok
    <3>1. Head(up[d]).write \in Write
      BY <1>7, NextRequestType DEF ServerReject, Request
    <3> QED  BY <3>1, AnswerTyped
  <2>2. /\ UNCHANGED <<session, cache, putsToAck, writes>>
        /\ down' = [down EXCEPT ![d] = Append(@, a)]
    BY <1>7 DEF ServerReject, serverVars, viewVars, putVars
  <2> HIDE DEF a
  <2>3. down[e] \in Seq(Push) /\ down'[e] = IF e = d THEN Append(down[e], a) ELSE down[e]
    BY <2>2 DEF DBTypeInv, DBTypeOK
  <2>4. AnswersKnown(cache[e], Append(down[e], a), putsToAck[e], writes[e])
    BY <1>1, <2>1, <2>2, <2>3, AnswersKnownAppend
  <2> QED  BY <1>1, <2>2, <2>3, <2>4
<1>8. ASSUME NEW d \in Device, NEW k \in Key, NEW v \in Value, SetValue(d, k, v)
      PROVE  AnswersKnown(cache'[e], down'[e], putsToAck'[e], writes'[e])
  <2> DEFINE w == [id |-> nextWriteId[d], key |-> k, value |-> v]
  <2>1. /\ UNCHANGED <<session, cache, down, putsToAck>>
        /\ writes' = [writes EXCEPT ![d] = @ \cup {w}] /\ w.id = nextWriteId[d]
    BY <1>8 DEF SetValue, serverVars
  <2> HIDE DEF w
  <2>2. /\ nextWriteId[d] \in Nat
        /\ \A m \in AnswersDue(d) : m.answer.id < nextWriteId[d]
        /\ \A i \in DOMAIN putsToAck[d] : putsToAck[d][i].id < nextWriteId[d]
    BY AnswersBelow DEF DBTypeInv, DBTypeOK
  <2>3. \A i \in DOMAIN down[d] : down[d][i].type = "answer" => down[d][i].answer.id # w.id
    BY <2>1, <2>2 DEF AnswersDue, Msgs, OfType
  <2>4. \A i \in DOMAIN putsToAck[d] : putsToAck[d][i].id # w.id
    BY <2>1, <2>2
  <2>5. AnswersKnown(cache[d], down[d], putsToAck[d], writes[d])
           => AnswersKnown(cache[d], down[d], putsToAck[d], writes[d] \cup {w})
    BY <2>3, <2>4 DEF AnswersKnown
  <2>6. writes'[e] = IF e = d THEN writes[d] \cup {w} ELSE writes[e]
    BY <2>1 DEF DBTypeInv, DBTypeOK
  <2> QED  BY <1>1, <2>1, <2>5, <2>6
<1>9. ASSUME NEW d \in Device, Connect(d) \/ ServerListen(d) \/ Disconnect(d) \/ Kill(d)
      PROVE  AnswersKnown(cache'[e], down'[e], putsToAck'[e], writes'[e])
  <2>1. \E x \in {"idle", "loading", "closed"} : session' = [session EXCEPT ![d] = x]
    BY <1>9 DEF Connect, ServerListen, Disconnect, Kill, LoseConnection
  <2>2. e # d /\ session[e] = "listening"
    BY <2>1 DEF DBTypeInv, DBTypeOK
  <2>3. UNCHANGED <<cache[e], down[e], putsToAck[e], writes[e]>>
    BY <1>9, <2>2 DEF Connect, ServerListen, Disconnect, Kill, LoseConnection, viewVars, putVars,
                      DBTypeInv, DBTypeOK
  <2> QED  BY <1>2, <2>2, <2>3
<1>10. ASSUME NEW d \in Device, (\E r \in Observer : ObserveParent(d, r) \/ ObserveChildren(d, r)) \/ TakeEvent(d)
       PROVE  AnswersKnown(cache'[e], down'[e], putsToAck'[e], writes'[e])
  BY <1>2, <1>10 DEF ObserveParent, ObserveChildren, Observe, TakeEvent, serverVars, linkVars, putVars
<1>11. CASE UNCHANGED dbVars
  BY <1>2, <1>11 DEF dbVars, serverVars, linkVars, viewVars, putVars
<1> QED  BY <1>3, <1>4, <1>5, <1>6, <1>7, <1>8, <1>9, <1>10, <1>11 DEF DBNext, Library, Server, App

-----------------------------------------------------------------------------
(* The views.                                                              *)

\* A view has the children of its cache and those that are written.
LEMMA OverlayHas ==
    ASSUME NEW ws \in SUBSET Write, NEW base \in Snapshot, NEW n \in Nat, \A w \in ws : w.id < n, NEW k \in Key
    PROVE  Overlay(ws, base)[k] # NoValue <=> base[k] # NoValue \/ \E w \in ws : w.key = k
<1> DEFINE over == {w \in ws : w.key = k}
<1>1. Overlay(ws, base)[k] = IF over = {} THEN base[k] ELSE Newest(over).value
  BY DEF Overlay
<1>2. over # {} => Newest(over) \in over
  BY NewestInSet
<1>3. over # {} => Newest(over).value # NoValue
  BY <1>2, ValueAssumption DEF Write
<1> QED  BY <1>1, <1>3

LEMMA ViewHas ==
    ASSUME DBTypeInv, DBTypeInv', NEW d \in Device, NEW k \in Key
    PROVE  /\ View(d)[k] # NoValue <=> cache[d][k] # NoValue \/ \E w \in writes[d] : w.key = k
           /\ View(d)'[k] # NoValue <=> cache'[d][k] # NoValue \/ \E w \in writes'[d] : w.key = k
<1>1. /\ writes[d] \in SUBSET Write /\ nextWriteId[d] \in Nat /\ cache[d] \in Snapshot
      /\ \A w \in writes[d] : w.id < nextWriteId[d]
  BY DEF DBTypeInv, DBTypeOK, WritesBounded
<1>2. /\ writes'[d] \in SUBSET Write /\ nextWriteId'[d] \in Nat /\ cache'[d] \in Snapshot
      /\ \A w \in writes'[d] : w.id < nextWriteId'[d]
  BY DEF DBTypeInv, DBTypeOK, WritesBounded
<1>3. View(d)' = Overlay(writes'[d], cache'[d])
  BY DEF View, Overlay
<1>4. View(d)[k] # NoValue <=> cache[d][k] # NoValue \/ \E w \in writes[d] : w.key = k
  BY <1>1, OverlayHas DEF View
<1>5. Overlay(writes'[d], cache'[d])[k] # NoValue <=> cache'[d][k] # NoValue \/ \E w \in writes'[d] : w.key = k
  BY <1>2, OverlayHas
<1> QED  BY <1>3, <1>4, <1>5

\* A collection is on its way to a device that observes, and its listen is unanswered.
LEMMA DataAwaited ==
    ASSUME BoardInv, PushInv, NEW d \in Device, NEW i \in DOMAIN down[d], down[d][i].type = "data"
    PROVE  registrations[d] # <<>> /\ unackedListens[d] # 0
<1>1. i + 1 \in DOMAIN down[d] /\ down[d][i + 1].type = "listenOk"
  BY DEF PushInv, PushesGrow
<1>2. ListensDown(d) # {} /\ down[d] # <<>>
  BY <1>1 DEF ListensDown, OfType
<1>3. ListensAgree(d)
  BY DEF BoardInv, DBInv, ListensCounted
<1> QED  BY <1>2, <1>3 DEF ListensAgree, ListenUnderWay

LEMMA CompleteNext ==
    ASSUME BoardInv, PushInv, CompleteInv, [DBNext]_dbVars
    PROVE  CompleteInv'
<1> USE DEF BoardInv, DBInv
<1> SUFFICES ASSUME NEW e \in Device
             PROVE  IF complete'[e] THEN registrations'[e] # <<>> ELSE events'[e] = <<>>
  BY DEF CompleteInv
<1>1. IF complete[e] THEN registrations[e] # <<>> ELSE events[e] = <<>>
  BY DEF CompleteInv
<1>2. ASSUME UNCHANGED <<complete[e], registrations[e]>>, complete[e] \/ events'[e] = events[e]
      PROVE  IF complete'[e] THEN registrations'[e] # <<>> ELSE events'[e] = <<>>
  BY <1>1, <1>2
<1>3. ASSUME NEW d \in Device, NEW shown, Raise(d, shown, complete[d]),
             UNCHANGED <<complete, registrations>>
      PROVE  IF complete'[e] THEN registrations'[e] # <<>> ELSE events'[e] = <<>>
  <2>1. complete[e] \/ events'[e] = events[e]
    BY <1>3 DEF Raise, DBTypeInv, DBTypeOK
  <2> QED  BY <1>2, <1>3, <2>1
<1>4. ASSUME NEW d \in Device, ReceiveData(d)
      PROVE  IF complete'[e] THEN registrations'[e] # <<>> ELSE events'[e] = <<>>
  <2>1. CASE e = d
    <3>1. down[d] \in Seq(Push) /\ down[d] # <<>> /\ Head(down[d]).type = "data"
      BY <1>4 DEF ReceiveData, NextPush, DBTypeInv, DBTypeOK
    <3>2. 1 \in DOMAIN down[d] /\ Head(down[d]) = down[d][1]
      BY <3>1
    <3>3. registrations[d] # <<>>
      BY <3>1, <3>2, DataAwaited
    <3> QED  BY <1>4, <2>1, <3>3 DEF ReceiveData, DBTypeInv, DBTypeOK
  <2>2. CASE e # d
    <3>1. UNCHANGED <<complete[e], registrations[e], events[e]>>
      BY <1>4, <2>2 DEF ReceiveData, Raise, DBTypeInv, DBTypeOK
    <3> QED  BY <1>2, <3>1
  <2> QED  BY <2>1, <2>2
<1>5. ASSUME NEW d \in Device, ReceiveSet(d) \/ ReceiveAnswer(d) \/ AckPuts(d)
                               \/ \E k \in Key, v \in Value : SetValue(d, k, v)
      PROVE  IF complete'[e] THEN registrations'[e] # <<>> ELSE events'[e] = <<>>
  <2>1. UNCHANGED <<complete, registrations>>
    BY <1>5 DEF ReceiveSet, ReceiveAnswer, AckPuts, SetValue
  <2>2. UNCHANGED events \/ \E shown : Raise(d, shown, complete[d])
    BY <1>5 DEF ReceiveSet, ReceiveAnswer, AckPuts, AckWrite, SetValue
  <2> QED  BY <1>2, <1>3, <2>1, <2>2
<1>6. ASSUME NEW d \in Device, NEW r \in Observer, ObserveParent(d, r) \/ ObserveChildren(d, r)
      PROVE  IF complete'[e] THEN registrations'[e] # <<>> ELSE events'[e] = <<>>
  <2>1. PICK regs \in {Append(registrations[d], r), <<r>> \o registrations[d]} : Observe(d, r, regs)
    BY <1>6 DEF ObserveParent, ObserveChildren
  <2>2. regs # <<>>
    <3>1. registrations[d] \in Seq(Observer) /\ <<r>> \in Seq(Observer)
      BY DEF DBTypeInv, DBTypeOK
    <3>2. \A q \in Seq(Observer) : Append(q, r) # <<>> /\ <<r>> \o q # <<>>
      OBVIOUS
    <3> QED  BY <2>1, <3>1, <3>2
  <2>3. /\ complete' = complete /\ registrations' = [registrations EXCEPT ![d] = regs]
        /\ complete[e] \/ events'[e] = events[e]
    BY <2>1 DEF Observe, DBTypeInv, DBTypeOK
  <2>4. registrations'[e] = IF e = d THEN regs ELSE registrations[e]
    BY <2>3 DEF DBTypeInv, DBTypeOK
  <2> QED  BY <1>1, <2>2, <2>3, <2>4
<1>7. ASSUME NEW d \in Device, TakeEvent(d)
      PROVE  IF complete'[e] THEN registrations'[e] # <<>> ELSE events'[e] = <<>>
  <2>1. /\ complete' = complete /\ registrations' = registrations /\ events[d] # <<>>
        /\ e # d => events'[e] = events[e]
    BY <1>7 DEF TakeEvent, DBTypeInv, DBTypeOK
  <2> QED  BY <1>1, <2>1
<1>8. ASSUME NEW d \in Device, Kill(d)
      PROVE  IF complete'[e] THEN registrations'[e] # <<>> ELSE events'[e] = <<>>
  <2>1. /\ complete' = [complete EXCEPT ![d] = FALSE] /\ registrations' = [registrations EXCEPT ![d] = <<>>]
        /\ events' = [events EXCEPT ![d] = <<>>]
    BY <1>8 DEF Kill
  <2> QED  BY <1>1, <2>1 DEF DBTypeInv, DBTypeOK
<1>9. ASSUME NEW d \in Device, Connect(d) \/ ReceiveListenOk(d) \/ Server(d) \/ Disconnect(d)
      PROVE  IF complete'[e] THEN registrations'[e] # <<>> ELSE events'[e] = <<>>
  BY <1>2, <1>9 DEF Connect, ReceiveListenOk, Server, ServerListen, ServerLoad, ServerPut, ServerReject,
                    Disconnect, viewVars
<1>10. CASE UNCHANGED dbVars
  BY <1>2, <1>10 DEF dbVars, viewVars
<1> QED  BY <1>4, <1>5, <1>6, <1>7, <1>8, <1>9, <1>10 DEF DBNext, Library, App

\* While nothing is refused, no answer says so.
LEMMA TakenNext ==
    ASSUME BoardInv, [DBNext]_dbVars, rejects' = 0,
           rejects = 0 => \A d \in Device : AllTaken(d), NEW e \in Device
    PROVE  AllTaken(e)' /\ rejects = 0
<1> USE DEF BoardInv, DBInv
<1>1. rejects = 0 /\ \A d \in Device : ~ServerReject(d)
  <2>1. rejects \in Nat
    BY DEF DBTypeInv, DBTypeOK
  <2>2. ASSUME NEW d \in Device, ServerReject(d)  PROVE FALSE
    <3>1. rejects' = rejects + 1
      BY <2>2 DEF ServerReject
    <3> QED  BY <2>1, <3>1
  <2>3. ASSUME NEW d \in Device, Library(d)  PROVE rejects' = rejects
    BY <2>3 DEF Library, Connect, ReceiveData, ReceiveSet, ReceiveListenOk, ReceiveAnswer, AckPuts, boundVars
  <2>4. ASSUME NEW d \in Device, Server(d)  PROVE rejects' = rejects
    BY <2>2, <2>4 DEF Server, ServerListen, ServerLoad, ServerPut, boundVars
  <2>5. ASSUME NEW d \in Device, App(d) \/ Disconnect(d) \/ Kill(d)  PROVE rejects' = rejects
    BY <2>5 DEF App, ObserveParent, ObserveChildren, Observe, SetValue, TakeEvent, Disconnect, Kill, boundVars
  <2>6. UNCHANGED dbVars => rejects' = rejects
    BY DEF dbVars, boundVars
  <2> QED  BY <2>2, <2>3, <2>4, <2>5, <2>6 DEF DBNext
<1>2. AllTaken(e)
  BY <1>1
<1>3. ASSUME AnswersDue(e)' \subseteq AnswersDue(e),
             \A i \in DOMAIN putsToAck'[e] :
                \/ \E j \in DOMAIN putsToAck[e] : putsToAck'[e][i] = putsToAck[e][j]
                \/ \E m \in AnswersDue(e) : putsToAck'[e][i] = m.answer
      PROVE  AllTaken(e)'
  BY <1>2, <1>3 DEF AllTaken
<1>4. ASSUME UNCHANGED <<down, putsToAck>>  PROVE AllTaken(e)'
  BY <1>2, <1>4 DEF AllTaken, AnswersDue
<1>5. ASSUME NEW d \in Device, Library(d) \/ ServerListen(d) \/ ServerLoad(d) \/ Disconnect(d) \/ Kill(d)
      PROVE  AllTaken(e)'
  BY <1>3, <1>5, AnswersOnlyMove
<1>6. ASSUME NEW d \in Device, ServerPut(d)  PROVE AllTaken(e)'
  <2>1. Head(up[d]).write \in Write /\ putsToAck' = putsToAck
    BY <1>6, NextRequestType DEF ServerPut, Request, putVars
  <2>2. AnswerTo(Head(up[d]).write, TRUE).answer.ok
    BY <2>1, AnswerTyped
  <2>3. \A m \in AnswersDue(e)' : m \in AnswersDue(e) \/ m = AnswerTo(Head(up[d]).write, TRUE)
    BY <1>6, ServerPutAnswers
  <2> QED  BY <1>2, <2>1, <2>2, <2>3 DEF AllTaken
<1>7. ASSUME NEW d \in Device, App(d)  PROVE AllTaken(e)'
  BY <1>4, <1>7 DEF App, ObserveParent, ObserveChildren, Observe, SetValue, TakeEvent, linkVars, putVars
<1>8. CASE UNCHANGED dbVars
  <2>1. UNCHANGED <<down, putsToAck>>
    BY <1>8 DEF dbVars, linkVars, putVars
  <2> QED  BY <1>1, <1>4, <2>1
<1>9. ASSUME NEW d \in Device, Server(d)  PROVE AllTaken(e)'
  <2>1. ~ServerReject(d)
    BY <1>1
  <2> QED  BY <1>5, <1>6, <1>9, <2>1 DEF Server
<1>10. AllTaken(e)'
  BY <1>5, <1>7, <1>8, <1>9 DEF DBNext
<1> QED  BY <1>1, <1>10

\* When a complete view takes an answer, the written child has come before it.
LEMMA AckKnown ==
    ASSUME BoardInv, PushInv, KnownInv, CompleteInv, NEW d \in Device, complete[d],
           connected[d], unackedListens[d] = 0, NEW w \in writes[d],
           \/ /\ down[d] # <<>> /\ Head(down[d]).type = "answer"
              /\ Head(down[d]).answer.ok /\ w.id = Head(down[d]).answer.id
           \/ /\ putsToAck[d] # <<>>
              /\ Head(putsToAck[d]).ok /\ w.id = Head(putsToAck[d]).id
    PROVE  cache[d][w.key] # NoValue
<1> USE DEF BoardInv, DBInv
<1>1. session[d] = "listening"
  BY DEF CompleteInv, ListensCounted, ListensAgree
<1>2. AnswersKnown(cache[d], down[d], putsToAck[d], writes[d])
  BY <1>1 DEF KnownInv
<1>3. /\ down[d] # <<>> => 1 \in DOMAIN down[d] /\ Head(down[d]) = down[d][1]
      /\ putsToAck[d] # <<>> => 1 \in DOMAIN putsToAck[d] /\ Head(putsToAck[d]) = putsToAck[d][1]
      /\ \A j \in DOMAIN down[d] : j \in Nat /\ 1 <= j
  BY DEF DBTypeInv, DBTypeOK
<1>4. Known(cache[d], down[d], w.key, 1) \/ Known(cache[d], down[d], w.key, 0)
  BY <1>2, <1>3 DEF AnswersKnown
<1>5. \A j \in DOMAIN down[d] : down[d][j].type # "data" /\ ~(j < 1) /\ ~(j < 0)
  BY <1>3, DataAwaited
<1> QED  BY <1>4, <1>5 DEF Known

LEMMA AfterGrows ==
    ASSUME NEW s \in Seq(Push), s # <<>>, NEW c \in Snapshot, NEW st, PushesGrow(c, s, st)
    PROVE  Within(c, After(c, Head(s)))
<1>1. 1 \in DOMAIN s /\ Head(s) = s[1] /\ s[1] \in Push
  OBVIOUS
<1>2. /\ s[1].type = "data" => Within(c, s[1].snapshot)
      /\ s[1].type = "set" => s[1].value # NoValue
  BY <1>1, ValueAssumption DEF PushesGrow, Push
<1> QED  BY <1>1, <1>2 DEF After, Within, Snapshot

\* No step takes a child from a view, but the end of its process.
LEMMA ViewGrows ==
    ASSUME BoardInv, BoardInv', GrowInv, [DBNext]_dbVars, rejects = 0, NEW e \in Device,
           complete[e], complete'[e]
    PROVE  Within(View(e), View(e)')
<1> USE DEF BoardInv, DBInv
<1>1. ASSUME Within(cache[e], cache'[e]),
             \A w \in writes[e] : w \in writes'[e] \/ cache'[e][w.key] # NoValue
      PROVE  Within(View(e), View(e)')
  BY <1>1, ViewHas DEF Within
<1>2. Within(cache[e], cache[e])
  BY DEF Within
<1>3. ASSUME UNCHANGED cache[e], writes[e] \subseteq writes'[e]  PROVE Within(View(e), View(e)')
  BY <1>1, <1>2, <1>3
<1>4. ASSUME NEW d \in Device, ReceiveData(d) \/ ReceiveSet(d) \/ ReceiveListenOk(d)
      PROVE  Within(View(e), View(e)')
  <2>1. writes' = writes
    BY <1>4 DEF ReceiveData, ReceiveSet, ReceiveListenOk, putVars
  <2>2. e # d => cache'[e] = cache[e]
    BY <1>4, PushTaken
  <2>3. e = d => Within(cache[e], cache'[e])
    BY <1>4, PushTaken, AfterGrows DEF GrowInv, PushInv
  <2> QED  BY <1>1, <1>2, <2>1, <2>2, <2>3
<1>5. ASSUME NEW d \in Device, NEW answer, AckWrite(d, answer), cache' = cache,
             e = d => \A w \in writes[d] : w.id = answer.id => cache[d][w.key] # NoValue
      PROVE  Within(View(e), View(e)')
  <2>1. \A w \in writes[e] : w \in writes'[e] \/ (e = d /\ w.id = answer.id)
    BY <1>5 DEF AckWrite, DBTypeInv, DBTypeOK
  <2> QED  BY <1>1, <1>2, <1>5, <2>1
<1>6. ASSUME NEW d \in Device, ReceiveAnswer(d)  PROVE Within(View(e), View(e)')
  <2>1. cache' = cache
    BY <1>6 DEF ReceiveAnswer
  <2>2. CASE UNCHANGED writes
    BY <1>3, <2>1, <2>2
  <2>3. CASE ~HeldBack(d) /\ AckWrite(d, Head(down[d]).answer)
    <3>1. NextPush(d, "answer") /\ down[d] # <<>> /\ Head(down[d]).type = "answer"
      BY <1>6 DEF ReceiveAnswer, NextPush
    <3>2. Head(down[d]).answer.ok
      <4>1. Head(down[d]) \in AnswersDue(d)
        BY <3>1, PushLeaves DEF PutsAgree
      <4> QED  BY <4>1 DEF GrowInv, BlocksInv, AllTaken
    <3>3. connected[d] /\ unackedListens[d] = 0
      BY <2>3, <3>1 DEF HeldBack, ListensCounted, ListensAgree
    <3>4. e = d => \A w \in writes[d] : w.id = Head(down[d]).answer.id => cache[d][w.key] # NoValue
      BY <3>1, <3>2, <3>3, AckKnown DEF GrowInv
    <3> QED  BY <1>5, <2>1, <2>3, <3>4
  <2> QED  BY <1>6, <2>2, <2>3 DEF ReceiveAnswer
<1>7. ASSUME NEW d \in Device, AckPuts(d)  PROVE Within(View(e), View(e)')
  <2>1. /\ cache' = cache /\ AckWrite(d, Head(putsToAck[d])) /\ putsToAck[d] # <<>>
        /\ connected[d] /\ unackedListens[d] = 0 /\ putsToAck[d] \in Seq(Answer)
    BY <1>7 DEF AckPuts, Acking, DBTypeInv, DBTypeOK
  <2>2. 1 \in DOMAIN putsToAck[d] /\ Head(putsToAck[d]) = putsToAck[d][1]
    BY <2>1
  <2>3. Head(putsToAck[d]).ok
    BY <2>2 DEF GrowInv, BlocksInv, AllTaken
  <2>4. e = d => \A w \in writes[d] : w.id = Head(putsToAck[d]).id => cache[d][w.key] # NoValue
    BY <2>1, <2>3, AckKnown DEF GrowInv
  <2> QED  BY <1>5, <2>1, <2>4
<1>8. ASSUME NEW d \in Device, Kill(d)  PROVE Within(View(e), View(e)')
  <2>1. e # d
    BY <1>8 DEF Kill, DBTypeInv, DBTypeOK
  <2> QED  BY <1>3, <1>8, <2>1 DEF Kill
<1>9. ASSUME NEW d \in Device, Connect(d) \/ Server(d) \/ Disconnect(d)  PROVE Within(View(e), View(e)')
  BY <1>3, <1>9 DEF Connect, Server, ServerListen, ServerLoad, ServerPut, ServerReject, Disconnect,
                    viewVars, putVars
<1>10. ASSUME NEW d \in Device, App(d)  PROVE Within(View(e), View(e)')
  <2>1. CASE \E k \in Key, v \in Value : SetValue(d, k, v)
    <3>1. cache' = cache /\ writes[e] \subseteq writes'[e]
      BY <2>1 DEF SetValue, DBTypeInv, DBTypeOK
    <3> QED  BY <1>3, <3>1
  <2>2. CASE (\E r \in Observer : ObserveParent(d, r) \/ ObserveChildren(d, r)) \/ TakeEvent(d)
    <3>1. cache' = cache /\ writes' = writes
      BY <2>2 DEF ObserveParent, ObserveChildren, Observe, TakeEvent, putVars
    <3> QED  BY <1>3, <3>1
  <2> QED  BY <1>10, <2>1, <2>2 DEF App
<1>11. CASE UNCHANGED dbVars
  <2>1. cache' = cache /\ writes' = writes
    BY <1>11 DEF dbVars, viewVars, putVars
  <2> QED  BY <1>3, <2>1
<1> QED  BY <1>4, <1>6, <1>7, <1>8, <1>9, <1>10, <1>11 DEF DBNext, Library

-----------------------------------------------------------------------------
(* The blocks.                                                             *)

\* The first block runs, or blocks are added that show the view, or none.
LEMMA EventsNext ==
    ASSUME DBInv, DBInv', [DBNext]_dbVars, NEW e \in Device
    PROVE  \/ events[e] # <<>> /\ events'[e] = Tail(events[e]) /\ View(e)' = View(e)
           \/ events'[e] = <<>>
           \/ \E added \in Seq(Event) : /\ events'[e] = events[e] \o added
                                        /\ \A i \in DOMAIN added : added[i].snapshot = View(e)'
<1> USE DEF DBInv
<1> DEFINE Grown == \E added \in Seq(Event) : /\ events'[e] = events[e] \o added
                                              /\ \A i \in DOMAIN added : added[i].snapshot = View(e)'
<1>1. events'[e] = events[e] => Grown
  <2>1. events[e] = events[e] \o <<>> /\ <<>> \in Seq(Event) /\ DOMAIN <<>> = {}
    BY DEF DBTypeInv, DBTypeOK
  <2> QED  BY <2>1
<1>2. Unmoved(e) \/ Renewed(e) => Grown
  <2>1. View(e)' \in Snapshot
    BY NextViewType
  <2> DEFINE s == View(e)'
  <2> HIDE DEF s
  <2>2. Notices(e, s) \in Seq(Event) /\ \A i \in DOMAIN Notices(e, s) : Notices(e, s)[i].snapshot = s
    BY <2>1, NoticesTold DEF s
  <2>3. Renewed(e) => events'[e] = events[e] \o Notices(e, s)
    BY DEF Renewed, s
  <2> QED  BY <1>1, <2>2, <2>3 DEF Unmoved, s
<1> HIDE DEF Grown
<1>3. ASSUME NEW d \in Device, NEW k \in Key, NEW v \in Value, SetValue(d, k, v)  PROVE Grown
  BY <1>2, <1>3, SetValueMoves
<1>4. ASSUME NEW d \in Device, Library(d) \/ Server(d) \/ Disconnect(d)  PROVE Grown
  BY <1>2, <1>4, LibraryMoves, OthersUnmoved
<1>5. ASSUME NEW d \in Device, NEW r \in Observer, NEW regs, Observe(d, r, regs)  PROVE Grown
  <2> DEFINE added == IF complete[d] THEN <<[to |-> r, snapshot |-> View(d)]>> ELSE <<>>
  <2>1. /\ events' = [events EXCEPT ![d] = @ \o added] /\ View(e)' = View(e)
    BY <1>5, ObserveMoves
  <2>2. View(d) \in Snapshot
    BY ViewType
  <2>3. [to |-> r, snapshot |-> View(d)] \in Event
    BY <2>2 DEF Event
  <2>4. added \in Seq(Event) /\ \A i \in DOMAIN added : added[i].snapshot = View(d)
    BY <2>3
  <2> HIDE DEF added
  <2>5. events'[e] = IF e = d THEN events[d] \o added ELSE events[e]
    BY <2>1 DEF DBTypeInv, DBTypeOK
  <2> DEFINE v == View(e)'
  <2>6. e = d => View(d) = v
    BY <2>1
  <2> HIDE DEF v
  <2>7. e = d => events'[e] = events[e] \o added /\ \A i \in DOMAIN added : added[i].snapshot = v
    BY <2>4, <2>5, <2>6
  <2>8. e = d => Grown
    BY <2>4, <2>7 DEF Grown, v
  <2> QED  BY <1>1, <2>5, <2>8
<1>6. ASSUME NEW d \in Device, TakeEvent(d)
      PROVE  Grown \/ (events[e] # <<>> /\ events'[e] = Tail(events[e]) /\ View(e)' = View(e))
  <2>1. /\ events[d] # <<>> /\ events' = [events EXCEPT ![d] = Tail(@)]
        /\ writes' = writes /\ cache' = cache
    BY <1>6 DEF TakeEvent, putVars
  <2>2. View(e)' = View(e)
    BY <2>1 DEF View, Overlay
  <2> QED  BY <1>1, <2>1, <2>2 DEF DBTypeInv, DBTypeOK
<1>7. ASSUME NEW d \in Device, Kill(d)  PROVE Grown \/ events'[e] = <<>>
  BY <1>1, <1>7 DEF Kill, DBTypeInv, DBTypeOK
<1>8. CASE UNCHANGED dbVars
  <2>1. events' = events
    BY <1>8 DEF dbVars, viewVars
  <2> QED  BY <1>1, <2>1 DEF Grown
<1> QED  BY <1>3, <1>4, <1>5, <1>6, <1>7, <1>8 DEF DBNext, App, ObserveParent, ObserveChildren, Grown

LEMMA BlocksGrowTail ==
    ASSUME NEW evs \in Seq(Event), evs # <<>>, NEW v, BlocksGrow(evs, v)
    PROVE  BlocksGrow(Tail(evs), v)
<1>1. \A i \in DOMAIN Tail(evs) : i \in Nat /\ i + 1 \in DOMAIN evs /\ Tail(evs)[i] = evs[i + 1]
  BY TailPlaces
<1>2. \A i, j \in DOMAIN Tail(evs) : i < j => i + 1 < j + 1
  BY <1>1
<1> QED  BY <1>1, <1>2 DEF BlocksGrow

LEMMA BlocksGrowAdded ==
    ASSUME NEW evs \in Seq(Event), NEW added \in Seq(Event), NEW v, BlocksGrow(evs, v),
           \A i \in DOMAIN added : added[i].snapshot = v
    PROVE  BlocksGrow(evs \o added, v)
<1> DEFINE all == evs \o added
<1>1. /\ DOMAIN evs \subseteq Nat
      /\ \A i \in DOMAIN evs : all[i] = evs[i]
      /\ \A i, j \in DOMAIN all : i < j /\ j \in DOMAIN evs => i \in DOMAIN evs
      /\ \A i \in DOMAIN all : i \notin DOMAIN evs =>
            i - Len(evs) \in DOMAIN added /\ all[i] = added[i - Len(evs)]
  OBVIOUS
<1> HIDE DEF all
<1>2. \A i \in DOMAIN all : i \notin DOMAIN evs => all[i].snapshot = v
  BY <1>1
<1>3. \A i \in DOMAIN all : Within(all[i].snapshot, v)
  BY <1>1, <1>2 DEF BlocksGrow, Within
<1>4. \A i, j \in DOMAIN all : i < j => Within(all[i].snapshot, all[j].snapshot)
  BY <1>1, <1>2, <1>3 DEF BlocksGrow
<1> QED  BY <1>3, <1>4 DEF BlocksGrow, all

LEMMA BlocksNext ==
    ASSUME BoardInv, BoardInv', GrowInv, CompleteInv', [DBNext]_dbVars, rejects = 0, NEW e \in Device
    PROVE  BlocksGrow(events[e], View(e))'
<1> DEFINE v == View(e)'
<1>1. events[e] \in Seq(Event) /\ BlocksGrow(events[e], View(e))
  BY DEF GrowInv, BlocksInv, BoardInv, DBInv, DBTypeInv, DBTypeOK
<1>2. complete[e] /\ complete'[e] => Within(View(e), v)
  BY ViewGrows
<1>3. \/ events[e] # <<>> /\ events'[e] = Tail(events[e]) /\ View(e)' = View(e)
      \/ events'[e] = <<>>
      \/ \E added \in Seq(Event) : /\ events'[e] = events[e] \o added
                                   /\ \A i \in DOMAIN added : added[i].snapshot = v
  BY EventsNext DEF BoardInv
<1> HIDE DEF v
<1>4. events'[e] = <<>> => BlocksGrow(events'[e], v)
  BY DEF BlocksGrow
<1>5. complete'[e] => BlocksGrow(events[e], v)
  <2>1. complete[e] \/ events[e] = <<>>
    BY DEF GrowInv, CompleteInv
  <2> QED  BY <1>1, <1>2, <2>1 DEF BlocksGrow, Within
<1>6. ASSUME complete'[e], events'[e] # <<>>  PROVE BlocksGrow(events'[e], v)
  <2>1. CASE events[e] # <<>> /\ events'[e] = Tail(events[e])
    BY <1>1, <1>5, <1>6, <2>1, BlocksGrowTail
  <2>2. ASSUME NEW added \in Seq(Event), events'[e] = events[e] \o added,
               \A i \in DOMAIN added : added[i].snapshot = v
        PROVE  BlocksGrow(events'[e], v)
    BY <1>1, <1>5, <1>6, <2>2, BlocksGrowAdded
  <2> QED  BY <1>3, <1>6, <2>1, <2>2
<1>7. complete'[e] \/ events'[e] = <<>>
  BY DEF CompleteInv
<1>8. BlocksGrow(events'[e], v)
  BY <1>4, <1>6, <1>7
<1> QED  BY <1>8 DEF BlocksGrow, Within, v

LEMMA InitGrow == DBInit => GrowInv
<1> SUFFICES ASSUME DBInit, NEW d \in Device
             PROVE  /\ PushesGrow(cache[d], down[d], store)
                    /\ ~complete[d] /\ events[d] = <<>> /\ session[d] # "listening"
                    /\ AllTaken(d) /\ BlocksGrow(events[d], View(d))
  BY DEF GrowInv, PushInv, KnownInv, CompleteInv, BlocksInv
<1>1. /\ down[d] = <<>> /\ putsToAck[d] = <<>> /\ events[d] = <<>> /\ ~complete[d]
      /\ session[d] = "closed" /\ cache[d] = store
  BY DEF DBInit
<1>2. AllTaken(d)
  BY <1>1 DEF AllTaken, AnswersDue, Msgs, OfType
<1> QED  BY <1>1, <1>2 DEF PushesGrow, Within, BlocksGrow

\* All of it together is inductive.
LEMMA NextGrow == BoardInv /\ GrowInv /\ [DBNext]_dbVars => GrowInv'
<1> SUFFICES ASSUME BoardInv, GrowInv, [DBNext]_dbVars  PROVE GrowInv'
  OBVIOUS
<1>1. BoardInv'
  BY NextBoard
<1>2. PushInv' /\ KnownInv' /\ CompleteInv'
  BY PushNext, KnownNext, CompleteNext DEF GrowInv
<1>3. ASSUME rejects' = 0, NEW e \in Device  PROVE AllTaken(e)' /\ BlocksGrow(events[e], View(e))'
  <2>1. AllTaken(e)' /\ rejects = 0
    BY <1>3, TakenNext DEF GrowInv, BlocksInv
  <2> QED  BY <1>1, <1>2, <2>1, BlocksNext
<1>4. BlocksInv'
  BY <1>3 DEF BlocksInv
<1> QED  BY <1>2, <1>4 DEF GrowInv

-----------------------------------------------------------------------------
(* What is where.  A relation between keys and values that holds of every  *)
(* write holds of everything that is stored, sent, cached or shown.        *)

Fits(G, s) == \A k \in Key : s[k] # NoValue => <<k, s[k]>> \in G

WritesFit(G, ws) == \A w \in ws : <<w.key, w.value>> \in G

PushFits(G, m) == /\ m.type = "set" => <<m.key, m.value>> \in G
                  /\ m.type = "data" => Fits(G, m.snapshot)

FitInv(G) ==
    /\ Fits(G, store)
    /\ \A d \in Device :
          /\ Fits(G, cache[d]) /\ WritesFit(G, writes[d])
          /\ \A i \in DOMAIN down[d] : PushFits(G, down[d][i])
          /\ \A i \in DOMAIN events[d] : Fits(G, events[d][i].snapshot)

LEMMA OverlayFits ==
    ASSUME NEW ws \in SUBSET Write, NEW base \in Snapshot, NEW n \in Nat, \A w \in ws : w.id < n,
           NEW G, WritesFit(G, ws), Fits(G, base)
    PROVE  Fits(G, Overlay(ws, base))
<1> SUFFICES ASSUME NEW k \in Key, Overlay(ws, base)[k] # NoValue
             PROVE  <<k, Overlay(ws, base)[k]>> \in G
  BY DEF Fits
<1> DEFINE over == {w \in ws : w.key = k}
<1>1. Overlay(ws, base)[k] = IF over = {} THEN base[k] ELSE Newest(over).value
  BY DEF Overlay
<1>2. over # {} => Newest(over) \in over
  BY NewestInSet
<1>3. over # {} => <<k, Newest(over).value>> \in G
  BY <1>2 DEF WritesFit
<1> QED  BY <1>1, <1>3 DEF Fits

LEMMA ViewFits ==
    ASSUME DBTypeInv, DBTypeInv', NEW G, NEW d \in Device
    PROVE  /\ WritesFit(G, writes[d]) /\ Fits(G, cache[d]) => Fits(G, View(d))
           /\ WritesFit(G, writes'[d]) /\ Fits(G, cache'[d]) => Fits(G, View(d)')
<1>1. /\ writes[d] \in SUBSET Write /\ nextWriteId[d] \in Nat /\ cache[d] \in Snapshot
      /\ \A w \in writes[d] : w.id < nextWriteId[d]
  BY DEF DBTypeInv, DBTypeOK, WritesBounded
<1>2. /\ writes'[d] \in SUBSET Write /\ nextWriteId'[d] \in Nat /\ cache'[d] \in Snapshot
      /\ \A w \in writes'[d] : w.id < nextWriteId'[d]
  BY DEF DBTypeInv, DBTypeOK, WritesBounded
<1>3. View(d)' = Overlay(writes'[d], cache'[d])
  BY DEF View, Overlay
<1>4. WritesFit(G, writes[d]) /\ Fits(G, cache[d]) => Fits(G, View(d))
  BY <1>1, OverlayFits DEF View
<1>5. WritesFit(G, writes'[d]) /\ Fits(G, cache'[d]) => Fits(G, Overlay(writes'[d], cache'[d]))
  BY <1>2, OverlayFits
<1> QED  BY <1>3, <1>4, <1>5

\* A push was on its way, or is the store as a whole, or a write.
LEMMA PushesSent ==
    ASSUME BoardInv, [DBNext]_dbVars, NEW e \in Device, NEW i \in DOMAIN down'[e]
    PROVE  \/ \E j \in DOMAIN down[e] : down'[e][i] = down[e][j]
           \/ down'[e][i].type = "data" /\ down'[e][i].snapshot = store
           \/ \E d \in Device : \E w \in writes[d] : down'[e][i] = SetOf(w)
           \/ down'[e][i].type \notin {"data", "set"}
<1> USE DEF BoardInv, DBInv
<1> DEFINE Sent(m) == \/ \E j \in DOMAIN down[e] : m = down[e][j]
                      \/ m.type = "data" /\ m.snapshot = store
                      \/ \E d \in Device : \E w \in writes[d] : m = SetOf(w)
                      \/ m.type \notin {"data", "set"}
<1> SUFFICES Sent(down'[e][i])
  OBVIOUS
<1>1. down'[e] = down[e] => Sent(down'[e][i])
  OBVIOUS
<1>2. down[e] \in Seq(Push)
  BY DEF DBTypeInv, DBTypeOK
<1>3. \A j \in DOMAIN down[e] : Sent(down[e][j])
  OBVIOUS
<1> HIDE DEF Sent
<1>4. ASSUME NEW d \in Device, ReceiveData(d) \/ ReceiveSet(d) \/ ReceiveListenOk(d) \/ ReceiveAnswer(d)
      PROVE  Sent(down'[e][i])
  <2>1. /\ down[d] # <<>> /\ down'[d] = Tail(down[d]) /\ (e # d => down'[e] = down[e])
    BY <1>4, PushTaken
  <2>2. e = d => i \in DOMAIN Tail(down[e]) /\ down'[e][i] = Tail(down[e])[i] /\ down[e] # <<>>
    BY <2>1
  <2>3. e = d => i + 1 \in DOMAIN down[e] /\ Tail(down[e])[i] = down[e][i + 1]
    BY <1>2, <2>2, TailPlaces
  <2> QED  BY <1>1, <1>3, <2>1, <2>2, <2>3
<1>5. \A q \in Seq(Push), x \in Push : \A j \in DOMAIN Append(q, x) :
         \/ j \in DOMAIN q /\ Append(q, x)[j] = q[j]
         \/ Append(q, x)[j] = x
  BY AppendPlaces
<1>6. ASSUME NEW d \in Device, ServerLoad(d)  PROVE Sent(down'[e][i])
  <2> DEFINE data == [type |-> "data", snapshot |-> store]
             ok   == [type |-> "listenOk"]
  <2>1. data \in Push /\ ok \in Push
    BY DEF DBTypeInv, DBTypeOK, Push
  <2>2. Sent(data) /\ Sent(ok)
    BY DEF Sent
  <2>3. down' = [down EXCEPT ![d] = @ \o <<data, ok>>]
    BY <1>6 DEF ServerLoad
  <2> HIDE DEF data, ok
  <2>4. \A q \in Seq(Push), x, y \in Push : q \o <<x, y>> = Append(Append(q, x), y)
    OBVIOUS
  <2>5. e = d => down'[e] = Append(Append(down[e], data), ok)
    BY <1>2, <2>1, <2>3, <2>4 DEF DBTypeInv, DBTypeOK
  <2>6. e # d => down'[e] = down[e]
    BY <2>3 DEF DBTypeInv, DBTypeOK
  <2> DEFINE t == Append(down[e], data)
  <2>7. t \in Seq(Push)
    BY <1>2, <2>1
  <2>8. \A j \in DOMAIN t : Sent(t[j])
    BY <1>2, <1>3, <1>5, <2>1, <2>2
  <2> HIDE DEF t
  <2>9. \A j \in DOMAIN Append(t, ok) : Sent(Append(t, ok)[j])
    BY <1>5, <2>1, <2>2, <2>7, <2>8
  <2> QED  BY <1>1, <2>5, <2>6, <2>9 DEF t
<1>7. ASSUME NEW d \in Device, ServerPut(d)  PROVE Sent(down'[e][i])
  <2> DEFINE w == Head(up[d]).write
             s == IF session[e] = "listening" THEN Append(down[e], SetOf(w)) ELSE down[e]
             a == AnswerTo(w, TRUE)
  <2>1. w \in writes[d] /\ w \in Write /\ a \in Push /\ a.type = "answer"
    BY <1>7, ServerPutStores, AnswerTyped
  <2>2. SetOf(w) \in Push /\ down'[e] = IF e = d THEN Append(s, a) ELSE s
    BY <1>7, ServerPutDown
  <2>3. Sent(SetOf(w)) /\ Sent(a)
    BY <2>1 DEF Sent
  <2> HIDE DEF w, a
  <2>4. s \in Seq(Push) /\ \A j \in DOMAIN s : Sent(s[j])
    BY <1>2, <1>3, <1>5, <2>2, <2>3
  <2> HIDE DEF s
  <2>5. \A j \in DOMAIN Append(s, a) : Sent(Append(s, a)[j])
    BY <1>5, <2>1, <2>3, <2>4
  <2> QED  BY <2>2, <2>4, <2>5
<1>8. ASSUME NEW d \in Device, ServerReject(d)  PROVE Sent(down'[e][i])
  <2> DEFINE a == AnswerTo(Head(up[d]).write, FALSE)
  <2>1. a \in Push /\ a.type = "answer"
    <3>1. Head(up[d]).write \in Write
      BY <1>8, NextRequestType DEF ServerReject, Request
    <3> QED  BY <3>1, AnswerTyped
  <2>2. down' = [down EXCEPT ![d] = Append(@, a)]
    BY <1>8 DEF ServerReject
  <2> HIDE DEF a
  <2>3. Sent(a)
    BY <2>1 DEF Sent
  <2>4. down'[e] = IF e = d THEN Append(down[e], a) ELSE down[e]
    BY <2>2 DEF DBTypeInv, DBTypeOK
  <2> QED  BY <1>1, <1>2, <1>3, <1>5, <2>1, <2>3, <2>4
<1>9. ASSUME NEW d \in Device, Disconnect(d) \/ Kill(d)  PROVE Sent(down'[e][i])
  <2>1. down' = [down EXCEPT ![d] = <<>>]
    BY <1>9 DEF Disconnect, Kill, LoseConnection
  <2>2. e # d
    BY <2>1 DEF DBTypeInv, DBTypeOK
  <2> QED  BY <1>1, <2>1, <2>2
<1>10. ASSUME NEW d \in Device, Connect(d) \/ AckPuts(d) \/ ServerListen(d)  PROVE Sent(down'[e][i])
  BY <1>1, <1>10 DEF Connect, AckPuts, ServerListen, linkVars
<1>11. ASSUME NEW d \in Device, App(d)  PROVE Sent(down'[e][i])
  BY <1>1, <1>11 DEF App, ObserveParent, ObserveChildren, Observe, SetValue, TakeEvent, linkVars
<1>12. CASE UNCHANGED dbVars
  <2>1. down' = down
    BY <1>12 DEF dbVars, linkVars
  <2> QED  BY <1>1, <2>1
<1> QED  BY <1>4, <1>6, <1>7, <1>8, <1>9, <1>10, <1>11, <1>12 DEF DBNext, Library, Server

\* What is cached was cached or has been pushed.
LEMMA CachesFit ==
    ASSUME BoardInv, [DBNext]_dbVars, NEW G, FitInv(G), NEW e \in Device
    PROVE  Fits(G, cache'[e])
<1> USE DEF BoardInv, DBInv
<1>1. UNCHANGED cache[e] => Fits(G, cache'[e])
  BY DEF FitInv
<1>2. ASSUME NEW d \in Device, ReceiveData(d) \/ ReceiveSet(d) \/ ReceiveListenOk(d) \/ ReceiveAnswer(d)
      PROVE  Fits(G, cache'[e])
  <2>1. /\ down[d] \in Seq(Push) /\ down[d] # <<>> /\ cache[d] \in Snapshot
        /\ cache'[d] = After(cache[d], Head(down[d])) /\ (e # d => cache'[e] = cache[e])
    BY <1>2, PushTaken
  <2>2. Fits(G, cache[d]) /\ PushFits(G, Head(down[d]))
    <3>1. 1 \in DOMAIN down[d] /\ Head(down[d]) = down[d][1]
      BY <2>1
    <3> QED  BY <3>1 DEF FitInv
  <2>3. Fits(G, After(cache[d], Head(down[d])))
    BY <2>1, <2>2 DEF After, Fits, PushFits, Snapshot
  <2> QED  BY <1>1, <2>1, <2>3
<1>3. ASSUME NEW d \in Device, Kill(d)  PROVE Fits(G, cache'[e])
  <2>1. cache'[e] = cache[e] \/ cache'[e] = Empty
    BY <1>3 DEF Kill, DBTypeInv, DBTypeOK
  <2>2. Fits(G, Empty)
    BY DEF Fits, Empty
  <2> QED  BY <1>1, <2>1, <2>2
<1>4. ASSUME NEW d \in Device, Connect(d) \/ AckPuts(d) \/ Server(d) \/ Disconnect(d)
      PROVE  Fits(G, cache'[e])
  BY <1>1, <1>4 DEF Connect, AckPuts, Server, ServerListen, ServerLoad, ServerPut, ServerReject, Disconnect,
                    viewVars
<1>5. ASSUME NEW d \in Device, App(d)  PROVE Fits(G, cache'[e])
  BY <1>1, <1>5 DEF App, ObserveParent, ObserveChildren, Observe, SetValue, TakeEvent
<1>6. CASE UNCHANGED dbVars
  <2>1. cache' = cache
    BY <1>6 DEF dbVars, viewVars
  <2> QED  BY <1>1, <2>1
<1> QED  BY <1>2, <1>3, <1>4, <1>5, <1>6 DEF DBNext, Library

LEMMA FitNext ==
    ASSUME BoardInv, BoardInv', [DBNext]_dbVars, NEW G, FitInv(G),
           \A d \in Device : WritesFit(G, writes'[d])
    PROVE  FitInv(G)'
<1> USE DEF BoardInv, DBInv
<1>1. Fits(G, store')
  <2>1. store' = store => Fits(G, store')
    BY DEF FitInv
  <2>2. ASSUME NEW d \in Device, Library(d) \/ Server(d) \/ Disconnect(d) \/ Kill(d)  PROVE Fits(G, store')
    <3>1. \/ store' = store
          \/ \E w \in writes[d] : store' = [store EXCEPT ![w.key] = w.value]
      BY <2>2, WritesOnlyLeave
    <3>2. ASSUME NEW w \in writes[d], store' = [store EXCEPT ![w.key] = w.value]  PROVE Fits(G, store')
      BY <3>2 DEF FitInv, Fits, WritesFit, DBTypeInv, DBTypeOK, Snapshot
    <3> QED  BY <2>1, <3>1, <3>2
  <2>3. ASSUME NEW d \in Device, App(d)  PROVE Fits(G, store')
    BY <2>1, <2>3 DEF App, ObserveParent, ObserveChildren, Observe, SetValue, TakeEvent, serverVars
  <2>4. CASE UNCHANGED dbVars
    <3>1. store' = store
      BY <2>4 DEF dbVars, serverVars
    <3> QED  BY <2>1, <3>1
  <2> QED  BY <2>2, <2>3, <2>4 DEF DBNext
<1>2. ASSUME NEW e \in Device
      PROVE  /\ Fits(G, cache'[e]) /\ WritesFit(G, writes'[e])
             /\ \A i \in DOMAIN down'[e] : PushFits(G, down'[e][i])
             /\ \A i \in DOMAIN events'[e] : Fits(G, events'[e][i].snapshot)
  <2>1. Fits(G, cache'[e]) /\ WritesFit(G, writes'[e])
    BY CachesFit
  <2>2. ASSUME NEW i \in DOMAIN down'[e]  PROVE PushFits(G, down'[e][i])
    <3>1. ASSUME NEW d \in Device, NEW w \in writes[d]  PROVE PushFits(G, SetOf(w))
      BY DEF FitInv, WritesFit, PushFits, SetOf
    <3> QED  BY <3>1, PushesSent DEF FitInv, PushFits
  <2> DEFINE v == View(e)'
  <2>3. Fits(G, v)
    BY <2>1, ViewFits
  <2>4. \/ events[e] # <<>> /\ events'[e] = Tail(events[e])
        \/ events'[e] = <<>>
        \/ \E added \in Seq(Event) : /\ events'[e] = events[e] \o added
                                     /\ \A i \in DOMAIN added : added[i].snapshot = v
    BY EventsNext
  <2> HIDE DEF v
  <2>5. events[e] \in Seq(Event) /\ \A i \in DOMAIN events[e] : Fits(G, events[e][i].snapshot)
    BY DEF FitInv, DBTypeInv, DBTypeOK
  <2>6. CASE events[e] # <<>> /\ events'[e] = Tail(events[e])
    <3>1. \A i \in DOMAIN Tail(events[e]) : i + 1 \in DOMAIN events[e] /\ Tail(events[e])[i] = events[e][i + 1]
      BY <2>5, <2>6, TailPlaces
    <3> QED  BY <2>1, <2>2, <2>5, <2>6, <3>1
  <2>7. ASSUME NEW added \in Seq(Event), events'[e] = events[e] \o added,
               \A i \in DOMAIN added : added[i].snapshot = v
        PROVE  \A i \in DOMAIN events'[e] : Fits(G, events'[e][i].snapshot)
    <3>1. \A i \in DOMAIN (events[e] \o added) :
             \/ i \in DOMAIN events[e] /\ (events[e] \o added)[i] = events[e][i]
             \/ \E j \in DOMAIN added : (events[e] \o added)[i] = added[j]
      <4>1. \A i \in DOMAIN (events[e] \o added) :
               IF i \in DOMAIN events[e] THEN (events[e] \o added)[i] = events[e][i]
               ELSE /\ i - Len(events[e]) \in DOMAIN added
                    /\ (events[e] \o added)[i] = added[i - Len(events[e])]
        BY <2>5
      <4> QED  BY <4>1
    <3> QED  BY <2>3, <2>5, <2>7, <3>1
  <2> QED  BY <2>1, <2>2, <2>4, <2>6, <2>7
<1> QED  BY <1>1, <1>2 DEF FitInv, Fits, WritesFit, PushFits

LEMMA GrowInvariance == DBSpec => []GrowInv
<1> QED  BY InitGrow, NextGrow, BoardInvariance, PTL DEF DBSpec

-----------------------------------------------------------------------------
(* What the app has been shown.                                            *)

\* Child k is in every block that waits on device d, and in its view.
Shown(d, k) == /\ \A i \in DOMAIN events[d] : events[d][i].snapshot[k] # NoValue
               /\ View(d)[k] # NoValue

\* What the next block shows, all that follow it show.
LEMMA HeadShown ==
    ASSUME BoardInv, GrowInv, rejects = 0, NEW d \in Device, events[d] # <<>>,
           NEW k \in Key, Head(events[d]).snapshot[k] # NoValue
    PROVE  Shown(d, k)
<1>1. BlocksGrow(events[d], View(d)) /\ events[d] \in Seq(Event)
  BY DEF GrowInv, BlocksInv, BoardInv, DBInv, DBTypeInv, DBTypeOK
<1>2. 1 \in DOMAIN events[d] /\ Head(events[d]) = events[d][1] /\ \A i \in DOMAIN events[d] : i = 1 \/ 1 < i
  BY <1>1
<1> QED  BY <1>1, <1>2 DEF BlocksGrow, Within, Shown

\* What has been shown stays shown, as long as the process lives.
LEMMA ShownNext ==
    ASSUME BoardInv, BoardInv', GrowInv, [DBNext]_dbVars, rejects = 0, NEW e \in Device,
           complete[e], complete'[e], NEW k \in Key, Shown(e, k)
    PROVE  Shown(e, k)'
<1> DEFINE v == View(e)'
<1>1. Within(View(e), v)
  BY ViewGrows
<1>2. \/ events[e] # <<>> /\ events'[e] = Tail(events[e])
      \/ events'[e] = <<>>
      \/ \E added \in Seq(Event) : /\ events'[e] = events[e] \o added
                                   /\ \A i \in DOMAIN added : added[i].snapshot = v
  BY EventsNext DEF BoardInv
<1>3. Shown(e, k)' <=> /\ \A i \in DOMAIN events'[e] : events'[e][i].snapshot[k] # NoValue
                       /\ v[k] # NoValue
  BY DEF Shown
<1> HIDE DEF v
<1>4. v[k] # NoValue
  BY <1>1 DEF Within, Shown
<1>5. events[e] \in Seq(Event) /\ \A i \in DOMAIN events[e] : events[e][i].snapshot[k] # NoValue
  BY DEF Shown, BoardInv, DBInv, DBTypeInv, DBTypeOK
<1>6. CASE events[e] # <<>> /\ events'[e] = Tail(events[e])
  <2>1. \A i \in DOMAIN Tail(events[e]) : i + 1 \in DOMAIN events[e] /\ Tail(events[e])[i] = events[e][i + 1]
    BY <1>5, <1>6, TailPlaces
  <2> QED  BY <1>3, <1>4, <1>5, <1>6, <2>1
<1>7. CASE events'[e] = <<>>
  BY <1>3, <1>4, <1>7
<1>8. ASSUME NEW added \in Seq(Event), events'[e] = events[e] \o added,
             \A i \in DOMAIN added : added[i].snapshot = v
      PROVE  Shown(e, k)'
  <2>1. \A i \in DOMAIN (events[e] \o added) :
           IF i \in DOMAIN events[e] THEN (events[e] \o added)[i] = events[e][i]
           ELSE /\ i - Len(events[e]) \in DOMAIN added
                /\ (events[e] \o added)[i] = added[i - Len(events[e])]
    BY <1>5
  <2>2. \A i \in DOMAIN (events[e] \o added) : (events[e] \o added)[i].snapshot[k] # NoValue
    BY <1>4, <1>5, <1>8, <2>1
  <2> QED  BY <1>3, <1>4, <1>8, <2>2
<1> QED  BY <1>2, <1>6, <1>7, <1>8

\* Only its own end makes a view incomplete.
LEMMA CompleteKept ==
    ASSUME DBTypeInv, NEW d \in Device, Library(d) \/ Server(d) \/ App(d) \/ Disconnect(d),
           NEW e \in Device, complete[e]
    PROVE  complete'[e]
<1>1. CASE ReceiveListenOk(d)
  BY <1>1 DEF ReceiveListenOk, viewVars
<1>2. CASE ReceiveData(d)
  BY <1>2 DEF ReceiveData, DBTypeInv, DBTypeOK
<1>3. CASE Connect(d) \/ ReceiveSet(d) \/ ReceiveAnswer(d) \/ AckPuts(d)
  BY <1>3 DEF Connect, ReceiveSet, ReceiveAnswer, AckPuts, viewVars
<1>4. CASE Server(d) \/ Disconnect(d)
  BY <1>4 DEF Server, ServerListen, ServerLoad, ServerPut, ServerReject, Disconnect, viewVars
<1>5. CASE App(d)
  BY <1>5 DEF App, ObserveParent, ObserveChildren, Observe, SetValue, TakeEvent
<1> QED  BY <1>1, <1>2, <1>3, <1>4, <1>5 DEF Library

\* Values that carry the key they are written under as their time.
Placed == {p \in Key \X Value : p[2].time = p[1]}

LEMMA PlacedTimes ==
    ASSUME NEW s \in Snapshot, Fits(Placed, s), NEW k \in Key, s[k] # NoValue
    PROVE  s[k].time = k
BY DEF Fits, Placed

LEMMA HeadPlaced ==
    ASSUME BoardInv, FitInv(Placed), NEW d \in Device, events[d] # <<>>
    PROVE  /\ Head(events[d]).snapshot \in Snapshot
           /\ Fits(Placed, Head(events[d]).snapshot)
           /\ \A k : Shown(d, k) => Head(events[d]).snapshot[k] # NoValue
<1>1. events[d] \in Seq(Event)
  BY DEF BoardInv, DBInv, DBTypeInv, DBTypeOK
<1>2. 1 \in DOMAIN events[d] /\ Head(events[d]) = events[d][1] /\ Head(events[d]) \in Event
  BY <1>1
<1> QED  BY <1>2 DEF FitInv, Shown, Event

LEMMA InitFits ==
    ASSUME DBInit, NEW G
    PROVE  FitInv(G)
BY DEF DBInit, Empty, FitInv, Fits, WritesFit
=============================================================================
