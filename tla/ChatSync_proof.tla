--------------------------- MODULE ChatSync_proof ---------------------------
(***************************************************************************)
(* Proofs about ChatSync, for every number of devices, messages, openings  *)
(* of the screens, lost connections, killed processes and refused messages:*)
(* the screens show what the server has, no message is forgotten, and none *)
(* disappears from an open chat while none is refused.                     *)
(***************************************************************************)
EXTENDS ChatSync, RealtimeDB_proof

-----------------------------------------------------------------------------
(* Lists of messages.                                                      *)

LEMMA MessagesOfType ==
    ASSUME NEW s \in Snapshot
    PROVE  MessagesOf(s) \in SUBSET Message /\ IsFiniteSet(MessagesOf(s))
<1>1. MessagesOf(s) \subseteq Message
  BY ChatAssumption DEF MessagesOf, Snapshot, Child
<1>2. IsFiniteSet({s[k] : k \in Key})
  <2>1. s \in Surjection(Key, {s[k] : k \in Key})
    BY DEF Surjection, Snapshot
  <2> QED  BY <2>1, ChatAssumption, FS_Surjection
<1>3. MessagesOf(s) \subseteq {s[k] : k \in Key}
  BY DEF MessagesOf
<1> QED  BY <1>1, <1>2, <1>3, FS_Subset

\* Sorted either way, the rows are messages of the snapshot, all of them.
LEMMA SortedRows ==
    ASSUME NEW s \in Snapshot, NEW rows \in NewestFirst(s) \cup OldestFirst(s)
    PROVE  /\ rows \in Seq(Message) /\ Range(rows) = MessagesOf(s)
           /\ rows \in OldestFirst(s) => \A i, j \in DOMAIN rows : i < j => rows[i].time < rows[j].time
<1> DEFINE ms == MessagesOf(s)
<1>1. Cardinality(ms) \in Nat /\ ms \subseteq Message
  BY MessagesOfType, FS_CardinalityType
<1>2. rows \in [1 .. Cardinality(ms) -> ms] /\ \A m \in ms : \E i \in 1 .. Cardinality(ms) : rows[i] = m
  BY DEF NewestFirst, OldestFirst, Bijection, Injection, Surjection
<1>3. rows \in Seq(Message)
  BY <1>1, <1>2
<1>4. Range(rows) = ms
  BY <1>2 DEF Range
<1> QED  BY <1>3, <1>4 DEF OldestFirst

-----------------------------------------------------------------------------
(* The inductive invariant.                                                *)

\* The home screen observes from its first appearance on, and so does every
\* chat screen that was pushed since.
Observes(d) ==
    /\ registrations[d] # <<>> => Home \in Range(registrations[d])
    /\ screen[d] # "other" => registrations[d] # <<>>
    /\ screen[d] = "chat" => controller[d] \in Range(registrations[d])
    /\ controller[d] <= Len(registrations[d])

\* The list has what the view shows, or a block is on its way to it.
HomeTold(d) ==
    complete[d] /\ Home \in Range(registrations[d]) =>
        /\ LastTells(events[d], Home, View(d))
        /\ HasBlock(events[d], Home) \/ chatList[d] = <<View(d)>>

\* So have the rows of the chat screen that is shown.
ChatTold(d) ==
    complete[d] /\ screen[d] = "chat" =>
        /\ LastTells(events[d], controller[d], View(d))
        /\ \/ HasBlock(events[d], controller[d])
           \/ View(d) # Empty => messages[d] \in OldestFirst(View(d))

ScreensInv == \A d \in Device : Observes(d) /\ HomeTold(d) /\ ChatTold(d)

\* Every write of a device is a message of its user, under the message's time.
Mine(d) == \A w \in writes[d] : w.value.uID = d /\ w.key = w.value.time

\* The server has refused the write, and the library has not settled it yet.
Refused(d, id) ==
    \/ \E m \in AnswersDue(d) : ~m.answer.ok /\ m.answer.id = id
    \/ \E i \in DOMAIN putsToAck[d] : ~putsToAck[d][i].ok /\ putsToAck[d][i].id = id

\* The server has the message's time taken, or will be asked to, or has been
\* and has not refused.
Safe(m) ==
    \/ store[m.time] # NoValue
    \/ \E w \in writes[m.uID] : w.value = m /\ ~Refused(m.uID, w.id)

PromisesInv == (\A d \in Device : Mine(d)) /\ \A m \in promised : Safe(m)

ChatInv == BoardInv /\ ChatTypeOK /\ ScreensInv /\ PromisesInv

\* A chat screen that is pushed is an observer of its own.
LEMMA NextController ==
    ASSUME BoardInv, ChatTypeOK, ScreensInv, NEW d \in Device, didSelectRowAt(d)
    PROVE  /\ controller[d] + 1 \in Observer
           /\ controller[d] + 1 <= Len(registrations[d]) + 1
           /\ controller[d] + 1 \in 0 .. MaxObservers
<1>1. /\ controller[d] \in Nat /\ Len(registrations[d]) \in Nat /\ MaxObservers \in Nat
      /\ controller[d] <= Len(registrations[d]) /\ Len(registrations[d]) < MaxObservers
  BY BoundAssumption DEF ScreensInv, Observes, ChatTypeOK, BoardInv, DBInv, DBTypeInv, DBTypeOK,
                         didSelectRowAt, ObserveChildren, Observe
<1> QED  BY <1>1, ChatAssumption

\* Every step of the app is a step of the library below it, or none.
LEMMA ChatSteps ==
    ASSUME BoardInv, ChatTypeOK, ScreensInv, [ChatNext]_chatVars
    PROVE  [DBNext]_dbVars
<1>1. CASE UNCHANGED chatVars
  BY <1>1 DEF chatVars
<1>2. ASSUME NEW d \in Device, viewWillAppear(d)  PROVE DBNext
  <2>1. Home \in Observer
    BY BoundAssumption, ChatAssumption DEF Home
  <2> QED  BY <1>2, <2>1 DEF viewWillAppear, DBNext, App
<1>3. ASSUME NEW d \in Device, didSelectRowAt(d)  PROVE DBNext
  <2>1. ObserveChildren(d, controller[d] + 1)
    BY <1>3 DEF didSelectRowAt
  <2> QED  BY <1>3, <2>1, NextController DEF DBNext, App
<1>4. ASSUME NEW d \in Device, selectOtherTab(d)  PROVE UNCHANGED dbVars
  BY <1>4 DEF selectOtherTab
<1>5. ASSUME NEW d \in Device, NEW text \in Text, typeText(d, text)  PROVE UNCHANGED dbVars
  BY <1>5 DEF typeText
<1>6. ASSUME NEW d \in Device, NEW date \in Key, sendMessAction(d, date)  PROVE DBNext
  <2> DEFINE mess == [uID |-> d, time |-> date, content |-> draft[d]]
  <2>1. mess \in Value
    BY ChatAssumption DEF ChatTypeOK, Message
  <2>2. SetValue(d, date, mess)
    BY <1>6 DEF sendMessAction
  <2> HIDE DEF mess
  <2> QED  BY <2>1, <2>2 DEF DBNext, App
<1>7. ASSUME NEW d \in Device, Deliver(d)  PROVE DBNext
  BY <1>7 DEF Deliver, DBNext, App
<1>8. ASSUME NEW d \in Device, KillApp(d) \/ Refuse(d) \/ Underneath(d)  PROVE DBNext
  BY <1>8 DEF KillApp, Refuse, Underneath, DBNext, Server
<1> QED  BY <1>1, <1>2, <1>3, <1>4, <1>5, <1>6, <1>7, <1>8 DEF ChatNext

-----------------------------------------------------------------------------
(* The screens, action by action.                                          *)

\* A step below the screens, or one that at most leaves them.
LEMMA ScreenMoves ==
    ASSUME BoardInv, BoardInv', ScreensInv, NEW e \in Device,
           registrations'[e] = registrations[e], Unmoved(e) \/ Renewed(e),
           screen'[e] \in {screen[e], "other"}, controller'[e] = controller[e],
           messages'[e] = messages[e], chatList'[e] = chatList[e]
    PROVE  Observes(e)' /\ HomeTold(e)' /\ ChatTold(e)'
<1> USE DEF BoardInv, DBInv
<1>1. Observes(e) /\ HomeTold(e) /\ ChatTold(e)
  BY DEF ScreensInv
<1>2. Observes(e)'
  BY <1>1 DEF Observes
<1>3. ASSUME complete'[e], Home \in Range(registrations[e])
      PROVE  /\ LastTells(events'[e], Home, View(e)')
             /\ HasBlock(events'[e], Home) \/ chatList'[e] = <<View(e)'>>
  <2>1. /\ LastTells(events'[e], Home, View(e)')
        /\ \/ HasBlock(events'[e], Home)
           \/ complete[e] /\ ~HasBlock(events[e], Home) /\ View(e)' = View(e)
    <3>1. complete[e] => LastTells(events[e], Home, View(e))
      BY <1>1, <1>3 DEF HomeTold
    <3> QED  BY <1>3, <3>1, BlocksMove
  <2> QED  BY <1>1, <1>3, <2>1 DEF HomeTold
<1>4. ASSUME complete'[e], screen'[e] = "chat"
      PROVE  /\ LastTells(events'[e], controller'[e], View(e)')
             /\ \/ HasBlock(events'[e], controller'[e])
                \/ View(e)' # Empty => messages'[e] \in OldestFirst(View(e)')
  <2>1. screen[e] = "chat" /\ controller[e] \in Range(registrations[e])
    BY <1>1, <1>4 DEF Observes
  <2>2. /\ LastTells(events'[e], controller[e], View(e)')
        /\ \/ HasBlock(events'[e], controller[e])
           \/ complete[e] /\ ~HasBlock(events[e], controller[e]) /\ View(e)' = View(e)
    <3>1. complete[e] => LastTells(events[e], controller[e], View(e))
      BY <1>1, <2>1 DEF ChatTold
    <3> QED  BY <1>4, <2>1, <3>1, BlocksMove
  <2> QED  BY <1>1, <2>1, <2>2 DEF ChatTold
<1>5. HomeTold(e)'
  BY <1>3 DEF HomeTold, LastTells, HasBlock
<1>6. ChatTold(e)'
  BY <1>4 DEF ChatTold, LastTells, HasBlock, OldestFirst, MessagesOf, Empty
<1> QED  BY <1>2, <1>5, <1>6

\* The screens of a device that a step leaves alone.
LEMMA OthersScreens ==
    ASSUME BoardInv, BoardInv', ScreensInv, NEW e \in Device,
           UNCHANGED <<registrations[e], events[e], complete[e], writes[e], cache[e],
                       screen[e], controller[e], messages[e], chatList[e]>>
    PROVE  Observes(e)' /\ HomeTold(e)' /\ ChatTold(e)'
BY SameView, ScreenMoves

\* One more observer, which is told at once if there is something to tell.
LEMMA ObserverTold ==
    ASSUME DBTypeInv, NEW d \in Device, NEW r \in Observer, NEW regs, Observe(d, r, regs), NEW o
    PROVE  /\ complete[d] /\ o = r => LastTells(events'[d], o, View(d)) /\ HasBlock(events'[d], o)
           /\ complete[d] /\ LastTells(events[d], o, View(d)) => LastTells(events'[d], o, View(d))
           /\ HasBlock(events[d], o) => HasBlock(events'[d], o)
<1> DEFINE told == [to |-> r, snapshot |-> View(d)]
<1>1. told \in Event /\ told.to = r /\ told.snapshot = View(d) /\ events[d] \in Seq(Event)
  BY ViewType DEF Event, DBTypeInv, DBTypeOK
<1>2. events'[d] = IF complete[d] THEN events[d] \o <<told>> ELSE events[d]
  <2>1. events' = [events EXCEPT ![d] = @ \o IF complete[d] THEN <<told>> ELSE <<>>]
    BY ObserveMoves
  <2> HIDE DEF told
  <2> QED  BY <1>1, <2>1 DEF DBTypeInv, DBTypeOK
<1> HIDE DEF told
<1>3. <<told>> \in Seq(Event) /\ DOMAIN <<told>> = {1} /\ <<told>>[1] = told
  BY <1>1
<1>4. HasBlock(<<told>>, o) <=> o = r
  BY <1>1, <1>3 DEF HasBlock
<1>5. \A i \in DOMAIN <<told>> : <<told>>[i].snapshot = View(d)
  BY <1>1, <1>3
<1> DEFINE added == <<told>>
           all == events[d] \o added
<1>6. /\ HasBlock(all, o) <=> HasBlock(events[d], o) \/ HasBlock(added, o)
      /\ HasBlock(added, o) /\ (\A i \in DOMAIN added : added[i].snapshot = View(d))
            => LastTells(all, o, View(d))
      /\ ~HasBlock(added, o) /\ LastTells(events[d], o, View(d)) => LastTells(all, o, View(d))
  <2>1. added \in Seq(Event)
    BY <1>3
  <2> HIDE DEF added
  <2> QED  BY <1>1, <2>1, BlocksAdded
<1> HIDE DEF added
<1>7. events'[d] = IF complete[d] THEN all ELSE events[d]
  BY <1>2 DEF added
<1>8. (HasBlock(added, o) <=> o = r) /\ \A i \in DOMAIN added : added[i].snapshot = View(d)
  BY <1>4, <1>5 DEF added
<1> HIDE DEF all
<1> QED  BY <1>6, <1>7, <1>8

LEMMA ViewWillAppearScreens ==
    ASSUME BoardInv, BoardInv', ChatTypeOK, ScreensInv, NEW d \in Device, viewWillAppear(d)
    PROVE  ScreensInv'
<1> USE DEF BoardInv, DBInv
<1> DEFINE regs == Append(registrations[d], Home)
<1>1. Observe(d, Home, regs) /\ Home \in Observer
  BY BoundAssumption, ChatAssumption DEF viewWillAppear, ObserveParent, Home
<1>2. /\ screen' = [screen EXCEPT ![d] = "home"] /\ chatList' = chatList
      /\ controller' = controller /\ messages' = messages
      /\ registrations' = [registrations EXCEPT ![d] = regs]
      /\ complete' = complete /\ writes' = writes /\ cache' = cache
      /\ \A e \in Device : View(e)' = View(e) /\ (e # d => events'[e] = events[e])
  <2>1. \A e \in Device : e # d => events'[e] = events[e]
    BY <1>1 DEF Observe, DBTypeInv, DBTypeOK
  <2> QED  BY <1>1, <2>1, ObserveMoves DEF viewWillAppear, Observe, putVars
<1>3. registrations'[d] = regs /\ screen'[d] = "home"
  BY <1>2 DEF DBTypeInv, DBTypeOK, ChatTypeOK
<1>4. regs # <<>> /\ Home \in Range(regs) /\ Len(regs) = Len(registrations[d]) + 1
      /\ Len(registrations[d]) \in Nat
  <2>1. registrations[d] \in Seq(Observer)
    BY DEF DBTypeInv, DBTypeOK
  <2>2. Len(regs) = Len(registrations[d]) + 1 /\ Len(registrations[d]) \in Nat /\ regs # <<>>
    BY <1>1, <2>1
  <2>3. Len(regs) \in DOMAIN regs /\ regs[Len(regs)] = Home
    BY <1>1, <2>1
  <2> QED  BY <2>2, <2>3 DEF Range
<1> HIDE DEF regs
<1>5. Observes(d)'
  <2>1. controller[d] <= Len(registrations[d]) /\ controller[d] \in Nat
    BY DEF ScreensInv, Observes, ChatTypeOK
  <2> QED  BY <1>2, <1>3, <1>4, <2>1 DEF Observes
<1>6. HomeTold(d)'
  <2>1. complete[d] => LastTells(events'[d], Home, View(d)) /\ HasBlock(events'[d], Home)
    BY <1>1, ObserverTold
  <2> QED  BY <1>2, <2>1 DEF HomeTold, LastTells, HasBlock
<1>7. ChatTold(d)'
  BY <1>3 DEF ChatTold
<1>8. \A e \in Device : e # d => Observes(e)' /\ HomeTold(e)' /\ ChatTold(e)'
  <2>1. ASSUME NEW e \in Device, e # d
        PROVE  UNCHANGED <<registrations[e], events[e], complete[e], writes[e], cache[e],
                           screen[e], controller[e], messages[e], chatList[e]>>
    BY <1>2, <2>1 DEF DBTypeInv, DBTypeOK, ChatTypeOK
  <2> HIDE DEF BoardInv, DBInv
  <2> QED  BY <2>1, OthersScreens
<1> QED  BY <1>5, <1>6, <1>7, <1>8 DEF ScreensInv

LEMMA DidSelectRowScreens ==
    ASSUME BoardInv, BoardInv', ChatTypeOK, ScreensInv, NEW d \in Device, didSelectRowAt(d)
    PROVE  ScreensInv'
<1> USE DEF BoardInv, DBInv
<1> DEFINE r == controller[d] + 1
           regs == <<r>> \o registrations[d]
<1>1. Observe(d, r, regs) /\ r \in Observer /\ r <= Len(registrations[d]) + 1
  BY NextController DEF didSelectRowAt, ObserveChildren
<1>2. /\ screen' = [screen EXCEPT ![d] = "chat"] /\ chatList' = chatList
      /\ controller' = [controller EXCEPT ![d] = r]
      /\ registrations' = [registrations EXCEPT ![d] = regs]
      /\ complete' = complete /\ writes' = writes /\ cache' = cache
      /\ \A e \in Device : /\ View(e)' = View(e)
                           /\ e # d => events'[e] = events[e] /\ messages'[e] = messages[e]
  <2>1. \A e \in Device : e # d => events'[e] = events[e]
    BY <1>1 DEF Observe, DBTypeInv, DBTypeOK
  <2>2. \A e \in Device : e # d => messages'[e] = messages[e]
    BY DEF didSelectRowAt, ChatTypeOK
  <2> QED  BY <1>1, <2>1, <2>2, ObserveMoves DEF didSelectRowAt, Observe, putVars
<1>3. registrations'[d] = regs /\ screen'[d] = "chat" /\ controller'[d] = r
  BY <1>2 DEF DBTypeInv, DBTypeOK, ChatTypeOK
<1> HIDE DEF r
<1>4. /\ regs # <<>> /\ r \in Range(regs) /\ Len(regs) = Len(registrations[d]) + 1
      /\ Range(registrations[d]) \subseteq Range(regs)
  <2>1. registrations[d] \in Seq(Observer) /\ <<r>> \in Seq(Observer)
    BY <1>1 DEF DBTypeInv, DBTypeOK
  <2>2. Len(regs) = Len(registrations[d]) + 1 /\ Len(registrations[d]) \in Nat /\ regs # <<>>
    BY <2>1
  <2>3. 1 \in DOMAIN regs /\ regs[1] = r
    BY <2>1
  <2>4. \A i \in DOMAIN registrations[d] : i + 1 \in DOMAIN regs /\ regs[i + 1] = registrations[d][i]
    BY <2>1
  <2> HIDE DEF regs
  <2>5. r \in Range(regs) /\ \A x \in Range(registrations[d]) : x \in Range(regs)
    BY <2>3, <2>4 DEF Range
  <2> QED  BY <2>2, <2>5
<1> HIDE DEF regs
<1>5. Home \in Range(registrations[d]) /\ chatList[d] # <<>> /\ screen[d] = "home"
  BY DEF ScreensInv, Observes, didSelectRowAt
<1>6. Observes(d)'
  BY <1>1, <1>3, <1>4, <1>5 DEF Observes
<1>7. HomeTold(d)'
  <2>1. complete[d] => /\ LastTells(events'[d], Home, View(d))
                       /\ HasBlock(events'[d], Home) \/ chatList[d] = <<View(d)>>
    BY <1>1, <1>5, ObserverTold DEF ScreensInv, HomeTold
  <2> QED  BY <1>2, <2>1 DEF HomeTold, LastTells, HasBlock
<1>8. ChatTold(d)'
  <2>1. complete[d] => LastTells(events'[d], r, View(d)) /\ HasBlock(events'[d], r)
    BY <1>1, ObserverTold
  <2> QED  BY <1>2, <1>3, <2>1 DEF ChatTold, LastTells, HasBlock
<1>9. \A e \in Device : e # d => Observes(e)' /\ HomeTold(e)' /\ ChatTold(e)'
  <2>1. ASSUME NEW e \in Device, e # d
        PROVE  UNCHANGED <<registrations[e], events[e], complete[e], writes[e], cache[e],
                           screen[e], controller[e], messages[e], chatList[e]>>
    BY <1>2, <2>1 DEF DBTypeInv, DBTypeOK, ChatTypeOK
  <2> HIDE DEF BoardInv, DBInv
  <2> QED  BY <2>1, OthersScreens
<1> QED  BY <1>6, <1>7, <1>8, <1>9 DEF ScreensInv

LEMMA DeliverScreens ==
    ASSUME BoardInv, BoardInv', ChatTypeOK, ScreensInv, NEW d \in Device, Deliver(d)
    PROVE  ScreensInv'
<1> USE DEF BoardInv, DBInv
<1> DEFINE event == Head(events[d])
           shows == screen[d] = "chat" /\ event.to = controller[d] /\ event.snapshot # Empty
<1>1. /\ events[d] # <<>> /\ events' = [events EXCEPT ![d] = Tail(@)]
      /\ screen' = screen /\ controller' = controller
      /\ registrations' = registrations /\ complete' = complete /\ writes' = writes /\ cache' = cache
      /\ chatList' = [chatList EXCEPT ![d] = IF event.to = Home THEN Listed(@, event.snapshot) ELSE @]
  BY DEF Deliver, TakeEvent, putVars
<1>2. PICK rows \in IF shows THEN OldestFirst(event.snapshot) ELSE {messages[d]} :
          messages' = [messages EXCEPT ![d] = rows]
  BY DEF Deliver
<1>3. events[d] \in Seq(Event) /\ events'[d] = Tail(events[d])
  BY <1>1 DEF DBTypeInv, DBTypeOK
<1>4. /\ messages'[d] = rows
      /\ chatList'[d] = IF event.to = Home THEN <<event.snapshot>> ELSE chatList[d]
  BY <1>1, <1>2 DEF ChatTypeOK, Listed
<1>5. View(d)' = View(d)
  BY <1>1 DEF View, Overlay
<1>6. Observes(d)'
  BY <1>1 DEF ScreensInv, Observes
<1>7. HomeTold(d)'
  <2>1. ASSUME complete[d], Home \in Range(registrations[d])
        PROVE  /\ LastTells(events'[d], Home, View(d))
               /\ HasBlock(events'[d], Home) \/ chatList'[d] = <<View(d)>>
    <3>1. LastTells(events[d], Home, View(d)) /\ (HasBlock(events[d], Home) \/ chatList[d] = <<View(d)>>)
      BY <2>1 DEF ScreensInv, HomeTold
    <3>2. /\ LastTells(Tail(events[d]), Home, View(d))
          /\ HasBlock(Tail(events[d]), Home) \/ (event.to = Home => event.snapshot = View(d))
          /\ HasBlock(Tail(events[d]), Home) \/ (event.to # Home => ~HasBlock(events[d], Home))
      BY <1>1, <1>3, <3>1, BlockRuns
    <3> QED  BY <1>3, <1>4, <3>1, <3>2
  <2> QED  BY <1>1, <1>5, <2>1 DEF HomeTold, LastTells, HasBlock
<1>8. ChatTold(d)'
  <2> DEFINE r == controller[d]
  <2>1. ASSUME complete[d], screen[d] = "chat"
        PROVE  /\ LastTells(events'[d], r, View(d))
               /\ \/ HasBlock(events'[d], r)
                  \/ View(d) # Empty => messages'[d] \in OldestFirst(View(d))
    <3>1. /\ LastTells(events[d], r, View(d))
          /\ HasBlock(events[d], r) \/ (View(d) # Empty => messages[d] \in OldestFirst(View(d)))
      BY <2>1 DEF ScreensInv, ChatTold
    <3>2. /\ LastTells(Tail(events[d]), r, View(d))
          /\ HasBlock(Tail(events[d]), r) \/ (event.to = r => event.snapshot = View(d))
          /\ HasBlock(Tail(events[d]), r) \/ (event.to # r => ~HasBlock(events[d], r))
      BY <1>1, <1>3, <3>1, BlockRuns
    <3>3. event.to # r => rows = messages[d]
      BY <1>2
    <3>4. event.to = r /\ event.snapshot # Empty => rows \in OldestFirst(event.snapshot)
      BY <1>2, <2>1
    <3> QED  BY <1>3, <1>4, <3>1, <3>2, <3>3, <3>4
  <2> QED  BY <1>1, <1>5, <2>1 DEF ChatTold, LastTells, HasBlock, OldestFirst, MessagesOf, Empty
<1>9. \A e \in Device : e # d => Observes(e)' /\ HomeTold(e)' /\ ChatTold(e)'
  <2>1. ASSUME NEW e \in Device, e # d
        PROVE  UNCHANGED <<registrations[e], events[e], complete[e], writes[e], cache[e],
                           screen[e], controller[e], messages[e], chatList[e]>>
    BY <1>1, <1>2, <2>1 DEF DBTypeInv, DBTypeOK, ChatTypeOK
  <2> HIDE DEF BoardInv, DBInv
  <2> QED  BY <2>1, OthersScreens
<1> QED  BY <1>6, <1>7, <1>8, <1>9 DEF ScreensInv

LEMMA KillAppScreens ==
    ASSUME BoardInv, BoardInv', ChatTypeOK, ScreensInv, NEW d \in Device, KillApp(d)
    PROVE  ScreensInv'
<1> USE DEF BoardInv, DBInv
<1>1. /\ registrations' = [registrations EXCEPT ![d] = <<>>] /\ events' = [events EXCEPT ![d] = <<>>]
      /\ complete' = [complete EXCEPT ![d] = FALSE] /\ writes' = [writes EXCEPT ![d] = {}]
      /\ cache' = [cache EXCEPT ![d] = Empty]
      /\ screen' = [screen EXCEPT ![d] = "other"] /\ chatList' = [chatList EXCEPT ![d] = <<>>]
      /\ controller' = [controller EXCEPT ![d] = 0] /\ messages' = [messages EXCEPT ![d] = <<>>]
  BY DEF KillApp, Kill
<1>2. /\ registrations'[d] = <<>> /\ complete'[d] = FALSE /\ screen'[d] = "other" /\ controller'[d] = 0
  BY <1>1 DEF DBTypeInv, DBTypeOK, ChatTypeOK
<1>3. Observes(d)' /\ HomeTold(d)' /\ ChatTold(d)'
  BY <1>2 DEF Observes, HomeTold, ChatTold
<1>4. \A e \in Device : e # d => Observes(e)' /\ HomeTold(e)' /\ ChatTold(e)'
  <2>1. ASSUME NEW e \in Device, e # d
        PROVE  UNCHANGED <<registrations[e], events[e], complete[e], writes[e], cache[e],
                           screen[e], controller[e], messages[e], chatList[e]>>
    BY <1>1, <2>1 DEF DBTypeInv, DBTypeOK, ChatTypeOK
  <2> HIDE DEF BoardInv, DBInv
  <2> QED  BY <2>1, OthersScreens
<1> QED  BY <1>3, <1>4 DEF ScreensInv

LEMMA ScreensNext ==
    ASSUME BoardInv, BoardInv', ChatTypeOK, ScreensInv, [ChatNext]_chatVars
    PROVE  ScreensInv'
<1> USE DEF BoardInv, DBInv
<1>1. ASSUME UNCHANGED <<dbVars, controller, messages, chatList>>,
             \A e \in Device : screen'[e] \in {screen[e], "other"}
      PROVE  ScreensInv'
  <2>1. UNCHANGED <<registrations, events, complete, writes, cache>>
    BY <1>1 DEF dbVars, viewVars, putVars
  <2>2. \A e \in Device : Unmoved(e)
    BY <2>1, SameView
  <2> QED  BY <1>1, <2>1, <2>2, ScreenMoves DEF ScreensInv
<1>2. ASSUME NEW d \in Device, selectOtherTab(d)  PROVE ScreensInv'
  BY <1>1, <1>2 DEF selectOtherTab, ChatTypeOK
<1>3. ASSUME NEW d \in Device, NEW text \in Text, typeText(d, text)  PROVE ScreensInv'
  BY <1>1, <1>3 DEF typeText
<1>4. ASSUME NEW d \in Device, NEW date \in Key, sendMessAction(d, date)  PROVE ScreensInv'
  <2> DEFINE mess == [uID |-> d, time |-> date, content |-> draft[d]]
  <2>1. mess \in Value
    BY ChatAssumption DEF ChatTypeOK, Message
  <2>2. SetValue(d, date, mess) /\ UNCHANGED uiVars
    BY <1>4 DEF sendMessAction
  <2> HIDE DEF mess
  <2> QED  BY <2>1, <2>2, SetValueMoves, ScreenMoves DEF ScreensInv, uiVars
<1>5. ASSUME NEW d \in Device, Refuse(d) \/ Underneath(d)  PROVE ScreensInv'
  <2>1. UNCHANGED uiVars /\ (Library(d) \/ Server(d) \/ Disconnect(d))
    BY <1>5 DEF Refuse, Underneath, Server
  <2>2. registrations' = registrations /\ \A e \in Device : Unmoved(e) \/ Renewed(e)
    BY <2>1, LibraryMoves, OthersUnmoved
  <2> QED  BY <2>1, <2>2, ScreenMoves DEF ScreensInv, uiVars
<1>6. CASE UNCHANGED chatVars
  BY <1>1, <1>6 DEF chatVars, uiVars
<1> QED  BY <1>2, <1>3, <1>4, <1>5, <1>6, ViewWillAppearScreens, DidSelectRowScreens, DeliverScreens,
         KillAppScreens DEF ChatNext

-----------------------------------------------------------------------------
(* Types, and the messages that must not be forgotten.                     *)

LEMMA DidSelectRowTyped ==
    ASSUME BoardInv, ChatTypeOK, ScreensInv, NEW d \in Device, didSelectRowAt(d)
    PROVE  ChatTypeOK'
<1>1. PICK rows \in NewestFirst(chatList[d][1]) : messages' = [messages EXCEPT ![d] = rows]
  BY DEF didSelectRowAt
<1>2. chatList[d][1] \in Snapshot
  BY DEF didSelectRowAt, ChatTypeOK
<1>3. rows \in Seq(Message)
  BY <1>1, <1>2, SortedRows
<1>4. controller[d] + 1 \in 0 .. MaxObservers
  BY NextController
<1>5. /\ screen' = [screen EXCEPT ![d] = "chat"] /\ controller' = [controller EXCEPT ![d] = @ + 1]
      /\ draft' = [draft EXCEPT ![d] = NoText] /\ UNCHANGED <<chatList, promised>>
  BY DEF didSelectRowAt
<1> QED  BY <1>1, <1>3, <1>4, <1>5 DEF ChatTypeOK, Text

LEMMA DeliverTyped ==
    ASSUME BoardInv, ChatTypeOK, NEW d \in Device, Deliver(d)
    PROVE  ChatTypeOK'
<1> DEFINE event == Head(events[d])
           shows == screen[d] = "chat" /\ event.to = controller[d] /\ event.snapshot # Empty
<1>1. event.snapshot \in Snapshot
  <2>1. events[d] \in Seq(Event) /\ events[d] # <<>>
    BY DEF Deliver, TakeEvent, BoardInv, DBInv, DBTypeInv, DBTypeOK
  <2>2. event \in Event
    BY <2>1
  <2> QED  BY <2>2 DEF Event
<1>2. PICK rows \in IF shows THEN OldestFirst(event.snapshot) ELSE {messages[d]} :
          messages' = [messages EXCEPT ![d] = rows]
  BY DEF Deliver
<1>3. /\ chatList' = [chatList EXCEPT ![d] = IF event.to = Home THEN Listed(@, event.snapshot) ELSE @]
      /\ draft' = [draft EXCEPT ![d] = IF shows THEN NoText ELSE @]
      /\ UNCHANGED <<screen, controller, promised>>
  BY DEF Deliver
<1> HIDE DEF event
<1>4. rows \in Seq(Message)
  <2>1. shows => rows \in OldestFirst(event.snapshot)
    BY <1>2
  <2>2. ~shows => rows = messages[d]
    BY <1>2
  <2> QED  BY <1>1, <2>1, <2>2, SortedRows DEF ChatTypeOK
<1> HIDE DEF shows
<1> QED  BY <1>1, <1>2, <1>3, <1>4 DEF ChatTypeOK, Listed, Text

LEMMA ChatTypedNext ==
    ASSUME BoardInv, ChatTypeOK, ScreensInv, [ChatNext]_chatVars
    PROVE  ChatTypeOK'
<1> USE DEF ChatTypeOK
<1>1. ASSUME NEW d \in Device, viewWillAppear(d) \/ selectOtherTab(d)  PROVE ChatTypeOK'
  BY <1>1 DEF viewWillAppear, selectOtherTab
<1>2. ASSUME NEW d \in Device, NEW text \in Text, typeText(d, text)  PROVE ChatTypeOK'
  BY <1>2 DEF typeText
<1>3. ASSUME NEW d \in Device, NEW date \in Key, sendMessAction(d, date)  PROVE ChatTypeOK'
  <2>1. PICK mess : mess = [uID |-> d, time |-> date, content |-> draft[d]]
    OBVIOUS
  <2>2. mess \in Message
    BY <2>1 DEF Message
  <2>3. promised' = promised \cup {mess} /\ UNCHANGED uiVars
    BY <1>3, <2>1 DEF sendMessAction
  <2> QED  BY <2>2, <2>3 DEF uiVars
<1>4. ASSUME NEW d \in Device, KillApp(d)  PROVE ChatTypeOK'
  <2>1. <<>> \in Seq(Message) /\ 0 \in 0 .. MaxObservers
    BY BoundAssumption
  <2> QED  BY <1>4, <2>1 DEF KillApp, Text
<1>5. ASSUME NEW d \in Device, Refuse(d) \/ Underneath(d)  PROVE ChatTypeOK'
  BY <1>5 DEF Refuse, Underneath, uiVars
<1>6. CASE UNCHANGED chatVars
  BY <1>6 DEF chatVars, uiVars
<1> QED  BY <1>1, <1>2, <1>3, <1>4, <1>5, <1>6, DidSelectRowTyped, DeliverTyped DEF ChatNext

\* A step without a new answer, under which the store only grows and the writes
\* of every device stay those of its user.
LEMMA AnswersKeepSafe ==
    ASSUME BoardInv, NEW m, m.uID \in Device, m.time \in Key, Safe(m), \A e \in Device : Mine(e),
           store[m.time] # NoValue => store'[m.time] # NoValue,
           AnswersDue(m.uID)' \subseteq AnswersDue(m.uID),
           \A i \in DOMAIN putsToAck'[m.uID] :
              \/ \E j \in DOMAIN putsToAck[m.uID] : putsToAck'[m.uID][i] = putsToAck[m.uID][j]
              \/ \E a \in AnswersDue(m.uID) : putsToAck'[m.uID][i] = a.answer,
           \A w \in writes[m.uID] :
              w.value = m /\ ~Refused(m.uID, w.id) => w \in writes'[m.uID] \/ store'[m.time] # NoValue
    PROVE  Safe(m)'
<1>1. ASSUME NEW id, ~Refused(m.uID, id)
      PROVE  /\ \A a \in AnswersDue(m.uID)' : ~(~a.answer.ok /\ a.answer.id = id)
             /\ \A i \in DOMAIN putsToAck'[m.uID] :
                   ~(~putsToAck'[m.uID][i].ok /\ putsToAck'[m.uID][i].id = id)
  BY <1>1 DEF Refused
<1>2. CASE store[m.time] # NoValue
  BY <1>2 DEF Safe
<1>3. CASE store[m.time] = NoValue
  <2>1. PICK w \in writes[m.uID] : w.value = m /\ ~Refused(m.uID, w.id)
    BY <1>3 DEF Safe
  <2>2. w \in writes'[m.uID] \/ store'[m.time] # NoValue
    BY <2>1
  <2> QED  BY <1>1, <2>1, <2>2 DEF Safe, Refused
<1> QED  BY <1>2, <1>3

\* The library settles a write only when the server has answered it: if it did
\* not refuse it, it has committed it.
LEMMA LibraryKeepsSafe ==
    ASSUME BoardInv, PromisesInv, NEW d \in Device,
           Library(d) \/ ServerListen(d) \/ ServerLoad(d) \/ Disconnect(d),
           NEW m \in promised, m \in Message
    PROVE  Safe(m)'
<1> USE DEF BoardInv, DBInv
<1> DEFINE e == m.uID
<1>1. e \in Device /\ m.time \in Key /\ Safe(m) /\ \A f \in Device : Mine(f)
  BY DEF PromisesInv, Message
<1>2. store' = store
  <2>1. ~ServerPut(d) \/ store' = store
    BY DEF Library, Connect, ReceiveData, ReceiveSet, ReceiveListenOk, ReceiveAnswer, AckPuts,
           ServerListen, ServerLoad, Disconnect, serverVars
  <2> QED  BY <2>1, WritesOnlyLeave DEF Server
<1>3. /\ AnswersDue(e)' \subseteq AnswersDue(e)
      /\ \A i \in DOMAIN putsToAck'[e] :
            \/ \E j \in DOMAIN putsToAck[e] : putsToAck'[e][i] = putsToAck[e][j]
            \/ \E a \in AnswersDue(e) : putsToAck'[e][i] = a.answer
  BY <1>1, AnswersOnlyMove
<1>4. ASSUME NEW w \in writes[e], w.value = m, ~Refused(e, w.id), w \notin writes'[e]
      PROVE  store'[m.time] # NoValue
  <2>1. Library(d)
    BY <1>4 DEF ServerListen, ServerLoad, Disconnect, putVars
  <2>2. w.key = m.time
    BY <1>1, <1>4 DEF Mine
  <2>3. \/ \E a \in AnswersDue(e) : a.answer.id = w.id
        \/ \E i \in DOMAIN putsToAck[e] : putsToAck[e][i].id = w.id
    BY <1>1, <1>4, <2>1, SettledIsAnswered
  <2>4. CASE \E a \in AnswersDue(e) : a.answer.id = w.id
    <3>1. PICK a \in AnswersDue(e) : a.answer.id = w.id
      BY <2>4
    <3>2. a.answer.ok
      BY <1>4, <3>1 DEF Refused
    <3>3. Committed(e, a.answer)
      BY <1>1, <3>1 DEF CommitsStored
    <3> QED  BY <1>2, <1>4, <2>2, <3>1, <3>2, <3>3 DEF Committed
  <2>5. CASE \E i \in DOMAIN putsToAck[e] : putsToAck[e][i].id = w.id
    <3>1. PICK i \in DOMAIN putsToAck[e] : putsToAck[e][i].id = w.id
      BY <2>5
    <3>2. putsToAck[e][i].ok
      BY <1>4, <3>1 DEF Refused
    <3>3. Committed(e, putsToAck[e][i])
      BY <1>1, <3>1 DEF CommitsStored
    <3> QED  BY <1>2, <1>4, <2>2, <3>1, <3>2, <3>3 DEF Committed
  <2> QED  BY <2>3, <2>4, <2>5
<1> QED  BY <1>1, <1>2, <1>3, <1>4, AnswersKeepSafe

LEMMA ServerPutKeepsSafe ==
    ASSUME BoardInv, PromisesInv, NEW d \in Device, ServerPut(d), NEW m \in promised, m \in Message
    PROVE  Safe(m)'
<1> USE DEF BoardInv, DBInv
<1> DEFINE e == m.uID
<1>1. e \in Device /\ m.time \in Key /\ Safe(m)
  BY DEF PromisesInv, Message
<1>2. store[m.time] # NoValue => store'[m.time] # NoValue
  <2>1. PICK w \in writes[d] : store' = [store EXCEPT ![w.key] = w.value]
    <3>1. Head(up[d]).write \in writes[d]
      BY AnswerIsNewest DEF ServerPut, PutsAgree, HeldAgree
    <3> QED  BY <3>1 DEF ServerPut
  <2>2. w \in Write
    BY DEF DBTypeInv, DBTypeOK
  <2> QED  BY <1>1, <2>1, <2>2, ValueAssumption DEF DBTypeInv, DBTypeOK, Snapshot, Write
<1>3. writes' = writes /\ putsToAck' = putsToAck
  BY DEF ServerPut, putVars
<1>4. \A a \in AnswersDue(e)' : a \in AnswersDue(e) \/ a.answer.ok
  <2>1. AnswersDue(e)' \subseteq AnswersDue(e) \cup {AnswerTo(Head(up[d]).write, TRUE)}
    BY <1>1, ServerPutAnswers
  <2>2. AnswerTo(Head(up[d]).write, TRUE).answer.ok
    BY DEF AnswerTo
  <2> QED  BY <2>1, <2>2
<1>5. CASE store[m.time] # NoValue
  BY <1>2, <1>5 DEF Safe
<1>6. CASE store[m.time] = NoValue
  <2>1. PICK w \in writes[e] : w.value = m /\ ~Refused(e, w.id)
    BY <1>1, <1>6 DEF Safe
  <2>2. \A a \in AnswersDue(e)' : ~(~a.answer.ok /\ a.answer.id = w.id)
    BY <1>4, <2>1 DEF Refused
  <2> QED  BY <1>3, <2>1, <2>2 DEF Safe, Refused
<1> QED  BY <1>5, <1>6

\* Only the message that is refused is no longer promised.
LEMMA RefuseKeepsSafe ==
    ASSUME BoardInv, PromisesInv, NEW d \in Device, ServerReject(d), NEW m \in promised, m \in Message,
           m # Head(up[d]).write.value
    PROVE  Safe(m)'
<1> USE DEF BoardInv, DBInv
<1> DEFINE e == m.uID
           v == Head(up[d]).write
<1>1. e \in Device /\ m.time \in Key /\ Safe(m)
  BY DEF PromisesInv, Message
<1>2. store' = store /\ writes' = writes /\ putsToAck' = putsToAck
  BY DEF ServerReject, serverVars, putVars
<1>3. v \in writes[d] /\ v \in Write
  BY AnswerIsNewest DEF ServerReject, PutsAgree, HeldAgree
<1>4. AnswersDue(d)' = AnswersDue(d) \cup {AnswerTo(v, FALSE)} /\ AnswerTo(v, FALSE).answer.id = v.id
  BY <1>3, ServerRejectPuts, AnswerTyped
<1>5. e # d => AnswersDue(e)' = AnswersDue(e)
  BY <1>1 DEF ServerReject, AnswersDue, DBTypeInv, DBTypeOK
<1>6. ASSUME NEW w \in writes[e], w.value = m, ~Refused(e, w.id)
      PROVE  \A a \in AnswersDue(e)' : ~(~a.answer.ok /\ a.answer.id = w.id)
  <2>1. e = d => w.id # v.id
    BY <1>3, <1>6 DEF PutsAgree, HeldAgree
  <2> HIDE DEF v
  <2> QED  BY <1>4, <1>5, <1>6, <2>1 DEF Refused
<1> QED  BY <1>1, <1>2, <1>6 DEF Safe, Refused

\* A message that is sent is shown and will be put; it has no answer yet.
LEMMA SendKeepsSafe ==
    ASSUME BoardInv, ChatTypeOK, PromisesInv, NEW d \in Device, NEW date \in Key, sendMessAction(d, date)
    PROVE  PromisesInv'
<1> USE DEF BoardInv, DBInv
<1>1. PICK mess : mess = [uID |-> d, time |-> date, content |-> draft[d]]
  OBVIOUS
<1>2. PICK w : w = [id |-> nextWriteId[d], key |-> date, value |-> mess]
  OBVIOUS
<1>3. /\ writes' = [writes EXCEPT ![d] = @ \cup {w}] /\ store' = store /\ down' = down
      /\ putsToAck' = putsToAck /\ promised' = promised \cup {mess}
  BY <1>1, <1>2 DEF sendMessAction, SetValue, serverVars
<1>4. /\ w.value = mess /\ w.key = date /\ w.id = nextWriteId[d]
      /\ mess.uID = d /\ mess.time = date
  BY <1>1, <1>2
<1>5. \A e \in Device : AnswersDue(e)' = AnswersDue(e)
  BY <1>3 DEF AnswersDue
<1>6. \A e \in Device : writes'[e] = IF e = d THEN writes[d] \cup {w} ELSE writes[e]
  BY <1>3 DEF DBTypeInv, DBTypeOK
<1>7. \A e \in Device : Mine(e)'
  BY <1>4, <1>6 DEF PromisesInv, Mine
<1>8. ~Refused(d, w.id)
  <2>1. nextWriteId[d] \in Nat
    BY DEF DBTypeInv, DBTypeOK
  <2>2. /\ \A m \in AnswersDue(d) : m.answer.id < w.id /\ m.answer.id \in Nat
        /\ \A i \in DOMAIN putsToAck[d] : putsToAck[d][i].id < w.id /\ putsToAck[d][i].id \in Nat
    <3>1. \A m \in AnswersDue(d) : m.answer.id \in Nat
      BY MsgTypes DEF Answer
    <3>2. \A i \in DOMAIN putsToAck[d] : putsToAck[d][i] \in Answer
      BY DEF DBTypeInv, DBTypeOK
    <3> QED  BY <1>4, <3>1, <3>2, AnswersBelow DEF Answer
  <2> QED  BY <1>4, <2>1, <2>2 DEF Refused
<1>9. Safe(mess)'
  <2>1. w \in writes'[d]
    BY <1>6
  <2> QED  BY <1>3, <1>4, <1>5, <1>8, <2>1 DEF Safe, Refused
<1>10. ASSUME NEW m \in promised  PROVE Safe(m)'
  <2>1. Safe(m) /\ m.uID \in Device
    BY DEF PromisesInv, ChatTypeOK, Message
  <2>2. writes[m.uID] \subseteq writes'[m.uID]
    BY <1>6, <2>1
  <2>3. AnswersDue(m.uID)' = AnswersDue(m.uID) /\ putsToAck'[m.uID] = putsToAck[m.uID]
    BY <1>3, <1>5, <2>1
  <2>4. \A id : ~Refused(m.uID, id) => ~Refused(m.uID, id)'
    BY <2>3 DEF Refused
  <2>5. CASE store[m.time] # NoValue
    BY <1>3, <2>5 DEF Safe
  <2>6. CASE \E x \in writes[m.uID] : x.value = m /\ ~Refused(m.uID, x.id)
    BY <2>2, <2>4, <2>6 DEF Safe
  <2> QED  BY <2>1, <2>5, <2>6 DEF Safe
<1> QED  BY <1>3, <1>7, <1>9, <1>10 DEF PromisesInv

\* With a process its own pending messages go, and no other.
LEMMA KillKeepsSafe ==
    ASSUME BoardInv, ChatTypeOK, PromisesInv, NEW d \in Device, KillApp(d)
    PROVE  PromisesInv'
<1> USE DEF BoardInv, DBInv
<1>1. /\ writes' = [writes EXCEPT ![d] = {}] /\ store' = store /\ down' = [down EXCEPT ![d] = <<>>]
      /\ putsToAck' = [putsToAck EXCEPT ![d] = <<>>] /\ promised' = promised \ PendingOn(d)
  BY DEF KillApp, Kill, LoseConnection
<1>2. \A e \in Device : Mine(e)'
  BY <1>1 DEF PromisesInv, Mine, DBTypeInv, DBTypeOK
<1>3. ASSUME NEW m \in promised', store[m.time] = NoValue  PROVE Safe(m)'
  <2>1. m \in promised /\ m \notin PendingOn(d) /\ m.uID \in Device /\ Safe(m)
    BY <1>1, <1>3 DEF PromisesInv, ChatTypeOK, Message
  <2>2. m.uID # d
    BY <1>3, <2>1 DEF Safe, PendingOn
  <2>3. /\ writes'[m.uID] = writes[m.uID] /\ down'[m.uID] = down[m.uID]
        /\ putsToAck'[m.uID] = putsToAck[m.uID]
    BY <1>1, <2>1, <2>2 DEF DBTypeInv, DBTypeOK
  <2>4. AnswersDue(m.uID)' = AnswersDue(m.uID)
    BY <2>3 DEF AnswersDue
  <2> QED  BY <1>1, <2>1, <2>3, <2>4 DEF Safe, Refused
<1>4. ASSUME NEW m \in promised', store[m.time] # NoValue  PROVE Safe(m)'
  BY <1>1, <1>4 DEF Safe
<1> QED  BY <1>2, <1>3, <1>4 DEF PromisesInv

LEMMA PromisesNext ==
    ASSUME BoardInv, ChatTypeOK, PromisesInv, [ChatNext]_chatVars
    PROVE  PromisesInv'
<1> USE DEF BoardInv, DBInv
<1>1. ASSUME UNCHANGED <<store, writes, down, putsToAck, promised>>  PROVE PromisesInv'
  <2>1. \A e \in Device : AnswersDue(e)' = AnswersDue(e)
    BY <1>1 DEF AnswersDue
  <2>2. \A m \in promised : m.uID \in Device
    BY DEF ChatTypeOK, Message
  <2> QED  BY <1>1, <2>1, <2>2 DEF PromisesInv, Mine, Safe, Refused
<1>2. ASSUME NEW d \in Device, viewWillAppear(d) \/ selectOtherTab(d) \/ didSelectRowAt(d) \/ Deliver(d)
      PROVE  PromisesInv'
  BY <1>1, <1>2 DEF viewWillAppear, selectOtherTab, didSelectRowAt, Deliver, ObserveParent,
                    ObserveChildren, Observe, TakeEvent, dbVars, serverVars, linkVars, putVars
<1>3. ASSUME NEW d \in Device, NEW text \in Text, typeText(d, text)  PROVE PromisesInv'
  BY <1>1, <1>3 DEF typeText, dbVars, serverVars, linkVars, putVars
<1>4. ASSUME NEW d \in Device, Library(d) \/ Server(d) \/ Disconnect(d)
      PROVE  \A e \in Device : Mine(e)'
  <2>1. \A e \in Device : writes'[e] \subseteq writes[e]
    BY <1>4, WritesOnlyLeave
  <2> QED  BY <2>1 DEF PromisesInv, Mine
<1>5. ASSUME NEW d \in Device, Refuse(d)  PROVE PromisesInv'
  <2>1. ServerReject(d) /\ promised' = promised \ {Head(up[d]).write.value}
    BY <1>5 DEF Refuse
  <2>2. \A m \in promised' : Safe(m)'
    BY <2>1, RefuseKeepsSafe DEF ChatTypeOK
  <2> QED  BY <1>4, <2>1, <2>2 DEF PromisesInv, Server
<1>6. ASSUME NEW d \in Device, Underneath(d)  PROVE PromisesInv'
  <2>1. Library(d) \/ ServerListen(d) \/ ServerLoad(d) \/ ServerPut(d) \/ Disconnect(d)
    BY <1>6 DEF Underneath
  <2>2. promised' = promised
    BY <1>6 DEF Underneath
  <2>3. \A m \in promised : Safe(m)'
    BY <2>1, LibraryKeepsSafe, ServerPutKeepsSafe DEF ChatTypeOK
  <2> QED  BY <1>4, <2>1, <2>2, <2>3 DEF PromisesInv, Server
<1>7. CASE UNCHANGED chatVars
  BY <1>1, <1>7 DEF chatVars, dbVars, serverVars, linkVars, putVars
<1> QED  BY <1>2, <1>3, <1>5, <1>6, <1>7, SendKeepsSafe, KillKeepsSafe DEF ChatNext

-----------------------------------------------------------------------------
(* The properties.                                                         *)

LEMMA ChatInit_Inv == ChatInit => ChatInv
<1> SUFFICES ASSUME ChatInit  PROVE ChatInv
  OBVIOUS
<1>1. BoardInv
  BY InitBoard DEF ChatInit
<1>2. ChatTypeOK
  BY BoundAssumption DEF ChatInit, ChatTypeOK, Text
<1>3. ScreensInv
  <2>1. \A d \in Device : registrations[d] = <<>> /\ controller[d] = 0 /\ ~complete[d] /\ screen[d] = "other"
    BY DEF ChatInit, DBInit
  <2> QED  BY <2>1 DEF ScreensInv, Observes, HomeTold, ChatTold
<1>4. PromisesInv
  BY DEF ChatInit, DBInit, PromisesInv, Mine
<1> QED  BY <1>1, <1>2, <1>3, <1>4 DEF ChatInv

LEMMA ChatInvariance == ChatSpec => []ChatInv
<1>1. ChatInv /\ [ChatNext]_chatVars => ChatInv'
  <2> SUFFICES ASSUME ChatInv, [ChatNext]_chatVars  PROVE ChatInv'
    OBVIOUS
  <2>1. BoardInv'
    BY ChatSteps, NextBoard DEF ChatInv
  <2> QED  BY <2>1, ChatTypedNext, ScreensNext, PromisesNext DEF ChatInv
<1> QED  BY <1>1, ChatInit_Inv, PTL DEF ChatSpec

\* The screens of the chat use the library as it is to be used: everything that
\* is proved of RealtimeDB holds under the app.
THEOREM ChatUsesDB == ChatSpec => DBSpec
<1>1. ChatInit => DBInit
  BY DEF ChatInit
<1>2. ChatInv /\ [ChatNext]_chatVars => [DBNext]_dbVars
  BY ChatSteps DEF ChatInv
<1> QED  BY <1>1, <1>2, ChatInvariance, PTL DEF ChatSpec, DBSpec

\* The screens' variables hold what the controllers' properties can hold, and no
\* more chat screens are pushed than there are observers.
THEOREM ChatTyped == ChatSpec => []ChatTypeOK
<1>1. ChatInv => ChatTypeOK
  BY DEF ChatInv
<1> QED  BY <1>1, ChatInvariance, PTL

\* A message that was sent, not refused and not lost with its process is pending
\* or on the server, across any lost connections, resends and answers held back.
THEOREM ChatForgetsNothing == ChatSpec => []NothingForgotten
<1>1. ChatInv => NothingForgotten
  BY DEF ChatInv, PromisesInv, Safe, NothingForgotten, PendingOn
<1> QED  BY <1>1, ChatInvariance, PTL

\* When nothing is under way, the home screen lists the server's messages and an
\* open chat shows them oldest first, once each, however often it was opened.
THEOREM ChatScreensMirror == ChatSpec => []ScreensMirrorStore
<1>1. ChatInv /\ Completing /\ QuietMirrorsStore => ScreensMirrorStore
  <2> SUFFICES ASSUME ChatInv, Completing, QuietMirrorsStore, NEW d \in Device,
                      Quiet(d), ~Acking(d), events[d] = <<>>
               PROVE  /\ chatList[d] = <<store>>
                      /\ screen[d] = "chat" /\ store # Empty => ShowsStore(messages[d])
    BY DEF ScreensMirrorStore, Drained
  <2> USE DEF ChatInv, BoardInv, DBInv
  <2>1. complete[d]
    BY DEF Completing, Quiet, OfType
  <2>2. Home \in Range(registrations[d])
    BY DEF Quiet, ListensCounted, ListensAgree, ScreensInv, Observes
  <2>3. View(d) = store
    BY DEF QuietMirrorsStore
  <2>4. \A r : ~HasBlock(events[d], r)
    BY DEF HasBlock
  <2>5. chatList[d] = <<store>>
    BY <2>1, <2>2, <2>3, <2>4 DEF ScreensInv, HomeTold
  <2>6. ASSUME screen[d] = "chat", store # Empty  PROVE ShowsStore(messages[d])
    <3>1. messages[d] \in OldestFirst(store)
      BY <2>1, <2>3, <2>4, <2>6 DEF ScreensInv, ChatTold
    <3>2. store \in Snapshot
      BY DEF DBTypeInv, DBTypeOK
    <3> QED  BY <3>1, <3>2, SortedRows DEF ShowsStore
  <2> QED  BY <2>5, <2>6
<1> QED  BY <1>1, ChatInvariance, ChatUsesDB, CompletingInvariance, DBQuietMirrorsStore, PTL

-----------------------------------------------------------------------------
(* Rows that stay.  While no message is refused, everything an open chat   *)
(* shows, and the list it was opened from, is in all blocks still to run.  *)

\* Every message is where its time says, on every way it takes.
LEMMA PlacedNext ==
    ASSUME ChatInv, ChatInv', FitInv(Placed), [ChatNext]_chatVars
    PROVE  FitInv(Placed)'
<1>1. [DBNext]_dbVars
  BY ChatSteps DEF ChatInv
<1>2. \A d \in Device : WritesFit(Placed, writes'[d])
  <2> SUFFICES ASSUME NEW d \in Device, NEW w \in writes'[d]  PROVE <<w.key, w.value>> \in Placed
    BY DEF WritesFit
  <2>1. w.key = w.value.time
    BY DEF ChatInv, PromisesInv, Mine
  <2>2. w \in Write
    BY DEF ChatInv, BoardInv, DBInv, DBTypeInv, DBTypeOK
  <2> QED  BY <2>1, <2>2 DEF Write, Placed
<1> QED  BY <1>1, <1>2, FitNext DEF ChatInv

LEMMA MessagesPlaced == ChatSpec => []FitInv(Placed)
<1>1. ChatInit => FitInv(Placed)
  BY InitFits DEF ChatInit
<1>2. ChatInv /\ ChatInv' /\ FitInv(Placed) /\ [ChatNext]_chatVars => FitInv(Placed)'
  BY PlacedNext
<1> QED  BY <1>1, <1>2, ChatInvariance, PTL DEF ChatSpec

\* The rows have the times that the snapshot has children at.
LEMMA RowTimes ==
    ASSUME NEW s \in Snapshot, Fits(Placed, s), NEW rows \in NewestFirst(s) \cup OldestFirst(s)
    PROVE  /\ \A i \in DOMAIN rows : rows[i].time \in Key /\ s[rows[i].time] # NoValue
           /\ \A k \in Key : s[k] # NoValue => \E j \in DOMAIN rows : rows[j].time = k
<1>1. Range(rows) = MessagesOf(s)
  BY SortedRows
<1>2. ASSUME NEW i \in DOMAIN rows  PROVE rows[i].time \in Key /\ s[rows[i].time] # NoValue
  <2>1. rows[i] \in MessagesOf(s)
    BY <1>1 DEF Range
  <2>2. PICK k \in Key : rows[i] = s[k] /\ s[k] # NoValue
    BY <2>1 DEF MessagesOf
  <2> QED  BY <2>2, PlacedTimes
<1>3. ASSUME NEW k \in Key, s[k] # NoValue  PROVE \E j \in DOMAIN rows : rows[j].time = k
  <2>1. s[k] \in MessagesOf(s)
    BY <1>3 DEF MessagesOf
  <2>2. PICK j \in DOMAIN rows : rows[j] = s[k]
    BY <1>1, <2>1 DEF Range
  <2> QED  BY <1>3, <2>2, PlacedTimes
<1> QED  BY <1>2, <1>3

\* All of the keys ks have been shown to device d.
AllShown(d, ks) == \A k \in ks : Shown(d, k)

\* What the rows show, and what the home screen's list has.
TimesOf(rows) == {rows[i].time : i \in DOMAIN rows}
KeysOf(list) == {k \in Key : list # <<>> /\ list[1][k] # NoValue}

\* The rows and the list go with the process; while nothing is refused, every
\* block to come has what they have.
RowsKept(d) ==
    /\ ~complete[d] => messages[d] = <<>> /\ chatList[d] = <<>>
    /\ chatList[d] # <<>> => Fits(Placed, chatList[d][1])
    /\ rejects = 0 => AllShown(d, TimesOf(messages[d]) \cup KeysOf(chatList[d]))

RowsInv == \A d \in Device : RowsKept(d)

LEMMA RowKeys ==
    ASSUME ChatTypeOK, NEW d \in Device
    PROVE  TimesOf(messages[d]) \cup KeysOf(chatList[d]) \subseteq Key
<1>1. messages[d] \in Seq(Message)
  BY DEF ChatTypeOK
<1>2. \A i \in DOMAIN messages[d] : messages[d][i] \in Message
  BY <1>1
<1> QED  BY <1>2 DEF TimesOf, KeysOf, Message

\* A step that leaves the screen's rows and the list alone.
LEMMA RowsStay ==
    ASSUME ChatInv, ChatInv', GrowInv, [DBNext]_dbVars, NEW e \in Device, RowsKept(e),
           rejects' = 0 => rejects = 0, complete[e] => complete'[e],
           messages'[e] = messages[e], chatList'[e] = chatList[e]
    PROVE  RowsKept(e)'
<1>1. ASSUME rejects' = 0, NEW k \in TimesOf(messages[e]) \cup KeysOf(chatList[e])
      PROVE  Shown(e, k)'
  <2>1. complete[e]
    BY <1>1 DEF RowsKept, TimesOf, KeysOf
  <2>2. k \in Key
    BY <1>1, RowKeys DEF ChatInv
  <2>3. Shown(e, k)
    BY <1>1 DEF RowsKept, AllShown
  <2> QED  BY <1>1, <2>1, <2>2, <2>3, ShownNext DEF ChatInv
<1>2. rejects' = 0 => AllShown(e, TimesOf(messages[e]) \cup KeysOf(chatList[e]))'
  BY <1>1 DEF AllShown, TimesOf, KeysOf
<1>3. complete'[e] \/ ~complete[e]
  OBVIOUS
<1> QED  BY <1>2, <1>3 DEF RowsKept

\* An opened chat starts with the rows of the list.
LEMMA OpenedRows ==
    ASSUME ChatInv, ChatInv', GrowInv, [DBNext]_dbVars, NEW e \in Device, RowsKept(e),
           rejects' = 0 => rejects = 0, didSelectRowAt(e)
    PROVE  RowsKept(e)'
<1> DEFINE s == chatList[e][1]
<1>1. PICK rows \in NewestFirst(s) : messages' = [messages EXCEPT ![e] = rows]
  BY DEF didSelectRowAt
<1>2. chatList[e] # <<>> /\ chatList' = chatList /\ complete' = complete
  BY DEF didSelectRowAt, ObserveChildren, Observe
<1>3. s \in Snapshot /\ Fits(Placed, s) /\ complete[e]
  BY <1>2 DEF RowsKept, ChatInv, ChatTypeOK
<1>4. messages'[e] = rows
  BY <1>1 DEF ChatInv, ChatTypeOK
<1>5. TimesOf(rows) \subseteq KeysOf(chatList[e])
  <2>1. \A i \in DOMAIN rows : rows[i].time \in Key /\ s[rows[i].time] # NoValue
    BY <1>3, RowTimes
  <2> QED  BY <1>2, <2>1 DEF TimesOf, KeysOf
<1>6. ASSUME rejects' = 0, NEW k \in KeysOf(chatList[e])  PROVE Shown(e, k)'
  <2>1. k \in Key /\ Shown(e, k)
    BY <1>6 DEF RowsKept, AllShown, KeysOf
  <2> QED  BY <1>2, <1>3, <1>6, <2>1, ShownNext DEF ChatInv
<1>7. rejects' = 0 => AllShown(e, TimesOf(messages[e]) \cup KeysOf(chatList[e]))'
  <2>1. (TimesOf(messages[e]) \cup KeysOf(chatList[e]))' = TimesOf(rows) \cup KeysOf(chatList[e])
    BY <1>2, <1>4 DEF TimesOf, KeysOf
  <2> QED  BY <1>5, <1>6, <2>1 DEF AllShown
<1> QED  BY <1>2, <1>3, <1>7 DEF RowsKept

\* What a block brings, all that follow it have.
LEMMA DeliveredRows ==
    ASSUME ChatInv, ChatInv', GrowInv, FitInv(Placed), [DBNext]_dbVars, NEW e \in Device, RowsKept(e),
           rejects' = 0 => rejects = 0, Deliver(e)
    PROVE  RowsKept(e)'
<1> DEFINE event == Head(events[e])
           s == event.snapshot
           shows == screen[e] = "chat" /\ event.to = controller[e] /\ s # Empty
<1>1. PICK rows \in IF shows THEN OldestFirst(s) ELSE {messages[e]} :
          messages' = [messages EXCEPT ![e] = rows]
  BY DEF Deliver
<1>2. /\ events[e] # <<>> /\ complete' = complete
      /\ chatList' = [chatList EXCEPT ![e] = IF event.to = Home THEN Listed(@, s) ELSE @]
  BY DEF Deliver, TakeEvent
<1>3. s \in Snapshot /\ Fits(Placed, s) /\ complete[e]
  BY <1>2, HeadPlaced DEF ChatInv, GrowInv, CompleteInv
<1>4. ASSUME rejects' = 0, NEW k \in Key, s[k] # NoValue  PROVE Shown(e, k)'
  <2>1. Shown(e, k)
    BY <1>2, <1>4, HeadShown DEF ChatInv
  <2> QED  BY <1>2, <1>3, <1>4, <2>1, ShownNext DEF ChatInv
<1>5. ASSUME rejects' = 0, NEW k \in TimesOf(messages[e]) \cup KeysOf(chatList[e])
      PROVE  Shown(e, k)'
  <2>1. k \in Key /\ Shown(e, k)
    BY <1>5, RowKeys DEF RowsKept, AllShown, ChatInv
  <2> QED  BY <1>2, <1>3, <1>5, <2>1, ShownNext DEF ChatInv
<1>6. messages'[e] = rows /\ (chatList'[e] = <<s>> \/ chatList'[e] = chatList[e])
  BY <1>1, <1>2 DEF ChatInv, ChatTypeOK, Listed
<1> HIDE DEF s
<1>7. rejects' = 0 => \A k \in TimesOf(rows) : Shown(e, k)'
  <2>1. CASE rows \in OldestFirst(s)
    <3>1. \A i \in DOMAIN rows : rows[i].time \in Key /\ s[rows[i].time] # NoValue
      BY <1>3, <2>1, RowTimes
    <3> QED  BY <1>4, <3>1 DEF TimesOf
  <2>2. CASE rows = messages[e]
    BY <1>5, <2>2
  <2> QED  BY <1>1, <2>1, <2>2
<1>8. rejects' = 0 => \A k \in KeysOf(chatList'[e]) : Shown(e, k)'
  <2>1. KeysOf(<<s>>) = {k \in Key : s[k] # NoValue}
    BY DEF KeysOf
  <2> QED  BY <1>4, <1>5, <1>6, <2>1
<1>9. rejects' = 0 => AllShown(e, TimesOf(messages[e]) \cup KeysOf(chatList[e]))'
  BY <1>6, <1>7, <1>8 DEF AllShown, TimesOf, KeysOf
<1>10. chatList'[e] # <<>> => Fits(Placed, chatList'[e][1])
  BY <1>3, <1>6 DEF RowsKept
<1> QED  BY <1>2, <1>3, <1>9, <1>10 DEF RowsKept, Fits

LEMMA RowsNext ==
    ASSUME ChatInv, ChatInv', GrowInv, FitInv(Placed), RowsInv, [ChatNext]_chatVars
    PROVE  RowsInv'
<1> SUFFICES ASSUME NEW e \in Device  PROVE RowsKept(e)'
  BY DEF RowsInv
<1>1. [DBNext]_dbVars /\ RowsKept(e)
  BY ChatSteps DEF ChatInv, RowsInv
<1>2. rejects' = 0 => rejects = 0
  BY <1>1, TakenNext DEF ChatInv, GrowInv, BlocksInv
<1>3. ASSUME complete[e] => complete'[e], messages'[e] = messages[e], chatList'[e] = chatList[e]
      PROVE  RowsKept(e)'
  BY <1>1, <1>2, <1>3, RowsStay
<1>4. ASSUME NEW d \in Device, viewWillAppear(d) \/ selectOtherTab(d)  PROVE RowsKept(e)'
  <2>1. /\ complete' = complete /\ messages' = messages /\ chatList' = chatList
    BY <1>4 DEF viewWillAppear, selectOtherTab, ObserveParent, Observe, dbVars, viewVars
  <2> QED  BY <1>3, <2>1
<1>5. ASSUME NEW d \in Device, NEW text \in Text, typeText(d, text)  PROVE RowsKept(e)'
  BY <1>3, <1>5 DEF typeText, dbVars, viewVars
<1>6. ASSUME NEW d \in Device, NEW date \in Key, sendMessAction(d, date)  PROVE RowsKept(e)'
  BY <1>3, <1>6 DEF sendMessAction, SetValue, uiVars
<1>7. ASSUME NEW d \in Device, didSelectRowAt(d)  PROVE RowsKept(e)'
  <2>1. complete' = complete /\ chatList' = chatList /\ (d # e => messages'[e] = messages[e])
    BY <1>7 DEF didSelectRowAt, ObserveChildren, Observe, ChatInv, ChatTypeOK
  <2> QED  BY <1>1, <1>2, <1>3, <1>7, <2>1, OpenedRows
<1>8. ASSUME NEW d \in Device, Deliver(d)  PROVE RowsKept(e)'
  <2>1. /\ complete' = complete
        /\ d # e => messages'[e] = messages[e] /\ chatList'[e] = chatList[e]
    BY <1>8 DEF Deliver, TakeEvent, ChatInv, ChatTypeOK
  <2> QED  BY <1>1, <1>2, <1>3, <1>8, <2>1, DeliveredRows
<1>9. ASSUME NEW d \in Device, KillApp(d)  PROVE RowsKept(e)'
  <2>1. /\ complete' = [complete EXCEPT ![d] = FALSE]
        /\ messages' = [messages EXCEPT ![d] = <<>>] /\ chatList' = [chatList EXCEPT ![d] = <<>>]
    BY <1>9 DEF KillApp, Kill
  <2>2. CASE d = e
    <3>1. messages'[e] = <<>> /\ chatList'[e] = <<>>
      BY <2>1, <2>2 DEF ChatInv, ChatTypeOK
    <3> QED  BY <3>1 DEF RowsKept, AllShown, TimesOf, KeysOf
  <2>3. CASE d # e
    <3>1. complete'[e] = complete[e] /\ messages'[e] = messages[e] /\ chatList'[e] = chatList[e]
      BY <2>1, <2>3 DEF ChatInv, ChatTypeOK, BoardInv, DBInv, DBTypeInv, DBTypeOK
    <3> QED  BY <1>3, <3>1
  <2> QED  BY <2>2, <2>3
<1>10. ASSUME NEW d \in Device, Refuse(d) \/ Underneath(d)  PROVE RowsKept(e)'
  <2>1. UNCHANGED uiVars /\ (Library(d) \/ Server(d) \/ Disconnect(d))
    BY <1>10 DEF Refuse, Underneath, Server
  <2>2. complete[e] => complete'[e]
    BY <2>1, CompleteKept DEF ChatInv, BoardInv, DBInv
  <2> QED  BY <1>3, <2>1, <2>2 DEF uiVars
<1>11. CASE UNCHANGED chatVars
  BY <1>3, <1>11 DEF chatVars, uiVars, dbVars, viewVars
<1> QED  BY <1>1, <1>4, <1>5, <1>6, <1>7, <1>8, <1>9, <1>10, <1>11 DEF ChatNext

LEMMA RowsInvariance == ChatSpec => []RowsInv
<1>1. ChatInit => RowsInv
  BY DEF ChatInit, RowsInv, RowsKept, AllShown, TimesOf, KeysOf
<1>2. ChatInv /\ ChatInv' /\ GrowInv /\ FitInv(Placed) /\ RowsInv /\ [ChatNext]_chatVars => RowsInv'
  BY RowsNext
<1> QED  BY <1>1, <1>2, ChatInvariance, MessagesPlaced, ChatUsesDB, GrowInvariance, PTL DEF ChatSpec

\* The block that an open chat runs has the time of every row.
LEMMA BlockHasRows ==
    ASSUME ChatInv, GrowInv, FitInv(Placed), RowsInv, rejects = 0, NEW d \in Device, Deliver(d),
           screen[d] = "chat", NEW i \in DOMAIN messages[d]
    PROVE  \E j \in DOMAIN messages'[d] : messages'[d][j].time = messages[d][i].time
<1> DEFINE event == Head(events[d])
           s == event.snapshot
           shows == screen[d] = "chat" /\ event.to = controller[d] /\ s # Empty
           time == messages[d][i].time
<1>1. PICK rows \in IF shows THEN OldestFirst(s) ELSE {messages[d]} :
          messages' = [messages EXCEPT ![d] = rows]
  BY DEF Deliver
<1>2. messages'[d] = rows /\ events[d] # <<>>
  BY <1>1 DEF Deliver, TakeEvent, ChatInv, ChatTypeOK
<1>3. s \in Snapshot /\ Fits(Placed, s) /\ \A k : Shown(d, k) => s[k] # NoValue
  BY <1>2, HeadPlaced DEF ChatInv
<1> HIDE DEF s
<1>4. time \in Key /\ Shown(d, time)
  <2>1. time \in TimesOf(messages[d])
    BY DEF TimesOf
  <2> QED  BY <2>1, RowKeys DEF RowsInv, RowsKept, AllShown, ChatInv
<1> HIDE DEF time
<1>5. CASE rows \in OldestFirst(s)
  <2>1. \E j \in DOMAIN rows : rows[j].time = time
    BY <1>3, <1>4, <1>5, RowTimes
  <2> QED  BY <1>2, <2>1 DEF time
<1>6. CASE rows = messages[d]
  BY <1>2, <1>6
<1> QED  BY <1>1, <1>5, <1>6

\* While no message is refused, no time disappears from the rows of an open chat,
\* across lost connections, collections loaded again and blocks of other screens
\* (the rows are replaced by every block of ChatViewController's observer).
THEOREM ChatRowsOnlyGrow == ChatSpec => RowsOnlyGrow
<1> DEFINE Grow == \A d \in Device :
                      screen[d] = "chat" /\ screen'[d] = "chat" /\ rejects' = 0
                        => \A i \in DOMAIN messages[d] :
                              \E j \in DOMAIN messages'[d] : messages'[d][j].time = messages[d][i].time
<1>1. ChatInv /\ GrowInv /\ FitInv(Placed) /\ RowsInv /\ [ChatNext]_chatVars => [Grow]_chatVars
  <2> SUFFICES ASSUME ChatInv, GrowInv, FitInv(Placed), RowsInv, [ChatNext]_chatVars,
                      NEW e \in Device, screen[e] = "chat", screen'[e] = "chat", rejects' = 0,
                      NEW i \in DOMAIN messages[e]
               PROVE  \E j \in DOMAIN messages'[e] : messages'[e][j].time = messages[e][i].time
    OBVIOUS
  <2>1. rejects = 0
    BY ChatSteps, TakenNext DEF ChatInv, GrowInv, BlocksInv
  <2>2. messages'[e] = messages[e] => \E j \in DOMAIN messages'[e] : messages'[e][j].time = messages[e][i].time
    OBVIOUS
  <2>3. ASSUME NEW d \in Device, didSelectRowAt(d) \/ KillApp(d)  PROVE messages'[e] = messages[e]
    <3>1. d # e
      BY <2>3 DEF didSelectRowAt, KillApp, ChatInv, ChatTypeOK
    <3> QED  BY <2>3, <3>1 DEF didSelectRowAt, KillApp, ChatInv, ChatTypeOK
  <2>4. ASSUME NEW d \in Device, Deliver(d)  PROVE d = e \/ messages'[e] = messages[e]
    BY <2>4 DEF Deliver, ChatInv, ChatTypeOK
  <2>5. ASSUME NEW d \in Device,
               \/ viewWillAppear(d) \/ selectOtherTab(d) \/ Refuse(d) \/ Underneath(d)
               \/ \E text \in Text : typeText(d, text)
               \/ \E date \in Key : sendMessAction(d, date)
        PROVE  messages'[e] = messages[e]
    BY <2>5 DEF viewWillAppear, selectOtherTab, Refuse, Underneath, typeText, sendMessAction, uiVars
  <2>6. UNCHANGED chatVars => messages'[e] = messages[e]
    BY DEF chatVars, uiVars
  <2> QED  BY <2>1, <2>2, <2>3, <2>4, <2>5, <2>6, BlockHasRows DEF ChatNext
<1> QED  BY <1>1, ChatInvariance, MessagesPlaced, RowsInvariance, ChatUsesDB, GrowInvariance, PTL
         DEF ChatSpec, RowsOnlyGrow
=============================================================================
