------------------------------ MODULE ChatSync ------------------------------
(***************************************************************************)
(* The chat of the app on top of the Realtime Database: the home screen    *)
(* that lists the chats (ChatHomeViewController) and the screen of the one *)
(* chat modelled here (ChatViewController), on every device.  The chat's   *)
(* messages are the collection of RealtimeDB; both screens observe it, the *)
(* home screen through its parent "Chat", and neither ever removes its     *)
(* observer.  The key of a message is the sender's clock in milliseconds.  *)
(*                                                                         *)
(* The screens live on the main queue: the user's actions and the blocks   *)
(* of the library interleave with everything the library and the server do.*)
(***************************************************************************)
EXTENDS RealtimeDB

CONSTANTS
    Content         \* the texts a user can type

NoText == ""
Text   == Content \cup {NoText}

\* Message.toDict, without isNew and status, which are the same in all.
Message == [uID : Device, time : Key, content : Text]

\* Observer 0 is the home screen, observer n the n-th ChatViewController.
Home == 0

\* The clock is an Int64: there are finitely many keys.
ASSUME ChatAssumption ==
    /\ Key \subseteq Nat /\ IsFiniteSet(Key)
    /\ Value = Message
    /\ Observer = 0 .. MaxObservers
    /\ NoText \notin Content

VARIABLES
    screen,      \* what the device shows: "home", "chat" or an "other" screen
    chatList,    \* the chat as the home screen has it, <<>> before its first block
    controller,  \* how many ChatViewControllers have been pushed
    messages,    \* the rows of the one on screen
    draft,       \* the text in its field
    promised     \* history: messages sent, not refused and not lost with a process

uiVars   == <<screen, chatList, controller, messages, draft>>
chatVars == <<dbVars, uiVars, promised>>

ChatInit ==
    /\ DBInit
    /\ screen = [d \in Device |-> "other"]
    /\ chatList = [d \in Device |-> <<>>]
    /\ controller = [d \in Device |-> 0]
    /\ messages = [d \in Device |-> <<>>]
    /\ draft = [d \in Device |-> NoText]
    /\ promised = {}

MessagesOf(snapshot) == {snapshot[k] : k \in Key} \ {NoValue}

\* The order of Chat.init, and that of the chat screen's block.  As a bug the
\* first one stands for the second.
NewestFirst(snapshot) ==
    {s \in Bijection(1 .. Cardinality(MessagesOf(snapshot)), MessagesOf(snapshot)) :
        \A i, j \in DOMAIN s : i < j => s[i].time > s[j].time}
OldestFirst(snapshot) ==
    {s \in Bijection(1 .. Cardinality(MessagesOf(snapshot)), MessagesOf(snapshot)) :
        \A i, j \in DOMAIN s : i < j => s[i].time < s[j].time}

-----------------------------------------------------------------------------
(* The home screen.                                                        *)

\* viewWillAppear, when the tab is selected and when the chat screen is popped:
\* getChats observes once more.
viewWillAppear(d) ==
    /\ screen[d] # "home"
    /\ screen' = [screen EXCEPT ![d] = "home"]
    /\ ObserveParent(d, Home)
    /\ UNCHANGED <<chatList, controller, messages, draft, promised>>

\* Another tab is selected; the home screen stays in the tab bar and its block
\* goes on.
selectOtherTab(d) ==
    /\ screen[d] = "home"
    /\ screen' = [screen EXCEPT ![d] = "other"]
    /\ UNCHANGED <<dbVars, chatList, controller, messages, draft, promised>>

\* didSelectRowAt and viewDidLoad of the chat screen: it starts with the rows
\* of the list's chat and an empty field, and observes.
didSelectRowAt(d) ==
    /\ screen[d] = "home" /\ chatList[d] # <<>>
    /\ screen' = [screen EXCEPT ![d] = "chat"]
    /\ controller' = [controller EXCEPT ![d] = @ + 1]
    /\ \E rows \in NewestFirst(chatList[d][1]) : messages' = [messages EXCEPT ![d] = rows]
    /\ draft' = [draft EXCEPT ![d] = NoText]
    /\ ObserveChildren(d, controller[d] + 1)
    /\ UNCHANGED <<chatList, promised>>

-----------------------------------------------------------------------------
(* The chat screen.                                                        *)

typeText(d, text) ==
    /\ screen[d] = "chat"
    /\ draft[d] # text
    /\ draft' = [draft EXCEPT ![d] = text]
    /\ UNCHANGED <<dbVars, screen, chatList, controller, messages, promised>>

\* The send button, also with an empty field; date is whatever the clock says.
\* The field keeps its text until the message comes back as a block.
sendMessAction(d, date) ==
    LET mess == [uID |-> d, time |-> date, content |-> draft[d]] IN
    /\ screen[d] = "chat"
    /\ SetValue(d, date, mess)
    /\ promised' = promised \cup {mess}
    /\ UNCHANGED uiVars

\* Bug: the block of the home screen does not empty the list first.
ListedAgain(list, snapshot) == Append(list, snapshot)

Listed(list, snapshot) == <<snapshot>>

\* A block of the main queue: the home screen replaces its list; the chat
\* screen, if it is still there, replaces its rows and clears its field, unless
\* the collection is empty.  A popped one is only weakly held and does nothing.
Deliver(d) ==
    LET event == Head(events[d]) IN
    /\ TakeEvent(d)
    /\ chatList' = [chatList EXCEPT ![d] = IF event.to = Home THEN Listed(@, event.snapshot) ELSE @]
    /\ LET shows == /\ screen[d] = "chat" /\ event.to = controller[d]
                    /\ event.snapshot # Empty
       IN  /\ \E rows \in IF shows THEN OldestFirst(event.snapshot) ELSE {messages[d]} :
                 messages' = [messages EXCEPT ![d] = rows]
           /\ draft' = [draft EXCEPT ![d] = IF shows THEN NoText ELSE @]
    /\ UNCHANGED <<screen, controller, promised>>

-----------------------------------------------------------------------------
(* The process, the library and the server.                                *)

PendingOn(d) == {w.value : w \in writes[d]}

KillApp(d) ==
    /\ Kill(d)
    /\ screen' = [screen EXCEPT ![d] = "other"]
    /\ chatList' = [chatList EXCEPT ![d] = <<>>]
    /\ controller' = [controller EXCEPT ![d] = 0]
    /\ messages' = [messages EXCEPT ![d] = <<>>]
    /\ draft' = [draft EXCEPT ![d] = NoText]
    /\ promised' = promised \ PendingOn(d)

Refuse(d) ==
    /\ ServerReject(d)
    /\ promised' = promised \ {Head(up[d]).write.value}
    /\ UNCHANGED uiVars

Underneath(d) ==
    /\ Library(d) \/ ServerListen(d) \/ ServerLoad(d) \/ ServerPut(d) \/ Disconnect(d)
    /\ UNCHANGED <<uiVars, promised>>

ChatNext == \E d \in Device :
    \/ viewWillAppear(d)
    \/ selectOtherTab(d)
    \/ didSelectRowAt(d)
    \/ \E text \in Text : typeText(d, text)
    \/ \E date \in Key : sendMessAction(d, date)
    \/ Deliver(d)
    \/ KillApp(d)
    \/ Refuse(d)
    \/ Underneath(d)

ChatSpec == ChatInit /\ [][ChatNext]_chatVars

\* The library, the server and the main queue go on; users need not.
ChatFairness == \A d \in Device :
    /\ WF_chatVars(Library(d) /\ UNCHANGED <<uiVars, promised>>)
    /\ WF_chatVars((ServerListen(d) \/ ServerLoad(d) \/ ServerPut(d)) /\ UNCHANGED <<uiVars, promised>>)
    /\ WF_chatVars(Deliver(d))

FairChatSpec == ChatSpec /\ ChatFairness

-----------------------------------------------------------------------------

\* The screens' variables hold what the controllers' properties can hold.
ChatTypeOK ==
    /\ screen \in [Device -> {"other", "home", "chat"}]
    /\ chatList \in [Device -> {<<>>} \cup {<<s>> : s \in Snapshot}]
    /\ controller \in [Device -> 0 .. MaxObservers]
    /\ messages \in [Device -> Seq(Message)]
    /\ draft \in [Device -> Text]
    /\ promised \subseteq Message

\* A message that was sent, not refused and not lost with the process of its
\* sender is still pending on the sender's device, or on the server, where only
\* a message with the same millisecond can have taken its place.
NothingForgotten ==
    \A m \in promised : m \in PendingOn(m.uID) \/ store[m.time] # NoValue

\* The blocks of the screen that device d shows have run.
Drained(d) == events[d] = <<>>

\* The rows are all messages of the server, the oldest first, each once.
ShowsStore(rows) ==
    /\ Range(rows) = MessagesOf(store)
    /\ \A i, j \in DOMAIN rows : i < j => rows[i].time < rows[j].time

\* When nothing is under way, an open chat shows the server's messages, oldest
\* first, once each, and the home screen, shown or not, lists the chat with the
\* same messages: however often the screens were opened, and although every
\* opening leaves one more observer behind.  The one exception is an empty
\* collection, whose block the chat screen ignores (ChatViewController.swift:72).
ScreensMirrorStore ==
    \A d \in Device : Quiet(d) /\ ~Acking(d) /\ Drained(d) =>
        /\ chatList[d] = <<store>>
        /\ screen[d] = "chat" /\ store # Empty => ShowsStore(messages[d])

\* While no message is refused, none disappears from an open chat, not even
\* across a lost connection, and not when the rows of the home screen's list
\* are replaced by the chat's own first block.
RowsOnlyGrow ==
    [][\A d \in Device :
          screen[d] = "chat" /\ screen'[d] = "chat" /\ rejects' = 0
            => \A i \in DOMAIN messages[d] :
                  \E j \in DOMAIN messages'[d] : messages'[d][j].time = messages[d][i].time]_chatVars

\* In the end an open chat shows what the server has, whatever was lost or sent
\* again on the way.
ChatConverges ==
    <>[](\A d \in Device :
            screen[d] = "chat" /\ store # Empty => ShowsStore(messages[d]))
=============================================================================
