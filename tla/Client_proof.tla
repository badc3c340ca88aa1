----------------------------- MODULE Client_proof -----------------------------
(***************************************************************************)
(* Proofs about the two parts of a client that are modelled beside the     *)
(* database: Account, for every number of devices, accounts and calls, and *)
(* Transactions, for every number of children, transactions, retries, sets,*)
(* foreign changes, refused puts and lost connections.                     *)
(***************************************************************************)
EXTENDS Account, Transactions, FiniteSetTheorems, SequenceTheorems, WellFoundedInduction, TLAPS

-----------------------------------------------------------------------------
(* Signing in and registering.                                             *)

(***************************************************************************)
(* What each device keeps.  The loader can only match the unfinished e-mail*)
(* sign in if there is at most one; and that there is at most one needs    *)
(* that a finished one has a home screen, which cannot be left.            *)
(***************************************************************************)
DeviceOK(d) ==
    /\ loader[d] <=> Unfinished(d) # {}
    /\ \A b, c \in EmailSignIns(d) : b = c
    /\ \A c \in EmailSignIns(d) : c.stage = "home" => homes[d] # <<>>

AccountInv == AccountTypeOK /\ \A d \in Device : DeviceOK(d)

\* A step that concerns device d only.
LEMMA OneDevice ==
    ASSUME AccountInv, AccountTypeOK', NEW d \in Device, DeviceOK(d)',
           \A e \in Device \ {d} :
               loader'[e] = loader[e] /\ homes'[e] = homes[e] /\ calls'[e] = calls[e]
    PROVE  AccountInv'
<1> SUFFICES ASSUME NEW e \in Device, e # d  PROVE DeviceOK(e)'
  BY DEF AccountInv
<1>1. DeviceOK(e)
  BY DEF AccountInv
<1>2. EmailSignIns(e)' = EmailSignIns(e) /\ Unfinished(e)' = Unfinished(e)
  BY DEF EmailSignIns, Unfinished
<1> QED  BY <1>1, <1>2 DEF DeviceOK

LEMMA InitOK == AccountInit => AccountInv
BY DEF AccountInit, AccountInv, AccountTypeOK, DeviceOK, EmailSignIns, Unfinished

-----------------------------------------------------------------------------
(* The user's actions.                                                     *)

LEMMA StartTyped ==
    ASSUME AccountTypeOK, NEW d \in Device, NEW a \in Account, NEW kind \in Kind,
           Start(d, kind, a)
    PROVE  /\ calls' \in [Device -> SUBSET Call]
           /\ started' \in [Device -> Nat]
           /\ UNCHANGED <<serverVars, homes, trapped>>
BY DEF AccountTypeOK, Start, Call, Stage

LEMMA SignInOK ==
    ASSUME AccountInv, NEW d \in Device, NEW a \in Account, signInAction(d, a)
    PROVE  AccountInv'
<1> DEFINE call == [n |-> started[d], kind |-> "email", account |-> a, stage |-> "asked"]
<1>1. AccountTypeOK /\ DeviceOK(d) /\ ~loader[d] /\ homes[d] = <<>>
  BY DEF AccountInv, signInAction, Touchable
<1>2. AccountTypeOK'
  BY <1>1, StartTyped DEF AccountTypeOK, signInAction, Kind, serverVars
<1>3. EmailSignIns(d) = {}
  BY <1>1 DEF DeviceOK, Unfinished
<1>4. calls'[d] = calls[d] \cup {call}
  BY <1>1 DEF signInAction, Start, AccountTypeOK
<1>5. EmailSignIns(d)' = {call} /\ Unfinished(d)' = {call}
  BY <1>3, <1>4 DEF EmailSignIns, Unfinished
<1>6. loader'[d] = TRUE /\ homes' = homes
  BY <1>1 DEF signInAction, Start, AccountTypeOK
<1>7. DeviceOK(d)'
  BY <1>1, <1>5, <1>6 DEF DeviceOK
<1> QED  BY <1>1, <1>2, <1>6, <1>7, OneDevice DEF signInAction, Start, AccountTypeOK

\* The other taps start no e-mail sign in and leave the loader alone.
LEMMA OtherTapOK ==
    ASSUME AccountInv, NEW d \in Device, NEW a \in Account,
           \/ signInWithGoogleAction(d, a) \/ btnSignUpAction(d, a)
           \/ signupBtnAction(d) \/ leaveRegistration(d)
    PROVE  AccountInv'
<1>1. AccountTypeOK /\ DeviceOK(d)
  BY DEF AccountInv
<1>2. AccountTypeOK'
  BY <1>1, StartTyped
     DEF AccountTypeOK, signInWithGoogleAction, btnSignUpAction, signupBtnAction,
         leaveRegistration, Kind, serverVars, deviceVars
<1>3. /\ UNCHANGED <<loader, homes>>
      /\ \A e \in Device \ {d} : calls'[e] = calls[e]
  BY <1>1 DEF AccountTypeOK, signInWithGoogleAction, btnSignUpAction, signupBtnAction,
         leaveRegistration, Start, serverVars, deviceVars
<1>4. EmailSignIns(d)' = EmailSignIns(d)
  BY <1>1 DEF AccountTypeOK, signInWithGoogleAction, btnSignUpAction, signupBtnAction,
         leaveRegistration, Start, EmailSignIns, deviceVars
<1>5. DeviceOK(d)'
  BY <1>1, <1>3, <1>4 DEF DeviceOK, Unfinished
<1> QED  BY <1>2, <1>3, <1>5, OneDevice

-----------------------------------------------------------------------------
(* Answers and callbacks.                                                  *)

\* A call that moves to another stage and keeps its kind, or was none and
\* becomes none by e-mail, keeps the e-mail sign ins apart.
LEMMA BecomesKeeps ==
    ASSUME AccountTypeOK, NEW d \in Device, DeviceOK(d),
           NEW c \in calls[d], NEW b \in Call,
           b.kind = "email" <=> c.kind = "email",
           Becomes(d, c, b)
    PROVE  /\ calls' \in [Device -> SUBSET Call]
           /\ \A e \in Device \ {d} : calls'[e] = calls[e]
           /\ c.kind = "email" => /\ EmailSignIns(d) = {c} /\ EmailSignIns(d)' = {b}
                                  /\ loader[d] <=> c.stage # "home"
           /\ c.kind # "email" => EmailSignIns(d)' = EmailSignIns(d)
<1>1. /\ calls' \in [Device -> SUBSET Call]
      /\ \A e \in Device \ {d} : calls'[e] = calls[e]
      /\ calls'[d] = (calls[d] \ {c}) \cup {b}
  BY DEF AccountTypeOK, Becomes
<1>2. EmailSignIns(d)' = {x \in (calls[d] \ {c}) \cup {b} : x.kind = "email"}
  BY <1>1 DEF EmailSignIns
<1>3. CASE c.kind = "email"
  <2>1. EmailSignIns(d) = {c}
    BY <1>3 DEF EmailSignIns, DeviceOK
  <2>2. EmailSignIns(d)' = {b}
    BY <1>2, <1>3, <2>1 DEF EmailSignIns
  <2>3. loader[d] <=> c.stage # "home"
    BY <2>1 DEF DeviceOK, Unfinished
  <2> QED  BY <1>1, <1>3, <2>1, <2>2, <2>3
<1>4. CASE c.kind # "email"
  <2>1. EmailSignIns(d)' = EmailSignIns(d)
    BY <1>2, <1>4 DEF EmailSignIns
  <2> QED  BY <1>1, <1>4, <2>1
<1> QED  BY <1>3, <1>4

\* A call moves on before its user's home screen opens: an answer, Google's
\* credential going to Firebase Auth, an observer starting.
LEMMA MovesOn ==
    ASSUME AccountInv, NEW d \in Device, NEW c \in calls[d], NEW b \in Call,
           b.kind = "email" <=> c.kind = "email",
           c.stage # "home", b.stage # "home",
           Becomes(d, c, b),
           AccountTypeOK', UNCHANGED <<loader, homes>>
    PROVE  AccountInv'
<1>1. AccountTypeOK /\ DeviceOK(d)
  BY DEF AccountInv
<1>2. DeviceOK(d)'
  <2>1. CASE c.kind = "email"
    <3>1. EmailSignIns(d)' = {b} /\ Unfinished(d)' = {b} /\ loader[d]
      BY <1>1, <2>1, BecomesKeeps DEF Unfinished
    <3> QED  BY <1>1, <3>1 DEF DeviceOK
  <2>2. CASE c.kind # "email"
    BY <1>1, <2>2, BecomesKeeps DEF DeviceOK, Unfinished
  <2> QED  BY <2>1, <2>2
<1> QED  BY <1>1, <1>2, BecomesKeeps, OneDevice

LEMMA CallTyped ==
    ASSUME AccountTypeOK, NEW d \in Device, NEW c \in calls[d]
    PROVE  c \in Call
BY DEF AccountTypeOK

LEMMA AnswerOK ==
    ASSUME AccountInv, NEW d \in Device, NEW c \in calls[d],
           NEW answer \in {"granted", "denied"}, Answer(d, c, answer)
    PROVE  AccountInv'
<1> DEFINE b == [c EXCEPT !.stage = answer]
<1>1. AccountTypeOK /\ DeviceOK(d) /\ c \in Call
  BY CallTyped DEF AccountInv
<1>2. b \in Call /\ b.kind = c.kind /\ b.stage # "home" /\ c.stage # "home"
  BY <1>1 DEF Call, Stage, Answer
<1>3. Becomes(d, c, b) /\ UNCHANGED <<loader, homes>>
  BY DEF Answer, screenVars
<1>4. AccountTypeOK'
  <2>1. calls' \in [Device -> SUBSET Call]
    BY <1>1, <1>2, <1>3, BecomesKeeps
  <2>2. accounts' \subseteq Account /\ accounts \subseteq accounts'
    BY <1>1 DEF Answer, AccountTypeOK, Call
  <2> QED  BY <1>1, <2>1, <2>2 DEF Answer, AccountTypeOK, screenVars
<1> QED  BY <1>2, <1>3, <1>4, MovesOn

LEMMA DidSignInOK ==
    ASSUME AccountInv, NEW d \in Device, NEW c \in calls[d], didSignInFor(d, c)
    PROVE  AccountInv'
<1> DEFINE b == [c EXCEPT !.kind = "google", !.stage = "asked"]
<1>1. AccountTypeOK /\ DeviceOK(d) /\ c \in Call
  BY CallTyped DEF AccountInv
<1>2. b \in Call /\ b.kind = "google" /\ c.kind = "token" /\ b.stage # "home" /\ c.stage # "home"
  BY <1>1 DEF Call, Kind, Stage, didSignInFor, TakeAnswer
<1>3. Becomes(d, c, b) /\ UNCHANGED <<loader, homes>>
  BY DEF didSignInFor, serverVars, screenVars
<1>4. AccountTypeOK'
  <2>1. calls' \in [Device -> SUBSET Call]
    BY <1>1, <1>2, <1>3, BecomesKeeps
  <2> QED  BY <1>1, <2>1 DEF didSignInFor, AccountTypeOK, serverVars, screenVars
<1> QED  BY <1>2, <1>3, <1>4, MovesOn

LEMMA GetUserOK ==
    ASSUME AccountInv, NEW d \in Device, NEW c \in calls[d], getUserFromFirebase(d, c)
    PROVE  AccountInv'
<1> DEFINE b == [c EXCEPT !.stage = "observing"]
<1>1. AccountTypeOK /\ DeviceOK(d) /\ c \in Call
  BY CallTyped DEF AccountInv
<1>2. b \in Call /\ b.kind = c.kind /\ b.stage # "home" /\ c.stage # "home"
  BY <1>1 DEF Call, Stage, getUserFromFirebase, TakeAnswer
<1>3. Becomes(d, c, b) /\ UNCHANGED <<loader, homes>>
  BY DEF getUserFromFirebase, serverVars, screenVars
<1>4. AccountTypeOK'
  <2>1. calls' \in [Device -> SUBSET Call]
    BY <1>1, <1>2, <1>3, BecomesKeeps
  <2> QED  BY <1>1, <2>1 DEF getUserFromFirebase, AccountTypeOK, serverVars, screenVars
<1> QED  BY <1>2, <1>3, <1>4, MovesOn

\* A denied e-mail sign in was the only one, so the loader goes with it.
LEMMA DeniedOK ==
    ASSUME AccountInv, NEW d \in Device, NEW c \in calls[d], Denied(d, c)
    PROVE  AccountInv'
<1>1. AccountTypeOK /\ DeviceOK(d)
  BY DEF AccountInv
<1>2. AccountTypeOK'
  BY <1>1 DEF Denied, DismissAfter, AccountTypeOK, serverVars
<1>3. /\ calls'[d] = calls[d] \ {c} /\ loader'[d] = (loader[d] /\ c.kind # "email")
      /\ UNCHANGED homes
      /\ \A e \in Device \ {d} : calls'[e] = calls[e] /\ loader'[e] = loader[e]
  BY <1>1 DEF Denied, DismissAfter, AccountTypeOK, serverVars
<1>4. DeviceOK(d)'
  <2>1. CASE c.kind = "email"
    <3>1. EmailSignIns(d)' = {}
      BY <1>1, <1>3, <2>1 DEF DeviceOK, EmailSignIns
    <3> QED  BY <1>1, <1>3, <2>1, <3>1 DEF DeviceOK, Unfinished
  <2>2. CASE c.kind # "email"
    <3>1. EmailSignIns(d)' = EmailSignIns(d)
      BY <1>3, <2>2 DEF EmailSignIns
    <3>2. loader'[d] = loader[d]
      BY <1>1, <1>3, <2>2 DEF AccountTypeOK
    <3> QED  BY <1>1, <1>3, <3>1, <3>2 DEF DeviceOK, Unfinished
  <2> QED  BY <2>1, <2>2
<1> QED  BY <1>2, <1>3, <1>4, OneDevice

LEMMA OpenHomeOK ==
    ASSUME AccountInv, NEW d \in Device, NEW c \in calls[d], openHome(d, c)
    PROVE  AccountInv'
<1> DEFINE b == [c EXCEPT !.stage = "home"]
<1>1. AccountTypeOK /\ DeviceOK(d) /\ c \in Call
  BY CallTyped DEF AccountInv
<1>2. b \in Call /\ b.kind = c.kind /\ b.stage = "home"
  BY <1>1 DEF Call, Stage
<1>3. /\ Becomes(d, c, b)
      /\ homes'[d] = Append(homes[d], c.account)
      /\ loader'[d] = (loader[d] /\ c.kind # "email")
      /\ \A e \in Device \ {d} : loader'[e] = loader[e] /\ homes'[e] = homes[e]
  BY <1>1 DEF openHome, DismissAfter, AccountTypeOK
<1>4. AccountTypeOK'
  <2>1. calls' \in [Device -> SUBSET Call]
    BY <1>1, <1>2, <1>3, BecomesKeeps
  <2>2. homes' \in [Device -> Seq(Account)]
    BY <1>1 DEF openHome, AccountTypeOK, Call
  <2> QED  BY <1>1, <2>1, <2>2 DEF openHome, DismissAfter, AccountTypeOK, serverVars
<1>5. homes'[d] # <<>>
  <2>1. homes[d] \in Seq(Account)
    BY <1>1 DEF AccountTypeOK
  <2>2. Len(homes'[d]) = Len(homes[d]) + 1 /\ Len(homes[d]) \in Nat
    BY <1>3, <2>1
  <2> QED  BY <2>2
<1>6. DeviceOK(d)'
  <2>1. CASE c.kind = "email"
    <3>1. EmailSignIns(d)' = {b} /\ Unfinished(d)' = {}
      BY ZenonT(60), <1>1, <1>2, <1>3, <2>1, BecomesKeeps DEF Unfinished
    <3> QED  BY <1>3, <1>5, <2>1, <3>1 DEF DeviceOK
  <2>2. CASE c.kind # "email"
    <3>1. EmailSignIns(d)' = EmailSignIns(d)
      BY <1>1, <1>2, <1>3, <2>2, BecomesKeeps
    <3>2. loader'[d] = loader[d]
      BY <1>1, <1>3, <2>2 DEF AccountTypeOK
    <3> QED  BY <1>1, <1>3, <1>5, <3>1, <3>2 DEF DeviceOK, Unfinished
  <2> QED  BY <2>1, <2>2
<1> QED  BY ZenonT(60), <1>1, <1>2, <1>3, <1>4, <1>6, BecomesKeeps, OneDevice

\* A process that ends leaves nothing behind on its device.
LEMMA EndProcessOK ==
    ASSUME AccountInv, NEW d \in Device, EndProcess(d),
           putting' \subseteq accounts, trapped' \in [Device -> BOOLEAN]
    PROVE  AccountInv'
<1>1. AccountTypeOK
  BY DEF AccountInv
<1>2. AccountTypeOK'
  BY <1>1 DEF EndProcess, AccountTypeOK
<1>3. /\ calls'[d] = {} /\ homes'[d] = <<>> /\ loader'[d] = FALSE
      /\ \A e \in Device \ {d} :
            loader'[e] = loader[e] /\ homes'[e] = homes[e] /\ calls'[e] = calls[e]
  BY <1>1 DEF EndProcess, AccountTypeOK
<1>4. DeviceOK(d)'
  BY <1>3 DEF DeviceOK, EmailSignIns, Unfinished
<1> QED  BY <1>2, <1>3, <1>4, OneDevice
-----------------------------------------------------------------------------

(***************************************************************************)
(* Registrations.  That no record is written twice needs that the account  *)
(* of a granted registration was new then: whoever else has it waits for   *)
(* nothing any more, and no second registration of it is granted.          *)
(***************************************************************************)
HandsOver(c) == c.kind = "create" /\ c.stage = "granted"

Registrations ==
    /\ putting \cap records = {}
    /\ \A d \in Device : \A c \in calls[d] :
          HandsOver(c) => c.account \in accounts /\ c.account \notin records \cup putting
    /\ \A d, e \in Device : \A b \in calls[d], c \in calls[e] :
          HandsOver(b) /\ HandsOver(c) /\ b.account = c.account => d = e /\ b = c

LEMMA RegistrationsInit == AccountInit => Registrations
BY DEF AccountInit, Registrations

\* A step that grants no registration and hands over no record.
LEMMA NoneGranted ==
    ASSUME Registrations, accounts \subseteq accounts', putting' \cap records' = {},
           records' \cup putting' \subseteq records \cup putting,
           \A d \in Device : \A c \in calls'[d] : HandsOver(c) => c \in calls[d]
    PROVE  Registrations'
<1>1. ASSUME NEW d \in Device, NEW c \in calls'[d], HandsOver(c)
      PROVE  c.account \in accounts' /\ c.account \notin records' \cup putting'
  BY <1>1 DEF Registrations
<1>2. ASSUME NEW d \in Device, NEW e \in Device, NEW b \in calls'[d], NEW c \in calls'[e],
             HandsOver(b), HandsOver(c), b.account = c.account
      PROVE  d = e /\ b = c
  BY <1>2 DEF Registrations
<1> QED  BY <1>1, <1>2 DEF Registrations, HandsOver

LEMMA RegistrationsNext ==
    ASSUME AccountTypeOK, Registrations, [AccountNext]_accountVars
    PROVE  Registrations'
<1>0. putting \cap records = {}
  BY DEF Registrations
<1>1. ASSUME NEW d \in Device, Tap(d)  PROVE Registrations'
  <2>1. CASE UNCHANGED <<serverVars, calls>>
    BY <1>0, <2>1, NoneGranted DEF serverVars
  <2>2. CASE \E kind \in Kind, a \in Account : Start(d, kind, a)
    <3>1. PICK b : /\ b.stage = "asked"
                   /\ calls' = [calls EXCEPT ![d] = @ \cup {b}]
      BY <2>2 DEF Start
    <3>2. UNCHANGED <<accounts, records, putting>>
      BY <2>2 DEF Start, serverVars
    <3>3. \A e \in Device : \A c \in calls'[e] : HandsOver(c) => c \in calls[e]
      BY <3>1 DEF AccountTypeOK, HandsOver
    <3> QED  BY <1>0, <3>2, <3>3, NoneGranted
  <2> QED  BY <1>1, <2>1, <2>2 DEF Tap, signInAction, signInWithGoogleAction, signupBtnAction,
              leaveRegistration, btnSignUpAction, Kind, serverVars, deviceVars
<1>2. ASSUME NEW d \in Device, Callback(d)  PROVE Registrations'
  <2>1. PICK c \in calls[d] : \/ Denied(d, c) \/ didSignInFor(d, c)
                             \/ getUserFromFirebase(d, c) \/ openHome(d, c) \/ Registered(d, c)
    BY <1>2 DEF Callback
  <2>2. c \in Call
    BY CallTyped
  <2>3. CASE Denied(d, c)
    <3>1. UNCHANGED <<accounts, records, putting>> /\ calls' = [calls EXCEPT ![d] = @ \ {c}]
      BY <2>3 DEF Denied, serverVars
    <3>2. \A e \in Device : \A x \in calls'[e] : x \in calls[e]
      BY <3>1 DEF AccountTypeOK
    <3> QED  BY <1>0, <3>1, <3>2, NoneGranted
  <2>4. CASE didSignInFor(d, c) \/ getUserFromFirebase(d, c) \/ openHome(d, c)
    <3>1. PICK b : Becomes(d, c, b) /\ b.stage # "granted"
      <4>1. /\ [c EXCEPT !.kind = "google", !.stage = "asked"].stage = "asked"
            /\ [c EXCEPT !.stage = "observing"].stage = "observing"
            /\ [c EXCEPT !.stage = "home"].stage = "home"
        BY <2>2 DEF Call
      <4> QED  BY <2>4, <4>1 DEF didSignInFor, getUserFromFirebase, openHome
    <3>2. UNCHANGED <<accounts, records, putting>>
      BY <2>4 DEF didSignInFor, getUserFromFirebase, openHome, serverVars
    <3>3. \A e \in Device : \A x \in calls'[e] : HandsOver(x) => x \in calls[e]
      BY <3>1 DEF Becomes, AccountTypeOK, HandsOver
    <3> QED  BY <1>0, <3>2, <3>3, NoneGranted
  <2>5. CASE Registered(d, c)
    <3>1. /\ HandsOver(c) /\ putting' = putting \cup {c.account}
          /\ UNCHANGED <<accounts, records>> /\ calls'[d] = {}
          /\ \A e \in Device \ {d} : calls'[e] = calls[e]
      BY <2>5 DEF Registered, TakeAnswer, EndProcess, HandsOver, AccountTypeOK
    <3>2. c.account \notin records \cup putting
      BY <3>1 DEF Registrations
    <3>3. ASSUME NEW e \in Device, NEW b \in calls'[e], HandsOver(b)
          PROVE  b.account \in accounts' /\ b.account \notin records' \cup putting'
      <4>1. e # d /\ b \in calls[e]
        BY <3>1, <3>3
      <4>2. b.account # c.account
        BY <3>1, <3>3, <4>1 DEF Registrations
      <4> QED  BY <3>1, <3>3, <4>1, <4>2 DEF Registrations
    <3>4. ASSUME NEW e \in Device, NEW f \in Device, NEW a \in calls'[e], NEW b \in calls'[f],
                 HandsOver(a), HandsOver(b), a.account = b.account
          PROVE  e = f /\ a = b
      <4>1. a \in calls[e] /\ b \in calls[f]
        BY <3>1
      <4> QED  BY <3>4, <4>1 DEF Registrations
    <3> QED  BY <1>0, <3>1, <3>2, <3>3, <3>4 DEF Registrations, HandsOver
  <2> QED  BY <2>1, <2>3, <2>4, <2>5
<1>3. ASSUME NEW d \in Device, AuthAnswers(d)  PROVE Registrations'
  <2>1. PICK c \in calls[d], answer \in {"granted", "denied"} : Answer(d, c, answer)
    BY <1>3 DEF AuthAnswers
  <2> DEFINE new == [c EXCEPT !.stage = answer]
  <2>2. new.kind = c.kind /\ new.account = c.account /\ new.stage = answer
    BY CallTyped DEF Call
  <2>3. Becomes(d, c, new) /\ accounts \subseteq accounts' /\ UNCHANGED <<records, putting>>
    BY <2>1 DEF Answer
  <2> HIDE DEF new
  <2>4. \A e \in Device : \A x \in calls'[e] : x \in calls[e] \/ (e = d /\ x = new)
    BY <2>3 DEF Becomes, AccountTypeOK
  <2>5. CASE ~HandsOver(new)
    BY <1>0, <2>3, <2>4, <2>5, NoneGranted
  <2>6. CASE HandsOver(new)
    <3>1. new.account \notin accounts /\ new.account \in accounts'
      BY <2>1, <2>2, <2>6 DEF Answer, CanGrant, HandsOver
    <3>2. new.account \notin records \cup putting
      BY <3>1 DEF AccountTypeOK
    <3>3. \A e \in Device : \A x \in calls[e] : HandsOver(x) => x.account # new.account
      BY <3>1 DEF Registrations
    <3>4. ASSUME NEW e \in Device, NEW b \in calls'[e], HandsOver(b)
          PROVE  b.account \in accounts' /\ b.account \notin records' \cup putting'
      BY <2>3, <2>4, <3>1, <3>2, <3>4 DEF Registrations
    <3>5. ASSUME NEW e \in Device, NEW f \in Device, NEW a \in calls'[e], NEW b \in calls'[f],
                 HandsOver(a), HandsOver(b), a.account = b.account
          PROVE  e = f /\ a = b
      BY <2>4, <3>3, <3>5 DEF Registrations
    <3> QED  BY <1>0, <2>3, <3>4, <3>5 DEF Registrations, HandsOver
  <2> QED  BY <2>5, <2>6
<1>4. ASSUME NEW d \in Device, Restart(d)  PROVE Registrations'
  <2>1. UNCHANGED <<accounts, records, putting>> /\ calls' = [calls EXCEPT ![d] = {}]
    BY <1>4 DEF Restart, EndProcess
  <2>2. \A e \in Device : \A x \in calls'[e] : x \in calls[e]
    BY <2>1 DEF AccountTypeOK
  <2> QED  BY <1>0, <2>1, <2>2, NoneGranted
<1>5. ASSUME NEW a \in Account, PutArrives(a)  PROVE Registrations'
  <2>1. /\ putting' = putting \ {a} /\ records' \subseteq records \cup {a} /\ a \in putting
        /\ UNCHANGED <<accounts, calls>>
    BY <1>5 DEF PutArrives, deviceVars
  <2> QED  BY <1>0, <2>1, NoneGranted
<1>6. CASE UNCHANGED accountVars
  BY <1>0, <1>6, NoneGranted DEF accountVars, serverVars, deviceVars
<1> QED  BY <1>1, <1>2, <1>3, <1>4, <1>5, <1>6 DEF AccountNext

LEMMA NextOK ==
    ASSUME AccountInv, Registrations, [AccountNext]_accountVars
    PROVE  AccountInv'
<1> USE DEF AccountInv
<1>1. ASSUME NEW d \in Device, Tap(d)  PROVE AccountInv'
  <2> PICK a \in Account : \/ signInAction(d, a)
                          \/ signInWithGoogleAction(d, a) \/ btnSignUpAction(d, a)
                          \/ signupBtnAction(d) \/ leaveRegistration(d)
    BY <1>1 DEF Tap
  <2> QED  BY SignInOK, OtherTapOK
<1>2. ASSUME NEW d \in Device, Callback(d)  PROVE AccountInv'
  <2> PICK c \in calls[d] : \/ Denied(d, c) \/ didSignInFor(d, c)
                           \/ getUserFromFirebase(d, c) \/ openHome(d, c) \/ Registered(d, c)
    BY <1>2 DEF Callback
  <2>1. CASE Registered(d, c)
    <3>1. AccountTypeOK /\ c \in Call
      BY CallTyped
    <3>2. c.account \in accounts
      BY <2>1 DEF Registered, TakeAnswer, Registrations, HandsOver
    <3> QED  BY <2>1, <3>1, <3>2, EndProcessOK DEF Registered, AccountTypeOK
  <2> QED  BY <2>1, DeniedOK, DidSignInOK, GetUserOK, OpenHomeOK
<1>3. ASSUME NEW d \in Device, AuthAnswers(d)  PROVE AccountInv'
  BY <1>3, AnswerOK DEF AuthAnswers
<1>4. ASSUME NEW d \in Device, Restart(d)  PROVE AccountInv'
  BY <1>4, EndProcessOK DEF Restart, AccountTypeOK
<1>5. ASSUME NEW a \in Account, PutArrives(a)  PROVE AccountInv'
  <2>1. AccountTypeOK'
    BY <1>5 DEF PutArrives, AccountTypeOK, screenVars, deviceVars
  <2>2. \A d \in Device : DeviceOK(d)'
    BY <1>5 DEF PutArrives, DeviceOK, EmailSignIns, Unfinished, screenVars, deviceVars
  <2> QED  BY <2>1, <2>2
<1>6. CASE UNCHANGED accountVars
  BY <1>6 DEF accountVars, serverVars, screenVars, deviceVars, AccountTypeOK,
              DeviceOK, EmailSignIns, Unfinished
<1> QED  BY <1>1, <1>2, <1>3, <1>4, <1>5, <1>6 DEF AccountNext

LEMMA AccountInvariance == AccountSpec => [](AccountInv /\ Registrations)
<1>1. AccountInit => AccountInv /\ Registrations
  BY InitOK, RegistrationsInit
<1>2. AccountInv /\ Registrations /\ [AccountNext]_accountVars => (AccountInv /\ Registrations)'
  BY NextOK, RegistrationsNext DEF AccountInv
<1> QED  BY <1>1, <1>2, PTL DEF AccountSpec

\* The screens, calls and accounts have their types.
THEOREM AccountTyped == AccountSpec => []AccountTypeOK
<1>1. AccountInv => AccountTypeOK
  BY DEF AccountInv
<1> QED  BY <1>1, AccountInvariance, PTL

\* Under the loader and behind a home screen no second e-mail sign in starts.
THEOREM SignInsByOne == AccountSpec => []OneEmailSignIn
<1>1. AccountInv => OneEmailSignIn
  BY DEF AccountInv, DeviceOK, OneEmailSignIn
<1> QED  BY <1>1, AccountInvariance, PTL

\* The one loader of the app is up exactly while the one e-mail sign in is
\* unfinished, however many callbacks of other calls run meanwhile.
THEOREM LoaderMatches == AccountSpec => []LoaderMatchesSignIn
<1>1. AccountInv => LoaderMatchesSignIn
  BY DEF AccountInv, DeviceOK, LoaderMatchesSignIn, OneEmailSignIn
<1> QED  BY <1>1, AccountInvariance, PTL

\* However often Sign Up is tapped, and whenever the put of a trapped process
\* arrives, the record of an account is handed over once (btnSignUpAction).
THEOREM RecordsWrittenOnce == AccountSpec => []RecordWrittenOnce
<1>1. Registrations => RecordWrittenOnce
  <2> SUFFICES ASSUME Registrations  PROVE RecordWrittenOnce
    OBVIOUS
  <2>1. ASSUME NEW a \in Account, NEW d \in Device, NEW e \in Device,
               NEW b \in Registering(d, a), NEW c \in Registering(e, a)
        PROVE  a \notin records \cup putting /\ d = e /\ b = c
    <3>1. /\ b \in calls[d] /\ HandsOver(b) /\ b.account = a
          /\ c \in calls[e] /\ HandsOver(c) /\ c.account = a
      BY DEF Registering, HandsOver
    <3> QED  BY <3>1 DEF Registrations
  <2> QED  BY Zenon, <2>1 DEF RecordWrittenOnce, Registrations
<1> QED  BY <1>1, AccountInvariance, PTL

-----------------------------------------------------------------------------
(* Transactions.                                                           *)

-----------------------------------------------------------------------------
(* Folds.  The handlers go through sequences with FoldLeft; what one does  *)
(* is told by its steps.                                                   *)

LEMMA LeastExists ==
    ASSUME NEW S \in SUBSET Nat, S # {}
    PROVE  \E m \in S : \A x \in S : m <= x
<1>1. PICK m \in S : \A k \in S : ~ (<<k, m>> \in OpToRel(<, Nat))
    BY NatLessThanWellFounded, WFMin
<1>2. \A x \in S : m <= x
    <2>1. ASSUME NEW x \in S  PROVE ~ (x < m)
        BY <1>1, <2>1 DEF OpToRel
    <2> QED  BY <2>1
<1> QED  BY <1>2

\* What is true of 0, and of i if it is of i - 1, is true up to n.
LEMMA Climb ==
    ASSUME NEW n \in Nat, NEW S, 0 \in S, \A i \in 1 .. n : i - 1 \in S => i \in S
    PROVE  \A i \in 0 .. n : i \in S
<1> DEFINE bad == {i \in 0 .. n : i \notin S}
<1> SUFFICES ASSUME bad # {}  PROVE FALSE
    OBVIOUS
<1>1. PICK m \in bad : \A x \in bad : m <= x
    <2>1. bad \in SUBSET Nat
        OBVIOUS
    <2> HIDE DEF bad
    <2> QED  BY <2>1, LeastExists
<1>2. m # 0 /\ m \in 1 .. n /\ m - 1 \in 0 .. n
    OBVIOUS
<1>3. m - 1 \in S
    BY <1>1, <1>2
<1> QED  BY <1>2, <1>3

LEMMA LastOf ==
    ASSUME NEW m \in Nat, NEW s \in SUBSET (1 .. m), m \in s
    PROVE  Max(s) = m
<1> DEFINE P(x) == x \in s /\ \A y \in s : x >= y
<1>1. \A x \in s : x \in 1 .. m /\ x <= m
    OBVIOUS
<1>2. P(m) /\ \A x : P(x) => x = m
    <2>1. m >= m /\ \A x \in s : m >= x
        BY <1>1
    <2>2. ASSUME NEW x \in s, x >= m  PROVE x = m
        BY <1>1, <2>2
    <2> QED  BY <2>1, <2>2
<1>3. Max(s) = CHOOSE x : P(x)
    BY DEF Max
<1> HIDE DEF P
<1> QED  BY <1>2, <1>3

\* The operators that are folded, under one name.
Do(kind, x, y) ==
    CASE kind = "rerun" -> Rerun(x, y)
      [] kind = "abort" -> Abort(x, y)
      [] kind = "node" -> AbortTransactionsAtNode(x, y)
      [] kind = "send" -> SendReady(x, y)
      [] kind = "commit" -> Committed(x, y)
      [] kind = "lose" -> Disconnected(x, y)
      [] kind = "data" -> Shadow(x, y)

Folded(f, kind, base, seq, D) ==
    f = [s \in SUBSET D |-> IF s = {} THEN base ELSE Do(kind, f[s \ {Max(s)}], seq[Max(s)])]

Runs(g, kind, base, n, seq) ==
    /\ g[0] = base
    /\ \A i \in 1 .. n : g[i] = Do(kind, g[i - 1], seq[i])

LEMMA FoldExists ==
    ASSUME NEW kind, NEW base, NEW n \in Nat, NEW seq
    PROVE  \E f : Folded(f, kind, base, seq, 1 .. n)
<1> DEFINE Value(f, s) == IF s = {} THEN base ELSE Do(kind, f[s \ {Max(s)}], seq[Max(s)])
           Folds(f, D) == f = [s \in SUBSET D |-> Value(f, s)]
           some == {m \in 0 .. n : \E f : Folds(f, 1 .. m)}
<1>1. 0 \in some
    <2> DEFINE f == [s \in SUBSET (1 .. 0) |-> base]
    <2>1. \A s \in SUBSET (1 .. 0) : Value(f, s) = base
        OBVIOUS
    <2>2. Folds(f, 1 .. 0)
        <3> HIDE DEF Value
        <3> QED  BY <2>1
    <2> HIDE DEF f, Folds
    <2> QED  BY <2>2
<1>2. ASSUME NEW m \in 1 .. n, m - 1 \in some  PROVE m \in some
    <2>1. PICK f : Folds(f, 1 .. (m - 1))
        BY <1>2
    <2> DEFINE h == [s \in SUBSET (1 .. m) |->
                        IF m \in s THEN Do(kind, f[s \ {m}], seq[m]) ELSE f[s]]
    <2>2. ASSUME NEW s \in SUBSET (1 .. m)  PROVE h[s] = Value(h, s)
        <3>1. CASE m \in s
            <4>1. Max(s) = m /\ m \notin s \ {m} /\ s \ {m} \in SUBSET (1 .. m) /\ s # {}
                BY <3>1, LastOf
            <4>2. h[s \ {m}] = f[s \ {m}]
                BY <4>1
            <4> QED  BY <3>1, <4>1, <4>2
        <3>2. CASE m \notin s
            <4>1. s \in SUBSET (1 .. (m - 1))
                BY <3>2
            <4>2. h[s] = f[s] /\ f[s] = Value(f, s)
                BY <2>1, <3>2, <4>1
            <4>3. s # {} => h[s \ {Max(s)}] = f[s \ {Max(s)}]
                <5> s \ {Max(s)} \in SUBSET (1 .. m) /\ m \notin s \ {Max(s)}
                    BY <3>2
                <5> QED  OBVIOUS
            <4> HIDE DEF h
            <4> QED  BY <4>2, <4>3
        <3> QED  BY <3>1, <3>2
    <2>3. Folds(h, 1 .. m)
        <3> DEFINE V(s) == Value(h, s)
        <3>1. \A s \in SUBSET (1 .. m) : h[s] = V(s)
            BY <2>2
        <3>2. h = [s \in SUBSET (1 .. m) |-> h[s]]
            OBVIOUS
        <3> HIDE DEF V, h
        <3>3. h = [s \in SUBSET (1 .. m) |-> V(s)]
            BY <3>1, <3>2
        <3> QED  BY <3>3 DEF V
    <2> HIDE DEF h, Folds
    <2> QED  BY <2>3
<1>3. PICK f : Folds(f, 1 .. n)
    <2>1. n \in some
        <3> HIDE DEF some
        <3> QED  BY <1>1, <1>2, Climb
    <2> HIDE DEF Folds
    <2> QED  BY <2>1
<1>4. Folded(f, kind, base, seq, 1 .. n)
    BY <1>3 DEF Folded
<1> QED  BY <1>4

LEMMA FoldRuns ==
    ASSUME NEW kind, NEW base, NEW n \in Nat, NEW seq, NEW f, Folded(f, kind, base, seq, 1 .. n)
    PROVE  \E g : Runs(g, kind, base, n, seq) /\ g[n] = f[1 .. n]
<1> DEFINE g == [i \in 0 .. n |-> f[1 .. i]]
           Value(s) == IF s = {} THEN base ELSE Do(kind, f[s \ {Max(s)}], seq[Max(s)])
<1>1. ASSUME NEW i \in 0 .. n  PROVE f[1 .. i] = Value(1 .. i)
    <2>1. 1 .. i \in SUBSET (1 .. n)
        OBVIOUS
    <2>2. f = [s \in SUBSET (1 .. n) |-> Value(s)]
        BY DEF Folded
    <2> HIDE DEF Value
    <2> QED  BY <2>1, <2>2
<1>2. g[0] = base
    <2>1. 0 \in 0 .. n /\ 1 .. 0 = {}
        OBVIOUS
    <2> QED  BY <1>1, <2>1
<1>3. ASSUME NEW i \in 1 .. n  PROVE g[i] = Do(kind, g[i - 1], seq[i])
    <2>1. Max(1 .. i) = i /\ (1 .. i) \ {i} = 1 .. (i - 1) /\ 1 .. i # {} /\ i \in 0 .. n /\ i - 1 \in 0 .. n
        BY LastOf
    <2> QED  BY <1>1, <2>1
<1>4. g[n] = f[1 .. n]
    OBVIOUS
<1> HIDE DEF g
<1> QED  BY <1>2, <1>3, <1>4 DEF Runs

LEMMA RerunFold ==
    ASSUME NEW base, NEW n \in Nat, NEW seq, DOMAIN seq = 1 .. n
    PROVE  \E g : Runs(g, "rerun", base, n, seq) /\ FoldLeft(Rerun, base, seq) = g[n]
<1> DEFINE Folds(f) == f = [s \in SUBSET (1 .. n) |->
                               IF s = {} THEN base ELSE Rerun(f[s \ {Max(s)}], seq[Max(s)])]
           f == CHOOSE f : Folds(f)
<1>1. \A h : Folded(h, "rerun", base, seq, 1 .. n) <=> Folds(h)
    BY DEF Folded, Do
<1>2. Folds(f)
    <2> HIDE DEF Folds
    <2> QED  BY <1>1, FoldExists
<1>3. FoldLeft(Rerun, base, seq) = f[1 .. n]
    BY DEF FoldLeft, MapThenFoldSet
<1> HIDE DEF Folds, f
<1> QED  BY <1>1, <1>2, <1>3, FoldRuns

LEMMA AbortFold ==
    ASSUME NEW base, NEW n \in Nat, NEW seq, DOMAIN seq = 1 .. n
    PROVE  \E g : Runs(g, "abort", base, n, seq) /\ FoldLeft(Abort, base, seq) = g[n]
<1> DEFINE Folds(f) == f = [s \in SUBSET (1 .. n) |->
                               IF s = {} THEN base ELSE Abort(f[s \ {Max(s)}], seq[Max(s)])]
           f == CHOOSE f : Folds(f)
<1>1. \A h : Folded(h, "abort", base, seq, 1 .. n) <=> Folds(h)
    BY DEF Folded, Do
<1>2. Folds(f)
    <2> HIDE DEF Folds
    <2> QED  BY <1>1, FoldExists
<1>3. FoldLeft(Abort, base, seq) = f[1 .. n]
    BY DEF FoldLeft, MapThenFoldSet
<1> HIDE DEF Folds, f
<1> QED  BY <1>1, <1>2, <1>3, FoldRuns

LEMMA NodeFold ==
    ASSUME NEW base, NEW n \in Nat, NEW seq, DOMAIN seq = 1 .. n
    PROVE  \E g : Runs(g, "node", base, n, seq) /\ FoldLeft(AbortTransactionsAtNode, base, seq) = g[n]
<1> DEFINE Folds(f) == f = [s \in SUBSET (1 .. n) |->
                               IF s = {} THEN base ELSE AbortTransactionsAtNode(f[s \ {Max(s)}], seq[Max(s)])]
           f == CHOOSE f : Folds(f)
<1>1. \A h : Folded(h, "node", base, seq, 1 .. n) <=> Folds(h)
    BY DEF Folded, Do
<1>2. Folds(f)
    <2> HIDE DEF Folds
    <2> QED  BY <1>1, FoldExists
<1>3. FoldLeft(AbortTransactionsAtNode, base, seq) = f[1 .. n]
    BY DEF FoldLeft, MapThenFoldSet
<1> HIDE DEF Folds, f
<1> QED  BY <1>1, <1>2, <1>3, FoldRuns

LEMMA SendFold ==
    ASSUME NEW base, NEW n \in Nat, NEW seq, DOMAIN seq = 1 .. n
    PROVE  \E g : Runs(g, "send", base, n, seq) /\ FoldLeft(SendReady, base, seq) = g[n]
<1> DEFINE Folds(f) == f = [s \in SUBSET (1 .. n) |->
                               IF s = {} THEN base ELSE SendReady(f[s \ {Max(s)}], seq[Max(s)])]
           f == CHOOSE f : Folds(f)
<1>1. \A h : Folded(h, "send", base, seq, 1 .. n) <=> Folds(h)
    BY DEF Folded, Do
<1>2. Folds(f)
    <2> HIDE DEF Folds
    <2> QED  BY <1>1, FoldExists
<1>3. FoldLeft(SendReady, base, seq) = f[1 .. n]
    BY DEF FoldLeft, MapThenFoldSet
<1> HIDE DEF Folds, f
<1> QED  BY <1>1, <1>2, <1>3, FoldRuns

LEMMA CommitFold ==
    ASSUME NEW base, NEW n \in Nat, NEW seq, DOMAIN seq = 1 .. n
    PROVE  \E g : Runs(g, "commit", base, n, seq) /\ FoldLeft(Committed, base, seq) = g[n]
<1> DEFINE Folds(f) == f = [s \in SUBSET (1 .. n) |->
                               IF s = {} THEN base ELSE Committed(f[s \ {Max(s)}], seq[Max(s)])]
           f == CHOOSE f : Folds(f)
<1>1. \A h : Folded(h, "commit", base, seq, 1 .. n) <=> Folds(h)
    BY DEF Folded, Do
<1>2. Folds(f)
    <2> HIDE DEF Folds
    <2> QED  BY <1>1, FoldExists
<1>3. FoldLeft(Committed, base, seq) = f[1 .. n]
    BY DEF FoldLeft, MapThenFoldSet
<1> HIDE DEF Folds, f
<1> QED  BY <1>1, <1>2, <1>3, FoldRuns

LEMMA LoseFold ==
    ASSUME NEW base, NEW n \in Nat, NEW seq, DOMAIN seq = 1 .. n
    PROVE  \E g : Runs(g, "lose", base, n, seq) /\ FoldLeft(Disconnected, base, seq) = g[n]
<1> DEFINE Folds(f) == f = [s \in SUBSET (1 .. n) |->
                               IF s = {} THEN base ELSE Disconnected(f[s \ {Max(s)}], seq[Max(s)])]
           f == CHOOSE f : Folds(f)
<1>1. \A h : Folded(h, "lose", base, seq, 1 .. n) <=> Folds(h)
    BY DEF Folded, Do
<1>2. Folds(f)
    <2> HIDE DEF Folds
    <2> QED  BY <1>1, FoldExists
<1>3. FoldLeft(Disconnected, base, seq) = f[1 .. n]
    BY DEF FoldLeft, MapThenFoldSet
<1> HIDE DEF Folds, f
<1> QED  BY <1>1, <1>2, <1>3, FoldRuns

LEMMA DataFold ==
    ASSUME NEW base, NEW n \in Nat, NEW seq, DOMAIN seq = 1 .. n
    PROVE  \E g : Runs(g, "data", base, n, seq) /\ FoldLeft(Shadow, base, seq) = g[n]
<1> DEFINE Folds(f) == f = [s \in SUBSET (1 .. n) |->
                               IF s = {} THEN base ELSE Shadow(f[s \ {Max(s)}], seq[Max(s)])]
           f == CHOOSE f : Folds(f)
<1>1. \A h : Folded(h, "data", base, seq, 1 .. n) <=> Folds(h)
    BY DEF Folded, Do
<1>2. Folds(f)
    <2> HIDE DEF Folds
    <2> QED  BY <1>1, FoldExists
<1>3. FoldLeft(Shadow, base, seq) = f[1 .. n]
    BY DEF FoldLeft, MapThenFoldSet
<1> HIDE DEF Folds, f
<1> QED  BY <1>1, <1>2, <1>3, FoldRuns

-----------------------------------------------------------------------------
(* Sequences.                                                              *)

IsList(s) == Len(s) \in Nat /\ s = [i \in 1 .. Len(s) |-> s[i]]

LEMMA ListIn ==
    ASSUME NEW s, IsList(s), NEW X, \A i \in 1 .. Len(s) : s[i] \in X
    PROVE  s \in Seq(X) /\ DOMAIN s = 1 .. Len(s)
<1>1. PICK n \in Nat : n = Len(s)
    BY DEF IsList
<1>2. s = [i \in 1 .. n |-> s[i]]
    BY <1>1 DEF IsList
<1>3. s \in [1 .. n -> X]
    BY <1>1, <1>2
<1> QED  BY <1>1, <1>3, IsASeq

LEMMA ListDomain ==
    ASSUME NEW s, IsList(s)
    PROVE  DOMAIN s = 1 .. Len(s) /\ Len(s) \in Nat
BY DEF IsList

LEMMA SeqIsList ==
    ASSUME NEW X, NEW s \in Seq(X)
    PROVE  IsList(s) /\ DOMAIN s = 1 .. Len(s) /\ \A i \in 1 .. Len(s) : s[i] \in X
<1>1. Len(s) \in Nat /\ s \in [1 .. Len(s) -> X]
    BY LenProperties
<1> QED  BY <1>1 DEF IsList

LEMMA MakeList ==
    ASSUME NEW n \in Nat, NEW s, s = [i \in 1 .. n |-> s[i]]
    PROVE  IsList(s) /\ Len(s) = n
<1>1. PICK X : X = {s[i] : i \in 1 .. n}
    OBVIOUS
<1>2. s \in [1 .. n -> X]
    BY <1>1
<1>3. s \in Seq(X)
    BY <1>2, IsASeq
<1>4. DOMAIN s = 1 .. n /\ DOMAIN s = 1 .. Len(s) /\ Len(s) \in Nat
    BY <1>2, <1>3, LenProperties
<1>5. Len(s) = n
    BY <1>4
<1> QED  BY <1>5 DEF IsList

LEMMA EmptyList == IsList(<<>>) /\ Len(<<>>) = 0
<1>1. <<>> \in Seq({})
    OBVIOUS
<1> QED  BY <1>1, SeqIsList

LEMMA AppendList ==
    ASSUME NEW s, IsList(s), NEW e
    PROVE  /\ IsList(Append(s, e)) /\ Len(Append(s, e)) = Len(s) + 1
           /\ \A i \in 1 .. Len(s) : Append(s, e)[i] = s[i]
           /\ Append(s, e)[Len(s) + 1] = e
<1>1. PICK X : X = Range(s) \cup {e}
    OBVIOUS
<1>2. s \in Seq(X) /\ e \in X
    <2>1. \A i \in 1 .. Len(s) : s[i] \in X
        BY <1>1, ListDomain DEF Range
    <2> QED  BY <1>1, <2>1, ListIn
<1>3. Append(s, e) \in Seq(X)
    BY <1>2, AppendProperties
<1>4. IsList(Append(s, e))
    BY <1>3, SeqIsList
<1> QED  BY <1>2, <1>4, AppendProperties

LEMMA ConcatList ==
    ASSUME NEW s, IsList(s), NEW r, IsList(r)
    PROVE  /\ IsList(s \o r) /\ Len(s \o r) = Len(s) + Len(r)
           /\ \A i \in 1 .. Len(s) : (s \o r)[i] = s[i]
           /\ \A i \in 1 .. Len(r) : (s \o r)[Len(s) + i] = r[i]
<1>1. PICK X : X = Range(s) \cup Range(r)
    OBVIOUS
<1>2. s \in Seq(X)
    <2>1. \A i \in 1 .. Len(s) : s[i] \in X
        BY <1>1, ListDomain DEF Range
    <2> QED  BY <2>1, ListIn
<1>3. r \in Seq(X)
    <2>1. \A i \in 1 .. Len(r) : r[i] \in X
        BY <1>1, ListDomain DEF Range
    <2> QED  BY <2>1, ListIn
<1>4. /\ s \o r \in Seq(X) /\ Len(s \o r) = Len(s) + Len(r)
      /\ \A i \in 1 .. Len(s) : (s \o r)[i] = s[i]
      /\ \A i \in 1 .. Len(r) : (s \o r)[Len(s) + i] = r[i]
    BY <1>2, <1>3, ConcatProperties
<1>5. IsList(s \o r)
    BY <1>4, SeqIsList
<1> QED  BY <1>4, <1>5

LEMMA TailList ==
    ASSUME NEW s, IsList(s), s # <<>>
    PROVE  /\ IsList(Tail(s)) /\ Len(Tail(s)) = Len(s) - 1 /\ Len(s) >= 1
           /\ Head(s) = s[1]
           /\ \A i \in 1 .. Len(s) - 1 : Tail(s)[i] = s[i + 1]
<1>1. PICK X : X = Range(s)
    OBVIOUS
<1>2. s \in Seq(X)
    <2>1. \A i \in 1 .. Len(s) : s[i] \in X
        BY <1>1, ListDomain DEF Range
    <2> QED  BY <2>1, ListIn
<1>3. Tail(s) \in Seq(X)
    BY <1>2, HeadTailProperties
<1>4. IsList(Tail(s))
    BY <1>3, SeqIsList
<1>5. Len(Tail(s)) = Len(s) - 1 /\ \A i \in 1 .. Len(Tail(s)) : Tail(s)[i] = s[i + 1]
    BY <1>2, HeadTailProperties
<1>6. Len(s) \in Nat /\ Len(s) # 0
    BY <1>2, EmptySeq, LenProperties
<1>7. Head(s) = s[1]
    BY <1>2, HeadTailProperties
<1> QED  BY <1>4, <1>5, <1>6, <1>7

LEMMA SubList ==
    ASSUME NEW s, IsList(s), NEW a \in Nat, a >= 1, NEW b \in Nat, b <= Len(s), b + 1 >= a
    PROVE  /\ IsList(SubSeq(s, a, b)) /\ Len(SubSeq(s, a, b)) = b + 1 - a
           /\ \A i \in 1 .. b + 1 - a : SubSeq(s, a, b)[i] = s[a + i - 1]
<1>1. PICK X : X = Range(s)
    OBVIOUS
<1>2. \A i \in a .. b : s[i] \in X
    BY <1>1, ListDomain DEF Range
<1>3. PICK r : r = SubSeq(s, a, b)
    OBVIOUS
<1>4. /\ r \in Seq(X) /\ Len(r) = (IF a <= b THEN b - a + 1 ELSE 0)
      /\ \A i \in 1 .. b - a + 1 : r[i] = s[a + i - 1]
    BY <1>2, <1>3, SubSeqProperties
<1>5. Len(r) = b + 1 - a /\ b - a + 1 = b + 1 - a
    BY <1>4
<1> QED  BY <1>3, <1>4, <1>5, SeqIsList

LEMMA FirstPart ==
    ASSUME NEW s, IsList(s), NEW m \in Nat, m <= Len(s)
    PROVE  IsList(SubSeq(s, 1, m)) /\ Len(SubSeq(s, 1, m)) = m /\ \A i \in 1 .. m : SubSeq(s, 1, m)[i] = s[i]
<1>1. PICK a \in Nat : a = 1
    OBVIOUS
<1>2. a >= 1 /\ m + 1 >= a
    BY <1>1
<1>3. /\ IsList(SubSeq(s, a, m)) /\ Len(SubSeq(s, a, m)) = m + 1 - a
      /\ \A i \in 1 .. m + 1 - a : SubSeq(s, a, m)[i] = s[a + i - 1]
    BY <1>2, SubList
<1>4. m + 1 - a = m /\ \A i \in 1 .. m : a + i - 1 = i
    BY <1>1
<1> QED  BY <1>1, <1>3, <1>4

LEMMA RemoveList ==
    ASSUME NEW s, IsList(s), NEW i \in 1 .. Len(s)
    PROVE  /\ IsList(RemoveAt(s, i)) /\ Len(RemoveAt(s, i)) = Len(s) - 1
           /\ \A j \in 1 .. Len(s) - 1 : RemoveAt(s, i)[j] = s[IF j < i THEN j ELSE j + 1]
<1>1. PICK n \in Nat : n = Len(s)
    BY DEF IsList
<1>2. PICK a : a = SubSeq(s, 1, i - 1)
    OBVIOUS
<1>3. PICK b : b = SubSeq(s, i + 1, n)
    OBVIOUS
<1>4. IsList(a) /\ Len(a) = i - 1 /\ \A j \in 1 .. i - 1 : a[j] = s[j]
    <2>1. i - 1 \in Nat /\ i - 1 <= n /\ i - 1 + 1 >= 1 /\ i - 1 + 1 - 1 = i - 1
        BY <1>1
    <2>2. \A j \in 1 .. i - 1 : 1 + j - 1 = j
        OBVIOUS
    <2> QED  BY <1>1, <1>2, <2>1, <2>2, SubList
<1>5. IsList(b) /\ Len(b) = n - i /\ \A j \in 1 .. n - i : b[j] = s[i + j]
    <2>1. i + 1 \in Nat /\ i + 1 >= 1 /\ n + 1 >= i + 1 /\ n + 1 - (i + 1) = n - i
        BY <1>1
    <2>2. \A j \in 1 .. n - i : i + 1 + j - 1 = i + j
        BY <1>1
    <2> QED  BY <1>1, <1>3, <2>1, <2>2, SubList
<1>6. RemoveAt(s, i) = a \o b
    BY <1>1, <1>2, <1>3 DEF RemoveAt
<1>7. /\ IsList(a \o b) /\ Len(a \o b) = n - 1
      /\ \A j \in 1 .. i - 1 : (a \o b)[j] = a[j]
      /\ \A j \in 1 .. n - i : (a \o b)[i - 1 + j] = b[j]
    BY <1>1, <1>4, <1>5, ConcatList
<1>8. ASSUME NEW j \in 1 .. n - 1  PROVE (a \o b)[j] = s[IF j < i THEN j ELSE j + 1]
    <2>1. CASE j < i
        <3>1. j \in 1 .. i - 1
            BY <1>1, <2>1
        <3> QED  BY <1>4, <1>7, <2>1, <3>1
    <2>2. CASE ~(j < i)
        <3>1. PICK m \in 1 .. n - i : j = i - 1 + m /\ i + m = j + 1
            <4>1. j - (i - 1) \in 1 .. n - i
                BY <1>1, <2>2
            <4> QED  BY <4>1
        <3> QED  BY <1>5, <1>7, <2>2, <3>1
    <2> QED  BY <2>1, <2>2
<1> QED  BY <1>1, <1>6, <1>7, <1>8

\* The numbers of a finite set, in order.
LEMMA Ranked ==
    ASSUME NEW S \in SUBSET Nat, IsFiniteSet(S)
    PROVE  LET below(x) == {m \in S : m < x} IN
           /\ Cardinality(S) \in Nat
           /\ \A i \in 1 .. Cardinality(S) : \E x \in S : Cardinality(below(x)) = i - 1
           /\ \A x \in S : Cardinality(below(x)) \in 0 .. Cardinality(S) - 1
           /\ \A x, y \in S : Cardinality(below(x)) = Cardinality(below(y)) => x = y
           /\ \A x, y \in S : Cardinality(below(x)) < Cardinality(below(y)) => x < y
<1> DEFINE below(x) == {m \in S : m < x}
           rank == [x \in S |-> Cardinality(below(x)) + 1]
<1>1. PICK n \in Nat : n = Cardinality(S)
    BY FS_CardinalityType
<1>2. ASSUME NEW x \in S
      PROVE  IsFiniteSet(below(x)) /\ Cardinality(below(x)) \in Nat /\ Cardinality(below(x)) < n
    <2>1. below(x) \in SUBSET S /\ below(x) # S
        OBVIOUS
    <2> HIDE DEF below
    <2>2. IsFiniteSet(below(x)) /\ Cardinality(below(x)) <= n /\ Cardinality(below(x)) # n
        BY <1>1, <2>1, FS_Subset
    <2>3. Cardinality(below(x)) \in Nat
        BY <2>2, FS_CardinalityType
    <2> QED  BY <1>1, <2>2, <2>3
<1>3. ASSUME NEW x \in S, NEW y \in S, x < y
      PROVE  Cardinality(below(x)) < Cardinality(below(y))
    <2>1. x \in below(y) /\ x \notin below(x)
        BY <1>3
    <2>2. \A m \in below(x) : m \in below(y)
        BY <1>3
    <2> HIDE DEF below
    <2>3. Cardinality(below(x)) <= Cardinality(below(y)) /\ Cardinality(below(x)) # Cardinality(below(y))
        BY <1>2, <2>1, <2>2, FS_Subset
    <2> QED  BY <1>2, <2>3
<1>4. \A x, y \in S : x = y \/ x < y \/ y < x
    OBVIOUS
<1> HIDE DEF below
<1>5. \A x, y \in S : Cardinality(below(x)) = Cardinality(below(y)) => x = y
    BY <1>2, <1>3, <1>4
<1>6. \A x, y \in S : Cardinality(below(x)) < Cardinality(below(y)) => x < y
    BY <1>2, <1>3, <1>4
<1>7. rank \in Injection(S, 1 .. n)
    BY <1>1, <1>2, <1>5 DEF Injection, IsInjective
<1>8. IsFiniteSet(1 .. n) /\ Cardinality(1 .. n) = n
    BY <1>1, FS_Interval
<1>9. rank \in Surjection(S, 1 .. n)
    <2> HIDE DEF rank
    <2> QED  BY <1>1, <1>7, <1>8, FS_Injection
<1>10. ASSUME NEW i \in 1 .. n  PROVE \E x \in S : Cardinality(below(x)) = i - 1
    <2>1. PICK x \in S : rank[x] = i
        BY <1>9 DEF Surjection
    <2>2. Cardinality(below(x)) + 1 = i
        BY <2>1
    <2> QED  BY <1>1, <1>2, <2>2
<1>11. \A x \in S : Cardinality(below(x)) \in 0 .. n - 1
    BY <1>1, <1>2
<1> QED  BY <1>1, <1>5, <1>6, <1>10, <1>11 DEF below

Rising(seq) == \A i, j \in DOMAIN seq : i < j => seq[i] < seq[j]

LEMMA InOrderList ==
    ASSUME NEW S \in SUBSET Nat, IsFiniteSet(S)
    PROVE  /\ InOrder(S) \in Seq(S) /\ IsList(InOrder(S))
           /\ DOMAIN InOrder(S) = 1 .. Cardinality(S) /\ Cardinality(S) \in Nat
           /\ Rising(InOrder(S)) /\ IsInjective(InOrder(S)) /\ Range(InOrder(S)) = S
<1> DEFINE below(x) == {m \in S : m < x}
<1>1. PICK s : s = InOrder(S)
    OBVIOUS
<1>0. PICK n : n = Cardinality(S)
    OBVIOUS
<1>2. /\ n \in Nat
      /\ \A i \in 1 .. n : \E x \in S : Cardinality(below(x)) = i - 1
      /\ \A x \in S : Cardinality(below(x)) \in 0 .. n - 1
      /\ \A x, y \in S : Cardinality(below(x)) = Cardinality(below(y)) => x = y
      /\ \A x, y \in S : Cardinality(below(x)) < Cardinality(below(y)) => x < y
    BY <1>0, Ranked
<1>3. s = [i \in 1 .. n |-> CHOOSE x \in S : Cardinality(below(x)) = i - 1]
    BY <1>0, <1>1 DEF InOrder
<1> HIDE DEF below
<1>4. ASSUME NEW i \in 1 .. n  PROVE s[i] \in S /\ Cardinality(below(s[i])) = i - 1
    <2>1. \E x \in S : Cardinality(below(x)) = i - 1
        BY <1>2
    <2> QED  BY <1>3, <2>1
<1>5. s \in [1 .. n -> S]
    BY <1>3, <1>4
<1>6. s \in Seq(S) /\ IsList(s)
    <2>1. n \in Nat
        BY <1>2
    <2>2. s \in Seq(S)
        BY <1>5, <2>1, IsASeq
    <2> QED  BY <2>2, SeqIsList
<1>7. Rising(s)
    <2> SUFFICES ASSUME NEW i \in 1 .. n, NEW j \in 1 .. n, i < j  PROVE s[i] < s[j]
        BY <1>5 DEF Rising
    <2>1. Cardinality(below(s[i])) < Cardinality(below(s[j]))
        BY <1>2, <1>4
    <2> QED  BY <1>2, <1>4, <2>1
<1>8. IsInjective(s)
    <2> SUFFICES ASSUME NEW i \in 1 .. n, NEW j \in 1 .. n, s[i] = s[j]  PROVE i = j
        BY <1>5 DEF IsInjective
    <2>1. i - 1 = j - 1
        BY <1>4
    <2> QED  BY <1>2, <2>1
<1>9. S \subseteq Range(s)
    <2> SUFFICES ASSUME NEW x \in S  PROVE x \in Range(s)
        OBVIOUS
    <2>1. PICK i \in 1 .. n : i = Cardinality(below(x)) + 1
        BY <1>2
    <2>2. Cardinality(below(s[i])) = Cardinality(below(x))
        BY <1>2, <1>4, <2>1
    <2>3. s[i] = x
        BY <1>2, <1>4, <2>2
    <2> QED  BY <1>5, <2>3 DEF Range
<1>10. Range(s) \subseteq S
    BY <1>5 DEF Range
<1> QED  BY <1>0, <1>1, <1>2, <1>5, <1>6, <1>7, <1>8, <1>9, <1>10

\* What Among leaves is at the places k of the sequence.
Keeps(k, seq, S, kept) ==
    /\ DOMAIN k = DOMAIN kept /\ Rising(k) /\ IsInjective(k)
    /\ \A i \in DOMAIN kept : k[i] \in DOMAIN seq /\ kept[i] = seq[k[i]] /\ kept[i] \in S
    /\ \A j \in DOMAIN seq : seq[j] \in S => \E i \in DOMAIN kept : k[i] = j

LEMMA AmongKeeps ==
    ASSUME NEW seq, IsList(seq), NEW S
    PROVE  IsList(Among(seq, S)) /\ \E k : Keeps(k, seq, S, Among(seq, S))
<1>1. PICK D : D = {i \in DOMAIN seq : seq[i] \in S}
    OBVIOUS
<1>2. D \in SUBSET Nat /\ IsFiniteSet(D)
    <2>1. PICK m \in Nat : DOMAIN seq = 1 .. m
        BY ListDomain
    <2>2. D \in SUBSET (1 .. m)
        BY <1>1, <2>1
    <2>3. IsFiniteSet(1 .. m)
        BY <2>1, FS_Interval
    <2>4. D \in SUBSET Nat
        BY <2>2
    <2> QED  BY <2>2, <2>3, <2>4, FS_Subset
<1>3. PICK k : k = InOrder(D)
    OBVIOUS
<1>4. PICK n \in Nat : DOMAIN k = 1 .. n
    BY <1>2, <1>3, InOrderList
<1>5. Rising(k) /\ IsInjective(k) /\ Range(k) = D
    BY <1>2, <1>3, InOrderList
<1>6. PICK kept : kept = Among(seq, S)
    OBVIOUS
<1>7. kept = [i \in 1 .. n |-> seq[k[i]]]
    BY <1>1, <1>3, <1>4, <1>6 DEF Among
<1>8. IsList(kept)
    BY <1>7, MakeList
<1>9. Keeps(k, seq, S, kept)
    <2>1. DOMAIN k = DOMAIN kept
        BY <1>4, <1>7
    <2>2. \A i \in DOMAIN kept : k[i] \in D
        BY <1>4, <1>5, <1>7 DEF Range
    <2>3. \A j \in D : \E i \in DOMAIN kept : k[i] = j
        BY <1>5, <2>1 DEF Range
    <2> QED  BY <1>1, <1>4, <1>5, <1>7, <2>1, <2>2, <2>3 DEF Keeps
<1> QED  BY <1>6, <1>8, <1>9

\* The numbers of a set and the sequences of its elements.
LEMMA SetToSeqLists ==
    ASSUME NEW S, IsFiniteSet(S)
    PROVE  SetToSeq(S) \in [1 .. Cardinality(S) -> S] /\ Cardinality(S) \in Nat
<1>1. Cardinality(S) \in Nat /\ ExistsBijection(1 .. Cardinality(S), S)
    BY FS_CardinalityType
<1>2. \E f \in [1 .. Cardinality(S) -> S] : IsInjective(f)
    BY <1>1 DEF ExistsBijection, Bijection, Injection
<1> QED  BY <1>1, <1>2 DEF SetToSeq

-----------------------------------------------------------------------------
(* The invariant.  It is about a value c of the client, as the handlers    *)
(* call each other: P are the puts that are no longer outstanding but      *)
(* whose transactions are not answered yet, ans the messages on the        *)
(* connection and ex how often the server executed each transaction.       *)

Status(c, t) == c.transactions[t].status
Going(c, t) == Status(c, t) \in {"sent", "sentNeedsAbort"}
Open(c, t) == Status(c, t) \notin {"new", "completed"}

IsClient(c) ==
    c = [cache |-> c.cache, tree |-> c.tree, nextWriteId |-> c.nextWriteId, shown |-> c.shown,
         events |-> c.events, told |-> c.told, transactions |-> c.transactions,
         queues |-> c.queues, outstandingPuts |-> c.outstandingPuts, requests |-> c.requests,
         connected |-> c.connected]

IsTransaction(tx) ==
    /\ tx = [path |-> tx.path, status |-> tx.status, applyLocally |-> tx.applyLocally,
             retryCount |-> tx.retryCount, currentWriteId |-> tx.currentWriteId,
             output |-> tx.output, outcome |-> tx.outcome]
    /\ tx.path \in Place /\ tx.status \in Statuses /\ tx.retryCount \in 0 .. MaxRetries
    /\ DOMAIN tx.output \subseteq Child
    /\ tx.status = "new" => tx.retryCount = 0

\* Write ids are given out in order, each to one write.
WritesOK(writes, next) ==
    /\ IsList(writes)
    /\ \A i \in 1 .. Len(writes) : writes[i].id \in Nat /\ writes[i].id < next
    /\ \A i, j \in 1 .. Len(writes) : writes[i].id = writes[j].id => i = j

TransactionsOK(c) ==
    /\ c.transactions = [t \in Transaction |-> c.transactions[t]]
    /\ \A t \in Transaction : IsTransaction(c.transactions[t])

Base(c) ==
    /\ IsClient(c) /\ c.connected \in BOOLEAN /\ DOMAIN c.cache = Child /\ c.nextWriteId \in Nat
    /\ TransactionsOK(c)
    /\ c.queues \in [Place -> Seq(Transaction)]
    /\ IsList(c.outstandingPuts) /\ IsList(c.requests)
    /\ WritesOK(c.tree.allWrites, c.nextWriteId)

\* Every write has its owner, a set or a transaction, and every owner its write.
SetIds(puts) == {put.id : put \in {p \in Range(puts) : p.type = "set"}}
OpenIds(c) == {c.transactions[t].currentWriteId : t \in {u \in Transaction : Open(c, u)}}

Owners(c) ==
    \A t, u \in Transaction :
       Open(c, t) /\ Open(c, u) /\ c.transactions[t].currentWriteId = c.transactions[u].currentWriteId
       => t = u

OwnSets(puts) ==
    \A i, j \in 1 .. Len(puts) :
       puts[i].type = "set" /\ puts[j].type = "set" /\ puts[i].id = puts[j].id => i = j

Accounted(c) ==
    /\ WriteIds(c.tree) = SetIds(c.outstandingPuts) \cup OpenIds(c)
    /\ SetIds(c.outstandingPuts) \cap OpenIds(c) = {}
    /\ Owners(c) /\ OwnSets(c.outstandingPuts)

\* What waits in a queue is of its place; what is on its way comes first.
Waits(c, queue, p) ==
    /\ IsInjective(queue)
    /\ \A t \in Range(queue) : c.transactions[t].path = p /\ Status(c, t) # "new"
    /\ \A i, j \in DOMAIN queue : i < j /\ Going(c, queue[j]) => Going(c, queue[i])
Queues(c) == \A p \in Place : Waits(c, c.queues[p], p)

\* A transaction on its way is in one put, with all of its queue that are.
Carries(put, t) == t \in Range(put.queue)
IsPut(put) ==
    /\ put = [type |-> put.type, path |-> put.path, data |-> put.data, hash |-> put.hash,
              queue |-> put.queue, id |-> put.id, sent |-> put.sent]
    /\ put.type \in {"set", "transaction"} /\ put.path \in Place /\ DOMAIN put.data \subseteq Child
    /\ put.queue \in Seq(Transaction) /\ IsInjective(put.queue)
    /\ put.type = "set" => put.queue = <<>>
InPut(c, put) == \A t \in Range(put.queue) : Going(c, t) /\ Covers(put.path, c.transactions[t].path)
Apart(put, other) == \A t \in Range(put.queue) : ~Carries(other, t)
Together(c, put) ==
    \A p \in Place : \A t, u \in Range(c.queues[p]) :
       Going(c, t) /\ Going(c, u) /\ Carries(put, t) => Carries(put, u)

Puts(c, P) == Range(c.outstandingPuts) \cup P
Carried(c, P) ==
    /\ \A put \in Puts(c, P) : IsPut(put) /\ InPut(c, put) /\ Together(c, put)
    /\ \A t \in Transaction : Going(c, t) => \E put \in Puts(c, P) : Carries(put, t)
    /\ \A i, j \in 1 .. Len(c.outstandingPuts) :
          i # j => Apart(c.outstandingPuts[i], c.outstandingPuts[j])
    /\ \A put \in Range(c.outstandingPuts) : \A q \in P : Apart(put, q)
    /\ \A put, q \in P : put # q => Apart(put, q)

\* What the server has executed and what the app is told.
TruthOf(tx, times) ==
    /\ times \in {0, 1}
    /\ tx.status \in {"new", "run"} => times = 0
    /\ tx.status = "sentNeedsAbort" => tx.outcome = "set"
    /\ tx.status = "needsAbort" => /\ tx.outcome # "committed"
                                   /\ tx.outcome = "disconnect" \/ times = 0
    /\ tx.status = "completed" => \/ tx.outcome = "committed" /\ times = 1
                                  \/ tx.outcome = "disconnect"
                                  \/ tx.outcome # "committed" /\ times = 0
Truth(c, ex) == \A t \in Transaction : TruthOf(c.transactions[t], ex[t])

\* What waits has nothing to be done about it; what is over does not wait.
Ready(c, t) ==
    Status(c, t) # "needsAbort" /\ (Status(c, t) = "run" => c.transactions[t].retryCount < MaxRetries)
Clean(c) == \A p \in Place : \A t \in Range(c.queues[p]) : Ready(c, t)
NoneOver(c) == \A p \in Place : \A t \in Range(c.queues[p]) : Status(c, t) # "completed"

\* The k-th of the answers on their way is for the k-th put, and the puts after
\* these are the requests on their way, after a listen if there is one.
Unserved(put, ex) == \A t \in Range(put.queue) : ex[t] = 0
Fits(put, status, ex) == \A t \in Range(put.queue) : ex[t] = IF status = "ok" THEN 1 ELSE 0
IsMessage(m) ==
    \/ m.type = "data" /\ m.path \in Place /\ DOMAIN m.data \subseteq Child
    \/ m.type = "answer" /\ m.status \in {"ok", "datastale", "permission_denied"}
AnswersAt(ans, n, at) ==
    /\ \A i \in 1 .. n : at[i] \in 1 .. Len(ans) /\ ans[at[i]].type = "answer"
    /\ \A i, j \in 1 .. n : i < j => at[i] < at[j]
    /\ \A k \in 1 .. Len(ans) : ans[k].type = "answer" => \E i \in 1 .. n : at[i] = k
Online(puts, requests, ans, ex, n, h, at) ==
    /\ n \in Nat /\ h \in {0, 1} /\ n <= Len(puts) /\ AnswersAt(ans, n, at)
    /\ Len(requests) = Len(puts) - n + h
    /\ h = 1 => requests[1].type = "listen"
    /\ \A i \in 1 .. n : Fits(puts[i], ans[at[i]].status, ex)
    /\ \A i \in n + 1 .. Len(puts) : requests[h + i - n] = puts[i] /\ Unserved(puts[i], ex)
    /\ \A i \in 1 .. Len(puts) : puts[i].sent
Offline(puts, requests, ans, ex) ==
    /\ requests = <<>> /\ ans = <<>>
    /\ \A i \in 1 .. Len(puts) : puts[i].type = "transaction" => ~puts[i].sent /\ Unserved(puts[i], ex)
Connected(puts, requests, ans, ex) == \E n, h, at : Online(puts, requests, ans, ex, n, h, at)
Served(c, ans, ex) ==
    IF c.connected THEN Connected(c.outstandingPuts, c.requests, ans, ex)
                   ELSE Offline(c.outstandingPuts, c.requests, ans, ex)

Sound(c, P, ans, ex) ==
    Base(c) /\ Accounted(c) /\ Queues(c) /\ Carried(c, P) /\ Truth(c, ex) /\ Served(c, ans, ex)
Settled(c, P, ans, ex) == Sound(c, P, ans, ex) /\ Clean(c) /\ NoneOver(c)

Messages(ans) == IsList(ans) /\ \A i \in 1 .. Len(ans) : IsMessage(ans[i])

TransactionsInv ==
    /\ Settled(client, {}, answers, executed)
    /\ DOMAIN store = Child /\ Messages(answers)
    /\ listening => client.connected

-----------------------------------------------------------------------------
(* What the invariant does not depend on: the view.                        *)

SameCore(c, d) ==
    /\ IsClient(d) /\ d.tree.allWrites = c.tree.allWrites /\ d.nextWriteId = c.nextWriteId
    /\ d.transactions = c.transactions /\ d.queues = c.queues
    /\ d.outstandingPuts = c.outstandingPuts /\ d.requests = c.requests
    /\ d.connected = c.connected /\ DOMAIN d.cache = DOMAIN c.cache

LEMMA SameStatus ==
    ASSUME NEW c, NEW d, d.transactions = c.transactions
    PROVE  \A t : Status(d, t) = Status(c, t) /\ (Going(d, t) <=> Going(c, t)) /\ (Open(d, t) <=> Open(c, t))
                  /\ (Ready(d, t) <=> Ready(c, t))
BY DEF Status, Going, Open, Ready

LEMMA SameAccount ==
    ASSUME NEW c, NEW d, SameCore(c, d)
    PROVE  /\ Base(c) => Base(d)
           /\ Accounted(c) => Accounted(d)
<1>1. /\ d.transactions = c.transactions /\ d.outstandingPuts = c.outstandingPuts
      /\ d.tree.allWrites = c.tree.allWrites
    BY DEF SameCore
<1>2. Base(c) => Base(d)
    BY DEF SameCore, Base, TransactionsOK
<1>3. WriteIds(d.tree) = WriteIds(c.tree)
    BY <1>1 DEF WriteIds
<1>4. OpenIds(d) = OpenIds(c)
    BY <1>1 DEF OpenIds, Open, Status
<1>5. Owners(c) => Owners(d)
    BY <1>1, SameStatus DEF Owners
<1> QED  BY <1>1, <1>2, <1>3, <1>4, <1>5 DEF Accounted

LEMMA SameQueues ==
    ASSUME NEW c, NEW d, SameCore(c, d)
    PROVE  /\ Queues(c) => Queues(d)
           /\ \A P : Carried(c, P) => Carried(d, P)
           /\ \A ex : Truth(c, ex) => Truth(d, ex)
           /\ \A ans, ex : Served(c, ans, ex) => Served(d, ans, ex)
           /\ Clean(c) => Clean(d)
           /\ NoneOver(c) => NoneOver(d)
<1>1. /\ d.transactions = c.transactions /\ d.queues = c.queues /\ d.connected = c.connected
      /\ d.outstandingPuts = c.outstandingPuts /\ d.requests = c.requests
    BY DEF SameCore
<1>2. \A t : Status(d, t) = Status(c, t) /\ (Going(d, t) <=> Going(c, t)) /\ (Ready(d, t) <=> Ready(c, t))
    BY <1>1, SameStatus
<1>3. \A queue, p : Waits(c, queue, p) => Waits(d, queue, p)
    BY <1>1, <1>2 DEF Waits
<1>4. Queues(c) => Queues(d)
    BY <1>1, <1>3 DEF Queues
<1>5. \A put : (InPut(c, put) => InPut(d, put)) /\ (Together(c, put) => Together(d, put))
    BY <1>1, <1>2 DEF InPut, Together
<1>6. \A P : Puts(d, P) = Puts(c, P)
    BY <1>1 DEF Puts
<1>7. ASSUME NEW P, Carried(c, P)  PROVE Carried(d, P)
    BY <1>1, <1>2, <1>5, <1>6, <1>7 DEF Carried
<1>8. \A ex : Truth(c, ex) => Truth(d, ex)
    BY <1>1 DEF Truth
<1>9. \A ans, ex : Served(c, ans, ex) => Served(d, ans, ex)
    BY <1>1 DEF Served
<1>10. Clean(c) => Clean(d)
    BY <1>1, <1>2 DEF Clean
<1>11. NoneOver(c) => NoneOver(d)
    BY <1>1, <1>2 DEF NoneOver
<1> QED  BY <1>4, <1>7, <1>8, <1>9, <1>10, <1>11

LEMMA SameSound ==
    ASSUME NEW c, NEW d, SameCore(c, d), NEW P, NEW ans, NEW ex
    PROVE  /\ Sound(c, P, ans, ex) => Sound(d, P, ans, ex)
           /\ Settled(c, P, ans, ex) => Settled(d, P, ans, ex)
BY SameAccount, SameQueues DEF Sound, Settled

-----------------------------------------------------------------------------
(* The write tree.                                                         *)

LEMMA WriteIdsAre ==
    ASSUME NEW tree, IsList(tree.allWrites)
    PROVE  WriteIds(tree) = {tree.allWrites[i].id : i \in 1 .. Len(tree.allWrites)}
<1>1. DOMAIN tree.allWrites = 1 .. Len(tree.allWrites)
    BY ListDomain
<1>2. Range(tree.allWrites) = {tree.allWrites[i] : i \in 1 .. Len(tree.allWrites)}
    BY <1>1 DEF Range
<1> QED  BY <1>2 DEF WriteIds

\* removeWriteId takes away the write with the id and no other.
LEMMA RemoveWrite ==
    ASSUME NEW tree, NEW next \in Nat, WritesOK(tree.allWrites, next), NEW id \in WriteIds(tree)
    PROVE  /\ WritesOK(RemoveWriteId(tree, id).tree.allWrites, next)
           /\ WriteIds(RemoveWriteId(tree, id).tree) = WriteIds(tree) \ {id}
<1>1. PICK w : w = tree.allWrites
    OBVIOUS
<1>2. PICK n : n = Len(w)
    OBVIOUS
<1>3. n \in Nat /\ DOMAIN w = 1 .. n
    BY <1>1, <1>2, ListDomain DEF WritesOK
<1>4. PICK i : i = CHOOSE k \in DOMAIN w : w[k].id = id
    OBVIOUS
<1>5. i \in 1 .. n /\ w[i].id = id
    <2>1. \E k \in DOMAIN w : w[k].id = id
        BY <1>1, <1>2, <1>3, WriteIdsAre DEF WritesOK
    <2> QED  BY <1>3, <1>4, <2>1
<1>6. PICK left : left = RemoveAt(w, i)
    OBVIOUS
<1>7. PICK r : r = RemoveWriteId(tree, id).tree
    OBVIOUS
<1>8. r.allWrites = left
    BY <1>1, <1>4, <1>6, <1>7 DEF RemoveWriteId
<1>9. /\ IsList(left) /\ Len(left) = n - 1
      /\ \A j \in 1 .. n - 1 : left[j] = w[IF j < i THEN j ELSE j + 1]
    BY <1>1, <1>2, <1>5, <1>6, RemoveList DEF WritesOK
<1>10. /\ \A j \in 1 .. n : w[j].id \in Nat /\ w[j].id < next
       /\ \A j, k \in 1 .. n : w[j].id = w[k].id => j = k
    BY <1>1, <1>2 DEF WritesOK
<1>11. WritesOK(left, next)
    <2>1. \A j \in 1 .. n - 1 : (IF j < i THEN j ELSE j + 1) \in 1 .. n
        BY <1>3, <1>5
    <2>2. \A j \in 1 .. n - 1 : left[j].id \in Nat /\ left[j].id < next
        BY <1>9, <1>10, <2>1
    <2>3. \A j, k \in 1 .. n - 1 : left[j].id = left[k].id => j = k
        <3> SUFFICES ASSUME NEW j \in 1 .. n - 1, NEW k \in 1 .. n - 1, left[j].id = left[k].id
                     PROVE  j = k
            OBVIOUS
        <3>1. (IF j < i THEN j ELSE j + 1) = (IF k < i THEN k ELSE k + 1)
            BY <1>9, <1>10, <2>1
        <3> QED  BY <1>3, <1>5, <3>1
    <2> QED  BY <1>9, <2>2, <2>3 DEF WritesOK
<1>12. WriteIds(r) = {left[j].id : j \in 1 .. n - 1}
    BY <1>8, <1>9, WriteIdsAre
<1>13. WriteIds(tree) = {w[j].id : j \in 1 .. n}
    BY <1>1, <1>2, WriteIdsAre DEF WritesOK
<1>14. WriteIds(r) \subseteq WriteIds(tree) \ {id}
    <2> SUFFICES ASSUME NEW j \in 1 .. n - 1  PROVE left[j].id \in WriteIds(tree) /\ left[j].id # id
        BY <1>12
    <2>1. PICK k \in 1 .. n : left[j] = w[k] /\ k # i
        <3>1. (IF j < i THEN j ELSE j + 1) \in 1 .. n /\ (IF j < i THEN j ELSE j + 1) # i
            BY <1>3, <1>5
        <3> QED  BY <1>9, <3>1
    <2> QED  BY <1>5, <1>10, <1>13, <2>1
<1>15. WriteIds(tree) \ {id} \subseteq WriteIds(r)
    <2> SUFFICES ASSUME NEW k \in 1 .. n, w[k].id # id  PROVE w[k].id \in WriteIds(r)
        BY <1>13
    <2>1. PICK j \in 1 .. n - 1 : (IF j < i THEN j ELSE j + 1) = k
        <3>1. k # i
            BY <1>5
        <3>2. CASE k < i
            BY <1>3, <1>5, <3>2
        <3>3. CASE k > i
            <4>1. k - 1 \in 1 .. n - 1 /\ ~(k - 1 < i) /\ k - 1 + 1 = k
                BY <1>3, <1>5, <3>3
            <4> QED  BY <4>1
        <3> QED  BY <1>3, <1>5, <3>1, <3>2, <3>3
    <2> QED  BY <1>9, <1>12, <2>1
<1> QED  BY <1>7, <1>8, <1>11, <1>14, <1>15

LEMMA AddWriteTo ==
    ASSUME NEW tree, NEW next \in Nat, WritesOK(tree.allWrites, next), NEW record, record.id = next
    PROVE  /\ WritesOK(AddOverwrite(tree, record).allWrites, next + 1)
           /\ WriteIds(AddOverwrite(tree, record)) = WriteIds(tree) \cup {next}
           /\ next \notin WriteIds(tree)
<1>1. PICK w : w = tree.allWrites
    OBVIOUS
<1>2. PICK n \in Nat : n = Len(w)
    BY <1>1 DEF WritesOK, IsList
<1>3. PICK more : more = Append(w, record)
    OBVIOUS
<1>4. PICK r : r = AddOverwrite(tree, record)
    OBVIOUS
<1>5. r.allWrites = more
    BY <1>1, <1>3, <1>4 DEF AddOverwrite
<1>6. IsList(more) /\ Len(more) = n + 1 /\ (\A i \in 1 .. n : more[i] = w[i]) /\ more[n + 1] = record
    BY <1>1, <1>2, <1>3, AppendList DEF WritesOK
<1>7. /\ \A j \in 1 .. n : w[j].id \in Nat /\ w[j].id < next
      /\ \A j, k \in 1 .. n : w[j].id = w[k].id => j = k
    BY <1>1, <1>2 DEF WritesOK
<1>8. \A j \in 1 .. n + 1 : j \in 1 .. n \/ j = n + 1
    OBVIOUS
<1>9. \A j \in 1 .. n + 1 : more[j].id \in Nat /\ more[j].id < next + 1
    BY <1>6, <1>7, <1>8
<1>10. \A j, k \in 1 .. n + 1 : more[j].id = more[k].id => j = k
    BY <1>6, <1>7, <1>8
<1>11. WritesOK(more, next + 1)
    BY <1>6, <1>9, <1>10 DEF WritesOK
<1>12. WriteIds(r) = {more[j].id : j \in 1 .. n + 1}
    BY <1>5, <1>6, WriteIdsAre
<1>13. WriteIds(tree) = {w[j].id : j \in 1 .. n}
    BY <1>1, <1>2, WriteIdsAre DEF WritesOK
<1>14. {more[j].id : j \in 1 .. n + 1} = {w[j].id : j \in 1 .. n} \cup {next}
    <2>1. \A j \in 1 .. n : j \in 1 .. n + 1
        OBVIOUS
    <2>2. n + 1 \in 1 .. n + 1
        OBVIOUS
    <2> QED  BY <1>6, <1>8, <2>1, <2>2
<1>15. next \notin WriteIds(tree)
    BY <1>7, <1>13
<1> QED  BY <1>4, <1>5, <1>11, <1>12, <1>13, <1>14, <1>15

\* There are as many writes as ids.
LEMMA WritesCounted ==
    ASSUME NEW tree, NEW next, WritesOK(tree.allWrites, next)
    PROVE  Len(tree.allWrites) = Cardinality(WriteIds(tree))
<1>1. PICK n \in Nat : n = Len(tree.allWrites)
    BY DEF WritesOK, IsList
<1>2. PICK S : S = WriteIds(tree)
    OBVIOUS
<1>3. S = {tree.allWrites[i].id : i \in 1 .. n}
    BY <1>1, <1>2, WriteIdsAre DEF WritesOK
<1>4. PICK f : f = [i \in 1 .. n |-> tree.allWrites[i].id]
    OBVIOUS
<1>5. f \in Bijection(1 .. n, S)
    <2>1. f \in [1 .. n -> S]
        BY <1>3, <1>4
    <2>2. \A i, j \in 1 .. n : f[i] = f[j] => i = j
        BY <1>1, <1>4 DEF WritesOK
    <2>3. \A x \in S : \E i \in 1 .. n : f[i] = x
        BY <1>3, <1>4
    <2> QED  BY <2>1, <2>2, <2>3 DEF Bijection, Injection, Surjection, IsInjective
<1>6. ExistsBijection(1 .. n, S)
    BY <1>5 DEF ExistsBijection
<1>7. Cardinality(S) = n
    BY <1>6, FS_CountingElements
<1> QED  BY <1>1, <1>2, <1>7

-----------------------------------------------------------------------------
(* The operations of the sync tree.                                        *)

KeepsRest(c, d) ==
    /\ IsClient(d)
    /\ d.transactions = c.transactions /\ d.queues = c.queues
    /\ d.outstandingPuts = c.outstandingPuts /\ d.requests = c.requests
    /\ d.connected = c.connected /\ DOMAIN d.cache = DOMAIN c.cache

LEMMA CoreOfCore ==
    ASSUME NEW c, NEW d, NEW e, SameCore(d, e)
    PROVE  /\ SameCore(c, d) => SameCore(c, e)
           /\ KeepsRest(c, d) => KeepsRest(c, e)
BY DEF SameCore, KeepsRest

LEMMA ShowKeeps ==
    ASSUME NEW c, IsClient(c), NEW data
    PROVE  SameCore(c, Show(c, data))
<1>1. PICK shown : shown = Shadow(c.shown, data)
    OBVIOUS
<1>2. PICK events : events = IF shown = c.shown THEN c.events ELSE <<shown>>
    OBVIOUS
<1>3. Show(c, data) = [c EXCEPT !.shown = shown, !.events = events]
    <2>1. Show(c, data) = [c EXCEPT !.shown = shown,
                                    !.events = IF shown = c.shown THEN c.events ELSE <<shown>>]
        BY <1>1 DEF Show
    <2> QED  BY <1>2, <2>1
<1>4. PICK d : d = [c EXCEPT !.shown = shown]
    OBVIOUS
<1>5. SameCore(c, d) /\ IsClient(d)
    BY <1>4 DEF SameCore, IsClient
<1>6. SameCore(d, [d EXCEPT !.events = events])
    BY <1>5 DEF SameCore, IsClient
<1> QED  BY <1>3, <1>4, <1>5, <1>6, CoreOfCore

LEMMA ReevaluateKeeps ==
    ASSUME NEW c, IsClient(c), NEW path
    PROVE  SameCore(c, Reevaluate(c, path))
<1>1. SameCore(c, c)
    BY DEF SameCore
<1> QED  BY <1>1, ShowKeeps DEF Reevaluate

LEMMA RaiseKeeps ==
    ASSUME NEW c, IsClient(c), NEW events
    PROVE  /\ SameCore(c, Raise(c, events)) /\ SameCore(c, ForgetEvents(c))
           /\ SameCore(c, RaiseEvents(c))
<1>1. ASSUME NEW d, IsClient(d)  PROVE SameCore(d, ForgetEvents(d))
    BY <1>1 DEF ForgetEvents, SameCore, IsClient
<1>2. ASSUME NEW e  PROVE SameCore(c, Raise(c, e))
    BY DEF Raise, SameCore, IsClient
<1>3. SameCore(c, RaiseEvents(c))
    <2>1. PICK d : d = Raise(c, c.events)
        OBVIOUS
    <2>2. SameCore(c, d) /\ IsClient(d)
        BY <1>2, <2>1 DEF SameCore
    <2> QED  BY <1>1, <2>1, <2>2, CoreOfCore DEF RaiseEvents
<1> QED  BY <1>1, <1>2, <1>3

LEMMA AckUserWriteKeeps ==
    ASSUME NEW c, IsClient(c), NEW id
    PROVE  LET d == AckUserWrite(c, id) IN
           /\ KeepsRest(c, d) /\ d.nextWriteId = c.nextWriteId
           /\ d.tree.allWrites = RemoveWriteId(c.tree, id).tree.allWrites
<1>1. PICK acked : acked = [c EXCEPT !.tree = RemoveWriteId(c.tree, id).tree]
    OBVIOUS
<1>2. IsClient(acked) /\ KeepsRest(c, acked) /\ acked.nextWriteId = c.nextWriteId
    BY <1>1 DEF IsClient, KeepsRest
<1>3. acked.tree = RemoveWriteId(c.tree, id).tree
    BY <1>1 DEF IsClient
<1>4. PICK d : d = AckUserWrite(c, id)
    OBVIOUS
<1>5. d = acked \/ \E path : d = Reevaluate(acked, path)
    BY <1>1, <1>4 DEF AckUserWrite
<1>6. SameCore(acked, d)
    <2>1. SameCore(acked, acked)
        BY <1>2 DEF SameCore
    <2> QED  BY <1>2, <1>5, <2>1, ReevaluateKeeps
<1>7. KeepsRest(c, d)
    BY <1>2, <1>6, CoreOfCore
<1> QED  BY <1>2, <1>3, <1>4, <1>6, <1>7 DEF SameCore

LEMMA ApplyUserOverwriteKeeps ==
    ASSUME NEW c, IsClient(c), NEW path, NEW data, NEW visible
    PROVE  LET d == ApplyUserOverwrite(c, path, data, visible) IN
           /\ KeepsRest(c, d) /\ d.nextWriteId = c.nextWriteId + 1
           /\ \E record : /\ record.id = c.nextWriteId
                          /\ d.tree.allWrites = AddOverwrite(c.tree, record).allWrites
<1>1. PICK record : record = [id |-> c.nextWriteId, path |-> path, data |-> data, visible |-> visible]
    OBVIOUS
<1>2. PICK written : written = [c EXCEPT !.tree = AddOverwrite(c.tree, record),
                                         !.nextWriteId = c.nextWriteId + 1]
    OBVIOUS
<1>3. IsClient(written) /\ KeepsRest(c, written) /\ written.nextWriteId = c.nextWriteId + 1
    BY <1>2 DEF IsClient, KeepsRest
<1>4. written.tree = AddOverwrite(c.tree, record)
    BY <1>2 DEF IsClient
<1>5. PICK d : d = ApplyUserOverwrite(c, path, data, visible)
    OBVIOUS
<1>6. d = written \/ d = Show(written, data)
    BY <1>1, <1>2, <1>5 DEF ApplyUserOverwrite
<1>7. SameCore(written, d)
    <2>1. SameCore(written, written)
        BY <1>3 DEF SameCore
    <2> QED  BY <1>3, <1>6, <2>1, ShowKeeps
<1>8. KeepsRest(c, d)
    BY <1>3, <1>7, CoreOfCore
<1>9. record.id = c.nextWriteId
    BY <1>1
<1> QED  BY <1>3, <1>4, <1>5, <1>7, <1>8, <1>9 DEF SameCore

LEMMA ApplyServerOverwriteKeeps ==
    ASSUME NEW c, IsClient(c), DOMAIN c.cache = Child, NEW path, NEW data, DOMAIN data \subseteq Child
    PROVE  SameCore(c, ApplyServerOverwrite(c, path, data))
<1>1. PICK d : d = [c EXCEPT !.cache = Shadow(c.cache, data)]
    OBVIOUS
<1>2. IsClient(d) /\ d.cache = Shadow(c.cache, data)
    BY <1>1 DEF IsClient
<1>3. DOMAIN d.cache = Child
    BY <1>2 DEF Shadow
<1>4. SameCore(c, d)
    BY <1>1, <1>2, <1>3 DEF SameCore, IsClient
<1>5. ApplyServerOverwrite(c, path, data) = Reevaluate(d, path)
    BY <1>1 DEF ApplyServerOverwrite
<1>6. SameCore(d, Reevaluate(d, path))
    BY <1>2, ReevaluateKeeps
<1> QED  BY <1>4, <1>5, <1>6, CoreOfCore

-----------------------------------------------------------------------------
(* One transaction changes, with its write.                                *)

\* Nothing but the tree and the transactions is different.
KeepsPlaces(c, d) ==
    /\ d.queues = c.queues /\ d.outstandingPuts = c.outstandingPuts
    /\ d.requests = c.requests /\ d.connected = c.connected

OthersKept(c, d, t) ==
    \A u \in Transaction : u # t => d.transactions[u] = c.transactions[u]

Closed(c, d, t, outcome) ==
    /\ OthersKept(c, d, t)
    /\ d.transactions[t].path = c.transactions[t].path
    /\ d.transactions[t].status = "completed" /\ d.transactions[t].outcome = outcome

Repeated(c, d, t) ==
    /\ OthersKept(c, d, t)
    /\ d.transactions[t].path = c.transactions[t].path
    /\ d.transactions[t].status = c.transactions[t].status
    /\ d.transactions[t].retryCount = c.transactions[t].retryCount
    /\ d.transactions[t].outcome = c.transactions[t].outcome

LEMMA FinishIs ==
    ASSUME NEW c, IsClient(c), TransactionsOK(c), NEW t \in Transaction, NEW outcome
    PROVE  LET d == Finish(c, t, outcome) IN
           /\ IsClient(d) /\ TransactionsOK(d) /\ KeepsPlaces(c, d)
           /\ d.tree = c.tree /\ d.nextWriteId = c.nextWriteId /\ d.cache = c.cache
           /\ Closed(c, d, t, outcome)
<1>1. PICK tx : tx = [c.transactions[t] EXCEPT !.status = "completed", !.outcome = outcome]
    OBVIOUS
<1>2. IsTransaction(c.transactions[t])
    BY DEF TransactionsOK
<1>3. IsTransaction(tx) /\ tx.path = c.transactions[t].path /\ tx.status = "completed" /\ tx.outcome = outcome
    BY <1>1, <1>2 DEF IsTransaction, Statuses
<1>4. PICK new : new = [c.transactions EXCEPT ![t] = tx]
    OBVIOUS
<1>5. PICK d : d = [c EXCEPT !.transactions = new]
    OBVIOUS
<1>6. Finish(c, t, outcome) = d
    <2>1. PICK a : a = [c EXCEPT !.transactions[t].status = "completed"]
        OBVIOUS
    <2>2. a = [c EXCEPT !.transactions = [c.transactions EXCEPT ![t] = [c.transactions[t] EXCEPT !.status = "completed"]]]
        BY <2>1
    <2>3. Finish(c, t, outcome) =
             [a EXCEPT !.transactions = [a.transactions EXCEPT ![t] = [a.transactions[t] EXCEPT !.outcome = outcome]]]
        BY <2>1 DEF Finish
    <2>4. PICK one : one = [c.transactions EXCEPT ![t] = [c.transactions[t] EXCEPT !.status = "completed"]]
        OBVIOUS
    <2>5. a.transactions = one
        BY <2>2, <2>4 DEF IsClient
    <2>6. one[t] = [c.transactions[t] EXCEPT !.status = "completed"]
        BY <2>4 DEF TransactionsOK
    <2>7. [one[t] EXCEPT !.outcome = outcome] = tx
        BY <1>1, <2>6
    <2>8. [one EXCEPT ![t] = tx] = new
        BY <1>4, <2>4
    <2>9. Finish(c, t, outcome) = [a EXCEPT !.transactions = new]
        BY <2>3, <2>5, <2>7, <2>8
    <2>10. a = [c EXCEPT !.transactions = one]
        BY <2>2, <2>4
    <2>11. [a EXCEPT !.transactions = new] = [c EXCEPT !.transactions = new]
        BY <2>10
    <2> QED  BY <1>5, <2>9, <2>11
<1>7. IsClient(d) /\ KeepsPlaces(c, d) /\ d.tree = c.tree /\ d.nextWriteId = c.nextWriteId /\ d.cache = c.cache
    BY <1>5 DEF IsClient, KeepsPlaces
<1>8. d.transactions = new
    BY <1>5 DEF IsClient
<1>9. TransactionsOK(d) /\ OthersKept(c, d, t) /\ d.transactions[t] = tx
    <2>1. TransactionsOK(c)
        OBVIOUS
    <2>2. \A u \in Transaction : d.transactions[u] = IF u = t THEN tx ELSE c.transactions[u]
        BY <1>4, <1>8, <2>1 DEF TransactionsOK
    <2>3. d.transactions = [u \in Transaction |-> d.transactions[u]]
        BY <1>4, <1>8, <2>1 DEF TransactionsOK
    <2> QED  BY <1>3, <2>1, <2>2, <2>3 DEF TransactionsOK, OthersKept
<1> QED  BY <1>3, <1>6, <1>7, <1>9 DEF Closed

\* What is open after a transaction is closed, and after its write is another.
LEMMA OpenIdsClosed ==
    ASSUME NEW c, Owners(c), NEW t \in Transaction, Open(c, t), NEW d, NEW outcome, Closed(c, d, t, outcome)
    PROVE  OpenIds(d) = OpenIds(c) \ {c.transactions[t].currentWriteId} /\ Owners(d)
<1>1. \A u \in Transaction : Open(d, u) <=> Open(c, u) /\ u # t
    BY DEF Closed, OthersKept, Open, Status
<1>2. \A u \in Transaction : u # t => d.transactions[u] = c.transactions[u]
    BY DEF Closed, OthersKept
<1>3. Owners(d)
    BY <1>1, <1>2 DEF Owners
<1>4. \A u \in Transaction : Open(c, u) /\ u # t => c.transactions[u].currentWriteId # c.transactions[t].currentWriteId
    BY DEF Owners
<1>5. OpenIds(d) = {c.transactions[u].currentWriteId : u \in {v \in Transaction : Open(c, v) /\ v # t}}
    BY <1>1, <1>2 DEF OpenIds
<1> QED  BY <1>3, <1>4, <1>5 DEF OpenIds

LEMMA OpenIdsMoved ==
    ASSUME NEW c, Owners(c), NEW t \in Transaction, NEW d, OthersKept(c, d, t), Open(d, t),
           NEW old, IF Open(c, t) THEN old = c.transactions[t].currentWriteId ELSE old \notin OpenIds(c),
           d.transactions[t].currentWriteId \notin OpenIds(c)
    PROVE  OpenIds(d) = (OpenIds(c) \ {old}) \cup {d.transactions[t].currentWriteId} /\ Owners(d)
<1>1. \A u \in Transaction : u # t => d.transactions[u] = c.transactions[u] /\ (Open(d, u) <=> Open(c, u))
    BY DEF OthersKept, Open, Status
<1>2. \A u \in Transaction : Open(c, u) => c.transactions[u].currentWriteId \in OpenIds(c)
    BY DEF OpenIds
<1>3. Owners(d)
    BY <1>1, <1>2 DEF Owners
<1>4. \A u \in Transaction : Open(c, u) /\ u # t => c.transactions[u].currentWriteId # old
    BY <1>2 DEF Owners
<1>5. ASSUME NEW x \in OpenIds(d)  PROVE x \in (OpenIds(c) \ {old}) \cup {d.transactions[t].currentWriteId}
    <2>1. PICK u \in Transaction : Open(d, u) /\ x = d.transactions[u].currentWriteId
        BY <1>5 DEF OpenIds
    <2> QED  BY <1>1, <1>2, <1>4, <2>1
<1>6. ASSUME NEW x \in OpenIds(c), x # old  PROVE x \in OpenIds(d)
    <2>1. PICK u \in Transaction : Open(c, u) /\ x = c.transactions[u].currentWriteId
        BY <1>6 DEF OpenIds
    <2>2. u # t
        BY <1>6, <2>1
    <2>3. Open(d, u) /\ x = d.transactions[u].currentWriteId
        BY <1>1, <2>1, <2>2
    <2> QED  BY <2>3 DEF OpenIds
<1>7. d.transactions[t].currentWriteId \in OpenIds(d)
    BY DEF OpenIds
<1> QED  BY <1>3, <1>5, <1>6, <1>7

\* The write of a transaction that is over leaves the tree.
LEMMA Close ==
    ASSUME NEW c, Base(c), Accounted(c), NEW t \in Transaction, Open(c, t), NEW outcome
    PROVE  LET d == Finish(AckUserWrite(c, c.transactions[t].currentWriteId), t, outcome) IN
           Base(d) /\ Accounted(d) /\ KeepsPlaces(c, d) /\ Closed(c, d, t, outcome)
<1>1. PICK id : id = c.transactions[t].currentWriteId
    OBVIOUS
<1>2. PICK e : e = AckUserWrite(c, id)
    OBVIOUS
<1>3. PICK d : d = Finish(e, t, outcome)
    OBVIOUS
<1>4. id \in OpenIds(c) /\ id \in WriteIds(c.tree)
    BY <1>1 DEF Accounted, OpenIds
<1>5. KeepsRest(c, e) /\ e.nextWriteId = c.nextWriteId /\ e.tree.allWrites = RemoveWriteId(c.tree, id).tree.allWrites
    BY <1>2, AckUserWriteKeeps DEF Base
<1>6. WritesOK(e.tree.allWrites, c.nextWriteId) /\ WriteIds(e.tree) = WriteIds(c.tree) \ {id}
    <2>1. /\ WritesOK(RemoveWriteId(c.tree, id).tree.allWrites, c.nextWriteId)
          /\ WriteIds(RemoveWriteId(c.tree, id).tree) = WriteIds(c.tree) \ {id}
        BY <1>4, RemoveWrite DEF Base
    <2>2. WriteIds(e.tree) = WriteIds(RemoveWriteId(c.tree, id).tree)
        BY <1>5 DEF WriteIds
    <2> QED  BY <1>5, <2>1, <2>2
<1>7. TransactionsOK(e) /\ IsClient(e)
    BY <1>5 DEF KeepsRest, Base, TransactionsOK
<1>8. /\ IsClient(d) /\ TransactionsOK(d) /\ KeepsPlaces(e, d)
      /\ d.tree = e.tree /\ d.nextWriteId = e.nextWriteId /\ d.cache = e.cache
      /\ Closed(e, d, t, outcome)
    BY <1>3, <1>7, FinishIs
<1>9. Closed(c, d, t, outcome) /\ KeepsPlaces(c, d)
    BY <1>5, <1>8 DEF Closed, OthersKept, KeepsPlaces, KeepsRest
<1>10. Base(d)
    BY <1>5, <1>6, <1>8, <1>9 DEF Base, KeepsRest, KeepsPlaces
<1>11. OpenIds(d) = OpenIds(c) \ {id} /\ Owners(d)
    BY <1>1, <1>9, OpenIdsClosed DEF Accounted
<1>12. Accounted(d)
    <2>1. d.outstandingPuts = c.outstandingPuts /\ WriteIds(d.tree) = WriteIds(c.tree) \ {id}
        BY <1>6, <1>8, <1>9 DEF KeepsPlaces
    <2> QED  BY <1>4, <1>11, <2>1 DEF Accounted
<1> QED  BY <1>1, <1>2, <1>3, <1>9, <1>10, <1>12

\* The output of a transaction is a new write.
LEMMA WriteOutputIs ==
    ASSUME NEW c, Base(c), NEW t \in Transaction, NEW output, DOMAIN output \subseteq Child
    PROVE  LET d == WriteOutput(c, t, output) IN
           /\ Base(d) /\ KeepsPlaces(c, d) /\ Repeated(c, d, t)
           /\ d.transactions[t].currentWriteId = c.nextWriteId
           /\ WriteIds(d.tree) = WriteIds(c.tree) \cup {c.nextWriteId}
           /\ c.nextWriteId \notin WriteIds(c.tree)
<1>1. PICK tx : tx = [c.transactions[t] EXCEPT !.output = output, !.currentWriteId = c.nextWriteId]
    OBVIOUS
<1>2. IsTransaction(c.transactions[t])
    BY DEF Base, TransactionsOK
<1>3. /\ IsTransaction(tx) /\ tx.path = c.transactions[t].path /\ tx.status = c.transactions[t].status
      /\ tx.retryCount = c.transactions[t].retryCount /\ tx.outcome = c.transactions[t].outcome
      /\ tx.currentWriteId = c.nextWriteId
    BY <1>1, <1>2 DEF IsTransaction
<1>4. PICK new : new = [c.transactions EXCEPT ![t] = tx]
    OBVIOUS
<1>5. PICK e : e = [c EXCEPT !.transactions = new]
    OBVIOUS
<1>6. [c EXCEPT !.transactions[t].output = output, !.transactions[t].currentWriteId = c.nextWriteId] = e
    <2>1. PICK a : a = [c EXCEPT !.transactions[t].output = output]
        OBVIOUS
    <2>2. PICK one : one = [c.transactions EXCEPT ![t] = [c.transactions[t] EXCEPT !.output = output]]
        OBVIOUS
    <2>3. a = [c EXCEPT !.transactions = one]
        BY <2>1, <2>2
    <2>4. a.transactions = one
        BY <2>3 DEF Base, IsClient
    <2>5. one[t] = [c.transactions[t] EXCEPT !.output = output]
        BY <2>2 DEF Base, TransactionsOK
    <2>6. [one[t] EXCEPT !.currentWriteId = c.nextWriteId] = tx
        BY <1>1, <2>5
    <2>7. [one EXCEPT ![t] = tx] = new
        BY <1>4, <2>2
    <2>8. [c EXCEPT !.transactions[t].output = output, !.transactions[t].currentWriteId = c.nextWriteId] =
             [a EXCEPT !.transactions =
                 [a.transactions EXCEPT ![t] = [a.transactions[t] EXCEPT !.currentWriteId = c.nextWriteId]]]
        BY <2>1
    <2>9. [a EXCEPT !.transactions = new] = [c EXCEPT !.transactions = new]
        BY <2>3
    <2> QED  BY <1>5, <2>4, <2>6, <2>7, <2>8, <2>9
<1>7. IsClient(c)
    BY DEF Base
<1>8. /\ IsClient(e) /\ KeepsPlaces(c, e) /\ e.tree = c.tree /\ e.nextWriteId = c.nextWriteId
      /\ e.cache = c.cache /\ e.transactions = new
    BY <1>5, <1>7 DEF IsClient, KeepsPlaces
<1>9. TransactionsOK(e) /\ OthersKept(c, e, t) /\ e.transactions[t] = tx
    <2>1. TransactionsOK(c)
        BY DEF Base
    <2>2. \A u \in Transaction : e.transactions[u] = IF u = t THEN tx ELSE c.transactions[u]
        BY <1>4, <1>8, <2>1 DEF TransactionsOK
    <2>3. e.transactions = [u \in Transaction |-> e.transactions[u]]
        BY <1>4, <1>8, <2>1 DEF TransactionsOK
    <2> QED  BY <1>3, <2>1, <2>2, <2>3 DEF TransactionsOK, OthersKept
<1>10. PICK d : d = WriteOutput(c, t, output)
    OBVIOUS
<1>11. d = ApplyUserOverwrite(e, c.transactions[t].path, output, c.transactions[t].applyLocally)
    BY <1>6, <1>10 DEF WriteOutput
<1>12. /\ KeepsRest(e, d) /\ d.nextWriteId = e.nextWriteId + 1
       /\ \E record : /\ record.id = e.nextWriteId
                      /\ d.tree.allWrites = AddOverwrite(e.tree, record).allWrites
    BY <1>8, <1>11, ApplyUserOverwriteKeeps
<1>13. /\ WritesOK(d.tree.allWrites, c.nextWriteId + 1)
       /\ WriteIds(d.tree) = WriteIds(c.tree) \cup {c.nextWriteId}
       /\ c.nextWriteId \notin WriteIds(c.tree)
    <2>1. PICK record : record.id = c.nextWriteId /\ d.tree.allWrites = AddOverwrite(c.tree, record).allWrites
        BY <1>8, <1>12
    <2>2. /\ WritesOK(AddOverwrite(c.tree, record).allWrites, c.nextWriteId + 1)
          /\ WriteIds(AddOverwrite(c.tree, record)) = WriteIds(c.tree) \cup {c.nextWriteId}
          /\ c.nextWriteId \notin WriteIds(c.tree)
        BY <2>1, AddWriteTo DEF Base
    <2>3. WriteIds(d.tree) = WriteIds(AddOverwrite(c.tree, record))
        BY <2>1 DEF WriteIds
    <2> QED  BY <2>1, <2>2, <2>3
<1>14. KeepsPlaces(c, d) /\ d.transactions = e.transactions
    BY <1>8, <1>12 DEF KeepsPlaces, KeepsRest
<1>15. Repeated(c, d, t) /\ d.transactions[t].currentWriteId = c.nextWriteId
    BY <1>3, <1>9, <1>14 DEF Repeated, OthersKept
<1>16. Base(d)
    <2>1. TransactionsOK(d)
        BY <1>9, <1>14 DEF TransactionsOK
    <2> QED  BY <1>8, <1>12, <1>13, <1>14, <2>1 DEF Base, KeepsRest, KeepsPlaces
<1> QED  BY <1>10, <1>13, <1>14, <1>15, <1>16

\* A transaction that is run again has a new write in place of the old one.
LEMMA RunAgain ==
    ASSUME NEW c, Base(c), Accounted(c), NEW t \in Transaction, Open(c, t),
           NEW output, DOMAIN output \subseteq Child
    PROVE  LET d == AckUserWrite(WriteOutput(c, t, output), c.transactions[t].currentWriteId) IN
           Base(d) /\ Accounted(d) /\ KeepsPlaces(c, d) /\ Repeated(c, d, t)
<1>1. PICK id : id = c.transactions[t].currentWriteId
    OBVIOUS
<1>2. PICK e : e = WriteOutput(c, t, output)
    OBVIOUS
<1>3. PICK d : d = AckUserWrite(e, id)
    OBVIOUS
<1>4. PICK next \in Nat : next = c.nextWriteId
    BY DEF Base
<1>5. /\ Base(e) /\ KeepsPlaces(c, e) /\ Repeated(c, e, t)
      /\ e.transactions[t].currentWriteId = next
      /\ WriteIds(e.tree) = WriteIds(c.tree) \cup {next} /\ next \notin WriteIds(c.tree)
    BY <1>2, <1>4, WriteOutputIs
<1>6. id \in OpenIds(c) /\ id \in WriteIds(c.tree)
    BY <1>1 DEF Accounted, OpenIds
<1>7. KeepsRest(e, d) /\ d.nextWriteId = e.nextWriteId /\ d.tree.allWrites = RemoveWriteId(e.tree, id).tree.allWrites
    BY <1>3, <1>5, AckUserWriteKeeps DEF Base
<1>8. WritesOK(d.tree.allWrites, e.nextWriteId) /\ WriteIds(d.tree) = (WriteIds(c.tree) \cup {next}) \ {id}
    <2>1. /\ WritesOK(RemoveWriteId(e.tree, id).tree.allWrites, e.nextWriteId)
          /\ WriteIds(RemoveWriteId(e.tree, id).tree) = WriteIds(e.tree) \ {id}
        BY <1>5, <1>6, RemoveWrite DEF Base
    <2>2. WriteIds(d.tree) = WriteIds(RemoveWriteId(e.tree, id).tree)
        BY <1>7 DEF WriteIds
    <2> QED  BY <1>5, <1>7, <2>1, <2>2
<1>9. Base(d)
    BY <1>5, <1>7, <1>8 DEF Base, KeepsRest, TransactionsOK
<1>10. KeepsPlaces(c, d) /\ Repeated(c, d, t) /\ d.transactions[t].currentWriteId = next
    BY <1>5, <1>7 DEF KeepsPlaces, KeepsRest, Repeated, OthersKept
<1>11. Open(d, t)
    BY <1>10 DEF Repeated, Open, Status
<1>12. OpenIds(d) = (OpenIds(c) \ {id}) \cup {next} /\ Owners(d)
    <2>1. OthersKept(c, d, t) /\ next \notin OpenIds(c)
        BY <1>5, <1>10 DEF Repeated, Accounted
    <2> QED  BY <1>1, <1>10, <1>11, <2>1, OpenIdsMoved DEF Accounted
<1>13. Accounted(d)
    <2>1. d.outstandingPuts = c.outstandingPuts
        BY <1>10 DEF KeepsPlaces
    <2> QED  BY <1>5, <1>6, <1>8, <1>12, <2>1 DEF Accounted
<1> QED  BY <1>1, <1>2, <1>3, <1>9, <1>10, <1>13

-----------------------------------------------------------------------------
(* Running the blocks again changes nothing of what is on its way.         *)

KeepsGoing(c, d) ==
    /\ KeepsPlaces(c, d)
    /\ \A t \in Transaction :
          /\ d.transactions[t].path = c.transactions[t].path
          /\ Going(d, t) <=> Going(c, t)
          /\ Status(d, t) = "new" <=> Status(c, t) = "new"

LEMMA QueuesAre ==
    ASSUME NEW c, Base(c), NEW p \in Place
    PROVE  /\ IsList(c.queues[p]) /\ DOMAIN c.queues[p] = 1 .. Len(c.queues[p])
           /\ Range(c.queues[p]) \subseteq Transaction /\ c.queues[p] \in Seq(Transaction)
<1>1. c.queues[p] \in Seq(Transaction)
    BY DEF Base
<1>2. /\ IsList(c.queues[p]) /\ DOMAIN c.queues[p] = 1 .. Len(c.queues[p])
      /\ \A i \in 1 .. Len(c.queues[p]) : c.queues[p][i] \in Transaction
    BY <1>1, SeqIsList
<1> QED  BY <1>1, <1>2 DEF Range

LEMMA PutQueuesAre ==
    ASSUME NEW put, IsPut(put)
    PROVE  /\ IsList(put.queue) /\ DOMAIN put.queue = 1 .. Len(put.queue)
           /\ Range(put.queue) \subseteq Transaction
<1>1. put.queue \in Seq(Transaction)
    BY DEF IsPut
<1>2. /\ IsList(put.queue) /\ DOMAIN put.queue = 1 .. Len(put.queue)
      /\ \A i \in 1 .. Len(put.queue) : put.queue[i] \in Transaction
    BY <1>1, SeqIsList
<1> QED  BY <1>1, <1>2 DEF Range

LEMMA SameServed ==
    ASSUME NEW c, NEW d, KeepsPlaces(c, d), NEW ans, NEW ex, Served(c, ans, ex)
    PROVE  Served(d, ans, ex)
BY DEF KeepsPlaces, Served

LEMMA SameGoing ==
    ASSUME NEW c, NEW d, Base(c), KeepsGoing(c, d)
    PROVE  /\ Queues(c) => Queues(d)
           /\ \A P : Carried(c, P) => Carried(d, P)
<1>1. d.queues = c.queues /\ d.outstandingPuts = c.outstandingPuts
    BY DEF KeepsGoing, KeepsPlaces
<1>2. \A t \in Transaction : /\ d.transactions[t].path = c.transactions[t].path
                             /\ Going(d, t) <=> Going(c, t)
                             /\ Status(d, t) = "new" <=> Status(c, t) = "new"
    BY DEF KeepsGoing
<1>3. Queues(c) => Queues(d)
    <2> SUFFICES ASSUME NEW p \in Place, Waits(c, c.queues[p], p)  PROVE Waits(d, c.queues[p], p)
        BY <1>1 DEF Queues
    <2>1. \A i \in DOMAIN c.queues[p] : c.queues[p][i] \in Transaction
        BY QueuesAre DEF Range
    <2>2. Range(c.queues[p]) \subseteq Transaction
        BY QueuesAre
    <2>3. \A i, j \in DOMAIN c.queues[p] : i < j /\ Going(d, c.queues[p][j]) => Going(d, c.queues[p][i])
        BY <1>2, <2>1 DEF Waits
    <2>4. \A t \in Range(c.queues[p]) : d.transactions[t].path = p /\ Status(d, t) # "new"
        BY <1>2, <2>2 DEF Waits
    <2> QED  BY <2>3, <2>4 DEF Waits
<1>4. ASSUME NEW put, IsPut(put)
      PROVE  (InPut(c, put) => InPut(d, put)) /\ (Together(c, put) => Together(d, put))
    <2>1. Range(put.queue) \subseteq Transaction
        BY <1>4, PutQueuesAre
    <2>2. InPut(c, put) => InPut(d, put)
        BY <1>2, <2>1 DEF InPut
    <2>3. \A p \in Place : Range(c.queues[p]) \subseteq Transaction
        BY QueuesAre
    <2>4. Together(c, put) => Together(d, put)
        BY <1>1, <1>2, <2>3 DEF Together
    <2> QED  BY <2>2, <2>4
<1>5. ASSUME NEW P, Carried(c, P)  PROVE Carried(d, P)
    <2>1. Puts(d, P) = Puts(c, P)
        BY <1>1 DEF Puts
    <2>2. \A put \in Puts(c, P) : IsPut(put) /\ InPut(d, put) /\ Together(d, put)
        BY <1>4, <1>5 DEF Carried
    <2>3. \A t \in Transaction : Going(d, t) => \E put \in Puts(c, P) : Carries(put, t)
        BY <1>2, <1>5 DEF Carried
    <2> QED  BY <1>1, <1>5, <2>1, <2>2, <2>3 DEF Carried
<1> QED  BY <1>3, <1>5

LEMMA RepeatedSound ==
    ASSUME NEW c, NEW P, NEW ans, NEW ex, Sound(c, P, ans, ex), NEW t \in Transaction, ~Going(c, t),
           NEW d, Base(d), Accounted(d), KeepsPlaces(c, d), Repeated(c, d, t)
    PROVE  Sound(d, P, ans, ex) /\ KeepsGoing(c, d)
<1>1. Base(c) /\ Queues(c) /\ Carried(c, P) /\ Truth(c, ex) /\ Served(c, ans, ex)
    BY DEF Sound
<1>2. KeepsGoing(c, d)
    BY DEF KeepsGoing, Repeated, OthersKept, Going, Status
<1>3. Truth(d, ex)
    <2>1. TruthOf(d.transactions[t], ex[t])
        BY <1>1 DEF Truth, TruthOf, Repeated
    <2> QED  BY <1>1, <2>1 DEF Truth, Repeated, OthersKept
<1>4. Queues(d) /\ Carried(d, P)
    BY <1>1, <1>2, SameGoing
<1>5. Served(d, ans, ex)
    BY <1>1, SameServed
<1> QED  BY <1>2, <1>3, <1>4, <1>5 DEF Sound

LEMMA ClosedSound ==
    ASSUME NEW c, NEW P, NEW ans, NEW ex, Sound(c, P, ans, ex),
           NEW t \in Transaction, ~Going(c, t), Status(c, t) # "new",
           NEW outcome, outcome # "committed", outcome = "disconnect" \/ ex[t] = 0,
           NEW d, Base(d), Accounted(d), KeepsPlaces(c, d), Closed(c, d, t, outcome)
    PROVE  Sound(d, P, ans, ex) /\ KeepsGoing(c, d)
<1>1. Base(c) /\ Queues(c) /\ Carried(c, P) /\ Truth(c, ex) /\ Served(c, ans, ex)
    BY DEF Sound
<1>2. KeepsGoing(c, d)
    BY DEF KeepsGoing, Closed, OthersKept, Going, Status
<1>3. Truth(d, ex)
    <2>1. TruthOf(d.transactions[t], ex[t])
        BY <1>1 DEF Truth, TruthOf, Closed
    <2> QED  BY <1>1, <2>1 DEF Truth, Closed, OthersKept
<1>4. Queues(d) /\ Carried(d, P)
    BY <1>1, <1>2, SameGoing
<1>5. Served(d, ans, ex)
    BY <1>1, SameServed
<1> QED  BY <1>2, <1>3, <1>4, <1>5 DEF Sound

IsPass(pass) == pass = [client |-> pass.client, excluded |-> pass.excluded, first |-> pass.first]

\* After a transaction has been run again, or has been found to be over.
Done(c, d, t, P, ans, ex) ==
    Sound(d, P, ans, ex) /\ KeepsGoing(c, d) /\ OthersKept(c, d, t) /\ Ready(d, t)

LEMMA UnderChild ==
    ASSUME WriteTreeAssumption, NEW path \in Place
    PROVE  Under(path) \subseteq Child
BY DEF Under, Place, WriteTreeAssumption

LEMMA RanDone ==
    ASSUME WriteTreeAssumption, TransactionsAssumption, NEW pass, IsPass(pass), NEW t \in Transaction,
           NEW P, NEW ans, NEW ex, Sound(pass.client, P, ans, ex)
    PROVE  IsPass(Ran(pass, t)) /\ Done(pass.client, Ran(pass, t).client, t, P, ans, ex)
<1>1. PICK c : c = pass.client
    OBVIOUS
<1>2. PICK tx : tx = c.transactions[t]
    OBVIOUS
<1>3. PICK input : input = LatestState(c, tx.path, pass.excluded)
    OBVIOUS
<1>4. Base(c) /\ Accounted(c) /\ Truth(c, ex) /\ Sound(c, P, ans, ex)
    BY <1>1 DEF Sound
<1>5. IsTransaction(tx) /\ TruthOf(tx, ex[t])
    BY <1>2, <1>4 DEF Base, TransactionsOK, Truth
<1>6. Status(c, t) = tx.status
    BY <1>2 DEF Status
<1> DEFINE over(outcome) == [pass EXCEPT !.client = Finish(AckUserWrite(c, tx.currentWriteId), t, outcome)]
           again == [pass EXCEPT !.client = AckUserWrite(WriteOutput(c, t, Updated(input)), tx.currentWriteId),
                                 !.excluded = pass.excluded \ {tx.currentWriteId}]
<1>7. ASSUME NEW outcome, outcome # "committed", outcome = "disconnect" \/ ex[t] = 0,
             tx.status \in {"run", "needsAbort"}
      PROVE  IsPass(over(outcome)) /\ Done(c, over(outcome).client, t, P, ans, ex)
    <2>1. PICK d : d = Finish(AckUserWrite(c, tx.currentWriteId), t, outcome)
        OBVIOUS
    <2>2. Open(c, t) /\ ~Going(c, t) /\ Status(c, t) # "new"
        BY <1>6, <1>7 DEF Open, Going
    <2>3. Base(d) /\ Accounted(d) /\ KeepsPlaces(c, d) /\ Closed(c, d, t, outcome)
        BY <1>2, <1>4, <2>1, <2>2, Close
    <2>4. Sound(d, P, ans, ex) /\ KeepsGoing(c, d)
        BY <1>4, <1>7, <2>2, <2>3, ClosedSound
    <2>5. OthersKept(c, d, t) /\ Ready(d, t)
        BY <2>3 DEF Closed, Ready, Status
    <2>6. over(outcome) = [pass EXCEPT !.client = d]
        BY <2>1
    <2>7. IsPass(over(outcome)) /\ over(outcome).client = d
        BY <2>6 DEF IsPass
    <2> QED  BY <2>4, <2>5, <2>7 DEF Done
<1>8. ASSUME tx.status = "run", tx.retryCount < MaxRetries
      PROVE  IsPass(again) /\ Done(c, again.client, t, P, ans, ex)
    <2>1. PICK d : d = AckUserWrite(WriteOutput(c, t, Updated(input)), tx.currentWriteId)
        OBVIOUS
    <2>2. Open(c, t) /\ ~Going(c, t)
        BY <1>6, <1>8 DEF Open, Going
    <2>3. DOMAIN Updated(input) \subseteq Child
        <3>1. DOMAIN input = Under(tx.path)
            BY <1>3 DEF LatestState, CompleteEventCache, Restrict
        <3>2. tx.path \in Place
            BY <1>5 DEF IsTransaction
        <3> QED  BY <3>1, <3>2, UnderChild DEF Updated
    <2>4. Base(d) /\ Accounted(d) /\ KeepsPlaces(c, d) /\ Repeated(c, d, t)
        BY <1>2, <1>4, <2>1, <2>2, <2>3, RunAgain
    <2>5. Sound(d, P, ans, ex) /\ KeepsGoing(c, d)
        BY <1>4, <2>2, <2>4, RepeatedSound
    <2>6. OthersKept(c, d, t) /\ Ready(d, t)
        BY <1>2, <1>8, <2>4 DEF Repeated, Ready, Status
    <2>7. IsPass(again) /\ again.client = d
        <3>1. PICK one : one = [pass EXCEPT !.client = d]
            OBVIOUS
        <3>2. IsPass(one) /\ one.client = d
            BY <3>1 DEF IsPass
        <3>3. again = [one EXCEPT !.excluded = pass.excluded \ {tx.currentWriteId}]
            BY <2>1, <3>1
        <3> HIDE DEF again
        <3> QED  BY <3>2, <3>3 DEF IsPass
    <2> HIDE DEF again
    <2> QED  BY <2>5, <2>6, <2>7 DEF Done
<1>9. tx.status \notin {"run", "needsAbort"} => Done(c, c, t, P, ans, ex)
    BY <1>4, <1>6 DEF Done, KeepsGoing, KeepsPlaces, OthersKept, Ready
<1>10. \/ tx.status = "needsAbort" /\ Ran(pass, t) = over(tx.outcome)
       \/ tx.status = "run" /\ tx.retryCount >= MaxRetries /\ Ran(pass, t) = over("tooManyRetries")
       \/ tx.status = "run" /\ tx.retryCount < MaxRetries /\ Ran(pass, t) = over("aborted")
       \/ tx.status = "run" /\ tx.retryCount < MaxRetries /\ Ran(pass, t) = again
       \/ tx.status \notin {"run", "needsAbort"} /\ Ran(pass, t) = pass
    <2>0. tx.retryCount \in Nat /\ MaxRetries \in Nat
        BY <1>5 DEF IsTransaction, TransactionsAssumption
    <2>1. ASSUME tx.status = "needsAbort"  PROVE Ran(pass, t) = over(tx.outcome)
        BY <1>1, <1>2, <1>3, <2>1 DEF Ran
    <2>2. ASSUME tx.status = "run", tx.retryCount >= MaxRetries
          PROVE  Ran(pass, t) = over("tooManyRetries")
        BY <1>1, <1>2, <1>3, <2>0, <2>2 DEF Ran
    <2>3. ASSUME tx.status = "run", tx.retryCount < MaxRetries, ~Succeeds(input)
          PROVE  Ran(pass, t) = over("aborted")
        BY <1>1, <1>2, <1>3, <2>0, <2>3 DEF Ran
    <2>4. ASSUME tx.status = "run", tx.retryCount < MaxRetries, Succeeds(input)
          PROVE  Ran(pass, t) = again
        BY <1>1, <1>2, <1>3, <2>0, <2>4 DEF Ran
    <2>5. ASSUME tx.status # "run", tx.status # "needsAbort"  PROVE Ran(pass, t) = pass
        BY <1>1, <1>2, <1>3, <2>5 DEF Ran
    <2>6. tx.retryCount >= MaxRetries \/ tx.retryCount < MaxRetries
        BY <2>0
    <2> HIDE DEF over, again
    <2> QED  BY <2>1, <2>2, <2>3, <2>4, <2>5, <2>6
<1>11. tx.status = "needsAbort" => tx.outcome # "committed" /\ (tx.outcome = "disconnect" \/ ex[t] = 0)
    BY <1>5 DEF TruthOf
<1>12. tx.status = "run" => ex[t] = 0
    BY <1>5 DEF TruthOf
<1> HIDE DEF over, again
<1>13. CASE tx.status = "needsAbort" /\ Ran(pass, t) = over(tx.outcome)
    BY <1>1, <1>7, <1>11, <1>13
<1>14. CASE tx.status = "run" /\ Ran(pass, t) = over("tooManyRetries")
    BY <1>1, <1>7, <1>12, <1>14
<1>15. CASE tx.status = "run" /\ Ran(pass, t) = over("aborted")
    BY <1>1, <1>7, <1>12, <1>15
<1>16. CASE tx.status = "run" /\ tx.retryCount < MaxRetries /\ Ran(pass, t) = again
    BY <1>1, <1>8, <1>16
<1>17. CASE tx.status \notin {"run", "needsAbort"} /\ Ran(pass, t) = pass
    BY <1>1, <1>9, <1>17
<1> QED  BY <1>10, <1>13, <1>14, <1>15, <1>16, <1>17

LEMMA DoneThenCore ==
    ASSUME NEW c, NEW d, NEW e, NEW t \in Transaction, NEW P, NEW ans, NEW ex,
           Done(c, d, t, P, ans, ex), SameCore(d, e)
    PROVE  Done(c, e, t, P, ans, ex)
<1>1. Sound(e, P, ans, ex)
    BY SameSound DEF Done
<1>2. /\ e.transactions = d.transactions /\ e.queues = d.queues /\ e.connected = d.connected
      /\ e.outstandingPuts = d.outstandingPuts /\ e.requests = d.requests
    BY DEF SameCore
<1>3. KeepsGoing(c, e)
    BY <1>2 DEF Done, KeepsGoing, KeepsPlaces, Going, Status
<1>4. OthersKept(c, e, t) /\ Ready(e, t)
    BY <1>2 DEF Done, OthersKept, Ready, Status
<1> QED  BY <1>1, <1>3, <1>4 DEF Done

LEMMA RerunDone ==
    ASSUME WriteTreeAssumption, TransactionsAssumption, NEW pass, IsPass(pass), NEW t \in Transaction,
           NEW P, NEW ans, NEW ex, Sound(pass.client, P, ans, ex)
    PROVE  IsPass(Rerun(pass, t)) /\ Done(pass.client, Rerun(pass, t).client, t, P, ans, ex)
<1>1. PICK ran : ran = Ran(pass, t)
    OBVIOUS
<1>2. IsPass(ran) /\ Done(pass.client, ran.client, t, P, ans, ex)
    BY <1>1, RanDone
<1>3. PICK e : e = IF pass.first THEN RaiseEvents(ran.client) ELSE ForgetEvents(ran.client)
    OBVIOUS
<1>4. SameCore(ran.client, e)
    <2>1. IsClient(ran.client)
        BY <1>2 DEF Done, Sound, Base
    <2> QED  BY <1>3, <2>1, RaiseKeeps
<1>5. PICK late : late = [ran EXCEPT !.first = FALSE]
    OBVIOUS
<1>6. IsPass(late) /\ late.client = ran.client
    BY <1>2, <1>5 DEF IsPass
<1>7. Rerun(pass, t) = [late EXCEPT !.client = e]
    <2>1. Rerun(pass, t) =
             [late EXCEPT !.client = IF pass.first THEN RaiseEvents(late.client) ELSE ForgetEvents(late.client)]
        BY <1>1, <1>5 DEF Rerun
    <2> QED  BY <1>3, <1>6, <2>1
<1>8. IsPass(Rerun(pass, t)) /\ Rerun(pass, t).client = e
    BY <1>6, <1>7 DEF IsPass
<1> QED  BY <1>2, <1>4, <1>8, DoneThenCore

\* After the first i transactions of a queue have been run again.
Rerunning(c, pass, queue, i, P, ans, ex) ==
    /\ IsPass(pass) /\ Sound(pass.client, P, ans, ex) /\ KeepsGoing(c, pass.client)
    /\ \A j \in 1 .. i : Ready(pass.client, queue[j])
    /\ \A t \in Transaction : (\A j \in 1 .. i : queue[j] # t) => pass.client.transactions[t] = c.transactions[t]

LEMMA RerunningSteps ==
    ASSUME WriteTreeAssumption, TransactionsAssumption, NEW c, NEW pass, NEW queue, NEW n \in Nat,
           \A i \in 1 .. n : queue[i] \in Transaction, NEW P, NEW ans, NEW ex,
           NEW i \in 1 .. n, Rerunning(c, pass, queue, i - 1, P, ans, ex)
    PROVE  Rerunning(c, Rerun(pass, queue[i]), queue, i, P, ans, ex)
<1>1. PICK t \in Transaction : t = queue[i]
    OBVIOUS
<1>2. PICK b : b = pass.client
    OBVIOUS
<1>3. PICK next : next = Rerun(pass, t)
    OBVIOUS
<1>4. PICK d : d = next.client
    OBVIOUS
<1>5. IsPass(next) /\ Done(b, d, t, P, ans, ex)
    BY <1>2, <1>3, <1>4, RerunDone DEF Rerunning
<1>6. Sound(d, P, ans, ex) /\ KeepsGoing(b, d) /\ OthersKept(b, d, t) /\ Ready(d, t)
    BY <1>5 DEF Done
<1>7. KeepsGoing(c, b)
    BY <1>2 DEF Rerunning
<1>8. KeepsGoing(c, d)
    BY <1>6, <1>7 DEF KeepsGoing, KeepsPlaces
<1>9. ASSUME NEW j \in 1 .. i  PROVE Ready(d, queue[j])
    <2>1. CASE queue[j] = t
        BY <1>6, <2>1
    <2>2. CASE queue[j] # t
        <3>1. j \in 1 .. i - 1 /\ queue[j] \in Transaction
            BY <1>1, <2>2
        <3>2. Ready(b, queue[j])
            BY <1>2, <3>1 DEF Rerunning
        <3> QED  BY <1>6, <2>2, <3>1, <3>2 DEF OthersKept, Ready, Status
    <2> QED  BY <2>1, <2>2
<1>10. ASSUME NEW u \in Transaction, \A j \in 1 .. i : queue[j] # u  PROVE d.transactions[u] = c.transactions[u]
    <2>1. u # t
        BY <1>1, <1>10
    <2>2. \A j \in 1 .. i - 1 : j \in 1 .. i
        OBVIOUS
    <2>3. b.transactions[u] = c.transactions[u]
        BY <1>2, <1>10, <2>2 DEF Rerunning
    <2> QED  BY <1>6, <2>1, <2>3 DEF OthersKept
<1> QED  BY <1>1, <1>3, <1>4, <1>5, <1>6, <1>8, <1>9, <1>10 DEF Rerunning

LEMMA RerunQueue ==
    ASSUME WriteTreeAssumption, TransactionsAssumption, NEW pass, IsPass(pass),
           NEW queue, NEW n \in Nat, DOMAIN queue = 1 .. n,
           \A i \in 1 .. n : queue[i] \in Transaction, NEW P, NEW ans, NEW ex,
           Sound(pass.client, P, ans, ex)
    PROVE  Rerunning(pass.client, FoldLeft(Rerun, pass, queue), queue, n, P, ans, ex)
<1>1. PICK g : Runs(g, "rerun", pass, n, queue) /\ FoldLeft(Rerun, pass, queue) = g[n]
    BY RerunFold
<1> DEFINE S == {i \in 0 .. n : Rerunning(pass.client, g[i], queue, i, P, ans, ex)}
<1>2. 0 \in S
    BY <1>1 DEF Runs, Rerunning, KeepsGoing, KeepsPlaces
<1>3. ASSUME NEW i \in 1 .. n, i - 1 \in S  PROVE i \in S
    <2>1. g[i] = Rerun(g[i - 1], queue[i])
        BY <1>1 DEF Runs, Do
    <2>2. PICK one : one = g[i - 1]
        OBVIOUS
    <2>3. PICK c : c = pass.client
        OBVIOUS
    <2>4. Rerunning(c, one, queue, i - 1, P, ans, ex)
        BY <1>3, <2>2, <2>3
    <2>5. Rerunning(c, Rerun(one, queue[i]), queue, i, P, ans, ex)
        BY <2>4, RerunningSteps
    <2> QED  BY <2>1, <2>2, <2>3, <2>5
<1>4. n \in S
    <2> HIDE DEF S
    <2> QED  BY <1>2, <1>3, Climb
<1> QED  BY <1>1, <1>4

-----------------------------------------------------------------------------
(* Queues get shorter.                                                     *)

Thin(k, queue, left) ==
    /\ DOMAIN k = DOMAIN left /\ Rising(k) /\ IsInjective(k)
    /\ \A i \in DOMAIN left : k[i] \in DOMAIN queue /\ left[i] = queue[k[i]]

Thinned(queue, left) == \E k : Thin(k, queue, left)

ThinQueues(c, d) ==
    /\ IsClient(d) /\ d.tree = c.tree /\ d.nextWriteId = c.nextWriteId /\ d.cache = c.cache
    /\ d.transactions = c.transactions /\ d.outstandingPuts = c.outstandingPuts
    /\ d.requests = c.requests /\ d.connected = c.connected
    /\ d.queues \in [Place -> Seq(Transaction)]
    /\ \A p \in Place : Thinned(c.queues[p], d.queues[p])

LEMMA ThinWaits ==
    ASSUME NEW c, NEW p, NEW queue, Waits(c, queue, p), DOMAIN queue \subseteq Nat,
           NEW left, Thinned(queue, left), DOMAIN left \subseteq Nat
    PROVE  Waits(c, left, p) /\ Range(left) \subseteq Range(queue)
<1>1. PICK k : Thin(k, queue, left)
    BY DEF Thinned
<1>2. /\ DOMAIN k = DOMAIN left
      /\ \A i, j \in DOMAIN left : i < j => k[i] < k[j]
      /\ \A i, j \in DOMAIN left : k[i] = k[j] => i = j
      /\ \A i \in DOMAIN left : k[i] \in DOMAIN queue /\ left[i] = queue[k[i]]
    BY <1>1 DEF Thin, Rising, IsInjective
<1>3. IsInjective(left)
    BY <1>2 DEF Waits, IsInjective
<1>4. Range(left) \subseteq Range(queue)
    BY <1>2 DEF Range
<1>5. \A i, j \in DOMAIN left : i < j /\ Going(c, left[j]) => Going(c, left[i])
    BY <1>2 DEF Waits
<1> QED  BY <1>3, <1>4, <1>5 DEF Waits

LEMMA ThinSound ==
    ASSUME NEW c, NEW d, ThinQueues(c, d), NEW P, NEW ans, NEW ex, Sound(c, P, ans, ex)
    PROVE  /\ Sound(d, P, ans, ex)
           /\ Clean(c) => Clean(d)
           /\ NoneOver(c) => NoneOver(d)
           /\ \A p \in Place : Range(d.queues[p]) \subseteq Range(c.queues[p])
<1>1. Base(c) /\ Accounted(c) /\ Queues(c) /\ Carried(c, P) /\ Truth(c, ex) /\ Served(c, ans, ex)
    BY DEF Sound
<1>2. /\ d.transactions = c.transactions /\ d.outstandingPuts = c.outstandingPuts
      /\ d.requests = c.requests /\ d.connected = c.connected /\ d.tree = c.tree
    BY DEF ThinQueues
<1>3. \A t : Status(d, t) = Status(c, t) /\ (Going(d, t) <=> Going(c, t)) /\ (Open(d, t) <=> Open(c, t))
             /\ (Ready(d, t) <=> Ready(c, t))
    BY <1>2, SameStatus
<1>4. Base(d)
    BY <1>1 DEF ThinQueues, Base, TransactionsOK
<1>5. Accounted(d)
    <2>1. OpenIds(d) = OpenIds(c) /\ (Owners(c) => Owners(d))
        BY <1>2, <1>3 DEF OpenIds, Owners
    <2> QED  BY <1>1, <1>2, <2>1 DEF Accounted
<1>6. ASSUME NEW p \in Place  PROVE Waits(d, d.queues[p], p) /\ Range(d.queues[p]) \subseteq Range(c.queues[p])
    <2>1. DOMAIN c.queues[p] \subseteq Nat /\ DOMAIN d.queues[p] \subseteq Nat
        BY <1>1, <1>4, QueuesAre
    <2>2. Waits(c, d.queues[p], p) /\ Range(d.queues[p]) \subseteq Range(c.queues[p])
        BY <1>1, <2>1, ThinWaits DEF ThinQueues, Queues
    <2>3. Waits(d, d.queues[p], p)
        BY <1>2, <1>3, <2>2 DEF Waits
    <2> QED  BY <2>2, <2>3
<1>7. Queues(d)
    BY <1>6 DEF Queues
<1>8. Carried(d, P)
    <2>1. Puts(d, P) = Puts(c, P)
        BY <1>2 DEF Puts
    <2>2. \A put : InPut(c, put) => InPut(d, put)
        BY <1>2, <1>3 DEF InPut
    <2>3. \A put : Together(c, put) => Together(d, put)
        BY <1>3, <1>6 DEF Together
    <2> QED  BY <1>1, <1>2, <1>3, <2>1, <2>2, <2>3 DEF Carried
<1>9. Truth(d, ex) /\ Served(d, ans, ex)
    BY <1>1, <1>2 DEF Truth, Served
<1>10. (Clean(c) => Clean(d)) /\ (NoneOver(c) => NoneOver(d))
    BY <1>3, <1>6 DEF Clean, NoneOver
<1> QED  BY <1>4, <1>5, <1>6, <1>7, <1>8, <1>9, <1>10 DEF Sound

\* pruneCompletedTransactionsBelowNode
LEMMA PruneThins ==
    ASSUME NEW c, Base(c), NEW path \in Place
    PROVE  /\ ThinQueues(c, Prune(c, path))
           /\ path = Parent => NoneOver(Prune(c, path))
<1>1. PICK L : L = {t \in Transaction : c.transactions[t].status # "completed"}
    OBVIOUS
<1>2. PICK qs : qs = [p \in Place |-> IF Covers(path, p) THEN Among(c.queues[p], L) ELSE c.queues[p]]
    OBVIOUS
<1>3. PICK d : d = Prune(c, path)
    OBVIOUS
<1>4. d = [c EXCEPT !.queues = qs]
    BY <1>1, <1>2, <1>3 DEF Prune
<1>5. IsClient(c)
    BY DEF Base
<1>6. /\ IsClient(d) /\ d.tree = c.tree /\ d.nextWriteId = c.nextWriteId /\ d.cache = c.cache
      /\ d.transactions = c.transactions /\ d.outstandingPuts = c.outstandingPuts
      /\ d.requests = c.requests /\ d.connected = c.connected /\ d.queues = qs
    BY <1>4, <1>5 DEF IsClient
<1>7. ASSUME NEW p \in Place
      PROVE  /\ qs[p] \in Seq(Transaction) /\ Thinned(c.queues[p], qs[p])
             /\ Covers(path, p) => \A t \in Range(qs[p]) : t \in L
    <2>1. IsList(c.queues[p]) /\ DOMAIN c.queues[p] = 1 .. Len(c.queues[p]) /\ c.queues[p] \in Seq(Transaction)
          /\ Range(c.queues[p]) \subseteq Transaction
        BY QueuesAre
    <2>2. CASE Covers(path, p)
        <3>1. PICK left : left = Among(c.queues[p], L)
            OBVIOUS
        <3>2. qs[p] = left
            BY <1>2, <2>2, <3>1
        <3>3. IsList(left)
            BY <2>1, <3>1, AmongKeeps
        <3>4. PICK k : Keeps(k, c.queues[p], L, left)
            BY <2>1, <3>1, AmongKeeps
        <3>5. Thin(k, c.queues[p], left)
            BY <3>4 DEF Keeps, Thin
        <3>6. DOMAIN left = 1 .. Len(left)
            BY <3>3, ListDomain
        <3>7. \A i \in 1 .. Len(left) : left[i] \in L
            BY <3>4, <3>6 DEF Keeps
        <3>8. left \in Seq(Transaction)
            <4>1. \A i \in 1 .. Len(left) : left[i] \in Transaction
                BY <1>1, <3>7
            <4> QED  BY <3>3, <4>1, ListIn
        <3> QED  BY <3>2, <3>5, <3>6, <3>7, <3>8 DEF Thinned, Range
    <2>3. CASE ~Covers(path, p)
        <3>1. qs[p] = c.queues[p]
            BY <1>2, <2>3
        <3>2. PICK k : k = [i \in DOMAIN c.queues[p] |-> i]
            OBVIOUS
        <3>3. Thin(k, c.queues[p], c.queues[p])
            BY <3>2 DEF Thin, Rising, IsInjective
        <3> QED  BY <2>1, <2>3, <3>1, <3>3 DEF Thinned
    <2> QED  BY <2>2, <2>3
<1>8. qs \in [Place -> Seq(Transaction)]
    <2>1. qs = [p \in Place |-> qs[p]]
        BY <1>2
    <2> QED  BY <1>7, <2>1
<1>9. ThinQueues(c, d)
    BY <1>6, <1>7, <1>8 DEF ThinQueues
<1>10. path = Parent => NoneOver(d)
    BY <1>1, <1>6, <1>7 DEF NoneOver, Covers, Status
<1> QED  BY <1>3, <1>9, <1>10

LEMMA PruneSound ==
    ASSUME NEW c, NEW path \in Place, NEW P, NEW ans, NEW ex, Sound(c, P, ans, ex)
    PROVE  /\ Sound(Prune(c, path), P, ans, ex)
           /\ Clean(c) => Clean(Prune(c, path))
           /\ path = Parent => NoneOver(Prune(c, path))
<1>1. Base(c)
    BY DEF Sound
<1>2. ThinQueues(c, Prune(c, path)) /\ (path = Parent => NoneOver(Prune(c, path)))
    BY <1>1, PruneThins
<1> QED  BY <1>2, ThinSound

-----------------------------------------------------------------------------
(* Sending.                                                                *)

LEMMA PutDataIs ==
    ASSUME NEW c, IsClient(c), NEW put
    PROVE  LET d == PutData(c, put)
               sending == [put EXCEPT !.sent = c.connected]
           IN  /\ IsClient(d) /\ d.tree = c.tree /\ d.nextWriteId = c.nextWriteId /\ d.cache = c.cache
               /\ d.transactions = c.transactions /\ d.queues = c.queues /\ d.connected = c.connected
               /\ d.outstandingPuts = Append(c.outstandingPuts, sending)
               /\ d.requests = IF c.connected THEN Append(c.requests, sending) ELSE c.requests
<1>1. PICK sending : sending = [put EXCEPT !.sent = c.connected]
    OBVIOUS
<1>2. PICK puts : puts = Append(c.outstandingPuts, sending)
    OBVIOUS
<1>3. PICK requests : requests = IF c.connected THEN Append(c.requests, sending) ELSE c.requests
    OBVIOUS
<1>4. PICK e : e = [c EXCEPT !.outstandingPuts = puts]
    OBVIOUS
<1>5. PICK d : d = [e EXCEPT !.requests = requests]
    OBVIOUS
<1>6. PutData(c, put) = d
    <2>1. PutData(c, put) = [e EXCEPT !.requests = IF c.connected THEN Append(e.requests, sending) ELSE e.requests]
        BY <1>1, <1>2, <1>4 DEF PutData
    <2>2. e.requests = c.requests
        BY <1>4 DEF IsClient
    <2> QED  BY <1>3, <1>5, <2>1, <2>2
<1>7. /\ IsClient(e) /\ e.tree = c.tree /\ e.nextWriteId = c.nextWriteId /\ e.cache = c.cache
      /\ e.transactions = c.transactions /\ e.queues = c.queues /\ e.connected = c.connected
      /\ e.outstandingPuts = puts
    BY <1>4 DEF IsClient
<1>8. /\ IsClient(d) /\ d.tree = e.tree /\ d.nextWriteId = e.nextWriteId /\ d.cache = e.cache
      /\ d.transactions = e.transactions /\ d.queues = e.queues /\ d.connected = e.connected
      /\ d.outstandingPuts = e.outstandingPuts /\ d.requests = requests
    BY <1>5, <1>7 DEF IsClient
<1> QED  BY <1>1, <1>2, <1>3, <1>6, <1>7, <1>8

\* A put that nothing has been executed of is sent, or waits for a connection.
LEMMA ServedMore ==
    ASSUME NEW c, IsList(c.outstandingPuts), IsList(c.requests), c.connected \in BOOLEAN,
           NEW ans, NEW ex, Served(c, ans, ex),
           NEW put, put.sent = c.connected, Unserved(put, ex),
           NEW d, d.connected = c.connected, d.outstandingPuts = Append(c.outstandingPuts, put),
           d.requests = IF c.connected THEN Append(c.requests, put) ELSE c.requests
    PROVE  Served(d, ans, ex)
<1>1. PICK puts : puts = c.outstandingPuts
    OBVIOUS
<1>2. PICK m \in Nat : m = Len(puts)
    BY <1>1 DEF IsList
<1>3. PICK more : more = Append(puts, put)
    OBVIOUS
<1>4. Len(more) = m + 1 /\ (\A i \in 1 .. m : more[i] = puts[i]) /\ more[m + 1] = put
    BY <1>1, <1>2, <1>3, AppendList
<1>5. \A i \in 1 .. m + 1 : i \in 1 .. m \/ i = m + 1
    OBVIOUS
<1>6. CASE c.connected
    <2>1. PICK n, h, at : Online(puts, c.requests, ans, ex, n, h, at)
        BY <1>1, <1>6 DEF Served, Connected
    <2>2. PICK requests : requests = Append(c.requests, put)
        OBVIOUS
    <2>3. n \in Nat /\ h \in {0, 1} /\ n <= m /\ Len(c.requests) = m - n + h
        BY <1>2, <2>1 DEF Online
    <2>4. /\ Len(requests) = m - n + h + 1 /\ (\A i \in 1 .. m - n + h : requests[i] = c.requests[i])
          /\ requests[m - n + h + 1] = put
        BY <2>2, <2>3, AppendList
    <2>5. Len(requests) = Len(more) - n + h /\ n <= Len(more)
        BY <1>4, <2>3, <2>4
    <2>6. h = 1 => requests[1].type = "listen"
        BY <2>1, <2>3, <2>4 DEF Online
    <2>7. \A i \in 1 .. n : Fits(more[i], ans[at[i]].status, ex)
        BY <1>4, <2>1, <2>3 DEF Online
    <2>8. ASSUME NEW i \in n + 1 .. Len(more)  PROVE requests[h + i - n] = more[i] /\ Unserved(more[i], ex)
        <3>1. CASE i = m + 1
            <4>1. h + i - n = m - n + h + 1
                BY <2>3, <3>1
            <4> QED  BY <1>4, <2>4, <3>1, <4>1
        <3>2. CASE i # m + 1
            <4>1. i \in n + 1 .. m /\ i \in 1 .. m /\ h + i - n \in 1 .. m - n + h
                BY <1>4, <2>3, <3>2
            <4>2. c.requests[h + i - n] = puts[i] /\ Unserved(puts[i], ex)
                BY <1>2, <2>1, <4>1 DEF Online
            <4> QED  BY <1>4, <2>4, <4>1, <4>2
        <3> QED  BY <3>1, <3>2
    <2>9. \A i \in 1 .. Len(more) : more[i].sent
        BY <1>2, <1>4, <1>5, <1>6, <2>1 DEF Online
    <2>10. Online(more, requests, ans, ex, n, h, at)
        BY <2>1, <2>3, <2>5, <2>6, <2>7, <2>8, <2>9 DEF Online
    <2>11. d.requests = requests /\ d.outstandingPuts = more /\ d.connected
        BY <1>1, <1>3, <1>6, <2>2
    <2> QED  BY <2>10, <2>11 DEF Served, Connected
<1>7. CASE ~c.connected
    <2>1. Offline(puts, c.requests, ans, ex)
        BY <1>1, <1>7 DEF Served
    <2>2. Offline(more, c.requests, ans, ex)
        BY <1>2, <1>4, <1>5, <1>7, <2>1 DEF Offline
    <2>3. d.requests = c.requests /\ d.outstandingPuts = more /\ ~d.connected
        BY <1>1, <1>3, <1>7
    <2> QED  BY <2>2, <2>3 DEF Served
<1> QED  BY <1>6, <1>7

\* buildTransactionQueueAtNode
LEMMA QueueAtIs ==
    ASSUME TransactionsAssumption, NEW c, Base(c), NEW path \in Place
    PROVE  LET queue == QueueAt(c, path) IN
           /\ queue \in Seq(Transaction) /\ IsInjective(queue)
           /\ \A t : t \in Range(queue) <=> \E p \in Place : Covers(path, p) /\ t \in Range(c.queues[p])
<1>1. PICK S : S = UNION {Range(c.queues[p]) : p \in {q \in Place : Covers(path, q)}}
    OBVIOUS
<1>2. \A p \in Place : Range(c.queues[p]) \subseteq Transaction
    BY QueuesAre
<1>3. S \subseteq Transaction
    BY <1>1, <1>2
<1>4. S \in SUBSET Nat /\ IsFiniteSet(S)
    <2>1. MaxTransactions \in Nat
        BY DEF TransactionsAssumption
    <2>2. IsFiniteSet(Transaction) /\ Transaction \subseteq Nat
        BY <2>1, FS_Interval DEF Transaction
    <2> QED  BY <1>3, <2>2, FS_Subset
<1>5. PICK queue : queue = InOrder(S)
    OBVIOUS
<1>6. queue \in Seq(S) /\ IsInjective(queue) /\ Range(queue) = S
    BY <1>4, <1>5, InOrderList
<1>7. queue \in Seq(Transaction)
    <2>1. IsList(queue) /\ \A i \in 1 .. Len(queue) : queue[i] \in S
        BY <1>6, SeqIsList
    <2>2. \A i \in 1 .. Len(queue) : queue[i] \in Transaction
        BY <1>3, <2>1
    <2> QED  BY <2>1, <2>2, ListIn
<1>8. QueueAt(c, path) = queue
    BY <1>1, <1>5 DEF QueueAt
<1>9. \A t : t \in S <=> \E p \in Place : Covers(path, p) /\ t \in Range(c.queues[p])
    BY <1>1
<1> QED  BY <1>6, <1>7, <1>8, <1>9

\* The outputs over the latest state are data of children.
LEMMA OutputsAreData ==
    ASSUME NEW latest, DOMAIN latest \subseteq Child, NEW n \in Nat, NEW outputs, DOMAIN outputs = 1 .. n,
           \A i \in 1 .. n : DOMAIN outputs[i] \subseteq Child
    PROVE  DOMAIN FoldLeft(Shadow, latest, outputs) \subseteq Child
<1>1. PICK g : Runs(g, "data", latest, n, outputs) /\ FoldLeft(Shadow, latest, outputs) = g[n]
    BY DataFold
<1> DEFINE S == {i \in 0 .. n : DOMAIN g[i] \subseteq Child}
<1>2. 0 \in S
    BY <1>1 DEF Runs
<1>3. ASSUME NEW i \in 1 .. n, i - 1 \in S  PROVE i \in S
    <2>1. g[i] = Shadow(g[i - 1], outputs[i])
        BY <1>1 DEF Runs, Do
    <2>2. DOMAIN g[i] = DOMAIN g[i - 1] \cup DOMAIN outputs[i]
        BY <2>1 DEF Shadow
    <2> QED  BY <1>3, <2>2
<1>4. n \in S
    <2> HIDE DEF S
    <2> QED  BY <1>2, <1>3, Climb
<1> QED  BY <1>1, <1>4

\* The transactions of a queue are on their way, in a new put.
SentQueue(c, d, queue, path, put) ==
    /\ IsClient(d) /\ d.tree = c.tree /\ d.nextWriteId = c.nextWriteId /\ d.cache = c.cache
    /\ d.queues = c.queues /\ d.connected = c.connected
    /\ d.transactions = [t \in Transaction |-> d.transactions[t]]
    /\ \A t \in Transaction : t \notin Range(queue) => d.transactions[t] = c.transactions[t]
    /\ \A t \in Range(queue) :
          d.transactions[t] = SentAgain(c.transactions[t])
    /\ IsPut(put) /\ put.type = "transaction" /\ put.queue = queue /\ put.path = path
    /\ put.sent = c.connected
    /\ d.outstandingPuts = Append(c.outstandingPuts, put)
    /\ d.requests = IF c.connected THEN Append(c.requests, put) ELSE c.requests

LEMMA SendIs ==
    ASSUME WriteTreeAssumption, NEW c, Base(c), NEW path \in Place, NEW queue \in Seq(Transaction),
           IsInjective(queue)
    PROVE  \E put : SentQueue(c, SendTransactionQueue(c, queue, path), queue, path, put)
<1>1. PICK latest : latest = LatestState(c, path, WriteIdsOf(c, queue))
    OBVIOUS
<1>2. PICK outputs : outputs = [i \in DOMAIN queue |-> c.transactions[queue[i]].output]
    OBVIOUS
<1>3. PICK data : data = FoldLeft(Shadow, latest, outputs)
    OBVIOUS
<1>4. PICK txs : txs = [t \in Transaction |->
                           IF t \in Range(queue) THEN SentAgain(c.transactions[t]) ELSE c.transactions[t]]
    OBVIOUS
<1>5. PICK e : e = [c EXCEPT !.transactions = txs]
    OBVIOUS
<1>6. PICK put : put = [type |-> "transaction", path |-> path, data |-> data, hash |-> latest,
                        queue |-> queue, id |-> 0, sent |-> FALSE]
    OBVIOUS
<1>7. PICK sending : sending = [put EXCEPT !.sent = e.connected]
    OBVIOUS
<1>8. PICK d : d = SendTransactionQueue(c, queue, path)
    OBVIOUS
<1>9. d = PutData(e, put)
    <2>1. SendTransactionQueue(c, queue, path) =
             PutData([c EXCEPT !.transactions = txs],
                     [type |-> "transaction", path |-> path, data |-> FoldLeft(Shadow, latest, outputs),
                      hash |-> latest, queue |-> queue, id |-> 0, sent |-> FALSE])
        BY <1>1, <1>2, <1>4 DEF SendTransactionQueue
    <2> QED  BY <1>3, <1>5, <1>6, <1>8, <2>1
<1>10. IsClient(c)
    BY DEF Base
<1>11. /\ IsClient(e) /\ e.tree = c.tree /\ e.nextWriteId = c.nextWriteId /\ e.cache = c.cache
       /\ e.queues = c.queues /\ e.connected = c.connected /\ e.transactions = txs
       /\ e.outstandingPuts = c.outstandingPuts /\ e.requests = c.requests
    BY <1>5, <1>10 DEF IsClient
<1>12. /\ IsClient(d) /\ d.tree = e.tree /\ d.nextWriteId = e.nextWriteId /\ d.cache = e.cache
       /\ d.transactions = e.transactions /\ d.queues = e.queues /\ d.connected = e.connected
       /\ d.outstandingPuts = Append(e.outstandingPuts, sending)
       /\ d.requests = IF e.connected THEN Append(e.requests, sending) ELSE e.requests
    BY <1>7, <1>9, <1>11, PutDataIs
<1>13. DOMAIN data \subseteq Child
    <2>1. DOMAIN latest \subseteq Child
        <3>1. DOMAIN latest = Under(path)
            BY <1>1 DEF LatestState, CompleteEventCache, Restrict
        <3> QED  BY <3>1, UnderChild
    <2>2. PICK n \in Nat : DOMAIN queue = 1 .. n
        BY SeqIsList, ListDomain
    <2>3. \A i \in 1 .. n : queue[i] \in Transaction
        BY <2>2
    <2>4. DOMAIN outputs = 1 .. n /\ \A i \in 1 .. n : DOMAIN outputs[i] \subseteq Child
        BY <1>2, <2>2, <2>3 DEF Base, TransactionsOK, IsTransaction
    <2> QED  BY <1>3, <2>1, <2>2, <2>4, OutputsAreData
<1>14. /\ IsPut(sending) /\ sending.type = "transaction" /\ sending.queue = queue /\ sending.path = path
       /\ sending.sent = c.connected
    BY <1>6, <1>7, <1>11, <1>13 DEF IsPut
<1>15. \A t \in Range(queue) : t \in Transaction
    BY SeqIsList DEF Range
<1>16. /\ \A t \in Transaction : t \notin Range(queue) => d.transactions[t] = c.transactions[t]
       /\ \A t \in Range(queue) :
             d.transactions[t] = SentAgain(c.transactions[t])
       /\ d.transactions = [t \in Transaction |-> d.transactions[t]]
    <2>1. d.transactions = txs /\ txs = [t \in Transaction |-> txs[t]]
        BY <1>4, <1>11, <1>12
    <2>2. \A t \in Transaction : t \notin Range(queue) => txs[t] = c.transactions[t]
        BY <1>4
    <2>3. \A t \in Transaction : t \in Range(queue) =>
             txs[t] = SentAgain(c.transactions[t])
        BY <1>4
    <2> QED  BY <1>15, <2>1, <2>2, <2>3
<1>17. SentQueue(c, d, queue, path, sending)
    BY <1>11, <1>12, <1>14, <1>16 DEF SentQueue
<1> QED  BY <1>8, <1>17

LEMMA SentSettled ==
    ASSUME WriteTreeAssumption, TransactionsAssumption,
           NEW c, NEW P, NEW ans, NEW ex, Settled(c, P, ans, ex), NEW path \in Place,
           NEW queue, queue = QueueAt(c, path), AllRun(c, queue),
           NEW d, NEW new, SentQueue(c, d, queue, path, new)
    PROVE  Settled(d, P, ans, ex)
<1>1. /\ Base(c) /\ Accounted(c) /\ Queues(c) /\ Carried(c, P) /\ Truth(c, ex) /\ Served(c, ans, ex)
      /\ Clean(c) /\ NoneOver(c)
    BY DEF Settled, Sound
<1>2. /\ queue \in Seq(Transaction) /\ IsInjective(queue)
      /\ \A t : t \in Range(queue) <=> \E p \in Place : Covers(path, p) /\ t \in Range(c.queues[p])
    BY <1>1, QueueAtIs
<1>3. \A t \in Range(queue) : t \in Transaction
    BY <1>2, SeqIsList DEF Range
<1>4. ASSUME NEW t \in Range(queue)
      PROVE  /\ Status(c, t) = "run" /\ c.transactions[t].retryCount < MaxRetries
             /\ Covers(path, c.transactions[t].path) /\ c.transactions[t].path \in Place
             /\ t \in Range(c.queues[c.transactions[t].path])
    <2>1. PICK p \in Place : Covers(path, p) /\ t \in Range(c.queues[p])
        BY <1>2
    <2>2. c.transactions[t].path = p
        BY <1>1, <2>1 DEF Queues, Waits
    <2>3. Status(c, t) = "run"
        BY DEF AllRun, Status
    <2>4. c.transactions[t].retryCount < MaxRetries
        BY <1>1, <2>1, <2>3 DEF Clean, Ready
    <2> QED  BY <2>1, <2>2, <2>3, <2>4
<1>5. ASSUME NEW t \in Range(queue)
      PROVE  /\ IsTransaction(d.transactions[t]) /\ d.transactions[t].path = c.transactions[t].path
             /\ Status(d, t) = "sent" /\ d.transactions[t].currentWriteId = c.transactions[t].currentWriteId
    <2>1. PICK tx : tx = c.transactions[t]
        OBVIOUS
    <2>2. IsTransaction(tx) /\ tx.retryCount < MaxRetries /\ MaxRetries \in Nat
        BY <1>1, <1>3, <1>4, <2>1 DEF Base, TransactionsOK, TransactionsAssumption
    <2>3. d.transactions[t] = [tx EXCEPT !.status = "sent", !.retryCount = tx.retryCount + 1]
        BY <2>1 DEF SentQueue, SentAgain
    <2>4. PICK one : one = [tx EXCEPT !.status = "sent"]
        OBVIOUS
    <2>5. /\ one.path = tx.path /\ one.status = "sent" /\ one.currentWriteId = tx.currentWriteId
          /\ one.output = tx.output /\ one.retryCount = tx.retryCount
          /\ one = [path |-> one.path, status |-> one.status, applyLocally |-> one.applyLocally,
                    retryCount |-> one.retryCount, currentWriteId |-> one.currentWriteId,
                    output |-> one.output, outcome |-> one.outcome]
        BY <2>2, <2>4 DEF IsTransaction
    <2>6. d.transactions[t] = [one EXCEPT !.retryCount = tx.retryCount + 1]
        BY <2>3, <2>4
    <2>7. tx.retryCount + 1 \in 0 .. MaxRetries /\ tx.path \in Place /\ DOMAIN tx.output \subseteq Child
        BY <2>2 DEF IsTransaction
    <2> QED  BY <2>1, <2>5, <2>6, <2>7 DEF IsTransaction, Status, Statuses
<1>6. \A t \in Transaction : t \notin Range(queue) => d.transactions[t] = c.transactions[t] /\ Status(d, t) = Status(c, t)
    BY DEF SentQueue, Status
<1>7. \A t \in Transaction :
         /\ d.transactions[t].path = c.transactions[t].path
         /\ d.transactions[t].currentWriteId = c.transactions[t].currentWriteId
         /\ Open(d, t) <=> Open(c, t)
         /\ Going(d, t) <=> Going(c, t) \/ t \in Range(queue)
    BY <1>4, <1>5, <1>6 DEF Open, Going
<1>8. /\ d.tree = c.tree /\ d.queues = c.queues /\ d.connected = c.connected
      /\ d.outstandingPuts = Append(c.outstandingPuts, new)
      /\ IsPut(new) /\ new.type = "transaction" /\ new.queue = queue /\ new.path = path
    BY DEF SentQueue
<1>9. PICK puts : puts = c.outstandingPuts
    OBVIOUS
<1>10. PICK m \in Nat : m = Len(puts)
    BY <1>1, <1>9 DEF Base, IsList
<1>11. PICK more : more = d.outstandingPuts
    OBVIOUS
<1>12. IsList(more) /\ Len(more) = m + 1 /\ (\A i \in 1 .. m : more[i] = puts[i]) /\ more[m + 1] = new
    BY <1>1, <1>8, <1>9, <1>10, <1>11, AppendList DEF Base
<1>13. \A i \in 1 .. m + 1 : i \in 1 .. m \/ i = m + 1
    OBVIOUS
<1>14. Range(more) = Range(puts) \cup {new}
    <2>1. DOMAIN more = 1 .. m + 1 /\ DOMAIN puts = 1 .. m
        BY <1>1, <1>9, <1>10, <1>12, ListDomain DEF Base
    <2>2. \A i \in 1 .. m : i \in 1 .. m + 1
        OBVIOUS
    <2>3. m + 1 \in 1 .. m + 1
        OBVIOUS
    <2> QED  BY <1>12, <1>13, <2>1, <2>2, <2>3 DEF Range
<1>15. Base(d)
    <2>1. TransactionsOK(d)
        BY <1>1, <1>5, <1>6 DEF SentQueue, TransactionsOK, Base
    <2>2. IsList(d.requests)
        <3>1. IsList(c.requests) /\ IsList(Append(c.requests, new))
            BY <1>1, AppendList DEF Base
        <3> QED  BY <3>1 DEF SentQueue
    <2> QED  BY <1>1, <1>11, <1>12, <2>1, <2>2 DEF Base, SentQueue
<1>16. Accounted(d)
    <2>1. OpenIds(d) = OpenIds(c) /\ (Owners(c) => Owners(d))
        BY <1>7 DEF OpenIds, Owners
    <2>2. SetIds(more) = SetIds(puts)
        BY <1>8, <1>14 DEF SetIds
    <2>3. OwnSets(puts) => OwnSets(more)
        BY <1>8, <1>10, <1>12, <1>13 DEF OwnSets
    <2> QED  BY <1>1, <1>8, <1>9, <1>11, <2>1, <2>2, <2>3 DEF Accounted
<1>17. \A p \in Place : Range(c.queues[p]) \subseteq Transaction
    BY <1>1, QueuesAre
<1>18. \A p \in Place : \A t \in Range(c.queues[p]) :
          t \in Range(queue) => \A u \in Range(c.queues[p]) : u \in Range(queue)
    <2> SUFFICES ASSUME NEW p \in Place, NEW t \in Range(c.queues[p]), t \in Range(queue),
                        NEW u \in Range(c.queues[p])
                 PROVE  u \in Range(queue)
        OBVIOUS
    <2>1. c.transactions[t].path = p
        BY <1>1 DEF Queues, Waits
    <2>2. Covers(path, p)
        BY <1>4, <2>1
    <2> QED  BY <1>2, <2>2
<1>19. Queues(d)
    <2> SUFFICES ASSUME NEW p \in Place  PROVE Waits(d, c.queues[p], p)
        BY <1>8 DEF Queues
    <2>1. Waits(c, c.queues[p], p)
        BY <1>1 DEF Queues
    <2>2. \A t \in Range(c.queues[p]) : d.transactions[t].path = p /\ Status(d, t) # "new"
        BY <1>5, <1>6, <1>7, <1>17, <2>1 DEF Waits
    <2>3. \A i \in DOMAIN c.queues[p] : c.queues[p][i] \in Range(c.queues[p])
        BY DEF Range
    <2>4. \A i, j \in DOMAIN c.queues[p] : i < j /\ Going(d, c.queues[p][j]) => Going(d, c.queues[p][i])
        <3> SUFFICES ASSUME NEW i \in DOMAIN c.queues[p], NEW j \in DOMAIN c.queues[p], i < j,
                            Going(d, c.queues[p][j])
                     PROVE  Going(d, c.queues[p][i])
            OBVIOUS
        <3>1. c.queues[p][i] \in Transaction /\ c.queues[p][j] \in Transaction
            BY <1>17, <2>3
        <3>2. Going(c, c.queues[p][j]) => Going(c, c.queues[p][i])
            BY <2>1 DEF Waits
        <3> QED  BY <1>7, <1>18, <2>3, <3>1, <3>2
    <2> QED  BY <2>1, <2>2, <2>4 DEF Waits
<1>20. \A t \in Transaction : Going(c, t) => t \notin Range(queue)
    BY <1>4 DEF Going
<1>21. ASSUME NEW put \in Puts(c, P)
       PROVE  IsPut(put) /\ InPut(d, put) /\ Together(d, put) /\ Apart(put, new) /\ Apart(new, put)
    <2>1. IsPut(put) /\ InPut(c, put) /\ Together(c, put)
        BY <1>1 DEF Carried
    <2>2. Range(put.queue) \subseteq Transaction
        BY <2>1, PutQueuesAre
    <2>3. InPut(d, put)
        BY <1>7, <2>1, <2>2 DEF InPut
    <2>4. \A t \in Range(put.queue) : t \notin Range(queue)
        BY <1>20, <2>1, <2>2 DEF InPut
    <2>5. Apart(put, new) /\ Apart(new, put)
        BY <1>8, <2>4 DEF Apart, Carries
    <2>6. Together(d, put)
        <3> SUFFICES ASSUME NEW p \in Place, NEW t \in Range(c.queues[p]), NEW u \in Range(c.queues[p]),
                            Going(d, t), Going(d, u), Carries(put, t)
                     PROVE  Carries(put, u)
            BY <1>8 DEF Together
        <3>1. t \in Transaction /\ u \in Transaction
            BY <1>17
        <3>2. Going(c, t) /\ t \notin Range(queue)
            BY <2>1, <2>4 DEF InPut, Carries
        <3>3. Going(c, u)
            BY <1>7, <1>18, <3>1, <3>2
        <3> QED  BY <2>1, <3>2, <3>3 DEF Together
    <2> QED  BY <2>1, <2>3, <2>5, <2>6
<1>22. InPut(d, new) /\ Together(d, new)
    <2>1. InPut(d, new)
        BY <1>3, <1>4, <1>7, <1>8 DEF InPut
    <2>2. Together(d, new)
        BY <1>8, <1>18 DEF Together, Carries
    <2> QED  BY <2>1, <2>2
<1>23. Carried(d, P)
    <2>1. Puts(d, P) = Puts(c, P) \cup {new}
        BY <1>9, <1>11, <1>14 DEF Puts
    <2>2. \A put \in Puts(d, P) : IsPut(put) /\ InPut(d, put) /\ Together(d, put)
        BY <1>8, <1>21, <1>22, <2>1
    <2>3. \A t \in Transaction : Going(d, t) => \E put \in Puts(d, P) : Carries(put, t)
        BY <1>1, <1>7, <1>8, <2>1 DEF Carried, Carries
    <2>4. \A i \in 1 .. m : puts[i] \in Puts(c, P)
        BY <1>1, <1>9, <1>10, ListDomain DEF Puts, Range, Base
    <2>5. \A i, j \in 1 .. m + 1 : i # j => Apart(more[i], more[j])
        BY <1>1, <1>9, <1>10, <1>12, <1>13, <1>21, <2>4 DEF Carried
    <2>6. \A put \in Range(more) : \A q \in P : Apart(put, q)
        BY <1>1, <1>9, <1>14, <1>21 DEF Carried, Puts
    <2>7. \A put, q \in P : put # q => Apart(put, q)
        BY <1>1 DEF Carried
    <2> QED  BY <1>11, <1>12, <2>2, <2>3, <2>5, <2>6, <2>7 DEF Carried
<1>24. Truth(d, ex)
    <2> SUFFICES ASSUME NEW t \in Transaction  PROVE TruthOf(d.transactions[t], ex[t])
        BY DEF Truth
    <2>1. TruthOf(c.transactions[t], ex[t])
        BY <1>1 DEF Truth
    <2>2. t \in Range(queue) => c.transactions[t].status = "run" /\ d.transactions[t].status = "sent"
        BY <1>4, <1>5 DEF Status
    <2> QED  BY <1>6, <2>1, <2>2 DEF TruthOf
<1>25. Served(d, ans, ex)
    <2>1. Unserved(new, ex)
        BY <1>1, <1>3, <1>4, <1>8 DEF Unserved, Truth, TruthOf, Status
    <2> QED  BY <1>1, <2>1, ServedMore DEF SentQueue, Base
<1>26. Clean(d) /\ NoneOver(d)
    <2> SUFFICES ASSUME NEW p \in Place, NEW t \in Range(c.queues[p])
                 PROVE  Ready(d, t) /\ Status(d, t) # "completed"
        BY <1>8 DEF Clean, NoneOver
    <2>1. Ready(c, t) /\ Status(c, t) # "completed"
        BY <1>1 DEF Clean, NoneOver
    <2> QED  BY <1>5, <1>6, <1>17, <2>1 DEF Ready
<1> QED  BY <1>15, <1>16, <1>19, <1>23, <1>24, <1>25, <1>26 DEF Settled, Sound

LEMMA SendReadySettled ==
    ASSUME WriteTreeAssumption, TransactionsAssumption,
           NEW c, NEW P, NEW ans, NEW ex, Settled(c, P, ans, ex), NEW path \in Place
    PROVE  Settled(SendReady(c, path), P, ans, ex)
<1>1. PICK queue : queue = QueueAt(c, path)
    OBVIOUS
<1>2. Base(c)
    BY DEF Settled, Sound
<1>3. queue \in Seq(Transaction) /\ IsInjective(queue)
    BY <1>1, <1>2, QueueAtIs
<1>4. PICK d : d = SendTransactionQueue(c, queue, path)
    OBVIOUS
<1>5. PICK put : SentQueue(c, d, queue, path, put)
    BY <1>2, <1>3, <1>4, SendIs
<1>6. SendReady(c, path) = c \/ (AllRun(c, queue) /\ SendReady(c, path) = d)
    BY <1>1, <1>4 DEF SendReady
<1>7. AllRun(c, queue) => Settled(d, P, ans, ex)
    BY <1>1, <1>5, SentSettled
<1> QED  BY <1>6, <1>7

LEMMA ChildFinite ==
    ASSUME WriteTreeAssumption
    PROVE  \E n \in Nat : SetToSeq(Child) \in [1 .. n -> Child]
BY SetToSeqLists DEF WriteTreeAssumption

LEMMA SendAllSettled ==
    ASSUME WriteTreeAssumption, TransactionsAssumption,
           NEW c, NEW P, NEW ans, NEW ex, Sound(c, P, ans, ex), Clean(c)
    PROVE  Settled(SendAllReadyTransactions(c), P, ans, ex)
<1>1. PICK d : d = Prune(c, Parent)
    OBVIOUS
<1>2. Parent \in Place /\ \A x \in Child : x \in Place
    BY DEF Place
<1>3. Settled(d, P, ans, ex)
    BY <1>1, <1>2, PruneSound DEF Settled
<1>4. PICK n \in Nat : SetToSeq(Child) \in [1 .. n -> Child]
    BY ChildFinite
<1>5. PICK order : order = SetToSeq(Child)
    OBVIOUS
<1>6. PICK g : Runs(g, "send", d, n, order) /\ FoldLeft(SendReady, d, order) = g[n]
    BY <1>4, <1>5, SendFold
<1> DEFINE S == {i \in 0 .. n : Settled(g[i], P, ans, ex)}
<1>7. 0 \in S
    BY <1>3, <1>6 DEF Runs
<1>8. ASSUME NEW i \in 1 .. n, i - 1 \in S  PROVE i \in S
    <2>1. g[i] = SendReady(g[i - 1], order[i])
        BY <1>6 DEF Runs, Do
    <2>2. order[i] \in Place
        BY <1>2, <1>4, <1>5
    <2>3. Settled(SendReady(g[i - 1], order[i]), P, ans, ex)
        BY <1>8, <2>2, SendReadySettled
    <2> QED  BY <2>1, <2>3
<1>9. n \in S
    <2> HIDE DEF S
    <2> QED  BY <1>7, <1>8, Climb
<1>10. Settled(g[n], P, ans, ex)
    BY <1>9
<1>11. Settled(SendReady(d, Parent), P, ans, ex)
    BY <1>2, <1>3, SendReadySettled
<1>12. \/ SendAllReadyTransactions(c) = SendReady(d, Parent)
       \/ SendAllReadyTransactions(c) = g[n]
    <2>1. SendAllReadyTransactions(c) =
             IF d.queues[Parent] # <<>> THEN SendReady(d, Parent) ELSE FoldLeft(SendReady, d, order)
        BY <1>1, <1>5 DEF SendAllReadyTransactions
    <2> QED  BY <1>6, <2>1
<1> QED  BY <1>10, <1>11, <1>12

-----------------------------------------------------------------------------
(* Running the transactions for a path again.                              *)

\* What there is to be done about what waits is at or below the path.
Unsettled(c, path, P, ans, ex) ==
    /\ Sound(c, P, ans, ex) /\ NoneOver(c)
    /\ \A p \in Place : \A t \in Range(c.queues[p]) : Ready(c, t) \/ Covers(path, p)

LEMMA SettledUnsettled ==
    ASSUME NEW c, NEW P, NEW ans, NEW ex, Settled(c, P, ans, ex), NEW path
    PROVE  Unsettled(c, path, P, ans, ex)
BY DEF Settled, Unsettled, Clean

LEMMA RerunForPathSettles ==
    ASSUME WriteTreeAssumption, TransactionsAssumption,
           NEW c, NEW P, NEW ans, NEW ex, NEW path \in Place, Unsettled(c, path, P, ans, ex)
    PROVE  Settled(RerunTransactionsForPath(c, path), P, ans, ex)
<1>1. PICK node : node = AncestorNode(c, path)
    OBVIOUS
<1>2. node \in Place /\ (node = path \/ node = Parent)
    BY <1>1 DEF AncestorNode, Place
<1>3. \A p \in Place : Covers(path, p) => Covers(node, p)
    BY <1>2 DEF Covers
<1>4. PICK queue : queue = QueueAt(c, node)
    OBVIOUS
<1>5. Base(c) /\ Sound(c, P, ans, ex) /\ NoneOver(c)
    BY DEF Unsettled, Sound
<1>6. /\ queue \in Seq(Transaction)
      /\ \A t : t \in Range(queue) <=> \E p \in Place : Covers(node, p) /\ t \in Range(c.queues[p])
    BY <1>2, <1>4, <1>5, QueueAtIs
<1>7. \A p \in Place : \A t \in Range(c.queues[p]) : Ready(c, t) \/ t \in Range(queue)
    BY <1>3, <1>6 DEF Unsettled
<1>8. CASE QueueTreeIsEmpty(c)
    <2>1. RerunTransactionsForPath(c, path) = c
        BY <1>8 DEF RerunTransactionsForPath
    <2>2. \A p \in Place : Range(c.queues[p]) = {}
        BY <1>8 DEF QueueTreeIsEmpty, Range
    <2>3. Clean(c)
        BY <2>2 DEF Clean
    <2> QED  BY <1>5, <2>1, <2>3 DEF Settled
<1>9. CASE ~QueueTreeIsEmpty(c) /\ queue = <<>>
    <2>1. RerunTransactionsForPath(c, path) = c
        BY <1>1, <1>4, <1>9 DEF RerunTransactionsForPath, RerunTransactionQueue
    <2>2. Range(queue) = {}
        BY <1>9 DEF Range
    <2>3. Clean(c)
        BY <1>7, <2>2 DEF Clean
    <2> QED  BY <1>5, <2>1, <2>3 DEF Settled
<1>10. CASE ~QueueTreeIsEmpty(c) /\ queue # <<>>
    <2>1. PICK pass : pass = [client |-> c, excluded |-> WriteIdsOf(c, queue), first |-> TRUE]
        OBVIOUS
    <2>2. IsPass(pass) /\ pass.client = c
        BY <2>1 DEF IsPass
    <2>3. PICK last : last = FoldLeft(Rerun, pass, queue)
        OBVIOUS
    <2>4. PICK d : d = last.client
        OBVIOUS
    <2>5. RerunTransactionsForPath(c, path) = SendAllReadyTransactions(d)
        BY <1>1, <1>4, <1>10, <2>1, <2>3, <2>4 DEF RerunTransactionsForPath, RerunTransactionQueue
    <2>6. PICK n \in Nat : DOMAIN queue = 1 .. n
        BY <1>6, SeqIsList, ListDomain
    <2>7. \A i \in 1 .. n : queue[i] \in Transaction
        BY <1>6, <2>6
    <2>8. Rerunning(c, last, queue, n, P, ans, ex)
        BY <1>5, <2>2, <2>3, <2>6, <2>7, RerunQueue
    <2>9. /\ Sound(d, P, ans, ex) /\ KeepsGoing(c, d)
          /\ \A j \in 1 .. n : Ready(d, queue[j])
          /\ \A t \in Transaction : (\A j \in 1 .. n : queue[j] # t) => d.transactions[t] = c.transactions[t]
        BY <2>4, <2>8 DEF Rerunning
    <2>10. Clean(d)
        <3> SUFFICES ASSUME NEW p \in Place, NEW t \in Range(d.queues[p])  PROVE Ready(d, t)
            BY DEF Clean
        <3>1. t \in Range(c.queues[p])
            BY <2>9 DEF KeepsGoing, KeepsPlaces
        <3>2. t \in Transaction
            BY <1>5, <3>1, QueuesAre
        <3>3. CASE \E j \in 1 .. n : queue[j] = t
            BY <2>9, <3>3
        <3>4. CASE \A j \in 1 .. n : queue[j] # t
            <4>1. t \notin Range(queue)
                BY <2>6, <3>4 DEF Range
            <4>2. Ready(c, t)
                BY <1>7, <3>1, <4>1
            <4> QED  BY <2>9, <3>2, <3>4, <4>2 DEF Ready, Status
        <3> QED  BY <3>3, <3>4
    <2> QED  BY <2>5, <2>9, <2>10, SendAllSettled
<1> QED  BY <1>8, <1>9, <1>10

LEMMA RerunIfChangedSettled ==
    ASSUME WriteTreeAssumption, TransactionsAssumption,
           NEW c, NEW P, NEW ans, NEW ex, NEW path \in Place, Settled(c, P, ans, ex)
    PROVE  Settled(RerunIfChanged(c, path), P, ans, ex)
<1>1. PICK d : d = ForgetEvents(c)
    OBVIOUS
<1>2. PICK e : e = RerunTransactionsForPath(d, path)
    OBVIOUS
<1>3. IsClient(c)
    BY DEF Settled, Sound, Base
<1>4. Settled(d, P, ans, ex)
    BY <1>1, <1>3, RaiseKeeps, SameSound
<1>5. Settled(e, P, ans, ex)
    BY <1>2, <1>4, SettledUnsettled, RerunForPathSettles
<1>6. IsClient(e)
    BY <1>5 DEF Settled, Sound, Base
<1>7. Settled(Raise(e, c.events), P, ans, ex)
    BY <1>5, <1>6, RaiseKeeps, SameSound
<1>8. RerunIfChanged(c, path) = c \/ RerunIfChanged(c, path) = Raise(e, c.events)
    BY <1>1, <1>2 DEF RerunIfChanged
<1> QED  BY <1>7, <1>8

-----------------------------------------------------------------------------
(* Answers.                                                                *)

\* The transactions of a put are no longer on their way.
Returned(c, d, put) ==
    /\ KeepsPlaces(c, d)
    /\ \A t \in Transaction :
          /\ d.transactions[t].path = c.transactions[t].path
          /\ Going(d, t) <=> Going(c, t) /\ t \notin Range(put.queue)
          /\ Status(d, t) = "new" <=> Status(c, t) = "new"

LEMMA ReturnedPlaces ==
    ASSUME NEW c, Base(c), NEW P, Queues(c), Carried(c, P), NEW put \in P,
           NEW d, Returned(c, d, put)
    PROVE  Queues(d) /\ Carried(d, P \ {put})
<1>1. d.queues = c.queues /\ d.outstandingPuts = c.outstandingPuts
    BY DEF Returned, KeepsPlaces
<1>2. \A t \in Transaction : /\ d.transactions[t].path = c.transactions[t].path
                             /\ Going(d, t) <=> Going(c, t) /\ t \notin Range(put.queue)
                             /\ Status(d, t) = "new" <=> Status(c, t) = "new"
    BY DEF Returned
<1>3. \A p \in Place : Range(c.queues[p]) \subseteq Transaction
    BY QueuesAre
<1>4. IsPut(put) /\ Together(c, put) /\ put \in Puts(c, P)
    BY DEF Carried, Puts
<1>5. Queues(d)
    <2> SUFFICES ASSUME NEW p \in Place  PROVE Waits(d, c.queues[p], p)
        BY <1>1 DEF Queues
    <2>1. Waits(c, c.queues[p], p)
        BY DEF Queues
    <2>2. \A t \in Range(c.queues[p]) : d.transactions[t].path = p /\ Status(d, t) # "new"
        BY <1>2, <1>3, <2>1 DEF Waits
    <2>3. \A i \in DOMAIN c.queues[p] : c.queues[p][i] \in Range(c.queues[p])
        BY DEF Range
    <2>4. ASSUME NEW i \in DOMAIN c.queues[p], NEW j \in DOMAIN c.queues[p], i < j,
                 Going(d, c.queues[p][j])
          PROVE  Going(d, c.queues[p][i])
        <3>1. c.queues[p][i] \in Transaction /\ c.queues[p][j] \in Transaction
            BY <1>3, <2>3
        <3>2. Going(c, c.queues[p][j]) /\ ~Carries(put, c.queues[p][j])
            BY <1>2, <2>4, <3>1 DEF Carries
        <3>3. Going(c, c.queues[p][i])
            BY <2>1, <2>4, <3>2 DEF Waits
        <3>4. ~Carries(put, c.queues[p][i])
            BY <1>4, <2>3, <3>2, <3>3 DEF Together
        <3> QED  BY <1>2, <3>1, <3>3, <3>4 DEF Carries
    <2> QED  BY <2>1, <2>2, <2>4 DEF Waits
<1>6. \A other \in Puts(c, P) : other \in Puts(d, P \ {put}) => Apart(other, put)
    BY <1>1 DEF Carried, Puts
<1>7. Puts(d, P \ {put}) \subseteq Puts(c, P)
    BY <1>1 DEF Puts
<1>8. ASSUME NEW other \in Puts(d, P \ {put})
      PROVE  IsPut(other) /\ InPut(d, other) /\ Together(d, other)
    <2>1. IsPut(other) /\ InPut(c, other) /\ Together(c, other) /\ Apart(other, put)
        BY <1>6, <1>7 DEF Carried
    <2>2. Range(other.queue) \subseteq Transaction
        BY <2>1, PutQueuesAre
    <2>3. InPut(d, other)
        BY <1>2, <2>1, <2>2 DEF InPut, Apart, Carries
    <2>4. Together(d, other)
        BY <1>1, <1>2, <1>3, <2>1 DEF Together
    <2> QED  BY <2>1, <2>3, <2>4
<1>9. ASSUME NEW t \in Transaction, Going(d, t)  PROVE \E other \in Puts(d, P \ {put}) : Carries(other, t)
    <2>1. Going(c, t) /\ ~Carries(put, t)
        BY <1>2, <1>9 DEF Carries
    <2>2. PICK other \in Puts(c, P) : Carries(other, t)
        BY <2>1 DEF Carried
    <2>3. other \in Puts(d, P \ {put})
        BY <1>1, <2>1, <2>2 DEF Puts
    <2> QED  BY <2>2, <2>3
<1>10. Carried(d, P \ {put})
    BY <1>1, <1>8, <1>9 DEF Carried
<1> QED  BY <1>5, <1>10

\* What an answer to a put says.
Says(put, status, ex) ==
    /\ status \in {"ok", "datastale", "permission_denied", "disconnect"}
    /\ status # "disconnect" => Fits(put, status, ex)

LEMMA MarkedUnsettled ==
    ASSUME NEW c, NEW P, NEW ans, NEW ex, Settled(c, P, ans, ex), NEW put \in P,
           NEW status, Says(put, status, ex), status # "ok"
    PROVE  Unsettled(Marked(c, put, status), put.path, P \ {put}, ans, ex)
<1>1. /\ Base(c) /\ Accounted(c) /\ Queues(c) /\ Carried(c, P) /\ Truth(c, ex) /\ Served(c, ans, ex)
      /\ Clean(c) /\ NoneOver(c)
    BY DEF Settled, Sound
<1>2. PICK txs : txs = [t \in Transaction |-> IF t \in Range(put.queue) THEN Failed(c.transactions[t], status)
                                                                       ELSE c.transactions[t]]
    OBVIOUS
<1>3. PICK d : d = [c EXCEPT !.transactions = txs]
    OBVIOUS
<1>4. Marked(c, put, status) = d
    BY <1>2, <1>3 DEF Marked
<1>5. /\ IsClient(d) /\ d.tree = c.tree /\ d.nextWriteId = c.nextWriteId /\ d.cache = c.cache
      /\ d.transactions = txs /\ KeepsPlaces(c, d)
    <2>1. IsClient(c)
        BY <1>1 DEF Base
    <2> QED  BY <1>3, <2>1 DEF IsClient, KeepsPlaces
<1>6. IsPut(put) /\ InPut(c, put)
    BY <1>1 DEF Carried, Puts
<1>7. Range(put.queue) \subseteq Transaction
    BY <1>6, PutQueuesAre
<1>8. \A t \in Transaction : t \notin Range(put.queue) => d.transactions[t] = c.transactions[t]
    BY <1>2, <1>5
<1>9. ASSUME NEW t \in Range(put.queue)
      PROVE  LET tx == c.transactions[t]
                 new == d.transactions[t]
             IN  /\ IsTransaction(new) /\ new.path = tx.path /\ new.currentWriteId = tx.currentWriteId
                 /\ tx.status \in {"sent", "sentNeedsAbort"} /\ new.status \in {"run", "needsAbort"}
                 /\ TruthOf(new, ex[t])
    <2>1. PICK tx : tx = c.transactions[t]
        OBVIOUS
    <2>2. IsTransaction(tx) /\ TruthOf(tx, ex[t])
        BY <1>1, <1>7, <2>1 DEF Base, TransactionsOK, Truth
    <2>3. tx.status \in {"sent", "sentNeedsAbort"}
        BY <1>6, <2>1 DEF InPut, Going, Status
    <2>4. PICK new : new = Failed(tx, status)
        OBVIOUS
    <2>5. d.transactions[t] = new
        BY <1>2, <1>5, <1>7, <2>1, <2>4
    <2>6. PICK s : s = StatusAfter(status, tx.status)
        OBVIOUS
    <2>7. PICK o : o = IF status = "datastale" THEN tx.outcome ELSE status
        OBVIOUS
    <2>8. PICK one : one = [tx EXCEPT !.status = s]
        OBVIOUS
    <2>9. /\ one.path = tx.path /\ one.status = s /\ one.currentWriteId = tx.currentWriteId
          /\ one.output = tx.output /\ one.retryCount = tx.retryCount /\ one.outcome = tx.outcome
          /\ one = [path |-> one.path, status |-> one.status, applyLocally |-> one.applyLocally,
                    retryCount |-> one.retryCount, currentWriteId |-> one.currentWriteId,
                    output |-> one.output, outcome |-> one.outcome]
        BY <2>2, <2>8 DEF IsTransaction
    <2>10. new = [one EXCEPT !.outcome = o]
        <3>1. new = [one EXCEPT !.outcome = IF status = "datastale" THEN one.outcome ELSE status]
            BY <2>4, <2>6, <2>8 DEF Failed
        <3> QED  BY <2>7, <2>9, <3>1
    <2>11. /\ new.path = tx.path /\ new.status = s /\ new.currentWriteId = tx.currentWriteId
           /\ new.output = tx.output /\ new.retryCount = tx.retryCount /\ new.outcome = o
           /\ new = [path |-> new.path, status |-> new.status, applyLocally |-> new.applyLocally,
                     retryCount |-> new.retryCount, currentWriteId |-> new.currentWriteId,
                     output |-> new.output, outcome |-> new.outcome]
        BY <2>9, <2>10
    <2>12. s \in {"run", "needsAbort"} /\ (s = "run" <=> status = "datastale" /\ tx.status # "sentNeedsAbort")
        BY <2>6 DEF StatusAfter
    <2>13. IsTransaction(new)
        BY <2>2, <2>11, <2>12 DEF IsTransaction, Statuses
    <2>14. TruthOf(new, ex[t])
        BY <2>2, <2>3, <2>7, <2>11, <2>12 DEF TruthOf, Says, Fits
    <2> QED  BY <2>1, <2>3, <2>5, <2>11, <2>12, <2>13, <2>14
<1>10. \A t \in Transaction :
          /\ d.transactions[t].path = c.transactions[t].path
          /\ d.transactions[t].currentWriteId = c.transactions[t].currentWriteId
          /\ Open(d, t) <=> Open(c, t)
          /\ Going(d, t) <=> Going(c, t) /\ t \notin Range(put.queue)
          /\ Status(d, t) = "new" <=> Status(c, t) = "new"
          /\ Status(d, t) = "completed" <=> Status(c, t) = "completed"
    BY <1>8, <1>9 DEF Open, Going, Status
<1>11. Base(d)
    <2>1. d.transactions = [t \in Transaction |-> d.transactions[t]]
        BY <1>2, <1>5
    <2>2. TransactionsOK(d)
        BY <1>1, <1>8, <1>9, <2>1 DEF TransactionsOK, Base
    <2> QED  BY <1>1, <1>5, <2>2 DEF Base, KeepsPlaces
<1>12. Accounted(d)
    <2>1. OpenIds(d) = OpenIds(c) /\ (Owners(c) => Owners(d))
        BY <1>10 DEF OpenIds, Owners
    <2> QED  BY <1>1, <1>5, <2>1 DEF Accounted, KeepsPlaces
<1>13. Queues(d) /\ Carried(d, P \ {put})
    <2>1. Returned(c, d, put)
        BY <1>5, <1>10 DEF Returned
    <2> QED  BY <1>1, <2>1, ReturnedPlaces
<1>14. Truth(d, ex)
    BY <1>1, <1>8, <1>9 DEF Truth
<1>15. Served(d, ans, ex)
    BY <1>1, <1>5, SameServed
<1>16. d.queues = c.queues /\ \A p \in Place : Range(c.queues[p]) \subseteq Transaction
    BY <1>1, <1>5, QueuesAre DEF KeepsPlaces
<1>17. NoneOver(d)
    BY <1>1, <1>10, <1>16 DEF NoneOver
<1>18. ASSUME NEW p \in Place, NEW t \in Range(d.queues[p])  PROVE Ready(d, t) \/ Covers(put.path, p)
    <2>1. t \in Range(c.queues[p]) /\ t \in Transaction
        BY <1>16
    <2>2. CASE t \in Range(put.queue)
        <3>1. c.transactions[t].path = p
            BY <1>1, <2>1 DEF Queues, Waits
        <3> QED  BY <1>6, <2>2, <3>1 DEF InPut
    <2>3. CASE t \notin Range(put.queue)
        <3>1. Ready(c, t)
            BY <1>1, <2>1 DEF Clean
        <3> QED  BY <1>8, <2>1, <2>3, <3>1 DEF Ready, Status
    <2> QED  BY <2>2, <2>3
<1> QED  BY <1>4, <1>11, <1>12, <1>13, <1>14, <1>15, <1>17, <1>18 DEF Unsettled, Sound

\* After the first i transactions of a put have been committed.
Committing(c, d, queue, i) ==
    /\ Base(d) /\ Accounted(d) /\ KeepsPlaces(c, d)
    /\ \A t \in Transaction : (\A j \in 1 .. i : queue[j] # t) => d.transactions[t] = c.transactions[t]
    /\ \A j \in 1 .. i : /\ d.transactions[queue[j]].path = c.transactions[queue[j]].path
                         /\ d.transactions[queue[j]].status = "completed"
                         /\ d.transactions[queue[j]].outcome = "committed"

LEMMA CommittingSteps ==
    ASSUME NEW c, NEW d, NEW queue, NEW n \in Nat, NEW i \in 1 .. n,
           \A j \in 1 .. n : queue[j] \in Transaction,
           \A j, k \in 1 .. n : queue[j] = queue[k] => j = k,
           \A j \in 1 .. n : Going(c, queue[j]),
           Committing(c, d, queue, i - 1)
    PROVE  Committing(c, Committed(d, queue[i]), queue, i)
<1>1. PICK t \in Transaction : t = queue[i]
    OBVIOUS
<1>2. PICK e : e = Committed(d, t)
    OBVIOUS
<1>3. \A j \in 1 .. i - 1 : queue[j] # t /\ j \in 1 .. n
    BY <1>1
<1>4. d.transactions[t] = c.transactions[t]
    BY <1>3 DEF Committing
<1>5. Open(d, t)
    BY <1>1, <1>4 DEF Open, Going, Status
<1>6. Base(e) /\ Accounted(e) /\ KeepsPlaces(d, e) /\ Closed(d, e, t, "committed")
    BY <1>2, <1>5, Close DEF Committing, Committed
<1>7. KeepsPlaces(c, e)
    BY <1>6 DEF KeepsPlaces, Committing
<1>8. \A u \in Transaction : u # t => e.transactions[u] = d.transactions[u]
    BY <1>6 DEF Closed, OthersKept
<1>9. ASSUME NEW u \in Transaction, \A j \in 1 .. i : queue[j] # u  PROVE e.transactions[u] = c.transactions[u]
    <2>1. u # t /\ \A j \in 1 .. i - 1 : queue[j] # u
        BY <1>1, <1>9
    <2> QED  BY <1>8, <2>1 DEF Committing
<1>10. ASSUME NEW j \in 1 .. i
       PROVE  /\ e.transactions[queue[j]].path = c.transactions[queue[j]].path
              /\ e.transactions[queue[j]].status = "completed"
              /\ e.transactions[queue[j]].outcome = "committed"
    <2>1. CASE j = i
        BY <1>1, <1>4, <1>6, <2>1 DEF Closed
    <2>2. CASE j # i
        <3>1. j \in 1 .. i - 1 /\ queue[j] \in Transaction /\ queue[j] # t
            BY <1>1, <2>2
        <3> QED  BY <1>8, <3>1 DEF Committing
    <2> QED  BY <2>1, <2>2
<1> QED  BY <1>1, <1>2, <1>6, <1>7, <1>9, <1>10 DEF Committing

LEMMA CommittedSound ==
    ASSUME NEW c, NEW P, NEW ans, NEW ex, Settled(c, P, ans, ex), NEW put \in P,
           Fits(put, "ok", ex)
    PROVE  LET d == FoldLeft(Committed, c, put.queue) IN
           Sound(d, P \ {put}, ans, ex) /\ Clean(d)
<1>1. /\ Base(c) /\ Accounted(c) /\ Queues(c) /\ Carried(c, P) /\ Truth(c, ex) /\ Served(c, ans, ex)
      /\ Clean(c) /\ NoneOver(c)
    BY DEF Settled, Sound
<1>2. PICK queue : queue = put.queue
    OBVIOUS
<1>3. IsPut(put) /\ InPut(c, put)
    BY <1>1 DEF Carried, Puts
<1>4. PICK n \in Nat : DOMAIN queue = 1 .. n
    BY <1>2, <1>3, PutQueuesAre, ListDomain
<1>5. /\ \A j \in 1 .. n : queue[j] \in Transaction /\ queue[j] \in Range(queue)
      /\ \A j, k \in 1 .. n : queue[j] = queue[k] => j = k
    BY <1>2, <1>3, <1>4, PutQueuesAre DEF Range, IsPut, IsInjective
<1>6. \A j \in 1 .. n : Going(c, queue[j])
    BY <1>2, <1>3, <1>5 DEF InPut
<1>7. PICK g : Runs(g, "commit", c, n, queue) /\ FoldLeft(Committed, c, queue) = g[n]
    BY <1>4, CommitFold
<1> DEFINE S == {i \in 0 .. n : Committing(c, g[i], queue, i)}
<1>8. 0 \in S
    BY <1>1, <1>7 DEF Runs, Committing, KeepsPlaces
<1>9. ASSUME NEW i \in 1 .. n, i - 1 \in S  PROVE i \in S
    <2>1. g[i] = Committed(g[i - 1], queue[i])
        BY <1>7 DEF Runs, Do
    <2>2. PICK one : one = g[i - 1]
        OBVIOUS
    <2>3. Committing(c, one, queue, i - 1)
        BY <1>9, <2>2
    <2>4. Committing(c, Committed(one, queue[i]), queue, i)
        BY <1>5, <1>6, <2>3, CommittingSteps
    <2> QED  BY <2>1, <2>2, <2>4
<1>10. n \in S
    <2> HIDE DEF S
    <2> QED  BY <1>8, <1>9, Climb
<1>11. PICK d : d = g[n]
    OBVIOUS
<1>12. Committing(c, d, queue, n)
    BY <1>10, <1>11
<1>13. \A t \in Range(queue) : \E j \in 1 .. n : queue[j] = t
    BY <1>4 DEF Range
<1>14. /\ Base(d) /\ Accounted(d) /\ KeepsPlaces(c, d)
       /\ \A t \in Transaction : t \notin Range(queue) => d.transactions[t] = c.transactions[t]
       /\ \A t \in Range(queue) : /\ d.transactions[t].path = c.transactions[t].path
                                  /\ d.transactions[t].status = "completed"
                                  /\ d.transactions[t].outcome = "committed"
    BY <1>5, <1>12, <1>13 DEF Committing
<1>15. Returned(c, d, put)
    <2> SUFFICES ASSUME NEW t \in Transaction
                 PROVE  /\ d.transactions[t].path = c.transactions[t].path
                        /\ Going(d, t) <=> Going(c, t) /\ t \notin Range(queue)
                        /\ Status(d, t) = "new" <=> Status(c, t) = "new"
        BY <1>2, <1>14 DEF Returned
    <2>1. CASE t \in Range(queue)
        BY <1>6, <1>13, <1>14, <2>1 DEF Going, Status
    <2>2. CASE t \notin Range(queue)
        BY <1>14, <2>2 DEF Going, Status
    <2> QED  BY <2>1, <2>2
<1>16. Queues(d) /\ Carried(d, P \ {put})
    BY <1>1, <1>15, ReturnedPlaces
<1>17. Truth(d, ex)
    <2> SUFFICES ASSUME NEW t \in Transaction  PROVE TruthOf(d.transactions[t], ex[t])
        BY DEF Truth
    <2>1. CASE t \in Range(queue)
        <3>1. ex[t] = 1
            BY <1>2, <2>1 DEF Fits
        <3> QED  BY <1>14, <2>1, <3>1 DEF TruthOf
    <2>2. CASE t \notin Range(queue)
        BY <1>1, <1>14, <2>2 DEF Truth
    <2> QED  BY <2>1, <2>2
<1>18. Served(d, ans, ex)
    BY <1>1, <1>14, SameServed
<1>19. Clean(d)
    <2> SUFFICES ASSUME NEW p \in Place, NEW t \in Range(c.queues[p])  PROVE Ready(d, t)
        BY <1>14 DEF Clean, KeepsPlaces
    <2>1. t \in Transaction /\ Ready(c, t)
        BY <1>1, QueuesAre DEF Clean
    <2> QED  BY <1>14, <2>1 DEF Ready, Status
<1> QED  BY <1>2, <1>7, <1>11, <1>14, <1>16, <1>17, <1>18, <1>19 DEF Sound

\* The callback that sendTransactionQueue gives to putData.
LEMMA TransactionAnsweredSettles ==
    ASSUME WriteTreeAssumption, TransactionsAssumption,
           NEW c, NEW P, NEW ans, NEW ex, Settled(c, P, ans, ex), NEW put \in P,
           NEW status, Says(put, status, ex)
    PROVE  Settled(TransactionAnswered(c, put, status), P \ {put}, ans, ex)
<1>1. PICK Q : Q = P \ {put}
    OBVIOUS
<1>2. put.path \in Place
    BY DEF Settled, Sound, Carried, Puts, IsPut
<1>3. CASE status = "ok"
    <2>1. PICK e : e = FoldLeft(Committed, c, put.queue)
        OBVIOUS
    <2>2. Sound(e, Q, ans, ex) /\ Clean(e)
        BY <1>1, <1>3, <2>1, CommittedSound DEF Says
    <2>3. PICK f : f = ForgetEvents(e)
        OBVIOUS
    <2>4. SameCore(e, f)
        BY <2>2, <2>3, RaiseKeeps DEF Sound, Base
    <2>5. Sound(f, Q, ans, ex) /\ Clean(f)
        BY <2>2, <2>4, SameSound, SameQueues
    <2>6. PICK s : s = SendAllReadyTransactions(Prune(f, put.path))
        OBVIOUS
    <2>7. Settled(s, Q, ans, ex)
        BY <1>2, <2>5, <2>6, PruneSound, SendAllSettled
    <2>8. PICK r : r = RerunTransactionsForPath(s, put.path)
        OBVIOUS
    <2>9. Settled(r, Q, ans, ex)
        BY <1>2, <2>7, <2>8, SettledUnsettled, RerunForPathSettles
    <2>10. SameCore(r, Raise(r, e.events))
        BY <2>9, RaiseKeeps DEF Settled, Sound, Base
    <2>11. Settled(Raise(r, e.events), Q, ans, ex)
        BY <2>9, <2>10, SameSound
    <2>12. TransactionAnswered(c, put, status) = Raise(r, e.events)
        BY <1>3, <2>1, <2>3, <2>6, <2>8 DEF TransactionAnswered
    <2> QED  BY <1>1, <2>11, <2>12
<1>4. CASE status # "ok"
    <2>1. PICK e : e = Marked(c, put, status)
        OBVIOUS
    <2>2. Unsettled(e, put.path, Q, ans, ex)
        BY <1>1, <1>4, <2>1, MarkedUnsettled
    <2>3. Settled(RerunTransactionsForPath(e, put.path), Q, ans, ex)
        BY <1>2, <2>2, RerunForPathSettles
    <2>4. TransactionAnswered(c, put, status) = RerunTransactionsForPath(e, put.path)
        BY <1>4, <2>1 DEF TransactionAnswered
    <2> QED  BY <1>1, <2>3, <2>4
<1> QED  BY <1>3, <1>4

-----------------------------------------------------------------------------
(* Aborting.                                                               *)

IsAborting(pass) == pass = [client |-> pass.client, marked |-> pass.marked]

\* A transaction of a queue is over, or marked if it is on its way.
Aborted(c, d, t, P, ans, ex) ==
    /\ Sound(d, P, ans, ex) /\ KeepsGoing(c, d) /\ OthersKept(c, d, t)
    /\ Status(d, t) \in {"completed", "sentNeedsAbort"}

LEMMA AbortDone ==
    ASSUME NEW pass, IsAborting(pass), NEW t \in Transaction,
           NEW P, NEW ans, NEW ex, Sound(pass.client, P, ans, ex),
           Status(pass.client, t) \in {"run", "sent", "sentNeedsAbort"}
    PROVE  /\ IsAborting(Abort(pass, t))
           /\ Aborted(pass.client, Abort(pass, t).client, t, P, ans, ex)
           /\ Abort(pass, t).marked = IF Status(pass.client, t) = "sent" THEN pass.marked + 1 ELSE pass.marked
<1>1. PICK c : c = pass.client
    OBVIOUS
<1>2. PICK tx : tx = c.transactions[t]
    OBVIOUS
<1>3. Base(c) /\ Accounted(c) /\ Queues(c) /\ Carried(c, P) /\ Truth(c, ex) /\ Served(c, ans, ex)
    BY <1>1 DEF Sound
<1>4. IsTransaction(tx) /\ TruthOf(tx, ex[t]) /\ Status(c, t) = tx.status
    BY <1>2, <1>3 DEF Base, TransactionsOK, Truth, Status
<1>5. CASE tx.status = "sentNeedsAbort"
    <2>1. Abort(pass, t) = pass
        BY <1>1, <1>2, <1>5 DEF Abort
    <2>2. Aborted(c, c, t, P, ans, ex)
        BY <1>1, <1>4, <1>5 DEF Aborted, KeepsGoing, KeepsPlaces, OthersKept
    <2> QED  BY <1>1, <1>4, <1>5, <2>1, <2>2
<1>6. CASE tx.status = "sent"
    <2>1. PICK one : one = [c EXCEPT !.transactions[t].status = "sentNeedsAbort"]
        OBVIOUS
    <2>2. PICK d : d = [one EXCEPT !.transactions[t].outcome = "set"]
        OBVIOUS
    <2>3. Abort(pass, t) = [client |-> d, marked |-> pass.marked + 1]
        <3>1. d = [c EXCEPT !.transactions[t].status = "sentNeedsAbort", !.transactions[t].outcome = "set"]
            BY <2>1, <2>2
        <3> QED  BY <1>1, <1>2, <1>6, <3>1 DEF Abort
    <2>4. IsClient(c) /\ c.transactions = [u \in Transaction |-> c.transactions[u]]
        BY <1>3 DEF Base, TransactionsOK
    <2>5. /\ IsClient(one) /\ one.tree = c.tree /\ one.nextWriteId = c.nextWriteId /\ one.cache = c.cache
          /\ KeepsPlaces(c, one)
          /\ one.transactions = [c.transactions EXCEPT ![t].status = "sentNeedsAbort"]
        BY <2>1, <2>4 DEF IsClient, KeepsPlaces
    <2>6. /\ IsClient(d) /\ d.tree = c.tree /\ d.nextWriteId = c.nextWriteId /\ d.cache = c.cache
          /\ KeepsPlaces(c, d)
          /\ d.transactions = [one.transactions EXCEPT ![t].outcome = "set"]
        BY <2>2, <2>5 DEF IsClient, KeepsPlaces
    <2>7. /\ one.transactions[t] = [tx EXCEPT !.status = "sentNeedsAbort"]
          /\ one.transactions = [u \in Transaction |-> one.transactions[u]]
          /\ \A u \in Transaction : u # t => one.transactions[u] = c.transactions[u]
        BY <1>2, <2>4, <2>5
    <2>8. PICK otx : otx = one.transactions[t]
        OBVIOUS
    <2>9. /\ d.transactions[t] = [otx EXCEPT !.outcome = "set"]
          /\ d.transactions = [u \in Transaction |-> d.transactions[u]]
          /\ \A u \in Transaction : u # t => d.transactions[u] = c.transactions[u]
        BY <2>6, <2>7, <2>8
    <2>10. /\ otx.path = tx.path /\ otx.status = "sentNeedsAbort" /\ otx.currentWriteId = tx.currentWriteId
           /\ otx.output = tx.output /\ otx.retryCount = tx.retryCount
           /\ otx = [path |-> otx.path, status |-> otx.status, applyLocally |-> otx.applyLocally,
                     retryCount |-> otx.retryCount, currentWriteId |-> otx.currentWriteId,
                     output |-> otx.output, outcome |-> otx.outcome]
        BY <1>4, <2>7, <2>8 DEF IsTransaction
    <2>11. PICK new : new = d.transactions[t]
        OBVIOUS
    <2>12. /\ new.path = tx.path /\ new.status = "sentNeedsAbort" /\ new.currentWriteId = tx.currentWriteId
           /\ new.output = tx.output /\ new.retryCount = tx.retryCount /\ new.outcome = "set"
           /\ new = [path |-> new.path, status |-> new.status, applyLocally |-> new.applyLocally,
                     retryCount |-> new.retryCount, currentWriteId |-> new.currentWriteId,
                     output |-> new.output, outcome |-> new.outcome]
        BY <2>9, <2>10, <2>11
    <2>13. IsTransaction(new) /\ TruthOf(new, ex[t])
        BY <1>4, <2>12 DEF IsTransaction, Statuses, TruthOf
    <2>14. /\ Status(d, t) = "sentNeedsAbort" /\ Status(c, t) = "sent"
           /\ \A u \in Transaction : u # t => Status(d, u) = Status(c, u)
        BY <1>4, <1>6, <2>9, <2>11, <2>12 DEF Status
    <2>15. Base(d)
        BY <1>3, <2>6, <2>9, <2>11, <2>13 DEF Base, TransactionsOK, KeepsPlaces
    <2>16. \A u \in Transaction : /\ d.transactions[u].currentWriteId = c.transactions[u].currentWriteId
                                  /\ d.transactions[u].path = c.transactions[u].path
                                  /\ Open(d, u) <=> Open(c, u)
                                  /\ Going(d, u) <=> Going(c, u)
                                  /\ Status(d, u) = "new" <=> Status(c, u) = "new"
        BY <1>2, <2>9, <2>11, <2>12, <2>14 DEF Open, Going
    <2>17. Accounted(d)
        <3>1. OpenIds(d) = OpenIds(c) /\ (Owners(c) => Owners(d))
            BY <2>16 DEF OpenIds, Owners
        <3> QED  BY <1>3, <2>6, <3>1 DEF Accounted, KeepsPlaces
    <2>18. KeepsGoing(c, d)
        BY <2>6, <2>16 DEF KeepsGoing
    <2>19. Queues(d) /\ Carried(d, P)
        BY <1>3, <2>18, SameGoing
    <2>20. Truth(d, ex) /\ OthersKept(c, d, t)
        BY <1>3, <2>9, <2>11, <2>13 DEF Truth, OthersKept
    <2>21. Served(d, ans, ex)
        BY <1>3, <2>6, SameServed
    <2>22. Aborted(c, d, t, P, ans, ex)
        BY <2>14, <2>15, <2>17, <2>18, <2>19, <2>20, <2>21 DEF Aborted, Sound
    <2> QED  BY <1>1, <1>4, <1>6, <2>3, <2>22 DEF IsAborting
<1>7. CASE tx.status = "run"
    <2>1. PICK d : d = Finish(AckUserWrite(c, tx.currentWriteId), t, "set")
        OBVIOUS
    <2>2. Abort(pass, t) = [pass EXCEPT !.client = d]
        BY <1>1, <1>2, <1>7, <2>1 DEF Abort
    <2>3. Open(c, t) /\ ~Going(c, t) /\ Status(c, t) # "new" /\ ex[t] = 0
        BY <1>4, <1>7 DEF Open, Going, TruthOf
    <2>4. Base(d) /\ Accounted(d) /\ KeepsPlaces(c, d) /\ Closed(c, d, t, "set")
        BY <1>2, <1>3, <2>1, <2>3, Close
    <2>5. Sound(d, P, ans, ex) /\ KeepsGoing(c, d)
        BY <1>1, <2>3, <2>4, ClosedSound
    <2>6. Aborted(c, d, t, P, ans, ex)
        BY <2>4, <2>5 DEF Aborted, Closed, Status
    <2>7. IsAborting(Abort(pass, t)) /\ Abort(pass, t).client = d /\ Abort(pass, t).marked = pass.marked
        BY <2>2 DEF IsAborting
    <2> QED  BY <1>1, <1>4, <1>7, <2>6, <2>7
<1> QED  BY <1>1, <1>4, <1>5, <1>6, <1>7

\* After the first i transactions of a queue have been aborted: those that are
\* marked are no more than those at its front that are on their way.
AbortingQueue(c, pass, queue, i, P, ans, ex) ==
    /\ IsAborting(pass) /\ Sound(pass.client, P, ans, ex) /\ KeepsGoing(c, pass.client)
    /\ \A j \in 1 .. i : Status(pass.client, queue[j]) \in {"completed", "sentNeedsAbort"}
    /\ \A t \in Transaction : (\A j \in 1 .. i : queue[j] # t) => pass.client.transactions[t] = c.transactions[t]
    /\ pass.marked \in 0 .. i /\ \A j \in 1 .. pass.marked : Going(c, queue[j])

LEMMA AbortingSteps ==
    ASSUME NEW c, NEW pass, NEW queue, NEW n \in Nat, NEW i \in 1 .. n,
           \A j \in 1 .. n : queue[j] \in Transaction,
           \A j, k \in 1 .. n : queue[j] = queue[k] => j = k,
           \A j \in 1 .. n : Status(c, queue[j]) \in {"run", "sent", "sentNeedsAbort"},
           \A j, k \in 1 .. n : j < k /\ Going(c, queue[k]) => Going(c, queue[j]),
           NEW P, NEW ans, NEW ex, AbortingQueue(c, pass, queue, i - 1, P, ans, ex)
    PROVE  AbortingQueue(c, Abort(pass, queue[i]), queue, i, P, ans, ex)
<1>1. PICK t \in Transaction : t = queue[i]
    OBVIOUS
<1>2. PICK b : b = pass.client
    OBVIOUS
<1>3. PICK next : next = Abort(pass, t)
    OBVIOUS
<1>4. PICK d : d = next.client
    OBVIOUS
<1>5. \A j \in 1 .. i - 1 : queue[j] # t /\ j \in 1 .. n
    BY <1>1
<1>6. Status(b, t) = Status(c, t)
    BY <1>2, <1>5 DEF AbortingQueue, Status
<1>7. /\ IsAborting(next) /\ Aborted(b, d, t, P, ans, ex)
      /\ next.marked = IF Status(c, t) = "sent" THEN pass.marked + 1 ELSE pass.marked
    BY <1>1, <1>2, <1>3, <1>4, <1>6, AbortDone DEF AbortingQueue
<1>8. KeepsGoing(c, b) /\ KeepsGoing(b, d) /\ Sound(d, P, ans, ex)
    BY <1>2, <1>7 DEF AbortingQueue, Aborted
<1>9. KeepsGoing(c, d)
    BY <1>8 DEF KeepsGoing, KeepsPlaces
<1>10. \A u \in Transaction : u # t => d.transactions[u] = b.transactions[u]
    BY <1>7 DEF Aborted, OthersKept
<1>11. ASSUME NEW u \in Transaction, \A j \in 1 .. i : queue[j] # u  PROVE d.transactions[u] = c.transactions[u]
    <2>1. u # t /\ \A j \in 1 .. i - 1 : queue[j] # u
        BY <1>1, <1>11
    <2> QED  BY <1>2, <1>10, <2>1 DEF AbortingQueue
<1>12. ASSUME NEW j \in 1 .. i  PROVE Status(d, queue[j]) \in {"completed", "sentNeedsAbort"}
    <2>1. CASE j = i
        BY <1>1, <1>7, <2>1 DEF Aborted
    <2>2. CASE j # i
        <3>1. j \in 1 .. i - 1 /\ queue[j] \in Transaction /\ queue[j] # t
            BY <1>1, <2>2
        <3> QED  BY <1>2, <1>10, <3>1 DEF AbortingQueue, Status
    <2> QED  BY <2>1, <2>2
<1>13. next.marked \in 0 .. i /\ \A j \in 1 .. next.marked : Going(c, queue[j])
    <2>1. pass.marked \in 0 .. i - 1 /\ \A j \in 1 .. pass.marked : Going(c, queue[j])
        BY DEF AbortingQueue
    <2>2. CASE Status(c, t) = "sent"
        <3>1. Going(c, queue[i])
            BY <1>1, <2>2 DEF Going
        <3>2. \A j \in 1 .. i : j = i \/ (j < i /\ j \in 1 .. n)
            OBVIOUS
        <3>3. \A j \in 1 .. i : Going(c, queue[j])
            BY <3>1, <3>2
        <3>4. next.marked = pass.marked + 1
            BY <1>7, <2>2
        <3> QED  BY <2>1, <3>3, <3>4
    <2>3. CASE Status(c, t) # "sent"
        BY <1>7, <2>1, <2>3
    <2> QED  BY <2>2, <2>3
<1> QED  BY <1>1, <1>3, <1>4, <1>7, <1>8, <1>9, <1>11, <1>12, <1>13 DEF AbortingQueue

LEMMA AbortQueue ==
    ASSUME NEW c, NEW P, NEW ans, NEW ex, Settled(c, P, ans, ex), NEW path \in Place,
           NEW n \in Nat, DOMAIN c.queues[path] = 1 .. n
    PROVE  AbortingQueue(c, FoldLeft(Abort, [client |-> c, marked |-> 0], c.queues[path]),
                         c.queues[path], n, P, ans, ex)
<1>1. PICK queue : queue = c.queues[path]
    OBVIOUS
<1>2. /\ Base(c) /\ Queues(c) /\ Sound(c, P, ans, ex) /\ Clean(c) /\ NoneOver(c)
      /\ Waits(c, queue, path)
    BY <1>1 DEF Settled, Sound, Queues
<1>3. \A j \in 1 .. n : queue[j] \in Transaction /\ queue[j] \in Range(queue)
    BY <1>1, <1>2, QueuesAre DEF Range
<1>4. \A j, k \in 1 .. n : queue[j] = queue[k] => j = k
    BY <1>1, <1>2 DEF Waits, IsInjective
<1>5. \A j, k \in 1 .. n : j < k /\ Going(c, queue[k]) => Going(c, queue[j])
    BY <1>1, <1>2 DEF Waits
<1>6. ASSUME NEW j \in 1 .. n  PROVE Status(c, queue[j]) \in {"run", "sent", "sentNeedsAbort"}
    <2>1. Ready(c, queue[j]) /\ Status(c, queue[j]) # "completed" /\ Status(c, queue[j]) # "new"
        BY <1>1, <1>2, <1>3 DEF Clean, NoneOver, Waits
    <2>2. Status(c, queue[j]) \in Statuses
        BY <1>2, <1>3 DEF Base, TransactionsOK, IsTransaction, Status
    <2> QED  BY <2>1, <2>2 DEF Ready, Statuses
<1>7. PICK pass : pass = [client |-> c, marked |-> 0]
    OBVIOUS
<1>8. PICK g : Runs(g, "abort", pass, n, queue) /\ FoldLeft(Abort, pass, queue) = g[n]
    BY <1>1, AbortFold
<1> DEFINE S == {i \in 0 .. n : AbortingQueue(c, g[i], queue, i, P, ans, ex)}
<1>9. 0 \in S
    BY <1>2, <1>7, <1>8 DEF Runs, AbortingQueue, IsAborting, KeepsGoing, KeepsPlaces
<1>10. ASSUME NEW i \in 1 .. n, i - 1 \in S  PROVE i \in S
    <2>1. g[i] = Abort(g[i - 1], queue[i])
        BY <1>8 DEF Runs, Do
    <2>2. PICK one : one = g[i - 1]
        OBVIOUS
    <2>3. AbortingQueue(c, one, queue, i - 1, P, ans, ex)
        BY <1>10, <2>2
    <2>4. AbortingQueue(c, Abort(one, queue[i]), queue, i, P, ans, ex)
        BY <1>3, <1>4, <1>5, <1>6, <2>3, AbortingSteps
    <2> QED  BY <2>1, <2>2, <2>4
<1>11. n \in S
    <2> HIDE DEF S
    <2>1. \A i \in 1 .. n : i - 1 \in S => i \in S
        BY <1>10
    <2>2. \A i \in 0 .. n : i \in S
        BY <1>9, <2>1, Climb
    <2> QED  BY <2>2
<1> QED  BY <1>1, <1>7, <1>8, <1>11

\* abortTransactionsAtNode
LEMMA AbortNodeSettled ==
    ASSUME NEW c, NEW P, NEW ans, NEW ex, Settled(c, P, ans, ex), NEW path \in Place
    PROVE  Settled(AbortTransactionsAtNode(c, path), P, ans, ex)
<1>1. PICK queue : queue = c.queues[path]
    OBVIOUS
<1>2. Base(c) /\ Queues(c) /\ Clean(c) /\ NoneOver(c)
    BY DEF Settled, Sound
<1>3. IsList(queue) /\ DOMAIN queue = 1 .. Len(queue) /\ queue \in Seq(Transaction) /\ Range(queue) \subseteq Transaction
    BY <1>1, <1>2, QueuesAre
<1>4. PICK n \in Nat : n = Len(queue)
    BY <1>3 DEF IsList
<1>5. PICK pass : pass = FoldLeft(Abort, [client |-> c, marked |-> 0], queue)
    OBVIOUS
<1>6. AbortingQueue(c, pass, queue, n, P, ans, ex)
    BY <1>1, <1>3, <1>4, <1>5, AbortQueue
<1>7. PICK b : b = pass.client
    OBVIOUS
<1>8. PICK m : m = pass.marked
    OBVIOUS
<1>9. /\ Sound(b, P, ans, ex) /\ KeepsGoing(c, b)
      /\ \A j \in 1 .. n : Status(b, queue[j]) \in {"completed", "sentNeedsAbort"}
      /\ \A t \in Transaction : (\A j \in 1 .. n : queue[j] # t) => b.transactions[t] = c.transactions[t]
      /\ m \in 0 .. n /\ \A j \in 1 .. m : Going(c, queue[j])
    BY <1>6, <1>7, <1>8 DEF AbortingQueue
<1>10. b.queues = c.queues
    BY <1>9 DEF KeepsGoing, KeepsPlaces
<1>11. PICK left : left = SubSeq(queue, 1, m)
    OBVIOUS
<1>12. IsList(left) /\ Len(left) = m /\ DOMAIN left = 1 .. m /\ \A i \in 1 .. m : left[i] = queue[i] /\ i \in 1 .. n
    <2>1. m \in Nat /\ m <= Len(queue)
        BY <1>4, <1>9
    <2>2. \A i \in 1 .. m : i \in 1 .. n
        BY <1>9
    <2>3. IsList(left) /\ Len(left) = m /\ \A i \in 1 .. m : left[i] = queue[i]
        BY <1>3, <1>11, <2>1, FirstPart
    <2> QED  BY <2>2, <2>3, ListDomain
<1>13. PICK qs : qs = [c.queues EXCEPT ![path] = left]
    OBVIOUS
<1>14. PICK d : d = [b EXCEPT !.queues = qs]
    OBVIOUS
<1>15. AbortTransactionsAtNode(c, path) = RaiseEvents(d)
    <2>1. AbortTransactionsAtNode(c, path) =
             RaiseEvents([b EXCEPT !.queues = [b.queues EXCEPT ![path] = SubSeq(b.queues[path], 1, m)]])
        BY <1>1, <1>5, <1>7, <1>8 DEF AbortTransactionsAtNode
    <2> QED  BY <1>1, <1>10, <1>11, <1>13, <1>14, <2>1
<1>16. IsClient(b)
    BY <1>9 DEF Sound, Base
<1>17. /\ IsClient(d) /\ d.tree = b.tree /\ d.nextWriteId = b.nextWriteId /\ d.cache = b.cache
       /\ d.transactions = b.transactions /\ d.outstandingPuts = b.outstandingPuts
       /\ d.requests = b.requests /\ d.connected = b.connected /\ d.queues = qs
    BY <1>14, <1>16 DEF IsClient
<1>18. left \in Seq(Transaction)
    <2>1. \A i \in 1 .. Len(left) : left[i] \in Transaction
        BY <1>3, <1>4, <1>12 DEF Range
    <2> QED  BY <1>12, <2>1, ListIn
<1>19. qs[path] = left /\ qs \in [Place -> Seq(Transaction)] /\ \A p \in Place : p # path => qs[p] = c.queues[p]
    <2>1. c.queues \in [Place -> Seq(Transaction)]
        BY <1>2 DEF Base
    <2> QED  BY <1>13, <1>18, <2>1
<1>20. ASSUME NEW p \in Place  PROVE Thinned(c.queues[p], qs[p])
    <2>1. PICK k : k = [i \in DOMAIN qs[p] |-> i]
        OBVIOUS
    <2>2. Thin(k, c.queues[p], qs[p])
        <3>1. \A i \in DOMAIN qs[p] : i \in DOMAIN c.queues[p] /\ qs[p][i] = c.queues[p][i]
            BY <1>1, <1>3, <1>4, <1>12, <1>19
        <3> QED  BY <2>1, <3>1 DEF Thin, Rising, IsInjective
    <2> QED  BY <2>2 DEF Thinned
<1>21. ThinQueues(b, d)
    BY <1>10, <1>17, <1>19, <1>20 DEF ThinQueues
<1>22. Sound(d, P, ans, ex)
    BY <1>9, <1>21, ThinSound
<1>23. ASSUME NEW p \in Place, NEW t \in Range(qs[p])  PROVE Ready(d, t) /\ Status(d, t) # "completed"
    <2>1. Ready(d, t) <=> Ready(b, t)
        BY <1>17, SameStatus
    <2>2. Status(d, t) = Status(b, t)
        BY <1>17, SameStatus
    <2>3. CASE p = path
        <3>1. PICK i \in 1 .. m : t = queue[i]
            BY <1>12, <1>19, <2>3 DEF Range
        <3>2. Status(b, t) \in {"completed", "sentNeedsAbort"} /\ Going(c, t) /\ t \in Transaction
            BY <1>3, <1>4, <1>9, <1>12, <3>1 DEF Range
        <3>3. Status(b, t) = "sentNeedsAbort"
            BY <1>9, <3>2 DEF KeepsGoing, Going
        <3> QED  BY <2>1, <2>2, <3>3 DEF Ready
    <2>4. CASE p # path
        <3>1. t \in Range(c.queues[p]) /\ t \in Transaction
            BY <1>2, <1>19, <2>4, QueuesAre
        <3>2. c.transactions[t].path = p
            BY <1>2, <3>1 DEF Queues, Waits
        <3>3. \A j \in 1 .. n : queue[j] # t
            <4>1. \A j \in 1 .. n : queue[j] \in Range(queue)
                BY <1>3, <1>4 DEF Range
            <4>2. \A u \in Range(queue) : c.transactions[u].path = path
                BY <1>1, <1>2 DEF Queues, Waits
            <4> QED  BY <2>4, <3>2, <4>1, <4>2
        <3>4. b.transactions[t] = c.transactions[t]
            BY <1>9, <3>1, <3>3
        <3>5. Ready(c, t) /\ Status(c, t) # "completed"
            BY <1>2, <3>1 DEF Clean, NoneOver
        <3> QED  BY <2>1, <2>2, <3>4, <3>5 DEF Ready, Status
    <2> QED  BY <2>3, <2>4
<1>24. Settled(d, P, ans, ex)
    BY <1>17, <1>22, <1>23 DEF Settled, Clean, NoneOver
<1>25. SameCore(d, RaiseEvents(d))
    BY <1>17, RaiseKeeps
<1> QED  BY <1>15, <1>24, <1>25, SameSound

LEMMA NodesAre ==
    ASSUME WriteTreeAssumption, NEW path \in Place
    PROVE  \E n \in Nat : NodesToAbort(path) \in [1 .. n -> Place]
<1>1. PICK s : s = NodesToAbort(path)
    OBVIOUS
<1>2. s \in Seq(Place)
    <2>1. Parent \in Place /\ \A x \in Child : x \in Place
        BY DEF Place
    <2>2. CASE path = Parent
        <3>1. PICK n \in Nat : SetToSeq(Child) \in [1 .. n -> Child]
            BY ChildFinite
        <3>2. SetToSeq(Child) \in [1 .. n -> Place]
            BY <2>1, <3>1
        <3>3. SetToSeq(Child) \in Seq(Place)
            BY <3>2, IsASeq
        <3>4. <<Parent>> \in Seq(Place)
            BY <2>1
        <3>5. s = <<Parent>> \o SetToSeq(Child)
            BY <1>1, <2>2 DEF NodesToAbort
        <3> QED  BY <3>3, <3>4, <3>5, ConcatProperties
    <2>3. CASE path # Parent
        BY <1>1, <2>1, <2>3 DEF NodesToAbort
    <2> QED  BY <2>2, <2>3
<1> QED  BY <1>1, <1>2, LenProperties

LEMMA AbortPathSettled ==
    ASSUME WriteTreeAssumption, NEW c, NEW P, NEW ans, NEW ex, Settled(c, P, ans, ex), NEW path \in Place
    PROVE  Settled(AbortTransactionsAtPath(c, path), P, ans, ex)
<1>1. PICK nodes : nodes = NodesToAbort(path)
    OBVIOUS
<1>2. PICK n \in Nat : nodes \in [1 .. n -> Place]
    BY <1>1, NodesAre
<1>3. PICK g : Runs(g, "node", c, n, nodes) /\ FoldLeft(AbortTransactionsAtNode, c, nodes) = g[n]
    BY <1>2, NodeFold
<1> DEFINE S == {i \in 0 .. n : Settled(g[i], P, ans, ex)}
<1>4. 0 \in S
    BY <1>3 DEF Runs
<1>5. ASSUME NEW i \in 1 .. n, i - 1 \in S  PROVE i \in S
    <2>1. g[i] = AbortTransactionsAtNode(g[i - 1], nodes[i])
        BY <1>3 DEF Runs, Do
    <2>2. Settled(AbortTransactionsAtNode(g[i - 1], nodes[i]), P, ans, ex)
        BY <1>2, <1>5, AbortNodeSettled
    <2> QED  BY <2>1, <2>2
<1>6. n \in S
    <2> HIDE DEF S
    <2> QED  BY <1>4, <1>5, Climb
<1>7. Settled(g[n], P, ans, ex)
    BY <1>6
<1> QED  BY <1>1, <1>3, <1>7 DEF AbortTransactionsAtPath

-----------------------------------------------------------------------------
(* Losing the connection.                                                  *)

\* The callbacks of the puts that were cancelled, one after the other.
LEMMA DisconnectAll ==
    ASSUME WriteTreeAssumption, TransactionsAssumption,
           NEW c, NEW P, IsFiniteSet(P), NEW ex, Settled(c, P, <<>>, ex), NEW order \in SetToSeqs(P)
    PROVE  Settled(FoldLeft(Disconnected, c, order), {}, <<>>, ex)
<1>1. PICK n \in Nat : n = Cardinality(P)
    BY FS_CardinalityType
<1>2. order \in [1 .. n -> P] /\ \A i, j \in 1 .. n : i # j => order[i] # order[j]
    BY <1>1 DEF SetToSeqs
<1>3. \A put \in P : \E i \in 1 .. n : order[i] = put
    <2>1. order \in Injection(1 .. n, P)
        BY <1>2 DEF Injection, IsInjective
    <2>2. Cardinality(1 .. n) = n
        BY FS_Interval
    <2>3. order \in Surjection(1 .. n, P)
        BY <1>1, <2>1, <2>2, FS_Injection
    <2> QED  BY <2>3 DEF Surjection
<1>4. PICK g : Runs(g, "lose", c, n, order) /\ FoldLeft(Disconnected, c, order) = g[n]
    BY <1>2, LoseFold
<1> DEFINE left(i) == {order[j] : j \in i + 1 .. n}
           S == {i \in 0 .. n : Settled(g[i], left(i), <<>>, ex)}
<1>5. 0 \in S
    <2>1. left(0) = P
        BY <1>2, <1>3
    <2> HIDE DEF left
    <2> QED  BY <1>4, <2>1 DEF Runs
<1>6. ASSUME NEW i \in 1 .. n, i - 1 \in S  PROVE i \in S
    <2>1. order[i] \in left(i - 1)
        OBVIOUS
    <2>2. left(i - 1) \ {order[i]} = left(i)
        <3>1. \A j \in (i - 1) + 1 .. n : j = i \/ j \in i + 1 .. n
            OBVIOUS
        <3>2. \A j \in i + 1 .. n : j \in (i - 1) + 1 .. n /\ j # i /\ j \in 1 .. n
            OBVIOUS
        <3> QED  BY <1>2, <3>1, <3>2
    <2>3. g[i] = Disconnected(g[i - 1], order[i])
        BY <1>4 DEF Runs, Do
    <2>4. Settled(g[i - 1], left(i - 1), <<>>, ex)
        BY <1>6
    <2> HIDE DEF left
    <2>5. PICK b : b = g[i - 1]
        OBVIOUS
    <2>6. Settled(TransactionAnswered(b, order[i], "disconnect"), left(i - 1) \ {order[i]}, <<>>, ex)
        <3>1. Says(order[i], "disconnect", ex)
            BY DEF Says
        <3> QED  BY <2>1, <2>4, <2>5, <3>1, TransactionAnsweredSettles
    <2>7. Settled(g[i], left(i), <<>>, ex)
        BY <2>2, <2>3, <2>5, <2>6 DEF Disconnected
    <2> QED  BY <2>7
<1>7. n \in S
    <2> HIDE DEF S
    <2> QED  BY <1>5, <1>6, Climb
<1>8. left(n) = {}
    OBVIOUS
<1> QED  BY <1>4, <1>7, <1>8

-----------------------------------------------------------------------------
(* Starting a transaction.                                                 *)

\* A new transaction changes, and may be queued.
LEMMA NewTransaction ==
    ASSUME TransactionsAssumption,
           NEW c, NEW P, NEW ans, NEW ex, Settled(c, P, ans, ex),
           NEW t \in Transaction, Status(c, t) = "new", NEW path \in Place,
           NEW d, Base(d), Accounted(d), OthersKept(c, d, t),
           d.outstandingPuts = c.outstandingPuts, d.requests = c.requests, d.connected = c.connected,
           Status(d, t) \in {"run", "completed"}, TruthOf(d.transactions[t], ex[t]),
           \/ d.queues = c.queues
           \/ /\ d.queues = [c.queues EXCEPT ![path] = Append(c.queues[path], t)]
              /\ Status(d, t) = "run" /\ d.transactions[t].path = path
              /\ d.transactions[t].retryCount = 0
    PROVE  Settled(d, P, ans, ex)
<1>1. /\ Base(c) /\ Accounted(c) /\ Queues(c) /\ Carried(c, P) /\ Truth(c, ex) /\ Served(c, ans, ex)
      /\ Clean(c) /\ NoneOver(c)
    BY DEF Settled, Sound
<1>2. ~Going(c, t) /\ ~Going(d, t)
    BY DEF Going
<1>3. \A u \in Transaction : u # t => d.transactions[u] = c.transactions[u]
    BY DEF OthersKept
<1>4. \A p \in Place : Range(c.queues[p]) \subseteq Transaction /\ t \notin Range(c.queues[p])
    BY <1>1, QueuesAre DEF Queues, Waits
<1>5. \A u \in Transaction : Going(d, u) <=> Going(c, u)
    BY <1>2, <1>3 DEF Going, Status
<1>6. \A p \in Place : \A u \in Range(c.queues[p]) : d.transactions[u] = c.transactions[u]
    BY <1>3, <1>4
<1>7. ASSUME NEW p \in Place
      PROVE  \/ d.queues[p] = c.queues[p]
             \/ /\ d.queues[p] = Append(c.queues[p], t) /\ Status(d, t) = "run"
                /\ d.transactions[t].path = p /\ d.transactions[t].retryCount = 0
    BY <1>1 DEF Base
<1>8. ASSUME NEW p \in Place, d.queues[p] = Append(c.queues[p], t)
      PROVE  Range(d.queues[p]) = Range(c.queues[p]) \cup {t}
    <2>1. PICK m \in Nat : m = Len(c.queues[p])
        BY <1>1, QueuesAre DEF IsList
    <2>2. DOMAIN c.queues[p] = 1 .. m /\ IsList(c.queues[p])
        BY <1>1, <2>1, QueuesAre
    <2>3. /\ IsList(d.queues[p]) /\ Len(d.queues[p]) = m + 1
          /\ (\A i \in 1 .. m : d.queues[p][i] = c.queues[p][i]) /\ d.queues[p][m + 1] = t
        BY <1>8, <2>1, <2>2, AppendList
    <2>4. DOMAIN d.queues[p] = 1 .. m + 1
        BY <2>3, ListDomain
    <2>5. \A i \in 1 .. m + 1 : i \in 1 .. m \/ i = m + 1
        OBVIOUS
    <2>6. \A i \in 1 .. m : i \in 1 .. m + 1
        OBVIOUS
    <2>7. m + 1 \in 1 .. m + 1
        OBVIOUS
    <2> QED  BY SMTT(30), <2>2, <2>3, <2>4, <2>5, <2>6, <2>7 DEF Range
<1>9. \A p \in Place : Range(d.queues[p]) \subseteq Range(c.queues[p]) \cup {t}
    BY <1>7, <1>8
<1>10. ASSUME NEW p \in Place  PROVE Waits(d, d.queues[p], p)
    <2>1. PICK m \in Nat : m = Len(c.queues[p])
        BY <1>1, QueuesAre DEF IsList
    <2>2. DOMAIN c.queues[p] = 1 .. m /\ IsList(c.queues[p])
        BY <1>1, <2>1, QueuesAre
    <2>3. \A i \in 1 .. m : c.queues[p][i] \in Range(c.queues[p])
        BY <2>2 DEF Range
    <2>4. Waits(c, c.queues[p], p)
        BY <1>1 DEF Queues
    <2>5. \A i \in 1 .. m : Going(d, c.queues[p][i]) <=> Going(c, c.queues[p][i])
        BY <1>4, <1>5, <2>3
    <2>6. \A u \in Range(c.queues[p]) : d.transactions[u].path = p /\ Status(d, u) # "new"
        BY <1>6, <2>4 DEF Waits, Status
    <2>7. CASE d.queues[p] = c.queues[p]
        BY <2>2, <2>4, <2>5, <2>6, <2>7 DEF Waits
    <2>8. CASE /\ d.queues[p] = Append(c.queues[p], t) /\ Status(d, t) = "run"
               /\ d.transactions[t].path = p
        <3>1. PICK q : q = d.queues[p]
            OBVIOUS
        <3>2. /\ IsList(q) /\ Len(q) = m + 1
              /\ (\A i \in 1 .. m : q[i] = c.queues[p][i]) /\ q[m + 1] = t
            BY <2>1, <2>2, <2>8, <3>1, AppendList
        <3>3. DOMAIN q = 1 .. m + 1 /\ \A i \in 1 .. m + 1 : i \in 1 .. m \/ i = m + 1
            BY <3>2, ListDomain
        <3>4. \A i \in 1 .. m : q[i] # t
            BY <1>4, <2>3, <3>2
        <3>5. IsInjective(q)
            BY <2>2, <2>4, <3>2, <3>3, <3>4 DEF Waits, IsInjective
        <3>6. \A u \in Range(q) : d.transactions[u].path = p /\ Status(d, u) # "new"
            BY <1>8, <2>6, <2>8, <3>1
        <3>7. ASSUME NEW i \in 1 .. m + 1, NEW j \in 1 .. m + 1, i < j, Going(d, q[j])
              PROVE  Going(d, q[i])
            <4>1. j # m + 1
                BY <1>2, <3>2, <3>7
            <4>2. i \in 1 .. m /\ j \in 1 .. m
                BY <3>7, <4>1
            <4> QED  BY <2>2, <2>4, <2>5, <3>2, <3>7, <4>2 DEF Waits
        <3> QED  BY <3>1, <3>3, <3>5, <3>6, <3>7 DEF Waits
    <2> QED  BY <1>7, <2>7, <2>8
<1>11. Queues(d)
    BY <1>10 DEF Queues
<1>12. Carried(d, P)
    <2>1. Puts(d, P) = Puts(c, P)
        BY DEF Puts
    <2>2. ASSUME NEW put \in Puts(c, P)  PROVE IsPut(put) /\ InPut(d, put) /\ Together(d, put)
        <3>1. IsPut(put) /\ InPut(c, put) /\ Together(c, put)
            BY <1>1 DEF Carried
        <3>2. Range(put.queue) \subseteq Transaction
            BY <3>1, PutQueuesAre
        <3>3. InPut(d, put)
            BY <1>2, <1>3, <1>5, <3>1, <3>2 DEF InPut
        <3>4. Together(d, put)
            <4> SUFFICES ASSUME NEW p \in Place, NEW u \in Range(d.queues[p]), NEW v \in Range(d.queues[p]),
                                Going(d, u), Going(d, v), Carries(put, u)
                         PROVE  Carries(put, v)
                BY DEF Together
            <4>1. u \in Range(c.queues[p]) /\ v \in Range(c.queues[p])
                BY <1>2, <1>9
            <4>2. Going(c, u) /\ Going(c, v)
                BY <1>4, <1>5, <4>1
            <4> QED  BY <3>1, <4>1, <4>2 DEF Together
        <3> QED  BY <3>1, <3>3, <3>4
    <2>3. \A u \in Transaction : Going(d, u) => \E put \in Puts(c, P) : Carries(put, u)
        BY <1>1, <1>5 DEF Carried
    <2> QED  BY <1>1, <2>1, <2>2, <2>3 DEF Carried
<1>13. Truth(d, ex)
    BY <1>1, <1>3 DEF Truth
<1>14. Served(d, ans, ex)
    BY <1>1 DEF Served
<1>15. Clean(d) /\ NoneOver(d)
    <2> SUFFICES ASSUME NEW p \in Place, NEW u \in Range(d.queues[p])
                 PROVE  Ready(d, u) /\ Status(d, u) # "completed"
        BY DEF Clean, NoneOver
    <2>1. CASE u \in Range(c.queues[p])
        BY <1>1, <1>6, <2>1 DEF Clean, NoneOver, Ready, Status
    <2>2. CASE u \notin Range(c.queues[p])
        <3>1. u = t /\ Status(d, t) = "run" /\ d.transactions[t].retryCount = 0
            BY <1>7, <1>9, <2>2
        <3>2. 0 < MaxRetries
            BY DEF TransactionsAssumption
        <3> QED  BY <3>1, <3>2 DEF Ready
    <2> QED  BY <2>1, <2>2
<1> QED  BY <1>11, <1>12, <1>13, <1>14, <1>15 DEF Settled, Sound

\* A transaction is given its place, and then its status and its queue.
Placed(c, t, path, applyLocally) ==
    [c EXCEPT !.transactions[t].path = path, !.transactions[t].applyLocally = applyLocally]
Enqueued(c, t, path) ==
    [c EXCEPT !.transactions[t].status = "run", !.queues[path] = Queued(@, t)]

LEMMA StartedIs ==
    ASSUME NEW c, Base(c), NEW t \in Transaction, NEW path \in Place, NEW applyLocally
    PROVE  LET d == Placed(c, t, path, applyLocally) IN
           /\ Base(d) /\ KeepsPlaces(c, d) /\ OthersKept(c, d, t)
           /\ d.tree = c.tree /\ d.nextWriteId = c.nextWriteId /\ d.cache = c.cache
           /\ d.transactions[t].path = path /\ d.transactions[t].status = c.transactions[t].status
           /\ d.transactions[t].retryCount = c.transactions[t].retryCount
<1>1. PICK tx : tx = [c.transactions[t] EXCEPT !.path = path, !.applyLocally = applyLocally]
    OBVIOUS
<1>2. IsTransaction(c.transactions[t]) /\ IsClient(c)
    BY DEF Base, TransactionsOK
<1>3. IsTransaction(tx) /\ tx.path = path /\ tx.status = c.transactions[t].status
      /\ tx.retryCount = c.transactions[t].retryCount
    BY <1>1, <1>2 DEF IsTransaction
<1>4. PICK new : new = [c.transactions EXCEPT ![t] = tx]
    OBVIOUS
<1>5. PICK d : d = [c EXCEPT !.transactions = new]
    OBVIOUS
<1>6. Placed(c, t, path, applyLocally) = d
    <2>1. PICK a : a = [c EXCEPT !.transactions[t].path = path]
        OBVIOUS
    <2>2. PICK one : one = [c.transactions EXCEPT ![t] = [c.transactions[t] EXCEPT !.path = path]]
        OBVIOUS
    <2>3. a = [c EXCEPT !.transactions = one]
        BY <2>1, <2>2
    <2>4. a.transactions = one
        BY <1>2, <2>3 DEF IsClient
    <2>5. one[t] = [c.transactions[t] EXCEPT !.path = path]
        BY <2>2 DEF Base, TransactionsOK
    <2>6. [one[t] EXCEPT !.applyLocally = applyLocally] = tx
        BY <1>1, <2>5
    <2>7. [one EXCEPT ![t] = tx] = new
        BY <1>4, <2>2
    <2>8. Placed(c, t, path, applyLocally) =
             [a EXCEPT !.transactions =
                 [a.transactions EXCEPT ![t] = [a.transactions[t] EXCEPT !.applyLocally = applyLocally]]]
        BY <2>1 DEF Placed
    <2>9. [a EXCEPT !.transactions = new] = [c EXCEPT !.transactions = new]
        BY <2>3
    <2> QED  BY <1>5, <2>4, <2>6, <2>7, <2>8, <2>9
<1>7. /\ IsClient(d) /\ KeepsPlaces(c, d) /\ d.tree = c.tree /\ d.nextWriteId = c.nextWriteId
      /\ d.cache = c.cache /\ d.transactions = new
    BY <1>2, <1>5 DEF IsClient, KeepsPlaces
<1>8. TransactionsOK(d) /\ OthersKept(c, d, t) /\ d.transactions[t] = tx
    <2>1. TransactionsOK(c)
        BY DEF Base
    <2>2. \A u \in Transaction : d.transactions[u] = IF u = t THEN tx ELSE c.transactions[u]
        BY <1>4, <1>7, <2>1 DEF TransactionsOK
    <2>3. d.transactions = [u \in Transaction |-> d.transactions[u]]
        BY <1>4, <1>7, <2>1 DEF TransactionsOK
    <2> QED  BY <1>3, <2>1, <2>2, <2>3 DEF TransactionsOK, OthersKept
<1>9. Base(d)
    BY <1>7, <1>8 DEF Base, KeepsPlaces
<1> QED  BY <1>3, <1>6, <1>7, <1>8, <1>9

LEMMA QueuedIs ==
    ASSUME NEW c, Base(c), NEW t \in Transaction, NEW path \in Place
    PROVE  LET d == Enqueued(c, t, path) IN
           /\ Base(d) /\ OthersKept(c, d, t)
           /\ d.outstandingPuts = c.outstandingPuts /\ d.requests = c.requests /\ d.connected = c.connected
           /\ d.queues = [c.queues EXCEPT ![path] = Append(c.queues[path], t)]
           /\ d.tree = c.tree /\ d.nextWriteId = c.nextWriteId /\ d.cache = c.cache
           /\ d.transactions[t].path = c.transactions[t].path /\ d.transactions[t].status = "run"
           /\ d.transactions[t].retryCount = c.transactions[t].retryCount
<1>1. PICK tx : tx = [c.transactions[t] EXCEPT !.status = "run"]
    OBVIOUS
<1>2. IsTransaction(c.transactions[t]) /\ IsClient(c)
    BY DEF Base, TransactionsOK
<1>3. IsTransaction(tx) /\ tx.path = c.transactions[t].path /\ tx.status = "run"
      /\ tx.retryCount = c.transactions[t].retryCount
    BY <1>1, <1>2 DEF IsTransaction, Statuses
<1>4. PICK new : new = [c.transactions EXCEPT ![t] = tx]
    OBVIOUS
<1>5. PICK queues : queues = [c.queues EXCEPT ![path] = Append(c.queues[path], t)]
    OBVIOUS
<1>6. PICK a : a = [c EXCEPT !.transactions = new]
    OBVIOUS
<1>7. PICK d : d = [a EXCEPT !.queues = queues]
    OBVIOUS
<1>8. /\ IsClient(a) /\ a.transactions = new /\ a.queues = c.queues /\ a.tree = c.tree
      /\ a.nextWriteId = c.nextWriteId /\ a.cache = c.cache /\ a.requests = c.requests
      /\ a.outstandingPuts = c.outstandingPuts /\ a.connected = c.connected
    BY <1>2, <1>6 DEF IsClient
<1>9. /\ IsClient(d) /\ d.transactions = new /\ d.queues = queues /\ d.tree = c.tree
      /\ d.nextWriteId = c.nextWriteId /\ d.cache = c.cache /\ d.requests = c.requests
      /\ d.outstandingPuts = c.outstandingPuts /\ d.connected = c.connected
    BY <1>7, <1>8 DEF IsClient
<1>10. Enqueued(c, t, path) = d
    <2>1. [c EXCEPT !.transactions[t].status = "run"] = a
        BY <1>1, <1>4, <1>6
    <2>2. [a EXCEPT !.queues[path] = Queued(@, t)] = d
        BY <1>5, <1>7, <1>8 DEF Queued
    <2>3. Enqueued(c, t, path) = [a EXCEPT !.queues[path] = Queued(@, t)]
        BY <2>1 DEF Enqueued
    <2> QED  BY <2>2, <2>3
<1>11. TransactionsOK(d) /\ OthersKept(c, d, t) /\ d.transactions[t] = tx
    <2>1. TransactionsOK(c)
        BY DEF Base
    <2>2. \A u \in Transaction : d.transactions[u] = IF u = t THEN tx ELSE c.transactions[u]
        BY <1>4, <1>9, <2>1 DEF TransactionsOK
    <2>3. d.transactions = [u \in Transaction |-> d.transactions[u]]
        BY <1>4, <1>9, <2>1 DEF TransactionsOK
    <2> QED  BY <1>3, <2>1, <2>2, <2>3 DEF TransactionsOK, OthersKept
<1>12. queues \in [Place -> Seq(Transaction)]
    <2>1. Append(c.queues[path], t) \in Seq(Transaction)
        BY AppendProperties, QueuesAre
    <2> QED  BY <1>5, <2>1 DEF Base
<1>13. Base(d)
    BY <1>9, <1>11, <1>12 DEF Base
<1> QED  BY <1>3, <1>5, <1>9, <1>10, <1>11, <1>13

\* A transaction that changes nothing of its write is open before and after it, or neither.
LEMMA StartedAccounted ==
    ASSUME NEW c, Accounted(c), NEW t \in Transaction, ~Open(c, t),
           NEW d, OthersKept(c, d, t), ~Open(d, t), d.tree = c.tree, d.outstandingPuts = c.outstandingPuts
    PROVE  Accounted(d)
<1>1. \A u \in Transaction : (Open(d, u) <=> Open(c, u)) /\ (Open(c, u) => d.transactions[u] = c.transactions[u])
    BY DEF OthersKept, Open, Status
<1>2. Owners(d) /\ OpenIds(d) = OpenIds(c)
    BY <1>1 DEF Owners, OpenIds, Accounted
<1> QED  BY <1>2 DEF Accounted

LEMMA StartSettles ==
    ASSUME WriteTreeAssumption, TransactionsAssumption,
           NEW c, NEW P, NEW ans, NEW ex, Settled(c, P, ans, ex),
           NEW t \in Transaction, Status(c, t) = "new", NEW path \in Place, NEW applyLocally,
           NEW output, DOMAIN output \subseteq Child
    PROVE  LET placed == Placed(c, t, path, applyLocally)
               queued == Enqueued(placed, t, path)
           IN  /\ Settled(Finish(placed, t, "aborted"), P, ans, ex)
               /\ Settled(SendAllReadyTransactions(RaiseEvents(WriteOutput(queued, t, output))), P, ans, ex)
<1>1. PICK s : s = Placed(c, t, path, applyLocally)
    OBVIOUS
<1>2. PICK q : q = Enqueued(s, t, path)
    OBVIOUS
<1>3. Base(c) /\ Accounted(c) /\ Truth(c, ex)
    BY DEF Settled, Sound
<1>4. /\ Base(s) /\ KeepsPlaces(c, s) /\ OthersKept(c, s, t)
      /\ s.tree = c.tree /\ s.nextWriteId = c.nextWriteId /\ s.cache = c.cache
      /\ s.transactions[t].path = path /\ s.transactions[t].status = "new"
      /\ s.transactions[t].retryCount = 0
    <2>1. c.transactions[t].status = "new" /\ c.transactions[t].retryCount = 0
        BY <1>3 DEF Status, Base, TransactionsOK, IsTransaction
    <2>2. /\ Base(s) /\ KeepsPlaces(c, s) /\ OthersKept(c, s, t)
          /\ s.tree = c.tree /\ s.nextWriteId = c.nextWriteId /\ s.cache = c.cache
          /\ s.transactions[t].path = path /\ s.transactions[t].status = c.transactions[t].status
          /\ s.transactions[t].retryCount = c.transactions[t].retryCount
        BY <1>1, <1>3, StartedIs
    <2> QED  BY <2>1, <2>2
<1>5. ex[t] = 0 /\ ~Open(c, t)
    BY <1>3 DEF Truth, TruthOf, Status, Open
<1>6. Settled(Finish(s, t, "aborted"), P, ans, ex)
    <2>1. PICK d : d = Finish(s, t, "aborted")
        OBVIOUS
    <2>2. /\ IsClient(d) /\ TransactionsOK(d) /\ KeepsPlaces(s, d)
          /\ d.tree = s.tree /\ d.nextWriteId = s.nextWriteId /\ d.cache = s.cache
          /\ Closed(s, d, t, "aborted")
        BY <1>4, <2>1, FinishIs DEF Base
    <2>3. OthersKept(c, d, t) /\ KeepsPlaces(c, d) /\ d.tree = c.tree
        BY <1>4, <2>2 DEF OthersKept, KeepsPlaces, Closed
    <2>4. Base(d)
        BY <1>4, <2>2 DEF Base, KeepsPlaces
    <2>5. Status(d, t) = "completed" /\ ~Open(d, t) /\ TruthOf(d.transactions[t], ex[t])
        BY <1>5, <2>2 DEF Closed, Status, Open, TruthOf
    <2>6. Accounted(d)
        BY <1>3, <1>5, <2>3, <2>5, StartedAccounted DEF KeepsPlaces
    <2>7. /\ d.outstandingPuts = c.outstandingPuts /\ d.requests = c.requests
          /\ d.connected = c.connected /\ d.queues = c.queues
        BY <2>3 DEF KeepsPlaces
    <2> QED  BY <2>1, <2>3, <2>4, <2>5, <2>6, <2>7, NewTransaction
<1>7. /\ Base(q) /\ OthersKept(s, q, t)
      /\ q.outstandingPuts = s.outstandingPuts /\ q.requests = s.requests /\ q.connected = s.connected
      /\ q.queues = [s.queues EXCEPT ![path] = Append(s.queues[path], t)]
      /\ q.tree = s.tree /\ q.nextWriteId = s.nextWriteId
      /\ q.transactions[t].path = path /\ q.transactions[t].status = "run"
      /\ q.transactions[t].retryCount = 0
    <2>1. /\ Base(q) /\ OthersKept(s, q, t)
          /\ q.outstandingPuts = s.outstandingPuts /\ q.requests = s.requests /\ q.connected = s.connected
          /\ q.queues = [s.queues EXCEPT ![path] = Append(s.queues[path], t)]
          /\ q.tree = s.tree /\ q.nextWriteId = s.nextWriteId /\ q.cache = s.cache
          /\ q.transactions[t].path = s.transactions[t].path /\ q.transactions[t].status = "run"
          /\ q.transactions[t].retryCount = s.transactions[t].retryCount
        BY <1>2, <1>4, QueuedIs
    <2> QED  BY <1>4, <2>1
<1>8. PICK w : w = WriteOutput(q, t, output)
    OBVIOUS
<1>9. PICK next \in Nat : next = c.nextWriteId
    BY <1>3 DEF Base
<1>10. /\ Base(w) /\ KeepsPlaces(q, w) /\ Repeated(q, w, t)
       /\ w.transactions[t].currentWriteId = next
       /\ WriteIds(w.tree) = WriteIds(c.tree) \cup {next} /\ next \notin WriteIds(c.tree)
    BY <1>4, <1>7, <1>8, <1>9, WriteOutputIs
<1>11. /\ OthersKept(c, w, t) /\ Status(w, t) = "run" /\ w.transactions[t].path = path
       /\ w.transactions[t].retryCount = 0 /\ TruthOf(w.transactions[t], ex[t]) /\ Open(w, t)
       /\ w.outstandingPuts = c.outstandingPuts /\ w.requests = c.requests /\ w.connected = c.connected
       /\ w.queues = [c.queues EXCEPT ![path] = Append(c.queues[path], t)]
    <2>1. OthersKept(c, w, t)
        BY <1>4, <1>7, <1>10 DEF OthersKept, Repeated
    <2>2. Status(w, t) = "run" /\ w.transactions[t].path = path /\ w.transactions[t].retryCount = 0
        BY <1>7, <1>10 DEF Repeated, Status
    <2>3. TruthOf(w.transactions[t], ex[t]) /\ Open(w, t)
        BY <1>5, <2>2 DEF TruthOf, Open, Status
    <2>4. /\ w.outstandingPuts = c.outstandingPuts /\ w.requests = c.requests /\ w.connected = c.connected
          /\ w.queues = [c.queues EXCEPT ![path] = Append(c.queues[path], t)]
        BY <1>4, <1>7, <1>10 DEF KeepsPlaces
    <2> QED  BY <2>1, <2>2, <2>3, <2>4
<1>12. next \notin OpenIds(c) /\ next \notin SetIds(c.outstandingPuts)
    BY <1>3, <1>10 DEF Accounted
<1>13. OpenIds(w) = OpenIds(c) \cup {next} /\ Owners(w)
    <2>1. OpenIds(w) = (OpenIds(c) \ {next}) \cup {next} /\ Owners(w)
        BY <1>3, <1>5, <1>10, <1>11, <1>12, OpenIdsMoved DEF Accounted
    <2> QED  BY <2>1
<1>14. Accounted(w)
    BY <1>3, <1>10, <1>11, <1>12, <1>13 DEF Accounted
<1>15. Settled(w, P, ans, ex)
    BY <1>10, <1>11, <1>14, NewTransaction
<1>16. Settled(RaiseEvents(w), P, ans, ex)
    BY <1>10, <1>15, RaiseKeeps, SameSound DEF Base
<1>17. Settled(SendAllReadyTransactions(RaiseEvents(w)), P, ans, ex)
    BY <1>16, SendAllSettled DEF Settled
<1> QED  BY <1>1, <1>2, <1>6, <1>8, <1>17

-----------------------------------------------------------------------------
(* The first message is taken from the connection.                         *)

LEMMA AnswersShift ==
    ASSUME NEW ans, IsList(ans), ans # <<>>, NEW n \in Nat, NEW at, AnswersAt(ans, n, at)
    PROVE  /\ ans[1].type = "answer" =>
                /\ n >= 1 /\ at[1] = 1
                /\ AnswersAt(Tail(ans), n - 1, [i \in 1 .. n - 1 |-> at[i + 1] - 1])
           /\ ans[1].type # "answer" => AnswersAt(Tail(ans), n, [i \in 1 .. n |-> at[i] - 1])
<1>1. PICK m \in Nat : m = Len(ans)
    BY DEF IsList
<1>2. PICK rest : rest = Tail(ans)
    OBVIOUS
<1>3. m >= 1 /\ IsList(rest) /\ Len(rest) = m - 1 /\ \A i \in 1 .. m - 1 : rest[i] = ans[i + 1]
    BY <1>1, <1>2, TailList
<1>4. /\ \A i \in 1 .. n : at[i] \in 1 .. m /\ ans[at[i]].type = "answer"
      /\ \A i, j \in 1 .. n : i < j => at[i] < at[j]
      /\ \A k \in 1 .. m : ans[k].type = "answer" => \E i \in 1 .. n : at[i] = k
    BY <1>1 DEF AnswersAt
<1>5. ASSUME ans[1].type = "answer"
      PROVE  n >= 1 /\ at[1] = 1 /\ AnswersAt(rest, n - 1, [i \in 1 .. n - 1 |-> at[i + 1] - 1])
    <2>1. PICK i \in 1 .. n : at[i] = 1
        BY <1>3, <1>4, <1>5
    <2>2. i = 1
        <3> SUFFICES ASSUME i # 1  PROVE FALSE
            OBVIOUS
        <3>1. 1 \in 1 .. n /\ 1 < i
            OBVIOUS
        <3>2. at[1] < at[i] /\ at[1] \in 1 .. m
            BY <1>4, <3>1
        <3> QED  BY <1>1, <2>1, <3>2
    <2>3. n >= 1 /\ at[1] = 1 /\ 1 \in 1 .. n
        BY <2>1, <2>2
    <2>4. PICK later : later = [k \in 1 .. n - 1 |-> at[k + 1] - 1]
        OBVIOUS
    <2>5. \A k \in 1 .. n - 1 : k + 1 \in 1 .. n /\ 1 < k + 1
        OBVIOUS
    <2>6. \A k \in 1 .. n - 1 : at[k + 1] \in 2 .. m /\ later[k] = at[k + 1] - 1
        <3> SUFFICES ASSUME NEW k \in 1 .. n - 1  PROVE at[k + 1] \in 2 .. m /\ later[k] = at[k + 1] - 1
            OBVIOUS
        <3>1. at[1] < at[k + 1] /\ at[k + 1] \in 1 .. m
            BY <1>4, <2>3, <2>5
        <3> QED  BY <2>3, <2>4, <3>1
    <2>7. ASSUME NEW k \in 1 .. n - 1  PROVE later[k] \in 1 .. m - 1 /\ rest[later[k]].type = "answer"
        <3>1. PICK x \in 2 .. m : x = at[k + 1] /\ later[k] = x - 1
            BY <2>6
        <3>2. x - 1 \in 1 .. m - 1 /\ x - 1 + 1 = x
            BY <1>1, <3>1
        <3>3. ans[x].type = "answer"
            BY <1>4, <2>5, <3>1
        <3> QED  BY <1>3, <3>1, <3>2, <3>3
    <2>8. ASSUME NEW j \in 1 .. n - 1, NEW k \in 1 .. n - 1, j < k  PROVE later[j] < later[k]
        <3>1. at[j + 1] < at[k + 1]
            BY <1>4, <2>5, <2>8
        <3>2. PICK x \in 2 .. m, y \in 2 .. m : x = at[j + 1] /\ y = at[k + 1] /\ later[j] = x - 1 /\ later[k] = y - 1
            BY <2>6
        <3> QED  BY <1>1, <3>1, <3>2
    <2>9. ASSUME NEW k \in 1 .. m - 1, rest[k].type = "answer"  PROVE \E j \in 1 .. n - 1 : later[j] = k
        <3>1. k + 1 \in 1 .. m /\ ans[k + 1].type = "answer"
            BY <1>1, <1>3, <2>9
        <3>2. PICK j \in 1 .. n : at[j] = k + 1
            BY <1>4, <3>1
        <3>3. j # 1
            BY <2>3, <3>2
        <3>4. PICK q \in 1 .. n - 1 : j = q + 1
            <4>1. j - 1 \in 1 .. n - 1 /\ j = j - 1 + 1
                BY <3>3
            <4> QED  BY <4>1
        <3>5. later[q] = k
            <4>1. at[q + 1] = k + 1 /\ later[q] = at[q + 1] - 1
                BY <2>6, <3>2, <3>4
            <4>2. later[q] = k + 1 - 1
                BY <4>1
            <4> QED  BY <4>2
        <3> QED  BY <3>5
    <2>10. AnswersAt(rest, n - 1, later)
        BY <1>3, <2>7, <2>8, <2>9 DEF AnswersAt
    <2> QED  BY <2>3, <2>4, <2>10
<1>6. ASSUME ans[1].type # "answer"  PROVE AnswersAt(rest, n, [i \in 1 .. n |-> at[i] - 1])
    <2>1. PICK later : later = [k \in 1 .. n |-> at[k] - 1]
        OBVIOUS
    <2>2. \A k \in 1 .. n : at[k] \in 2 .. m /\ later[k] = at[k] - 1
        <3> SUFFICES ASSUME NEW k \in 1 .. n  PROVE at[k] \in 2 .. m /\ later[k] = at[k] - 1
            OBVIOUS
        <3>1. at[k] # 1 /\ at[k] \in 1 .. m
            BY <1>4, <1>6
        <3> QED  BY <1>1, <2>1, <3>1
    <2>3. ASSUME NEW k \in 1 .. n  PROVE later[k] \in 1 .. m - 1 /\ rest[later[k]].type = "answer"
        <3>1. PICK x \in 2 .. m : x = at[k] /\ later[k] = x - 1
            BY <2>2
        <3>2. x - 1 \in 1 .. m - 1 /\ x - 1 + 1 = x
            BY <1>1, <3>1
        <3>3. ans[x].type = "answer"
            BY <1>4, <3>1
        <3> QED  BY <1>3, <3>1, <3>2, <3>3
    <2>4. ASSUME NEW j \in 1 .. n, NEW k \in 1 .. n, j < k  PROVE later[j] < later[k]
        <3>1. at[j] < at[k]
            BY <1>4, <2>4
        <3>2. PICK x \in 2 .. m, y \in 2 .. m : x = at[j] /\ y = at[k] /\ later[j] = x - 1 /\ later[k] = y - 1
            BY <2>2
        <3> QED  BY <1>1, <3>1, <3>2
    <2>5. ASSUME NEW k \in 1 .. m - 1, rest[k].type = "answer"  PROVE \E j \in 1 .. n : later[j] = k
        <3>1. k + 1 \in 1 .. m /\ ans[k + 1].type = "answer"
            BY <1>1, <1>3, <2>5
        <3>2. PICK j \in 1 .. n : at[j] = k + 1
            BY <1>4, <3>1
        <3>3. later[j] = k
            BY <2>2, <3>2
        <3> QED  BY <3>3
    <2> QED  BY <1>3, <2>1, <2>3, <2>4, <2>5 DEF AnswersAt
<1> QED  BY <1>2, <1>5, <1>6

\* The first answer is to the first put.
LEMMA ServedAnswer ==
    ASSUME NEW c, NEW ans, NEW ex, Served(c, ans, ex), IsList(c.outstandingPuts), IsList(ans), ans # <<>>,
           ans[1].type = "answer",
           NEW d, d.connected = c.connected, d.requests = c.requests,
           d.outstandingPuts = Tail(c.outstandingPuts)
    PROVE  /\ Served(d, Tail(ans), ex) /\ c.outstandingPuts # <<>>
           /\ Fits(Head(c.outstandingPuts), ans[1].status, ex)
<1>1. c.connected /\ Connected(c.outstandingPuts, c.requests, ans, ex)
    BY DEF Served, Offline
<1>2. PICK puts : puts = c.outstandingPuts
    OBVIOUS
<1>3. PICK n, h, at : Online(puts, c.requests, ans, ex, n, h, at)
    BY <1>1, <1>2 DEF Connected
<1>4. PICK m \in Nat : m = Len(puts)
    BY <1>2 DEF IsList
<1>5. /\ n \in Nat /\ h \in {0, 1} /\ n <= m /\ AnswersAt(ans, n, at) /\ Len(c.requests) = m - n + h
    BY <1>3, <1>4 DEF Online
<1>6. PICK later : later = [i \in 1 .. n - 1 |-> at[i + 1] - 1]
    OBVIOUS
<1>7. n >= 1 /\ at[1] = 1 /\ AnswersAt(Tail(ans), n - 1, later)
    BY <1>5, <1>6, AnswersShift
<1>8. puts # <<>>
    BY <1>4, <1>5, <1>7, EmptyList
<1>9. PICK rest : rest = Tail(puts)
    OBVIOUS
<1>10. /\ IsList(rest) /\ Len(rest) = m - 1 /\ Head(puts) = puts[1]
       /\ \A i \in 1 .. m - 1 : rest[i] = puts[i + 1]
    BY <1>2, <1>4, <1>8, <1>9, TailList
<1>11. Fits(puts[1], ans[1].status, ex)
    <2>1. 1 \in 1 .. n
        BY <1>5, <1>7
    <2>2. Fits(puts[1], ans[at[1]].status, ex)
        BY <1>3, <2>1 DEF Online
    <2> QED  BY <1>7, <2>2
<1>12. ASSUME NEW i \in 1 .. n - 1  PROVE Fits(rest[i], Tail(ans)[later[i]].status, ex)
    <2>1. i + 1 \in 1 .. n /\ i \in 1 .. m - 1
        BY <1>4, <1>5
    <2>2. Fits(puts[i + 1], ans[at[i + 1]].status, ex)
        BY <1>3, <2>1 DEF Online
    <2>3. PICK k \in 1 .. Len(ans) - 1 : k = later[i]
        <3>1. Len(Tail(ans)) = Len(ans) - 1
            BY TailList
        <3> QED  BY <1>7, <3>1 DEF AnswersAt
    <2>4. at[i + 1] \in 1 .. Len(ans) /\ Len(ans) \in Nat
        BY <1>5, <2>1 DEF AnswersAt, IsList
    <2>5. at[i + 1] = k + 1
        BY <1>6, <2>3, <2>4
    <2>6. Tail(ans)[k] = ans[k + 1]
        BY <2>3, TailList
    <2> QED  BY <1>10, <2>1, <2>2, <2>3, <2>5, <2>6
<1>13. ASSUME NEW i \in (n - 1) + 1 .. m - 1
       PROVE  c.requests[h + i - (n - 1)] = rest[i] /\ Unserved(rest[i], ex)
    <2>1. i + 1 \in n + 1 .. m /\ h + i - (n - 1) = h + (i + 1) - n /\ i \in 1 .. m - 1
        BY <1>4, <1>5, <1>7
    <2>2. c.requests[h + (i + 1) - n] = puts[i + 1] /\ Unserved(puts[i + 1], ex)
        BY <1>3, <1>4, <2>1 DEF Online
    <2> QED  BY <1>10, <2>1, <2>2
<1>14. \A i \in 1 .. m - 1 : rest[i].sent
    <2> SUFFICES ASSUME NEW i \in 1 .. m - 1  PROVE rest[i].sent
        OBVIOUS
    <2>1. i + 1 \in 1 .. m
        BY <1>4
    <2>2. puts[i + 1].sent
        BY <1>3, <1>4, <2>1 DEF Online
    <2> QED  BY <1>10, <2>2
<1>15. Online(rest, c.requests, Tail(ans), ex, n - 1, h, later)
    <2>1. n - 1 \in Nat /\ n - 1 <= m - 1 /\ m - n + h = (m - 1) - (n - 1) + h
        BY <1>4, <1>5, <1>7
    <2>2. h = 1 => c.requests[1].type = "listen"
        BY <1>3 DEF Online
    <2> QED  BY <1>5, <1>7, <1>10, <1>12, <1>13, <1>14, <2>1, <2>2 DEF Online
<1>16. Served(d, Tail(ans), ex)
    BY <1>1, <1>2, <1>9, <1>15 DEF Served, Connected
<1> QED  BY <1>2, <1>8, <1>10, <1>11, <1>16

\* Data are no answer to a put.
LEMMA ServedData ==
    ASSUME NEW c, NEW ans, NEW ex, Served(c, ans, ex), IsList(ans), ans # <<>>, ans[1].type # "answer"
    PROVE  Served(c, Tail(ans), ex)
<1>1. c.connected /\ Connected(c.outstandingPuts, c.requests, ans, ex)
    BY DEF Served, Offline
<1>2. PICK puts : puts = c.outstandingPuts
    OBVIOUS
<1>3. PICK n, h, at : Online(puts, c.requests, ans, ex, n, h, at)
    BY <1>1, <1>2 DEF Connected
<1>4. PICK later : later = [i \in 1 .. n |-> at[i] - 1]
    OBVIOUS
<1>5. n \in Nat /\ AnswersAt(ans, n, at) /\ AnswersAt(Tail(ans), n, later)
    BY ZenonT(40), <1>3, <1>4, AnswersShift DEF Online
<1>6. ASSUME NEW i \in 1 .. n  PROVE Fits(puts[i], Tail(ans)[later[i]].status, ex)
    <2>1. PICK k \in 1 .. Len(ans) - 1 : k = later[i]
        <3>1. Len(Tail(ans)) = Len(ans) - 1
            BY TailList
        <3> QED  BY <1>5, <3>1 DEF AnswersAt
    <2>2. at[i] \in 1 .. Len(ans) /\ Len(ans) \in Nat
        BY <1>5 DEF AnswersAt, IsList
    <2>3. at[i] = k + 1
        BY <1>4, <2>1, <2>2
    <2>4. Tail(ans)[k] = ans[k + 1]
        BY <2>1, TailList
    <2>5. Fits(puts[i], ans[at[i]].status, ex)
        BY <1>3 DEF Online
    <2> QED  BY <2>1, <2>3, <2>4, <2>5
<1>7. Online(puts, c.requests, Tail(ans), ex, n, h, later)
    BY <1>3, <1>5, <1>6 DEF Online
<1> QED  BY <1>1, <1>2, <1>7 DEF Served, Connected

\* Without its first put.
LEMMA FirstPut ==
    ASSUME NEW puts, IsList(puts), puts # <<>>
    PROVE  /\ Range(puts) = Range(Tail(puts)) \cup {Head(puts)} /\ Head(puts) = puts[1] /\ IsList(Tail(puts))
           /\ Head(puts).type # "set" => SetIds(Tail(puts)) = SetIds(puts)
           /\ OwnSets(puts) => OwnSets(Tail(puts))
           /\ OwnSets(puts) /\ Head(puts).type = "set" =>
                 SetIds(Tail(puts)) = SetIds(puts) \ {Head(puts).id} /\ Head(puts).id \in SetIds(puts)
<1>1. PICK m \in Nat : m = Len(puts)
    BY DEF IsList
<1>2. PICK rest : rest = Tail(puts)
    OBVIOUS
<1>3. PICK put : put = Head(puts)
    OBVIOUS
<1>4. /\ IsList(rest) /\ Len(rest) = m - 1 /\ m >= 1 /\ put = puts[1]
      /\ \A i \in 1 .. m - 1 : rest[i] = puts[i + 1]
    BY <1>1, <1>2, <1>3, TailList
<1>5. DOMAIN puts = 1 .. m /\ DOMAIN rest = 1 .. m - 1
    BY <1>1, <1>4, ListDomain
<1>6. \A i \in 1 .. m - 1 : i + 1 \in 1 .. m /\ i + 1 # 1
    BY <1>1
<1>7. ASSUME NEW i \in 1 .. m, i # 1  PROVE \E j \in 1 .. m - 1 : i = j + 1 /\ rest[j] = puts[i]
    <2>1. i - 1 \in 1 .. m - 1 /\ i = i - 1 + 1
        BY <1>1, <1>7
    <2> QED  BY <1>4, <2>1
<1>8. Range(puts) = Range(rest) \cup {put}
    <2>1. \A i \in 1 .. m : puts[i] \in Range(rest) \cup {put}
        BY <1>4, <1>5, <1>7 DEF Range
    <2>2. \A i \in 1 .. m - 1 : rest[i] \in Range(puts)
        BY <1>4, <1>5, <1>6 DEF Range
    <2>3. put \in Range(puts)
        BY <1>1, <1>4, <1>5 DEF Range
    <2> QED  BY <1>5, <2>1, <2>2, <2>3 DEF Range
<1>9. put.type # "set" => SetIds(rest) = SetIds(puts)
    BY <1>8 DEF SetIds
<1>10. ASSUME OwnSets(puts)  PROVE OwnSets(rest)
    <2> SUFFICES ASSUME NEW i \in 1 .. m - 1, NEW j \in 1 .. m - 1, rest[i].type = "set", rest[j].type = "set",
                        rest[i].id = rest[j].id
                 PROVE  i = j
        BY <1>4 DEF OwnSets
    <2>1. i + 1 = j + 1
        BY <1>1, <1>4, <1>6, <1>10 DEF OwnSets
    <2> QED  BY <1>1, <2>1
<1>11. ASSUME OwnSets(puts), put.type = "set"
       PROVE  SetIds(rest) = SetIds(puts) \ {put.id} /\ put.id \in SetIds(puts)
    <2>1. ASSUME NEW other \in Range(rest), other.type = "set"  PROVE other.id # put.id
        <3>1. PICK i \in 1 .. m - 1 : other = rest[i]
            BY <1>5 DEF Range
        <3>2. other = puts[i + 1] /\ i + 1 \in 1 .. m /\ 1 \in 1 .. m /\ i + 1 # 1
            BY <1>1, <1>4, <1>6, <3>1
        <3> QED  BY <1>1, <1>4, <1>11, <2>1, <3>2 DEF OwnSets
    <2> QED  BY <1>8, <1>11, <2>1 DEF SetIds
<1> QED  BY <1>2, <1>3, <1>4, <1>8, <1>9, <1>10, <1>11

LEMMA FirstCarried ==
    ASSUME NEW c, IsList(c.outstandingPuts), c.outstandingPuts # <<>>, Carried(c, {}),
           NEW d, d.queues = c.queues, d.transactions = c.transactions,
           d.outstandingPuts = Tail(c.outstandingPuts)
    PROVE  Carried(d, {Head(c.outstandingPuts)}) /\ IsPut(Head(c.outstandingPuts))
<1>1. PICK puts : puts = c.outstandingPuts
    OBVIOUS
<1>2. PICK put : put = Head(puts)
    OBVIOUS
<1>3. PICK rest : rest = Tail(puts)
    OBVIOUS
<1>4. PICK m \in Nat : m = Len(puts)
    BY <1>1 DEF IsList
<1>5. /\ IsList(rest) /\ Len(rest) = m - 1 /\ m >= 1 /\ put = puts[1]
      /\ \A i \in 1 .. m - 1 : rest[i] = puts[i + 1]
    BY <1>1, <1>2, <1>3, <1>4, TailList
<1>6. Puts(d, {put}) = Puts(c, {})
    BY <1>1, <1>2, <1>3, FirstPut DEF Puts
<1>7. \A t : (Going(d, t) <=> Going(c, t))
    BY SameStatus
<1>8. \A other \in Puts(c, {}) : IsPut(other) /\ InPut(d, other) /\ Together(d, other)
    BY <1>7 DEF Carried, InPut, Together
<1>9. \A t \in Transaction : Going(d, t) => \E other \in Puts(c, {}) : Carries(other, t)
    BY <1>7 DEF Carried
<1>10. \A i, j \in 1 .. m : i # j => Apart(puts[i], puts[j])
    BY <1>1, <1>4 DEF Carried
<1>11. ASSUME NEW i \in 1 .. m - 1  PROVE i + 1 \in 1 .. m /\ i + 1 # 1 /\ 1 \in 1 .. m
    BY <1>4
<1>12. \A i, j \in 1 .. m - 1 : i # j => Apart(rest[i], rest[j])
    <2> SUFFICES ASSUME NEW i \in 1 .. m - 1, NEW j \in 1 .. m - 1, i # j  PROVE Apart(rest[i], rest[j])
        OBVIOUS
    <2>1. i + 1 # j + 1
        BY <1>4
    <2> QED  BY <1>5, <1>10, <1>11, <2>1
<1>13. \A i \in 1 .. m - 1 : Apart(rest[i], put)
    BY <1>5, <1>10, <1>11
<1>14. \A other \in Range(rest) : Apart(other, put)
    <2>1. DOMAIN rest = 1 .. m - 1
        BY <1>5, ListDomain
    <2> QED  BY <1>13, <2>1 DEF Range
<1>15. IsPut(put)
    <2>1. put \in Puts(c, {})
        BY <1>1, <1>2, FirstPut DEF Puts
    <2> QED  BY <1>8, <2>1
<1>16. Carried(d, {put})
    <2>1. d.outstandingPuts = rest
        BY <1>1, <1>3
    <2> QED  BY <1>5, <1>6, <1>8, <1>9, <1>12, <1>14, <2>1 DEF Carried
<1> QED  BY <1>1, <1>2, <1>15, <1>16

\* The answer to the first put.
LEMMA AnswerSettles ==
    ASSUME WriteTreeAssumption, TransactionsAssumption,
           NEW c, NEW ans, NEW ex, Settled(c, {}, ans, ex), IsList(ans), ans # <<>>,
           IsMessage(Head(ans)), Head(ans).type = "answer"
    PROVE  Settled(Answered([c EXCEPT !.outstandingPuts = Tail(@)], Head(c.outstandingPuts), Head(ans).status),
                   {}, Tail(ans), ex)
<1>1. /\ Base(c) /\ Accounted(c) /\ Queues(c) /\ Carried(c, {}) /\ Truth(c, ex) /\ Served(c, ans, ex)
      /\ Clean(c) /\ NoneOver(c)
    BY DEF Settled, Sound
<1>2. PICK puts : puts = c.outstandingPuts
    OBVIOUS
<1>3. PICK put : put = Head(puts)
    OBVIOUS
<1>4. PICK rest : rest = Tail(puts)
    OBVIOUS
<1>5. PICK status : status = Head(ans).status
    OBVIOUS
<1>6. PICK d : d = [c EXCEPT !.outstandingPuts = rest]
    OBVIOUS
<1>7. /\ IsClient(d) /\ d.tree = c.tree /\ d.nextWriteId = c.nextWriteId /\ d.cache = c.cache
      /\ d.transactions = c.transactions /\ d.queues = c.queues /\ d.outstandingPuts = rest
      /\ d.requests = c.requests /\ d.connected = c.connected
    BY <1>1, <1>6 DEF Base, IsClient
<1>8. ans[1] = Head(ans)
    BY TailList
<1>9. IsList(puts) /\ puts # <<>> /\ Served(d, Tail(ans), ex) /\ Fits(put, status, ex)
    BY <1>1, <1>2, <1>3, <1>4, <1>5, <1>7, <1>8, ServedAnswer DEF Base
<1>10. Carried(d, {put}) /\ IsPut(put)
    BY <1>1, <1>2, <1>3, <1>4, <1>7, <1>9, FirstCarried
<1>11. IsList(rest)
    BY <1>4, <1>9, TailList
<1>12. Base(d)
    BY <1>1, <1>7, <1>11 DEF Base, TransactionsOK
<1>13. \A t : Status(d, t) = Status(c, t) /\ (Going(d, t) <=> Going(c, t)) /\ (Open(d, t) <=> Open(c, t))
              /\ (Ready(d, t) <=> Ready(c, t))
    BY <1>7, SameStatus
<1>14. Queues(d) /\ Truth(d, ex) /\ Clean(d) /\ NoneOver(d)
    <2>1. \A queue, p : Waits(c, queue, p) => Waits(d, queue, p)
        BY <1>7, <1>13 DEF Waits
    <2>2. Queues(d)
        BY <1>1, <1>7, <2>1 DEF Queues
    <2> QED  BY <1>1, <1>7, <1>13, <2>2 DEF Truth, Clean, NoneOver
<1>15. OpenIds(d) = OpenIds(c) /\ Owners(d) /\ WriteIds(d.tree) = WriteIds(c.tree)
    BY <1>1, <1>7, <1>13 DEF OpenIds, Owners, Accounted
<1>16. OwnSets(puts) /\ OwnSets(rest)
    BY <1>1, <1>2, <1>4, <1>9, FirstPut DEF Accounted
<1>17. [c EXCEPT !.outstandingPuts = Tail(@)] = d
    BY <1>2, <1>4, <1>6
<1>18. CASE put.type = "transaction"
    <2>1. SetIds(rest) = SetIds(puts)
        BY <1>3, <1>4, <1>9, <1>18, FirstPut
    <2>2. Accounted(d)
        BY <1>1, <1>2, <1>7, <1>15, <1>16, <2>1 DEF Accounted
    <2>3. Settled(d, {put}, Tail(ans), ex)
        BY <1>9, <1>10, <1>12, <1>14, <2>2 DEF Settled, Sound
    <2>4. Says(put, status, ex)
        BY <1>5, <1>9 DEF Says, IsMessage
    <2>5. Settled(TransactionAnswered(d, put, status), {put} \ {put}, Tail(ans), ex)
        BY <2>3, <2>4, TransactionAnsweredSettles
    <2>6. {put} \ {put} = {}
        OBVIOUS
    <2> QED  BY <1>2, <1>3, <1>5, <1>17, <1>18, <2>5, <2>6 DEF Answered
<1>19. CASE put.type = "set"
    <2>1. put.queue = <<>> /\ put.path \in Place
        BY <1>10, <1>19 DEF IsPut
    <2>2. SetIds(rest) = SetIds(puts) \ {put.id} /\ put.id \in SetIds(puts)
        BY <1>3, <1>4, <1>9, <1>16, <1>19, FirstPut
    <2>3. put.id \in WriteIds(c.tree) /\ put.id \notin OpenIds(c)
        BY <1>1, <1>2, <2>2 DEF Accounted
    <2>4. PICK e : e = AckUserWrite(d, put.id)
        OBVIOUS
    <2>5. KeepsRest(d, e) /\ e.nextWriteId = d.nextWriteId /\ e.tree.allWrites = RemoveWriteId(d.tree, put.id).tree.allWrites
        BY <1>7, <2>4, AckUserWriteKeeps
    <2>6. WritesOK(e.tree.allWrites, e.nextWriteId) /\ WriteIds(e.tree) = WriteIds(c.tree) \ {put.id}
        <3>1. /\ WritesOK(RemoveWriteId(c.tree, put.id).tree.allWrites, c.nextWriteId)
              /\ WriteIds(RemoveWriteId(c.tree, put.id).tree) = WriteIds(c.tree) \ {put.id}
            BY <1>1, <2>3, RemoveWrite DEF Base
        <3>2. WriteIds(e.tree) = WriteIds(RemoveWriteId(c.tree, put.id).tree)
            BY <1>7, <2>5 DEF WriteIds
        <3> QED  BY <1>7, <2>5, <3>1, <3>2
    <2>7. Base(e)
        BY <1>12, <2>5, <2>6 DEF Base, KeepsRest, TransactionsOK
    <2>8. /\ e.transactions = d.transactions /\ KeepsPlaces(d, e)
          /\ e.outstandingPuts = rest
        BY <1>7, <2>5 DEF KeepsRest, KeepsPlaces
    <2>9. \A t : Status(e, t) = Status(d, t) /\ (Going(e, t) <=> Going(d, t)) /\ (Open(e, t) <=> Open(d, t))
                 /\ (Ready(e, t) <=> Ready(d, t))
        BY <2>8, SameStatus
    <2>10. KeepsGoing(d, e)
        BY <2>8, <2>9 DEF KeepsGoing
    <2>11. Queues(e) /\ Carried(e, {put})
        BY <1>10, <1>12, <1>14, <2>10, SameGoing
    <2>12. Served(e, Tail(ans), ex)
        BY <1>9, <2>8, SameServed
    <2>13. Truth(e, ex) /\ Clean(e) /\ NoneOver(e)
        BY <1>14, <2>8, <2>9 DEF Truth, Clean, NoneOver, KeepsPlaces
    <2>14. Accounted(e)
        <3>1. OpenIds(e) = OpenIds(c) /\ Owners(e)
            BY <1>15, <2>8, <2>9 DEF OpenIds, Owners
        <3> QED  BY <1>1, <1>2, <1>16, <2>2, <2>3, <2>6, <2>8, <3>1 DEF Accounted
    <2>15. Carried(e, {})
        <3>1. \A t : ~Carries(put, t)
            BY <2>1 DEF Carries, Range
        <3>2. Puts(e, {}) \subseteq Puts(e, {put})
            BY DEF Puts
        <3>3. \A other \in Puts(e, {put}) : other = put \/ other \in Puts(e, {})
            BY DEF Puts
        <3> QED  BY <2>11, <3>1, <3>2, <3>3 DEF Carried
    <2>16. Settled(e, {}, Tail(ans), ex)
        BY <2>7, <2>11, <2>12, <2>13, <2>14, <2>15 DEF Settled, Sound
    <2>17. Settled(RerunIfChanged(e, put.path), {}, Tail(ans), ex)
        BY <2>1, <2>16, RerunIfChangedSettled
    <2>18. put.type # "transaction"
        BY <1>19
    <2> QED  BY <1>2, <1>3, <1>5, <1>17, <2>4, <2>17, <2>18 DEF Answered, SetAnswered
<1> QED  BY <1>10, <1>18, <1>19 DEF IsPut

-----------------------------------------------------------------------------
(* A set.                                                                  *)

\* One more set in the puts.
LEMMA LastPut ==
    ASSUME NEW puts, IsList(puts), NEW put, put.type = "set", OwnSets(puts), put.id \notin SetIds(puts)
    PROVE  /\ Range(Append(puts, put)) = Range(puts) \cup {put}
           /\ SetIds(Append(puts, put)) = SetIds(puts) \cup {put.id} /\ OwnSets(Append(puts, put))
<1>1. PICK m \in Nat : m = Len(puts)
    BY DEF IsList
<1>2. PICK more : more = Append(puts, put)
    OBVIOUS
<1>3. IsList(more) /\ Len(more) = m + 1 /\ (\A i \in 1 .. m : more[i] = puts[i]) /\ more[m + 1] = put
    BY <1>1, <1>2, AppendList
<1>4. DOMAIN puts = 1 .. m /\ DOMAIN more = 1 .. m + 1
    BY <1>1, <1>3, ListDomain
<1>5. \A i \in 1 .. m + 1 : i \in 1 .. m \/ i = m + 1
    OBVIOUS
<1>6. \A i \in 1 .. m : i \in 1 .. m + 1
    OBVIOUS
<1>7. m + 1 \in 1 .. m + 1
    OBVIOUS
<1>8. Range(more) = Range(puts) \cup {put}
    BY <1>3, <1>4, <1>5, <1>6, <1>7 DEF Range
<1>9. SetIds(more) = SetIds(puts) \cup {put.id}
    BY <1>8 DEF SetIds
<1>10. \A i \in 1 .. m : puts[i].type = "set" => puts[i].id # put.id
    BY <1>4 DEF SetIds, Range
<1>11. OwnSets(more)
    <2> SUFFICES ASSUME NEW i \in 1 .. m + 1, NEW j \in 1 .. m + 1,
                        more[i].type = "set", more[j].type = "set", more[i].id = more[j].id
                 PROVE  i = j
        BY <1>3 DEF OwnSets
    <2>1. CASE i \in 1 .. m /\ j \in 1 .. m
        BY <1>1, <1>3, <2>1 DEF OwnSets
    <2>2. CASE i = m + 1 \/ j = m + 1
        BY <1>3, <1>5, <1>10, <2>2
    <2> QED  BY <1>5, <2>1, <2>2
<1> QED  BY <1>2, <1>8, <1>9, <1>11

LEMMA OverwriteIs ==
    ASSUME NEW c, Base(c), NEW path, NEW data, NEW visible
    PROVE  LET w == RaiseEvents(ApplyUserOverwrite(c, path, data, visible)) IN
           /\ KeepsRest(c, w) /\ w.nextWriteId = c.nextWriteId + 1
           /\ WritesOK(w.tree.allWrites, c.nextWriteId + 1)
           /\ WriteIds(w.tree) = WriteIds(c.tree) \cup {c.nextWriteId}
           /\ c.nextWriteId \notin WriteIds(c.tree)
<1>1. PICK e : e = ApplyUserOverwrite(c, path, data, visible)
    OBVIOUS
<1>2. PICK next \in Nat : next = c.nextWriteId
    BY DEF Base
<1>3. /\ KeepsRest(c, e) /\ e.nextWriteId = next + 1
      /\ \E record : record.id = next /\ e.tree.allWrites = AddOverwrite(c.tree, record).allWrites
    <2>1. IsClient(c)
        BY DEF Base
    <2>2. /\ KeepsRest(c, e) /\ e.nextWriteId = c.nextWriteId + 1
          /\ \E record : /\ record.id = c.nextWriteId
                         /\ e.tree.allWrites = AddOverwrite(c.tree, record).allWrites
        BY <1>1, <2>1, ApplyUserOverwriteKeeps
    <2> QED  BY <1>2, <2>2
<1>4. /\ WritesOK(e.tree.allWrites, next + 1)
      /\ WriteIds(e.tree) = WriteIds(c.tree) \cup {next} /\ next \notin WriteIds(c.tree)
    <2>1. PICK record : record.id = next /\ e.tree.allWrites = AddOverwrite(c.tree, record).allWrites
        BY <1>3
    <2>2. /\ WritesOK(AddOverwrite(c.tree, record).allWrites, next + 1)
          /\ WriteIds(AddOverwrite(c.tree, record)) = WriteIds(c.tree) \cup {next}
          /\ next \notin WriteIds(c.tree)
        BY <1>2, <2>1, AddWriteTo DEF Base
    <2>3. WriteIds(e.tree) = WriteIds(AddOverwrite(c.tree, record))
        BY <2>1 DEF WriteIds
    <2> QED  BY <2>1, <2>2, <2>3
<1>5. PICK w : w = RaiseEvents(e)
    OBVIOUS
<1>6. SameCore(e, w)
    BY <1>3, <1>5, RaiseKeeps DEF KeepsRest
<1>7. KeepsRest(c, w) /\ w.nextWriteId = next + 1 /\ w.tree.allWrites = e.tree.allWrites
    BY <1>3, <1>6, CoreOfCore DEF SameCore
<1>8. WriteIds(w.tree) = WriteIds(e.tree)
    BY <1>7 DEF WriteIds
<1> QED  BY <1>1, <1>2, <1>4, <1>5, <1>7, <1>8

\* A set with a write of its own is one of the puts.
LEMMA SetAdded ==
    ASSUME NEW c, NEW ans, NEW ex, Settled(c, {}, ans, ex),
           NEW w, KeepsRest(c, w), w.nextWriteId = c.nextWriteId + 1,
           WritesOK(w.tree.allWrites, c.nextWriteId + 1),
           WriteIds(w.tree) = WriteIds(c.tree) \cup {c.nextWriteId}, c.nextWriteId \notin WriteIds(c.tree),
           NEW put, NEW sending, sending = [put EXCEPT !.sent = w.connected],
           IsPut(sending), sending.type = "set", sending.queue = <<>>, sending.id = c.nextWriteId,
           sending.sent = c.connected
    PROVE  Settled(PutData(w, put), {}, ans, ex)
<1>1. /\ Base(c) /\ Accounted(c) /\ Queues(c) /\ Carried(c, {}) /\ Truth(c, ex) /\ Served(c, ans, ex)
      /\ Clean(c) /\ NoneOver(c)
    BY DEF Settled, Sound
<1>2. PICK next \in Nat : next = c.nextWriteId
    BY <1>1 DEF Base
<1>5. /\ WritesOK(w.tree.allWrites, next + 1) /\ w.nextWriteId = next + 1
      /\ WriteIds(w.tree) = WriteIds(c.tree) \cup {next} /\ next \notin WriteIds(c.tree)
    BY <1>2
<1>8. KeepsRest(c, w)
    OBVIOUS
<1>9. WriteIds(w.tree) = WriteIds(c.tree) \cup {next}
    BY <1>5
<1>11. /\ IsPut(sending) /\ sending.type = "set" /\ sending.queue = <<>> /\ sending.id = next
       /\ sending.sent = c.connected
    BY <1>2
<1>12. PICK d : d = PutData(w, put)
    OBVIOUS
<1>13. PICK puts : puts = c.outstandingPuts
    OBVIOUS
<1>14. PICK more : more = Append(puts, sending)
    OBVIOUS
<1>15. /\ IsClient(d) /\ d.tree = w.tree /\ d.nextWriteId = w.nextWriteId /\ d.cache = w.cache
       /\ d.transactions = c.transactions /\ d.queues = c.queues /\ d.connected = c.connected
       /\ d.outstandingPuts = more
       /\ d.requests = IF c.connected THEN Append(c.requests, sending) ELSE c.requests
    <2>1. /\ IsClient(w) /\ w.transactions = c.transactions /\ w.queues = c.queues
          /\ w.connected = c.connected /\ w.outstandingPuts = puts /\ w.requests = c.requests
        BY <1>8, <1>13 DEF KeepsRest
    <2>2. /\ IsClient(d) /\ d.tree = w.tree /\ d.nextWriteId = w.nextWriteId /\ d.cache = w.cache
          /\ d.transactions = w.transactions /\ d.queues = w.queues /\ d.connected = w.connected
          /\ d.outstandingPuts = Append(w.outstandingPuts, sending)
          /\ d.requests = IF w.connected THEN Append(w.requests, sending) ELSE w.requests
        BY <1>12, <2>1, PutDataIs
    <2> QED  BY <1>14, <2>1, <2>2
<1>16. next \notin SetIds(puts) /\ next \notin OpenIds(c) /\ OwnSets(puts) /\ IsList(puts)
    BY <1>1, <1>5, <1>13 DEF Accounted, Base
<1>17. Range(more) = Range(puts) \cup {sending} /\ SetIds(more) = SetIds(puts) \cup {next} /\ OwnSets(more)
    BY <1>11, <1>14, <1>16, LastPut
<1>18. \A t : Status(d, t) = Status(c, t) /\ (Going(d, t) <=> Going(c, t)) /\ (Open(d, t) <=> Open(c, t))
              /\ (Ready(d, t) <=> Ready(c, t))
    BY <1>15, SameStatus
<1>19. Base(d)
    <2>1. IsList(more)
        BY <1>14, <1>16, AppendList
    <2>2. IsList(d.requests)
        BY <1>1, <1>15, AppendList DEF Base
    <2>3. DOMAIN d.cache = Child /\ WritesOK(d.tree.allWrites, d.nextWriteId) /\ d.nextWriteId \in Nat
        BY <1>1, <1>5, <1>8, <1>15 DEF KeepsRest, Base
    <2> QED  BY <1>1, <1>15, <2>1, <2>2, <2>3 DEF Base, TransactionsOK
<1>20. Accounted(d)
    <2>1. OpenIds(d) = OpenIds(c) /\ Owners(d)
        BY <1>1, <1>15, <1>18 DEF OpenIds, Owners, Accounted
    <2>2. WriteIds(d.tree) = WriteIds(c.tree) \cup {next}
        BY <1>9, <1>15
    <2> QED  BY <1>1, <1>13, <1>15, <1>16, <1>17, <2>1, <2>2 DEF Accounted
<1>21. Queues(d) /\ Truth(d, ex) /\ Clean(d) /\ NoneOver(d)
    <2>1. \A queue, p : Waits(c, queue, p) => Waits(d, queue, p)
        BY <1>15, <1>18 DEF Waits
    <2>2. Queues(d)
        BY <1>1, <1>15, <2>1 DEF Queues
    <2> QED  BY <1>1, <1>15, <1>18, <2>2 DEF Truth, Clean, NoneOver
<1>22. Carried(d, {})
    <2>1. \A t : ~Carries(sending, t)
        BY <1>11 DEF Carries, Range
    <2>2. Puts(d, {}) = Puts(c, {}) \cup {sending}
        BY <1>13, <1>15, <1>17 DEF Puts
    <2>3. \A other \in Puts(c, {}) : IsPut(other) /\ InPut(d, other) /\ Together(d, other)
        BY <1>1, <1>15, <1>18 DEF Carried, InPut, Together
    <2>4. InPut(d, sending) /\ Together(d, sending)
        BY <2>1 DEF InPut, Together, Carries
    <2>5. \A t \in Transaction : Going(d, t) => \E other \in Puts(d, {}) : Carries(other, t)
        BY <1>1, <1>18, <2>2 DEF Carried
    <2>6. \A i, j \in 1 .. Len(more) : i # j => Apart(more[i], more[j])
        <3>1. PICK m \in Nat : m = Len(puts)
            BY <1>16 DEF IsList
        <3>2. Len(more) = m + 1 /\ (\A i \in 1 .. m : more[i] = puts[i]) /\ more[m + 1] = sending
            BY <1>14, <1>16, <3>1, AppendList
        <3>3. \A i \in 1 .. m + 1 : i \in 1 .. m \/ i = m + 1
            OBVIOUS
        <3>4. \A other : Apart(other, sending) /\ Apart(sending, other)
            BY <2>1 DEF Apart, Carries
        <3>5. \A i, j \in 1 .. m : i # j => Apart(puts[i], puts[j])
            BY <1>1, <1>13, <3>1 DEF Carried
        <3> QED  BY <3>2, <3>3, <3>4, <3>5
    <2> QED  BY <1>11, <1>15, <2>2, <2>3, <2>4, <2>5, <2>6 DEF Carried
<1>23. Served(d, ans, ex)
    <2>1. Unserved(sending, ex)
        BY <1>11 DEF Unserved, Range
    <2> QED  BY <1>1, <1>11, <1>13, <1>14, <1>15, <2>1, ServedMore DEF Base
<1> QED  BY <1>12, <1>19, <1>20, <1>21, <1>22, <1>23 DEF Settled, Sound

LEMMA SetPutSettled ==
    ASSUME NEW c, NEW ans, NEW ex, Settled(c, {}, ans, ex), NEW path \in Place,
           NEW data, DOMAIN data \subseteq Child, NEW visible
    PROVE  LET put == [type |-> "set", path |-> path, data |-> data, hash |-> data,
                       queue |-> <<>>, id |-> c.nextWriteId, sent |-> FALSE]
           IN  Settled(PutData(RaiseEvents(ApplyUserOverwrite(c, path, data, visible)), put), {}, ans, ex)
<1>1. PICK w : w = RaiseEvents(ApplyUserOverwrite(c, path, data, visible))
    OBVIOUS
<1>2. Base(c)
    BY DEF Settled, Sound
<1>3. /\ KeepsRest(c, w) /\ w.nextWriteId = c.nextWriteId + 1
      /\ WritesOK(w.tree.allWrites, c.nextWriteId + 1)
      /\ WriteIds(w.tree) = WriteIds(c.tree) \cup {c.nextWriteId}
      /\ c.nextWriteId \notin WriteIds(c.tree)
    BY <1>1, <1>2, OverwriteIs
<1>4. PICK put : put = [type |-> "set", path |-> path, data |-> data, hash |-> data,
                        queue |-> <<>>, id |-> c.nextWriteId, sent |-> FALSE]
    OBVIOUS
<1>5. PICK sending : sending = [put EXCEPT !.sent = w.connected]
    OBVIOUS
<1>6. /\ IsPut(sending) /\ sending.type = "set" /\ sending.queue = <<>>
      /\ sending.id = c.nextWriteId /\ sending.sent = c.connected
    <2>1. <<>> \in Seq(Transaction) /\ IsInjective(<<>>)
        BY DEF IsInjective
    <2>2. w.connected = c.connected
        BY <1>3 DEF KeepsRest
    <2> QED  BY <1>4, <1>5, <2>1, <2>2 DEF IsPut
<1>7. Settled(PutData(w, put), {}, ans, ex)
    BY <1>3, <1>5, <1>6, SetAdded
<1> QED  BY <1>1, <1>4, <1>7

LEMMA SetSettles ==
    ASSUME WriteTreeAssumption, TransactionsAssumption,
           NEW c, NEW ans, NEW ex, Settled(c, {}, ans, ex), NEW path \in Place
    PROVE  LET data == [x \in Under(path) |-> 0]
               written == RaiseEvents(ApplyUserOverwrite(c, path, data, TRUE))
               put == [type |-> "set", path |-> path, data |-> data, hash |-> data,
                       queue |-> <<>>, id |-> c.nextWriteId, sent |-> FALSE]
           IN  Settled(RerunTransactionsForPath(AbortTransactionsAtPath(PutData(written, put), path),
                                                AncestorNode(c, path)), {}, ans, ex)
<1>1. PICK data : data = [x \in Under(path) |-> 0]
    OBVIOUS
<1>2. PICK put : put = [type |-> "set", path |-> path, data |-> data, hash |-> data,
                        queue |-> <<>>, id |-> c.nextWriteId, sent |-> FALSE]
    OBVIOUS
<1>3. DOMAIN data \subseteq Child
    BY <1>1, UnderChild
<1>4. PICK d : d = PutData(RaiseEvents(ApplyUserOverwrite(c, path, data, TRUE)), put)
    OBVIOUS
<1>5. Settled(d, {}, ans, ex)
    BY <1>2, <1>3, <1>4, SetPutSettled
<1>6. PICK e : e = AbortTransactionsAtPath(d, path)
    OBVIOUS
<1>7. Settled(e, {}, ans, ex)
    BY <1>5, <1>6, AbortPathSettled
<1>8. AncestorNode(c, path) \in Place
    BY DEF AncestorNode, Place
<1>9. Settled(RerunTransactionsForPath(e, AncestorNode(c, path)), {}, ans, ex)
    BY <1>7, <1>8, SettledUnsettled, RerunForPathSettles
<1> QED  BY <1>1, <1>2, <1>4, <1>6, <1>9

-----------------------------------------------------------------------------
(* Data, and a put that the server takes.                                  *)

Longer(ans, more) ==
    IsList(ans) /\ IsList(more) /\ Len(ans) <= Len(more) /\ \A i \in 1 .. Len(ans) : more[i] = ans[i]

LEMMA ServedMoreData ==
    ASSUME NEW c, c.connected, NEW ans, NEW ex, Served(c, ans, ex), NEW more, Longer(ans, more),
           \A i \in Len(ans) + 1 .. Len(more) : more[i].type # "answer"
    PROVE  Served(c, more, ex)
<1>1. PICK puts : puts = c.outstandingPuts
    OBVIOUS
<1>2. PICK n, h, at : Online(puts, c.requests, ans, ex, n, h, at)
    BY <1>1 DEF Served, Connected
<1>3. PICK k \in Nat, m \in Nat : k = Len(ans) /\ m = Len(more) /\ k <= m
    BY DEF Longer, IsList
<1>4. n \in Nat /\ AnswersAt(ans, n, at)
    BY <1>2 DEF Online
<1>5. \A i \in 1 .. n : at[i] \in 1 .. k
    BY <1>3, <1>4 DEF AnswersAt
<1>6. \A i \in 1 .. k : i \in 1 .. m /\ more[i] = ans[i]
    BY <1>3 DEF Longer
<1>7. \A i \in 1 .. m : i \in 1 .. k \/ i \in k + 1 .. m
    BY <1>3
<1>8. AnswersAt(more, n, at)
    BY <1>3, <1>4, <1>5, <1>6, <1>7 DEF AnswersAt
<1>9. \A i \in 1 .. n : Fits(puts[i], more[at[i]].status, ex)
    BY <1>2, <1>5, <1>6 DEF Online
<1>10. Online(puts, c.requests, more, ex, n, h, at)
    BY <1>2, <1>8, <1>9 DEF Online
<1> QED  BY <1>1, <1>10 DEF Served, Connected

LEMMA MoreData ==
    ASSUME NEW c, c.connected, NEW P, NEW ans, NEW ex, Settled(c, P, ans, ex), NEW more, Longer(ans, more),
           \A i \in Len(ans) + 1 .. Len(more) : more[i].type # "answer"
    PROVE  Settled(c, P, more, ex)
BY ServedMoreData DEF Settled, Sound

\* There are no messages without a connection.
LEMMA MessagesConnect ==
    ASSUME NEW c, NEW P, NEW ans, NEW ex, Settled(c, P, ans, ex), ans # <<>>
    PROVE  c.connected
BY DEF Settled, Sound, Served, Offline

LEMMA DataSettles ==
    ASSUME WriteTreeAssumption, TransactionsAssumption,
           NEW c, NEW ans, NEW ex, Settled(c, {}, ans, ex), IsList(ans), ans # <<>>,
           IsMessage(Head(ans)), Head(ans).type = "data"
    PROVE  Settled(RerunIfChanged(ApplyServerOverwrite(c, Head(ans).path, Head(ans).data), Head(ans).path),
                   {}, Tail(ans), ex)
<1>1. PICK message : message = Head(ans)
    OBVIOUS
<1>2. message.path \in Place /\ DOMAIN message.data \subseteq Child
    BY <1>1 DEF IsMessage
<1>3. ans[1].type # "answer"
    BY TailList
<1>4. Settled(c, {}, Tail(ans), ex)
    BY <1>3, ServedData DEF Settled, Sound
<1>5. PICK d : d = ApplyServerOverwrite(c, message.path, message.data)
    OBVIOUS
<1>6. SameCore(c, d)
    <2>1. IsClient(c) /\ DOMAIN c.cache = Child
        BY DEF Settled, Sound, Base
    <2> QED  BY <1>2, <1>5, <2>1, ApplyServerOverwriteKeeps
<1>7. Settled(d, {}, Tail(ans), ex)
    BY <1>4, <1>6, SameSound
<1> QED  BY <1>1, <1>2, <1>5, <1>7, RerunIfChangedSettled

\* How often a put's transactions have been executed after the server has taken it.
Executed(put, status, ex, times) ==
    \A t \in Transaction : times[t] = IF status = "ok" /\ t \in Range(put.queue) THEN ex[t] + 1 ELSE ex[t]

\* The first request is the put after those that are answered.
LEMMA ServedFirst ==
    ASSUME NEW c, NEW ans, NEW ex, Base(c), Carried(c, {}), Served(c, ans, ex),
           c.requests # <<>>, Head(c.requests).type # "listen",
           NEW more, Longer(ans, more), Len(ans) < Len(more),
           \A i \in Len(ans) + 1 .. Len(more) - 1 : more[i].type # "answer",
           NEW status, more[Len(more)].type = "answer", more[Len(more)].status = status,
           NEW times, Executed(Head(c.requests), status, ex, times),
           NEW d, d.connected = c.connected, d.outstandingPuts = c.outstandingPuts,
           d.requests = Tail(c.requests)
    PROVE  /\ Served(d, more, times)
           /\ Head(c.requests) \in Range(c.outstandingPuts) /\ Unserved(Head(c.requests), ex)
<1>1. PICK puts : puts = c.outstandingPuts
    OBVIOUS
<1>2. PICK requests : requests = c.requests
    OBVIOUS
<1>3. PICK put : put = Head(requests)
    OBVIOUS
<1>4. PICK rest : rest = Tail(requests)
    OBVIOUS
<1>5. c.connected /\ Connected(puts, requests, ans, ex)
    BY <1>1, <1>2 DEF Served, Offline
<1>6. PICK n, h, at : Online(puts, requests, ans, ex, n, h, at)
    BY <1>5 DEF Connected
<1>7. PICK m \in Nat : m = Len(puts)
    BY <1>1 DEF Base, IsList
<1>8. /\ IsList(requests) /\ requests # <<>>
      /\ IsList(rest) /\ Len(rest) = Len(requests) - 1 /\ Len(requests) >= 1 /\ put = requests[1]
      /\ \A i \in 1 .. Len(requests) - 1 : rest[i] = requests[i + 1]
    <2>1. IsList(requests) /\ requests # <<>>
        BY <1>2 DEF Base
    <2> QED  BY <1>3, <1>4, <2>1, TailList
<1>9. /\ n \in Nat /\ n <= m /\ h = 0 /\ AnswersAt(ans, n, at) /\ Len(requests) = m - n
    <2>1. n \in Nat /\ n <= m /\ h \in {0, 1} /\ AnswersAt(ans, n, at) /\ Len(requests) = m - n + h
        BY <1>6, <1>7 DEF Online
    <2>2. h # 1
        BY <1>2, <1>3, <1>6, <1>8 DEF Online
    <2> QED  BY <1>7, <2>1, <2>2
<1>10. n + 1 \in 1 .. m /\ n + 1 \in n + 1 .. m
    BY <1>7, <1>8, <1>9
<1>11. put = puts[n + 1] /\ Unserved(put, ex)
    <2>1. requests[h + (n + 1) - n] = puts[n + 1] /\ Unserved(puts[n + 1], ex)
        BY <1>6, <1>7, <1>10 DEF Online
    <2>2. h + (n + 1) - n = 1
        BY <1>9
    <2> QED  BY <1>8, <2>1, <2>2
<1>12. put \in Range(puts)
    <2>1. DOMAIN puts = 1 .. m
        BY <1>1, <1>7, ListDomain DEF Base
    <2> QED  BY <1>10, <1>11, <2>1 DEF Range
<1>13. ASSUME NEW i \in 1 .. m, i # n + 1
       PROVE  \A t \in Range(puts[i].queue) : times[t] = ex[t]
    <2>1. puts[i] \in Puts(c, {}) /\ IsPut(puts[i])
        <3>1. DOMAIN puts = 1 .. m
            BY <1>1, <1>7, ListDomain DEF Base
        <3> QED  BY <1>1, <3>1 DEF Puts, Range, Carried
    <2>2. Apart(puts[i], put)
        BY <1>1, <1>7, <1>10, <1>11, <1>13 DEF Carried
    <2>3. Range(puts[i].queue) \subseteq Transaction
        BY <2>1, PutQueuesAre
    <2>4. \A t \in Range(puts[i].queue) : t \notin Range(put.queue)
        BY <2>2 DEF Apart, Carries
    <2> QED  BY <1>2, <1>3, <2>3, <2>4 DEF Executed
<1>14. IsPut(put) /\ Range(put.queue) \subseteq Transaction
    <2>1. put \in Puts(c, {})
        BY <1>1, <1>12 DEF Puts
    <2>2. IsPut(put)
        BY <2>1 DEF Carried
    <2> QED  BY <2>2, PutQueuesAre
<1>15. Fits(put, status, times)
    <2> SUFFICES ASSUME NEW t \in Range(put.queue)  PROVE times[t] = IF status = "ok" THEN 1 ELSE 0
        BY DEF Fits
    <2>1. t \in Transaction /\ ex[t] = 0
        BY <1>11, <1>14 DEF Unserved
    <2> QED  BY <1>2, <1>3, <2>1 DEF Executed
<1>16. PICK k \in Nat, l \in Nat : k = Len(ans) /\ l = Len(more) /\ k < l
    BY DEF Longer, IsList
<1>17. PICK now : now = [i \in 1 .. n + 1 |-> IF i = n + 1 THEN l ELSE at[i]]
    OBVIOUS
<1>18. \A i \in 1 .. n + 1 : i \in 1 .. n \/ i = n + 1
    BY <1>9
<1>19. \A i \in 1 .. n : i \in 1 .. n + 1 /\ i # n + 1 /\ now[i] = at[i] /\ at[i] \in 1 .. k
    <2>1. \A i \in 1 .. n : i \in 1 .. n + 1 /\ i # n + 1
        BY <1>9
    <2> QED  BY <1>9, <1>16, <1>17, <2>1 DEF AnswersAt
<1>20. now[n + 1] = l /\ l \in 1 .. l
    BY <1>9, <1>10, <1>16, <1>17
<1>21. \A i \in 1 .. k : i \in 1 .. l /\ i < l /\ more[i] = ans[i]
    BY <1>16 DEF Longer
<1>22. \A i \in 1 .. l : i \in 1 .. k \/ i = l \/ i \in k + 1 .. l - 1
    BY <1>16
<1>23. AnswersAt(more, n + 1, now)
    <2>1. \A i \in 1 .. n + 1 : now[i] \in 1 .. l /\ more[now[i]].type = "answer"
        <3> SUFFICES ASSUME NEW i \in 1 .. n + 1
                     PROVE  now[i] \in 1 .. l /\ more[now[i]].type = "answer"
            OBVIOUS
        <3>1. CASE i = n + 1
            BY <1>16, <1>20, <3>1
        <3>2. CASE i \in 1 .. n
            <4>1. now[i] = at[i] /\ at[i] \in 1 .. k /\ ans[at[i]].type = "answer"
                BY <1>9, <1>19, <3>2 DEF AnswersAt
            <4> QED  BY <1>21, <4>1
        <3> QED  BY <1>18, <3>1, <3>2
    <2>2. \A i, j \in 1 .. n + 1 : i < j => now[i] < now[j]
        <3> SUFFICES ASSUME NEW i \in 1 .. n + 1, NEW j \in 1 .. n + 1, i < j  PROVE now[i] < now[j]
            OBVIOUS
        <3>1. i \in 1 .. n
            BY <1>9
        <3>2. CASE j = n + 1
            BY <1>19, <1>20, <1>21, <3>1, <3>2
        <3>3. CASE j \in 1 .. n
            BY <1>9, <1>19, <3>1, <3>3 DEF AnswersAt
        <3> QED  BY <1>18, <3>2, <3>3
    <2>3. ASSUME NEW i \in 1 .. l, more[i].type = "answer"  PROVE \E j \in 1 .. n + 1 : now[j] = i
        <3>1. CASE i \in 1 .. k
            <4>1. PICK j \in 1 .. n : at[j] = i
                BY <1>9, <1>16, <1>21, <2>3, <3>1 DEF AnswersAt
            <4> QED  BY <1>19, <4>1
        <3>2. CASE i = l
            BY <1>10, <1>20, <3>2, <1>9
        <3>3. CASE i \in k + 1 .. l - 1
            BY <1>16, <2>3, <3>3
        <3> QED  BY <1>22, <3>1, <3>2, <3>3
    <2> QED  BY <1>16, <2>1, <2>2, <2>3 DEF AnswersAt
<1>24. ASSUME NEW i \in 1 .. n + 1  PROVE Fits(puts[i], more[now[i]].status, times)
    <2>1. CASE i = n + 1
        BY <1>11, <1>15, <1>16, <1>20, <2>1
    <2>2. CASE i \in 1 .. n
        <3>1. i \in 1 .. m /\ i # n + 1 /\ more[now[i]] = ans[at[i]]
            BY <1>7, <1>9, <1>19, <1>21, <2>2
        <3>2. Fits(puts[i], ans[at[i]].status, ex)
            BY <1>6, <2>2 DEF Online
        <3> QED  BY <1>13, <3>1, <3>2 DEF Fits
    <2> QED  BY <1>18, <2>1, <2>2
<1>25. ASSUME NEW i \in (n + 1) + 1 .. m  PROVE rest[0 + i - (n + 1)] = puts[i] /\ Unserved(puts[i], times)
    <2>1. PICK j \in 1 .. Len(requests) - 1 : j = 0 + i - (n + 1) /\ j + 1 = h + i - n
        <3>1. 0 + i - (n + 1) \in 1 .. m - n - 1 /\ 0 + i - (n + 1) + 1 = h + i - n
            BY <1>7, <1>9
        <3> QED  BY <1>9, <3>1
    <2>2. i \in n + 1 .. m /\ i \in 1 .. m /\ i # n + 1
        BY <1>7, <1>9
    <2>3. requests[h + i - n] = puts[i] /\ Unserved(puts[i], ex)
        BY <1>6, <1>7, <2>2 DEF Online
    <2>4. rest[j] = puts[i]
        BY <1>8, <2>1, <2>3
    <2>5. Unserved(puts[i], times)
        BY <1>13, <2>2, <2>3 DEF Unserved
    <2> QED  BY <2>1, <2>4, <2>5
<1>26. Online(puts, rest, more, times, n + 1, 0, now)
    <2>1. n + 1 \in Nat /\ n + 1 <= m /\ Len(rest) = m - (n + 1) + 0
        BY <1>7, <1>8, <1>9, <1>10
    <2>2. \A i \in 1 .. m : puts[i].sent
        BY <1>6, <1>7 DEF Online
    <2> QED  BY <1>7, <1>23, <1>24, <1>25, <2>1, <2>2 DEF Online
<1>27. Served(d, more, times)
    BY <1>1, <1>2, <1>4, <1>5, <1>26 DEF Served, Connected
<1> QED  BY <1>1, <1>2, <1>3, <1>11, <1>12, <1>27

\* What does not depend on the puts and the connection.
LEMMA SameRest ==
    ASSUME NEW c, NEW d, d.transactions = c.transactions, d.queues = c.queues,
           d.tree.allWrites = c.tree.allWrites
    PROVE  /\ Queues(c) => Queues(d)
           /\ Clean(c) /\ NoneOver(c) => Clean(d) /\ NoneOver(d)
           /\ OpenIds(d) = OpenIds(c) /\ WriteIds(d.tree) = WriteIds(c.tree)
           /\ Owners(c) => Owners(d)
           /\ \A t : Going(d, t) <=> Going(c, t)
           /\ \A put : InPut(d, put) <=> InPut(c, put)
           /\ \A put : Together(d, put) <=> Together(c, put)
<1>1. \A t : Status(d, t) = Status(c, t) /\ (Going(d, t) <=> Going(c, t)) /\ (Open(d, t) <=> Open(c, t))
             /\ (Ready(d, t) <=> Ready(c, t))
    BY SameStatus
<1>2. \A queue, p : Waits(c, queue, p) => Waits(d, queue, p)
    BY <1>1 DEF Waits
<1>3. Queues(c) => Queues(d)
    BY <1>2 DEF Queues
<1>4. Clean(c) /\ NoneOver(c) => Clean(d) /\ NoneOver(d)
    BY <1>1 DEF Clean, NoneOver
<1>5. OpenIds(d) = OpenIds(c)
    BY <1>1 DEF OpenIds
<1>6. Owners(c) => Owners(d)
    BY <1>1 DEF Owners
<1>7. WriteIds(d.tree) = WriteIds(c.tree)
    BY DEF WriteIds
<1>8. \A put : (InPut(d, put) <=> InPut(c, put)) /\ (Together(d, put) <=> Together(c, put))
    BY <1>1 DEF InPut, Together
<1> QED  BY <1>1, <1>3, <1>4, <1>5, <1>6, <1>7, <1>8

\* A request is taken from the connection.
LEMMA RequestTaken ==
    ASSUME NEW c, NEW ans, NEW ex, Settled(c, {}, ans, ex), c.requests # <<>>,
           NEW d, d = [c EXCEPT !.requests = Tail(@)], NEW more, NEW times,
           Served(d, more, times), Truth(c, times)
    PROVE  Settled(d, {}, more, times)
<1>1. /\ Base(c) /\ Accounted(c) /\ Queues(c) /\ Carried(c, {}) /\ Truth(c, ex) /\ Clean(c) /\ NoneOver(c)
    BY DEF Settled, Sound
<1>2. /\ IsClient(d) /\ d.tree = c.tree /\ d.nextWriteId = c.nextWriteId /\ d.cache = c.cache
      /\ d.transactions = c.transactions /\ d.queues = c.queues /\ d.outstandingPuts = c.outstandingPuts
      /\ d.requests = Tail(c.requests) /\ d.connected = c.connected
    BY <1>1 DEF Base, IsClient
<1>3. IsList(d.requests)
    BY <1>1, <1>2, TailList DEF Base
<1>4. Base(d)
    BY <1>1, <1>2, <1>3 DEF Base, TransactionsOK
<1>5. Accounted(d)
    BY <1>1, <1>2, SameRest DEF Accounted
<1>6. Queues(d) /\ Clean(d) /\ NoneOver(d)
    BY <1>1, <1>2, SameRest
<1>7. Carried(d, {})
    <2>1. Puts(d, {}) = Puts(c, {})
        BY <1>2 DEF Puts
    <2>2. /\ \A t : Going(d, t) <=> Going(c, t)
          /\ \A put : (InPut(d, put) <=> InPut(c, put)) /\ (Together(d, put) <=> Together(c, put))
        BY <1>2, SameRest
    <2> QED  BY <1>1, <1>2, <2>1, <2>2 DEF Carried
<1>8. Truth(d, times)
    BY <1>2 DEF Truth
<1> QED  BY <1>4, <1>5, <1>6, <1>7, <1>8 DEF Settled, Sound

LEMMA ServeSettles ==
    ASSUME NEW c, NEW ans, NEW ex, Settled(c, {}, ans, ex),
           c.requests # <<>>, Head(c.requests).type # "listen",
           NEW more, Longer(ans, more), Len(ans) < Len(more),
           \A i \in Len(ans) + 1 .. Len(more) - 1 : more[i].type # "answer",
           NEW status, more[Len(more)].type = "answer", more[Len(more)].status = status,
           NEW times, Executed(Head(c.requests), status, ex, times)
    PROVE  Settled([c EXCEPT !.requests = Tail(@)], {}, more, times)
<1>1. Base(c) /\ Carried(c, {}) /\ Truth(c, ex) /\ Served(c, ans, ex)
    BY DEF Settled, Sound
<1>2. PICK d : d = [c EXCEPT !.requests = Tail(@)]
    OBVIOUS
<1>3. d.connected = c.connected /\ d.outstandingPuts = c.outstandingPuts /\ d.requests = Tail(c.requests)
    BY <1>1, <1>2 DEF Base, IsClient
<1>4. PICK put : put = Head(c.requests)
    OBVIOUS
<1>5. Served(d, more, times) /\ put \in Range(c.outstandingPuts) /\ Unserved(put, ex)
    BY <1>1, <1>3, <1>4, ServedFirst
<1>6. Truth(c, times)
    <2> SUFFICES ASSUME NEW t \in Transaction  PROVE TruthOf(c.transactions[t], times[t])
        BY DEF Truth
    <2>1. TruthOf(c.transactions[t], ex[t])
        BY <1>1 DEF Truth
    <2>2. CASE t \in Range(put.queue)
        <3>1. InPut(c, put)
            BY <1>1, <1>5 DEF Carried, Puts
        <3>2. Status(c, t) \in {"sent", "sentNeedsAbort"}
            BY <2>2, <3>1 DEF InPut, Going
        <3>3. times[t] \in {0, 1}
            BY <1>4, <1>5, <2>2 DEF Executed, Unserved
        <3> QED  BY <2>1, <3>2, <3>3 DEF TruthOf, Status
    <2>3. CASE t \notin Range(put.queue)
        BY <1>4, <2>1, <2>3 DEF Executed
    <2> QED  BY <2>2, <2>3
<1>7. Settled(d, {}, more, times)
    BY <1>2, <1>5, <1>6, RequestTaken
<1> QED  BY <1>2, <1>7

LEMMA ListenSettles ==
    ASSUME NEW c, NEW ans, NEW ex, Settled(c, {}, ans, ex), c.requests # <<>>, Head(c.requests).type = "listen",
           NEW more, Longer(ans, more), \A i \in Len(ans) + 1 .. Len(more) : more[i].type # "answer"
    PROVE  Settled([c EXCEPT !.requests = Tail(@)], {}, more, ex) /\ c.connected
<1>1. Base(c) /\ Carried(c, {}) /\ Truth(c, ex) /\ Served(c, ans, ex)
    BY DEF Settled, Sound
<1>2. PICK d : d = [c EXCEPT !.requests = Tail(@)]
    OBVIOUS
<1>3. d.connected = c.connected /\ d.outstandingPuts = c.outstandingPuts /\ d.requests = Tail(c.requests)
    BY <1>1, <1>2 DEF Base, IsClient
<1>4. PICK puts : puts = c.outstandingPuts
    OBVIOUS
<1>5. PICK requests : requests = c.requests
    OBVIOUS
<1>6. PICK rest : rest = Tail(requests)
    OBVIOUS
<1>7. c.connected /\ Connected(puts, requests, ans, ex)
    BY <1>1, <1>4, <1>5 DEF Served, Offline
<1>8. PICK n, h, at : Online(puts, requests, ans, ex, n, h, at)
    BY <1>7 DEF Connected
<1>9. PICK m \in Nat : m = Len(puts)
    BY <1>1, <1>4 DEF Base, IsList
<1>10. /\ IsList(requests) /\ requests # <<>> /\ requests[1].type = "listen"
       /\ IsList(rest) /\ Len(rest) = Len(requests) - 1 /\ Len(requests) >= 1
       /\ \A i \in 1 .. Len(requests) - 1 : rest[i] = requests[i + 1]
    <2>1. IsList(requests) /\ requests # <<>>
        BY <1>1, <1>5 DEF Base
    <2> QED  BY <1>5, <1>6, <2>1, TailList
<1>11. /\ n \in Nat /\ n <= m /\ h \in {0, 1} /\ AnswersAt(ans, n, at) /\ Len(requests) = m - n + h
    BY <1>8, <1>9 DEF Online
<1>12. h = 1
    <2> SUFFICES ASSUME h = 0  PROVE FALSE
        BY <1>11
    <2>1. n + 1 \in 1 .. m /\ n + 1 \in n + 1 .. m /\ h + (n + 1) - n = 1
        BY <1>9, <1>10, <1>11
    <2>2. requests[1] = puts[n + 1]
        BY <1>8, <1>9, <2>1 DEF Online
    <2>3. DOMAIN puts = 1 .. m
        BY <1>1, <1>4, <1>9, ListDomain DEF Base
    <2>4. IsPut(puts[n + 1])
        BY <1>1, <1>4, <2>1, <2>3 DEF Carried, Puts, Range
    <2> QED  BY <1>10, <2>2, <2>4 DEF IsPut
<1>13. ASSUME NEW i \in n + 1 .. m  PROVE rest[0 + i - n] = puts[i] /\ Unserved(puts[i], ex)
    <2>1. PICK j \in 1 .. Len(requests) - 1 : j = 0 + i - n /\ j + 1 = h + i - n
        <3>1. 0 + i - n \in 1 .. m - n /\ 0 + i - n + 1 = h + i - n /\ Len(requests) - 1 = m - n
            BY <1>9, <1>11, <1>12
        <3> QED  BY <3>1
    <2>2. requests[h + i - n] = puts[i] /\ Unserved(puts[i], ex)
        BY <1>8, <1>9 DEF Online
    <2> QED  BY <1>10, <2>1, <2>2
<1>14. Online(puts, rest, ans, ex, n, 0, at)
    <2>1. Len(rest) = m - n + 0
        BY <1>9, <1>10, <1>11, <1>12
    <2>2. /\ \A i \in 1 .. n : Fits(puts[i], ans[at[i]].status, ex)
          /\ \A i \in 1 .. m : puts[i].sent
        BY <1>8, <1>9 DEF Online
    <2> QED  BY <1>9, <1>11, <1>13, <2>1, <2>2 DEF Online
<1>15. Served(d, ans, ex) /\ d.connected
    BY <1>3, <1>4, <1>5, <1>6, <1>7, <1>14 DEF Served, Connected
<1>16. Served(d, more, ex)
    BY <1>15, ServedMoreData
<1>17. Settled(d, {}, more, ex)
    BY <1>1, <1>2, <1>16, RequestTaken
<1> QED  BY <1>2, <1>7, <1>17

Cancelled(puts) == {put \in Range(puts) : put.type = "transaction" /\ put.sent}

\* The puts that were sent are cancelled, all of the transactions' among them.
LEMMA OfflineSettled ==
    ASSUME NEW c, NEW ans, NEW ex, Settled(c, {}, ans, ex), c.connected,
           NEW cancelled, cancelled = Cancelled(c.outstandingPuts),
           NEW d, IsClient(d), d.tree = c.tree, d.nextWriteId = c.nextWriteId, d.cache = c.cache,
           d.transactions = c.transactions, d.queues = c.queues,
           d.outstandingPuts = Among(c.outstandingPuts, Range(c.outstandingPuts) \ cancelled),
           d.requests = <<>>, ~d.connected, d.connected \in BOOLEAN
    PROVE  Settled(d, cancelled, <<>>, ex) /\ IsFiniteSet(cancelled)
<1>1. /\ Base(c) /\ Accounted(c) /\ Queues(c) /\ Carried(c, {}) /\ Truth(c, ex) /\ Served(c, ans, ex)
      /\ Clean(c) /\ NoneOver(c)
    BY DEF Settled, Sound
<1>2. PICK puts : puts = c.outstandingPuts
    OBVIOUS
<1>3. PICK m \in Nat : m = Len(puts)
    BY <1>1, <1>2 DEF Base, IsList
<1>4. IsList(puts) /\ DOMAIN puts = 1 .. m
    BY <1>1, <1>2, <1>3, ListDomain DEF Base
<1>5. PICK kept : kept = Among(puts, Range(puts) \ cancelled)
    OBVIOUS
<1>6. PICK k : IsList(kept) /\ Keeps(k, puts, Range(puts) \ cancelled, kept)
    BY <1>4, <1>5, AmongKeeps
<1>7. PICK r \in Nat : r = Len(kept) /\ DOMAIN kept = 1 .. r
    BY <1>6, ListDomain
<1>8. /\ IsInjective(k) /\ DOMAIN k = 1 .. r
      /\ \A i \in 1 .. r : k[i] \in 1 .. m /\ kept[i] = puts[k[i]] /\ kept[i] \notin cancelled
      /\ \A j \in 1 .. m : puts[j] \notin cancelled => \E i \in 1 .. r : k[i] = j
    <2>1. \A j \in 1 .. m : puts[j] \in Range(puts)
        BY <1>4 DEF Range
    <2> QED  BY <1>4, <1>6, <1>7, <2>1 DEF Keeps
<1>9. /\ IsClient(d) /\ d.tree = c.tree /\ d.nextWriteId = c.nextWriteId /\ d.cache = c.cache
      /\ d.transactions = c.transactions /\ d.queues = c.queues
      /\ d.outstandingPuts = kept /\ d.requests = <<>> /\ ~d.connected /\ d.connected \in BOOLEAN
    BY <1>2, <1>5
<1>10. \A put \in Range(puts) : put.sent /\ IsPut(put)
    <2>1. PICK n, h, at : Online(puts, c.requests, ans, ex, n, h, at)
        BY <1>1, <1>2 DEF Served, Connected
    <2>2. \A i \in 1 .. m : puts[i].sent
        BY <1>3, <2>1 DEF Online
    <2> QED  BY <1>1, <1>2, <1>4, <2>2 DEF Range, Carried, Puts
<1>11. \A i \in 1 .. r : kept[i].type = "set"
    <2>1. \A i \in 1 .. r : kept[i] \in Range(puts)
        BY <1>4, <1>8 DEF Range
    <2> QED  BY <1>2, <1>8, <1>10, <2>1 DEF IsPut, Cancelled
<1>12. Range(kept) \cup cancelled = Range(puts)
    <2>1. \A i \in 1 .. r : kept[i] \in Range(puts)
        BY <1>4, <1>8 DEF Range
    <2>2. \A j \in 1 .. m : puts[j] \notin cancelled => puts[j] \in Range(kept)
        BY <1>7, <1>8 DEF Range
    <2>3. cancelled \subseteq Range(puts)
        BY <1>2 DEF Cancelled
    <2> QED  BY <1>4, <1>7, <2>1, <2>2, <2>3 DEF Range
<1>13. SetIds(kept) = SetIds(puts)
    <2>1. \A put \in Range(puts) : put.type = "set" => put \in Range(kept)
        BY <1>2, <1>12 DEF Cancelled
    <2> QED  BY <1>12, <2>1 DEF SetIds
<1>14. OwnSets(kept)
    <2> SUFFICES ASSUME NEW i \in 1 .. r, NEW j \in 1 .. r, kept[i].type = "set", kept[j].type = "set",
                        kept[i].id = kept[j].id
                 PROVE  i = j
        BY <1>7 DEF OwnSets
    <2>1. OwnSets(puts)
        BY <1>1, <1>2 DEF Accounted
    <2>2. k[i] = k[j]
        BY <1>3, <1>8, <2>1 DEF OwnSets
    <2> QED  BY <1>8, <2>2 DEF IsInjective
<1>15. Base(d)
    BY <1>1, <1>6, <1>9, EmptyList DEF Base, TransactionsOK
<1>16. Accounted(d)
    BY <1>1, <1>2, <1>9, <1>13, <1>14, SameRest DEF Accounted
<1>17. Queues(d) /\ Clean(d) /\ NoneOver(d)
    BY <1>1, <1>9, SameRest
<1>18. \A i, j \in 1 .. m : i # j => Apart(puts[i], puts[j])
    BY <1>1, <1>2, <1>3 DEF Carried
<1>19. Carried(d, cancelled)
    <2>1. Puts(d, cancelled) = Puts(c, {})
        BY <1>2, <1>9, <1>12 DEF Puts
    <2>2. /\ \A t : Going(d, t) <=> Going(c, t)
          /\ \A put : (InPut(d, put) <=> InPut(c, put)) /\ (Together(d, put) <=> Together(c, put))
        BY <1>9, SameRest
    <2>3. \A i, j \in 1 .. r : i # j => Apart(kept[i], kept[j])
        BY <1>8, <1>18 DEF IsInjective
    <2>4. ASSUME NEW put \in Range(puts), NEW other \in Range(puts), put # other  PROVE Apart(put, other)
        <3>1. PICK i \in 1 .. m, j \in 1 .. m : put = puts[i] /\ other = puts[j]
            BY <1>4 DEF Range
        <3> QED  BY <1>18, <2>4, <3>1
    <2>5. \A put \in Range(kept) : put \notin cancelled /\ put \in Range(puts)
        BY <1>7, <1>8, <1>12 DEF Range
    <2>6. cancelled \subseteq Range(puts)
        BY <1>12
    <2>7. \A put \in Range(kept) : \A other \in cancelled : Apart(put, other)
        BY <2>4, <2>5, <2>6
    <2>8. \A put, other \in cancelled : put # other => Apart(put, other)
        BY <2>4, <2>6
    <2> QED  BY <1>1, <1>7, <1>9, <2>1, <2>2, <2>3, <2>7, <2>8 DEF Carried
<1>20. Truth(d, ex)
    BY <1>1, <1>9 DEF Truth
<1>21. Served(d, <<>>, ex)
    <2>1. Offline(kept, <<>>, <<>>, ex)
        BY <1>7, <1>11 DEF Offline
    <2> QED  BY <1>9, <2>1 DEF Served
<1>22. Settled(d, cancelled, <<>>, ex)
    BY <1>15, <1>16, <1>17, <1>19, <1>20, <1>21 DEF Settled, Sound
<1>23. IsFiniteSet(cancelled)
    <2>1. IsFiniteSet(1 .. m)
        BY FS_Interval
    <2>2. puts \in Surjection(1 .. m, Range(puts))
        <3>1. puts \in [1 .. m -> Range(puts)]
            BY <1>3, <1>4 DEF Range, IsList
        <3> QED  BY <1>4, <3>1 DEF Surjection, Range
    <2>3. IsFiniteSet(Range(puts))
        BY <2>1, <2>2, FS_Surjection
    <2>4. cancelled \in SUBSET Range(puts)
        BY <1>12
    <2> QED  BY <2>3, <2>4, FS_Subset
<1> QED  BY <1>22, <1>23

WentOffline(c, kept) == [c EXCEPT !.connected = FALSE, !.requests = <<>>, !.outstandingPuts = kept]

LEMMA GoesOffline ==
    ASSUME NEW c, IsClient(c), NEW kept, NEW d, d = WentOffline(c, kept)
    PROVE  /\ IsClient(d) /\ d.tree = c.tree /\ d.nextWriteId = c.nextWriteId /\ d.cache = c.cache
           /\ d.transactions = c.transactions /\ d.queues = c.queues
           /\ d.outstandingPuts = kept /\ d.requests = <<>> /\ ~d.connected /\ d.connected \in BOOLEAN
<1>1. PICK a : a = [c EXCEPT !.connected = FALSE]
    OBVIOUS
<1>2. PICK b : b = [a EXCEPT !.requests = <<>>]
    OBVIOUS
<1>3. d = [b EXCEPT !.outstandingPuts = kept]
    BY <1>1, <1>2 DEF WentOffline
<1>4. /\ IsClient(a) /\ a.tree = c.tree /\ a.nextWriteId = c.nextWriteId /\ a.cache = c.cache
      /\ a.transactions = c.transactions /\ a.queues = c.queues /\ a.connected = FALSE
    BY <1>1 DEF IsClient
<1>5. /\ IsClient(b) /\ b.tree = c.tree /\ b.nextWriteId = c.nextWriteId /\ b.cache = c.cache
      /\ b.transactions = c.transactions /\ b.queues = c.queues /\ b.connected = FALSE
      /\ b.requests = <<>>
    BY <1>2, <1>4 DEF IsClient
<1>6. /\ IsClient(d) /\ d.tree = c.tree /\ d.nextWriteId = c.nextWriteId /\ d.cache = c.cache
      /\ d.transactions = c.transactions /\ d.queues = c.queues /\ d.connected = FALSE
      /\ d.requests = <<>> /\ d.outstandingPuts = kept
    BY <1>3, <1>5 DEF IsClient
<1> QED  BY <1>6

\* cancelSentTransactions
LEMMA LoseSettles ==
    ASSUME WriteTreeAssumption, TransactionsAssumption,
           NEW c, NEW ans, NEW ex, Settled(c, {}, ans, ex), c.connected,
           NEW order \in SetToSeqs(Cancelled(c.outstandingPuts))
    PROVE  LET cancelled == Cancelled(c.outstandingPuts)
               kept == Among(c.outstandingPuts, Range(c.outstandingPuts) \ cancelled)
           IN  Settled(FoldLeft(Disconnected, WentOffline(c, kept), order), {}, <<>>, ex)
<1>1. PICK cancelled : cancelled = Cancelled(c.outstandingPuts)
    OBVIOUS
<1>2. PICK kept : kept = Among(c.outstandingPuts, Range(c.outstandingPuts) \ cancelled)
    OBVIOUS
<1>3. PICK d : d = WentOffline(c, kept)
    OBVIOUS
<1>4. IsClient(c)
    BY DEF Settled, Sound, Base
<1>5. /\ IsClient(d) /\ d.tree = c.tree /\ d.nextWriteId = c.nextWriteId /\ d.cache = c.cache
      /\ d.transactions = c.transactions /\ d.queues = c.queues
      /\ d.outstandingPuts = kept /\ d.requests = <<>> /\ ~d.connected /\ d.connected \in BOOLEAN
    BY <1>3, <1>4, GoesOffline
<1>6. Settled(d, cancelled, <<>>, ex) /\ IsFiniteSet(cancelled)
    BY <1>1, <1>2, <1>5, OfflineSettled
<1>7. Settled(FoldLeft(Disconnected, d, order), {}, <<>>, ex)
    BY <1>1, <1>6, DisconnectAll
<1> QED  BY <1>1, <1>2, <1>3, <1>7

\* A put that is sent again.
Resent(put, again) ==
    IsPut(put) => /\ IsPut(again) /\ again.sent /\ again.queue = put.queue /\ again.path = put.path
                  /\ again.type = put.type /\ again.id = put.id

LEMMA ResentIs ==
    ASSUME NEW put
    PROVE  Resent(put, [put EXCEPT !.sent = TRUE])
<1>1. PICK again : again = [put EXCEPT !.sent = TRUE]
    OBVIOUS
<1>2. Resent(put, again)
    BY <1>1 DEF Resent, IsPut
<1> QED  BY <1>1, <1>2

LEMMA SameQueueUnserved ==
    ASSUME NEW put, NEW again, again.queue = put.queue, NEW ex, Unserved(put, ex)
    PROVE  Unserved(again, ex)
    BY DEF Unserved

LEMMA EmptyUnserved ==
    ASSUME NEW put, put.queue = <<>>, NEW ex
    PROVE  Unserved(put, ex)
    BY DEF Unserved, Range

LEMMA BaseIs ==
    ASSUME NEW c, IsClient(c), c.connected \in BOOLEAN, DOMAIN c.cache = Child, c.nextWriteId \in Nat,
           TransactionsOK(c), c.queues \in [Place -> Seq(Transaction)],
           IsList(c.outstandingPuts), IsList(c.requests), WritesOK(c.tree.allWrites, c.nextWriteId)
    PROVE  Base(c)
    BY DEF Base

LEMMA OnlineSettled ==
    ASSUME NEW c, NEW ans, NEW ex, Settled(c, {}, ans, ex), ~c.connected,
           NEW resent, IsList(resent), Len(resent) = Len(c.outstandingPuts),
           \A i \in 1 .. Len(c.outstandingPuts) : Resent(c.outstandingPuts[i], resent[i]),
           NEW requests, IsList(requests), Len(requests) = Len(c.outstandingPuts) + 1,
           requests[1].type = "listen",
           \A i \in 1 .. Len(c.outstandingPuts) : requests[i + 1] = resent[i],
           NEW d, IsClient(d), d.tree = c.tree, d.nextWriteId = c.nextWriteId, d.cache = c.cache,
           d.transactions = c.transactions, d.queues = c.queues,
           d.outstandingPuts = resent, d.requests = requests, d.connected, d.connected \in BOOLEAN
    PROVE  Settled(d, {}, ans, ex)
<1>1. /\ Base(c) /\ Accounted(c) /\ Queues(c) /\ Carried(c, {}) /\ Truth(c, ex) /\ Served(c, ans, ex)
      /\ Clean(c) /\ NoneOver(c)
    BY DEF Settled, Sound
<1>2. PICK puts : puts = c.outstandingPuts
    OBVIOUS
<1>3. PICK m \in Nat : m = Len(puts)
    BY <1>1, <1>2 DEF Base, IsList
<1>4. IsList(puts) /\ DOMAIN puts = 1 .. m
    BY <1>1, <1>2, <1>3, ListDomain DEF Base
<1>5. ans = <<>> /\ Offline(puts, c.requests, ans, ex)
    BY <1>1, <1>2 DEF Served, Offline
<1>6. /\ IsList(resent) /\ Len(resent) = m /\ DOMAIN resent = 1 .. m
    BY <1>2, <1>3, ListDomain
<1>7. ASSUME NEW i \in 1 .. m
      PROVE  /\ IsPut(puts[i]) /\ IsPut(resent[i]) /\ resent[i].sent
             /\ resent[i].queue = puts[i].queue /\ resent[i].path = puts[i].path
             /\ resent[i].type = puts[i].type /\ resent[i].id = puts[i].id
    <2>1. IsPut(puts[i])
        BY <1>1, <1>2, <1>4 DEF Carried, Puts, Range
    <2> QED  BY <1>2, <1>3, <2>1 DEF Resent
<1>9. /\ IsList(requests) /\ Len(requests) = m + 1 /\ requests[1].type = "listen"
      /\ \A k \in 1 .. m : requests[k + 1] = resent[k]
    BY <1>2, <1>3
<1>10. /\ IsClient(d) /\ d.tree = c.tree /\ d.nextWriteId = c.nextWriteId /\ d.cache = c.cache
       /\ d.transactions = c.transactions /\ d.queues = c.queues
       /\ d.outstandingPuts = resent /\ d.requests = requests /\ d.connected /\ d.connected \in BOOLEAN
    OBVIOUS
<1>11. SetIds(resent) = SetIds(puts) /\ OwnSets(resent)
    <2>1. SetIds(puts) = {puts[i].id : i \in {j \in 1 .. m : puts[j].type = "set"}}
        BY <1>4 DEF SetIds, Range
    <2>2. SetIds(resent) = {resent[i].id : i \in {j \in 1 .. m : resent[j].type = "set"}}
        BY <1>6 DEF SetIds, Range
    <2>3. OwnSets(puts)
        BY <1>1, <1>2 DEF Accounted
    <2>4. \A i \in 1 .. m : resent[i].type = puts[i].type /\ resent[i].id = puts[i].id
        BY <1>7
    <2>5. SetIds(resent) = SetIds(puts)
        BY SMTT(30), <2>1, <2>2, <2>4
    <2>6. ASSUME NEW i \in 1 .. m, NEW j \in 1 .. m, resent[i].type = "set", resent[j].type = "set",
                 resent[i].id = resent[j].id
          PROVE  i = j
        BY <1>3, <2>3, <2>4, <2>6 DEF OwnSets
    <2>7. OwnSets(resent)
        BY <1>6, <2>6 DEF OwnSets
    <2> QED  BY <2>5, <2>7
<1>12. Base(d)
    <2>1. IsList(d.outstandingPuts) /\ IsList(d.requests) /\ d.connected \in BOOLEAN
        BY <1>6, <1>9, <1>10
    <2>2. DOMAIN d.cache = Child
        BY <1>1, <1>10 DEF Base
    <2>3. TransactionsOK(d)
        BY <1>1, <1>10 DEF Base, TransactionsOK
    <2>4. d.queues \in [Place -> Seq(Transaction)] /\ d.nextWriteId \in Nat
        BY <1>1, <1>10 DEF Base
    <2>5. WritesOK(d.tree.allWrites, d.nextWriteId)
        BY <1>1, <1>10 DEF Base
    <2> QED  BY <1>10, <2>1, <2>2, <2>3, <2>4, <2>5, BaseIs
<1>13. Accounted(d)
    <2>1. Accounted(c)
        BY <1>1
    <2>2. OpenIds(d) = OpenIds(c) /\ (Owners(d) <=> Owners(c))
        BY <1>10, SameRest
    <2>3. SetIds(d.outstandingPuts) = SetIds(c.outstandingPuts) /\ OwnSets(d.outstandingPuts)
        BY <1>2, <1>10, <1>11
    <2>4. WriteIds(d.tree) = WriteIds(c.tree)
        BY <1>10
    <2> QED  BY <2>1, <2>2, <2>3, <2>4 DEF Accounted
<1>14. Queues(d) /\ Clean(d) /\ NoneOver(d)
    BY <1>1, <1>10, SameRest
<1>15. Truth(d, ex)
    BY <1>1, <1>10 DEF Truth
<1>16. Carried(d, {})
    <2>1. Puts(d, {}) = {resent[i] : i \in 1 .. m} /\ Puts(c, {}) = {puts[i] : i \in 1 .. m}
        BY <1>2, <1>4, <1>6, <1>10 DEF Puts, Range
    <2>2. /\ \A t : Going(d, t) <=> Going(c, t)
          /\ \A put : (InPut(d, put) <=> InPut(c, put)) /\ (Together(d, put) <=> Together(c, put))
        BY <1>10, SameRest
    <2>3. ASSUME NEW i \in 1 .. m  PROVE IsPut(resent[i]) /\ InPut(d, resent[i]) /\ Together(d, resent[i])
        <3>1. InPut(d, puts[i]) /\ Together(d, puts[i])
            BY <1>1, <2>1, <2>2 DEF Carried
        <3> QED  BY <1>7, <3>1 DEF InPut, Together, Carries
    <2>4. ASSUME NEW t \in Transaction, Going(d, t)  PROVE \E put \in Puts(d, {}) : Carries(put, t)
        <3>1. PICK i \in 1 .. m : Carries(puts[i], t)
            BY <1>1, <2>1, <2>2, <2>4 DEF Carried
        <3>2. Carries(resent[i], t)
            BY <1>7, <3>1 DEF Carries
        <3> QED  BY <2>1, <3>2
    <2>5. \A i, j \in 1 .. m : i # j => Apart(resent[i], resent[j])
        <3>1. \A i, j \in 1 .. m : i # j => Apart(puts[i], puts[j])
            BY <1>1, <1>2, <1>3 DEF Carried
        <3> QED  BY <1>7, <3>1 DEF Apart, Carries
    <2> QED  BY <1>6, <1>10, <2>1, <2>3, <2>4, <2>5 DEF Carried
<1>17. ASSUME NEW i \in 1 .. m  PROVE Unserved(resent[i], ex)
    <2>1. CASE puts[i].type = "transaction"
        <3>1. Unserved(puts[i], ex)
            BY <1>3, <1>5, <2>1 DEF Offline
        <3>2. resent[i].queue = puts[i].queue
            BY <1>7
        <3> QED  BY <3>1, <3>2, SameQueueUnserved
    <2>2. CASE puts[i].type = "set"
        <3>1. resent[i].queue = <<>>
            BY <1>7, <2>2 DEF IsPut
        <3> QED  BY <3>1, EmptyUnserved
    <2> QED  BY <1>7, <2>1, <2>2 DEF IsPut
<1>18. Online(resent, requests, ans, ex, 0, 1, <<>>)
    <2>1. AnswersAt(ans, 0, <<>>)
        <3>1. Len(ans) = 0
            BY <1>5, EmptyList
        <3> QED  BY <3>1 DEF AnswersAt
    <2>2. \A i \in 0 + 1 .. m : i \in 1 .. m /\ 1 + i - 0 = i + 1
        OBVIOUS
    <2>3. \A i \in 0 + 1 .. m : requests[1 + i - 0] = resent[i] /\ Unserved(resent[i], ex)
        BY <1>9, <1>17, <2>2
    <2>4. Len(requests) = m - 0 + 1
        BY <1>9
    <2> QED  BY <1>6, <1>7, <1>9, <2>1, <2>3, <2>4 DEF Online
<1>19. Served(d, ans, ex)
    BY <1>10, <1>18 DEF Served, Connected
<1> QED  BY <1>10, <1>12, <1>13, <1>14, <1>15, <1>16, <1>19 DEF Settled, Sound

LEMMA FirstOf ==
    ASSUME NEW first, IsList(first), NEW rest, IsList(rest)
    PROVE  Len(first) = 1 =>
           /\ IsList(first \o rest) /\ Len(first \o rest) = Len(rest) + 1
           /\ (first \o rest)[1] = first[1]
           /\ \A i \in 1 .. Len(rest) : (first \o rest)[i + 1] = rest[i]
<1>1. /\ IsList(first \o rest) /\ Len(first \o rest) = Len(first) + Len(rest)
      /\ \A i \in 1 .. Len(first) : (first \o rest)[i] = first[i]
      /\ \A i \in 1 .. Len(rest) : (first \o rest)[Len(first) + i] = rest[i]
    BY ConcatList
<1>2. Len(rest) \in Nat
    BY DEF IsList
<1>3. PICK both : both = first \o rest
    OBVIOUS
<1>4. PICK m \in Nat : m = Len(rest)
    BY <1>2
<1> HAVE Len(first) = 1
<1>5. Len(both) = m + 1 /\ both[1] = first[1] /\ \A i \in 1 .. m : both[1 + i] = rest[i]
    BY <1>1, <1>3, <1>4
<1>6. \A i \in 1 .. m : 1 + i = i + 1
    OBVIOUS
<1>7. \A i \in 1 .. m : both[i + 1] = rest[i]
    BY <1>5, <1>6
<1> QED  BY <1>1, <1>3, <1>4, <1>5, <1>7

Listen == <<[type |-> "listen"]>>

LEMMA ListenIs == IsList(Listen) /\ Len(Listen) = 1 /\ Listen[1].type = "listen"
<1>1. PICK listen : listen = [type |-> "listen"]
    OBVIOUS
<1>2. listen.type = "listen"
    BY <1>1
<1>3. PICK first : first = <<listen>>
    OBVIOUS
<1>4. first \in Seq({listen}) /\ first[1] = listen /\ Len(first) = 1
    BY <1>3
<1>5. IsList(first)
    BY <1>4, SeqIsList
<1>6. Listen = first
    BY <1>1, <1>3 DEF Listen
<1> QED  BY <1>2, <1>4, <1>5, <1>6

LEMMA ListenFirst ==
    ASSUME NEW resent, IsList(resent)
    PROVE  /\ IsList(Listen \o resent) /\ Len(Listen \o resent) = Len(resent) + 1
           /\ (Listen \o resent)[1].type = "listen"
           /\ \A i \in 1 .. Len(resent) : (Listen \o resent)[i + 1] = resent[i]
    BY ListenIs, FirstOf

SentAll(puts) == [i \in DOMAIN puts |-> [puts[i] EXCEPT !.sent = TRUE]]

LEMMA SentAllIs ==
    ASSUME NEW puts, IsList(puts)
    PROVE  /\ IsList(SentAll(puts)) /\ Len(SentAll(puts)) = Len(puts)
           /\ \A i \in 1 .. Len(puts) : Resent(puts[i], SentAll(puts)[i])
<1>1. PICK m \in Nat : m = Len(puts) /\ DOMAIN puts = 1 .. m
    BY ListDomain
<1>2. PICK resent : resent = SentAll(puts)
    OBVIOUS
<1>3. resent = [i \in 1 .. m |-> [puts[i] EXCEPT !.sent = TRUE]]
    BY <1>1, <1>2 DEF SentAll
<1>4. \A i \in 1 .. m : resent[i] = [puts[i] EXCEPT !.sent = TRUE]
    BY <1>3
<1>5. resent = [i \in 1 .. m |-> resent[i]]
    BY <1>3
<1>6. IsList(resent) /\ Len(resent) = m
    BY <1>5, MakeList
<1>7. \A i \in 1 .. m : Resent(puts[i], resent[i])
    BY <1>4, ResentIs
<1> QED  BY <1>1, <1>2, <1>6, <1>7

WentOnline(c, puts, requests) ==
    [c EXCEPT !.connected = TRUE, !.outstandingPuts = puts, !.requests = requests]

LEMMA GoesOnline ==
    ASSUME NEW c, IsClient(c), NEW puts, NEW requests, NEW d, d = WentOnline(c, puts, requests)
    PROVE  /\ IsClient(d) /\ d.tree = c.tree /\ d.nextWriteId = c.nextWriteId /\ d.cache = c.cache
           /\ d.transactions = c.transactions /\ d.queues = c.queues
           /\ d.outstandingPuts = puts /\ d.requests = requests /\ d.connected /\ d.connected \in BOOLEAN
<1>1. PICK a : a = [c EXCEPT !.connected = TRUE]
    OBVIOUS
<1>2. PICK b : b = [a EXCEPT !.outstandingPuts = puts]
    OBVIOUS
<1>3. d = [b EXCEPT !.requests = requests]
    BY <1>1, <1>2 DEF WentOnline
<1>4. /\ IsClient(a) /\ a.tree = c.tree /\ a.nextWriteId = c.nextWriteId /\ a.cache = c.cache
      /\ a.transactions = c.transactions /\ a.queues = c.queues /\ a.connected = TRUE
    BY <1>1 DEF IsClient
<1>5. /\ IsClient(b) /\ b.tree = c.tree /\ b.nextWriteId = c.nextWriteId /\ b.cache = c.cache
      /\ b.transactions = c.transactions /\ b.queues = c.queues /\ b.connected = TRUE
      /\ b.outstandingPuts = puts
    BY <1>2, <1>4 DEF IsClient
<1>6. /\ IsClient(d) /\ d.tree = c.tree /\ d.nextWriteId = c.nextWriteId /\ d.cache = c.cache
      /\ d.transactions = c.transactions /\ d.queues = c.queues /\ d.connected = TRUE
      /\ d.outstandingPuts = puts /\ d.requests = requests
    BY <1>3, <1>5 DEF IsClient
<1> QED  BY <1>6

\* restoreState
LEMMA ConnectSettles ==
    ASSUME NEW c, NEW ans, NEW ex, Settled(c, {}, ans, ex), ~c.connected
    PROVE  LET d == WentOnline(c, SentAll(c.outstandingPuts), Listen \o SentAll(c.outstandingPuts)) IN
           Settled(d, {}, ans, ex) /\ d.connected
<1>1. IsClient(c) /\ IsList(c.outstandingPuts)
    BY DEF Settled, Sound, Base
<1>2. PICK resent : resent = SentAll(c.outstandingPuts)
    OBVIOUS
<1>3. /\ IsList(resent) /\ Len(resent) = Len(c.outstandingPuts)
      /\ \A i \in 1 .. Len(c.outstandingPuts) : Resent(c.outstandingPuts[i], resent[i])
    BY <1>1, <1>2, SentAllIs
<1>4. PICK requests : requests = Listen \o resent
    OBVIOUS
<1>5. /\ IsList(requests) /\ Len(requests) = Len(c.outstandingPuts) + 1 /\ requests[1].type = "listen"
      /\ \A i \in 1 .. Len(c.outstandingPuts) : requests[i + 1] = resent[i]
    BY <1>3, <1>4, ListenFirst
<1>6. PICK d : d = WentOnline(c, resent, requests)
    OBVIOUS
<1>7. /\ IsClient(d) /\ d.tree = c.tree /\ d.nextWriteId = c.nextWriteId /\ d.cache = c.cache
      /\ d.transactions = c.transactions /\ d.queues = c.queues
      /\ d.outstandingPuts = resent /\ d.requests = requests /\ d.connected /\ d.connected \in BOOLEAN
    BY <1>1, <1>6, GoesOnline
<1>8. Settled(d, {}, ans, ex)
    BY <1>3, <1>5, <1>7, OnlineSettled
<1> QED  BY <1>2, <1>4, <1>6, <1>7, <1>8

-----------------------------------------------------------------------------
(* One lemma for each action.                                              *)

\* A message that carries data, and one that answers.
LEMMA MessageIs ==
    /\ \A path, data : path \in Place /\ DOMAIN data \subseteq Child =>
          /\ IsMessage([type |-> "data", path |-> path, data |-> data])
          /\ [type |-> "data", path |-> path, data |-> data].type = "data"
    /\ \A status : status \in {"ok", "datastale", "permission_denied"} =>
          /\ IsMessage([type |-> "answer", status |-> status])
          /\ [type |-> "answer", status |-> status].type = "answer"
          /\ [type |-> "answer", status |-> status].status = status
<1>1. ASSUME NEW path, NEW data, path \in Place, DOMAIN data \subseteq Child
      PROVE  /\ IsMessage([type |-> "data", path |-> path, data |-> data])
             /\ [type |-> "data", path |-> path, data |-> data].type = "data"
    <2>1. PICK m : m = [type |-> "data", path |-> path, data |-> data]
        OBVIOUS
    <2>2. m.type = "data" /\ m.path = path /\ m.data = data
        BY <2>1
    <2>3. IsMessage(m)
        BY <1>1, <2>2 DEF IsMessage
    <2> QED  BY <2>1, <2>2, <2>3
<1>2. ASSUME NEW status, status \in {"ok", "datastale", "permission_denied"}
      PROVE  /\ IsMessage([type |-> "answer", status |-> status])
             /\ [type |-> "answer", status |-> status].type = "answer"
             /\ [type |-> "answer", status |-> status].status = status
    <2>1. PICK m : m = [type |-> "answer", status |-> status]
        OBVIOUS
    <2>2. m.type = "answer" /\ m.status = status
        BY <2>1
    <2>3. IsMessage(m)
        BY <1>2, <2>2 DEF IsMessage
    <2> QED  BY <2>1, <2>2, <2>3
<1> QED  BY <1>1, <1>2

LEMMA OneMessage ==
    ASSUME NEW ans, Messages(ans), NEW m, IsMessage(m)
    PROVE  /\ Messages(Append(ans, m)) /\ Longer(ans, Append(ans, m))
           /\ Len(Append(ans, m)) = Len(ans) + 1 /\ Append(ans, m)[Len(ans) + 1] = m
<1>1. PICK more : more = Append(ans, m)
    OBVIOUS
<1>2. PICK n \in Nat : n = Len(ans)
    BY DEF Messages, IsList
<1>3. /\ IsList(ans) /\ IsList(more) /\ Len(more) = n + 1 /\ more[n + 1] = m
      /\ \A i \in 1 .. n : more[i] = ans[i]
    BY <1>1, <1>2, AppendList DEF Messages
<1>4. \A i \in 1 .. n + 1 : i \in 1 .. n \/ i = n + 1
    OBVIOUS
<1>5. \A i \in 1 .. n : IsMessage(ans[i])
    BY <1>2 DEF Messages
<1>6. \A i \in 1 .. n + 1 : IsMessage(more[i])
    BY <1>3, <1>4, <1>5
<1>7. Messages(more)
    BY <1>3, <1>6 DEF Messages
<1>8. Longer(ans, more)
    BY <1>2, <1>3 DEF Longer
<1> QED  BY <1>1, <1>2, <1>3, <1>7, <1>8

\* What holds of the client with the messages that are there holds with one more
\* that carries data, which is how a handler is seen to leave the connection alone.
LEMMA OneMore ==
    ASSUME NEW c, c.connected, NEW ans, Messages(ans), NEW ex, Settled(c, {}, ans, ex),
           NEW m, IsMessage(m), m.type # "answer"
    PROVE  LET more == Append(ans, m) IN
           /\ Settled(c, {}, more, ex) /\ IsList(more) /\ more # <<>>
           /\ ans # <<>> => Head(more) = Head(ans) /\ Tail(more) # <<>>
<1>1. PICK more : more = Append(ans, m)
    OBVIOUS
<1>2. PICK n \in Nat : n = Len(ans)
    BY DEF Messages, IsList
<1>3. Messages(more) /\ Longer(ans, more) /\ Len(more) = n + 1 /\ more[n + 1] = m
    BY <1>1, <1>2, OneMessage
<1>4. \A i \in Len(ans) + 1 .. Len(more) : more[i].type # "answer"
    BY <1>2, <1>3
<1>5. Settled(c, {}, more, ex)
    BY <1>3, <1>4, MoreData
<1>6. IsList(more) /\ more # <<>>
    BY <1>3, EmptyList DEF Messages
<1>7. ASSUME ans # <<>>  PROVE Head(more) = Head(ans) /\ Tail(more) # <<>>
    <2>1. Head(ans) = ans[1] /\ n >= 1
        BY <1>2, <1>7, TailList DEF Messages
    <2>2. Head(more) = more[1] /\ Len(Tail(more)) = n
        BY <1>3, <1>6, TailList
    <2>3. more[1] = ans[1]
        BY <1>2, <1>3, <2>1 DEF Longer
    <2>4. Tail(more) # <<>>
        BY SMTT(30), <2>1, <2>2, EmptyList
    <2> QED  BY <2>1, <2>2, <2>3, <2>4
<1> QED  BY <1>1, <1>5, <1>6, <1>7

Ping == [type |-> "data", path |-> Parent, data |-> [c \in Child |-> 0]]

LEMMA PingIs == IsMessage(Ping) /\ Ping.type # "answer"
<1>1. PICK data : data = [c \in Child |-> 0]
    OBVIOUS
<1>2. DOMAIN data \subseteq Child /\ Parent \in Place
    BY <1>1 DEF Place
<1>3. PICK ping : ping = [type |-> "data", path |-> Parent, data |-> data]
    OBVIOUS
<1>4. IsMessage(ping) /\ ping.type = "data"
    BY <1>2, <1>3, MessageIs
<1>5. Ping = ping
    BY <1>1, <1>3 DEF Ping
<1> QED  BY <1>4, <1>5

LEMMA Pinged ==
    ASSUME NEW c, c.connected, NEW ans, Messages(ans), NEW ex, Settled(c, {}, ans, ex)
    PROVE  \E more : /\ Settled(c, {}, more, ex) /\ IsList(more) /\ more # <<>>
                     /\ ans # <<>> => Head(more) = Head(ans) /\ Tail(more) # <<>>
BY PingIs, OneMore

LEMMA TailMessages ==
    ASSUME NEW ans, Messages(ans), ans # <<>>
    PROVE  Messages(Tail(ans)) /\ IsMessage(Head(ans)) /\ IsList(ans)
<1>1. PICK n \in Nat : n = Len(ans)
    BY DEF Messages, IsList
<1>2. PICK rest : rest = Tail(ans)
    OBVIOUS
<1>3. /\ IsList(rest) /\ Len(rest) = n - 1 /\ n >= 1 /\ Head(ans) = ans[1]
      /\ \A i \in 1 .. n - 1 : rest[i] = ans[i + 1]
    BY <1>1, <1>2, TailList DEF Messages
<1>4. \A i \in 1 .. n : IsMessage(ans[i])
    BY <1>1 DEF Messages
<1>5. \A i \in 1 .. n - 1 : i + 1 \in 1 .. n
    OBVIOUS
<1>6. \A i \in 1 .. Len(rest) : IsMessage(rest[i])
    BY <1>3, <1>4, <1>5
<1>7. IsMessage(Head(ans))
    BY <1>3, <1>4
<1> QED  BY <1>2, <1>3, <1>6, <1>7 DEF Messages

LEMMA LatestDomain ==
    ASSUME WriteTreeAssumption, NEW c, NEW path \in Place, NEW excluded
    PROVE  DOMAIN Updated(LatestState(c, path, excluded)) \subseteq Child
<1>1. DOMAIN LatestState(c, path, excluded) = Under(path)
    BY DEF LatestState, CompleteEventCache, Restrict
<1> QED  BY <1>1, UnderChild DEF Updated

\* What the client is after the call of startTransactionOnPath.
Started(c, t, path, applyLocally) ==
    IF Succeeds(LatestState(c, path, {}))
    THEN SendAllReadyTransactions(RaiseEvents(
            WriteOutput(Enqueued(Placed(c, t, path, applyLocally), t, path), t,
                        Updated(LatestState(c, path, {})))))
    ELSE Finish(Placed(c, t, path, applyLocally), t, "aborted")

LEMMA StartedSettles ==
    ASSUME WriteTreeAssumption, TransactionsAssumption,
           NEW c, NEW ans, NEW ex, Settled(c, {}, ans, ex),
           NEW t \in Transaction, Status(c, t) = "new", NEW path \in Place, NEW applyLocally
    PROVE  Settled(Started(c, t, path, applyLocally), {}, ans, ex)
<1>1. PICK output : output = Updated(LatestState(c, path, {}))
    OBVIOUS
<1>2. DOMAIN output \subseteq Child
    BY <1>1, LatestDomain
<1>3. PICK placed : placed = Placed(c, t, path, applyLocally)
    OBVIOUS
<1>4. PICK queued : queued = Enqueued(placed, t, path)
    OBVIOUS
<1>5. /\ Settled(Finish(placed, t, "aborted"), {}, ans, ex)
      /\ Settled(SendAllReadyTransactions(RaiseEvents(WriteOutput(queued, t, output))), {}, ans, ex)
    BY <1>2, <1>3, <1>4, StartSettles
<1> QED  BY <1>1, <1>3, <1>4, <1>5 DEF Started

LEMMA StartInv ==
    ASSUME WriteTreeAssumption, TransactionsAssumption, TransactionsInv,
           NEW t \in Transaction, NEW path \in Place, NEW applyLocally,
           StartTransactionOnPath(t, path, applyLocally)
    PROVE  TransactionsInv'
<1>1. /\ Settled(client, {}, answers, executed) /\ Messages(answers) /\ DOMAIN store = Child
      /\ listening => client.connected
    BY DEF TransactionsInv
<1>2. Status(client, t) = "new"
    BY DEF StartTransactionOnPath, Unused, Status
<1>3. client' = Started(client, t, path, applyLocally)
    BY DEF StartTransactionOnPath, Started, Placed, Enqueued
<1>4. answers' = answers /\ executed' = executed /\ store' = store /\ listening' = listening
    BY DEF StartTransactionOnPath, remoteVars
<1>5. PICK d : d = client'
    OBVIOUS
<1>6. Settled(d, {}, answers, executed)
    BY <1>1, <1>2, <1>3, <1>5, StartedSettles
<1>7. client.connected => d.connected
    <2> HAVE client.connected
    <2>1. PICK more : Settled(client, {}, more, executed) /\ more # <<>>
        BY <1>1, Pinged
    <2>2. Settled(d, {}, more, executed)
        BY <1>2, <1>3, <1>5, <2>1, StartedSettles
    <2> QED  BY <2>1, <2>2, MessagesConnect
<1> QED  BY <1>1, <1>4, <1>5, <1>6, <1>7 DEF TransactionsInv

\* What the client is after the call of set:withNode:.
SetPut(c, path) ==
    [type |-> "set", path |-> path, data |-> [x \in Under(path) |-> 0], hash |-> [x \in Under(path) |-> 0],
     queue |-> <<>>, id |-> c.nextWriteId, sent |-> FALSE]
WrittenZero(c, path) == RaiseEvents(ApplyUserOverwrite(c, path, [x \in Under(path) |-> 0], TRUE))
ValueSet(c, path) ==
    RerunTransactionsForPath(AbortTransactionsAtPath(PutData(WrittenZero(c, path), SetPut(c, path)), path),
                             AncestorNode(c, path))

LEMMA ValueSetSettles ==
    ASSUME WriteTreeAssumption, TransactionsAssumption,
           NEW c, NEW ans, NEW ex, Settled(c, {}, ans, ex), NEW path \in Place
    PROVE  Settled(ValueSet(c, path), {}, ans, ex)
BY SetSettles DEF ValueSet, SetPut, WrittenZero

LEMMA SetInv ==
    ASSUME WriteTreeAssumption, TransactionsAssumption, TransactionsInv, NEW path \in Place, SetValue(path)
    PROVE  TransactionsInv'
<1>1. /\ Settled(client, {}, answers, executed) /\ Messages(answers) /\ DOMAIN store = Child
      /\ listening => client.connected
    BY DEF TransactionsInv
<1>2. client' = ValueSet(client, path)
    BY DEF SetValue, ValueSet, SetPut, WrittenZero
<1>3. answers' = answers /\ executed' = executed /\ store' = store /\ listening' = listening
    BY DEF SetValue, remoteVars
<1>4. PICK d : d = client'
    OBVIOUS
<1>5. Settled(d, {}, answers, executed)
    BY <1>1, <1>2, <1>4, ValueSetSettles
<1>6. client.connected => d.connected
    <2> HAVE client.connected
    <2>1. PICK more : Settled(client, {}, more, executed) /\ more # <<>>
        BY <1>1, Pinged
    <2>2. Settled(d, {}, more, executed)
        BY <1>2, <1>4, <2>1, ValueSetSettles
    <2> QED  BY <2>1, <2>2, MessagesConnect
<1> QED  BY <1>1, <1>3, <1>4, <1>5, <1>6 DEF TransactionsInv

\* What the client is after it has taken the first message.
Heard(c, ans) ==
    Answered([c EXCEPT !.outstandingPuts = Tail(@)], Head(c.outstandingPuts), Head(ans).status)
Updates(c, ans) ==
    RerunIfChanged(ApplyServerOverwrite(c, Head(ans).path, Head(ans).data), Head(ans).path)

LEMMA HeardSettles ==
    ASSUME WriteTreeAssumption, TransactionsAssumption,
           NEW c, NEW ans, NEW ex, Settled(c, {}, ans, ex), IsList(ans), ans # <<>>,
           IsMessage(Head(ans)), Head(ans).type = "answer"
    PROVE  Settled(Heard(c, ans), {}, Tail(ans), ex)
BY AnswerSettles DEF Heard

LEMMA UpdatesSettles ==
    ASSUME WriteTreeAssumption, TransactionsAssumption,
           NEW c, NEW ans, NEW ex, Settled(c, {}, ans, ex), IsList(ans), ans # <<>>,
           IsMessage(Head(ans)), Head(ans).type = "data"
    PROVE  Settled(Updates(c, ans), {}, Tail(ans), ex)
BY DataSettles DEF Updates

LEMMA AnswerInv ==
    ASSUME WriteTreeAssumption, TransactionsAssumption, TransactionsInv, ReceiveAnswer
    PROVE  TransactionsInv'
<1>1. /\ Settled(client, {}, answers, executed) /\ Messages(answers) /\ DOMAIN store = Child
      /\ listening => client.connected
    BY DEF TransactionsInv
<1>2. answers # <<>> /\ Head(answers).type = "answer" /\ answers' = Tail(answers)
    BY DEF ReceiveAnswer
<1>3. client' = Heard(client, answers)
    BY DEF ReceiveAnswer, Heard
<1>4. executed' = executed /\ store' = store /\ listening' = listening
    BY DEF ReceiveAnswer
<1>5. PICK d : d = client'
    OBVIOUS
<1>6. Messages(Tail(answers)) /\ IsMessage(Head(answers)) /\ IsList(answers)
    BY <1>1, <1>2, TailMessages
<1>7. Settled(d, {}, Tail(answers), executed)
    BY <1>1, <1>2, <1>3, <1>5, <1>6, HeardSettles
<1>8. client.connected => d.connected
    <2> HAVE client.connected
    <2>1. PICK more : /\ Settled(client, {}, more, executed) /\ IsList(more) /\ more # <<>>
                      /\ Head(more) = Head(answers) /\ Tail(more) # <<>>
        BY <1>1, <1>2, Pinged
    <2>2. Heard(client, more) = d
        BY <1>3, <1>5, <2>1 DEF Heard
    <2>3. Settled(Heard(client, more), {}, Tail(more), executed)
        BY <1>2, <1>6, <2>1, HeardSettles
    <2>4. Settled(d, {}, Tail(more), executed)
        BY <2>2, <2>3
    <2> QED  BY <2>1, <2>4, MessagesConnect
<1> QED  BY <1>1, <1>2, <1>4, <1>5, <1>6, <1>7, <1>8 DEF TransactionsInv

LEMMA DataInv ==
    ASSUME WriteTreeAssumption, TransactionsAssumption, TransactionsInv, ReceiveData
    PROVE  TransactionsInv'
<1>1. /\ Settled(client, {}, answers, executed) /\ Messages(answers) /\ DOMAIN store = Child
      /\ listening => client.connected
    BY DEF TransactionsInv
<1>2. answers # <<>> /\ Head(answers).type = "data" /\ answers' = Tail(answers)
    BY DEF ReceiveData
<1>3. client' = Updates(client, answers)
    BY DEF ReceiveData, Updates
<1>4. executed' = executed /\ store' = store /\ listening' = listening
    BY DEF ReceiveData
<1>5. PICK d : d = client'
    OBVIOUS
<1>6. Messages(Tail(answers)) /\ IsMessage(Head(answers)) /\ IsList(answers)
    BY <1>1, <1>2, TailMessages
<1>7. Settled(d, {}, Tail(answers), executed)
    BY <1>1, <1>2, <1>3, <1>5, <1>6, UpdatesSettles
<1>8. client.connected => d.connected
    <2> HAVE client.connected
    <2>1. PICK more : /\ Settled(client, {}, more, executed) /\ IsList(more) /\ more # <<>>
                      /\ Head(more) = Head(answers) /\ Tail(more) # <<>>
        BY <1>1, <1>2, Pinged
    <2>2. Updates(client, more) = d
        BY <1>3, <1>5, <2>1 DEF Updates
    <2>3. Settled(Updates(client, more), {}, Tail(more), executed)
        BY <1>2, <1>6, <2>1, UpdatesSettles
    <2>4. Settled(d, {}, Tail(more), executed)
        BY <2>2, <2>3
    <2> QED  BY <2>1, <2>4, MessagesConnect
<1> QED  BY <1>1, <1>2, <1>4, <1>5, <1>6, <1>7, <1>8 DEF TransactionsInv

LEMMA LoseInv ==
    ASSUME WriteTreeAssumption, TransactionsAssumption, TransactionsInv, LoseConnection
    PROVE  TransactionsInv'
<1>1. Settled(client, {}, answers, executed) /\ DOMAIN store = Child
    BY DEF TransactionsInv
<1>2. /\ client.connected /\ answers' = <<>> /\ listening' = FALSE
      /\ executed' = executed /\ store' = store
    BY DEF LoseConnection
<1>3. PICK cancelled : cancelled = Cancelled(client.outstandingPuts)
    OBVIOUS
<1>4. PICK kept : kept = Among(client.outstandingPuts, Range(client.outstandingPuts) \ cancelled)
    OBVIOUS
<1>5. PICK order \in SetToSeqs(cancelled) :
         client' = FoldLeft(Disconnected, WentOffline(client, kept), order)
    BY <1>3, <1>4 DEF LoseConnection, Cancelled, WentOffline
<1>6. PICK d : d = client'
    OBVIOUS
<1>7. Settled(d, {}, <<>>, executed)
    BY <1>1, <1>2, <1>3, <1>4, <1>5, <1>6, LoseSettles
<1>8. Messages(<<>>)
    BY EmptyList DEF Messages
<1> QED  BY <1>1, <1>2, <1>6, <1>7, <1>8 DEF TransactionsInv

LEMMA ConnectInv ==
    ASSUME TransactionsInv, Connect
    PROVE  TransactionsInv'
<1>1. /\ Settled(client, {}, answers, executed) /\ Messages(answers) /\ DOMAIN store = Child
    BY DEF TransactionsInv
<1>2. /\ ~client.connected
      /\ answers' = answers /\ executed' = executed /\ store' = store /\ listening' = listening
    BY DEF Connect, remoteVars
<1>3. client' = WentOnline(client, SentAll(client.outstandingPuts), Listen \o SentAll(client.outstandingPuts))
    BY DEF Connect, WentOnline, SentAll, Listen
<1>4. PICK d : d = client'
    OBVIOUS
<1>5. Settled(d, {}, answers, executed) /\ d.connected
    BY <1>1, <1>2, <1>3, <1>4, ConnectSettles
<1> QED  BY <1>1, <1>2, <1>4, <1>5 DEF TransactionsInv

LEMMA ServeListenInv ==
    ASSUME WriteTreeAssumption, TransactionsAssumption, TransactionsInv, ServeListen
    PROVE  TransactionsInv'
<1>1. Settled(client, {}, answers, executed) /\ Messages(answers) /\ DOMAIN store = Child
    BY DEF TransactionsInv
<1>2. PICK m : m = [type |-> "data", path |-> Parent, data |-> store]
    OBVIOUS
<1>3. PICK more : more = Append(answers, m)
    OBVIOUS
<1>4. /\ client.requests # <<>> /\ Head(client.requests).type = "listen"
      /\ client' = [client EXCEPT !.requests = Tail(@)]
      /\ answers' = more /\ executed' = executed /\ store' = store
    BY <1>2, <1>3 DEF ServeListen, NextRequest
<1>5. IsMessage(m) /\ m.type # "answer"
    <2>1. Parent \in Place /\ DOMAIN store \subseteq Child
        BY <1>1 DEF Place
    <2>2. IsMessage(m) /\ m.type = "data"
        BY <1>2, <2>1, MessageIs
    <2> QED  BY <2>2
<1>6. PICK n \in Nat : n = Len(answers)
    BY <1>1 DEF Messages, IsList
<1>7. Messages(more) /\ Longer(answers, more) /\ Len(more) = n + 1 /\ more[n + 1] = m
    BY <1>1, <1>3, <1>5, <1>6, OneMessage
<1>8. \A i \in Len(answers) + 1 .. Len(more) : more[i].type # "answer"
    BY <1>5, <1>6, <1>7
<1>9. PICK d : d = [client EXCEPT !.requests = Tail(@)]
    OBVIOUS
<1>10. Settled(d, {}, more, executed) /\ client.connected
    BY <1>1, <1>4, <1>7, <1>8, <1>9, ListenSettles
<1>11. d.connected
    <2>1. IsClient(client)
        BY <1>1 DEF Settled, Sound, Base
    <2>2. d.connected = client.connected
        BY <1>9, <2>1 DEF IsClient
    <2> QED  BY <1>10, <2>2
<1>12. client' = d
    BY <1>4, <1>9
<1> QED  BY <1>1, <1>4, <1>7, <1>10, <1>11, <1>12 DEF TransactionsInv

\* What the server says of a put: it pushes what changes, and answers.
Said(ans, pushed, status) == ans \o pushed \o Reply(status)

LEMMA SaidIs ==
    ASSUME NEW ans, Messages(ans), NEW pushed, Messages(pushed),
           \A i \in 1 .. Len(pushed) : pushed[i].type # "answer",
           NEW status, status \in {"ok", "datastale", "permission_denied"}
    PROVE  LET more == Said(ans, pushed, status) IN
           /\ Messages(more) /\ Longer(ans, more) /\ Len(ans) < Len(more)
           /\ \A i \in Len(ans) + 1 .. Len(more) - 1 : more[i].type # "answer"
           /\ more[Len(more)].type = "answer" /\ more[Len(more)].status = status
<1>1. PICK n \in Nat : n = Len(ans)
    BY DEF Messages, IsList
<1>2. PICK k \in Nat : k = Len(pushed)
    BY DEF Messages, IsList
<1>3. PICK m : m = [type |-> "answer", status |-> status]
    OBVIOUS
<1>4. IsMessage(m) /\ m.type = "answer" /\ m.status = status
    BY <1>3, MessageIs
<1>5. PICK last : last = <<m>>
    OBVIOUS
<1>6. IsList(last)
    <2>1. last \in Seq({m})
        BY <1>5
    <2> QED  BY <2>1, SeqIsList
<1>one. Len(last) = 1 /\ last[1] = m
    BY <1>5
<1>7. PICK two : two = ans \o pushed
    OBVIOUS
<1>8. /\ IsList(two) /\ Len(two) = n + k /\ \A i \in 1 .. n : two[i] = ans[i]
      /\ \A i \in 1 .. k : two[n + i] = pushed[i]
    BY <1>1, <1>2, <1>7, ConcatList DEF Messages
<1>9. PICK l \in Nat : l = n + k
    OBVIOUS
<1>10. IsList(two) /\ Len(two) = l
    BY <1>8, <1>9
<1>11. PICK more : more = two \o last
    OBVIOUS
<1>12. /\ IsList(more) /\ Len(more) = l + 1 /\ \A i \in 1 .. l : more[i] = two[i]
       /\ more[l + 1] = m
    <2>1. /\ IsList(more) /\ Len(more) = Len(two) + Len(last)
          /\ \A i \in 1 .. Len(two) : more[i] = two[i]
          /\ \A i \in 1 .. Len(last) : more[Len(two) + i] = last[i]
        BY <1>6, <1>10, <1>11, ConcatList
    <2>2. more[Len(two) + 1] = last[1]
        BY <1>one, <2>1
    <2> QED  BY <1>one, <1>10, <2>1, <2>2
<1>13. \A i \in 1 .. l : i \in 1 .. n \/ (i - n \in 1 .. k /\ n + (i - n) = i)
    BY <1>9
<1>14. ASSUME NEW i \in 1 .. l
       PROVE  /\ IsMessage(more[i]) /\ (i \in 1 .. n => more[i] = ans[i])
              /\ i \notin 1 .. n => more[i].type # "answer"
    <2>1. CASE i \in 1 .. n
        BY <1>1, <1>8, <1>12, <2>1 DEF Messages
    <2>2. CASE i \notin 1 .. n
        <3>1. PICK j \in 1 .. k : n + j = i
            BY <1>13, <2>2
        <3>2. more[i] = pushed[j]
            BY <1>8, <1>12, <3>1
        <3> QED  BY <1>2, <2>2, <3>2 DEF Messages
    <2> QED  BY <2>1, <2>2
<1>15. \A i \in 1 .. l + 1 : i \in 1 .. l \/ i = l + 1
    OBVIOUS
<1>16. \A i \in 1 .. l + 1 : IsMessage(more[i])
    BY <1>4, <1>12, <1>14, <1>15
<1>17. Messages(more)
    BY <1>12, <1>16 DEF Messages
<1>18. \A i \in 1 .. n : i \in 1 .. l
    BY <1>9
<1>19. Longer(ans, more) /\ Len(ans) < Len(more)
    <2>1. \A i \in 1 .. n : more[i] = ans[i]
        BY <1>14, <1>18
    <2>2. n < l + 1
        BY <1>9
    <2> QED  BY <1>1, <1>12, <2>1, <2>2 DEF Longer, Messages
<1>20. \A i \in Len(ans) + 1 .. Len(more) - 1 : more[i].type # "answer"
    <2>1. \A i \in n + 1 .. (l + 1) - 1 : i \in 1 .. l /\ i \notin 1 .. n
        OBVIOUS
    <2> QED  BY <1>1, <1>12, <1>14, <2>1
<1>21. more[Len(more)].type = "answer" /\ more[Len(more)].status = status
    BY <1>4, <1>12
<1>22. more = Said(ans, pushed, status)
    BY <1>3, <1>5, <1>7, <1>11 DEF Said, Reply
<1> QED  BY <1>17, <1>19, <1>20, <1>21, <1>22

LEMMA PushIs ==
    ASSUME NEW path \in Place, NEW data, DOMAIN data \subseteq Child
    PROVE  /\ Messages(Push(path, data))
           /\ \A i \in 1 .. Len(Push(path, data)) : Push(path, data)[i].type # "answer"
<1>1. PICK m : m = [type |-> "data", path |-> path, data |-> data]
    OBVIOUS
<1>2. IsMessage(m) /\ m.type = "data"
    BY <1>1, MessageIs
<1>3. PICK one : one = <<m>>
    OBVIOUS
<1>4. IsList(one)
    <2>1. one \in Seq({m})
        BY <1>3
    <2> QED  BY <2>1, SeqIsList
<1>5. Len(one) = 1 /\ one[1] = m
    BY <1>3
<1>6. Messages(one) /\ \A i \in 1 .. Len(one) : one[i].type # "answer"
    BY <1>2, <1>4, <1>5 DEF Messages
<1>7. PICK none : none = <<>>
    OBVIOUS
<1>8. IsList(none) /\ Len(none) = 0
    BY <1>7, EmptyList
<1>9. Messages(none) /\ \A i \in 1 .. Len(none) : none[i].type # "answer"
    BY <1>8 DEF Messages
<1>10. Push(path, data) = one \/ Push(path, data) = none
    BY <1>1, <1>3, <1>7 DEF Push
<1> QED  BY <1>6, <1>9, <1>10

LEMMA NoPushIs == Messages(<<>>) /\ \A i \in 1 .. Len(<<>>) : (<<>>)[i].type # "answer"
BY EmptyList DEF Messages

\* What a put that the server takes is to the client.
LEMMA RequestIsPut ==
    ASSUME NEW c, NEW ans, NEW ex, Settled(c, {}, ans, ex), Messages(ans),
           c.requests # <<>>, Head(c.requests).type # "listen"
    PROVE  IsPut(Head(c.requests)) /\ c.connected
<1>1. Base(c) /\ Carried(c, {}) /\ Served(c, ans, ex) /\ IsClient(c)
    BY DEF Settled, Sound, Base
<1>2. PICK more : more = Said(ans, <<>>, "datastale")
    OBVIOUS
<1>3. /\ Longer(ans, more) /\ Len(ans) < Len(more)
      /\ \A i \in Len(ans) + 1 .. Len(more) - 1 : more[i].type # "answer"
      /\ more[Len(more)].type = "answer" /\ more[Len(more)].status = "datastale"
    BY <1>2, NoPushIs, SaidIs
<1>4. Executed(Head(c.requests), "datastale", ex, ex)
    BY DEF Executed
<1>5. PICK d : d = [c EXCEPT !.requests = Tail(c.requests)]
    OBVIOUS
<1>6. d.connected = c.connected /\ d.outstandingPuts = c.outstandingPuts /\ d.requests = Tail(c.requests)
    BY <1>1, <1>5 DEF IsClient
<1>7. Head(c.requests) \in Range(c.outstandingPuts)
    BY <1>1, <1>3, <1>4, <1>6, ServedFirst
<1>8. IsPut(Head(c.requests))
    BY <1>1, <1>7 DEF Carried, Puts
<1>9. c.connected
    BY <1>1 DEF Served, Offline
<1> QED  BY <1>8, <1>9

\* A put that the server answers.
LEMMA SaidSettles ==
    ASSUME NEW c, NEW ans, NEW ex, Settled(c, {}, ans, ex), Messages(ans),
           c.requests # <<>>, Head(c.requests).type # "listen",
           NEW pushed, Messages(pushed), \A i \in 1 .. Len(pushed) : pushed[i].type # "answer",
           NEW status, status \in {"ok", "datastale", "permission_denied"},
           NEW times, Executed(Head(c.requests), status, ex, times)
    PROVE  LET more == Said(ans, pushed, status)
               d == [c EXCEPT !.requests = Tail(@)]
           IN  Settled(d, {}, more, times) /\ Messages(more) /\ d.connected
<1>1. PICK more : more = Said(ans, pushed, status)
    OBVIOUS
<1>2. /\ Messages(more) /\ Longer(ans, more) /\ Len(ans) < Len(more)
      /\ \A i \in Len(ans) + 1 .. Len(more) - 1 : more[i].type # "answer"
      /\ more[Len(more)].type = "answer" /\ more[Len(more)].status = status
    BY <1>1, SaidIs
<1>3. PICK d : d = [c EXCEPT !.requests = Tail(@)]
    OBVIOUS
<1>4. Settled(d, {}, more, times)
    BY <1>2, <1>3, ServeSettles
<1>5. more # <<>>
    <2>1. Len(ans) \in Nat
        BY DEF Messages, IsList
    <2> QED  BY <1>2, <2>1, EmptyList
<1>6. d.connected
    BY <1>4, <1>5, MessagesConnect
<1> QED  BY <1>1, <1>2, <1>3, <1>4, <1>6

LEMMA AnsweredInv ==
    ASSUME TransactionsInv, NextRequest({"set", "transaction"}), DOMAIN store' = Child,
           NEW pushed, Messages(pushed), \A i \in 1 .. Len(pushed) : pushed[i].type # "answer",
           NEW status, status \in {"ok", "datastale", "permission_denied"},
           answers' = Said(answers, pushed, status),
           Executed(Head(client.requests), status, executed, executed')
    PROVE  TransactionsInv'
<1>1. Settled(client, {}, answers, executed) /\ Messages(answers)
    BY DEF TransactionsInv
<1>2. /\ client.requests # <<>> /\ Head(client.requests).type # "listen"
      /\ client' = [client EXCEPT !.requests = Tail(@)]
    BY DEF NextRequest
<1>3. PICK more : more = Said(answers, pushed, status)
    OBVIOUS
<1>4. PICK d : d = [client EXCEPT !.requests = Tail(@)]
    OBVIOUS
<1>5. PICK times : times = executed'
    OBVIOUS
<1>6. Executed(Head(client.requests), status, executed, times)
    BY <1>5
<1>7. Settled(d, {}, more, times) /\ Messages(more) /\ d.connected
    BY <1>1, <1>2, <1>3, <1>4, <1>6, SaidSettles
<1>8. client' = d /\ answers' = more
    BY <1>2, <1>3, <1>4
<1> QED  BY <1>5, <1>7, <1>8 DEF TransactionsInv

LEMMA ServePutInv ==
    ASSUME WriteTreeAssumption, TransactionsAssumption, TransactionsInv, ServePut
    PROVE  TransactionsInv'
<1>1. /\ Settled(client, {}, answers, executed) /\ Messages(answers) /\ DOMAIN store = Child
    BY DEF TransactionsInv
<1>2. PICK put : put = Head(client.requests)
    OBVIOUS
<1>3. NextRequest({"set", "transaction"}) /\ client.requests # <<>> /\ put.type # "listen"
    BY <1>2 DEF ServePut, NextRequest
<1>4. IsPut(put)
    BY <1>1, <1>2, <1>3, RequestIsPut
<1>5. CASE put.type = "set" \/ Restrict(store, Under(put.path)) = put.hash
    <2>1. /\ store' = Shadow(store, put.data)
          /\ answers' = answers \o Push(put.path, put.data) \o Reply("ok")
          /\ executed' = [t \in Transaction |-> executed[t] + IF t \in Range(put.queue) THEN 1 ELSE 0]
        BY <1>2, <1>5 DEF ServePut
    <2>2. put.path \in Place /\ DOMAIN put.data \subseteq Child
        BY <1>4 DEF IsPut
    <2>3. DOMAIN store' = Child
        BY <1>1, <2>1, <2>2 DEF Shadow
    <2>4. PICK pushed : pushed = Push(put.path, put.data)
        OBVIOUS
    <2>5. Messages(pushed) /\ \A i \in 1 .. Len(pushed) : pushed[i].type # "answer"
        BY <2>2, <2>4, PushIs
    <2>6. answers' = Said(answers, pushed, "ok")
        BY <2>1, <2>4 DEF Said
    <2>7. \A t \in Transaction : executed[t] \in Nat
        BY <1>1 DEF Settled, Sound, Truth, TruthOf
    <2>8. \A t \in Transaction : executed'[t] = executed[t] + IF t \in Range(put.queue) THEN 1 ELSE 0
        BY <2>1
    <2>9. Executed(put, "ok", executed, executed')
        BY <2>7, <2>8 DEF Executed
    <2> QED  BY <1>2, <1>3, <2>3, <2>5, <2>6, <2>9, AnsweredInv
<1>6. CASE ~(put.type = "set" \/ Restrict(store, Under(put.path)) = put.hash)
    <2>1. answers' = answers \o Reply("datastale") /\ store' = store /\ executed' = executed
        BY <1>2, <1>6 DEF ServePut
    <2>2. answers' = Said(answers, <<>>, "datastale")
        <3>1. answers \in Seq(Range(answers))
            <4>1. IsList(answers)
                BY <1>1 DEF Messages
            <4>2. \A i \in 1 .. Len(answers) : answers[i] \in Range(answers)
                BY <4>1, ListDomain DEF Range
            <4> QED  BY <4>1, <4>2, ListIn
        <3>2. answers \o <<>> = answers
            BY <3>1
        <3> QED  BY <2>1, <3>2 DEF Said
    <2>3. Executed(put, "datastale", executed, executed')
        BY <2>1 DEF Executed
    <2> QED  BY <1>1, <1>2, <1>3, <2>1, <2>2, <2>3, NoPushIs, AnsweredInv
<1> QED  BY <1>5, <1>6

LEMMA RefuseInv ==
    ASSUME WriteTreeAssumption, TransactionsAssumption, TransactionsInv, RefusePut
    PROVE  TransactionsInv'
<1>1. /\ Settled(client, {}, answers, executed) /\ Messages(answers) /\ DOMAIN store = Child
    BY DEF TransactionsInv
<1>2. /\ NextRequest({"set", "transaction"})
      /\ answers' = answers \o Reply("permission_denied") /\ store' = store /\ executed' = executed
    BY DEF RefusePut
<1>3. answers' = Said(answers, <<>>, "permission_denied")
    <2>1. answers \in Seq(Range(answers))
        <3>1. IsList(answers)
            BY <1>1 DEF Messages
        <3>2. \A i \in 1 .. Len(answers) : answers[i] \in Range(answers)
            BY <3>1, ListDomain DEF Range
        <3> QED  BY <3>1, <3>2, ListIn
    <2>2. answers \o <<>> = answers
        BY <2>1
    <2> QED  BY <1>2, <2>2 DEF Said
<1>4. Executed(Head(client.requests), "permission_denied", executed, executed')
    BY <1>2 DEF Executed
<1> QED  BY <1>1, <1>2, <1>3, <1>4, NoPushIs, AnsweredInv

LEMMA ForeignInv ==
    ASSUME WriteTreeAssumption, TransactionsAssumption, TransactionsInv, NEW child \in Child,
           ForeignChange(child)
    PROVE  TransactionsInv'
<1>1. /\ Settled(client, {}, answers, executed) /\ Messages(answers) /\ DOMAIN store = Child
      /\ listening => client.connected
    BY DEF TransactionsInv
<1>2. PICK data : data = [c \in {child} |-> store[child] + 1]
    OBVIOUS
<1>3. /\ store' = [store EXCEPT ![child] = @ + 1]
      /\ answers' = answers \o Push(child, data)
      /\ client' = client /\ listening' = listening /\ executed' = executed
    BY <1>2 DEF ForeignChange
<1>4. DOMAIN store' = Child
    BY <1>1, <1>3
<1>5. CASE listening
    <2>1. PICK m : m = [type |-> "data", path |-> child, data |-> data]
        OBVIOUS
    <2>2. child \in Place /\ DOMAIN data \subseteq Child
        BY <1>2 DEF Place
    <2>3. IsMessage(m) /\ m.type # "answer"
        <3>1. IsMessage(m) /\ m.type = "data"
            BY <2>1, <2>2, MessageIs
        <3> QED  BY <3>1
    <2>4. answers' = Append(answers, m)
        <3>1. answers \in Seq(Range(answers))
            <4>1. IsList(answers)
                BY <1>1 DEF Messages
            <4>2. \A i \in 1 .. Len(answers) : answers[i] \in Range(answers)
                BY <4>1, ListDomain DEF Range
            <4> QED  BY <4>1, <4>2, ListIn
        <3>2. answers' = answers \o <<m>>
            BY <1>3, <1>5, <2>1 DEF Push
        <3>3. PICK X : X = Range(answers) \cup {m}
            OBVIOUS
        <3>4. answers \in Seq(X) /\ m \in X
            BY <3>1, <3>3
        <3> QED  BY <3>2, <3>4, AppendIsConcat
    <2>5. PICK more : more = Append(answers, m)
        OBVIOUS
    <2>6. Settled(client, {}, more, executed)
        BY <1>1, <1>5, <2>3, <2>5, OneMore
    <2>7. Messages(more)
        BY <1>1, <2>3, <2>5, OneMessage
    <2> QED  BY <1>1, <1>3, <1>4, <2>4, <2>5, <2>6, <2>7 DEF TransactionsInv
<1>6. CASE ~listening
    <2>1. answers' = answers \o <<>>
        BY <1>3, <1>6 DEF Push
    <2>2. answers \in Seq(Range(answers))
        <3>1. IsList(answers)
            BY <1>1 DEF Messages
        <3>2. \A i \in 1 .. Len(answers) : answers[i] \in Range(answers)
            BY <3>1, ListDomain DEF Range
        <3> QED  BY <3>1, <3>2, ListIn
    <2>3. answers' = answers
        BY <2>1, <2>2
    <2> QED  BY <1>1, <1>3, <1>4, <2>3 DEF TransactionsInv
<1> QED  BY <1>5, <1>6

LEMMA NewIs ==
    ASSUME TransactionsAssumption
    PROVE  IsTransaction(New) /\ New.status = "new"
<1>1. PICK none : none = [c \in {} |-> 0]
    OBVIOUS
<1>2. PICK tx : tx = [path |-> Parent, status |-> "new", applyLocally |-> TRUE, retryCount |-> 0,
                      currentWriteId |-> 0, output |-> none, outcome |-> "none"]
    OBVIOUS
<1>3. /\ tx = [path |-> tx.path, status |-> tx.status, applyLocally |-> tx.applyLocally,
               retryCount |-> tx.retryCount, currentWriteId |-> tx.currentWriteId,
               output |-> tx.output, outcome |-> tx.outcome]
      /\ tx.path = Parent /\ tx.status = "new" /\ tx.retryCount = 0 /\ tx.output = none
    BY <1>2
<1>4. DOMAIN none = {} /\ Parent \in Place /\ 0 \in 0 .. MaxRetries
    BY <1>1 DEF Place, TransactionsAssumption
<1>5. DOMAIN tx.output \subseteq Child /\ tx.status \in Statuses
    BY <1>3, <1>4 DEF Statuses
<1>6. IsTransaction(tx)
    BY <1>3, <1>4, <1>5 DEF IsTransaction
<1>7. New = tx
    BY <1>1, <1>2 DEF New
<1> QED  BY <1>3, <1>6, <1>7

\* A client that has done nothing.
LEMMA FreshSettled ==
    ASSUME TransactionsAssumption,
           NEW c, IsClient(c), DOMAIN c.cache = Child, c.nextWriteId = 1, c.tree.allWrites = <<>>,
           c.transactions = [t \in Transaction |-> New], c.queues = [p \in Place |-> <<>>],
           c.outstandingPuts = <<>>, c.requests = <<>>, c.connected, c.connected \in BOOLEAN,
           NEW ex, \A t \in Transaction : ex[t] = 0
    PROVE  Settled(c, {}, <<>>, ex)
<1>1. \A t \in Transaction : c.transactions[t] = New
    OBVIOUS
<1>2. \A t \in Transaction : Status(c, t) = "new" /\ IsTransaction(c.transactions[t])
    BY <1>1, NewIs DEF Status
<1>3. \A p \in Place : c.queues[p] = <<>>
    OBVIOUS
<1>4. Range(<<>>) = {} /\ DOMAIN <<>> = {}
    BY DEF Range
<1>5. IsList(<<>>) /\ Len(<<>>) = 0
    BY EmptyList
<1>6. \A i \in 1 .. 0 : FALSE
    OBVIOUS
<1>7. TransactionsOK(c)
    <2>1. c.transactions = [t \in Transaction |-> c.transactions[t]]
        OBVIOUS
    <2> QED  BY <1>2, <2>1 DEF TransactionsOK
<1>8. WritesOK(c.tree.allWrites, c.nextWriteId)
    BY <1>5, <1>6 DEF WritesOK
<1>9. c.queues \in [Place -> Seq(Transaction)]
    <2>1. <<>> \in Seq(Transaction)
        OBVIOUS
    <2> QED  BY <2>1
<1>10. Base(c)
    <2>1. IsList(c.outstandingPuts) /\ IsList(c.requests) /\ c.nextWriteId \in Nat
        BY <1>5
    <2> QED  BY <1>7, <1>8, <1>9, <2>1, BaseIs
<1>11. Accounted(c)
    <2>1. WriteIds(c.tree) = {}
        BY <1>4 DEF WriteIds
    <2>2. SetIds(c.outstandingPuts) = {}
        BY <1>4 DEF SetIds
    <2>3. \A t \in Transaction : ~Open(c, t)
        BY <1>2 DEF Open
    <2>4. OpenIds(c) = {} /\ Owners(c)
        BY <2>3 DEF OpenIds, Owners
    <2>5. OwnSets(c.outstandingPuts)
        BY <1>5, <1>6 DEF OwnSets
    <2> QED  BY <2>1, <2>2, <2>4, <2>5 DEF Accounted
<1>12. Queues(c) /\ Clean(c) /\ NoneOver(c)
    <2>1. IsInjective(<<>>)
        BY <1>4 DEF IsInjective
    <2>2. \A p : Waits(c, <<>>, p)
        BY <1>4, <2>1 DEF Waits
    <2>3. Queues(c)
        BY <1>3, <2>2 DEF Queues
    <2>4. \A p \in Place : Range(c.queues[p]) = {}
        BY <1>3, <1>4
    <2> QED  BY <2>3, <2>4 DEF Clean, NoneOver
<1>13. Carried(c, {})
    <2>1. Puts(c, {}) = {} /\ Range(c.outstandingPuts) = {}
        BY <1>4 DEF Puts
    <2>2. \A t \in Transaction : ~Going(c, t)
        BY <1>2 DEF Going
    <2>3. Len(c.outstandingPuts) = 0
        BY <1>5
    <2> QED  BY <1>6, <2>1, <2>2, <2>3 DEF Carried
<1>14. Truth(c, ex)
    BY <1>1, NewIs DEF Truth, TruthOf
<1>15. Served(c, <<>>, ex)
    <2>1. AnswersAt(<<>>, 0, <<>>)
        BY <1>5, <1>6 DEF AnswersAt
    <2>2. \A i \in 0 + 1 .. 0 : FALSE
        OBVIOUS
    <2>3. Online(<<>>, <<>>, <<>>, ex, 0, 0, <<>>)
        BY <1>5, <1>6, <2>1, <2>2 DEF Online
    <2> QED  BY <2>3 DEF Served, Connected
<1> QED  BY <1>10, <1>11, <1>12, <1>13, <1>14, <1>15 DEF Settled, Sound

LEMMA InitInv ==
    ASSUME WriteTreeAssumption, TransactionsAssumption, TransactionsInit
    PROVE  TransactionsInv
<1>1. DOMAIN store = Child /\ answers = <<>> /\ listening = TRUE
    BY DEF TransactionsInit
<1>2. \A t \in Transaction : executed[t] = 0
    BY DEF TransactionsInit
<1>3. PICK tree : tree = EmptyTree
    OBVIOUS
<1>4. PICK transactions : transactions = [t \in Transaction |-> New]
    OBVIOUS
<1>5. PICK queues : queues = [p \in Place |-> <<>>]
    OBVIOUS
<1>6. PICK yes \in BOOLEAN : yes = TRUE
    OBVIOUS
<1>7. PICK c : c = [cache |-> store, tree |-> tree, nextWriteId |-> 1,
                    shown |-> store, events |-> <<>>, told |-> store,
                    transactions |-> transactions, queues |-> queues,
                    outstandingPuts |-> <<>>, requests |-> <<>>, connected |-> yes]
    OBVIOUS
<1>8. client = c
    BY <1>3, <1>4, <1>5, <1>6, <1>7 DEF TransactionsInit
<1>9. /\ IsClient(c) /\ c.cache = store /\ c.nextWriteId = 1 /\ c.tree = tree
      /\ c.transactions = transactions /\ c.queues = queues
      /\ c.outstandingPuts = <<>> /\ c.requests = <<>> /\ c.connected = yes
    BY <1>7 DEF IsClient
<1>10. tree.allWrites = <<>>
    BY <1>3 DEF EmptyTree
<1>11. c.connected /\ c.connected \in BOOLEAN
    BY <1>6, <1>9
<1>12. Settled(c, {}, <<>>, executed)
    BY <1>1, <1>2, <1>4, <1>5, <1>9, <1>10, <1>11, FreshSettled
<1>13. Messages(<<>>)
    BY EmptyList DEF Messages
<1> QED  BY <1>1, <1>8, <1>11, <1>12, <1>13 DEF TransactionsInv

LEMMA StutterInv ==
    ASSUME TransactionsInv, UNCHANGED transactionVars
    PROVE  TransactionsInv'
<1>1. /\ client' = client /\ store' = store /\ answers' = answers /\ executed' = executed
      /\ listening' = listening
    BY DEF transactionVars, remoteVars
<1> QED  BY <1>1 DEF TransactionsInv

-----------------------------------------------------------------------------
(* The theorems.                                                           *)

LEMMA StepInv ==
    ASSUME WriteTreeAssumption, TransactionsAssumption, TransactionsInv, [TransactionsNext]_transactionVars
    PROVE  TransactionsInv'
<1>1. ASSUME NEW t \in Transaction, NEW path \in Place, NEW applyLocally \in LocalEvents,
             StartTransactionOnPath(t, path, applyLocally)
      PROVE  TransactionsInv'
    BY <1>1, StartInv
<1>2. ASSUME NEW path \in Place, SetValue(path)
      PROVE  TransactionsInv'
    BY <1>2, SetInv
<1>3. CASE Connect
    BY <1>3, ConnectInv
<1>4. CASE ServeListen
    BY <1>4, ServeListenInv
<1>5. CASE ServePut
    BY <1>5, ServePutInv
<1>6. CASE ReceiveData
    BY <1>6, DataInv
<1>7. CASE ReceiveAnswer
    BY <1>7, AnswerInv
<1>8. CASE RefusePut
    BY <1>8, RefuseInv
<1>9. CASE LoseConnection
    BY <1>9, LoseInv
<1>10. ASSUME NEW child \in Child, ForeignChange(child)
       PROVE  TransactionsInv'
    BY <1>10, ForeignInv
<1>11. CASE UNCHANGED transactionVars
    BY <1>11, StutterInv
<1> QED  BY <1>1, <1>2, <1>3, <1>4, <1>5, <1>6, <1>7, <1>8, <1>9, <1>10, <1>11
            DEF TransactionsNext, App, Progress

\* The invariant: every write has its owner, every put its transactions, and every
\* answer its put, whatever the order in which the handlers of FRepo run.
THEOREM TransactionsInvariant == TransactionsSpec => []TransactionsInv
<1>1. TransactionsInit => TransactionsInv
    BY WriteTreeAssumption, TransactionsAssumption, InitInv
<1>2. TransactionsInv /\ [TransactionsNext]_transactionVars => TransactionsInv'
    BY WriteTreeAssumption, TransactionsAssumption, StepInv
<1> QED  BY <1>1, <1>2, PTL DEF TransactionsSpec

\* Every transaction waits once at most, in the queue of its own place, until it is
\* over (the queues of FRepo's transactionQueueTree), and is retried at most MaxRetries
\* times.
THEOREM TransactionsTypeCorrect == TransactionsSpec => []TransactionsTypeOK
<1>1. TransactionsInv => TransactionsTypeOK
    <2> SUFFICES ASSUME TransactionsInv  PROVE TransactionsTypeOK
        OBVIOUS
    <2>1. /\ Base(client) /\ Queues(client) /\ NoneOver(client) /\ DOMAIN store = Child
        BY DEF TransactionsInv, Settled, Sound
    <2>2. DOMAIN client.cache = Child
        BY <2>1 DEF Base
    <2>3. ASSUME NEW t \in Transaction
          PROVE  /\ client.transactions[t].status \in Statuses
                 /\ client.transactions[t].path \in Place
                 /\ client.transactions[t].retryCount \in 0 .. MaxRetries
        BY <2>1 DEF Base, TransactionsOK, IsTransaction
    <2>4. ASSUME NEW p \in Place
          PROVE  IsInjective(client.queues[p]) /\
                 \A t \in Range(client.queues[p]) : Underway(t) /\ client.transactions[t].path = p
        <3>1. Waits(client, client.queues[p], p)
            BY <2>1 DEF Queues
        <3>2. \A t \in Range(client.queues[p]) : Status(client, t) # "completed"
            BY <2>1 DEF NoneOver
        <3> QED  BY <3>1, <3>2 DEF Waits, Underway, Status
    <2> QED  BY <2>1, <2>2, <2>3, <2>4 DEF TransactionsTypeOK
<1> QED  BY <1>1, TransactionsInvariant, PTL

\* FWriteTree holds the write of every outstanding set and of every transaction that
\* is not over, each once, and no other: the assertion of removeWriteId: that its write
\* is there never fails, and ackUserWriteWithWriteId: is never left out.
THEOREM TransactionsWritesAccountedFor == TransactionsSpec => []WritesAccountedFor
<1>1. TransactionsInv => WritesAccountedFor
    <2> SUFFICES ASSUME TransactionsInv  PROVE WritesAccountedFor
        OBVIOUS
    <2>1. Base(client) /\ Accounted(client)
        BY DEF TransactionsInv, Settled, Sound
    <2>2. WritesOK(client.tree.allWrites, client.nextWriteId)
        BY <2>1 DEF Base
    <2>3. Len(client.tree.allWrites) = Cardinality(WriteIds(client.tree))
        BY <2>2, WritesCounted
    <2>4. \A t : Underway(t) <=> Open(client, t)
        BY DEF Underway, Open, Status
    <2>5. OpenIds(client) = {client.transactions[t].currentWriteId : t \in {u \in Transaction : Underway(u)}}
        BY <2>4 DEF OpenIds
    <2>6. SetIds(client.outstandingPuts) =
             {put.id : put \in {p \in Range(client.outstandingPuts) : p.type = "set"}}
        BY DEF SetIds
    <2> QED  BY <2>1, <2>3, <2>5, <2>6 DEF Accounted, WritesAccountedFor
<1> QED  BY <1>1, TransactionsInvariant, PTL

\* The server executes a transaction once at most, and its completion block tells the
\* truth: committed if it was executed and not committed if it was not, but for a
\* transaction that was on its way when the connection was lost.
THEOREM TransactionsOutcomeTold == TransactionsSpec => []OutcomeTold
<1>1. TransactionsInv => OutcomeTold
    <2> SUFFICES ASSUME TransactionsInv, NEW t \in Transaction
                 PROVE  LET tx == client.transactions[t] IN
                        /\ executed[t] <= 1
                        /\ tx.status = "run" => executed[t] = 0
                        /\ tx.status = "completed" /\ tx.outcome = "committed" => executed[t] = 1
                        /\ tx.status = "completed" /\ tx.outcome \notin {"committed", "disconnect"} =>
                              executed[t] = 0
        BY DEF OutcomeTold
    <2>1. TruthOf(client.transactions[t], executed[t])
        BY DEF TransactionsInv, Settled, Sound, Truth
    <2> QED  BY <2>1 DEF TruthOf
<1> QED  BY <1>1, TransactionsInvariant, PTL
==============================================================================
