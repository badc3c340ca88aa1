------------------------------- MODULE Account -------------------------------
(***************************************************************************)
(* Signing in and registering.  The login screen (ViewController) signs in *)
(* by e-mail, under a loader that covers the window, or with Google,       *)
(* without one; then it observes the user's record and opens a home screen *)
(* for it.  The registration screen makes the account, writes its record   *)
(* and traps: the result of setValue is cast to a type it never has        *)
(* (RegisterViewController.swift:144).                                     *)
(*                                                                         *)
(* The calls to Firebase Auth and Google take any time and their callbacks *)
(* run on the main queue between the user's actions.  The users' records   *)
(* are a location of the database; of it only what the server has and when *)
(* an observer is told of it matters here.                                 *)
(***************************************************************************)
EXTENDS Naturals, Sequences

CONSTANTS
    Device,     \* the running copies of the app
    Account,    \* e-mail addresses; an account's uid stands for its address
    MaxCalls    \* bound: authentications started on one device

ASSUME CallAssumption == MaxCalls \in Nat

\* "token" is Google's own sign in, after which its credential goes to Firebase
\* as a "google" call.
Kind == {"email", "token", "google", "create"}

\* A call waits for its answer, has one, has become an observer of the user's
\* record, or such an observer that has opened a home screen.
Stage == {"asked", "granted", "denied", "observing", "home"}

Call == [n : Nat, kind : Kind, account : Account, stage : Stage]

VARIABLES
    accounts,   \* the accounts Firebase Auth has
    records,    \* the accounts that have a record in the database
    putting,    \* the records a trapped process may have sent
    register,   \* the registration screen is open over the login screen
    homes,      \* the home screens pushed over both, by their account
    loader,     \* the loader covers the window and takes every touch
    calls,      \* calls to Firebase Auth or Google and the observers they became
    started,    \* how many calls the device has made
    trapped     \* the process has trapped and not been started again

serverVars  == <<accounts, records, putting>>
screenVars  == <<register, homes, loader>>
deviceVars  == <<calls, started, trapped>>
accountVars == <<serverVars, screenVars, deviceVars>>

AccountInit ==
    /\ accounts \in SUBSET Account
    /\ records \in SUBSET accounts
    /\ putting = {}
    /\ register = [d \in Device |-> FALSE]
    /\ homes = [d \in Device |-> <<>>]
    /\ loader = [d \in Device |-> FALSE]
    /\ calls = [d \in Device |-> {}]
    /\ started = [d \in Device |-> 0]
    /\ trapped = [d \in Device |-> FALSE]

-----------------------------------------------------------------------------
(* The user's actions.  Nothing leads back from a home screen, and nothing *)
(* can be touched under the loader.                                        *)

\* Bug: touches go through the loader.
TouchesThrough(d) == ~trapped[d] /\ homes[d] = <<>>

Touchable(d) == ~trapped[d] /\ ~loader[d] /\ homes[d] = <<>>

Start(d, kind, a) ==
    /\ started[d] < MaxCalls
    /\ started' = [started EXCEPT ![d] = @ + 1]
    /\ calls' = [calls EXCEPT ![d] =
           @ \cup {[n |-> started[d], kind |-> kind, account |-> a, stage |-> "asked"]}]
    /\ UNCHANGED <<serverVars, homes, trapped>>

signInAction(d, a) ==
    /\ Touchable(d) /\ ~register[d]
    /\ loader' = [loader EXCEPT ![d] = TRUE]
    /\ Start(d, "email", a)
    /\ UNCHANGED register

signInWithGoogleAction(d, a) ==
    /\ Touchable(d) /\ ~register[d]
    /\ Start(d, "token", a)
    /\ UNCHANGED <<register, loader>>

signupBtnAction(d) ==
    /\ Touchable(d) /\ ~register[d]
    /\ register' = [register EXCEPT ![d] = TRUE]
    /\ UNCHANGED <<serverVars, homes, loader, deviceVars>>

\* The navigation bar's back button.
leaveRegistration(d) ==
    /\ Touchable(d) /\ register[d]
    /\ register' = [register EXCEPT ![d] = FALSE]
    /\ UNCHANGED <<serverVars, homes, loader, deviceVars>>

\* Nothing keeps the user from tapping again before the callback.
btnSignUpAction(d, a) ==
    /\ Touchable(d) /\ register[d]
    /\ Start(d, "create", a)
    /\ UNCHANGED <<register, loader>>

-----------------------------------------------------------------------------
(* Firebase Auth and Google (not in the repository's own code): a call is  *)
(* denied for whatever reason, or granted.  Signing in needs the account;  *)
(* creating it needs that it does not exist; Google makes it if need be.   *)

CanGrant(c) == /\ c.kind = "email" => c.account \in accounts
               /\ c.kind = "create" => c.account \notin accounts

\* The call c of device d becomes b.
Becomes(d, c, b) == calls' = [calls EXCEPT ![d] = (@ \ {c}) \cup {b}]

Answer(d, c, answer) ==
    /\ c.stage = "asked"
    /\ answer = "granted" => CanGrant(c)
    /\ Becomes(d, c, [c EXCEPT !.stage = answer])
    /\ accounts' = IF answer = "granted" /\ c.kind \in {"google", "create"}
                   THEN accounts \cup {c.account} ELSE accounts
    /\ UNCHANGED <<records, putting, screenVars, started, trapped>>

\* Bug: the callback does not look at the error.
TakeAnyAnswer(d, c, answer) == ~trapped[d] /\ c.stage \in {"granted", "denied"}

\* The callback of a call on the main queue.
TakeAnswer(d, c, answer) == ~trapped[d] /\ c.stage = answer

\* Bug: nothing dismisses the loader.
NeverDismiss(d, c) == UNCHANGED loader

\* Bug: the failure of a Google sign in or a registration dismisses it, too.
DismissOnAnyDenial(d, c) == loader' = [loader EXCEPT ![d] = FALSE]

DismissAfter(d, c) == loader' = [loader EXCEPT ![d] = @ /\ c.kind # "email"]

\* Denied: only the e-mail sign in does anything.
Denied(d, c) ==
    /\ TakeAnswer(d, c, "denied")
    /\ calls' = [calls EXCEPT ![d] = @ \ {c}]
    /\ DismissAfter(d, c)
    /\ UNCHANGED <<serverVars, register, homes, started, trapped>>

\* Google has signed in: its credential goes to Firebase Auth.
didSignInFor(d, c) ==
    /\ TakeAnswer(d, c, "granted") /\ c.kind = "token"
    /\ Becomes(d, c, [c EXCEPT !.kind = "google", !.stage = "asked"])
    /\ UNCHANGED <<serverVars, screenVars, started, trapped>>

\* Firebase Auth has signed in: the user's record is observed, for ever.
getUserFromFirebase(d, c) ==
    /\ TakeAnswer(d, c, "granted") /\ c.kind \in {"email", "google"}
    /\ Becomes(d, c, [c EXCEPT !.stage = "observing"])
    /\ UNCHANGED <<serverVars, screenVars, started, trapped>>

HasRecord(a) == a \in records

\* The observer's block with the user's record: the loop over the children
\* calls back, the e-mail sign in dismisses the loader, and a home screen is
\* pushed on whatever is shown.  A block without a child does nothing.
openHome(d, c) ==
    /\ ~trapped[d] /\ c.stage = "observing"
    /\ HasRecord(c.account)
    /\ Becomes(d, c, [c EXCEPT !.stage = "home"])
    /\ DismissAfter(d, c)
    /\ homes' = [homes EXCEPT ![d] = Append(@, c.account)]
    /\ UNCHANGED <<serverVars, register, started, trapped>>

\* The process of device d is gone with its screens, calls and observers.
EndProcess(d) ==
    /\ register' = [register EXCEPT ![d] = FALSE]
    /\ homes' = [homes EXCEPT ![d] = <<>>]
    /\ loader' = [loader EXCEPT ![d] = FALSE]
    /\ calls' = [calls EXCEPT ![d] = {}]
    /\ UNCHANGED <<accounts, records, started>>

\* The account is made: its record is handed to the library and the cast traps,
\* whatever is shown by now.
Registered(d, c) ==
    /\ TakeAnswer(d, c, "granted") /\ c.kind = "create"
    /\ putting' = putting \cup {c.account}
    /\ trapped' = [trapped EXCEPT ![d] = TRUE]
    /\ EndProcess(d)

\* The trapped process had sent the put, and the server takes it; or not.
PutArrives(a) ==
    /\ a \in putting
    /\ putting' = putting \ {a}
    /\ \/ records' = records \cup {a}
       \/ UNCHANGED records
    /\ UNCHANGED <<accounts, screenVars, deviceVars>>

\* The user ends the process, or starts the app after a trap.
Restart(d) ==
    /\ trapped' = [trapped EXCEPT ![d] = FALSE]
    /\ EndProcess(d)
    /\ UNCHANGED putting

-----------------------------------------------------------------------------

Tap(d) == \E a \in Account :
    \/ signInAction(d, a) \/ signInWithGoogleAction(d, a)
    \/ signupBtnAction(d) \/ leaveRegistration(d) \/ btnSignUpAction(d, a)

Callback(d) == \E c \in calls[d] :
    \/ Denied(d, c) \/ didSignInFor(d, c)
    \/ getUserFromFirebase(d, c) \/ openHome(d, c) \/ Registered(d, c)

AuthAnswers(d) == \E c \in calls[d], answer \in {"granted", "denied"} : Answer(d, c, answer)

AccountNext ==
    \/ \E d \in Device : Tap(d) \/ Callback(d) \/ AuthAnswers(d) \/ Restart(d)
    \/ \E a \in Account : PutArrives(a)

AccountSpec == AccountInit /\ [][AccountNext]_accountVars

\* Firebase Auth answers and the main queue runs; users and puts owe nothing.
FairAccountSpec ==
    /\ AccountSpec
    /\ \A d \in Device : WF_accountVars(Callback(d)) /\ WF_accountVars(AuthAnswers(d))

-----------------------------------------------------------------------------

AccountTypeOK ==
    /\ accounts \subseteq Account /\ records \subseteq accounts /\ putting \subseteq accounts
    /\ register \in [Device -> BOOLEAN]
    /\ homes \in [Device -> Seq(Account)]
    /\ loader \in [Device -> BOOLEAN]
    /\ calls \in [Device -> SUBSET Call]
    /\ started \in [Device -> Nat]
    /\ trapped \in [Device -> BOOLEAN]

\* The e-mail sign ins of device d that have not failed, and those of them that
\* still wait for Firebase Auth or for the user's record.
EmailSignIns(d) == {c \in calls[d] : c.kind = "email"}
Unfinished(d)   == {c \in EmailSignIns(d) : c.stage # "home"}

\* There is never a second e-mail sign in beside one that is unfinished or has
\* opened its home screen: the loader takes the touches meanwhile, and nothing
\* leads from a home screen back to the login screen.
OneEmailSignIn ==
    \A d \in Device : \A b, c \in EmailSignIns(d) : b = c

\* The loader is one for the whole app, shown by one call and dismissed by
\* several callbacks.  It is up exactly while an e-mail sign in is unfinished,
\* whatever Google sign ins and registrations finish meanwhile, and that one is
\* the only one, so that its callbacks are the ones to dismiss it.
LoaderMatchesSignIn ==
    /\ \A d \in Device : loader[d] <=> Unfinished(d) # {}
    /\ OneEmailSignIn

\* The registrations of device d whose callback is still to hand over the record
\* of account a.
Registering(d, a) ==
    {c \in calls[d] : c.kind = "create" /\ c.stage = "granted" /\ c.account = a}

\* The record of an account is written once at most: however often Sign Up is
\* tapped, on however many devices, before and after a trap, and however late the
\* put of a trapped process arrives, no registration overwrites a record that is
\* there or on its way (RegisterViewController.swift:125-144).
RecordWrittenOnce ==
    /\ putting \cap records = {}
    /\ \A a \in Account, d, e \in Device :
          \A b \in Registering(d, a), c \in Registering(e, a) :
             a \notin records \cup putting /\ d = e /\ b = c

\* The loader goes away in the end if the user signing in has a record.  Without
\* one the observer's loop has no iteration, nothing dismisses the loader, and
\* only ending the process helps (ViewController.swift:46,77).
LoaderGoesAway ==
    \A d \in Device, a \in Account :
        /\ a \in records
        /\ \E c \in Unfinished(d) : c.account = a
        ~> ~loader[d]
=============================================================================
