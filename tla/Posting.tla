------------------------------ MODULE Posting ------------------------------
(***************************************************************************)
(* The user's posts on top of the Realtime Database: the profile screen    *)
(* that lists them (MyProfileViewController), the screen on which they are *)
(* written (UpStatusViewController) and the uploads of their pictures to   *)
(* Firebase Storage, on every device.  Each device has its own user.       *)
(*                                                                         *)
(* All posts of all users are the children of one location, RealtimeDB's   *)
(* collection, under the clock in whole seconds; the profile's query takes *)
(* those of its user.  A post with a text and a picture is written when the*)
(* picture has been uploaded and its URL asked for, long after its screen  *)
(* has been dismissed.                                                     *)
(***************************************************************************)
EXTENDS RealtimeDB

\* What matters of a post: its user, its key, whether there is a text in it and
\* whether it is marked as having a picture.  Its postid is its user and key.
Post == [uid : Device, time : Key, contentText : BOOLEAN, imageLink : BOOLEAN]

\* The one observer of a device, the profile's.
Profile == 1

\* The clock is a Double, of 64 bits: there are finitely many keys.
ASSUME PostingAssumption ==
    /\ Key \subseteq Nat /\ IsFiniteSet(Key)
    /\ Value = Post
    /\ Observer = {Profile}

\* An upload: the key of the post to come, and the call whose answer is awaited.
\* Two of the same second that wait for the same call are one.
Upload == [time : Key, awaits : {"putData", "downloadURL"}]

VARIABLES
    screen,     \* "start" until the profile is first shown, then "profile",
                \* "composer" or "away"
    posts,      \* the posts the profile has
    rows,       \* the rows its table has had since it was last reloaded
    uploads,    \* the uploads under way
    storage     \* the pictures Firebase Storage has, by user and key

profileVars == <<screen, posts, rows>>
postingVars == <<dbVars, profileVars, uploads, storage>>

PostingInit ==
    /\ DBInit
    /\ screen = [d \in Device |-> "start"]
    /\ posts = [d \in Device |-> <<>>]
    /\ rows = [d \in Device |-> 0]
    /\ uploads = [d \in Device |-> {}]
    /\ storage = {}

-----------------------------------------------------------------------------
(* The profile screen.                                                     *)

reloadData(d) == rows' = [rows EXCEPT ![d] = Len(posts[d])]

\* viewDidLoad and viewWillAppear, when the tab is first selected.
viewDidLoad(d) ==
    /\ screen[d] = "start"
    /\ screen' = [screen EXCEPT ![d] = "profile"]
    /\ ObserveChildren(d, Profile)
    /\ reloadData(d)
    /\ UNCHANGED <<posts, uploads, storage>>

\* Another tab or the description of the user is shown, or the profile again.
leaveProfile(d) ==
    /\ screen[d] = "profile"
    /\ screen' = [screen EXCEPT ![d] = "away"]
    /\ UNCHANGED <<dbVars, posts, rows, uploads, storage>>

viewWillAppear(d) ==
    /\ screen[d] = "away"
    /\ screen' = [screen EXCEPT ![d] = "profile"]
    /\ reloadData(d)
    /\ UNCHANGED <<dbVars, posts, uploads, storage>>

\* The user pulls the table down.
updateData(d) ==
    /\ screen[d] = "profile"
    /\ reloadData(d)
    /\ UNCHANGED <<dbVars, screen, posts, uploads, storage>>

\* The children that the query of device d's user selects.
UsersPosts(d, snapshot) == {p \in {snapshot[k] : k \in Key} \ {NoValue} : p.uid = d}

\* The posts in one list, sorted.
NewestFirst(ps) ==
    {s \in Bijection(1 .. Cardinality(ps), ps) :
        \A i, j \in DOMAIN s : i < j => s[i].time > s[j].time}

\* Bug: the posts are not removed first.
GatheredAgain(list, ps) == {list \o s : s \in NewestFirst(ps)}

\* The loop over the children appends each one, sorts and reloads.
Gathered(list, ps) == NewestFirst(ps)

\* Bug: the table is reloaded before it has the new posts.
ReloadedBefore(d, list) == IF list = <<>> THEN rows[d] ELSE Len(posts[d])

\* The table is reloaded in the loop, not at all when there is no child.
Reloaded(d, list) == IF list = <<>> THEN rows[d] ELSE Len(list)

\* getPost: a block of the main queue for the profile's observer.
getPost(d) ==
    /\ TakeEvent(d)
    /\ \E list \in Gathered(posts[d], UsersPosts(d, Head(events[d]).snapshot)) :
          /\ posts' = [posts EXCEPT ![d] = list]
          /\ rows' = [rows EXCEPT ![d] = Reloaded(d, list)]
    /\ UNCHANGED <<screen, uploads, storage>>

-----------------------------------------------------------------------------
(* The screen on which a post is written.                                  *)

gotoUpstatusvc(d) ==
    /\ screen[d] = "profile"
    /\ screen' = [screen EXCEPT ![d] = "composer"]
    /\ UNCHANGED <<dbVars, posts, rows, uploads, storage>>

\* The screen is dismissed and the profile appears again.
dismiss(d) ==
    /\ screen[d] = "composer"
    /\ screen' = [screen EXCEPT ![d] = "profile"]
    /\ reloadData(d)
    /\ UNCHANGED posts

backButtonaction(d) ==
    /\ dismiss(d)
    /\ UNCHANGED <<dbVars, uploads, storage>>

upPostFirebase(d, date, text, image) ==
    SetValue(d, date, [uid |-> d, time |-> date, contentText |-> text, imageLink |-> image])

\* The post button at date, whatever the clock says.  Text and picture: the
\* picture is uploaded first.  One of them: the post is written at once, with a
\* picture marked but not uploaded.  Neither: an alert, and nothing else.  The
\* bound on writes leaves room for the posts of the uploads under way.
buttonUppostAction(d, date, text, image) ==
    /\ text \/ image
    /\ nextWriteId[d] + Cardinality(uploads[d]) < MaxWrites
    /\ dismiss(d)
    /\ \/ /\ text /\ image
          /\ uploads' = [uploads EXCEPT ![d] = @ \cup {[time |-> date, awaits |-> "putData"]}]
          /\ UNCHANGED dbVars
       \/ /\ ~(text /\ image)
          /\ upPostFirebase(d, date, text, image)
          /\ UNCHANGED uploads
    /\ UNCHANGED storage

-----------------------------------------------------------------------------
(* Uploads.  Firebase Storage takes a picture or not, and answers that it  *)
(* has it or that the call failed, which may come after it has taken it.   *)

Picture(d, u) == <<d, u.time>>

storePicture(d, u) ==
    /\ u.awaits = "putData"
    /\ Picture(d, u) \notin storage
    /\ storage' = storage \cup {Picture(d, u)}
    /\ UNCHANGED <<dbVars, profileVars, uploads>>

\* Bug: the error of putData is not looked at.
StoredOrNot(d, u) == TRUE

Stored(d, u) == Picture(d, u) \in storage

\* putData has ended without an error.
putDataDone(d, u) ==
    /\ u.awaits = "putData" /\ Stored(d, u)
    /\ uploads' = [uploads EXCEPT ![d] = (@ \ {u}) \cup {[u EXCEPT !.awaits = "downloadURL"]}]
    /\ UNCHANGED <<dbVars, profileVars, storage>>

\* Bug: the post does not wait for its picture.
MayPostEarly(u) == TRUE

MayPost(u) == u.awaits = "downloadURL"

\* The URL is there and not used: now the post is written.
downloadURLDone(d, u) ==
    /\ MayPost(u)
    /\ upPostFirebase(d, u.time, TRUE, TRUE)
    /\ uploads' = [uploads EXCEPT ![d] = @ \ {u}]
    /\ UNCHANGED <<profileVars, storage>>

\* Either call fails: the post is never written.
uploadFails(d, u) ==
    /\ uploads' = [uploads EXCEPT ![d] = @ \ {u}]
    /\ UNCHANGED <<dbVars, profileVars, storage>>

-----------------------------------------------------------------------------

KillApp(d) ==
    /\ Kill(d)
    /\ screen' = [screen EXCEPT ![d] = "start"]
    /\ posts' = [posts EXCEPT ![d] = <<>>]
    /\ rows' = [rows EXCEPT ![d] = 0]
    /\ uploads' = [uploads EXCEPT ![d] = {}]
    /\ UNCHANGED storage

Underneath(d) ==
    /\ Library(d) \/ Server(d) \/ Disconnect(d)
    /\ UNCHANGED <<profileVars, uploads, storage>>

PostingNext == \E d \in Device :
    \/ viewDidLoad(d) \/ leaveProfile(d) \/ viewWillAppear(d) \/ updateData(d)
    \/ getPost(d)
    \/ gotoUpstatusvc(d) \/ backButtonaction(d)
    \/ \E date \in Key, text \in BOOLEAN, image \in BOOLEAN : buttonUppostAction(d, date, text, image)
    \/ \E u \in uploads[d] : \/ storePicture(d, u) \/ putDataDone(d, u)
                             \/ downloadURLDone(d, u) \/ uploadFails(d, u)
    \/ KillApp(d)
    \/ Underneath(d)

PostingSpec == PostingInit /\ [][PostingNext]_postingVars

-----------------------------------------------------------------------------

\* The profile has posts of its own user only, and a download URL is only asked for
\* a picture that is there; the rest is as declared.
PostingTypeOK ==
    /\ screen \in [Device -> {"start", "profile", "composer", "away"}]
    /\ \A d \in Device : posts[d] \in Seq({p \in Post : p.uid = d})
    /\ rows \in [Device -> Nat]
    /\ uploads \in [Device -> SUBSET Upload]
    /\ \A d \in Device : \A u \in uploads[d] : u.awaits = "downloadURL" => Picture(d, u) \in storage
    /\ storage \subseteq Device \X Key

\* A post with a text that is marked as having a picture has one in Storage,
\* as soon as it is shown to its writer and whatever was killed or lost on the
\* way.  (A post without text is marked but its picture is never uploaded:
\* UpStatusViewController.swift:172.)
ImagePostHasImage ==
    LET hasImage(p) == p.contentText /\ p.imageLink => <<p.uid, p.time>> \in storage IN
    /\ \A k \in Key : store[k] # NoValue => hasImage(store[k])
    /\ \A d \in Device : \A w \in writes[d] : hasImage(w.value)

\* The table never has a row without a post, so that no row is asked of the
\* array beyond its end, except after the last post was taken away: then the
\* block leaves an empty array under the old rows until the next reload
\* (MyProfileViewController.swift:202).  When nothing is under way the profile
\* lists exactly the user's posts on the server, the newest first, each once,
\* although a text-only post overtakes those that are being uploaded.
ProfileMirrorsStore ==
    \A d \in Device :
        /\ rows[d] = Len(posts[d]) \/ posts[d] = <<>>
        /\ Quiet(d) /\ ~Acking(d) /\ events[d] = <<>> =>
             /\ Range(posts[d]) = UsersPosts(d, store)
             /\ \A i, j \in DOMAIN posts[d] : i < j => posts[d][i].time > posts[d][j].time

\* While no post is refused, a post only leaves the profile if one of the same
\* second takes its place: the user's own, which is then listed, or another
\* user's, which the block has in the place of it (the run has one user, the theorem
\* any number).  A lost connection, an upload that ends late or a post that is
\* acknowledged takes none away.
PostsOnlyReplaced ==
    [][\A d \in Device : screen'[d] # "start" /\ rejects' = 0 =>
          \A i \in DOMAIN posts[d] :
             LET time == posts[d][i].time
                 instead == Head(events[d]).snapshot[time]
             IN  \/ \E j \in DOMAIN posts'[d] : posts'[d][j].time = time
                 \/ instead # NoValue /\ instead.uid # d]_postingVars
=============================================================================
