--------------------------- MODULE Posting_proof ---------------------------
(***************************************************************************)
(* Proofs about Posting, for every number of devices, posts, uploads, lost *)
(* connections, killed processes and refused posts: the profile lists what *)
(* the server has, a post with a text and a picture has its picture, and   *)
(* while no post is refused a listed one is at most replaced.              *)
(***************************************************************************)
EXTENDS Posting, RealtimeDB_proof

-----------------------------------------------------------------------------
(* Lists of posts.                                                         *)

OwnPost(d) == {p \in Post : p.uid = d}

LEMMA UsersPostsType ==
    ASSUME NEW d \in Device, NEW s \in Snapshot
    PROVE  UsersPosts(d, s) \in SUBSET OwnPost(d) /\ IsFiniteSet(UsersPosts(d, s))
<1>1. {s[k] : k \in Key} \subseteq Value \cup {NoValue}
  BY DEF Snapshot, Child
<1>2. UsersPosts(d, s) \subseteq OwnPost(d)
  BY <1>1, PostingAssumption DEF UsersPosts, OwnPost
<1>3. IsFiniteSet({s[k] : k \in Key})
  <2>1. s \in Surjection(Key, {s[k] : k \in Key})
    BY DEF Surjection, Snapshot
  <2> QED  BY <2>1, PostingAssumption, FS_Surjection
<1>4. UsersPosts(d, s) \subseteq {s[k] : k \in Key}
  BY DEF UsersPosts
<1> QED  BY <1>2, <1>3, <1>4, FS_Subset

\* A sorted list has each of the posts once.
LEMMA NewestFirstType ==
    ASSUME NEW S, NEW ps \in SUBSET S, IsFiniteSet(ps), NEW list \in NewestFirst(ps)
    PROVE  /\ list \in Seq(S) /\ Range(list) = ps
           /\ \A i, j \in DOMAIN list : i < j => list[i].time > list[j].time
<1>1. Cardinality(ps) \in Nat
  BY FS_CardinalityType
<1>2. list \in [1 .. Cardinality(ps) -> ps] /\ \A p \in ps : \E i \in 1 .. Cardinality(ps) : list[i] = p
  BY DEF NewestFirst, Bijection, Injection, Surjection
<1>3. list \in Seq(S)
  BY <1>1, <1>2
<1>4. Range(list) = ps
  BY <1>2 DEF Range
<1> QED  BY <1>3, <1>4 DEF NewestFirst

LEMMA NothingToList ==
    ASSUME NEW list \in NewestFirst({})
    PROVE  list = <<>>
<1>1. Cardinality({}) = 0 /\ 1 .. 0 = {}
  BY FS_EmptySet
<1>2. list \in [{} -> {}]
  BY <1>1 DEF NewestFirst, Bijection, Injection
<1> QED  BY <1>2

-----------------------------------------------------------------------------
(* The inductive invariant.                                                *)

\* The profile observes once, from its first appearance on.
ObservesOnce(d) ==
    IF screen[d] = "start" THEN registrations[d] = <<>> /\ events[d] = <<>>
                           ELSE registrations[d] = <<Profile>>

RowsFit(d) == rows[d] = Len(posts[d]) \/ posts[d] = <<>>

\* The profile lists what the view shows, or a block is on its way to it.
ProfileTold(d) ==
    screen[d] # "start" /\ complete[d] =>
        /\ LastTells(events[d], Profile, View(d))
        /\ HasBlock(events[d], Profile) \/ posts[d] \in NewestFirst(UsersPosts(d, View(d)))

ProfileInv == \A d \in Device : ObservesOnce(d) /\ RowsFit(d) /\ ProfileTold(d)

PostingTypeInv == PostingTypeOK /\ posts \in [Device -> Seq(Post)]

PostingInv == BoardInv /\ PostingTypeInv /\ ImagePostHasImage /\ ProfileInv

\* Every step of the app is a step of the library below it, or none.
LEMMA PostingSteps ==
    ASSUME PostingTypeOK, [PostingNext]_postingVars
    PROVE  [DBNext]_dbVars
<1>1. CASE UNCHANGED postingVars
  BY <1>1 DEF postingVars
<1>2. ASSUME NEW d \in Device, viewDidLoad(d)  PROVE DBNext
  BY <1>2, PostingAssumption DEF viewDidLoad, DBNext, App
<1>3. ASSUME NEW d \in Device,
             leaveProfile(d) \/ viewWillAppear(d) \/ updateData(d) \/ gotoUpstatusvc(d) \/ backButtonaction(d)
      PROVE  UNCHANGED dbVars
  BY <1>3 DEF leaveProfile, viewWillAppear, updateData, gotoUpstatusvc, backButtonaction
<1>4. ASSUME NEW d \in Device, getPost(d)  PROVE DBNext
  BY <1>4 DEF getPost, DBNext, App
<1>5. ASSUME NEW d \in Device, NEW date \in Key, NEW text \in BOOLEAN, NEW image \in BOOLEAN,
             upPostFirebase(d, date, text, image)
      PROVE  DBNext
  <2>1. [uid |-> d, time |-> date, contentText |-> text, imageLink |-> image] \in Value
    BY PostingAssumption DEF Post
  <2> QED  BY <1>5, <2>1 DEF upPostFirebase, DBNext, App
<1>6. ASSUME NEW d \in Device, NEW date \in Key, NEW text \in BOOLEAN, NEW image \in BOOLEAN,
             buttonUppostAction(d, date, text, image)
      PROVE  [DBNext]_dbVars
  BY <1>5, <1>6 DEF buttonUppostAction
<1>7. ASSUME NEW d \in Device, NEW u \in uploads[d],
             storePicture(d, u) \/ putDataDone(d, u) \/ uploadFails(d, u)
      PROVE  UNCHANGED dbVars
  BY <1>7 DEF storePicture, putDataDone, uploadFails
<1>8. ASSUME NEW d \in Device, NEW u \in uploads[d], downloadURLDone(d, u)  PROVE DBNext
  <2>1. u.time \in Key
    BY DEF PostingTypeOK, Upload
  <2> QED  BY <1>5, <1>8, <2>1 DEF downloadURLDone
<1>9. ASSUME NEW d \in Device, KillApp(d) \/ Underneath(d)  PROVE DBNext
  BY <1>9 DEF KillApp, Underneath, DBNext
<1> QED  BY <1>1, <1>2, <1>3, <1>4, <1>6, <1>7, <1>8, <1>9 DEF PostingNext

\* A step below the profile, or one that shows and hides it or reloads its rows.
LEMMA ProfileMoves ==
    ASSUME BoardInv, BoardInv', PostingTypeInv, ProfileInv, NEW e \in Device,
           registrations'[e] = registrations[e], Unmoved(e) \/ Renewed(e),
           screen'[e] = "start" <=> screen[e] = "start",
           posts'[e] = posts[e], rows'[e] \in {rows[e], Len(posts[e])}
    PROVE  ObservesOnce(e)' /\ RowsFit(e)' /\ ProfileTold(e)'
<1> USE DEF BoardInv, DBInv
<1>1. ObservesOnce(e) /\ RowsFit(e) /\ ProfileTold(e)
  BY DEF ProfileInv
<1>2. ObservesOnce(e)'
  <2>1. CASE screen[e] = "start"
    <3>1. registrations[e] = <<>> /\ events[e] = <<>>
      BY <1>1, <2>1 DEF ObservesOnce
    <3>2. events'[e] = <<>>
      BY <3>1 DEF Unmoved, Renewed, Notices
    <3> QED  BY <2>1, <3>1, <3>2 DEF ObservesOnce
  <2>2. CASE screen[e] # "start"
    BY <1>1, <2>2 DEF ObservesOnce
  <2> QED  BY <2>1, <2>2
<1>3. RowsFit(e)'
  BY <1>1 DEF RowsFit
<1>4. ASSUME screen'[e] # "start", complete'[e]
      PROVE  /\ LastTells(events'[e], Profile, View(e)')
             /\ HasBlock(events'[e], Profile) \/ posts'[e] \in NewestFirst(UsersPosts(e, View(e)'))
  <2>1. Profile \in Range(registrations[e])
    BY <1>1, <1>4 DEF ObservesOnce, Range
  <2>2. complete[e] => LastTells(events[e], Profile, View(e))
    BY <1>1, <1>4 DEF ProfileTold
  <2>3. /\ LastTells(events'[e], Profile, View(e)')
        /\ \/ HasBlock(events'[e], Profile)
           \/ complete[e] /\ ~HasBlock(events[e], Profile) /\ View(e)' = View(e)
    BY <1>4, <2>1, <2>2, BlocksMove
  <2> QED  BY <1>1, <1>4, <2>3 DEF ProfileTold
<1>5. ProfileTold(e)'
  BY <1>4 DEF ProfileTold, LastTells, HasBlock, NewestFirst, UsersPosts
<1> QED  BY <1>2, <1>3, <1>5

\* The posts that a step of device d leaves alone, on the other devices.
LEMMA OthersProfile ==
    ASSUME BoardInv, BoardInv', PostingTypeInv, ProfileInv, NEW e \in Device,
           UNCHANGED <<registrations[e], events[e], complete[e], writes[e], cache[e]>>,
           screen'[e] = screen[e], posts'[e] = posts[e], rows'[e] = rows[e]
    PROVE  ObservesOnce(e)' /\ RowsFit(e)' /\ ProfileTold(e)'
BY SameView, ProfileMoves

LEMMA ViewDidLoadProfile ==
    ASSUME BoardInv, BoardInv', PostingTypeInv, ProfileInv, NEW d \in Device, viewDidLoad(d)
    PROVE  ProfileInv'
<1> USE DEF BoardInv, DBInv
<1>1. Observe(d, Profile, <<Profile>> \o registrations[d]) /\ Profile \in Observer
  BY PostingAssumption DEF viewDidLoad, ObserveChildren
<1>2. /\ screen[d] = "start" /\ screen' = [screen EXCEPT ![d] = "profile"]
      /\ rows' = [rows EXCEPT ![d] = Len(posts[d])] /\ posts' = posts
  BY DEF viewDidLoad, reloadData
<1>3. registrations[d] = <<>> /\ events[d] = <<>>
  BY <1>2 DEF ProfileInv, ObservesOnce
<1>4. /\ registrations' = [registrations EXCEPT ![d] = <<Profile>> \o registrations[d]]
      /\ complete' = complete /\ View(d)' = View(d) /\ writes' = writes /\ cache' = cache
      /\ events' = [events EXCEPT ![d] =
            @ \o IF complete[d] THEN <<[to |-> Profile, snapshot |-> View(d)]>> ELSE <<>>]
  BY <1>1, ObserveMoves DEF Observe, putVars
<1>5. registrations'[d] = <<Profile>>
  BY <1>3, <1>4 DEF DBTypeInv, DBTypeOK
<1>6. ObservesOnce(d)' /\ RowsFit(d)'
  BY <1>2, <1>5 DEF ObservesOnce, RowsFit, PostingTypeInv, PostingTypeOK
<1>7. ASSUME complete'[d]
      PROVE  LastTells(events'[d], Profile, View(d)') /\ HasBlock(events'[d], Profile)
  <2> DEFINE told == [to |-> Profile, snapshot |-> View(d)]
  <2>1. events'[d] = <<told>>
    <3>1. events'[d] = <<>> \o <<told>>
      BY <1>3, <1>4, <1>7 DEF DBTypeInv, DBTypeOK
    <3> QED  BY <3>1
  <2>2. told.to = Profile /\ told.snapshot = View(d)
    OBVIOUS
  <2> HIDE DEF told
  <2>3. DOMAIN <<told>> = {1} /\ <<told>>[1] = told
    OBVIOUS
  <2>4. LastTells(events'[d], Profile, View(d)) /\ HasBlock(events'[d], Profile)
    BY <2>1, <2>2, <2>3 DEF LastTells, HasBlock
  <2> QED  BY <1>4, <2>4
<1>8. ProfileTold(d)'
  BY <1>7 DEF ProfileTold, LastTells, HasBlock
<1>9. \A e \in Device : e # d => ObservesOnce(e)' /\ RowsFit(e)' /\ ProfileTold(e)'
  <2>1. ASSUME NEW e \in Device, e # d
        PROVE  /\ UNCHANGED <<registrations[e], events[e], complete[e], writes[e], cache[e]>>
               /\ screen'[e] = screen[e] /\ posts'[e] = posts[e] /\ rows'[e] = rows[e]
    BY <1>2, <1>4, <2>1 DEF DBTypeInv, DBTypeOK, PostingTypeInv, PostingTypeOK
  <2> HIDE DEF BoardInv, DBInv
  <2> QED  BY <2>1, OthersProfile
<1> QED  BY <1>6, <1>8, <1>9 DEF ProfileInv

LEMMA GetPostProfile ==
    ASSUME BoardInv, BoardInv', PostingTypeInv, ProfileInv, NEW d \in Device, getPost(d)
    PROVE  ProfileInv'
<1> USE DEF BoardInv, DBInv
<1> DEFINE s == Head(events[d]).snapshot
<1>1. PICK list \in NewestFirst(UsersPosts(d, s)) :
          /\ posts' = [posts EXCEPT ![d] = list]
          /\ rows' = [rows EXCEPT ![d] = Reloaded(d, list)]
  BY DEF getPost, Gathered
<1>2. /\ events[d] # <<>> /\ events' = [events EXCEPT ![d] = Tail(@)] /\ screen' = screen
      /\ registrations' = registrations /\ complete' = complete /\ writes' = writes /\ cache' = cache
  BY DEF getPost, TakeEvent, putVars
<1>3. events[d] \in Seq(Event) /\ Head(events[d]) \in Event /\ events'[d] = Tail(events[d])
  BY <1>2 DEF DBTypeInv, DBTypeOK
<1>4. posts'[d] = list /\ rows'[d] = Reloaded(d, list)
  BY <1>1 DEF PostingTypeInv, PostingTypeOK
<1>5. View(d)' = View(d)
  BY <1>2 DEF View, Overlay
<1>6. ObservesOnce(d)'
  BY <1>2 DEF ProfileInv, ObservesOnce
<1>7. RowsFit(d)'
  BY <1>4 DEF RowsFit, Reloaded
<1>8. ASSUME screen'[d] # "start", complete'[d]
      PROVE  /\ LastTells(events'[d], Profile, View(d)')
             /\ HasBlock(events'[d], Profile) \/ posts'[d] \in NewestFirst(UsersPosts(d, View(d)'))
  <2>1. LastTells(events[d], Profile, View(d))
    BY <1>2, <1>8 DEF ProfileInv, ProfileTold
  <2>2. Head(events[d]).to = Profile
    BY <1>3, PostingAssumption DEF Event
  <2>3. /\ LastTells(Tail(events[d]), Profile, View(d))
        /\ HasBlock(Tail(events[d]), Profile) \/ s = View(d)
    BY <1>2, <1>3, <2>1, <2>2, BlockRuns
  <2> QED  BY <1>1, <1>3, <1>4, <1>5, <2>3
<1>9. ProfileTold(d)'
  BY <1>8 DEF ProfileTold, LastTells, HasBlock, NewestFirst, UsersPosts
<1>10. \A e \in Device : e # d => ObservesOnce(e)' /\ RowsFit(e)' /\ ProfileTold(e)'
  <2>1. ASSUME NEW e \in Device, e # d
        PROVE  /\ UNCHANGED <<registrations[e], events[e], complete[e], writes[e], cache[e]>>
               /\ screen'[e] = screen[e] /\ posts'[e] = posts[e] /\ rows'[e] = rows[e]
    BY <1>1, <1>2, <2>1 DEF DBTypeInv, DBTypeOK, PostingTypeInv, PostingTypeOK
  <2> HIDE DEF BoardInv, DBInv
  <2> QED  BY <2>1, OthersProfile
<1> QED  BY <1>6, <1>7, <1>9, <1>10 DEF ProfileInv

LEMMA KillAppProfile ==
    ASSUME BoardInv, BoardInv', PostingTypeInv, ProfileInv, NEW d \in Device, KillApp(d)
    PROVE  ProfileInv'
<1> USE DEF BoardInv, DBInv
<1>1. /\ registrations' = [registrations EXCEPT ![d] = <<>>] /\ events' = [events EXCEPT ![d] = <<>>]
      /\ complete' = [complete EXCEPT ![d] = FALSE] /\ writes' = [writes EXCEPT ![d] = {}]
      /\ cache' = [cache EXCEPT ![d] = Empty]
      /\ screen' = [screen EXCEPT ![d] = "start"] /\ posts' = [posts EXCEPT ![d] = <<>>]
      /\ rows' = [rows EXCEPT ![d] = 0]
  BY DEF KillApp, Kill
<1>2. ObservesOnce(d)' /\ RowsFit(d)' /\ ProfileTold(d)'
  BY <1>1 DEF ObservesOnce, RowsFit, ProfileTold, DBTypeInv, DBTypeOK, PostingTypeInv, PostingTypeOK
<1>3. \A e \in Device : e # d => ObservesOnce(e)' /\ RowsFit(e)' /\ ProfileTold(e)'
  <2>1. ASSUME NEW e \in Device, e # d
        PROVE  /\ UNCHANGED <<registrations[e], events[e], complete[e], writes[e], cache[e]>>
               /\ screen'[e] = screen[e] /\ posts'[e] = posts[e] /\ rows'[e] = rows[e]
    BY <1>1, <2>1 DEF DBTypeInv, DBTypeOK, PostingTypeInv, PostingTypeOK
  <2> HIDE DEF BoardInv, DBInv
  <2> QED  BY <2>1, OthersProfile
<1> QED  BY <1>2, <1>3 DEF ProfileInv

LEMMA ProfileNext ==
    ASSUME BoardInv, BoardInv', PostingTypeInv, ProfileInv, [PostingNext]_postingVars
    PROVE  ProfileInv'
<1> USE DEF BoardInv, DBInv
<1>1. ASSUME UNCHANGED <<dbVars, posts>>,
             \A e \in Device : /\ screen'[e] = "start" <=> screen[e] = "start"
                               /\ rows'[e] \in {rows[e], Len(posts[e])}
      PROVE  ProfileInv'
  <2>1. UNCHANGED <<registrations, events, complete, writes, cache>>
    BY <1>1 DEF dbVars, viewVars, putVars
  <2>2. \A e \in Device : Unmoved(e)
    BY <2>1, SameView
  <2> QED  BY <1>1, <2>1, <2>2, ProfileMoves DEF ProfileInv
<1>2. ASSUME NEW d \in Device, viewWillAppear(d) \/ updateData(d) \/ leaveProfile(d) \/ gotoUpstatusvc(d)
                               \/ backButtonaction(d)
      PROVE  ProfileInv'
  BY <1>1, <1>2 DEF viewWillAppear, updateData, leaveProfile, gotoUpstatusvc, backButtonaction,
                    dismiss, reloadData, PostingTypeInv, PostingTypeOK
<1>3. ASSUME NEW d \in Device, NEW date \in Key, NEW v \in Value, SetValue(d, date, v), posts' = posts,
             \A e \in Device : /\ screen'[e] = "start" <=> screen[e] = "start"
                               /\ rows'[e] \in {rows[e], Len(posts[e])}
      PROVE  ProfileInv'
  BY <1>3, SetValueMoves, ProfileMoves DEF ProfileInv
<1>4. ASSUME NEW d \in Device, NEW date \in Key, NEW text \in BOOLEAN, NEW image \in BOOLEAN,
             buttonUppostAction(d, date, text, image)
      PROVE  ProfileInv'
  <2>1. /\ posts' = posts
        /\ \A e \in Device : /\ screen'[e] = "start" <=> screen[e] = "start"
                             /\ rows'[e] \in {rows[e], Len(posts[e])}
    BY <1>4 DEF buttonUppostAction, dismiss, reloadData, PostingTypeInv, PostingTypeOK
  <2> DEFINE v == [uid |-> d, time |-> date, contentText |-> text, imageLink |-> image]
  <2>2. v \in Value
    BY PostingAssumption DEF Post
  <2>3. UNCHANGED dbVars \/ SetValue(d, date, v)
    BY <1>4 DEF buttonUppostAction, upPostFirebase
  <2> HIDE DEF v
  <2> QED  BY <1>1, <1>3, <2>1, <2>2, <2>3
<1>5. ASSUME NEW d \in Device, NEW u \in uploads[d],
             storePicture(d, u) \/ putDataDone(d, u) \/ uploadFails(d, u)
      PROVE  ProfileInv'
  BY <1>1, <1>5 DEF storePicture, putDataDone, uploadFails, profileVars
<1>6. ASSUME NEW d \in Device, NEW u \in uploads[d], downloadURLDone(d, u)  PROVE ProfileInv'
  <2> DEFINE v == [uid |-> d, time |-> u.time, contentText |-> TRUE, imageLink |-> TRUE]
  <2>1. u.time \in Key
    BY DEF PostingTypeInv, PostingTypeOK, Upload
  <2>2. v \in Value
    BY <2>1, PostingAssumption DEF Post
  <2>3. SetValue(d, u.time, v) /\ UNCHANGED profileVars
    BY <1>6 DEF downloadURLDone, upPostFirebase
  <2> HIDE DEF v
  <2> QED  BY <1>3, <2>1, <2>2, <2>3 DEF profileVars
<1>7. ASSUME NEW d \in Device, Underneath(d)  PROVE ProfileInv'
  <2>1. registrations' = registrations /\ \A e \in Device : Unmoved(e) \/ Renewed(e)
    BY <1>7, LibraryMoves, OthersUnmoved DEF Underneath
  <2>2. UNCHANGED profileVars
    BY <1>7 DEF Underneath
  <2> QED  BY <2>1, <2>2, ProfileMoves DEF ProfileInv, profileVars
<1>8. CASE UNCHANGED postingVars
  BY <1>1, <1>8 DEF postingVars, profileVars
<1> QED  BY <1>2, <1>4, <1>5, <1>6, <1>7, <1>8, ViewDidLoadProfile, GetPostProfile, KillAppProfile
         DEF PostingNext

-----------------------------------------------------------------------------
(* Types, and the pictures of posts.                                       *)

LEMMA GetPostTyped ==
    ASSUME BoardInv, PostingTypeInv, NEW d \in Device, getPost(d)
    PROVE  PostingTypeInv'
<1> USE DEF BoardInv, DBInv
<1> DEFINE ps == UsersPosts(d, Head(events[d]).snapshot)
<1>1. PICK list \in NewestFirst(ps) : /\ posts' = [posts EXCEPT ![d] = list]
                                      /\ rows' = [rows EXCEPT ![d] = Reloaded(d, list)]
  BY DEF getPost, Gathered
<1>2. Head(events[d]).snapshot \in Snapshot
  <2>1. events[d] \in Seq(Event) /\ events[d] # <<>>
    BY DEF getPost, TakeEvent, DBTypeInv, DBTypeOK
  <2>2. Head(events[d]) \in Event
    BY <2>1
  <2> QED  BY <2>2 DEF Event
<1>3. ps \in SUBSET OwnPost(d) /\ ps \in SUBSET Post /\ IsFiniteSet(ps)
  BY <1>2, UsersPostsType DEF OwnPost
<1> HIDE DEF ps
<1>4. list \in Seq(OwnPost(d)) /\ list \in Seq(Post)
  BY <1>3, NewestFirstType
<1>5. Reloaded(d, list) \in Nat
  BY <1>4 DEF Reloaded, PostingTypeInv, PostingTypeOK
<1>6. UNCHANGED <<screen, uploads, storage>>
  BY DEF getPost
<1> QED  BY <1>1, <1>4, <1>5, <1>6 DEF PostingTypeInv, PostingTypeOK, OwnPost, Picture

LEMMA PostingTypedNext ==
    ASSUME BoardInv, PostingTypeInv, [PostingNext]_postingVars
    PROVE  PostingTypeInv'
<1> USE DEF PostingTypeInv, PostingTypeOK
<1>1. \A e \in Device : Len(posts[e]) \in Nat
  OBVIOUS
<1>2. ASSUME NEW d \in Device,
             viewDidLoad(d) \/ viewWillAppear(d) \/ updateData(d) \/ leaveProfile(d) \/ gotoUpstatusvc(d)
             \/ backButtonaction(d)
      PROVE  PostingTypeInv'
  BY <1>1, <1>2 DEF viewDidLoad, viewWillAppear, updateData, leaveProfile, gotoUpstatusvc,
                    backButtonaction, dismiss, reloadData, Picture
<1>3. ASSUME NEW d \in Device, NEW date \in Key, NEW text \in BOOLEAN, NEW image \in BOOLEAN,
             buttonUppostAction(d, date, text, image)
      PROVE  PostingTypeInv'
  <2> DEFINE u == [time |-> date, awaits |-> "putData"]
  <2>1. u \in Upload /\ u.awaits # "downloadURL"
    BY DEF Upload
  <2>2. /\ screen' = [screen EXCEPT ![d] = "profile"] /\ rows' = [rows EXCEPT ![d] = Len(posts[d])]
        /\ posts' = posts /\ storage' = storage
        /\ uploads' = uploads \/ uploads' = [uploads EXCEPT ![d] = @ \cup {u}]
    BY <1>3 DEF buttonUppostAction, dismiss, reloadData
  <2> HIDE DEF u
  <2> QED  BY <1>1, <2>1, <2>2 DEF Picture
<1>4. ASSUME NEW d \in Device, NEW u \in uploads[d], storePicture(d, u)
      PROVE  PostingTypeInv'
  <2>1. storage' = storage \cup {Picture(d, u)} /\ UNCHANGED <<profileVars, uploads>>
    BY <1>4 DEF storePicture
  <2>2. Picture(d, u) \in Device \X Key
    BY DEF Picture, Upload
  <2> QED  BY <2>1, <2>2 DEF Picture, profileVars
<1>5. ASSUME NEW d \in Device, NEW u \in uploads[d], putDataDone(d, u)
      PROVE  PostingTypeInv'
  <2> DEFINE v == [u EXCEPT !.awaits = "downloadURL"]
  <2>1. v \in Upload /\ v.time = u.time /\ Picture(d, u) \in storage
    <3>1. u \in Upload /\ Picture(d, u) \in storage
      BY <1>5 DEF putDataDone, Stored
    <3> QED  BY <3>1 DEF Upload
  <2>2. /\ uploads' = [uploads EXCEPT ![d] = (@ \ {u}) \cup {v}] /\ storage' = storage
        /\ UNCHANGED profileVars
    BY <1>5 DEF putDataDone
  <2> HIDE DEF v
  <2> QED  BY <2>1, <2>2 DEF Picture, profileVars
<1>6. ASSUME NEW d \in Device, NEW u \in uploads[d], downloadURLDone(d, u) \/ uploadFails(d, u)
      PROVE  PostingTypeInv'
  <2>1. uploads' = [uploads EXCEPT ![d] = @ \ {u}] /\ storage' = storage /\ UNCHANGED profileVars
    BY <1>6 DEF downloadURLDone, uploadFails
  <2> QED  BY <2>1 DEF Picture, profileVars
<1>7. ASSUME NEW d \in Device, KillApp(d)  PROVE PostingTypeInv'
  BY <1>7 DEF KillApp, Picture
<1>8. ASSUME NEW d \in Device, Underneath(d)  PROVE PostingTypeInv'
  BY <1>8 DEF Underneath, profileVars, Picture
<1>9. CASE UNCHANGED postingVars
  BY <1>9 DEF postingVars, profileVars, Picture
<1> QED  BY <1>2, <1>3, <1>4, <1>5, <1>6, <1>7, <1>8, <1>9, GetPostTyped DEF PostingNext

LEMMA ImagesNext ==
    ASSUME BoardInv, PostingTypeInv, ImagePostHasImage, [PostingNext]_postingVars
    PROVE  ImagePostHasImage'
<1> DEFINE hasImage(p) == p.contentText /\ p.imageLink => <<p.uid, p.time>> \in storage
<1>1. /\ \A k \in Key : store[k] # NoValue => hasImage(store[k])
      /\ \A d \in Device : \A w \in writes[d] : hasImage(w.value)
  BY DEF ImagePostHasImage
<1>2. ASSUME storage \subseteq storage',
             \A k \in Key : \/ store'[k] = store[k]
                            \/ \E d \in Device : \E w \in writes[d] : store'[k] = w.value,
             \A d \in Device : \A w \in writes'[d] : w \in writes[d] \/ hasImage(w.value)
      PROVE  ImagePostHasImage'
  BY <1>1, <1>2 DEF ImagePostHasImage
<1> HIDE DEF hasImage
<1>3. ASSUME UNCHANGED dbVars, storage \subseteq storage'  PROVE ImagePostHasImage'
  BY <1>2, <1>3 DEF dbVars, serverVars, putVars
<1>4. ASSUME NEW d \in Device, Library(d) \/ Server(d) \/ Disconnect(d) \/ Kill(d), storage' = storage
      PROVE  ImagePostHasImage'
  <2>1. \A k \in Key : \/ store'[k] = store[k]
                       \/ \E w \in writes[d] : store'[k] = w.value
    BY <1>4, WritesOnlyLeave DEF BoardInv, DBInv, DBTypeInv, DBTypeOK, Snapshot
  <2> QED  BY <1>2, <1>4, <2>1, WritesOnlyLeave
<1>5. ASSUME NEW d \in Device, NEW date \in Key, NEW v, SetValue(d, date, v), hasImage(v), storage' = storage
      PROVE  ImagePostHasImage'
  <2> DEFINE w == [id |-> nextWriteId[d], key |-> date, value |-> v]
  <2>1. writes' = [writes EXCEPT ![d] = @ \cup {w}] /\ store' = store
    BY <1>5 DEF SetValue, serverVars
  <2>2. w.value = v
    OBVIOUS
  <2> HIDE DEF w
  <2>3. \A e \in Device : \A x \in writes'[e] : x \in writes[e] \/ x = w
    BY <2>1 DEF BoardInv, DBInv, DBTypeInv, DBTypeOK
  <2> QED  BY <1>2, <1>5, <2>1, <2>2, <2>3
<1>6. ASSUME NEW d \in Device, viewDidLoad(d) \/ getPost(d)  PROVE ImagePostHasImage'
  <2>1. store' = store /\ writes' = writes /\ storage' = storage
    BY <1>6 DEF viewDidLoad, getPost, ObserveChildren, Observe, TakeEvent, serverVars, putVars
  <2> QED  BY <1>2, <2>1
<1>7. ASSUME NEW d \in Device,
             viewWillAppear(d) \/ updateData(d) \/ leaveProfile(d) \/ gotoUpstatusvc(d) \/ backButtonaction(d)
      PROVE  ImagePostHasImage'
  BY <1>3, <1>7 DEF viewWillAppear, updateData, leaveProfile, gotoUpstatusvc, backButtonaction
<1>8. ASSUME NEW d \in Device, NEW date \in Key, NEW text \in BOOLEAN, NEW image \in BOOLEAN,
             buttonUppostAction(d, date, text, image)
      PROVE  ImagePostHasImage'
  <2> DEFINE v == [uid |-> d, time |-> date, contentText |-> text, imageLink |-> image]
  <2>1. storage' = storage /\ (UNCHANGED dbVars \/ (~(text /\ image) /\ SetValue(d, date, v)))
    BY <1>8 DEF buttonUppostAction, upPostFirebase
  <2>2. ~(text /\ image) => hasImage(v)
    BY DEF hasImage
  <2> HIDE DEF v
  <2> QED  BY <1>3, <1>5, <2>1, <2>2
<1>9. ASSUME NEW d \in Device, NEW u \in uploads[d],
             storePicture(d, u) \/ putDataDone(d, u) \/ uploadFails(d, u)
      PROVE  ImagePostHasImage'
  BY <1>3, <1>9 DEF storePicture, putDataDone, uploadFails
<1>10. ASSUME NEW d \in Device, NEW u \in uploads[d], downloadURLDone(d, u)  PROVE ImagePostHasImage'
  <2> DEFINE v == [uid |-> d, time |-> u.time, contentText |-> TRUE, imageLink |-> TRUE]
  <2>1. storage' = storage /\ SetValue(d, u.time, v) /\ u.time \in Key /\ Picture(d, u) \in storage
    BY <1>10 DEF downloadURLDone, upPostFirebase, MayPost, PostingTypeInv, PostingTypeOK, Upload
  <2>2. hasImage(v)
    BY <2>1 DEF hasImage, Picture
  <2> HIDE DEF v
  <2> QED  BY <1>5, <2>1, <2>2
<1>11. ASSUME NEW d \in Device, KillApp(d) \/ Underneath(d)  PROVE ImagePostHasImage'
  BY <1>4, <1>11 DEF KillApp, Underneath
<1>12. CASE UNCHANGED postingVars
  BY <1>3, <1>12 DEF postingVars
<1> QED  BY <1>6, <1>7, <1>8, <1>9, <1>10, <1>11, <1>12 DEF PostingNext

-----------------------------------------------------------------------------
(* The properties.                                                         *)

LEMMA PostingInit_Inv == PostingInit => PostingInv
<1> SUFFICES ASSUME PostingInit  PROVE PostingInv
  OBVIOUS
<1>1. BoardInv
  BY InitBoard DEF PostingInit
<1>2. PostingTypeInv
  BY DEF PostingInit, PostingTypeInv, PostingTypeOK
<1>3. ImagePostHasImage
  BY DEF PostingInit, DBInit, Empty, ImagePostHasImage
<1>4. ProfileInv
  BY DEF PostingInit, DBInit, ProfileInv, ObservesOnce, RowsFit, ProfileTold
<1> QED  BY <1>1, <1>2, <1>3, <1>4 DEF PostingInv

LEMMA PostingInvariance == PostingSpec => []PostingInv
<1>1. PostingInv /\ [PostingNext]_postingVars => PostingInv'
  <2> SUFFICES ASSUME PostingInv, [PostingNext]_postingVars  PROVE PostingInv'
    OBVIOUS
  <2>1. BoardInv'
    BY PostingSteps, NextBoard DEF PostingInv, PostingTypeInv
  <2> QED  BY <2>1, PostingTypedNext, ImagesNext, ProfileNext DEF PostingInv
<1> QED  BY <1>1, PostingInit_Inv, PTL DEF PostingSpec

\* The screens of the posts use the library as it is to be used: everything that
\* is proved of RealtimeDB holds under the app.
THEOREM PostingUsesDB == PostingSpec => DBSpec
<1>1. PostingInit => DBInit
  BY DEF PostingInit
<1>2. PostingInv /\ [PostingNext]_postingVars => [DBNext]_dbVars
  BY PostingSteps DEF PostingInv, PostingTypeInv
<1> QED  BY <1>1, <1>2, PostingInvariance, PTL DEF PostingSpec, DBSpec

\* The profile only has posts of its user and a download URL is only asked for a
\* picture that is stored, on any number of devices.
THEOREM PostingTyped == PostingSpec => []PostingTypeOK
<1>1. PostingInv => PostingTypeOK
  BY DEF PostingInv, PostingTypeInv
<1> QED  BY <1>1, PostingInvariance, PTL

\* No post with a text is marked with a picture that is not in Storage, whatever
\* uploads fail, processes are killed or puts are sent again.
THEOREM PostedImages == PostingSpec => []ImagePostHasImage
<1>1. PostingInv => ImagePostHasImage
  BY DEF PostingInv
<1> QED  BY <1>1, PostingInvariance, PTL

\* The table never has a row without a post, and when nothing is under way the
\* profile lists exactly the user's posts on the server, newest first.
THEOREM ProfileMirrors == PostingSpec => []ProfileMirrorsStore
<1>1. PostingInv /\ Completing /\ QuietMirrorsStore => ProfileMirrorsStore
  <2> SUFFICES ASSUME PostingInv, Completing, QuietMirrorsStore, NEW d \in Device,
                      Quiet(d), ~Acking(d), events[d] = <<>>
               PROVE  /\ Range(posts[d]) = UsersPosts(d, store)
                      /\ \A i, j \in DOMAIN posts[d] : i < j => posts[d][i].time > posts[d][j].time
    BY DEF ProfileMirrorsStore, PostingInv, ProfileInv, RowsFit
  <2> USE DEF PostingInv, BoardInv, DBInv
  <2>1. complete[d]
    BY DEF Completing, Quiet, OfType
  <2>2. registrations[d] # <<>>
    BY DEF Quiet, ListensCounted, ListensAgree
  <2>3. posts[d] \in NewestFirst(UsersPosts(d, View(d)))
    BY <2>1, <2>2 DEF ProfileInv, ProfileTold, ObservesOnce, HasBlock
  <2>4. View(d) = store
    BY DEF QuietMirrorsStore
  <2>5. UsersPosts(d, store) \in SUBSET OwnPost(d) /\ IsFiniteSet(UsersPosts(d, store))
    BY UsersPostsType DEF DBTypeInv, DBTypeOK
  <2> QED  BY <2>3, <2>4, <2>5, NewestFirstType
<1> QED  BY <1>1, PostingInvariance, PostingUsesDB, CompletingInvariance, DBQuietMirrorsStore, PTL

-----------------------------------------------------------------------------
(* Posts that stay.  While no post is refused, everything the profile      *)
(* lists is in all blocks still to run, or has been replaced there.        *)

\* Every post is written under its time.
LEMMA PostsPlacedNext ==
    ASSUME PostingInv, PostingInv', FitInv(Placed), [PostingNext]_postingVars
    PROVE  FitInv(Placed)'
<1> USE DEF PostingInv, BoardInv, DBInv
<1> SUFFICES \A d \in Device : WritesFit(Placed, writes'[d])
  <2>1. [DBNext]_dbVars
    BY PostingSteps DEF PostingTypeInv
  <2> QED  BY <2>1, FitNext
<1>1. ASSUME \A d \in Device : writes'[d] \subseteq writes[d]
      PROVE  \A d \in Device : WritesFit(Placed, writes'[d])
  BY <1>1 DEF FitInv, WritesFit
<1>2. ASSUME UNCHANGED dbVars  PROVE \A d \in Device : WritesFit(Placed, writes'[d])
  BY <1>1, <1>2 DEF dbVars, putVars
<1>3. ASSUME NEW d \in Device, NEW date \in Key, NEW text \in BOOLEAN, NEW image \in BOOLEAN,
             upPostFirebase(d, date, text, image)
      PROVE  \A e \in Device : WritesFit(Placed, writes'[e])
  <2> DEFINE post == [uid |-> d, time |-> date, contentText |-> text, imageLink |-> image]
             w == [id |-> nextWriteId[d], key |-> date, value |-> post]
  <2>1. writes' = [writes EXCEPT ![d] = @ \cup {w}]
    BY <1>3 DEF upPostFirebase, SetValue
  <2>2. post \in Value /\ post.time = date
    BY PostingAssumption DEF Post
  <2>3. w.key = date /\ w.value = post
    OBVIOUS
  <2> HIDE DEF post, w
  <2>4. <<w.key, w.value>> \in Placed
    BY <2>2, <2>3 DEF Placed
  <2>5. \A e \in Device : \A x \in writes'[e] : x \in writes[e] \/ x = w
    BY <2>1 DEF DBTypeInv, DBTypeOK
  <2> QED  BY <2>4, <2>5 DEF FitInv, WritesFit
<1>4. ASSUME NEW d \in Device, viewDidLoad(d) \/ getPost(d)
      PROVE  \A e \in Device : WritesFit(Placed, writes'[e])
  BY <1>1, <1>4 DEF viewDidLoad, getPost, ObserveChildren, Observe, TakeEvent, putVars
<1>5. ASSUME NEW d \in Device,
             viewWillAppear(d) \/ updateData(d) \/ leaveProfile(d) \/ gotoUpstatusvc(d) \/ backButtonaction(d)
      PROVE  \A e \in Device : WritesFit(Placed, writes'[e])
  BY <1>2, <1>5 DEF viewWillAppear, updateData, leaveProfile, gotoUpstatusvc, backButtonaction
<1>6. ASSUME NEW d \in Device, NEW date \in Key, NEW text \in BOOLEAN, NEW image \in BOOLEAN,
             buttonUppostAction(d, date, text, image)
      PROVE  \A e \in Device : WritesFit(Placed, writes'[e])
  BY <1>2, <1>3, <1>6 DEF buttonUppostAction
<1>7. ASSUME NEW d \in Device, NEW u \in uploads[d],
             storePicture(d, u) \/ putDataDone(d, u) \/ uploadFails(d, u) \/ downloadURLDone(d, u)
      PROVE  \A e \in Device : WritesFit(Placed, writes'[e])
  <2>1. u.time \in Key
    BY DEF PostingTypeInv, PostingTypeOK, Upload
  <2> QED  BY <1>2, <1>3, <1>7, <2>1 DEF storePicture, putDataDone, uploadFails, downloadURLDone
<1>8. ASSUME NEW d \in Device, KillApp(d) \/ Underneath(d)
      PROVE  \A e \in Device : WritesFit(Placed, writes'[e])
  BY <1>1, <1>8, WritesOnlyLeave DEF KillApp, Underneath
<1>9. CASE UNCHANGED postingVars
  BY <1>2, <1>9 DEF postingVars
<1> QED  BY <1>4, <1>5, <1>6, <1>7, <1>8, <1>9 DEF PostingNext

LEMMA PostsPlaced == PostingSpec => []FitInv(Placed)
<1>1. PostingInit => FitInv(Placed)
  BY InitFits DEF PostingInit
<1>2. PostingInv /\ PostingInv' /\ FitInv(Placed) /\ [PostingNext]_postingVars => FitInv(Placed)'
  BY PostsPlacedNext
<1> QED  BY <1>1, <1>2, PostingInvariance, PTL DEF PostingSpec

TimesOf(list) == {list[i].time : i \in DOMAIN list}

\* The posts go with the process; while nothing is refused, every block to come
\* has a child at the time of each.
PostsKept(d) ==
    /\ ~complete[d] => posts[d] = <<>>
    /\ rejects = 0 => \A time \in TimesOf(posts[d]) : time \in Key /\ Shown(d, time)

PostsInv == \A d \in Device : PostsKept(d)

\* The profile has the posts of its user in the snapshot, and no others.
LEMMA PostTimes ==
    ASSUME NEW s \in Snapshot, Fits(Placed, s), NEW d \in Device, NEW list \in NewestFirst(UsersPosts(d, s))
    PROVE  /\ \A time \in TimesOf(list) : time \in Key /\ s[time] # NoValue
           /\ \A k \in Key : s[k] # NoValue /\ s[k].uid = d => \E j \in DOMAIN list : list[j].time = k
<1>1. Range(list) = UsersPosts(d, s)
  BY UsersPostsType, NewestFirstType
<1>2. ASSUME NEW i \in DOMAIN list  PROVE list[i].time \in Key /\ s[list[i].time] # NoValue
  <2>1. list[i] \in UsersPosts(d, s)
    BY <1>1 DEF Range
  <2>2. PICK k \in Key : list[i] = s[k] /\ s[k] # NoValue
    BY <2>1 DEF UsersPosts
  <2> QED  BY <2>2, PlacedTimes
<1>3. ASSUME NEW k \in Key, s[k] # NoValue, s[k].uid = d  PROVE \E j \in DOMAIN list : list[j].time = k
  <2>1. s[k] \in UsersPosts(d, s)
    BY <1>3 DEF UsersPosts
  <2>2. PICK j \in DOMAIN list : list[j] = s[k]
    BY <1>1, <2>1 DEF Range
  <2> QED  BY <1>3, <2>2, PlacedTimes
<1> QED  BY <1>2, <1>3 DEF TimesOf

\* A step that leaves the posts alone.
LEMMA PostsStay ==
    ASSUME PostingInv, PostingInv', GrowInv, [DBNext]_dbVars, NEW e \in Device, PostsKept(e),
           rejects' = 0 => rejects = 0, complete[e] => complete'[e], posts'[e] = posts[e]
    PROVE  PostsKept(e)'
<1>1. ASSUME rejects' = 0, NEW time \in TimesOf(posts[e])  PROVE time \in Key /\ Shown(e, time)'
  <2>1. complete[e]
    BY <1>1 DEF PostsKept, TimesOf
  <2>2. time \in Key /\ Shown(e, time)
    BY <1>1 DEF PostsKept
  <2> QED  BY <1>1, <2>1, <2>2, ShownNext DEF PostingInv
<1>2. rejects' = 0 => (\A time \in TimesOf(posts[e]) : time \in Key /\ Shown(e, time))'
  BY <1>1 DEF TimesOf
<1>3. complete'[e] \/ ~complete[e]
  OBVIOUS
<1> QED  BY <1>2, <1>3 DEF PostsKept

\* What a block brings, all that follow it have.
LEMMA GatheredPosts ==
    ASSUME PostingInv, PostingInv', GrowInv, FitInv(Placed), [DBNext]_dbVars, NEW e \in Device,
           rejects' = 0 => rejects = 0, getPost(e)
    PROVE  PostsKept(e)'
<1> DEFINE s == Head(events[e]).snapshot
<1>1. PICK list \in NewestFirst(UsersPosts(e, s)) : posts' = [posts EXCEPT ![e] = list]
  BY DEF getPost, Gathered
<1>2. posts'[e] = list /\ events[e] # <<>> /\ complete' = complete
  BY <1>1 DEF getPost, TakeEvent, PostingInv, PostingTypeInv
<1>3. s \in Snapshot /\ Fits(Placed, s) /\ complete[e]
  BY <1>2, HeadPlaced DEF PostingInv, GrowInv, CompleteInv
<1>4. ASSUME rejects' = 0, NEW k \in Key, s[k] # NoValue  PROVE Shown(e, k)'
  <2>1. Shown(e, k)
    BY <1>2, <1>4, HeadShown DEF PostingInv
  <2> QED  BY <1>2, <1>3, <1>4, <2>1, ShownNext DEF PostingInv
<1> HIDE DEF s
<1>5. \A time \in TimesOf(list) : time \in Key /\ s[time] # NoValue
  BY <1>1, <1>3, PostTimes
<1>6. rejects' = 0 => (\A time \in TimesOf(posts[e]) : time \in Key /\ Shown(e, time))'
  BY <1>2, <1>4, <1>5 DEF TimesOf
<1> QED  BY <1>2, <1>3, <1>6 DEF PostsKept

LEMMA PostsNext ==
    ASSUME PostingInv, PostingInv', GrowInv, FitInv(Placed), PostsInv, [PostingNext]_postingVars
    PROVE  PostsInv'
<1> SUFFICES ASSUME NEW e \in Device  PROVE PostsKept(e)'
  BY DEF PostsInv
<1> USE DEF PostingInv, BoardInv, DBInv
<1>1. [DBNext]_dbVars /\ PostsKept(e)
  BY PostingSteps DEF PostingTypeInv, PostsInv
<1>2. rejects' = 0 => rejects = 0
  BY <1>1, TakenNext DEF GrowInv, BlocksInv
<1>3. ASSUME complete[e] => complete'[e], posts'[e] = posts[e]  PROVE PostsKept(e)'
  BY <1>1, <1>2, <1>3, PostsStay
<1>4. ASSUME UNCHANGED dbVars, posts' = posts  PROVE PostsKept(e)'
  BY <1>3, <1>4 DEF dbVars, viewVars
<1>5. ASSUME NEW d \in Device, viewDidLoad(d)  PROVE PostsKept(e)'
  BY <1>3, <1>5 DEF viewDidLoad, ObserveChildren, Observe
<1>6. ASSUME NEW d \in Device,
             viewWillAppear(d) \/ updateData(d) \/ leaveProfile(d) \/ gotoUpstatusvc(d) \/ backButtonaction(d)
      PROVE  PostsKept(e)'
  BY <1>4, <1>6 DEF viewWillAppear, updateData, leaveProfile, gotoUpstatusvc, backButtonaction, dismiss
<1>7. ASSUME NEW d \in Device, getPost(d)  PROVE PostsKept(e)'
  <2>1. complete' = complete /\ (d # e => posts'[e] = posts[e])
    BY <1>7 DEF getPost, TakeEvent, PostingTypeInv
  <2> QED  BY <1>1, <1>2, <1>3, <1>7, <2>1, GatheredPosts
<1>8. ASSUME NEW d \in Device, NEW date \in Key, NEW text \in BOOLEAN, NEW image \in BOOLEAN,
             buttonUppostAction(d, date, text, image)
      PROVE  PostsKept(e)'
  <2>1. UNCHANGED dbVars \/ complete' = complete
    BY <1>8 DEF buttonUppostAction, upPostFirebase, SetValue
  <2> QED  BY <1>3, <1>4, <1>8, <2>1 DEF buttonUppostAction, dismiss
<1>9. ASSUME NEW d \in Device, NEW u \in uploads[d],
             storePicture(d, u) \/ putDataDone(d, u) \/ uploadFails(d, u)
      PROVE  PostsKept(e)'
  BY <1>4, <1>9 DEF storePicture, putDataDone, uploadFails, profileVars
<1>10. ASSUME NEW d \in Device, NEW u \in uploads[d], downloadURLDone(d, u)  PROVE PostsKept(e)'
  BY <1>3, <1>10 DEF downloadURLDone, upPostFirebase, SetValue, profileVars
<1>11. ASSUME NEW d \in Device, KillApp(d)  PROVE PostsKept(e)'
  <2>1. complete' = [complete EXCEPT ![d] = FALSE] /\ posts' = [posts EXCEPT ![d] = <<>>]
    BY <1>11 DEF KillApp, Kill
  <2>2. CASE d = e
    <3>1. posts'[e] = <<>>
      BY <2>1, <2>2 DEF PostingTypeInv
    <3> QED  BY <3>1 DEF PostsKept, TimesOf
  <2>3. CASE d # e
    <3>1. complete'[e] = complete[e] /\ posts'[e] = posts[e]
      BY <2>1, <2>3 DEF PostingTypeInv, DBTypeInv, DBTypeOK
    <3> QED  BY <1>3, <3>1
  <2> QED  BY <2>2, <2>3
<1>12. ASSUME NEW d \in Device, Underneath(d)  PROVE PostsKept(e)'
  <2>1. (Library(d) \/ Server(d) \/ Disconnect(d)) /\ posts' = posts
    BY <1>12 DEF Underneath, profileVars
  <2>2. complete[e] => complete'[e]
    BY <2>1, CompleteKept
  <2> QED  BY <1>3, <2>1, <2>2
<1>13. CASE UNCHANGED postingVars
  BY <1>4, <1>13 DEF postingVars, profileVars
<1> QED  BY <1>1, <1>5, <1>6, <1>7, <1>8, <1>9, <1>10, <1>11, <1>12, <1>13 DEF PostingNext

LEMMA PostsInvariance == PostingSpec => []PostsInv
<1>1. PostingInit => PostsInv
  BY DEF PostingInit, PostsInv, PostsKept, TimesOf
<1>2. PostingInv /\ PostingInv' /\ GrowInv /\ FitInv(Placed) /\ PostsInv /\ [PostingNext]_postingVars
        => PostsInv'
  BY PostsNext
<1> QED  BY <1>1, <1>2, PostingInvariance, PostsPlaced, PostingUsesDB, GrowInvariance, PTL DEF PostingSpec

\* While no post is refused, a post only leaves the profile if the block has one
\* of the same second in its place (getPost replaces the whole list by what the
\* block has), across lost connections and uploads that end late.
THEOREM ProfilePostsOnlyReplaced == PostingSpec => PostsOnlyReplaced
<1> DEFINE Replaced == \A d \in Device : screen'[d] # "start" /\ rejects' = 0 =>
              \A i \in DOMAIN posts[d] :
                 LET time == posts[d][i].time
                     instead == Head(events[d]).snapshot[time]
                 IN  \/ \E j \in DOMAIN posts'[d] : posts'[d][j].time = time
                     \/ instead # NoValue /\ instead.uid # d
<1>1. PostingInv /\ GrowInv /\ FitInv(Placed) /\ PostsInv /\ [PostingNext]_postingVars
        => [Replaced]_postingVars
  <2> SUFFICES ASSUME PostingInv, GrowInv, FitInv(Placed), PostsInv, [PostingNext]_postingVars,
                      NEW e \in Device, screen'[e] # "start", rejects' = 0, NEW i \in DOMAIN posts[e]
               PROVE  LET time == posts[e][i].time
                          instead == Head(events[e]).snapshot[time]
                      IN  \/ \E j \in DOMAIN posts'[e] : posts'[e][j].time = time
                          \/ instead # NoValue /\ instead.uid # e
    OBVIOUS
  <2> DEFINE time == posts[e][i].time
             s == Head(events[e]).snapshot
  <2> SUFFICES \/ \E j \in DOMAIN posts'[e] : posts'[e][j].time = time
               \/ s[time] # NoValue /\ s[time].uid # e
    OBVIOUS
  <2>1. rejects = 0
    BY PostingSteps, TakenNext DEF PostingInv, PostingTypeInv, GrowInv, BlocksInv
  <2>2. posts'[e] = posts[e] => \E j \in DOMAIN posts'[e] : posts'[e][j].time = time
    OBVIOUS
  <2>3. time \in Key /\ Shown(e, time)
    BY <2>1 DEF PostsInv, PostsKept, TimesOf
  <2> HIDE DEF time
  <2>4. ASSUME getPost(e)
        PROVE  \/ \E j \in DOMAIN posts'[e] : posts'[e][j].time = time
               \/ s[time] # NoValue /\ s[time].uid # e
    <3>1. PICK list \in NewestFirst(UsersPosts(e, s)) : posts' = [posts EXCEPT ![e] = list]
      BY <2>4 DEF getPost, Gathered
    <3>2. posts'[e] = list /\ events[e] # <<>>
      BY <2>4, <3>1 DEF getPost, TakeEvent, PostingInv, PostingTypeInv
    <3>3. s \in Snapshot /\ Fits(Placed, s) /\ s[time] # NoValue
      BY <2>3, <3>2, HeadPlaced DEF PostingInv
    <3> HIDE DEF s
    <3> QED  BY <2>3, <3>1, <3>2, <3>3, PostTimes
  <2>5. ASSUME NEW d \in Device, d # e, getPost(d)  PROVE posts'[e] = posts[e]
    BY <2>5 DEF getPost, PostingInv, PostingTypeInv
  <2>6. ASSUME NEW d \in Device, KillApp(d)  PROVE posts'[e] = posts[e]
    <3>1. d # e
      BY <2>6 DEF KillApp, PostingInv, PostingTypeInv, PostingTypeOK
    <3> QED  BY <2>6, <3>1 DEF KillApp, PostingInv, PostingTypeInv
  <2>7. ASSUME NEW d \in Device,
               \/ viewDidLoad(d) \/ leaveProfile(d) \/ viewWillAppear(d) \/ updateData(d)
               \/ gotoUpstatusvc(d) \/ backButtonaction(d) \/ Underneath(d)
               \/ \E date \in Key, text \in BOOLEAN, image \in BOOLEAN : buttonUppostAction(d, date, text, image)
               \/ \E u \in uploads[d] : \/ storePicture(d, u) \/ putDataDone(d, u)
                                        \/ downloadURLDone(d, u) \/ uploadFails(d, u)
        PROVE  posts'[e] = posts[e]
    BY <2>7 DEF viewDidLoad, leaveProfile, viewWillAppear, updateData, gotoUpstatusvc, backButtonaction, dismiss,
                Underneath, buttonUppostAction, storePicture, putDataDone, downloadURLDone, uploadFails, profileVars
  <2>8. UNCHANGED postingVars => posts'[e] = posts[e]
    BY DEF postingVars, profileVars
  <2> HIDE DEF s
  <2> QED  BY <2>2, <2>4, <2>5, <2>6, <2>7, <2>8 DEF PostingNext
<1> QED  BY <1>1, PostingInvariance, PostsPlaced, PostsInvariance, PostingUsesDB, GrowInvariance, PTL
         DEF PostingSpec, PostsOnlyReplaced
=============================================================================
