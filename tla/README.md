# A specification of ProjectF02 and of the Realtime Database client it runs on

ProjectF02 is an iOS application (Swift) for chatting and for posting on a
profile. It has no server of its own: everything it shows and everything its
users do goes through the Firebase Realtime Database, whose client library is
part of the repository (`src/ProjectF02/Pods/FirebaseDatabase`). The app's own
code is thin; what makes it hard is that every screen is a mirror of data that
other devices change, kept by a library that works with pending writes,
reconnections and asynchronous callbacks. The specification therefore has three
layers: how the library's connection comes and goes (`Connection`), the library's
write and listen path (`RealtimeDB`) with its transactions (`Transactions` over
`WriteTree`), and the screens of the app on top of it (`ChatSync`, `Posting`).
Signing in and registering (`Account`) stand beside them: there the hard part is a
handful of calls whose callbacks share one loader and one navigation stack.

The repository also carries the whole of LevelDB (`Pods/leveldb-library`), on which
the Firestore client in the app's pods keeps its data on disk. It is the one part
that is concurrent with threads and locks and that has to survive crashes, and it is
modelled in its own right: `LevelDB` is the write path, the background thread, crashes
and recovery, and `LevelCompaction` with `CompactionRules` what happens to the data.

Paths below are relative to `src/ProjectF02/`; `FDB` stands for
`Pods/FirebaseDatabase/Firebase/Database`, `LDB` for `Pods/leveldb-library`.

## Inventory

| Component | State | Operations | Correct when |
|---|---|---|---|
| Connection (`FDB/Core/FPersistentConnection.m`, `FDB/Realtime/FConnection.m`) | connection state, listens, outstanding puts by index, puts to acknowledge, count of unanswered listens, reconnect delay | listen, put, onReady, restoreState, onDataMessage, onDisconnect, ackPuts, tryScheduleReconnect | one listen per connection; every put is answered once and in order; held back answers are released; nothing of an old connection is taken for the new one |
| Sync tree, views (`FDB/Core/FSyncTree.m`, `FViewProcessor.m`, `View/*`) | server cache and its completeness, observers | applyUserOverwrite, applyServerOverwrite, addEventRegistration | the view is the cache under the pending writes; observers end with the newest snapshot |
| Write tree, transactions (`FDB/Core/FRepo.m`, `FWriteTree.m`, `FDB/Snapshot/FCompoundWrite.m`) | pending writes with their cached result, transactions queued by path with status, output and retries | set, ackWrite, onDataUpdate, startTransaction, rerun, send, abort | a write leaves the tree exactly once and takes only its own effect along; a transaction ends, is executed at most once, on the data it was run with, and its outcome is told truly |
| Chat screen (`ProjectF02/Modules/ChatVC/ChatViewController.swift`) | rows, text field, chat | viewDidLoad, sendMessAction, the observer's block | rows are the server's messages in time order; none is lost, doubled or flickers |
| Chat list (`ProjectF02/Modules/Home/ChatHomeScreen`) | list of chats, observers added at every appearance | viewWillAppear, getChats, didSelectRowAt | lists each chat once with its newest content |
| Models (`ProjectF02/Class/Models`) | - | dictionary conversions, sort orders | what is written is what is read |
| Posting and profile (`ProjectF02/Modules/MyProfileVC`) | posts of the user, picked image, reused cells | upload, downloadURL, setValue, getPost, fillData | an image post is written only after its upload; the table never asks for rows the array has not |
| Sign in and registration (`LoginScreen`, `RegisterVC`, `Common/Loader`) | loader, navigation stack, account | signInAction, Google sign in, btnSignUpAction, getUserFromFirebase | one home screen per sign in; the loader goes away; an account has its record |
| Tab bar, news feed, application shell, country list | - | layout | - |
| LevelDB, write path and recovery (`LDB/db/db_impl.cc`, `version_set.cc`, `log_reader.cc`, `log_writer.cc`) | writers' queue, memtables, log, manifest, CURRENT, pending outputs, versions in use, background error | Write with group commit, MakeRoomForWrite, flush, compaction, LogAndApply, DeleteObsoleteFiles, Recover, Open | an acknowledged write survives; no file in use is deleted; sequence numbers are used once; every call returns; the database opens again |
| LevelDB, compaction and versions (`LDB/db/version_set.cc`, `db_impl.cc`) | files per level, scores, seeks, compaction pointers, snapshots, a manual compaction | PickCompaction, SetupOtherInputs, CompactRange, DoCompactionWork, trivial moves, Get, iterators | every snapshot reads the newest write it covers, whatever was dropped; compactions end |
| Pods (FirebaseAuth, FirebaseStorage, Firestore, gRPC, BoringSSL, Protobuf, image and keyboard helpers, about 800,000 lines) | - | third party | - |

How they interact. The screens and the library meet at two places only:
`setValue` and `observe`, which hand a block to the library's serial queue, and
the blocks that the library dispatches to the main queue with a snapshot. The
library and the server meet on one ordered connection per process. Devices meet
only at the server. The app never calls Firestore, so LevelDB meets none of them: its
users are whoever calls its interface, its surroundings the file system.

What is hard: puts are sent at least once, so a write can be executed twice and
out of step with its answer; the server may answer a put before an earlier
listen; blocks run long after the change they tell of; the app never removes an
observer; nothing is persisted, so a killed process loses its pending writes;
keys are clock readings. In LevelDB, writers hand their work to one another and
release the lock while the log is written; a background thread works on a version
that others replace; what a crash leaves depends on which file was synced when; and
which entries may be dropped depends on snapshots and levels at the start of a
compaction. `PROJECT.json` lists these hazards with the line where
each bites and the property that watches it.

## Modules

| Module | Content |
|---|---|
| `RealtimeDB` | one collection of the database: the server's copy, and on every device the library's connection, puts, write tree, cache, view, observers and main queue |
| `Connection` | one client's `FPersistentConnection`: stages, retries, tokens, interruptions, listens, puts, transactions, purges |
| `Connection_proof` | TLAPS proofs: the stages, the credential, the requests and the puts of a connection |
| `RealtimeDB_proof` | TLAPS proofs: types, the count of listens, writes are accounted for, caches catch up, `SharedBoard` is implemented, what is shown only grows |
| `SharedBoard` | the abstract promise about writes: a board, pending writes per device, decisions in order |
| `RealtimeDB_refines` | the refinement mapping from `RealtimeDB` to `SharedBoard` |
| `ChatSync` | the chat list and the chat screen of every device on top of `RealtimeDB` |
| `ChatSync_proof` | TLAPS proofs: the screens mirror the server, no message is forgotten or disappears |
| `Posting` | the profile, the screen a post is written on and the uploads of pictures on every device, on top of `RealtimeDB` |
| `Posting_proof` | TLAPS proofs: the profile mirrors the server, posts have their pictures, posts are only replaced |
| `WriteTree` | `FWriteTree` and `FCompoundWrite` as operators, over a parent and its children |
| `Transactions` | the transactions of `FRepo` beside its sets, on one client, with its sync tree, puts and connection |
| `Account` | e-mail and Google sign in, registration, the loader and the home screens of every device |
| `Client_proof` | TLAPS proofs about `Account` (types, the loader, one e-mail sign in, records are written once) and about `Transactions` (types and queues, writes are accounted for, outcomes are true) |
| `LevelDB` | LevelDB's writers, log, background thread, manifest, deletion of files, crashes and recovery |
| `LevelDB_proof` | TLAPS proofs: types and queue, the files in use exist, a database opens again after a crash, sequence numbers are unique |
| `LevelDB_writes_proof` | TLAPS proof: writes that returned OK survive |
| `LevelCompaction` | LevelDB's levels: the choice of compactions, their inputs and outputs, reads and snapshots |
| `CompactionRules` | what a read sees of a set of entries and which of them a compaction keeps |
| `LevelCompaction_proof` | TLAPS proofs: a compaction keeps every read, the levels are well formed, every reader sees the newest write its snapshot covers |
| `MCChatSync`, `MCPosting`, `MCAccount` | constants and symmetry for TLC |

Definitions introduced with a comment `Bug:` or `Mutated form:` are not part of the model. Each is a
mistake the code could have made in the definition after it; a property is only
kept if one of them breaks it (the pairs are listed under `mutants`).

### RealtimeDB: state and code

| Variable | Code |
|---|---|
| `writes` | `FWriteTree.allWrites` (shown over the cache) |
| `outstandingPuts`, `putsToAck`, `unackedListens` | the fields of the same names of `FPersistentConnection` |
| `nextWriteId` | `FRepo.nextWriteId` and `FPersistentConnection.putCounter`; both count the same calls, and the put's index and the write's id are identified |
| `cache`, `complete` | `FViewCache.cachedServerSnap` of the view and whether it is fully initialised |
| `registrations` | `FView.eventRegistrations` of the views of the parent and of the collection; inner views are called first |
| `events` | blocks dispatched by `FEventRaiser` to the main queue |
| `connected` | `kConnectionStateConnected`; the stages before are one step |
| `up`, `down`, `session`, `store` | the connection's directions and the server (external) |

Every handler runs on the library's serial dispatch queue, so each is one
action, with all that it calls: `SetValue` is `FRepo set` with
`applyUserOverwrite`, the events it raises and `putInternal`; `Connect` is
`onReady` up to and including `restoreState`; `ReceiveAnswer` is the callback of
`sendPut` with `ackWrite` when no listen is unanswered. The loop of `ackPuts`
acknowledges several writes in one turn of the queue; it is modelled one write
at a time, and `Acking` keeps every other step of that device's library out of
the loop. `Disconnect` is `onDisconnect`: what was under way on the connection
is gone, the count of listens is reset and puts, held back answers, cache and
writes stay. `Kill` ends the process; nothing is persisted because the app never
enables persistence.

The server is external. It takes the requests of a connection in order, but it
may answer a listen after later puts of the same connection; it pushes a put to
all listeners, the writer included, before it answers. A request that the server
has not taken when a connection ends is lost (a new connection names the last
session, so that the server can drop the old one).

Not modelled in `RealtimeDB`: paths below one level, merges, onDisconnect
operations, queries with filters, removed observers (the app removes none), and the
content of a snapshot beyond one value per child. The stages of a connection,
authentication on it and purges are in `Connection`, sets of a parent beside sets of
its children and transactions in `Transactions`.

### Connection: state and code

The variables are the fields of `FPersistentConnection` of the same names.
`scheduledRetry` is the `forceRefresh` that the block scheduled with
`FIRRetryHelper` has captured, if there is one; `fetches` are the calls of
`fetchTokenForcingRefresh` whose callbacks are to come, each with its attempt;
`requestCBHash` holds the requests whose blocks wait, in the order they were sent.
`realtime` is set exactly in the last three stages, and its `FConnection` is
connected exactly in the last two, so neither is a variable. `allWrites` says which
puts have their writes in the write tree: one for a `set`, those of its queue for a
transaction. `RunBlocks` is what the blocks of puts do with it (`ackWrite` and the
block of `sendTransactionQueue`): they take the writes out, which must be there.
When one is not, `removeWriteId` asserts (FWriteTree.m:125), and without assertions
indexes an array with `NSNotFound`; either ends the process (`assertionFailed`, after
which nothing happens). A transaction that is run again has a new write and a new
put, which is another index here and its true course in `Transactions`.

`PurgeOutstandingWrites` follows `FRepo`: the write tree is emptied first, then the
connection runs the blocks of the answers it holds back, then those of the outstanding
puts with the status that `ackWrite` ignores. A held back answer has the server's
status, so that its block looks for its write in the empty tree; only a
transaction whose data was stale, and which the purge has just marked for
abort, is dropped without that. So a purge while any other answer is held back ends
the process.

`OnDisconnect` is the handler of that name with all it calls; it is reached from
a lost socket or a server reset (`ConnectionLost`), a refused or revoked
token (`DropToken`), `goOffline` (`InterruptForReason`) and a shutdown
(`OnKill`), which differ in the reasons, the token and the flag they have set
before. `RestoreState` runs after the handshake without a token, and after an
accepted credential. Tokens are numbers in the order they were issued, 0 is nobody's;
the server accepts what was issued after `refused`. Users are numbered as they sign
in. The provider is FIRAuth. It takes a fetch up on a queue of its own, for the user
it has then (`GetToken`, FIRAuth.m:403-417), and answers with that user's token
(`FetchSucceeds`, FIRUser.m:920-939), even if the user has signed out or another has
signed in by then. A forced fetch first gets a new token (`ProviderRefreshes`), of which
the listeners are told only if its user is still the current one
(FIRAuth.m:1581-1592). Both go through the same queues, so the answers and the
notifications arrive in the order they are made; each is one step here, and what
lies between taking a fetch up and answering it can take any time.

So the answer to a fetch that was taken up for a former user overwrites the token
that `refreshAuthToken` has stored meanwhile, and the connection is made with
the credential of somebody who is no longer signed in, until the next change.
`CredentialFollowsUser` says that this is the only way to it.

Abstracted: the length of a retry's delay (it may run at any time), host and session
names, statistics, `onDisconnect` operations (the app has none), merges (as puts).
The server answers in any order, credentials among themselves in theirs.

### Transactions: state and code

The app itself runs no transaction; the module is about the library it ships. The
handlers of `FRepo` call each other on one serial queue: an answer acknowledges a
write, which raises events, reruns other transactions, whose outputs are new writes,
and sends what is ready. Each handler is an operator from the client's state to the
client's state, named as in the code, and an action is what one event sets off: a call
of the app, an answer, data, a lost or new connection.

| Field of `client` | Code |
|---|---|
| `tree` | `FSyncTree.pendingWriteTree`: `allWrites` and `visibleWrites` |
| `cache`, `shown` | `cachedServerSnap` and `cachedEventSnap` of the app's view of the parent |
| `events` | the events returned by sync tree operations since the last `raiseEvents` |
| `told` | the snapshot of the last event that was raised to the app |
| `transactions` | the `FTupleTransaction`s; `outcome` is what the completion block is told, `new` a call not made yet |
| `queues` | `transactionQueueTree` |
| `outstandingPuts`, `requests`, `connected` | the puts of `FPersistentConnection`, those the server has not taken, the connection |

There are two levels, a parent and its children, because everything the queue tree and
the write tree do with a path is to ask what is above and below it. Data is one number
per child. A block increments what it is given, or aborts at `Limit`: an update that
is lost or made twice shows in the number. The hash of a put is the data it was computed
from. `kFTransactionMaxRetries` is the constant `MaxRetries`. `executed` is a history
variable. The server is external and takes requests in order.

`cancelSentTransactions` enumerates a dictionary, so `LoseConnection` takes any order.
The answer of a put releases the writes of its transactions in the callback that
`sendTransactionQueue` gives to `putData`; these callbacks are immediate here. Left out
are answers held back for an unanswered listen (`RealtimeDB` and `Connection` have
them), merges, a purge, incomplete caches, and the observer that each transaction adds,
whose location the app's observer of the parent already covers.

### ChatSync: state and code

`screen` and `controller` are the navigation stack as far as the chat is
concerned: the home screen, the chat screen or any other, and which of the pushed
`ChatViewController`s is on top. The home screen appears when its tab is selected
and when a chat is popped; each time `viewWillAppear` observes once more. `chatList`, `messages` and `draft` are the fields
`chatList`, `messages` and `messTF.text`. Observer 0 is the home screen's block
(it holds `self` strongly and is added at every `viewWillAppear`), observer `n`
the block of the `n`-th chat screen (it holds `self` weakly: after the pop it does
nothing). The message's key is its `time`; the model lets the clock read anything,
so that it may repeat or go back. `isNew` and `status` are the same in every
message and left out. `promised` is a history variable: what was sent and neither
refused by the server nor lost with its process.

A user's tap and the call it makes into the library are one step; in the code the
library's part is a block that runs a little later on its queue. The order of the
blocks is that of the calls, and what happens in between on the library's queue is
what the model has happen just before the tap.

### Posting: state and code

The collection of `RealtimeDB` is the location `Post`; its keys are whole seconds,
shared by all users. `posts` is the field of that name, `rows` the number of rows
the table was given when it was last reloaded, `uploads` the calls of
`buttonUppostAction` that wait for Storage, `storage` what Firebase Storage has
(external). A post keeps what the code tells apart: user, key, whether there is a
text, whether it is marked with a picture.

The profile's query selects the posts of its user. The library's query view is the
view of `RealtimeDB` filtered by `UsersPosts`; a change of somebody else's post,
of which the query would not tell the observer, runs one more block with the same
posts, which `getPost` does not notice. `getPost` gathers, sorts and reloads once
per child; the loop is one block and its result is that of the last child, and
without a child it empties the array and does not reload. Dismissing the composer
makes the profile appear again, so `viewWillAppear` reloads the table.

### Account: state and code

`register`, `homes` and `loader` are the navigation stack (login screen,
registration screen, pushed `HomeTabBarViewController`s) and the shared `Loader`,
which takes every touch while it is shown. Nothing leads back from a home screen:
its back button is hidden, and the line that would allow the swipe
(HomeTabBarViewController.swift:39) runs before the controller has been pushed,
when `navigationController` is nil. `calls` are the asynchronous calls: asked,
granted or denied, and after a sign in the observer of the user's record, which
opens one home screen when it is first told of the record. A Google sign in is two
calls, Google's own (`token`) and the one with its credential (`google`).

The callback of a granted registration hands the record to the library and traps,
because the result of `setValue` is cast to an array of dictionaries. The put may
have been sent (`PutArrives`), the process is gone and is started again by its user
(`Restart`). Users' records are never changed by the app, so an observer opens no
second home screen in the model. The server's accounts and records may exist
before (`AccountInit`).

### LevelDB: state and code

| Variable | Code |
|---|---|
| `disk` | the files: logs and manifests as sequences of records with how many of them are synced, tables as sets of entries, CURRENT |
| `db` | the fields of `DBImpl` and `VersionSet`: memtables, `logfile_number_`, `log_number_`, `next_file_number_`, `last_sequence_`, the current version, `pending_outputs_`, `bg_error_` |
| `queue`, `call` | `writers_`, and what each thread in `Write` or `TEST_CompactMemTable` is doing |
| `bg` | the background thread: scheduled or where it is in `BackgroundCall`, its edit, inputs and output |
| `pinned` | versions held by iterators |
| `owed`, `behind` | history: writes that have returned OK and which a crash must not take, and those logged behind a torn record |

An action is what one thread does between taking the mutex and releasing it, or with
it released (`AddRecord`, `SyncLog`, `BuildTable`, `WriteOutput`, `WriteManifest`).
`Wait` puts a thread to sleep until somebody signals it, so that a missing signal shows.
`Leave` is the end of `Write` on each of its paths; `RoomError`, `Delay`, `TakeRoom`,
`WaitForRoom`, `SwitchMemTable` and `NewLogFails` are the branches of
`MakeRoomForWrite` in their order. A flush is `StartFlush`, `BuildTable`,
`WriteManifest`, `InstallVersion`, alone or in the middle of a compaction (`inWork`).
Each file operation of the write path and the background thread can fail; a failed append
leaves nothing or a torn record. A crash of the process keeps the files, one of the
machine keeps of logs and manifests what was synced and any part of the rest. `NewDB`,
`Recover`, `RecoverLog`, `NewManifest` and `SetCurrent` are `Open`, and a crash may come
between any two of them.

Abstracted: a write is told by its number and occupies one place in a memtable; keys and
values are in `LevelCompaction`. Of the levels there are 0 and 1, and a compaction
takes every file. A torn record hides the rest of its file, in the code the rest of
its 32 KB block. Left out: closing the database, `reuse_logs`, `paranoid_checks`,
failures while opening, a log that is recovered into more than one table, manual
compactions of a range (`LevelCompaction` has them, without failures).

### LevelCompaction: state and code

`mem`, `imm`, `files`, `nextFile`, `compactPointer`, `snapshots` and `manual` are the
fields of these names of `DBImpl`, `Version` and `VersionSet`; `seekFile` is
`file_to_compact_`. `comp` is the compaction under way: its inputs, the version it
started from and its smallest snapshot, taken while the mutex was held
(`StartCompaction`, `StartManual`), with which `FinishCompaction` does the loop of
`DoCompactionWork` and installs the result. In between users write, read, take and
release snapshots, and a memtable may be flushed. `Setup` is `SetupOtherInputs`,
`Picked` is `PickCompaction`, `Outputs` the loop, a fold of `Step` (`ShouldStopBefore`, then
`AddEntry`), `Kept` its two drop rules, `MaxEntries` is `MaxBytesForLevel`. `Get` reads as `Version::Get` does, file by file, and `Scan` as a merging
iterator does. Sizes are numbers of entries. A file may use up its allowed seeks at any
time. `manual.set` is whether `manual_compaction_` points to the request.

`spoilt` is a history variable with the two ways in which the levels lose their
order, `split` and `overlap` (below); the run with properties follows behaviours up to
there.

## Runs

| Run | Instance | What it shows |
|---|---|---|
| `conn_faults` | 1 query, 3 calls, 2 disturbances | the connection never stalls, is begun once at a time, stays down while interrupted; its credential follows the user but for late answers to fetches for a former one; the count of listens is exact, every put is in one place, its block runs once and its write stays until then, only a purge looks for a write that is gone, transactions are sent on one connection; the client gets connected for good and, with a listen kept, every put's block runs |
| `db_refines` | 1 device, 1 key, 2 values, 3 writes, 2 faults, 1 refusal | types, the exact count of listens, a quiet device mirrors the server; write tree, outstanding puts and held back answers agree; `SharedBoard` is implemented |
| `chat_one` | 1 device, 2 times, 1 text, 2 messages, 3 observers, 1 fault | rows only grow, an open chat ends with the server's messages |
| `chat_two` | 2 devices, 2 times, 1 message and 2 observers each, 1 fault, 1 refusal | screens mirror the store and no message is forgotten, for two users with and without equal times and a refused message |
| `posting_one` | 1 device, 2 seconds, 2 posts of all kinds, 1 fault, 1 refusal, failing uploads | pictures precede their posts; the table has no row without a post and the profile mirrors the server; posts are only replaced |
| `account_signin` | 2 devices, 1 account, 2 calls each | the loader is up exactly while the one e-mail sign in is unfinished; a record is written once, whatever registrations, traps and late puts there are; the loader of a user with a record goes away |
| `tx_settle` | 2 children, 2 transactions with or without local events, limit 2, 2 retries, 3 disturbances | the write tree has exactly the pending writes, none is executed twice or reported wrongly, and with nothing under way all are over and the view has the server's data |
| `tx_stale` | the same with local events and 1 disturbance | finding: a waiting transaction is run again without the one on its way and sent as if with it (FRepo.m:866) |
| `level_levels` | 2 keys, 3 writes, 3 levels, files of 2 entries, 1 snapshot, 1 manual compaction | every read at every snapshot, by key and by scan, sees the newest write it covers; compactions and a manual compaction come to an end |
| `level_split` | 1 key, 4 writes, files of 1 entry, 2 snapshots | finding: an older version of a key is left above a newer one (version_set.cc:1350) |
| `leveldb_survives` | 2 threads, 2 writes, 1 flush, memtables of 1 entry, 1 crash, 1 failure, stop at 2 files of level 0 | acknowledged writes survive, files in use exist, the database opens again, sequence numbers are used once, every call returns |
| `leveldb_torn` | the same | finding: a write acknowledged behind a torn record is lost in recovery (db_impl.cc:1224) |

Bounds. `MaxWrites` and `MaxObservers` count per run of the app, `MaxFaults`
(lost connections and killed processes) and `MaxRejects` over all devices. They
only disable the user's calls, faults and refusals; the library and the server
are never cut short. Two devices are enough for a foreign change; one key is
enough for `RealtimeDB` because children meet only in a snapshot; three writes
with two lost connections are needed for a put that is sent three times while
others wait; two values make a stale value visible; three observers are one home
screen, one chat and its return. Devices are symmetric in the runs of `ChatSync` and
`Posting` for safety properties alone; runs with liveness use no symmetry, nor does
`Transactions`, which goes through the children in a chosen order. `MaxCalls` bounds the calls of a device over
all its restarts; two are enough for an e-mail sign in beside a Google sign in or a
registration, and for a registration and the sign in after its trap. In `Posting`
the bound on writes leaves room for the posts of the uploads under way, so that no
callback is ever cut short.

In `Connection`, `MaxCalls` counts listens, puts and purges and `MaxDisturbances`
everything that delays progress: lost connections, failed fetches, interruptions,
wake-ups, and changes of user or token. Two are a loss of the connection on top of a
change of user, a refusal or an interruption; three calls are a listen, a put and a
purge, or a transaction between two puts. The steps in between are not bounded.

In `Transactions`, two transactions are one on its way and one that waits, is run again
and is sent after it, at the same place, above or below it; two children are a change
beside a transaction. `MaxDisturbances` counts sets, foreign changes, refused puts and
lost connections together: three are a set that marks a transaction, a stale answer and
a lost connection, and more than `MaxRetries` stale answers take a foreign change each.
What the library and the server do is not bounded.

In `LevelCompaction`, `MaxSeq` counts writes, and the limits of levels and files are
so small that three writes flush, merge and move files on all three levels, with two
files on one. Larger instances were checked by hand for the safety properties: four writes
without, and three keys without a manual compaction.
In `LevelDB`, two threads are a group of two and a front with a successor; memtables
of one entry make every write after the first switch logs, and a limit of two files at
level 0 makes it wait. One crash follows or precedes one failure anywhere. Checked by hand
beyond the run: three writes, two crashes, two failures, two flushes (each alone, up to
9 million states). `MaxCalls`, `MaxFlushes`, `MaxFaults` and `MaxCrashes` disable only
users and surroundings.

Deadlock is not checked: a system whose users do nothing more and whose writes
are all settled really stops.

### Fairness

`ChatFairness` assumes weak fairness of the library on each
device, of the server for each device and of the main queue. The library
reconnects for ever with bounded delay (`tryScheduleReconnect`, `FIRRetryHelper`),
handles what it receives in its serial queue, and the main queue runs its blocks.
`FairConnectionSpec` assumes that some step of the library, the provider or the
server that brings a client on its way is taken as long as there is one
(`Progress`), and that the connection is opened, which `FRepo` does when it is
made; that the app goes online again after going offline, and that no purge has ended
the process, are premises of the properties, not assumptions. `EveryBlockRuns` has a
third, that some listen is kept: without one an answer can stay held back. Nothing is assumed of users, of lost connections
or of killed processes, which are bounded. A refusal is a server step but not a
fair one in `ChatSync`; `chat_one` allows none. `FairAccountSpec`
assumes that Firebase Auth answers each device's calls and that its main queue
runs; nothing of users and of puts that a trapped process may have sent.

`Transactions` has no liveness property: its disturbances are bounded and everything
else leads towards an end, so that it reaches states with nothing under way, and
`QuietIsSettled` says what they are like. It leaves out two things the code does.
A set that finds only transactions marked by an earlier set empties their queue
(FRepo.m:1102), and if the put on its way then fails nothing completes them
(`Dropped`). And rebuilding the cached writes brings to light the writes of
transactions without local events (FWriteTree.m:404), which the view may go on showing.

It also compares what the app was told with its view only while one transaction has
been started: of several that are run again, the events of all but the first are
dropped, because `rerunTransactionQueue` sets `events` to nil in its loop
(FRepo.m:933), and the app keeps what has been taken back.

In `LevelDB` each thread in a call and the background thread are weakly fair: a thread
that can run does run in the end. In `LevelCompaction` the background thread takes a
step in the end while it has something to do (`MaybeScheduleCompaction` is called after
each), and a user waiting for a manual compaction sets it again once it is cleared.

`EveryBlockRuns` asks for a listen that is kept, and needs it: the answer of a put
that arrives before a listen's waits in `putsToAck`; if that listen is removed and
the connection lost before its answer, `onDisconnect` sets the count of unanswered
listens to zero, no listen is sent again, and nothing calls `ackPuts` until the app
adds one.

## Proofs

`RealtimeDB_proof` proves for all values of the constants, from the two named
assumptions of `RealtimeDB`:

- `DBTyped`: `DBSpec => []DBTypeOK`;
- `DBListensCounted`: `DBSpec => []ListensCounted`.

The inductive invariant is `DBInv`, the conjunction of `DBTypeOK`, `WritesBounded`
and `ListensCounted`. None is inductive alone. A write id must be below the
device's counter for a set of pending writes to have a newest member (lemma
`NewestInSet`, by well-foundedness of `<`), without which a view need not be a
snapshot; the outstanding puts must be finite for restoreState to have an order to
send them in; and the answer of a listen decrements a counter that stays a natural
number only because `ListensCounted` holds. The step lemmas come in two groups,
`...Typed` and `...Counted`, one per action; the lemmas `OfTypeTail`,
`OfTypeOthers` and `OfTypeFirst` say how taking and adding messages changes the
messages of one type.

`Client_proof` proves `AccountTyped`, `LoaderMatches`, `SignInsByOne` and
`RecordsWrittenOnce` for the three invariants of `account_signin`, from no assumption
about the constants. The invariant is `AccountInv /\ Registrations`. Of each device
it says (`DeviceOK`) that the loader matches the unfinished e-mail sign in, that
there is at most one e-mail sign in, and that a finished one has its home screen,
without which a tap on the login screen could start a second. `Registrations` relates
the callbacks still to come to the server: a granted registration has made its
account, so that no second one of it is granted anywhere, and its record is neither stored
nor on its way. That is why no record is written twice, though the put of a
trapped process may arrive at any time or never. A step concerns one device (`OneDevice`), a call moves from stage to
stage (`MovesOn`), and a process that ends leaves nothing (`EndProcessOK`).

`RealtimeDB_proof` proves from the same assumptions as above:

- `DBPutsAccountedFor`: `DBSpec => []PutsAccountedFor`;
- `DBQuietMirrorsStore`: `DBSpec => []QuietMirrorsStore`;
- `DBImplementsBoard`: `DBSpec => ImplementsBoard`, the refinement of `SharedBoard`.

The invariant is `BoardInv`: `DBInv` with three parts. `PutsAgree` says where a pending
write is: an outstanding put, or an answer that is held back; and of the connection, that
what is sent and answered on it are outstanding puts, all of them while it is established, in
the order of their ids and answers before requests. So an answer removes the right put, and
the held back answers are those of the oldest writes. `CommitsStored`
says that where an answer accepts a write the server has a value at its key, and
`CachesCatchUp`, for each child of a listening device, that the cache holds what the server
stores or that the last push under way about the child says so. With no push under way
that is the mirror; `QuietMirrorsStore` follows because a quiet device has no write left to
show above its cache. For the refinement each action is mapped to one step of the board: `SetValue`
issues a write, a put the server takes is committed or refused (again, if it is resent), `AckPuts` and an
answer that is not held back settle, `Disconnect` loses replies, `Kill` abandons; every
other step is a stutter. That a write the server takes is `Due` on the board
is where the order of the messages is needed; the lemmas about taking from and
adding to an ordered sequence (`MsgsTail` and its neighbours) are about that.

`ChatSync_proof` and `Posting_proof` stand on that module: `ChatUsesDB` and `PostingUsesDB`
prove that every behaviour of the app modules is one of `RealtimeDB` (the screens reach
the library only through its operations), so that `BoardInv` holds under them. They use
that the clock has finitely many readings (`ChatAssumption`, `PostingAssumption`: an Int64
and a Double in the code); otherwise a list of messages need not be a sequence.

- `ChatTyped`, `ChatScreensMirror` and `ChatForgetsNothing` are `ChatTypeOK`,
  `ScreensMirrorStore` and `NothingForgotten`. The invariant is `ChatInv`. `ScreensInv` says that each screen
  shows the newest snapshot its observer was told, or that events that end with the view's snapshot
  are on the main queue, and that a chat screen's observer is its own, also after a pop, an
  opening and a kill. `PromisesInv` says for each promised message that its time is taken
  on the server, or that its write is pending and no refusal of it is under way or held
  back. A resent put that is already committed is what makes the second part necessary.
- `PostingTyped`, `ProfileMirrors` and `PostedImages` are the three invariants of
  `posting_one`; `ProfileInv` plays the part of `ScreensInv`.
- `ChatRowsOnlyGrow` and `ProfilePostsOnlyReplaced` are the action properties `RowsOnlyGrow`
  and `PostsOnlyReplaced`: while nothing is refused, nothing disappears from the screens. The
  hard part is below them, in `RealtimeDB_proof`. A device could show a child less when a
  listen sends the collection anew, or when an answer takes a write out of the write tree. `GrowInv`
  excludes both. `PushInv`: a collection that is under way has every child that is cached or that a push
  before it sets. `KnownInv`: while a device listens, the child of an accepted write is cached or is on
  its way before the answer, and before an answer that is held back is released; that is what the count of unanswered
  listens is for. `CompleteInv`: an incomplete view has told nobody anything. `BlocksInv`: the
  blocks on the main queue show more and more (lemma `ViewGrows`). So whatever is `Shown`, in
  all blocks that wait and in the view, stays so until the process ends (`ShownNext`), and
  `RowsInv` and `PostsInv` say that the screens have nothing else; the rows of a pushed chat screen
  come from the home screen's list, which is why `RowsInv` speaks of the list too. That a row's time is the
  key of its child is `FitInv(Placed)`: what holds of every write's key and value holds of
  everything stored, sent, cached or shown (`FitNext`).

`Connection_proof` proves `ClientNeverStranded`, `AttemptsExclusive`,
`InterruptHolds` and `CredentialFollows`, four of the properties of `conn_faults`.
The invariant is `ConnectionInv`: `Stages`, `Users` and `Credentials`. The properties of the
stages need one another (that a retry is scheduled only while disconnected is what
shows that an interrupted client's last retry is gone), that no two fetches carry
the latest attempt, or a second answer could come after the connection is begun, and
that requests wait only on an established connection, or an answer could move a
stage from below. `CredentialFollows` is an action property: `Credentials` says that an
established connection was last sent the token the library has, `Users` that every
fetch is for a user there was, and `TokenFollows` is what each step then does to the token
and the provider's (lemma `NextCredentials`). Listens and puts do not matter to these.

The other three, `ConnectionTyped`, `PutsOnce` (`EveryPutOnce`) and `OnlyPurgeMisses`
(`MissedOnlyByPurge`), need an invariant of their own, `EachPutInv`. As long as no
assertion has failed, the write tree has the writes of the outstanding and held back puts;
so every step but a purge finds what it removes, and only a purge that meets held back
answers does not. Of the requests it says that the listens awaited are as many as
the count of unanswered ones, that only the first request can be a credential whose answer restores
the state, and only while it is awaited, or the state would be restored twice; and that each put is
awaited once, and only while writes can be sent. Of the puts, that an index is in one place
(outstanding, held back, completed) and not above the counter, so that a new index is new,
and that an outstanding put not marked as sent has never been sent. A loss of the connection
cancels the transactions that were sent, so while writes cannot be sent no outstanding
transaction is one (`SentWhileConnected`); restoring the state, which sends every
outstanding put, then sends no transaction a second time. The orders in which `restoreState` sends and `onDisconnect` cancels are
any orders the code's dictionaries allow (`InIndexOrder`, `InAnyOrder`); lemma
`RestoredInOrder` shows what is sent whatever the order is.

`LevelCompaction_proof` first proves `CompactionKeepsReads`: for any input of a compaction, any
entries around it and any smallest snapshot, the entries kept answer every read at that
snapshot or later as all the input did, provided that no entry outside the input is older
than a deletion marker dropped as obsolete. That premise is the code's
comment at db_impl.cc:962-968; it is what `IsBaseLevelForKey` establishes while the levels
are in order (below), and what `level_split` shows to fail. A hidden entry is
never the answer, because the newer one that hides it is visible too; but that one may
itself be dropped, so the argument takes the newest entry at the snapshot (lemma
`NewestExists`), which no rule hides.

It then proves, for every number of keys, writes, levels and snapshots and every limit on
files and levels, from `LevelAssumption` alone:

- `LevelTypeCorrect`: `Spec => []LevelTypeOK`, and
- `LevelSnapshotsStable`: `Spec => []SnapshotsStable`, with the levels, files and interleavings
  that `CompactionKeepsReads` leaves out, and
- `LevelEntriesNeverHop`: what version_set.cc:346 says and `level_split` refutes is true
  until the levels lose their order, `Spec => [](spoilt = {} => EntriesNeverHop)`.

All three are of `Spec`, of which the specification of `level_levels` is a part. The
invariant is `IInv`, `LevelsInv` and `Sound`. `LevelsInv` holds in any case: types, sequence
numbers used once (`HistoryOK`), files finite, not empty and told apart by their numbers, snapshots in
ascending order (so the first one is the oldest, as `DoCompactionWork` takes it), the file
due for its seeks in the current version, and of the compaction under way (`WorkOK`) that its inputs
are still in the version when its outputs are installed and that no reader is older than the
snapshot it took. `Sound` holds as long as `spoilt` is empty: no two files of a level below 0
overlap or share a key (`Separate`); entries of a key are the newer, the higher up they are,
from the memtables down, at level 0 by file number (`Ordered`); a scan of everything answers every
reader as all writes would (`Complete`); and `InputsSafe`, which carries the choice of inputs from
the start of a compaction to its end: what is left of its level is newer than what goes
down, what is left of the next level shares no key with it, and any key of its input that is
deeper is among those `IsBaseLevelForKey` knows of, though by then files have been added
by flushes. `Separate` and `Ordered` make the search of `Version::Get` agree with a scan (lemma
`GetScans`), `Complete` is kept by a compaction because of `KeptReads`.

The lemmas in between are about the operators: `OverlappingFiles` (the widening of
`GetOverlappingInputs` at level 0 reaches a fixed point within as many rounds as there are files),
`SetupChoice` and `PickedChoice` (the inputs are closed under overlap, whatever is grown),
`ManualChoice`, `PickedLevel` (a flushed memtable goes below nothing it overlaps),
`LevelDue` (the level with the highest score has a file), `CandidatesInOrder` and `OutputsHold`
(the loop's outputs together have exactly what was kept). The recursive functions and the
fold in these are reasoned about by well-founded induction on explicit sets of indices
(lemmas `Recurs` and `OutputFold`). TLC checked `LevelsInv` and `Sound` as invariants
of `Spec` on the instance of `level_levels`, and on a larger one in part.

`LevelDB_proof`, and `LevelDB_writes_proof` for the last, prove five invariants of
`leveldb_survives`, for any number of threads,
calls, failures and crashes, from `LevelDBAssumption` alone (the limits are natural numbers,
in the order of the three triggers of level 0; a group, a memtable and the first of these
triggers are at least one):

- `LevelDBTyped`: `Spec => []LevelDBTypeOK`. The invariant is `BaseInv`: with the types, that
  a writer is in `writers_` from its call until it is told that another wrote for it, and in it
  once; that only the front is awake or at work, and that its group is no longer than the
  queue. Without the last, the end of a group's write would take writers from an empty queue.
  `LeaveQueued` is the one lemma for all ends of `Write`.
- `LevelDBNeededFilesExist`: `Spec => []NeededFilesExist`. The invariant is `NumbersInv` and
  `FilesInv`. A step deletes what no version in use, pending output or input names (lemma
  `CollectedLeft`); that nothing needed is deleted then rests on the pending outputs of a
  running compaction (`WorkInv`), and on numbers: a new file is never one that a version, a log
  or a manifest already names (`NumbersInv`), also after a restart whose number comes from the
  last edit of the manifest and from the logs found.
- `LevelDBOpensAgain`: `Spec => []OpensAgain`. The invariant is `CurrentInv`: of whatever a
  crash can leave of the current manifest (`Kept`), if it is not torn, all tables exist, and
  while there is no background error the manifest is synced and says what the current version
  is (`ManifestUpToDate`), from its append on what the version will be when the edit is
  installed. So a file may only be deleted when no cut of the manifest has it; `CollectedLeft`
  says that after an error nothing is deleted at all, which is what keeps an edit half
  written harmless. `VersionOf` says of a file which edit added it and that none after it
  deleted it; lemmas `VersionAppended` and `KeptAppended` replace the induction over the records.
- `LevelDBSequencesUnique`: `Spec => []SequencesUnique`. The property speaks of what can be
  read while the database is open; inductive is only `SeqInv`, of every entry in any table,
  log or memtable, orphans of earlier crashes included. While the database is open none is
  above `lastSeq`, but for the group that is in the log and not yet in the memtable
  (`UsedUpTo`; `KeepsGroups` says that nobody changes that group meanwhile). After a crash
  `lastSeq` is gone, and comes back from the last edit of whatever is left of the manifest
  and from the logs: `Ordered` says, of everything a crash can leave of the manifest, that
  its last edit is not below any entry of the tables it names. That a table left by a
  crashed process can be overwritten by a new one of the same number, without one that the
  manifest names being touched, is again a matter of file numbers (lemma `OrderedKept`).
- `LevelDBWritesSurvive`: `Spec => []WritesSurvive`. `PromiseInv` follows every write that
  returned OK, and from the write of its group on every one that will (`Told`: a writer that
  another wrote for sleeps on with its result). Open, the write is in a table of the version,
  in a memtable *and* in a log that the version still needs, for a synced write within the
  synced part of it (`Held`); and whatever a crash leaves of the manifest, the tables and logs
  it names have the write (`Durable`; a write that was not synced only needs the whole
  manifest). `PromiseOfBackground` is the step that takes a write from log and memtable to a
  table: it rests on `MergeInv` (the files an edit adds have what those it deletes and the
  frozen memtable had, so the log may go with them) and on `ManifestInv` (while the database
  is open, what a crash can leave of the manifest names a log between the one still needed
  and the current one, and, but after an error, the version). `PromiseOfThread` is the end of
  a group: `WrittenInv` says of the group between its log record, the sync and the memtable
  that a whole record of the current log has all its entries, and is synced before `finish`
  if any writer of the group asked for it (`SyncedForAll`), or that they are behind a torn
  record. `PromiseOfOpen` follows a write from the logs through
  the memtables of `RecoverLogFile` to the table written before the log is given up, and
  `PromiseOfCrash` says that a cut of a cut of a manifest or a log is a cut. Writes that the
  reader of a log drops behind a torn record are excluded by `behind`, as in the property.

`Client_proof` also proves three invariants of `tx_settle`, for any number of children,
transactions, retries, sets, foreign changes, refusals and lost connections, from
`WriteTreeAssumption` (finitely many children) and `TransactionsAssumption`:

- `TransactionsTypeCorrect`: `TransactionsSpec => []TransactionsTypeOK`;
- `TransactionsWritesAccountedFor`: `TransactionsSpec => []WritesAccountedFor`;
- `TransactionsOutcomeTold`: `TransactionsSpec => []OutcomeTold`.

An action here is one event and all the handlers of `FRepo` that it sets off, which call
each other and go through sequences with folds. So the invariant is not about the variable
`client` but about any value of it, `Settled(c, P, ans, ex)`, and there is one lemma per
handler: what is `Settled` before it is so after it. `P` is the set of puts that are
no longer outstanding while their transactions are still to be answered; between two
actions it is empty. In the middle of a handler only `Sound` holds, which leaves out
that nothing over waits in a queue (`NoneOver`) and that whatever waits could be sent
(`Clean`): a transaction that failed waits until the rerun takes it out. The parts of `Sound`:

- `Base`: types, and of the writes in the tree that each has its own id, below the next.
- `Accounted`: the ids of the writes are those of the outstanding sets and of the
  transactions that are not over, no two alike. It is what makes the choice of
  `removeWriteId` find one write and remove the right one (`RemoveWriteId` is then a
  removal at an index), also while a run adds its new write before it takes the old one away.
- `Queues`: what waits is of its place, waits once, and what is on its way comes first.
  `abortTransactionsAtNode` keeps as many transactions as it has marked, from the front:
  without that order it would keep the wrong ones.
- `Carried`: a transaction is on its way if and only if one put carries it, outstanding or in
  `P`, at or above its place; all of a queue that are on their way are in one put. So one
  answer is for all, and what is sent next is sent after.
- `Truth`: what the server has executed, by status and outcome.
- `Served`: while connected, the answers on the connection are those of the oldest puts, in their
  order, each true of what was executed (`Fits`), and the requests are the other puts, behind
  the listen if that is not taken yet; none of these is executed (`Unserved`). Without
  a connection there is neither, and an outstanding transaction has not been sent, so that
  what `restoreState` sends is not executed twice.

What a fold over a sequence does is proved once for all folds (`Folded`, by well-founded
induction on the index, as in `LevelCompaction_proof`), and each handler's lemma then gives the
step. `TransactionsInv` adds the types of the messages and that the server only pushes to
a connection that there is. TLC checked the parts of `Settled` on the instance of `tx_settle`
and, with three transactions, on a smaller one.

Only model-checked: liveness under fairness, which is out of the prover's reach, and
`QuietIsSettled` of `Transactions`. That property is about views: it needs that the
cached result of the visible writes is what layering them anew would give, which is a
fact about two folds over different sequences of writes, to be carried through every removal.

## Known flaws

What the models show or exclude, beside the findings of `PROJECT.json`:

- RegisterViewController.swift:144: a granted registration ends with a forced cast of
  `setValue`'s result to an array of dictionaries, which always traps. `Account` has it.
- FRepo.m:933 and :1102: events and transactions dropped, as above.
- FPersistentConnection.m:434: the late answer to a token fetch puts a former user's
  credential over the current one. No document of the repository says otherwise;
  `CredentialFollowsUser` names the case.
- FRepo.m:370: a purge empties the write tree before the connection runs the blocks of the
  answers it holds back (FPersistentConnection.m:881-882), which then fail the assertion
  of `removeWriteId` (FWriteTree.m:125). Listen and put on one connection, let the put be
  answered first, and purge: TLC finds it as the shortest violation of `WritesFound`
  on the instance of `conn_faults`, without any disturbance.
- FPersistentConnection.m:327: a lost connection sets the count of unanswered listens to
  zero without releasing the answers held back for them. If no listen is left, the block of
  a put that the server has taken is not called until another listen is made and answered;
  `EveryBlockRuns` has a kept listen for its premise.
- LevelDB, versions of a key split over two files of a level (`level_split`). Later
  releases of LevelDB add the files at the boundary to the inputs.
- LevelDB, writing on behind a torn record (`leveldb_torn`).
- LevelDB, a manual compaction whose range takes two files of a level with a gap
  between them, and a flush that puts its memtable into the gap of the next level meanwhile:
  files may overlap, against the assertion of `MaybeAddFile` (version_set.cc:765). Not
  reached within the bounds; `spoilt` would have `overlap`.
- LevelDB, `NewDB` does not sync the first manifest before CURRENT names it; a
  crash of the machine can leave a database that does not open. `OpensAgain` excludes it.
- LevelDB, a flush inside a compaction whose manifest write fails records the error, but
  the compaction goes on and appends its own edit (db_impl.cc:918-924): behind a torn
  record, after which the manifest cannot be read. `OpensAgain` excludes it.
- LevelDB, a `NULL` batch that another writer takes into its group is not a request to
  switch memtables any more: `TEST_CompactMemTable` returns without a flush.
- LevelDB, a failed flush inside a manual compaction wakes `TEST_CompactRange`, which
  clears `manual_compaction_`; the end of the compaction (db_impl.cc:756-768) then uses
  it. Manual compactions with failures are not modelled.
- LevelDB, the unsynced end of an older log can be lost in a crash of the machine while a
  later, synced write survives.

## Plan

1. `RealtimeDB`, `SharedBoard`, `ChatSync` with their runs and the first theorems (done).
2. `Account`: sign in, registration, loader and navigation, with proofs (done).
3. `Posting`: upload, download URL and record; the profile's table (done). Left: reused
   cells whose pictures arrive late, uploads of avatar and cover.
4. `Connection`: stages, authentication, retries, removed listens, purges, with proofs
   (done). Left: what `RealtimeDB`'s `Connect` and `Disconnect` say of it, as a refinement;
   the frames of `FWebSocketConnection`.
5. `WriteTree` and `Transactions`: shadowing writes, runs, retries, aborts (done). Left:
   merges, deeper paths, a purge with transactions, answers held back during a listen.
6. `LevelDB`, `LevelCompaction`, `CompactionRules`: write path, recovery, compactions, with
   theorems (done). Left: closing, failures while opening, manual compactions with
   failures, `reuse_logs`; a common abstraction of both modules (a map of keys) and the
   refinement; the local store of Firestore, which stands on it.
7. Proofs: `Connection`, `RealtimeDB` with the refinement, `ChatSync` and `Posting` with
   their action properties; all invariants of `LevelDB` and `LevelCompaction`;
   those of `Transactions` but one (done). Left: `QuietIsSettled`.

## Not modelled

The other vendored libraries (gRPC, BoringSSL, Protobuf, Firestore, FirebaseAuth but for its token fetches,
FirebaseStorage, image and keyboard helpers) are by far most of the repository's lines. They are
not this program's logic and most of them are protocol engines and generated tables of
their own; what the app needs of them (a granted sign in, a stored picture) is an
external action. Layout, formatting, the date picker and the country list keep no state
that anything depends on. The cells of the profile load pictures into cells that may
have been reused (PostTableViewCell.swift:60); the chat's text field is cleared
by every snapshot (ChatViewController.swift:89), which `ChatSync` does and no property forbids.
