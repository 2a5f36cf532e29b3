# A TLA+ verification of qTox

qTox is a desktop client of the Tox network: one process per profile, a few threads, one
library (toxcore, with toxav for calls) that does the networking, and one encrypted SQLite
database per profile.  This directory holds TLA+ models of the parts of qTox whose
correctness depends on the order in which threads, processes, callbacks, queued signals,
lost connections and restarts interleave; the TLC configurations that check them; and
theorems about them that TLAPS has checked.

Paths in this file are relative to the repository (`src/...`), line numbers are those of
the commit the models were written from.  `PROJECT.json` lists the same material for tools:
components, runs, the lines each definition stands for (`map`), the hazards with the
properties that watch them, and the theorems.

- [How to run it](#how-to-run-it)
- [The system](#the-system)
- [The modules and the code](#the-modules-and-the-code)
- [The runs](#the-runs)
- [What disagrees with the code's own words](#what-disagrees-with-the-codes-own-words)
- [The proofs](#the-proofs)
- [What is not modelled](#what-is-not-modelled)
- [Plan](#plan)

## How to run it

    tlasany MessageDelivery.tla
    tlc -workers 2 -config delivery.cfg MCMessageDelivery
    tlapm MessageDeliveryProofs.tla

Each `MC*.tla` is the module the configurations of one component are run on; which
configuration belongs to which module is in the table of runs below.

## The system

### Threads, processes and what they share

| Actor | Runs | Talks to the others through |
|---|---|---|
| GUI thread | widgets, chat models, `FriendMessageDispatcher`, `OfflineMsgEngine`, `ChatHistory`, `AvatarBroadcaster`, the *callers* of `Core`, `CoreFile`, `CoreAV` | direct calls that take `Core::coreLoopLock`; queued signals the other way |
| Core thread | `Core::process`: `tox_iterate` under `coreLoopLock`, hence all toxcore and toxav callbacks | queued signals to the GUI thread |
| DB thread | `RawDatabaseImpl::process`, the queue of transactions, and the *callbacks* of queries | `pendingTransactions` under `transactionsMutex`; `execNow` blocks the GUI thread |
| CoreAV thread | `toxav_iterate`, audio and video frames, `answerCall` when it was queued to it | `callsLock`, `coreLoopLock`, `isCancelling` |
| Device and stream threads of the camera | opening, closing and reading the device | slots queued for the device thread, `deviceMutex`, `streamMutex` |
| Audio and settings threads | devices, saving settings | locks of their own (not modelled) |
| Other qTox processes | the same program, of the same user | a block of shared memory (`IPC`), lock files, the profile's files |

What makes this program hard to get right:

- **The GUI is always behind.** `Core` emits signals from the Core thread; the GUI thread
  reads a friend's status, a file's number or a call from its own copy and acts on it while
  newer signals are still queued.
- **A loop in a GUI handler is not atomic.** `onFriendOnlineOfflineChanged` sends message
  after message and takes `coreLoopLock` for each; `onConnectionStatusChanged` of `CoreFile`
  takes no lock at all.
- **Two locks, two orders.** `CoreAV` takes `callsLock` then `coreLoopLock` in its methods
  and the other way round in its callbacks.
- **Requests that are carried out later.** The camera is opened and closed by queued slots that
  look again at who uses it, and at which device is chosen, when they run.
- **Callbacks run in the thread that happened to be there.** The row id of a message comes
  back on the DB thread, its completion on the GUI thread.
- **A crash** separates what is in memory from what is in the database, and a message that
  is pending in the database is sent again.
- **Processes** that start in the same second share one block of memory whose owner may die.

### Components

| Component | State it keeps | Operations | What makes it correct | Module |
|---|---|---|---|---|
| Text message delivery: `FriendMessageDispatcher`, `OfflineMsgEngine`, `Core` | unsent messages, messages sent and not acknowledged, early receipts, friend status | send, receipt, status change, resend, clear | nothing is lost, doubled or reordered; completed means arrived; both as far as receipt numbers do not collide | `MessageDelivery`, `OfflineMsgEngine`, `Delivery` |
| Chat history persistence: `ChatHistory`, `History` | rows, `faux_offline_pending`, the map from messages to rows | insert, mark as delivered, erase, switch off, restart | what is not acknowledged stays pending; a completion marks its own row; an erasure is final | `ChatPersistence` |
| File history: `History`, `ChatHistory` | rows of file transfers, `fileInfos` | add, finish, the callback of the insertion | a transfer's result is recorded in its own row | `ChatPersistence` |
| Raw database worker: `RawDatabaseImpl` | queue of transactions | `execLater`, `execNow`, `process` | order, callbacks, `execNow` returns | `ChatPersistence` (the queue) |
| File transfers: `CoreFile`, `SessionChatLog`, `AvatarBroadcaster` | `fileMap`, items of the chat log, who has our avatar | send, offer, accept, pause, resume, cancel, chunk, break | chat log follows `CoreFile`, which follows toxcore | `CoreFile` |
| Inter-process communication: `IPC`, `AppManager::startGui` | the shared memory: owner, event slots, times | take ownership, post, process, wait, exit | an event is handled once; nobody waits for ever, or leaves an event that nobody took | `IPC` |
| Friend calls: `CoreAV`, `ToxFriendCall`, `ChatForm` | `calls`, two locks, `isCancelling` | start, answer, cancel, state and frame callbacks, pictures sent | calls are toxav's calls; no operation hangs | `CoreAV` |
| Database file and password: `RawDatabaseImpl` | the file, its `.tmp` and `.bak`, its key, the key in memory | open with two upgrades, set password, encrypt, decrypt, rename, remove | the password of the profile opens the history, whatever was cut short | `RawDatabase` |
| Profile and lock: `Profile`, `ProfileLocker` | lock file, `.tox` file, the profile of each process | create, load, save, rename, remove, log out | one process has a profile; a change loses no history and shows none to others | `Profile`, `ProfileLocker` |
| Conversation windows: `ChatHistory`, `SessionChatLog`, `ChatWidget` | indices of items, loaded and rendered windows | load, search, append | an index names one message, whatever is loaded | planned |
| Schema upgrades: `DbUpgrader` | `user_version` | upgrade by one, eleven times | a crash leaves a version the loop continues from | planned |
| Core lifecycle: `Core` | timer, tolerance counter | start, process, stop, bootstrap | reconnects, stops once | planned |
| Friends: `FriendList`, `Core` | list of friends | add, accept, remove | sequential over toxcore's list | planned |
| Conferences: `Conference`, dispatcher, `ToxConferenceCall` | peers, per-peer audio | join, leave, peer list | peers are toxcore's peers | planned |
| Settings: `Settings` | all settings, one lock | get, set, save asynchronously | what is saved is what was set, in the profile it was set in | planned |
| Camera and video: `CameraSource`, `VideoFrame` | device, subscriptions, stream thread, frames | subscribe, unsubscribe, choose a device, stream, destroy | the device is open while, and only while, somebody uses it; it is not closed under its reader | `CameraSource` |
| Audio: `OpenAL` | sinks, sources | add, remove, play | - | planned |
| Events of the process: `Nexus`, signals, update check | - | - | - | not modelled |
| User interface | - | - | - | not modelled |
| Packaging, tools, vendored code | - | - | - | not modelled |

### How the components interact

A text goes from `ChatForm` through `MessageProcessor` (which splits it) to
`FriendMessageDispatcher::sendMessage`; the dispatcher emits `messageSent`, which
`ChatHistory` turns into a transaction, and hands the message to `Core` or, if the friend is
offline, to its `OfflineMsgEngine`.  The receipt comes back from toxcore in the Core thread,
crosses to the GUI thread as a signal, is matched by the engine, and runs the completion
callback, which `ChatHistory` turns into a second transaction.  `MessageDelivery` models the
first half up to the completion, `ChatPersistence` the second from the dispatched message on;
they meet in two events, *dispatched* and *completed*, and each module leaves the other's
part open: in `ChatPersistence` a message may complete at any time after it is dispatched,
which includes every time `MessageDelivery` can complete it.

File transfers and calls share with messages only `coreLoopLock` and the friend's status;
each has a model of its own with its own copy of the connection.  `IPC` runs before any of
them exists and chooses the process that opens a profile.  `Profile` composes the lock, the
`.tox` file and the database of every process: a profile is opened under its lock, its `.tox`
file and its database are changed one after the other, and the database's file is what
`ChatPersistence` writes its rows to.

## The modules and the code

Every module has the same layout: constants with a named assumption, variables, one action
per handler under a heading for the thread that runs it, the fairness, the properties, and at
the end the statements of comments that the code does not keep.  Definitions whose comment
begins with *Mutant:* are variations of the definition below them, written the way a plausible bug would be; they are no part of any
specification and serve to show that a property fails when the code is wrong.

### `Delivery`, `OfflineMsgEngine`, `MessageDelivery`

`Delivery` is what the user is promised, in four sets: messages *submitted*, those that *reached*
the peer, *confirmed* ones (marked as received) and *abandoned* ones.  A message is confirmed only
after it has reached the peer, once, and never after it was abandoned; one that is handed over may
displace at most one other.

`OfflineMsgEngine` is `src/src/persistence/offlinemsgengine.cpp`: `unsentMessages`,
`unAckedMessages` and `receivedReceipts` of its `ReceiptResolver`, and its four operations.
`authorshipTime` is a `steady_clock` stamp taken when a message enters the engine, here a
counter: two stamps are assumed to differ, which a clock of nanoseconds and the locks between
two messages make true.  `std::sort` by it is the order in which `ResendNext` takes messages
(`Earliest`).  `receivedReceipts` is a vector in the code and a bag here.  `overwritten` is a
history variable: the messages whose entry of `unAckedMessages` was given to another one.

`MessageDelivery` puts the engine between the dispatcher, the Core thread and a connection:

| Actions | Code |
|---|---|
| `SendMessage`, `DispatchPart` | `FriendMessageDispatcher::sendMessage` and one iteration of its loop |
| `SendProcessedMessage`, `SendDirect`, `SendStored`, `SendRefused` | `sendProcessedMessage`, `sendCoreProcessedMessage`, `Core::sendMessageWithType` with its fallback to `tox_friend_send_offline_message` |
| `DeliverEvent` (`OnFriendStatusChanged`, `OnReceiptReceived`) | the GUI event loop, `Friend::setStatus`, `onFriendOnlineOfflineChanged`, `onReceiptReceived` |
| `ResendNext` | one iteration of the resend loop |
| `ClearOutgoingMessages` | `clearOutgoingMessages`, when the user switches the history off |
| `FriendConnects`, `FriendDisconnects`, `FriendAnnouncesStatus`, `ReceiptArrives` | `onConnectionStatusChanged`, `onUserStatusChanged`, `onReadReceiptCallback` |
| `PeerReceives`, `PeerFindsStored` | the other side (external) |

A queued signal carries a status or a receipt.  A friend that connects is announced as online
only when its status packet comes (`Core::onConnectionStatusChanged` emits nothing for a
connection), so the GUI may believe the friend offline while it is connected, and the reverse.
`OfflineIds = {}` is a toxcore without the store.

A message is in flight as its position in `sent`, the history of what toxcore has accepted, and
several positions may have the same receipt number: `Core::sendMessageWithType` narrows the 64-bit id
of a stored message to the 32 bits of a `ReceiptNum` (`core.cpp:665`), which are also the numbers of
`tox_friend_send_message`, and nothing keeps them apart.  `ReceiptNum(id)` is the remainder by
`ReceiptNums`, and `Clash(j, k)` says that two different messages got the same number, `j` first.
Then the engine's map has room for one of them (`offlinemsgengine.h:64`), and a receipt for either
completes whichever is there.

`Emit` may drop a signal: `Core::process` allows 200 events in one iteration and drops the rest
(`core.cpp:269-277`).  `reached` is what has come to the peer's toxcore; that the peer's own qTox
may drop the event that would show it is not in the model.

**What the properties excuse** is the collision and nothing else.  `NoMessageLost` lets a message
be displaced only if its own number was given to another one after it.  `Confirmed` leaves out the messages that were
given the number of another one, for which `CompletedHadArrived` and `PromiseKept`
say nothing.  Without these exceptions both are false: see `NothingDisplaced` and `MarkedHadArrived`
below.

### `ChatPersistence`

The life of a sent message on disk: rows of `history` and of `faux_offline_pending`, the queue
of transactions, the DB thread (`worker`) and the GUI thread (`gui`).

`ChatHistory::handleDispatchedMessage` runs on the DB thread *inside* the transaction that
inserts the message, `ChatHistory::completeMessage` on the GUI thread; both look into
`completedMessages` and `dispatchedMessageRowIdMap` and then change them, with no lock.  Each
is two steps here, the look-up and the change.  That the containers could also be corrupted by the
race is not modelled.  `Restart` is a crash at any point followed by the constructor of
`ChatHistory`, which sends what the database says is pending before it listens to
`messageSent`.

File transfers share the queue and the table `history` with the messages.  A file has a row of
`file_transfers` that says "canceled" until its result is written; `onFileInserted` tells the
GUI thread the row through a queued signal (`fileInserted`), and `setFileFinished` writes the
result to the row it finds in `fileInfos`.  When it finds none it notes the result there and
removes the entry two lines later, so the result is lost and the branch of `onFileInserted`
for finished files is never taken.  `unrecorded` names these files, those that ended with the
history off, and those whose result was on its way in a crash.

`eraseHistory` is one query of ten statements, around which `RawDatabaseImpl` puts no
transaction; it is modelled statement by statement (`ErasePending`, `EraseTransfers`,
`EraseRows`), while `removeChatHistory` is one transaction (`EraseMessages`).  `TypeOK` includes
the foreign keys, which hold between the statements and after a crash there.

Simplifications: a statement never fails; there is one chat; the setting of the history is kept
across a crash; a message is named by its `DispatchedMessageId` and a file by its
`resumeFileId`, which are new for every message and file in a run; the tables of authors,
aliases and broken messages are left out.

### `ProfileLocker`, `RawDatabase`, `Profile`

Several processes over one directory of profiles.  A file is a value of a function on names:
`lockFile[n]` the process that `<n>.lock` names, `tox[n]` the identity and the password of
`<n>.tox`, `db[n]` and `tmp[n]` the database and its export.  A database is a record: its key,
whether its cipher parameters are the newest, the identities whose history is in it, and
whether an export has ended.  Identities stand for public keys, which are the salts of keys; a
history variable `life` says what became of each, and `of` is how the model knows whose history a
file has.

| Module | Actions | Code |
|---|---|---|
| `ProfileLocker` | `Lock`, `Unlock`, `LockFileExists`, `Abandon` | `lock`, `unlock`, `assertLock`; a lock file of a dead process is stale (`QLockFile`) |
| `RawDatabase` | `OpenDatabase`, `OpenFirst`, `OpenWithOldSalt`, `UpgradeSalt` | the constructor: `open` with the new salt, backup, `open` with the old one, `setPassword` |
| | `StartExport`, `FinishExport`, `FailExport`, `RemoveOld`, `RenameExport` | `encryptDatabase`, `decryptDatabase`, `updateSavedCipherParameters`, `commitDbSwap` |
| | `SetDbPassword` (`Rekey`, `ChangeEncryption`), `RenameDb`, `RemoveDb` | `setPassword`, `rename`, `remove` |
| `Profile` | `LoadProfile`, `CreateProfile`, `OpenFirstTime`, `AddNewMessage` | `loadProfile`, `createProfile`, `loadDatabase`, the first message |
| | `SaveToxSave`, `LockFileLost`, `AssertLock` | `saveToxSave` and the two halves of `assertLock` |
| | `SetPassword`, `ChangeDbPassword`; `Rename`, `RenameTox`, `RenameDatabase`; `Remove`, `RemoveTox`, `RemoveDatabase` | `setPassword`, `rename` and `remove`, file by file |
| | `Logout`, `SaveAfterLogout` | `Nexus::showLogin`, which keeps the old profile and its Core until there is a new one |
| | `Crash`, `DatabaseFails`, `LockFileDeleted` | a process, a statement or a lock file goes at any of these points (`MaxFaults`) |

The database works in its own thread with the GUI thread waiting in the call, so `work[p]` is
a step of `p` that another process, but not `p`, can come between.  `Init` is either an empty
directory or one profile of an older version, with the old salt or the old cipher
parameters, so that both upgrades run.

**What the properties excuse** names what the code does wrong or cannot do better, and shows
that there is nothing else:

- `harmed`: a change of the identity was cut short (`CutShort`), or did not get to the database.
  `setPassword` saves the `.tox` file before the database (`profile.cpp:953`, with a TODO); a
  crash or a failing statement in an upgrade of the cipher parameters leaves an export that
  blocks every later upgrade, although `rawdatabaseimpl.cpp:538-541` says that it can be
  recovered.  A crash while the `.tox` file is about to be renamed, while the database is
  opened, or between the two steps of `commitDbSwap` is *not* excused: there the code recovers.
- `strayed`: the database did not follow the `.tox` file to a new name, because `rename` ignores
  that the database was not renamed (`profile.cpp:908`), or for a crash between the two.
- `shared`: two processes had the identity at once.  `Profile::remove` and `rename` release the lock
  before they touch the files (`profile.cpp:863`), so another process can open the profile
  in between.  With three changes TLC finds a history that is lost this way.
- `lost`: somebody deleted a lock file.  `assertLock` looks for a file of that name, not for
  its own, so both processes go on.
- `renamed`: after `PRAGMA rekey` or the upgrade of the salt `currentHexKey` is the old key, with
  which `rename` opens the database again (`rawdatabaseimpl.cpp:466`); the history is closed
  for the rest of the session (`HistoryOpens`), and found again on the next start
  (`HistoryFoundAgain`).

`Excused` is `harmed`, `strayed` and `shared` together.  `HistoryKept` excuses only the last two: the
history of a harmed identity is on the disk all the same, while that of one that strayed can be
lost to another profile that takes the old name, for which more changes are needed than the run
has.  `NoForeignHistory`, `NothingLeftToOpen`, `HistoryFoundAgain`
and `HistoryOpens` excuse all three: an export that was left behind becomes the database of the
next profile of that name.

`bak[n]` is `<n>.db.bak`, the copy that the constructor makes before it upgrades the salt, unless there is one
(`rawdatabaseimpl.cpp:44`): its history, but not its key, since nothing ever opens it.  Nothing removes or
renames it either, so the history of a profile that was removed stays there.  `NothingLeftToOpen`
therefore speaks of what is opened again, the `.tox` file, the database and the export; that nothing at
all is left is `RemovedPermanently`, which TLC refutes.

Not modelled here: the settings and the avatars (which a change of password loses, as their
names depend on it), `isLockable` and its short lock, the gap between the test and the lock in
`createProfile`, the profile that outlives `showLogin` while message boxes run nested event
loops, and passwords that are wrong.  A file that is removed while
another process has it open is treated as closed there.

### `CoreFile`

All transfers with one friend, in both directions.  The callbacks of `CoreFile` run in the
Core thread under `coreLoopLock`, and so do the buttons of the chat log.  Two GUI handlers
change `fileMap` without the lock and are modelled step by step: `onConnectionStatusChanged`,
which takes a snapshot of the keys and then goes through them (`ConnectionStatusChanged`,
`BreakFile`), and `handleAvatarOffer` (`AvatarOfferReceived`, `GetAvatarId`, `AddAvatar`).  The queue of events is explicit
(`events`, at most `MaxEvents`), since the signals of `CoreFile` come from two threads and
their order is what `UiFollowsCoreFile` is about.

toxcore reuses a file number as soon as its transfer has ended; `Files` are therefore
separate from `Nums`.  `fileMap[key]` with a key that the Core thread has removed creates an
entry of a default-constructed `ToxFile` (`corefile.cpp:588-593`): this "ghost" is in the
model, with the crash it leads to when its null `QFile` is used (`Crash`), and the properties
except it by name (`NoFile`).  An avatar offer is answered from the GUI thread by its number,
whatever has that number by then (`OnlyAvatarsUnasked`), so that the entry of a data file may
become that of an avatar.  What `StaleOnlyBeforeBreak`, `FinishedWasDelivered`, `PausedAsToxcore` and
`ChunksOfTheirFile` say is therefore said of the numbers that we give out, and of the friend's
numbers until it has offered an avatar (`Apart`): TLC refutes the forms without `Apart`.

A status other than Offline takes every transfer that is transmitting out of `fileMap`, "broken" or not, and
says TRANSMITTING of it (`corefile.cpp:580-593`).  toxcore goes on with it, nobody hears of its end, and
its item is shown as live for ever.  The history variable `dropped` has these files, and
`ItemsSettle` excuses exactly them, and an item over which the signals of our own avatar, which gets
the same number later and no signal at its end, were laid.  The modelled friend is not friend 0, whom a ghost would name.
The race on the Qt container itself is modelled by its interleavings alone; the dialog that
asks where to save a file takes no time.

### `IPC`

The `IPC` class and the part of `AppManager::startGui` that decides whether this process
starts or hands its event to another one.  `pc` is the place of each process, from
"off" over "waiting" for its event to be accepted to "running", "loggedOut" or one of the three ways
to end.  The memory is locked by `QSharedMemory::lock`; `holder` is a process inside `processEvents`,
whose loop over the slots is modelled turn by turn because handlers run in it, while the short
critical sections are single steps.

| Actions | Code |
|---|---|
| `Launch`, `TakeFirstOwnership` | the constructor: `create` or `attach`, then the lock |
| `ProcessEvents`, `RunEventHandler`, `EventHandled`, `CloseDialog`, `Unlock` | `processEvents`: ownership, one turn up to the handler, the mark after it, the end of the loop |
| `PostEvent`, `LeaveToOther`, `GiveUp` | `startGui`: `isCurrentOwner` and `postEvent` in one step, `waitUntilAccepted` |
| `ShowLogin`, `Login`, `Rename`, `Logout` | the login screen, a profile that is loaded, its new name, and the end of its `Widget` |
| `Exit`, `CrashOf`, `Tick` | the destructor, a crash, a second |

A handler is two steps, its start and the mark (`ipc.cpp:341-353`), with the memory locked between them.
Those of "activate" and "save" return by themselves; that of "uri" shows a modal dialog
(`toxuri.cpp:42-54`), which only the user closes (`CloseDialog`), after any time.  A crash
may come in between: the event is not marked then, and `interrupted` notes who had begun with it.

`profileId` is that of the loaded profile: `Login` and `Rename` change it, as `Settings` tells `IPC`
(`appmanager.cpp:235`), and `Logout` leaves it, with the handler of "uri"; the `Widget` that goes takes
"activate" and "save" with it (`widget.cpp:616`, `toxsave.cpp:29`), and they are not registered again.

`Tick` is the clock in seconds (`time(nullptr)`).  It may not pass an event loop's timer by more than
`Slack`, unless the memory is locked; loading a profile, which runs without an event loop, may take any time.
A lock lasts longer than a second only for a dialog or for a loop that spins on an event without
a handler.

A process posts at most one event; the handlers accept what `startGui` posts, as the real ones do.

### `CoreAV`

`startCall`, `answerCall`, `cancelCall`, the callbacks and the frames, in the GUI, Core and
CoreAV threads.  `op[t]` is what a thread does and which lock it waits for; a write lock is
held over several steps, a section that only reads under `callsLock` is one.  Signals to
the GUI thread and calls queued for the CoreAV thread are sequences.  `cancelCall` emits
`avEnd` with `coreLoopLock` still held and its slots take `callsLock` again, which is
`EmitAvEnd`.  A call of toxav is "invited", "calling", "active" or none; `toxav_call` and
`toxav_answer` may fail.  One Core iteration runs one callback.  `raced` is a history variable:
the friends about whom a signal was queued when somebody acted, or whose automatic answer
failed.

`FrameAvailable` and `SendCallVideo` are a picture of the camera that restarts a stopped video
stream, the case in which `sendCallVideo` takes `coreLoopLock` as well.  The connection
of a call to the camera has the `CoreAV` object as its context (`toxcall.cpp:135`), so it
runs in the CoreAV thread, not in the camera's.

### `CameraSource`

`src/src/video/camerasource.cpp`.  `subscribe` and `unsubscribe` count under `deviceMutex` and queue
`openDevice` or `closeDevice` for the device thread, which runs them in order (`queue`, `RunSlot`) under
`streamMutex`; `setupDevice` queues itself.  The stream thread locks `streamMutex` for each frame.

| Actions | Code |
|---|---|
| `Subscribe`, `Unsubscribe`, `InvokeSetupDevice` | the functions up to `invokeMethod`, in the thread of a window or a call |
| `SetupDevice`, `CloseDevice`, `SwitchDevice`, `OpenDevice`, `OpenedDevice` | the slots; `setupDevice` calls the other two with `deviceMutex` held and `subscriptions` set to 0, which is how `Return` tells where it returns to |
| `StreamLocks`, `StreamReads`, `StreamEnds` | one turn of `stream`, its end, and its future's end |
| `Destroy`, `LockDevice`, `DeviceThreadEnds`, `StreamFutureEnds` | the destructor |

A device stands for its name and mode together.  Opening may fail (`refused`), or find nothing that can be
decoded (`usable`).  `deviceMutex` and `streamMutex` are only ever locked for writing, except by the
one stream thread, so that each has one holder.  Users are gone before the destructor runs
(`appmanager.h:43-44`: `nexus` is destroyed first).

## The runs

The last column is the number of distinct states of a complete run; a run that refutes its
property stops at the counterexample.

| Run | Module | What it asks | Bounds | States |
|---|---|---|---|---:|
| `delivery` | `MCMessageDelivery` | Is anything lost, held twice, confirmed before it arrived, resent out of order or sent after its receipt; is `Delivery` implemented; does every message settle once the friend stays? | 2 messages, 2 parts, 2 connections, 1 refusal, 1 lost signal, 2 stored ids that collide with numbers 1 and 2 | 1,267,940 |
| `persistence` | `MCChatPersistence` | Does what is not acknowledged stay pending; one row per message and file; is a transfer's result in its row; is an erasure final; does `execNow` return? | 3 messages, 1 file, 1 crash, 2 switches, 1 erasure | 2,185,874 |
| `persistence_lost_completion` | `MCChatPersistence` | refutes `CompletionReachesDisk` | 1 message | - |
| `transfers` | `MCCoreFile` | Does the chat log follow `CoreFile` with a number reused; are pauses toxcore's; does the status loop end what toxcore has lost, and do chunks reach their own file? | 2 offered files on one number, 1 sent, 3 pauses, 1 status, no refusal, 1 loss | 3,389,048 |
| `transfers_avatars` | `MCCoreFile` | Are finished files delivered; is what is gone shown as gone, with avatars both ways and statuses that drop what is not gone? | 1 avatar each way, 1 file each way, 1 status, 1 refusal, 1 loss | 901,436 |
| `ipc` | `MCIPC` | Is an event handled twice only after a crash in its handler; do times identify events; does a process leave its event only to one that has handled it? | 3 processes, 1 profile, 2 slots, 1 crash, 3 seconds, short timeouts | 3,492,851 |
| `ipc_liveness` | `MCIPC` | Is the memory owned again; does the wait end? | 2 processes, 2 profiles, 1 slot, 1 crash, 6 seconds | 560,666 |
| `profile` | `MCProfile` | Is the history found, opened and kept, by its owner only, after any change, crash or failure; does one process have a profile? | 2 processes, 2 names, 2 identities, 2 passwords, 2 changes, 1 fault | 2,530,959 |
| `profile_save_after_logout` | `MCProfile` | refutes `SavesWithLock` | no faults | - |
| `calls` | `MCCoreAV` | Are CoreAV's calls toxav's; does the form show them; does every operation return? | 2 friends (one answered automatically), 2 calls in, 1 out | 369,605 |
| `calls_frames_dropped` | `MCCoreAV` | refutes `FramesDroppedOnlyForCancelled` | 1 friend, 2 calls | - |
| `camera` | `MCCameraSource` | Is the camera on exactly while it is used; is it kept while read and let go afterwards? | 2 users, 2 devices, 4 subscriptions, 2 choices, the end | 386,374 |

**Why the bounds are enough.**  `delivery`: two messages are what order and confusion need,
two connections give a resend, a second status signal and a receipt that comes after the
resend; a message can be sent, stored, refused and sent again.  The stored ids 101 and 202 become
the numbers 1 and 2, which toxcore's counter gives out as well: a message that is stored and one that is sent
collide in either order, and so do two stored ones.  The safety part is proved for
all bounds, so the run serves liveness and the search for mistakes.  `persistence`: with three
messages one can be in the queue, one in the callback and one pending, beside a file whose
insertion and result are queued; a crash may come anywhere, in a restart's work and in the
middle of an erasure.  After an erasure SQLite gives row ids out again, and
a late completion may mark another message's row: `UndeliveredStaysPending` and `RowOfItsMessage`
therefore speak of histories without an erasure (`RowIdsFresh`), as does `FileResultRecorded`;
`OneRowPerMessage`, `ErasedForGood` and the foreign keys of all.  `transfers`: one number for two
files is the shortest reuse, the three pauses let each side pause and the first resume, and the status
beside the loss lets the loop of one meet the transfers of the other.
`transfers` has no avatars, so that `Apart` excuses nothing there.  In `transfers_avatars` each side's one number
is that of a data file and then of an avatar, so that an item can stand for what has gone while the number lives
on; `Apart` leaves out the friend's number once it offers its avatar, and nothing is paused there.  Refusals,
of a control or of a read, are for this run alone: `PausedAsToxcore` excuses them.  `ipc`: the
real timeouts are 5 s for events and ownership, 1 s for the timer and 2 s for the wait;
shortened to 1 and 2 s, they all expire within the three seconds of the run.  Two
senders and one receiver, or one sender and a change of owner, need three processes.  With one
profile everyone may fetch an event of that profile, which is the worst case; logging out and in, and
`ipc_liveness`, which has two profiles, cover ids that differ.  Processes are interchangeable, and symmetry is used for safety only.  `ipc_liveness` premises
require enough time before `MaxTime` for the promise to be kept, so the end of time excuses
nothing that should have happened.  `profile`: every pair of
changes, such as a password and a rename, by one process or two, with one thing
going wrong at any point, from no profile or an old one; processes, names, identities and passwords are
interchangeable (symmetry, safety only).  What needs three changes or two faults was looked at
once and is described with the module.  `calls`: a second friend is there so that operations about
different friends meet at the locks; two calls by friends give one after the other
for the same friend, so that a late signal is about the wrong call.
`camera`: with four subscriptions of two users each can leave and come back while the slots of the
first time are still queued, and the two choices are a device and another one, or none, at any time.

`CHECK_DEADLOCK FALSE` is in every configuration: all counters are bounded, so a run may come
to a state where everything has been used up, and in `CoreFile` and `CoreAV` the program may
have crashed.  The deadlock that matters, of the two locks of `CoreAV`, is looked for by
`OperationsReturn` and `NoDeadlock`, that of `CameraSource` by `DeviceThreadStops`.

**Fairness.**

- `delivery`: weak fairness of the GUI thread's steps, of `FriendAnnouncesStatus`,
  `ReceiptArrives` and `PeerReceives`: event loops run, a connected friend sends its status
  once (toxcore does this on every connection; `announced`), and a live channel delivers.
  Connections come and go freely, and nobody has to send.  `EventuallySettled` is about behaviours in
  which the friend stays connected from some time on, toxcore refuses nothing and no signal is
  dropped: a refused message, and one whose receipt or whose friend's status was dropped, waits for the
  next connection, which is the code's behaviour.  A message is settled, too, when it was displaced.
- `persistence`: the DB thread and the GUI handler it may be in go on.  User, friend and
  crashes are free.
- `transfers_avatars`: weak fairness of `Handle`, the GUI event loop, only.
- `ipc_liveness`: time passes and a process that can run does.  Users and crashes are free; no user has
  to close a dialog, so both properties are released while one is open.
- `calls`: a thread that is in an operation and not blocked goes on.  For the GUI and the Core thread
  the fairness is strong, since the CoreAV thread takes and leaves `callsLock` for every picture: it
  has the lock for a moment, some thirty times a second, and `QReadWriteLock` wakes those
  who wait.  `OperationsReturn` excepts the one deadlock there is, by an explicit description of it
  (`LockOrderDeadlock`), so that any other would be found.
- `camera`: the stream thread and the destructor go on, which takes a device that delivers frames.
  The fairness of the device thread is strong, since the stream thread locks `streamMutex`
  again at once after every frame: `QReadWriteLock` lets no new reader in while a writer waits.

**Excuses in the properties**, and what they stand for: `RowIdsFresh` and `unrecorded` (above);
`Excused`, `renamed` and `lost` in `Profile`, and `Apart` in `CoreFile` (with the modules);
`StaleOnlyBeforeBreak` allows for a status change still to be handled, and like `ItemsSettle` for
the crash of a ghost; `ItemsSettle` does not speak of files that a status has `dropped`, nor of an item that
shows our avatar (both with the module); `PausedAsToxcore` holds when toxcore refuses no control, since
`pauseResumeFile` ignores the result; `UiFollowsCalls` does not speak of `raced` friends, since
signals do not say which call they are about, nor of those whose automatic answer failed, whom the form
goes on showing in a call (`chatform.cpp:318`).

## What disagrees with the code's own words

Three runs take a sentence from a comment or a header and show a behaviour of the code that
contradicts it.

| Run | The words | The behaviour |
|---|---|---|
| `persistence_lost_completion` | `chathistory.h:66-74`: a message that completes early is in one container, one that is inserted early in the other | Each thread looks before the other inserts; the message is in both, stays pending, and is sent again after a restart. |
| `profile_save_after_logout` | `profile.cpp:845`: "It is invalid to call loadToxSave or saveToxSave on a deleted profile", asserted at `:487` | The Core of a profile that was logged out or removed runs on behind the login screen, and its save request finds no lock: qTox aborts. |
| `calls_frames_dropped` | `coreav.h:126-127`: frames are dropped "as the cancel call request was sent" | A call that the friend ended first leaves `isCancelling` set, and the frames of later calls are dropped. |

More statements of this kind are defined in the modules and refuted by TLC when named in a
configuration.  They concern the same mechanisms, or are matters of degree, and are kept as
definitions only:

| Module | Definition | To see it violated |
|---|---|---|
| `MessageDelivery` | `SentOncePerConnection` | 2 messages, 2 parts, 2 sessions, no refusals, `OfflineIds = {}` |
| `MessageDelivery` | `NothingDisplaced`: `offlinemsgengine.cpp:41-48` says that a sent message is resent "if the friend goes offline then comes back before the receipt is received"; one whose entry was overwritten by another of the same number is not, and stays undelivered in the chat log | the constants of `delivery` |
| `MessageDelivery` | `MarkedHadArrived`: a receipt for a message marks another one of the same number, which has not arrived, as received | the constants of `delivery` |
| `MessageDelivery` | `StoredArrivesOnce`: `tox_offline_msg.h:69` has an id "for deduplication"; no receipt comes for a stored message, which is sent again on the next connection, and `Core::onFriendOfflineMessage` ignores the id | the constants of `delivery` with 1 message and 1 part |
| `ChatPersistence` | `NoDatabaseCallInCallback` | the constants of `persistence_lost_completion` |
| `CoreFile` | `OnlyAvatarsUnasked`: `corefile.cpp:404` says "It's an avatar ..., autoaccept the transfer"; the number of a queued avatar offer has become that of a data file, which is accepted without asking and filed as an avatar | the constants of `transfers_avatars` |
| `CoreFile` | `DropsOnlyBroken`: `corefile.cpp:580` says "Actually resume broken file transfers"; a status Online or Away takes a transfer that toxcore goes on with out of `fileMap`, and its item stays live for ever | the constants of `transfers_avatars`, as a `PROPERTY` |
| `CoreFile` | `UiKnowsWePaused`, `ItemPerRow`, `MarkedFriendHasAvatar`, `IdleWithoutTransfers` | the first two with the constants of `transfers`, the last two with those of `transfers_avatars` |
| `IPC` | `DoneOnlyIfHandled`: `appmanager.cpp:334` says "If someone else processed it, we're done here"; the creator of the memory clears it after a first event, a second one gets the same time, and the first sender takes its acceptance for its own | the constants of `ipc` |
| `IPC` | `HandledByOne`: `ipc.cpp:345-346` says "Global events should be processed only by instance that accepted event"; one that crashes in the dialog of "uri" has not marked the event, which the next owner handles again | the constants of `ipc` |
| `IPC` | `LimitedToProfileItRuns`: `ipc.cpp:332` says "Non-main instance is limited to events destined for specific profile it runs"; one whose user has logged out keeps the id of its last profile and the handler of "uri" | the constants of `ipc` |
| `IPC` | `HandlersAreBrief`: `ipc.cpp:194` says that a handler "Should not block for more than a second, at worst"; that of "uri" shows a modal dialog, and nobody gets the memory meanwhile | the constants of `ipc` |
| `IPC` | `ImmediateOwnership`, `OwnershipOnlyAfterTimeout`, `OwnershipOnlyFromDead`, `HandledHereOnlyIfNotThere` | the constants of `ipc` |
| `Profile` | `RemovedPermanently`: `profile.cpp:842` says "Removes the profile permanently"; the backup of the salt upgrade, with the whole history, is left | the constants of `profile` |
| `CoreAV` | `AnswerFindsCall`, `NoDeadlock` | the constants of `calls` |
| `CameraSource` | `SwitchesDevice`: `camerasource.cpp:252` says "the source will seamlessly switch to the new device"; chosen while nobody uses the camera and its `closeDevice` is still queued, the new device is not opened for who subscribes next: the old one stays on, even if *none* was chosen | the constants of `camera` |
| `CameraSource` | `StartsStreaming`: `videosource.h:32` says "If subscribe successfully opens the source, it will start emitting frameAvailable signals"; a stream thread that has left its loop but whose future still runs is kept, and nobody reads the new device | the constants of `camera` |
| `CameraSource` | `DeviceThreadStops`: `camerasource.cpp:295` says "Stop the device thread"; the destructor holds both locks and waits for a slot that waits for one of them, so qTox does not end | the constants of `camera`, as a `PROPERTY` |

## The proofs

Thirty-eight theorems, in eight modules, hold for every value of the constants.  Every invariant
and every action property that a passing run checks is stated by one of them.  They rest on the
named assumptions of the modules and on the theorems about sequences, finite sets and functions of
the proof library.  The assumptions:

- the bounds are natural numbers, and so are `OfflineIds`; files are not messages;
- the values that stand for nothing (`Nobody`, `NoName`, `NoFile`, `Absent`, `NoProfile`, ...) are no
  process, name, file or object;
- users, processes of `IPC` and file numbers are finitely many;
- numbers that we give out and numbers that the friend gives out differ, as they do in toxcore
  (`RecvNums`, `SendNums`), and 0, which `fileMap`'s default entry has, is one of ours;
- for `IPC`, `QueueSize` and `OwnershipTimeout` are positive and the clock, which counts
  seconds since 1970, is past the latter.

Five of them state what no run lists again.  `CompletedHadArrived` follows from `PromiseKept`,
which the run `delivery` checks; `RowOfItsMessage`, `SubscriptionsCounted` and the type
invariants of `MessageDelivery` and `CameraSource` are parts the other proofs rest on.

**`MessageDeliveryProofs`** (any number of messages, parts, connections, refusals, lost signals, stored
ids and receipt numbers, colliding in any way).  `IInv` of `MessageDelivery` is the conjunction of the
safety invariants and of what makes them inductive:

- `LinkKnown`, `SentSubmitted`: what is under way was sent, and what was sent was submitted;
- `ReceiptsAttributed`: a message waits for a number that *it* was the last to be given, and nobody
  waits for a receipt that has come;
- `ReceiptsEarned`: a receipt in flight, in the GUI's queue or put by is for a message that has arrived.
  With the previous one: what it completes has arrived, or had its number after another message;
- `StampsPast`: stamps lie in the past, so a message that enters the engine is the latest;
- `OneHandler`: the send loop and the resend loop exclude each other, so a resent message
  never overtakes a new one.

`NoMessageLost` alone is not inductive: without `HeldOnce` a receipt may take a message out
of one place and leave it in another.  The lemmas first say what each operation does to the
set of held messages (`AddSentHolds`, `ReceiptReleases`, `SendHolds`, ...), and the steps
then use only that; `SendHolds` has three outcomes, unsent, waiting (perhaps in the place of
another message) and completed by a receipt that was there first.  The theorems: `NoMessageLostHolds`,
`HeldOnceHolds`, `CompletedHadArrivedHolds`, `HeldInSendingOrderHolds`, `TypeOKHolds`;
`NeverSentAgainHolds`, an action property, from `IInv`: what is sent comes from the messages held or is
new.  `PromiseKeptHolds` is the refinement: `Spec` implies `Delivery!Spec` under the mapping of
`Promise`, in which `confirmed` is `Confirmed` and `abandoned` is what was discarded or displaced.
Every step is one of the abstract steps or a stutter: `DispatchPart` submits, perhaps displacing one message;
`ResendNext` displaces one, confirms one whose receipt came first, or neither; the peer's steps let one arrive,
`OnReceiptReceived` confirms (or stutters when the receipt is unknown or the message clashes), and
`ClearOutgoingMessages` abandons what is held.

**`IPCProofs`** (any number of processes, profiles and slots, any timeouts, crashes and
takeovers).  `HandledOnceHolds`: a second instance handles an event only after a crash in its handler.
The invariant says what others did with an event that is not marked (`Unfinished`): nothing, or they
crashed in the handler, or they are in it, which can be said of one slot only since a handler holds the lock (`MemoryInv`).
It needs that events have different senders and that a sender has been at `postEvent` (`SendersInv`).
`EventTimesDistinctHolds`: times identify the events in the
memory, because `lastEvent` is at least every time given out (`TimesInv`) and is cleared only
together with the events.  `LeavesOnlyIfHandledHolds`, an action property, rests on this: until the memory is
zeroed, the slot with the time that a waiting process was given has that process's event, and a marked event was
handled by another one (`LeaveInv`).  `DoneOnlyIfHandled` is about the case when it is zeroed.  `TypeOKHolds` bounds the times:
`lastEvent` runs ahead of the clock by at most one second for each process that has posted (`BoundInv`),
since `postEvent` takes the next second when two events fall into one.

**`CoreAVProofs`** (any set of friends, any number of calls).  `TypeOKHolds`: besides types,
`callsLock` is held for writing exactly by a thread between its two locks, and `coreLock`
exactly by the Core thread in a callback or the GUI thread in `avEnd`; no operation
returns with a lock.  `CallsFollowToxavHolds`: CoreAV's calls are toxav's outside callbacks.  The
invariant adds what each thread can be doing (`ThreadInv`) and what a callback in progress
is about to tell (`CallbackInv`): while the Core thread holds `coreLock` nobody else changes
toxav, so the state it was called for is still the state when it gets `callsLock`.

`UiFollowsCallsHolds` is proved from a second invariant, `ShownInv`.  The property is about an empty
queue; `WillShow` says of any queue what the form will show once it is handled: the sets `counting`
and `callConfirm` are, for each friend, what the last signals about that friend make of them.  It holds
except while the GUI thread is in an operation about the friend, when `ActedOn` says how far that has got.
For friends who are answered automatically the answer is still on its way (`AnswerDue`).  Only
`raced` friends are left out.

**`ProfileProofs`** (any number of processes, names and identities, whatever is changed, crashes or
fails).  `ExclusiveUseHolds`: two processes run one profile only if somebody deleted a lock
file.  `TakenOnlyUnlockedHolds`: a name that another process uses is taken only in the windows
in which the code has given up the lock.  The invariant says which lock a process has at each
place of its GUI thread (`PlacesInv`: its own name, or the new one from `renameProfile` on)
and that every process finds its own lock file (`LocksSound`) until one is deleted.  That `lock` takes the new
file before it releases the old one is what the lemma `LockTaken` needs.  The theorems do not
depend on what the database does, which the lemmas about its steps say (they leave locks,
names and places alone).  `TypeOKHolds` adds what the database thread may be at: `DbInv` says that it is at
work only for a profile that is running, and that whoever runs a profile has its database object.

**`ProfileHistoryProofs`** (the same, for what becomes of the histories).  Four invariants, of
which the last two rest on the first two:

1. `NamesInv`: who uses which names.  Two processes use a name only if both identities are
   `shared` (`ApartInv`); a `.tox` file under a used name is its user's (`ToxApartInv`); an identity that is
   not shared is under one name and in one process (`OnceInv`); an unused one is nowhere (`UnusedInv`).
   It is what makes the rest a matter of one process: `Step` says which files a step of `p` may change
   and whose histories it may put there, and `OthersFiles` concludes that the files of every
   identity not shared stay as they are.  Each action is shown to be a `Step` once.
2. `KeptInv`: the history of a profile that runs is under the path of its database, as the database
   or, where that is absent, as the export (`Has`, the rule by which `commitDbSwap` recovers);
   that of one that does not run is under the name of its `.tox` file.  With what files exist at each step of
   an export (`DbThere`) this is inductive and gives `HistoryKeptHolds`.
3. `LocInv`: the history is nowhere else, in no database and in no export but the one that is
   about to be swapped in (`HasExport`).  It gives `NoForeignHistoryHolds` and `NothingLeftToOpenHolds`.
4. `KeyInv`: the keys.  The worker thread's key is that of the profile, with the new or the old salt
   (`WorkKeys`); by what the process is at, the file has that key, the key in memory, or neither
   (`KeyAt`); a profile at rest has a database that the password of its `.tox` file opens, with no
   old export where the next upgrade would put one (`KeyIdle`).  A database that is not of the latest version
   has a password (`FilesInv`): without that the upgrade of a database that is not
   encrypted would have to be followed too, which the code never does.  It gives
   `HistoryFoundAgainHolds` and `HistoryOpensHolds`.

`KeyInv` was first checked by TLC with the constants of `profile`.

**`CoreFileProofs`** (any files, numbers and bounds; pauses, refusals, losses and avatars at any time).
The invariant is one formula for each file number, `TransferInv`, and one for what the chat log
shows of it, `UiInv`, beside types and `OfferInv` (no avatar is being handled before one was offered):

- `MatchInv`: what CoreFile and toxcore both have under a number is the same file;
- `PauseInv`: they agree about pauses, if no control was refused, and about which transfers have begun;
- `OpenInv`: a file that is received is open, so a chunk never meets a null `QFile`;
- `SentInv`: progress is at most toxcore's position, so a file is finished only when it is through;
- `StaleInv`: a transfer that toxcore has given up is one that the loop has yet to break;
- `FinishedInv`: what a queued event will show as finished has arrived.

`UiInv` generalises `UiFollowsCoreFile` to any queue (`Follows`): the last event about the number
shows the transfer as CoreFile has it, or there is none and the chat log does; and there will be an item to show
it on (`ItemIn`), since an event about a number without an item is dropped.  Four lemmas
(`FollowsAppendOther`, `FollowsAppendOwn`, `FollowsPopOther`, `FollowsPopOwn`) are all that is
needed of the queue.  An action concerns the transfer of one number, or of the few numbers it breaks: `StepOn`
says what it leaves alone, `StepKeeps` that this is enough.  Theorems: `TypeOKHolds`,
`UiFollowsCoreFileHolds`, `StaleOnlyBeforeBreakHolds`, `FinishedWasDeliveredHolds`, `PausedAsToxcoreHolds`, and for
steps `ChunksOfTheirFileHolds`.

**`ChatPersistenceProofs`** (any number of messages, files, crashes, switches and erasures).  The
invariant `IInv` has, besides types and `UndeliveredStaysPending`:

- `RowsDense`: row ids are given out without gaps, so the row that the callback was told is still
  the next one when the insertion is committed;
- `InsertedOnce`: a message or file that has begun is in at most one of three places (queue,
  callback, table), which makes `OneRowPerMessage` inductive;
- `CompletedAcked`: what counts as completed was acknowledged, so that a callback which finds its
  message completed marks only what may be marked;
- `RowsOfMessages`: the row that `completeMessage` has looked up is still there when it uses it,
  and every row in `dispatchedMessageRowIdMap` and in a queued delivery is the right one, until
  rows are erased;
- `ErasureInv`: while the GUI thread waits in `execNow`, nothing behind the erasure in the queue
  inserts anything (the callback may still queue a delivery there);
- `FileInv`: a file's row says "canceled" while the transfer runs, and afterwards its result is in
  the row, on the way to it, or was never recorded.

`UndeliveredStaysPending` needs `RowsOfMessages` (a delivery takes the row of an acknowledged
message), which needs `CompletedAcked`; both need to know that rows stay (`RowsStay`), which holds
as long as no erasure was asked for.  From these follow `TypeOKHolds`, `OneRowPerMessageHolds`,
`UndeliveredStaysPendingHolds`, `RowOfItsMessageHolds`, `FileResultRecordedHolds`, and for steps
`ErasedForGoodHolds`.

**`CameraSourceProofs`** (any number of users, devices, subscriptions and choices).  The invariant
says where the subscriptions are (`CountInv`: in `subscriptions`, or in `saved` while `setupDevice` closes
the device by force), that an open device without users has a `closeDevice` in the queue or
running, and that one that is being opened has it in the queue (`CloseInv`), and that a device that is
wanted and not open has an `openDevice` in the queue or running, or `setupDevice` (`OpenInv`).
`CloseInv` needs `CountInv`, because `closeDevice` must find 0 exactly when nobody is left; neither follows from
the locks alone, since `openDevice` and `closeDevice` read `subscriptions` without `deviceMutex`.  `LockInv`
adds what the destructor holds.  The theorems: `CameraFollowsUseHolds`,
`SubscriptionsCountedHolds`, `TypeOKHolds`, and for steps `DeviceKeptWhileReadHolds`.

**What stays with TLC** is liveness: `EventuallySettled`, `EraseReturns`, `ItemsSettle`, `OwnerEventually`,
`WaitEnds`, `OperationsReturn` and `CameraReleased`.  Their proofs need to know when an action is
enabled, and the prover does not reason about ENABLED.  No recursive operator is used anywhere, and
no proof is by induction over data: the queue lemmas speak of the first and the last element only.

## What is not modelled

- Of message delivery: typing notifications, actions as distinct from messages, broken
  messages (the engine reports success only), conference messages.
- Of persistence: received messages, system messages, searching, statements that fail, a
  full disk.
- Of profiles and their databases: what is listed with the modules above.
- Of transfers: speed, hashes, disk errors other than a failed read, several friends.
- Of IPC: `QSharedMemory` failing to attach or lock, a handler that refuses an event, the
  case of two processes with the same random `globalId`, logging out from the tray while the dialog of "uri" is
  open (`~Widget` would lock `eventHandlersMutex` a second time in the same thread), and that the dialog keeps a
  reference to the `Core` of the first profile (`appmanager.cpp:382`).
- Of calls: sending audio, what toxav does with a picture, muting, video being switched during a call, conference
  calls, the destructor of `CoreAV`.  `CoreAV::timeoutCall` has no caller (it would lock
  `callsLock` twice).
- Of the camera: the reference counts and options of `CameraDevice`, the tracking of `VideoFrame`s
  by their source, `CoreVideoSource`, `VideoSurface`, and what happens to a stream thread that
  outlives the destructor (`camerasource.cpp:300`).
- toxcore, SQLite, Qt's event loop and the peers are external: they are modelled from what the code
  relies on.
- The components marked *planned* and *not modelled* in the table above; the reasons for each
  are in `PROJECT.json`.

## Plan

Order of what is still to come, the most important behaviour first.

1. **`CoreAV`** completed: sending audio, conference calls, the destructor (which blocks on the thread whose queued
   calls it deletes).
2. **`ChatWindow`**: indices of `ChatHistory` and `SessionChatLog` against loading and new
   messages; a reference definition as operators.
3. **`Settings`** saves against profile switches, which would join `Profile`; the frames that `VideoFrame` tracks;
   the tolerance counter of `Core`.
4. Statements that fail: `compileAndExecute` leaves its transaction open
   (`rawdatabaseimpl.cpp:706`), and every later one fails.

To keep the whole checkable in minutes, a new component replaces the weakest run of an old one or
is merged into one: the runs stay few.

Theorems planned: with every new component its invariants, from the first on; an abstract promise for
file transfers, like `Delivery` for messages (what the chat log shows as sent arrived), with `CoreFile` shown to
implement it as `Promise` does for `MessageDelivery`; the history of *strayed* profiles, for
which `LocInv` has to follow a database under a name that its owner does not have.
