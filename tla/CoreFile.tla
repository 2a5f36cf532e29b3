------------------------------- MODULE CoreFile -------------------------------
(* The file transfers with one friend:                                         *)
(*                                                                             *)
(*   Core thread   tox_iterate, which runs CoreFile's callbacks with           *)
(*                 coreLoopLock held                                           *)
(*   GUI thread    the buttons of the transfers in the chat log, which call    *)
(*                 CoreFile with coreLoopLock held; the queued signals of      *)
(*                 CoreFile, handled by Widget::dispatchFile; and two handlers *)
(*                 that change fileMap without the lock, step by step here:    *)
(*                 onConnectionStatusChanged and handleAvatarOffer             *)
(*   toxcore       the transfers themselves and the friend (external)          *)
(*                                                                             *)
(* A transfer is known by its number, which toxcore uses again once the        *)
(* transfer has ended; the contents of a transfer are a member of Files.       *)
(* The data race on fileMap is modelled by its interleavings alone.            *)
EXTENDS Naturals, Sequences, FiniteSets

CONSTANTS
    RecvFiles,        \* files the friend offers
    Avatars,          \* avatars the friend offers
    SendFiles,        \* files the user sends
    OwnAvatar,        \* the user's avatar
    NoFile,           \* the contents of a default-constructed ToxFile
    AutoAccept,       \* the offered files that the settings accept by themselves
    RecvNums,         \* file numbers of incoming transfers
    SendNums,         \* file numbers of outgoing transfers
    Zero,             \* file number 0, the one of a default-constructed ToxFile
    Size,             \* chunks in a file
    MaxPauses,        \* bound: presses of pause or resume, on either side
    MaxStatusChanges, \* bound: statuses the friend announces
    MaxLosses,        \* bound: connections lost
    MaxRefusals,      \* bound: calls toxcore refuses because a queue is full
    MaxEvents,        \* bound: events waiting in the GUI thread's queue
    AvatarSentBefore  \* whether the friend has our avatar at the start

Nums  == RecvNums \union SendNums
Files == RecvFiles \union Avatars \union SendFiles \union {OwnAvatar}

ASSUME CoreFileAssumption ==
    /\ RecvNums \intersect SendNums = {} /\ Zero \in SendNums
    /\ IsFiniteSet(Nums)
    /\ NoFile \notin Files /\ AutoAccept \subseteq RecvFiles
    /\ {Size, MaxPauses, MaxStatusChanges, MaxLosses, MaxRefusals, MaxEvents}
         \subseteq Nat
    /\ AvatarSentBefore \in BOOLEAN

VARIABLES
    tox,         \* toxcore: the transfers alive, by number
    connected,   \* toxcore: the connection to the friend
    delivered,   \* toxcore: files that arrived whole, at either end
    fileMap,     \* CoreFile::fileMap
    events,      \* the event queue of the GUI thread
    gui,         \* the handler the GUI thread is in
    items,       \* the transfers in the chat log, in order
    currentFileTransfers, \* SessionChatLog: the item of each live transfer
    rows,        \* History: the file transfers added to it, in order
    friendsSentTo,        \* AvatarBroadcaster: whether the friend has our avatar
    dropped,     \* files that a status other than Offline took out of fileMap as TRANSMITTING
    unused,      \* files not offered or sent yet
    pauses, statusChanges, losses, refusals  \* bounds used up

toxVars   == <<tox, connected, delivered>>
guiVars   == <<gui, items, currentFileTransfers, rows, friendsSentTo, dropped>>
bounds    == <<pauses, statusChanges, losses, refusals>>
vars      == <<toxVars, fileMap, events, guiVars, unused, bounds>>
-----------------------------------------------------------------------------
Live == {"INITIALIZING", "PAUSED", "TRANSMITTING"}
Complete == {"BROKEN", "CANCELED", "FINISHED"}

\* toxcore's side of a new transfer.
NewTransfer(f) == [file |-> f, running |-> FALSE, us |-> FALSE, peer |-> FALSE, pos |-> 0]

\* The ToxFile constructor; avatar is its fileKind, and acceptFileRecvRequest opens it.
NewToxFile(f, n, avatar) ==
    [file |-> f, num |-> n, avatar |-> avatar, status |-> "INITIALIZING",
     local |-> FALSE, remote |-> FALSE, sent |-> 0, open |-> FALSE]

\* What fileMap[key] makes of a key that is not there: file number 0, no QFile.
DefaultToxFile == NewToxFile(NoFile, Zero, FALSE)

Paused(file) == file.local \/ file.remote

\* A queued signal of CoreFile carries a copy of the ToxFile.
FileEvent(file) ==
    [is |-> "file", file |-> file.file, num |-> file.num, status |-> file.status,
     local |-> file.local]
StatusEvent(offline) == [is |-> "status", offline |-> offline]
OfferEvent(f, n) == [is |-> "offer", file |-> f, num |-> n]

Without(f, n) == [m \in DOMAIN f \ {n} |-> f[m]]
Put(f, n, v) == [m \in DOMAIN f \union {n} |-> IF m = n THEN v ELSE f[m]]

\* Emitting a signal of CoreFile.  One about a default-constructed ToxFile is about
\* friend 0, and one about an avatar is left out where the code does not emit it.
Emit(file) == events' = IF file.file = NoFile THEN events ELSE Append(events, FileEvent(file))
EmitData(file) == IF file.avatar THEN UNCHANGED events ELSE Emit(file)

\* addFile (or a change of the file that findFile returned), and removeFile.
Store(n, file) == fileMap' = Put(fileMap, n, file)
RemoveFile(n) == fileMap' = Without(fileMap, n)

\* A default-constructed ToxFile in fileMap has no QFile: using that one is a crash.
NullFile(n) == n \in DOMAIN fileMap /\ fileMap[n].file = NoFile

\* A file control or chunk that toxcore would take can be refused: TOX_ERR_..._SENDQ.
Taken(t) == tox' = t /\ UNCHANGED refusals
RefusedLeaving(t) == refusals < MaxRefusals /\ refusals' = refusals + 1 /\ tox' = t
Refused == RefusedLeaving(tox)

\* Which PAUSE and RESUME controls toxcore takes; a CANCEL needs only the transfer.
PauseAllowed(n) == n \in DOMAIN tox /\ tox[n].running /\ ~tox[n].us
ResumeAllowed(n) == /\ n \in DOMAIN tox
                    /\ IF tox[n].running THEN tox[n].us ELSE n \in RecvNums
Resumed(n) == [tox EXCEPT ![n].running = TRUE, ![n].us = FALSE]
Room == Len(events) < MaxEvents
-----------------------------------------------------------------------------
(* GUI thread, with coreLoopLock. *)

\* The user presses a button of a transfer that the chat log shows as live.
Button(n) == gui.in = "events" /\ Room /\ n \in DOMAIN currentFileTransfers
Item(n) == items[currentFileTransfers[n]]

\* sendFile.  A refused tox_file_send only shows a notice.
SendFile(f, n) ==
    /\ gui.in = "events" /\ Room
    /\ f \in unused \intersect SendFiles /\ connected /\ n \in SendNums \ DOMAIN tox
    /\ tox' = Put(tox, n, NewTransfer(f))
    /\ Store(n, NewToxFile(f, n, FALSE))
    /\ Emit(NewToxFile(f, n, FALSE))
    /\ unused' = unused \ {f}
    /\ UNCHANGED <<connected, delivered, guiVars, bounds>>

\* Mutant: the control follows from whether the transfer is paused, not from who paused it.
PauseResumeFileByEither(n) ==
    LET toggled == [fileMap[n] EXCEPT !.local = ~fileMap[n].local]
        changed == [toggled EXCEPT !.status = IF Paused(toggled) THEN "PAUSED" ELSE "TRANSMITTING"]
    IN /\ Button(n) /\ pauses < MaxPauses
       /\ n \in DOMAIN fileMap /\ fileMap[n].status \in {"TRANSMITTING", "PAUSED"}
       /\ Store(n, changed) /\ Emit(changed)
       /\ pauses' = pauses + 1
       /\ tox' = IF Paused(changed)
                 THEN IF PauseAllowed(n) THEN [tox EXCEPT ![n].us = TRUE] ELSE tox
                 ELSE IF ResumeAllowed(n) THEN Resumed(n) ELSE tox
       /\ UNCHANGED <<connected, delivered, guiVars, unused, statusChanges, losses, refusals>>

\* Mutant: the signal is emitted with the status the transfer had.
PauseResumeFileLate(n) ==
    /\ Button(n) /\ pauses < MaxPauses
    /\ n \in DOMAIN fileMap /\ fileMap[n].status \in {"TRANSMITTING", "PAUSED"}
    /\ Store(n, [fileMap[n] EXCEPT !.local = ~@, !.status = IF fileMap[n].local THEN "TRANSMITTING"
                                                                             ELSE "PAUSED"])
    /\ Emit(fileMap[n])
    /\ pauses' = pauses + 1
    /\ UNCHANGED <<toxVars, guiVars, unused, statusChanges, losses, refusals>>

\* pauseResumeFile
PauseResumeFile(n) ==
    LET file == fileMap[n]
        toggled == [file EXCEPT !.local = ~file.local]
        changed == [toggled EXCEPT !.status = IF Paused(toggled) THEN "PAUSED"
                                                                 ELSE "TRANSMITTING"]
    IN /\ Button(n) /\ pauses < MaxPauses
       /\ n \in DOMAIN fileMap /\ file.status \in {"TRANSMITTING", "PAUSED"}
       /\ Store(n, changed)
       /\ Emit(changed)
       /\ pauses' = pauses + 1
       /\ IF file.file = NoFile
          THEN UNCHANGED <<tox, refusals>>     \* the control is for friend 0
          ELSE IF changed.local
          THEN IF PauseAllowed(n) THEN Taken([tox EXCEPT ![n].us = TRUE]) \/ Refused
                                  ELSE UNCHANGED <<tox, refusals>>
          ELSE IF ResumeAllowed(n) THEN Taken(Resumed(n)) \/ Refused
                                   ELSE UNCHANGED <<tox, refusals>>
       /\ UNCHANGED <<connected, delivered, guiVars, unused, statusChanges, losses>>

\* cancelFileSend and cancelFileRecv (rejectFileRecvRequest is the same).
CancelFile(n) ==
    /\ Button(n)
    /\ n \in DOMAIN fileMap /\ n \in DOMAIN tox /\ ~NullFile(n)
    /\ \/ /\ Taken(Without(tox, n))
          /\ Emit([fileMap[n] EXCEPT !.status = "CANCELED"])
          /\ RemoveFile(n)
       \/ Refused /\ UNCHANGED <<fileMap, events>>
    /\ UNCHANGED <<connected, delivered, guiVars, unused, pauses, statusChanges, losses>>

\* acceptFileRecvRequest.  QFile::open fails on a file that is open already.
AcceptFileRecvRequest(n) ==
    IF n \in DOMAIN fileMap /\ ~fileMap[n].open
    THEN \/ /\ ResumeAllowed(n) /\ Taken(Resumed(n))
            /\ Store(n, [fileMap[n] EXCEPT !.open = TRUE, !.status = "TRANSMITTING"])
         \/ /\ IF ResumeAllowed(n) THEN Refused ELSE UNCHANGED <<tox, refusals>>
            /\ Store(n, [fileMap[n] EXCEPT !.open = TRUE])
    ELSE UNCHANGED <<tox, refusals, fileMap>>

\* fileTransferAccepted, when the request was accepted.
EmitAccepted(queue, n) ==
    events' = IF n \in DOMAIN fileMap' /\ fileMap'[n].status # fileMap[n].status
              THEN Append(queue, FileEvent(fileMap'[n])) ELSE queue

AcceptFile(n) ==
    /\ Button(n) /\ Item(n).status = "INITIALIZING" /\ n \in RecvNums
    /\ n \in DOMAIN fileMap /\ ~fileMap[n].open /\ ~NullFile(n)
    /\ AcceptFileRecvRequest(n)
    /\ EmitAccepted(events, n)
    /\ UNCHANGED <<connected, delivered, guiVars, unused, pauses, statusChanges, losses>>
-----------------------------------------------------------------------------
(* GUI thread, the event queue. *)

\* SessionChatLog::onFileUpdated
UpdateChatLog(e) ==
    LET item == [file |-> e.file, num |-> e.num, status |-> e.status, local |-> e.local]
        known == e.num \in DOMAIN currentFileTransfers
        idx == IF known THEN currentFileTransfers[e.num] ELSE Len(items) + 1
    IN IF known \/ e.status = "INITIALIZING"
       THEN /\ items' = IF known THEN [items EXCEPT ![idx] = item] ELSE Append(items, item)
            /\ currentFileTransfers' = IF e.status \in Complete
                                       THEN Without(currentFileTransfers, e.num)
                                       ELSE Put(currentFileTransfers, e.num, idx)
       ELSE UNCHANGED <<items, currentFileTransfers>>

\* ChatHistory::onFileUpdated adds a row for a file that is INITIALIZING, and no other.
RowsAfter(e) == IF e.status = "INITIALIZING" THEN Append(rows, e.file) ELSE rows

\* An offer that the settings accept by themselves.
AcceptedByItself(e) ==
    e.status = "INITIALIZING" /\ e.num \in RecvNums /\ e.file \in AutoAccept

\* Such an offer, for a file number whose entry has no QFile.
AcceptsNullFile ==
    /\ gui.in = "events" /\ events # <<>> /\ Head(events).is = "file"
    /\ AcceptedByItself(Head(events)) /\ NullFile(Head(events).num)

\* Widget::dispatchFile, with the two onFileUpdated.
DispatchFile ==
    LET e == Head(events)
    IN /\ gui.in = "events" /\ events # <<>> /\ e.is = "file"
       /\ ~AcceptsNullFile
       /\ IF AcceptedByItself(e)
          THEN AcceptFileRecvRequest(e.num)
          ELSE UNCHANGED <<tox, refusals, fileMap>>
       /\ EmitAccepted(Tail(events), e.num)
       /\ UpdateChatLog(e)
       /\ rows' = RowsAfter(e)
       /\ UNCHANGED <<connected, delivered, gui, friendsSentTo, dropped, unused,
                      pauses, statusChanges, losses>>

\* Mutant: only the transfers that are running are broken.
ConnectionStatusChangedIfRunning ==
    /\ gui.in = "events" /\ events # <<>> /\ Head(events).is = "status"
    /\ gui' = [in |-> "status", keys |-> {n \in DOMAIN fileMap : fileMap[n].status = "TRANSMITTING"},
               status |-> IF Head(events).offline THEN "BROKEN" ELSE "TRANSMITTING"]
    /\ events' = Tail(events)
    /\ UNCHANGED <<toxVars, fileMap, items, currentFileTransfers, rows, friendsSentTo,
                   dropped, unused, bounds>>

\* onConnectionStatusChanged takes a snapshot of the keys and chooses the status.
ConnectionStatusChanged ==
    LET e == Head(events)
    IN /\ gui.in = "events" /\ events # <<>> /\ e.is = "status"
       /\ gui' = [in |-> "status", keys |-> DOMAIN fileMap,
                  status |-> IF e.offline THEN "BROKEN" ELSE "TRANSMITTING"]
       /\ events' = Tail(events)
       /\ UNCHANGED <<toxVars, fileMap, items, currentFileTransfers, rows, friendsSentTo,
                      dropped, unused, bounds>>

ClosesNullFile(n) ==
    /\ gui.in = "status" /\ n \in gui.keys
    /\ n \notin DOMAIN fileMap \/ NullFile(n)
    /\ n = Zero \/ NullFile(Zero)

\* Mutant: the signal is not emitted.
BreakFileSilently(n) ==
    /\ gui.in = "status" /\ n \in gui.keys /\ ~ClosesNullFile(n)
    /\ RemoveFile(n)
    /\ gui' = [gui EXCEPT !.keys = @ \ {n}]
    /\ UNCHANGED <<toxVars, events, items, currentFileTransfers, rows, friendsSentTo, dropped,
                   unused, bounds>>

\* One turn of its loop.  The Core thread may have removed the key meanwhile;
\* the signal is then about friend 0 and not shown in this chat.
BreakFile(n) ==
    LET found == IF n \in DOMAIN fileMap THEN fileMap[n] ELSE DefaultToxFile
        file  == [found EXCEPT !.status = gui.status]
    IN /\ gui.in = "status" /\ n \in gui.keys /\ ~ClosesNullFile(n)
       /\ fileMap' = Without(Put(fileMap, n, file), file.num)
       /\ Emit(file)
       /\ gui' = [gui EXCEPT !.keys = @ \ {n}]
       /\ dropped' = IF gui.status = "BROKEN" THEN dropped ELSE dropped \union {found.file}
       /\ UNCHANGED <<toxVars, items, currentFileTransfers, rows, friendsSentTo, unused, bounds>>

\* AvatarBroadcaster::sendAvatarTo, connected to the same signal, and sendAvatarFile.
SendAvatarTo ==
    /\ gui.in = "status" /\ gui.keys = {}
    /\ gui' = [in |-> "events"]
    /\ IF friendsSentTo \/ ~connected
       THEN UNCHANGED <<tox, refusals, fileMap, friendsSentTo, unused>>
       ELSE /\ friendsSentTo' = TRUE
            /\ unused' = unused \ {OwnAvatar}
            /\ \/ \E n \in SendNums \ DOMAIN tox :
                    /\ Taken(Put(tox, n, NewTransfer(OwnAvatar)))
                    /\ Store(n, NewToxFile(OwnAvatar, n, TRUE))
               \/ /\ SendNums \subseteq DOMAIN tox
                  /\ UNCHANGED <<tox, refusals, fileMap>>
    /\ UNCHANGED <<connected, delivered, events, items, currentFileTransfers, rows, dropped,
                   pauses, statusChanges, losses>>

\* Profile::onAvatarOfferReceived and handleAvatarOffer: reject or resume, ...
AvatarOfferReceived ==
    LET e == Head(events)
    IN /\ gui.in = "events" /\ events # <<>> /\ e.is = "offer"
       /\ events' = Tail(events)
       /\ \/ /\ IF e.num \in DOMAIN tox THEN Taken(Without(tox, e.num)) \/ Refused
                                        ELSE UNCHANGED <<tox, refusals>>
             /\ UNCHANGED gui
          \/ /\ ResumeAllowed(e.num) /\ Taken(Resumed(e.num))
             /\ gui' = [in |-> "offer", num |-> e.num, file |-> NoFile]
          \/ /\ IF ResumeAllowed(e.num) THEN Refused ELSE UNCHANGED <<tox, refusals>>
             /\ UNCHANGED gui
       /\ UNCHANGED <<connected, delivered, fileMap, items, currentFileTransfers, rows,
                      friendsSentTo, dropped, unused, pauses, statusChanges, losses>>

\* ... get the file id, and return when toxcore has no such transfer any more, ...
GetAvatarId ==
    /\ gui.in = "offer" /\ gui.file = NoFile
    /\ gui' = IF gui.num \in DOMAIN tox THEN [gui EXCEPT !.file = tox[gui.num].file]
                                        ELSE [in |-> "events"]
    /\ UNCHANGED <<toxVars, fileMap, events, items, currentFileTransfers, rows,
                   friendsSentTo, dropped, unused, bounds>>

\* ... and add the file as an avatar, whatever it is.
AddAvatar ==
    /\ gui.in = "offer" /\ gui.file # NoFile
    /\ Store(gui.num, NewToxFile(gui.file, gui.num, TRUE))
    /\ gui' = [in |-> "events"]
    /\ UNCHANGED <<toxVars, events, items, currentFileTransfers, rows, friendsSentTo,
                   dropped, unused, bounds>>
-----------------------------------------------------------------------------
(* Core thread: what the friend and the connection do, with the callbacks.     *)

FriendConnects ==
    /\ ~connected /\ gui.in # "crashed" /\ connected' = TRUE
    /\ UNCHANGED <<tox, delivered, fileMap, events, guiVars, unused, bounds>>

\* The friend announces a status: after it connects, and whenever it changes.
FriendStatus ==
    /\ connected /\ Room /\ statusChanges < MaxStatusChanges
    /\ statusChanges' = statusChanges + 1
    /\ events' = Append(events, StatusEvent(FALSE))
    /\ UNCHANGED <<toxVars, fileMap, guiVars, unused, pauses, losses, refusals>>

\* Losing the connection ends every transfer in toxcore.
FriendDisconnects ==
    /\ connected /\ Room /\ losses < MaxLosses
    /\ connected' = FALSE
    /\ tox' = <<>>
    /\ losses' = losses + 1
    /\ events' = Append(events, StatusEvent(TRUE))
    /\ UNCHANGED <<delivered, fileMap, guiVars, unused, pauses, statusChanges, refusals>>

\* Mutant: a file that has the number already is kept, and the offer ignored.
FileReceiveIfNew(f, n) ==
    /\ connected /\ Room /\ f \in unused \intersect RecvFiles
    /\ n \in RecvNums \ DOMAIN tox
    /\ tox' = Put(tox, n, NewTransfer(f))
    /\ unused' = unused \ {f}
    /\ IF n \in DOMAIN fileMap
       THEN UNCHANGED <<fileMap, events>>
       ELSE Store(n, NewToxFile(f, n, FALSE)) /\ Emit(NewToxFile(f, n, FALSE))
    /\ UNCHANGED <<connected, delivered, guiVars, bounds>>

\* onFileReceiveCallback
FileReceive(f, n) ==
    /\ connected /\ Room /\ f \in unused \intersect (RecvFiles \union Avatars)
    /\ n \in RecvNums \ DOMAIN tox
    /\ tox' = Put(tox, n, NewTransfer(f))
    /\ unused' = unused \ {f}
    /\ IF f \in Avatars
       THEN /\ events' = Append(events, OfferEvent(f, n))
            /\ UNCHANGED fileMap
       ELSE /\ Store(n, NewToxFile(f, n, FALSE))
            /\ Emit(NewToxFile(f, n, FALSE))
    /\ UNCHANGED <<connected, delivered, guiVars, bounds>>

\* Mutant: the signal of a resumed transfer is not emitted.
FileControlSilently(n, file) ==
    IF n \in DOMAIN fileMap /\ file.status = "CANCELED"
    THEN Emit(file) /\ RemoveFile(n)
    ELSE /\ fileMap' = IF n \in DOMAIN fileMap THEN Put(fileMap, n, file) ELSE fileMap
         /\ UNCHANGED events

\* onFileControlCallback
FileControl(n, file) ==
    IF n \in DOMAIN fileMap
    THEN /\ Emit(file)
         /\ IF file.status = "CANCELED" THEN RemoveFile(n) ELSE fileMap' = Put(fileMap, n, file)
    ELSE UNCHANGED <<fileMap, events>>

\* A friend that already has an avatar cancels the offer, as handleAvatarOffer does.
PeerCancels(n) ==
    /\ n \in DOMAIN tox /\ Room /\ ~NullFile(n)
    /\ tox' = Without(tox, n)
    /\ delivered' = IF tox[n].file = OwnAvatar /\ ~tox[n].running
                    THEN delivered \union {OwnAvatar} ELSE delivered
    /\ FileControl(n, [fileMap[n] EXCEPT !.status = "CANCELED"])
    /\ UNCHANGED <<connected, guiVars, unused, bounds>>

\* The program crashes: in removeFile or acceptFileRecvRequest when the GUI thread gets there,
Crash ==
    /\ gui' = [in |-> "crashed"]
    /\ tox' = <<>> /\ connected' = FALSE
    /\ UNCHANGED <<delivered, fileMap, events, items, currentFileTransfers, rows, friendsSentTo,
                   dropped, unused, bounds>>

HandleNullFile == (AcceptsNullFile \/ \E n \in Nums : ClosesNullFile(n)) /\ Crash

\* or when a button, a chunk or the end of a transfer needs the QFile.
UseNullFile(n) ==
    /\ NullFile(n)
    /\ n \in DOMAIN tox \/ (n \in DOMAIN currentFileTransfers /\ gui.in = "events")
    /\ Crash

PeerPauses(n) ==
    /\ n \in DOMAIN tox /\ Room /\ tox[n].running /\ ~tox[n].peer /\ pauses < MaxPauses
    /\ tox' = [tox EXCEPT ![n].peer = TRUE]
    /\ pauses' = pauses + 1
    /\ FileControl(n, [fileMap[n] EXCEPT !.remote = TRUE, !.status = "PAUSED"])
    /\ UNCHANGED <<connected, delivered, guiVars, unused, statusChanges, losses, refusals>>

\* The friend accepts a file, or resumes one that it paused.
PeerResumes(n) ==
    /\ n \in DOMAIN tox /\ Room
    /\ IF tox[n].running THEN tox[n].peer ELSE n \in SendNums
    /\ tox' = [tox EXCEPT ![n].running = TRUE, ![n].peer = FALSE]
    /\ FileControl(n, [fileMap[n] EXCEPT !.remote = FALSE,
                         !.status = IF fileMap[n].local THEN "PAUSED" ELSE "TRANSMITTING"])
    /\ UNCHANGED <<connected, delivered, guiVars, unused, bounds>>

Advance(n) == [tox EXCEPT ![n].pos = @ + 1]
Flowing(n) == n \in DOMAIN tox /\ Room /\ tox[n].running /\ ~tox[n].us /\ ~tox[n].peer

\* Mutant: the file is not removed.
FinishKeepsFile(n) ==
    /\ tox' = Without(tox, n)
    /\ delivered' = delivered \union {tox[n].file}
    /\ IF n \in DOMAIN fileMap
       THEN /\ EmitData([fileMap[n] EXCEPT !.status = "FINISHED"])
            /\ Store(n, [fileMap[n] EXCEPT !.status = "FINISHED"])
       ELSE UNCHANGED <<fileMap, events>>
    /\ UNCHANGED refusals

\* A transfer ends: onFileDataCallback and onFileRecvChunkCallback with length 0.
Finish(n) ==
    /\ tox' = Without(tox, n)
    /\ delivered' = delivered \union {tox[n].file}
    /\ IF n \in DOMAIN fileMap
       THEN /\ EmitData([fileMap[n] EXCEPT !.status = "FINISHED"])
            /\ RemoveFile(n)
       ELSE UNCHANGED <<fileMap, events>>
    /\ UNCHANGED refusals

\* The file was not found, or is not at the position toxcore is at: CANCEL.
AbortReceive(n) ==
    /\ \/ Taken(Without(tox, n))
       \/ RefusedLeaving(IF tox[n].pos = Size THEN Without(tox, n) ELSE Advance(n))
    /\ IF n \in DOMAIN fileMap
       THEN /\ EmitData([fileMap[n] EXCEPT !.status = "CANCELED"])
            /\ RemoveFile(n)
       ELSE UNCHANGED <<fileMap, events>>
    /\ UNCHANGED delivered

Progressed(n) == [fileMap[n] EXCEPT !.sent = @ + 1]

\* onFileRecvChunkCallback
FileRecvChunk(n) ==
    /\ n \in RecvNums /\ Flowing(n) /\ ~NullFile(n)
    /\ IF n \notin DOMAIN fileMap \/ fileMap[n].sent # tox[n].pos
       THEN AbortReceive(n)
       ELSE IF tox[n].pos = Size
       THEN Finish(n)
       ELSE /\ Taken(Advance(n))
            /\ Store(n, Progressed(n))
            /\ EmitData(Progressed(n))
            /\ UNCHANGED delivered
    /\ UNCHANGED <<connected, guiVars, unused, pauses, statusChanges, losses>>

\* onFileDataCallback.  The progress counts a chunk that toxcore then refuses.
FileData(n) ==
    /\ n \in SendNums /\ Flowing(n) /\ ~NullFile(n)
    /\ IF tox[n].pos = Size
       THEN Finish(n)
       ELSE /\ n \in DOMAIN fileMap
            /\ IF fileMap[n].avatar
               THEN /\ Taken(Advance(n)) \/ Refused
                    /\ UNCHANGED <<fileMap, events>>
               ELSE /\ Store(n, Progressed(n))
                    /\ \/ Taken(Advance(n)) /\ Emit(Progressed(n))
                       \/ Refused /\ UNCHANGED events
            /\ UNCHANGED delivered
    /\ UNCHANGED <<connected, guiVars, unused, pauses, statusChanges, losses>>

\* Mutant: a read of nothing is taken for the end of the file.
FileReadFailsAsEnd(n) ==
    /\ n \in SendNums /\ Flowing(n) /\ tox[n].pos < Size
    /\ n \in DOMAIN fileMap /\ ~fileMap[n].avatar
    /\ Emit([fileMap[n] EXCEPT !.status = "FINISHED"])
    /\ RemoveFile(n)
    /\ UNCHANGED <<toxVars, guiVars, unused, bounds>>

\* onFileDataCallback, when the file cannot be read: toxcore is not told.
FileReadFails(n) ==
    /\ n \in SendNums /\ Flowing(n) /\ ~NullFile(n) /\ tox[n].pos < Size
    /\ n \in DOMAIN fileMap /\ ~fileMap[n].avatar
    /\ Emit([fileMap[n] EXCEPT !.status = "CANCELED"])
    /\ RemoveFile(n)
    /\ UNCHANGED <<toxVars, guiVars, unused, bounds>>
-----------------------------------------------------------------------------
Init ==
    /\ tox = <<>> /\ connected = FALSE
    /\ delivered = IF AvatarSentBefore THEN {OwnAvatar} ELSE {}
    /\ fileMap = <<>> /\ events = <<>>
    /\ gui = [in |-> "events"]
    /\ items = <<>> /\ currentFileTransfers = <<>> /\ rows = <<>>
    /\ friendsSentTo = AvatarSentBefore /\ dropped = {}
    /\ unused = IF AvatarSentBefore THEN Files \ {OwnAvatar} ELSE Files
    /\ pauses = 0 /\ statusChanges = 0 /\ losses = 0 /\ refusals = 0

Handle ==
    \/ DispatchFile \/ ConnectionStatusChanged \/ SendAvatarTo
    \/ \E n \in Nums : BreakFile(n)
    \/ AvatarOfferReceived \/ GetAvatarId \/ AddAvatar
    \/ HandleNullFile

User ==
    \/ \E f \in SendFiles, n \in SendNums : SendFile(f, n)
    \/ \E n \in Nums : \/ PauseResumeFile(n)
                       \/ CancelFile(n)
                       \/ AcceptFile(n)

Friend ==
    \/ FriendConnects \/ FriendStatus \/ FriendDisconnects
    \/ \E f \in RecvFiles \union Avatars, n \in RecvNums : FileReceive(f, n)
    \/ \E n \in Nums : \/ PeerCancels(n)
                       \/ PeerPauses(n)
                       \/ PeerResumes(n)
                       \/ FileRecvChunk(n)
                       \/ FileData(n)
                       \/ FileReadFails(n)

Next == Handle \/ User \/ Friend \/ \E n \in Nums : UseNullFile(n)

\* The event loop of the GUI thread always gets to its next event.
Fairness == WF_vars(Handle)
Spec == Init /\ [][Next]_vars
FairSpec == Spec /\ Fairness
-----------------------------------------------------------------------------
(* Properties. *)

ToxFileType ==
    [file : Files \union {NoFile}, num : Nums, avatar : BOOLEAN,
     status : Live \union Complete, local : BOOLEAN, remote : BOOLEAN,
     sent : 0..(Size + MaxRefusals), open : BOOLEAN]
ItemType == [file : Files, num : Nums, status : Live \union Complete, local : BOOLEAN]

\* Types, and what they relate: fileMap holds a transfer under its own number unless it
\* is a default-constructed one, fileMap never keeps a transfer that is over, and the
\* chat log updates an item under the number that the item shows.
TypeOK ==
    /\ DOMAIN tox \subseteq Nums
    /\ \A n \in DOMAIN tox :
         tox[n] \in [file : Files, running : BOOLEAN, us : BOOLEAN, peer : BOOLEAN, pos : 0..Size]
    /\ connected \in BOOLEAN /\ (~connected => tox = <<>>)
    /\ DOMAIN fileMap \subseteq Nums
    /\ \A n \in DOMAIN fileMap :
         /\ fileMap[n] \in ToxFileType
         /\ fileMap[n].num = n \/ fileMap[n].file = NoFile
         /\ fileMap[n].status \in Live \/ fileMap[n].file = NoFile
    /\ \A i \in DOMAIN items : items[i] \in ItemType
    /\ DOMAIN currentFileTransfers \subseteq Nums
    /\ \A n \in DOMAIN currentFileTransfers :
         LET i == currentFileTransfers[n]
         IN i \in DOMAIN items /\ items[i].num = n /\ items[i].status \in Live
    /\ delivered \subseteq Files /\ unused \subseteq Files

About(e, n) == e.is = "file" /\ e.num = n
Shows(e, file) == e.file = file.file /\ e.status = file.status /\ e.local = file.local

\* The event at i is the last one about n.
LastAbout(n, i) == About(events[i], n) /\ \A j \in DOMAIN events : j > i => ~About(events[j], n)

\* What the chat log shows, or will show once the queue is empty, of the transfer.
WillShow(n, file) ==
    \/ \E i \in DOMAIN events : LastAbout(n, i) /\ Shows(events[i], file)
    \/ /\ \A i \in DOMAIN events : ~About(events[i], n)
       /\ n \in DOMAIN currentFileTransfers /\ Shows(Item(n), file)

\* The comment at widget.cpp:346-361: signals of CoreFile come from two threads, and the
\* last one the chat log gets about a file is the last one CoreFile emitted about it.
UiFollowsCoreFile ==
    \A n \in DOMAIN fileMap :
        ~fileMap[n].avatar /\ fileMap[n].file # NoFile => WillShow(n, fileMap[n])

\* An avatar offer is answered by its number, whatever has that number by then, and from two
\* threads (OnlyAvatarsUnasked): what is said of a transfer's number is said of the numbers we
\* give out, and of the friend's until it offers an avatar.
Apart(n) == n \in SendNums \/ Avatars \subseteq unused

\* The handling of a lost connection that reaches the transfer is still to come.
BreakPending(n) ==
    \/ \E i \in DOMAIN events : events[i].is = "status"
    \/ gui.in = "status" /\ n \in gui.keys
    \/ gui.in = "crashed"

\* CoreFile's data transfer is the one toxcore has under that number, unless a connection
\* was lost and the GUI thread has yet to hear of it (CoreFile::onConnectionStatusChanged).
StaleOnlyBeforeBreak ==
    \A n \in DOMAIN fileMap :
        Apart(n) /\ ~fileMap[n].avatar /\ fileMap[n].file # NoFile =>
            BreakPending(n) \/ (n \in DOMAIN tox /\ tox[n].file = fileMap[n].file)

\* A transfer that the chat log shows as finished has arrived whole.
FinishedWasDelivered ==
    \A i \in DOMAIN items :
        Apart(items[i].num) /\ items[i].status = "FINISHED" => items[i].file \in delivered

\* pauseResumeFile and onFileControlCallback keep ToxFilePause as toxcore has it, on
\* both sides, when toxcore takes the controls.
PausedAsToxcore ==
    \A n \in DOMAIN fileMap \intersect DOMAIN tox :
        Apart(n) /\ refusals = 0 /\ tox[n].running /\ tox[n].file = fileMap[n].file =>
            fileMap[n].local = tox[n].us /\ fileMap[n].remote = tox[n].peer

\* The data of a transfer goes to the file of that transfer, never to another one.
ChunksOfTheirFile ==
    [][\A n \in DOMAIN fileMap :
          Apart(n) /\ n \in DOMAIN fileMap' /\ fileMap'[n].sent > fileMap[n].sent =>
              tox[n].file = fileMap[n].file]_vars

\* A transfer that toxcore does not have any more stops being shown as live, unless a status
\* other than Offline took it out of fileMap as TRANSMITTING (corefile.cpp:587-593) while
\* toxcore went on with it: CoreFile then hears nothing of its end, and its item may even
\* come to show our avatar, which has no signal at its end.
ItemsSettle ==
    \A n \in Nums : n \in DOMAIN currentFileTransfers /\ n \notin DOMAIN tox
                     ~> \/ n \notin DOMAIN currentFileTransfers \/ n \in DOMAIN tox
                        \/ Item(n).file \in dropped \union {OwnAvatar} \/ ~Apart(n)
                        \/ gui.in = "crashed"
-----------------------------------------------------------------------------
(* What comments in the code say, and the code does not do. *)

Quiet == events = <<>> /\ gui.in = "events"

\* widget.cpp:358-361: it must not happen that "toxcore will think we are paused but our
\* UI will think we are resumed".
UiKnowsWePaused ==
    \A i \in DOMAIN items : Quiet /\ items[i].status = "TRANSMITTING" =>
        LET n == items[i].num
        IN n \in DOMAIN tox /\ tox[n].file = items[i].file => ~tox[n].us

\* chathistory.cpp:217-220: history and chat log both rely on generating a new id based
\* on the state of initializing.
ItemPerRow == Len(items) = Len(rows)

\* corefile.cpp:404: what handleAvatarOffer accepts without asking is an avatar.
OnlyAvatarsUnasked ==
    \A n \in DOMAIN fileMap : fileMap[n].avatar => fileMap[n].file \notin RecvFiles

\* corefile.cpp:580: "Actually resume broken file transfers": what a status takes out of
\* fileMap is broken, and toxcore does not have it any more.
DropsOnlyBroken ==
    [][\A n \in DOMAIN fileMap \intersect DOMAIN tox :
          gui.in = "status" /\ gui' # gui /\ n \notin DOMAIN fileMap' =>
              tox[n].file # fileMap[n].file]_vars

\* corefile.cpp:59: "Sleep at most 1000ms if we have no FT".
IdleWithoutTransfers ==
    Quiet /\ DOMAIN tox = {} => \A n \in DOMAIN fileMap : fileMap[n].status # "TRANSMITTING"

\* avatarbroadcaster.cpp:20: "friends who have received it" are those marked in
\* friendsSentTo; a friend that is gone is not receiving it any more.
MarkedFriendHasAvatar ==
    Quiet /\ ~connected /\ friendsSentTo => OwnAvatar \in delivered
=============================================================================
