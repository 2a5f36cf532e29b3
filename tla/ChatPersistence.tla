---------------------------- MODULE ChatPersistence ----------------------------
(* How the messages the user sends in one chat, and its file transfers, reach   *)
(* the profile database, and how what became of them is recorded there:         *)
(*                                                                             *)
(*   GUI thread   ChatHistory, History (which queue transactions)              *)
(*   DB thread    RawDatabaseImpl::process, which runs the transactions in     *)
(*                order and calls ChatHistory::handleDispatchedMessage from    *)
(*                inside the transaction that inserts a message                *)
(*   disk         the tables history, faux_offline_pending and file_transfers, *)
(*                which survive a crash with the committed transactions        *)
(*                                                                             *)
(* handleDispatchedMessage (DB thread) and completeMessage (GUI thread) look up *)
(* and then change the same containers without a lock, so each is two steps    *)
(* here: its look-up and what it does with the answer.                         *)
(*                                                                             *)
(* A message is sent once in a run of the program, so it is named by its       *)
(* DispatchedMessageId, and a file by its resumeFileId.  No message is ever     *)
(* broken: OfflineMsgEngine runs its callbacks with success only.               *)
EXTENDS Naturals, Sequences, FiniteSets, FiniteSetsExt

CONSTANTS
    Files,         \* transfers, one after the other or at once
    MaxMessages,   \* bound: messages the user sends
    MaxCrashes,    \* bound: crashes of the program
    MaxToggles,    \* bound: times the history setting is switched
    MaxErasures    \* bound: times the user erases the history

ASSUME PersistenceAssumption ==
    /\ {MaxMessages, MaxCrashes, MaxToggles, MaxErasures} \subseteq Nat
    /\ Files \cap 1..MaxMessages = {}

Message == 1..MaxMessages

VARIABLES
    rows,                       \* disk: table history, row id to message or file
    pending,                    \* disk: table faux_offline_pending
    fileTransfers,              \* disk: table file_transfers, row id to state
    enableLogging,              \* Settings::getEnableLogging
    pendingTransactions,        \* RawDatabaseImpl::pendingTransactions
    worker,                     \* the transaction the DB thread is in
    gui,                        \* the handler the GUI thread is in
    dispatchedMessageRowIdMap,  \* ChatHistory: rows of the messages in flight
    completedMessages,          \* ChatHistory: completed before they had a row
    fileInfos,                  \* History::fileInfos: rows of the files in transfer
    fileInserted,               \* the signals of that name the GUI thread has not handled
    transfers,                  \* what the chat log knows of each file
    outstanding,                \* messages the dispatcher holds, not completed yet
    nextMessage,                \* the next message the user sends
    acked,                      \* history: messages the friend acknowledged
    unrecorded,                 \* history: files whose result nobody wrote down
    crashes, toggles, erasures  \* what has been used of the bounds

diskVars == <<rows, pending, fileTransfers>>
fileVars == <<fileInfos, fileInserted, transfers, unrecorded>>
chatVars == <<dispatchedMessageRowIdMap, completedMessages>>
boundVars == <<crashes, toggles, erasures>>
vars == <<diskVars, enableLogging, pendingTransactions, worker, gui, chatVars, fileVars,
          outstanding, nextMessage, acked, boundVars>>

Idle == [at |-> "idle"]
Insert(m) == [sql |-> "insert", message |-> m]
Deliver(r) == [sql |-> "deliver", row |-> r]
Erase == [sql |-> "erase"]
EraseAll == [sql |-> "eraseAll"]
InsertFile(f) == [sql |-> "insertFile", file |-> f]
FileFinished(r, state) == [sql |-> "fileFinished", row |-> r, state |-> state]

Queue == {pendingTransactions[i] : i \in DOMAIN pendingTransactions}

Empty == [x \in {} |-> 0]
Extend(f, x, v) == [y \in DOMAIN f \cup {x} |-> IF y = x THEN v ELSE f[y]]
Without(f, x) == [y \in DOMAIN f \ {x} |-> f[y]]

\* The row id SQLite gives an INTEGER PRIMARY KEY: one more than the largest in use.
NextRow == IF rows = Empty THEN 1 ELSE Max(DOMAIN rows) + 1

Init ==
    /\ rows = Empty /\ pending = {} /\ fileTransfers = Empty
    /\ fileInfos = Empty /\ fileInserted = <<>>
    /\ transfers = [f \in Files |-> "new"] /\ unrecorded = {}
    /\ enableLogging = TRUE
    /\ pendingTransactions = <<>>
    /\ worker = Idle /\ gui = Idle
    /\ dispatchedMessageRowIdMap = Empty /\ completedMessages = {}
    /\ outstanding = {} /\ nextMessage = 1 /\ acked = {}
    /\ crashes = 0 /\ toggles = 0 /\ erasures = 0
-----------------------------------------------------------------------------
(* GUI thread *)

\* ChatHistory::onMessageSent, History::addNewMessage
Send ==
    /\ gui = Idle
    /\ nextMessage <= MaxMessages
    /\ nextMessage' = nextMessage + 1
    /\ outstanding' = outstanding \cup {nextMessage}
    /\ IF enableLogging
       THEN pendingTransactions' = Append(pendingTransactions, Insert(nextMessage))
       ELSE UNCHANGED pendingTransactions
    /\ UNCHANGED <<diskVars, enableLogging, worker, gui, chatVars, fileVars, acked, boundVars>>

\* ChatHistory::onMessageComplete; completeMessage looks the message up.
Complete ==
    /\ gui = Idle
    /\ \E m \in outstanding :
          /\ outstanding' = outstanding \ {m}
          /\ acked' = acked \cup {m}
          /\ IF enableLogging
             THEN gui' = [at |-> "completeMessage", message |-> m,
                          found |-> m \in DOMAIN dispatchedMessageRowIdMap]
             ELSE UNCHANGED gui
    /\ UNCHANGED <<diskVars, enableLogging, pendingTransactions, worker, chatVars, fileVars,
                   nextMessage, boundVars>>

\* The rest of ChatHistory::completeMessage
CompleteMessage ==
    /\ gui.at = "completeMessage"
    /\ gui' = Idle
    /\ IF gui.found
       THEN /\ pendingTransactions' =
                  Append(pendingTransactions, Deliver(dispatchedMessageRowIdMap[gui.message]))
            /\ dispatchedMessageRowIdMap' = Without(dispatchedMessageRowIdMap, gui.message)
            /\ UNCHANGED completedMessages
       ELSE /\ completedMessages' = completedMessages \cup {gui.message}
            /\ UNCHANGED <<pendingTransactions, dispatchedMessageRowIdMap>>
    /\ UNCHANGED <<diskVars, enableLogging, worker, fileVars, outstanding, nextMessage, acked, boundVars>>

\* PrivacyForm::on_cbKeepHistory_stateChanged; switching the history off drops what
\* the dispatcher holds.
ToggleLogging ==
    /\ gui = Idle
    /\ toggles < MaxToggles /\ toggles' = toggles + 1
    /\ enableLogging' = ~enableLogging
    /\ outstanding' = IF enableLogging THEN {} ELSE outstanding
    /\ UNCHANGED <<diskVars, pendingTransactions, worker, gui, chatVars, fileVars, nextMessage, acked,
                   crashes, erasures>>

\* Mutant: the transaction of execNow overtakes those queued before it.
EraseHistoryFirst ==
    /\ gui = Idle
    /\ erasures < MaxErasures /\ erasures' = erasures + 1
    /\ \E erase \in {Erase, EraseAll} : pendingTransactions' = <<erase>> \o pendingTransactions
    /\ gui' = [at |-> "execNow"]
    /\ UNCHANGED <<diskVars, enableLogging, worker, chatVars, fileVars, outstanding, nextMessage, acked,
                   crashes, toggles>>

\* History::removeChatHistory or eraseHistory; execNow waits for the DB thread.
EraseHistory ==
    /\ gui = Idle
    /\ erasures < MaxErasures /\ erasures' = erasures + 1
    /\ \E erase \in {Erase, EraseAll} : pendingTransactions' = Append(pendingTransactions, erase)
    /\ gui' = [at |-> "execNow"]
    /\ UNCHANGED <<diskVars, enableLogging, worker, chatVars, fileVars, outstanding, nextMessage, acked,
                   crashes, toggles>>

\* ChatHistory::onFileUpdated of a transfer that begins, History::addNewFileMessage
AddNewFileMessage ==
    /\ gui = Idle
    /\ \E f \in Files :
          /\ transfers[f] = "new"
          /\ transfers' = [transfers EXCEPT ![f] = "running"]
          /\ IF enableLogging
             THEN pendingTransactions' = Append(pendingTransactions, InsertFile(f))
             ELSE UNCHANGED pendingTransactions
    /\ UNCHANGED <<diskVars, enableLogging, worker, gui, chatVars, fileInfos, fileInserted, unrecorded,
                   outstanding, nextMessage, acked, boundVars>>

\* ChatHistory::onFileUpdated of a transfer that ends, History::setFileFinished.  Of a file
\* whose row is not known yet the result is noted in fileInfos, and removed from there at once.
SetFileFinished ==
    /\ gui = Idle
    /\ \E f \in Files, state \in {"finished", "canceled"} :
          /\ transfers[f] = "running"
          /\ transfers' = [transfers EXCEPT ![f] = state]
          /\ IF enableLogging /\ f \in DOMAIN fileInfos
             THEN /\ pendingTransactions' =
                        Append(pendingTransactions, FileFinished(fileInfos[f], state))
                  /\ UNCHANGED unrecorded
             ELSE /\ unrecorded' = unrecorded \cup {f}
                  /\ UNCHANGED pendingTransactions
          /\ fileInfos' = IF enableLogging THEN Without(fileInfos, f) ELSE fileInfos
    /\ UNCHANGED <<diskVars, enableLogging, worker, gui, chatVars, fileInserted, outstanding,
                   nextMessage, acked, boundVars>>

\* Mutant: the GUI thread asks for the last row that was inserted.
OnFileInsertedLastRow ==
    /\ gui = Idle
    /\ fileInserted # <<>>
    /\ fileInserted' = Tail(fileInserted)
    /\ fileInfos' = Extend(fileInfos, Head(fileInserted).file, NextRow - 1)
    /\ UNCHANGED <<diskVars, enableLogging, pendingTransactions, worker, gui, chatVars, transfers,
                   unrecorded, outstanding, nextMessage, acked, boundVars>>

\* History::onFileInserted.  It never finds a file that has finished, as setFileFinished
\* keeps none.
OnFileInserted ==
    /\ gui = Idle
    /\ fileInserted # <<>>
    /\ fileInserted' = Tail(fileInserted)
    /\ fileInfos' = Extend(fileInfos, Head(fileInserted).file, Head(fileInserted).row)
    /\ UNCHANGED <<diskVars, enableLogging, pendingTransactions, worker, gui, chatVars, transfers,
                   unrecorded, outstanding, nextMessage, acked, boundVars>>
-----------------------------------------------------------------------------
(* DB thread: RawDatabaseImpl::process and compileAndExecute *)

Take(sql) ==
    /\ worker = Idle
    /\ pendingTransactions # <<>>
    /\ Head(pendingTransactions).sql = sql
    /\ pendingTransactions' = Tail(pendingTransactions)

\* Mutant: the callback takes any completed message for its own.
InsertMessageAnyCompleted ==
    /\ Take("insert")
    /\ worker' = [at |-> "callback", message |-> Head(pendingTransactions).message,
                  row |-> NextRow, found |-> completedMessages # {}]
    /\ UNCHANGED <<diskVars, enableLogging, gui, chatVars, fileVars, outstanding, nextMessage, acked,
                   boundVars>>

\* A message is inserted, and the callback ChatHistory::handleDispatchedMessage
\* looks for it among the completed ones.
InsertMessage ==
    /\ Take("insert")
    /\ LET m == Head(pendingTransactions).message
       IN  worker' = [at |-> "callback", message |-> m, row |-> NextRow,
                      found |-> m \in completedMessages]
    /\ UNCHANGED <<diskVars, enableLogging, gui, chatVars, fileVars, outstanding, nextMessage, acked,
                   boundVars>>

\* The rest of handleDispatchedMessage, the insertion into faux_offline_pending and
\* the COMMIT.  History::markAsDelivered does nothing while the history is off.
HandleDispatchedMessage ==
    /\ worker.at = "callback"
    /\ worker' = Idle
    /\ IF worker.found
       THEN /\ completedMessages' = completedMessages \ {worker.message}
            /\ IF enableLogging
               THEN pendingTransactions' = Append(pendingTransactions, Deliver(worker.row))
               ELSE UNCHANGED pendingTransactions
            /\ UNCHANGED dispatchedMessageRowIdMap
       ELSE /\ dispatchedMessageRowIdMap' =
                  Extend(dispatchedMessageRowIdMap, worker.message, worker.row)
            /\ UNCHANGED <<completedMessages, pendingTransactions>>
    /\ rows' = Extend(rows, worker.row, worker.message)
    /\ pending' = pending \cup {worker.row}
    /\ UNCHANGED <<fileTransfers, enableLogging, gui, fileVars, outstanding, nextMessage, acked,
                   boundVars>>

\* The transaction of History::markAsDelivered
DeliverMessage ==
    /\ Take("deliver")
    /\ pending' = pending \ {Head(pendingTransactions).row}
    /\ UNCHANGED <<rows, fileTransfers, enableLogging, worker, gui, chatVars, fileVars, outstanding,
                   nextMessage, acked, boundVars>>

\* A file transfer is inserted; the callback only emits fileInserted.
InsertFileTransfer ==
    /\ Take("insertFile")
    /\ LET f == Head(pendingTransactions).file
       IN  /\ rows' = Extend(rows, NextRow, f)
           /\ fileTransfers' = Extend(fileTransfers, NextRow, "canceled")
           /\ fileInserted' = Append(fileInserted, [row |-> NextRow, file |-> f])
    /\ UNCHANGED <<pending, enableLogging, worker, gui, chatVars, fileInfos, transfers, unrecorded,
                   outstanding, nextMessage, acked, boundVars>>

\* The query of generateFileFinished
UpdateFileTransfer ==
    /\ Take("fileFinished")
    /\ LET t == Head(pendingTransactions)
       IN  fileTransfers' = [r \in DOMAIN fileTransfers |->
                               IF r = t.row THEN t.state ELSE fileTransfers[r]]
    /\ UNCHANGED <<rows, pending, enableLogging, worker, gui, chatVars, fileVars, outstanding,
                   nextMessage, acked, boundVars>>

\* Mutant: the transaction does not report that it is done.
EraseMessagesSilently ==
    /\ Take("erase")
    /\ rows' = Empty /\ pending' = {} /\ fileTransfers' = Empty
    /\ UNCHANGED <<gui, enableLogging, worker, chatVars, fileVars, outstanding, nextMessage, acked,
                   boundVars>>

\* The transaction of History::removeChatHistory; execNow returns.
EraseMessages ==
    /\ Take("erase")
    /\ rows' = Empty /\ pending' = {} /\ fileTransfers' = Empty
    /\ gui' = Idle
    /\ UNCHANGED <<enableLogging, worker, chatVars, fileVars, outstanding, nextMessage, acked,
                   boundVars>>

\* Mutant: eraseHistory deletes the rows before what refers to them.
EraseRowsFirst ==
    /\ Take("eraseAll")
    /\ rows' = Empty
    /\ worker' = [at |-> "erasing"]
    /\ UNCHANGED <<pending, fileTransfers, enableLogging, gui, chatVars, fileVars, outstanding,
                   nextMessage, acked, boundVars>>

\* History::eraseHistory is one query of many statements, for which no transaction is
\* begun: each is committed for itself, what refers to the rows first,
ErasePending ==
    /\ Take("eraseAll")
    /\ pending' = {}
    /\ worker' = [at |-> "erasing"]
    /\ UNCHANGED <<rows, fileTransfers, enableLogging, gui, chatVars, fileVars, outstanding,
                   nextMessage, acked, boundVars>>

EraseTransfers ==
    /\ worker.at = "erasing"
    /\ fileTransfers # Empty
    /\ fileTransfers' = Empty
    /\ UNCHANGED <<rows, pending, enableLogging, pendingTransactions, worker, gui, chatVars, fileVars,
                   outstanding, nextMessage, acked, boundVars>>

\* and then the rows; execNow returns.
EraseRows ==
    /\ worker.at = "erasing"
    /\ fileTransfers = Empty
    /\ rows' = Empty
    /\ worker' = Idle /\ gui' = Idle
    /\ UNCHANGED <<pending, fileTransfers, enableLogging, pendingTransactions, chatVars, fileVars,
                   outstanding, nextMessage, acked, boundVars>>
-----------------------------------------------------------------------------
(* The program ends, whatever it is doing, and starts again.                   *)

\* Transfers end with the program; the results that were on their way to the disk are lost.
TransfersEnd ==
    /\ fileInfos' = Empty /\ fileInserted' = <<>>
    /\ transfers' = [f \in Files |-> IF transfers[f] = "running" THEN "canceled" ELSE transfers[f]]
    /\ unrecorded' = unrecorded \cup
          {rows[t.row] : t \in {u \in Queue : u.sql = "fileFinished" /\ u.row \in DOMAIN fileTransfers}}

\* Mutant: messageSent is connected before the pending messages are sent.
RestartConnectedEarly ==
    /\ crashes < MaxCrashes /\ crashes' = crashes + 1
    /\ worker' = Idle /\ gui' = Idle
    /\ completedMessages' = {}
    /\ outstanding' = {rows[r] : r \in IF enableLogging THEN pending ELSE {}}
    /\ dispatchedMessageRowIdMap' = [m \in outstanding' |-> CHOOSE r \in pending : rows[r] = m]
    /\ pendingTransactions' =
          IF outstanding' = {} THEN <<>> ELSE <<Insert(CHOOSE m \in outstanding' : TRUE)>>
    /\ TransfersEnd
    /\ UNCHANGED <<diskVars, enableLogging, nextMessage, acked, toggles, erasures>>

\* ChatHistory::ChatHistory sends what the database says is pending
\* (dispatchUnsentMessages) before it listens to messageSent.
Restart ==
    /\ crashes < MaxCrashes /\ crashes' = crashes + 1
    /\ pendingTransactions' = <<>>
    /\ worker' = Idle /\ gui' = Idle
    /\ completedMessages' = {}
    /\ LET unsent == IF enableLogging THEN pending ELSE {}
       IN  /\ outstanding' = {rows[r] : r \in unsent}
           /\ dispatchedMessageRowIdMap' =
                 [m \in outstanding' |-> CHOOSE r \in unsent : rows[r] = m]
    /\ TransfersEnd
    /\ UNCHANGED <<diskVars, enableLogging, nextMessage, acked, toggles, erasures>>
-----------------------------------------------------------------------------
GuiStep ==
    \/ Send \/ Complete \/ CompleteMessage \/ ToggleLogging \/ EraseHistory
    \/ AddNewFileMessage \/ SetFileFinished \/ OnFileInserted
WorkerStep ==
    \/ InsertMessage \/ HandleDispatchedMessage \/ DeliverMessage
    \/ InsertFileTransfer \/ UpdateFileTransfer
    \/ EraseMessages \/ ErasePending \/ EraseTransfers \/ EraseRows

Next == GuiStep \/ WorkerStep \/ Restart

Spec == Init /\ [][Next]_vars

\* Both threads run; the user, the friend and crashes are free.
FairSpec == Spec /\ WF_vars(CompleteMessage) /\ WF_vars(WorkerStep)
-----------------------------------------------------------------------------
(* Properties *)

Transaction == [sql : {"insert"}, message : Message] \cup [sql : {"deliver"}, row : Nat]
                   \cup {Erase, EraseAll} \cup [sql : {"insertFile"}, file : Files]
                   \cup [sql : {"fileFinished"}, row : Nat, state : {"finished", "canceled"}]

\* Types; what refers to a row of history refers to one that is there, as the foreign keys
\* say, also after a crash in the middle of eraseHistory.
TypeOK ==
    /\ DOMAIN rows \subseteq Nat /\ rows \in [DOMAIN rows -> Message \cup Files]
    /\ pending \subseteq {r \in DOMAIN rows : rows[r] \in Message}
    /\ DOMAIN fileTransfers \subseteq {r \in DOMAIN rows : rows[r] \in Files}
    /\ \A f \in DOMAIN fileInfos : f \in Files /\ fileInfos[f] \in Nat
    /\ fileInserted \in Seq([row : Nat, file : Files])
    /\ transfers \in [Files -> {"new", "running", "finished", "canceled"}]
    /\ unrecorded \subseteq Files
    /\ enableLogging \in BOOLEAN
    /\ pendingTransactions \in Seq(Transaction)
    /\ worker \in {Idle, [at |-> "erasing"]} \cup [at : {"callback"}, message : Message, row : Nat, found : BOOLEAN]
    /\ gui \in {Idle, [at |-> "execNow"]}
               \cup [at : {"completeMessage"}, message : Message, found : BOOLEAN]
    /\ DOMAIN dispatchedMessageRowIdMap \subseteq Message
    /\ dispatchedMessageRowIdMap \in [DOMAIN dispatchedMessageRowIdMap -> Nat]
    /\ completedMessages \subseteq Message /\ outstanding \subseteq Message
    /\ acked \subseteq Message
    /\ nextMessage \in 1..(MaxMessages + 1)
    /\ {crashes, toggles, erasures} \subseteq Nat

\* Once rows are erased, SQLite gives their ids out anew, and an id that the code still
\* keeps for an erased message may be the row of another one.
RowIdsFresh == erasures = 0

AllDone == worker = Idle /\ gui = Idle /\ pendingTransactions = <<>>

\* A message in the database that the friend has not acknowledged is pending there,
\* through crashes, switched settings and completions that overtake the insertion:
\* it will be sent again after a restart.
UndeliveredStaysPending ==
    RowIdsFresh => \A r \in DOMAIN rows : rows[r] \in Message \ acked => r \in pending

\* A message, or a file, has one row: sending the pending messages again after a restart does
\* not add them to the history again.
OneRowPerMessage ==
    \A q, r \in DOMAIN rows : rows[q] = rows[r] => q = r

\* The row a completion will mark is the row of its message.
RowOfItsMessage ==
    RowIdsFresh => \A m \in DOMAIN dispatchedMessageRowIdMap :
        LET r == dispatchedMessageRowIdMap[m] IN r \in DOMAIN rows => rows[r] = m

\* Once all is done the database says of a transfer what became of it, unless it ended
\* before the database had a row for it, with the history off, or with the program.
FileResultRecorded ==
    RowIdsFresh /\ AllDone /\ fileInserted = <<>> =>
        \A r \in DOMAIN fileTransfers :
            transfers[rows[r]] \in {"finished", "canceled"} /\ rows[r] \notin unrecorded =>
                fileTransfers[r] = transfers[rows[r]]

\* What the comments on completedMessages and dispatchedMessageRowIdMap say: a message
\* that completes before it is inserted is in the first, one that is inserted before it
\* completes in the second; so once all is done no acknowledged message is pending.
CompletionReachesDisk ==
    AllDone => \A r \in pending : rows[r] \notin acked

\* What rawdatabase.h says of query callbacks: no database method is called from one.
NoDatabaseCallInCallback ==
    [][HandleDispatchedMessage => UNCHANGED pendingTransactions]_vars

\* Erasing the history is final: what was sent before is neither left in the database
\* nor still on its way there when the user gets the control back.
ErasedForGood ==
    [][(gui.at = "execNow" /\ gui' = Idle /\ crashes' = crashes) =>
          /\ rows' = Empty /\ pending' = {} /\ fileTransfers' = Empty
          /\ \A i \in 1..Len(pendingTransactions') : pendingTransactions'[i].sql \notin {"insert", "insertFile"}
      ]_vars

\* The GUI thread does not wait for the database forever, although the DB thread's
\* callbacks queue transactions of their own.
EraseReturns == gui.at = "execNow" ~> gui = Idle
=============================================================================
