------------------------ MODULE ChatPersistenceProofs ------------------------
(* Proofs about ChatPersistence: for every number of messages, files, crashes,  *)
(* erasures and switches of the setting, whatever the two threads do.           *)
EXTENDS ChatPersistence, SequenceTheorems, TLAPS

-----------------------------------------------------------------------------
(* The inductive invariant *)

\* Row ids are given out without gaps, and the row that a callback is told is the next one.
RowsDense ==
    /\ \E n \in Nat : DOMAIN rows = 1..n
    /\ worker.at = "callback" => worker.row = NextRow

Adds(t, x) == t \in {Insert(x), InsertFile(x)}
InRows(x) == \E r \in DOMAIN rows : rows[r] = x
\* x was sent, or the transfer of x has begun.
Begun(x) == IF x \in Files THEN transfers[x] # "new" ELSE x < nextMessage

\* Each message and file is queued for insertion once, and then is in one place: the queue,
\* the callback or the table.
InsertedOnce ==
    /\ OneRowPerMessage
    /\ \A r \in DOMAIN rows : Begun(rows[r])
    /\ \A i \in DOMAIN pendingTransactions, x \in Message \cup Files :
          Adds(pendingTransactions[i], x) =>
             /\ Begun(x) /\ ~InRows(x)
             /\ \A j \in DOMAIN pendingTransactions : Adds(pendingTransactions[j], x) => j = i
    /\ worker.at = "callback" =>
          /\ Begun(worker.message) /\ ~InRows(worker.message)
          /\ \A t \in Queue : ~Adds(t, worker.message)

\* What counts as completed was acknowledged.
CompletedAcked ==
    /\ completedMessages \subseteq acked
    /\ worker.at = "callback" /\ worker.found => worker.message \in acked
    /\ gui.at = "completeMessage" => gui.message \in acked

\* The row that completeMessage has found stays there.  Until rows are erased, the rows that
\* the GUI thread and the queue keep are those they are meant to be, and only acknowledged
\* messages are marked as delivered.
RowsOfMessages ==
    /\ gui.at = "completeMessage" /\ gui.found => gui.message \in DOMAIN dispatchedMessageRowIdMap
    /\ RowIdsFresh =>
      /\ \A m \in DOMAIN dispatchedMessageRowIdMap :
            LET r == dispatchedMessageRowIdMap[m] IN r \in DOMAIN rows /\ rows[r] = m
      /\ \A t \in Queue : t.sql = "deliver" => t.row \in DOMAIN rows /\ rows[t.row] \in acked

\* While the GUI thread waits for an erasure, it is the last in the queue to change the tables
\* for good, or being done.
Harmless == {"deliver", "fileFinished"}
ErasureInv ==
    /\ gui.at = "execNow" =>
         /\ ~RowIdsFresh
         /\ \/ worker.at = "erasing" /\ \A t \in Queue : t.sql \in Harmless
            \/ /\ worker.at # "erasing"
               /\ \E i \in DOMAIN pendingTransactions :
                    /\ \A j \in DOMAIN pendingTransactions :
                          pendingTransactions[j].sql \in {"erase", "eraseAll"} <=> j = i
                    /\ \A j \in DOMAIN pendingTransactions :
                          j > i => pendingTransactions[j].sql \in Harmless
    /\ gui.at # "execNow" =>
         /\ worker.at # "erasing"
         /\ \A t \in Queue : t.sql \notin {"erase", "eraseAll"}
    /\ worker.at = "erasing" => pending = {}

\* A file's row says "canceled" until its result is written, and the result is in the row or
\* on the way to it.
RowOfFile(r, f) == r \in DOMAIN fileTransfers /\ rows[r] = f
FilesKnown ==
    /\ \A f \in DOMAIN fileInfos : RowOfFile(fileInfos[f], f)
    /\ \A i \in DOMAIN fileInserted : RowOfFile(fileInserted[i].row, fileInserted[i].file)
ResultsQueued ==
    \A t \in Queue :
        /\ t.sql = "fileFinished" => t.row \in DOMAIN fileTransfers /\ t.state = transfers[rows[t.row]]
        /\ t.sql = "insertFile" /\ transfers[t.file] \in {"finished", "canceled"} => t.file \in unrecorded
ResultsWritten ==
    \A r \in DOMAIN fileTransfers :
        /\ transfers[rows[r]] = "running" => fileTransfers[r] = "canceled"
        /\ transfers[rows[r]] \in {"finished", "canceled"} /\ rows[r] \notin unrecorded =>
             \/ fileTransfers[r] = transfers[rows[r]]
             \/ FileFinished(r, transfers[rows[r]]) \in Queue
FileInv == RowIdsFresh => FilesKnown /\ ResultsQueued /\ ResultsWritten

IInv ==
    /\ TypeOK /\ RowsDense /\ InsertedOnce /\ CompletedAcked /\ UndeliveredStaysPending
    /\ RowsOfMessages /\ ErasureInv /\ FileInv
-----------------------------------------------------------------------------
(* The queue *)

QueueType == pendingTransactions \in Seq(Transaction)

LEMMA QueueElement ==
  ASSUME QueueType
  PROVE  /\ Len(pendingTransactions) \in Nat
         /\ DOMAIN pendingTransactions = 1..Len(pendingTransactions)
         /\ \A i \in DOMAIN pendingTransactions : pendingTransactions[i] \in Queue
         /\ Queue \subseteq Transaction
BY DEF QueueType, Queue

\* A transaction is queued behind the others.
LEMMA QueueAppended ==
  ASSUME QueueType, NEW t \in Transaction,
         pendingTransactions' = Append(pendingTransactions, t)
  PROVE  /\ QueueType'
         /\ Queue' = Queue \cup {t}
         /\ Len(pendingTransactions) \in Nat
         /\ DOMAIN pendingTransactions = 1..Len(pendingTransactions)
         /\ DOMAIN pendingTransactions' = 1..(Len(pendingTransactions) + 1)
         /\ \A i \in DOMAIN pendingTransactions : pendingTransactions'[i] = pendingTransactions[i]
         /\ pendingTransactions'[Len(pendingTransactions) + 1] = t
<1> USE DEF QueueType
<1>1. QueueType'
  OBVIOUS
<1>2. /\ Len(pendingTransactions) \in Nat
      /\ DOMAIN pendingTransactions = 1..Len(pendingTransactions)
      /\ DOMAIN pendingTransactions' = 1..(Len(pendingTransactions) + 1)
      /\ \A i \in DOMAIN pendingTransactions : pendingTransactions'[i] = pendingTransactions[i]
      /\ pendingTransactions'[Len(pendingTransactions) + 1] = t
  OBVIOUS
<1>3. Queue' = Queue \cup {t}
  <2>1. DOMAIN pendingTransactions' = DOMAIN pendingTransactions \cup {Len(pendingTransactions) + 1}
    BY <1>1, <1>2
  <2> QED BY <1>2, <2>1 DEF Queue
<1> QED BY <1>1, <1>2, <1>3

\* The DB thread takes the first.
LEMMA QueueTaken ==
  ASSUME QueueType, NEW sql, Take(sql)
  PROVE  /\ QueueType'
         /\ Head(pendingTransactions) \in Queue
         /\ Head(pendingTransactions) = pendingTransactions[1]
         /\ Queue = Queue' \cup {Head(pendingTransactions)}
         /\ Len(pendingTransactions) \in Nat /\ Len(pendingTransactions) >= 1
         /\ DOMAIN pendingTransactions = 1..Len(pendingTransactions)
         /\ DOMAIN pendingTransactions' = 1..(Len(pendingTransactions) - 1)
         /\ \A i \in DOMAIN pendingTransactions' : pendingTransactions'[i] = pendingTransactions[i + 1]
<1> USE DEF QueueType, Take
<1>1. /\ QueueType'
      /\ Head(pendingTransactions) = pendingTransactions[1]
      /\ Len(pendingTransactions) \in Nat /\ Len(pendingTransactions) >= 1
      /\ DOMAIN pendingTransactions = 1..Len(pendingTransactions)
      /\ DOMAIN pendingTransactions' = 1..(Len(pendingTransactions) - 1)
      /\ \A i \in DOMAIN pendingTransactions' : pendingTransactions'[i] = pendingTransactions[i + 1]
  OBVIOUS
<1>2. Head(pendingTransactions) \in Queue
  BY <1>1 DEF Queue
<1>3. Queue' \subseteq Queue
  BY <1>1 DEF Queue
<1>4. ASSUME NEW i \in DOMAIN pendingTransactions
      PROVE  pendingTransactions[i] \in Queue' \cup {Head(pendingTransactions)}
  <2>1. CASE i = 1
    BY <1>1, <2>1
  <2>2. CASE i # 1
    <3>1. i - 1 \in DOMAIN pendingTransactions' /\ pendingTransactions'[i - 1] = pendingTransactions[i]
      BY <1>1, <2>2
    <3> QED BY <3>1 DEF Queue
  <2> QED BY <2>1, <2>2
<1> QED BY <1>1, <1>2, <1>3, <1>4 DEF Queue

\* What kind a transaction is.
LEMMA TransactionKinds ==
  ASSUME NEW t \in Transaction
  PROVE  /\ t.sql \in {"insert", "deliver", "erase", "eraseAll", "insertFile", "fileFinished"}
         /\ t.sql = "insert" => t.message \in Message /\ t = Insert(t.message)
         /\ t.sql = "deliver" => t.row \in Nat
         /\ t.sql = "insertFile" => t.file \in Files /\ t = InsertFile(t.file)
         /\ t.sql = "fileFinished" =>
               /\ t.row \in Nat /\ t.state \in {"finished", "canceled"}
               /\ t = FileFinished(t.row, t.state)
BY DEF Transaction, Insert, InsertFile, FileFinished, Erase, EraseAll

LEMMA TransactionTypes ==
  /\ \A m \in Message : Insert(m) \in Transaction
  /\ \A r \in Nat : Deliver(r) \in Transaction
  /\ {Erase, EraseAll} \subseteq Transaction
  /\ \A f \in Files : InsertFile(f) \in Transaction
  /\ \A r \in Nat, state \in {"finished", "canceled"} : FileFinished(r, state) \in Transaction
BY DEF Transaction, Insert, InsertFile, FileFinished, Deliver
-----------------------------------------------------------------------------
(* Rows *)

LEMMA NextRowIs ==
  ASSUME NEW n \in Nat, DOMAIN rows = 1..n, rows \in [DOMAIN rows -> Message \cup Files]
  PROVE  NextRow = n + 1
<1>1. CASE n = 0
  <2>1. rows = Empty
    BY <1>1 DEF Empty
  <2> QED BY <1>1, <2>1 DEF NextRow
<1>2. CASE n > 0
  <2>1. rows # Empty
    BY <1>2 DEF Empty
  <2>2. n \in 1..n /\ \A y \in 1..n : n >= y
    BY <1>2
  <2>3. Max(1..n) \in 1..n /\ \A y \in 1..n : Max(1..n) >= y
    BY <2>2 DEF Max
  <2>4. Max(1..n) = n
    BY <1>2, <2>3
  <2> QED BY <2>1, <2>4 DEF NextRow
<1> QED BY <1>1, <1>2

LEMMA NextRowIsNew ==
  ASSUME TypeOK, RowsDense
  PROVE  NextRow \in Nat /\ NextRow \notin DOMAIN rows
<1>1. PICK n \in Nat : DOMAIN rows = 1..n
  BY DEF RowsDense
<1>2. rows \in [DOMAIN rows -> Message \cup Files]
  BY DEF TypeOK
<1>3. NextRow = n + 1
  BY <1>1, <1>2, NextRowIs
<1> QED BY <1>1, <1>3

LEMMA RowsExtended ==
  ASSUME TypeOK, RowsDense, NEW x \in Message \cup Files, rows' = Extend(rows, NextRow, x)
  PROVE  /\ NextRow \in Nat /\ NextRow \notin DOMAIN rows
         /\ DOMAIN rows' = DOMAIN rows \cup {NextRow}
         /\ rows'[NextRow] = x
         /\ \A r \in DOMAIN rows : rows'[r] = rows[r]
         /\ rows' \in [DOMAIN rows' -> Message \cup Files]
         /\ DOMAIN rows' \subseteq Nat
         /\ \E n \in Nat : DOMAIN rows' = 1..n
<1>1. PICK n \in Nat : DOMAIN rows = 1..n
  BY DEF RowsDense
<1>2. NextRow = n + 1
  BY <1>1, NextRowIs DEF TypeOK
<1>3. DOMAIN rows' = 1..(n + 1)
  BY <1>1, <1>2 DEF Extend
<1> QED BY <1>1, <1>2, <1>3 DEF Extend, TypeOK
-----------------------------------------------------------------------------
(* Types, and the references between the tables *)

LEMMA InitInv == Init => IInv
<1> SUFFICES ASSUME Init PROVE IInv
  OBVIOUS
<1> USE DEF Init, Empty, Idle
<1>1. TypeOK
  BY PersistenceAssumption DEF TypeOK
<1>2. RowsDense
  <2>1. DOMAIN rows = 1..0
    OBVIOUS
  <2> QED BY <2>1 DEF RowsDense
<1>3. Queue = {}
  BY DEF Queue
<1>4. InsertedOnce /\ CompletedAcked /\ UndeliveredStaysPending /\ RowsOfMessages
  BY <1>3 DEF InsertedOnce, OneRowPerMessage, CompletedAcked, UndeliveredStaysPending, RowsOfMessages
<1>5. ErasureInv /\ FileInv
  BY <1>3 DEF ErasureInv, FileInv, FilesKnown, ResultsQueued, ResultsWritten
<1> QED BY <1>1, <1>2, <1>4, <1>5 DEF IInv

LEMMA LookUpType ==
  ASSUME NEW m \in Message, NEW S
  PROVE  /\ [at |-> "completeMessage", message |-> m, found |-> m \in S]
               \in [at : {"completeMessage"}, message : Message, found : BOOLEAN]
         /\ \A row \in Nat : [at |-> "callback", message |-> m, row |-> row, found |-> m \in S]
               \in [at : {"callback"}, message : Message, row : Nat, found : BOOLEAN]
<1>1. (m \in S) \in BOOLEAN
  OBVIOUS
<1> QED BY <1>1, Zenon

\* The GUI thread leaves the tables and the DB thread alone.
LEMMA GuiTypes ==
  ASSUME IInv, GuiStep
  PROVE  TypeOK'
<1> USE DEF TypeOK, IInv, diskVars, chatVars, fileVars, boundVars, QueueType
<1>1. UNCHANGED <<rows, pending, fileTransfers, worker>>
  BY DEF GuiStep, Send, Complete, CompleteMessage, ToggleLogging, EraseHistory, AddNewFileMessage,
         SetFileFinished, OnFileInserted
<1>2. CASE Send
  <2>1. nextMessage \in Message
    BY <1>2, PersistenceAssumption DEF Send, Message
  <2>2. pendingTransactions' \in Seq(Transaction)
    <3>1. pendingTransactions \in Seq(Transaction) /\ Insert(nextMessage) \in Transaction
      BY <2>1, TransactionTypes
    <3>2. pendingTransactions' \in {pendingTransactions, Append(pendingTransactions, Insert(nextMessage))}
      BY <1>2 DEF Send
    <3> HIDE DEF TypeOK, IInv
    <3> QED BY <3>1, <3>2, QueueAppended
  <2>3. /\ outstanding' \subseteq Message
        /\ nextMessage' \in 1..(MaxMessages + 1)
    <3>1. MaxMessages \in Nat /\ nextMessage \in 1..MaxMessages /\ outstanding \subseteq Message
      BY <2>1, PersistenceAssumption DEF Message
    <3>2. outstanding' = outstanding \cup {nextMessage} /\ nextMessage' = nextMessage + 1
      BY <1>2 DEF Send
    <3> HIDE DEF TypeOK, IInv
    <3> QED BY <2>1, <3>1, <3>2
  <2>4. UNCHANGED <<enableLogging, gui, chatVars, fileVars, acked, boundVars>>
    BY <1>2 DEF Send
  <2> QED BY <1>1, <2>2, <2>3, <2>4
<1>3. CASE Complete
  <2>1. PICK m \in outstanding :
           /\ outstanding' = outstanding \ {m}
           /\ acked' = acked \cup {m}
           /\ IF enableLogging
              THEN gui' = [at |-> "completeMessage", message |-> m,
                           found |-> m \in DOMAIN dispatchedMessageRowIdMap]
              ELSE UNCHANGED gui
    BY <1>3 DEF Complete
  <2>2. gui' \in {Idle} \cup [at : {"completeMessage"}, message : Message, found : BOOLEAN]
    <3> DEFINE looking == [at |-> "completeMessage", message |-> m,
                           found |-> m \in DOMAIN dispatchedMessageRowIdMap]
    <3>1. looking \in [at : {"completeMessage"}, message : Message, found : BOOLEAN]
      BY LookUpType
    <3>2. gui' \in {gui, looking}
      BY <2>1
    <3> HIDE DEF looking
    <3> QED BY <1>3, <3>1, <3>2 DEF Complete
  <2>4. outstanding' \subseteq Message /\ acked' \subseteq Message
    BY <2>1
  <2>3. UNCHANGED <<enableLogging, pendingTransactions, chatVars, fileVars, nextMessage, boundVars>>
    BY <1>3 DEF Complete
  <2> QED BY <1>1, <2>2, <2>3, <2>4
<1>4. CASE CompleteMessage
  <2>1. gui.message \in Message
    BY <1>4 DEF CompleteMessage, Idle
  <2>2. CASE gui.found
    <3>1. /\ gui.message \in DOMAIN dispatchedMessageRowIdMap
          /\ dispatchedMessageRowIdMap[gui.message] \in Nat
      BY <1>4, <2>2 DEF CompleteMessage, RowsOfMessages
    <3>2. pendingTransactions' \in Seq(Transaction)
      BY <1>4, <2>2, <3>1, QueueAppended, TransactionTypes DEF CompleteMessage
    <3> QED BY <1>1, <1>4, <2>1, <2>2, <3>1, <3>2 DEF CompleteMessage, Without
  <2>3. CASE ~gui.found
    BY <1>1, <1>4, <2>1, <2>3 DEF CompleteMessage
  <2> QED BY <2>2, <2>3
<1>5. CASE ToggleLogging
  <2>1. toggles' \in Nat /\ enableLogging' \in BOOLEAN /\ outstanding' \subseteq Message
    BY <1>5 DEF ToggleLogging
  <2>2. UNCHANGED <<pendingTransactions, gui, chatVars, fileVars, nextMessage, acked, crashes, erasures>>
    BY <1>5 DEF ToggleLogging
  <2> QED BY <1>1, <2>1, <2>2
<1>6. CASE EraseHistory
  <2>1. pendingTransactions' \in Seq(Transaction)
    BY <1>6, QueueAppended, TransactionTypes DEF EraseHistory
  <2>2. erasures' \in Nat /\ gui' = [at |-> "execNow"]
    BY <1>6 DEF EraseHistory
  <2>3. UNCHANGED <<enableLogging, chatVars, fileVars, outstanding, nextMessage, acked, crashes, toggles>>
    BY <1>6 DEF EraseHistory
  <2> QED BY <1>1, <2>1, <2>2, <2>3
<1>7. CASE AddNewFileMessage
  <2>1. pendingTransactions' \in Seq(Transaction)
    BY <1>7, QueueAppended, TransactionTypes DEF AddNewFileMessage
  <2>2. transfers' \in [Files -> {"new", "running", "finished", "canceled"}]
    BY <1>7 DEF AddNewFileMessage
  <2>3. UNCHANGED <<enableLogging, gui, chatVars, fileInfos, fileInserted, unrecorded, outstanding,
                    nextMessage, acked, boundVars>>
    BY <1>7 DEF AddNewFileMessage
  <2> QED BY <1>1, <2>1, <2>2, <2>3
<1>8. CASE SetFileFinished
  <2>1. PICK f \in Files, state \in {"finished", "canceled"} :
           /\ transfers' = [transfers EXCEPT ![f] = state]
           /\ IF enableLogging /\ f \in DOMAIN fileInfos
              THEN /\ pendingTransactions' =
                         Append(pendingTransactions, FileFinished(fileInfos[f], state))
                   /\ UNCHANGED unrecorded
              ELSE /\ unrecorded' = unrecorded \cup {f}
                   /\ UNCHANGED pendingTransactions
           /\ fileInfos' = IF enableLogging THEN Without(fileInfos, f) ELSE fileInfos
    BY <1>8 DEF SetFileFinished
  <2>2. pendingTransactions' \in Seq(Transaction)
    BY <2>1, QueueAppended, TransactionTypes
  <2>3. /\ \A g \in DOMAIN fileInfos' : g \in Files /\ fileInfos'[g] \in Nat
        /\ transfers' \in [Files -> {"new", "running", "finished", "canceled"}]
        /\ unrecorded' \subseteq Files
    BY <2>1 DEF Without
  <2>4. UNCHANGED <<enableLogging, gui, chatVars, fileInserted, outstanding, nextMessage, acked,
                    boundVars>>
    BY <1>8 DEF SetFileFinished
  <2> QED BY <1>1, <2>2, <2>3, <2>4
<1>9. CASE OnFileInserted
  <2>1. /\ fileInserted' \in Seq([row : Nat, file : Files])
        /\ Head(fileInserted) \in [row : Nat, file : Files]
    <3> DEFINE S == [row : Nat, file : Files]
    <3>1. fileInserted \in Seq(S) /\ fileInserted # <<>> /\ fileInserted' = Tail(fileInserted)
      BY <1>9 DEF OnFileInserted
    <3> HIDE DEF S
    <3>2. fileInserted' \in Seq(S) /\ Head(fileInserted) \in S
      BY <3>1, HeadTailProperties
    <3> QED BY <3>2 DEF S
  <2>2. \A f \in DOMAIN fileInfos' : f \in Files /\ fileInfos'[f] \in Nat
    BY <1>9, <2>1 DEF OnFileInserted, Extend
  <2>3. UNCHANGED <<enableLogging, pendingTransactions, gui, chatVars, transfers, unrecorded,
                    outstanding, nextMessage, acked, boundVars>>
    BY <1>9 DEF OnFileInserted
  <2> QED BY <1>1, <2>1, <2>2, <2>3
<1> QED BY <1>2, <1>3, <1>4, <1>5, <1>6, <1>7, <1>8, <1>9 DEF GuiStep

\* The DB thread changes the tables in an order that keeps the references.
LEMMA WorkerTypes ==
  ASSUME IInv, WorkerStep
  PROVE  TypeOK'
<1> USE DEF TypeOK, IInv, diskVars, chatVars, fileVars, boundVars, QueueType, Idle
<1>1. /\ UNCHANGED <<enableLogging, fileInfos, transfers, unrecorded, outstanding, nextMessage, acked,
                      boundVars>>
      /\ gui' \in {gui, Idle}
  BY DEF WorkerStep, InsertMessage, HandleDispatchedMessage, DeliverMessage, InsertFileTransfer,
         UpdateFileTransfer, EraseMessages, ErasePending, EraseTransfers, EraseRows
<1>2. CASE InsertMessage
  <2>1. /\ Head(pendingTransactions).message \in Message
        /\ pendingTransactions' \in Seq(Transaction)
    BY <1>2, QueueTaken, QueueElement, TransactionKinds DEF InsertMessage, Take
  <2>2. NextRow \in Nat
    BY NextRowIsNew
  <2>3. worker' \in [at : {"callback"}, message : Message, row : Nat, found : BOOLEAN]
    <3> DEFINE m == Head(pendingTransactions).message
               looking == [at |-> "callback", message |-> m, row |-> NextRow,
                           found |-> m \in completedMessages]
    <3>1. worker' = looking
      BY <1>2 DEF InsertMessage
    <3>2. looking \in [at : {"callback"}, message : Message, row : Nat, found : BOOLEAN]
      BY <2>1, <2>2, LookUpType
    <3> HIDE DEF looking
    <3> QED BY <3>1, <3>2
  <2>4. UNCHANGED <<diskVars, gui, chatVars, fileInserted>>
    BY <1>2 DEF InsertMessage
  <2> QED BY <1>1, <2>1, <2>3, <2>4
<1>3. CASE HandleDispatchedMessage
  <2>1. worker.message \in Message /\ worker.row \in Nat /\ worker.row = NextRow /\ worker' = Idle
    BY <1>3 DEF HandleDispatchedMessage, RowsDense
  <2>2. pendingTransactions' \in Seq(Transaction)
    BY <1>3, <2>1, QueueAppended, TransactionTypes DEF HandleDispatchedMessage
  <2>3. /\ DOMAIN rows' = DOMAIN rows \cup {NextRow} /\ DOMAIN rows' \subseteq Nat
        /\ rows' \in [DOMAIN rows' -> Message \cup Files]
        /\ \A r \in DOMAIN rows : rows'[r] = rows[r]
        /\ rows'[NextRow] = worker.message
    BY <1>3, <2>1, RowsExtended DEF HandleDispatchedMessage
  <2>4. pending' = pending \cup {NextRow} /\ UNCHANGED <<fileTransfers, gui, fileInserted>>
    BY <1>3, <2>1 DEF HandleDispatchedMessage
  <2>5. /\ pending' \subseteq {r \in DOMAIN rows' : rows'[r] \in Message}
        /\ DOMAIN fileTransfers' \subseteq {r \in DOMAIN rows' : rows'[r] \in Files}
    BY <2>1, <2>3, <2>4
  <2>6. /\ DOMAIN dispatchedMessageRowIdMap' \subseteq Message
        /\ dispatchedMessageRowIdMap' \in [DOMAIN dispatchedMessageRowIdMap' -> Nat]
        /\ completedMessages' \subseteq Message
    BY <1>3, <2>1 DEF HandleDispatchedMessage, Extend
  <2> QED BY <1>1, <2>1, <2>2, <2>3, <2>4, <2>5, <2>6
<1>4. CASE DeliverMessage
  <2>1. pendingTransactions' \in Seq(Transaction)
    BY <1>4, QueueTaken DEF DeliverMessage
  <2> QED BY <1>1, <1>4, <2>1 DEF DeliverMessage
<1>5. CASE InsertFileTransfer
  <2> DEFINE f == Head(pendingTransactions).file
             S == [row : Nat, file : Files]
  <2>1. f \in Files /\ pendingTransactions' \in Seq(Transaction)
    BY <1>5, QueueTaken, QueueElement, TransactionKinds DEF InsertFileTransfer, Take
  <2>2. /\ NextRow \in Nat
        /\ DOMAIN rows' = DOMAIN rows \cup {NextRow} /\ DOMAIN rows' \subseteq Nat
        /\ rows' \in [DOMAIN rows' -> Message \cup Files]
        /\ \A r \in DOMAIN rows : rows'[r] = rows[r]
        /\ rows'[NextRow] = f
    BY <1>5, <2>1, RowsExtended DEF InsertFileTransfer
  <2>3. DOMAIN fileTransfers' = DOMAIN fileTransfers \cup {NextRow} /\ pending' = pending
    BY <1>5 DEF InsertFileTransfer, Extend
  <2>4. /\ pending' \subseteq {r \in DOMAIN rows' : rows'[r] \in Message}
        /\ DOMAIN fileTransfers' \subseteq {r \in DOMAIN rows' : rows'[r] \in Files}
    BY <2>1, <2>2, <2>3
  <2>5. fileInserted' \in Seq(S)
    <3>1. [row |-> NextRow, file |-> f] \in S /\ fileInserted \in Seq(S)
      BY <2>1, <2>2
    <3>2. fileInserted' = Append(fileInserted, [row |-> NextRow, file |-> f])
      BY <1>5 DEF InsertFileTransfer
    <3> HIDE DEF S, f
    <3> QED BY <3>1, <3>2, AppendProperties
  <2>6. UNCHANGED <<worker, gui, chatVars>>
    BY <1>5 DEF InsertFileTransfer
  <2> QED BY <1>1, <2>1, <2>2, <2>4, <2>5, <2>6
<1>6. CASE UpdateFileTransfer
  <2>1. pendingTransactions' \in Seq(Transaction)
    BY <1>6, QueueTaken DEF UpdateFileTransfer
  <2>2. DOMAIN fileTransfers' = DOMAIN fileTransfers
    BY <1>6 DEF UpdateFileTransfer
  <2> QED BY <1>1, <1>6, <2>1, <2>2 DEF UpdateFileTransfer
<1>7. CASE EraseMessages
  <2>1. pendingTransactions' \in Seq(Transaction)
    BY <1>7, QueueTaken DEF EraseMessages
  <2> QED BY <1>1, <1>7, <2>1 DEF EraseMessages, Empty
<1>8. CASE ErasePending
  <2>1. pendingTransactions' \in Seq(Transaction)
    BY <1>8, QueueTaken DEF ErasePending
  <2> QED BY <1>1, <1>8, <2>1 DEF ErasePending
<1>9. CASE EraseTransfers
  BY <1>1, <1>9 DEF EraseTransfers, Empty
<1>10. CASE EraseRows
  <2>1. pending = {}
    BY <1>10 DEF EraseRows, ErasureInv
  <2> QED BY <1>1, <1>10, <2>1 DEF EraseRows, Empty
<1> QED BY <1>2, <1>3, <1>4, <1>5, <1>6, <1>7, <1>8, <1>9, <1>10 DEF WorkerStep

LEMMA RestartTypes ==
  ASSUME IInv, Restart
  PROVE  TypeOK'
<1> USE DEF TypeOK, IInv, diskVars, Idle
<1>1. UNCHANGED <<rows, pending, fileTransfers, enableLogging, nextMessage, acked, toggles, erasures>>
  BY DEF Restart
<1>2. /\ pendingTransactions' = <<>> /\ worker' = Idle /\ gui' = Idle /\ completedMessages' = {}
      /\ crashes' \in Nat
  BY DEF Restart
<1>3. /\ outstanding' \subseteq Message
      /\ DOMAIN dispatchedMessageRowIdMap' \subseteq Message
      /\ dispatchedMessageRowIdMap' \in [DOMAIN dispatchedMessageRowIdMap' -> Nat]
  <2> DEFINE unsent == IF enableLogging THEN pending ELSE {}
  <2>1. /\ unsent \subseteq pending
        /\ outstanding' = {rows[r] : r \in unsent}
        /\ dispatchedMessageRowIdMap' = [m \in outstanding' |-> CHOOSE r \in unsent : rows[r] = m]
    BY DEF Restart
  <2> HIDE DEF unsent
  <2>2. \A m \in outstanding' : m \in Message /\ (CHOOSE r \in unsent : rows[r] = m) \in Nat
    BY <2>1
  <2> QED BY <2>1, <2>2
<1>4. /\ fileInfos' = Empty /\ fileInserted' = <<>>
      /\ transfers' \in [Files -> {"new", "running", "finished", "canceled"}]
  BY DEF Restart, TransfersEnd
<1>5. unrecorded' \subseteq Files
  BY DEF Restart, TransfersEnd
<1> QED BY <1>1, <1>2, <1>3, <1>4, <1>5 DEF Empty
-----------------------------------------------------------------------------
(* RowsDense *)

LEMMA RowsDenseStep ==
  ASSUME IInv, Next
  PROVE  RowsDense'
<1> USE DEF IInv, RowsDense, diskVars, Idle
<1>1. CASE GuiStep \/ DeliverMessage \/ UpdateFileTransfer \/ EraseTransfers
  <2>1. UNCHANGED <<rows, worker>>
    BY <1>1 DEF GuiStep, Send, Complete, CompleteMessage, ToggleLogging, EraseHistory,
          AddNewFileMessage, SetFileFinished, OnFileInserted, DeliverMessage, UpdateFileTransfer,
          EraseTransfers
  <2> QED BY <2>1 DEF NextRow
<1>2. CASE Restart \/ ErasePending
  BY <1>2 DEF Restart, ErasePending
<1>3. CASE InsertMessage
  BY <1>3 DEF InsertMessage, NextRow
<1>4. CASE HandleDispatchedMessage
  <2>1. worker.message \in Message /\ worker.row = NextRow
    BY <1>4 DEF HandleDispatchedMessage, TypeOK
  <2> QED BY <1>4, <2>1, RowsExtended DEF HandleDispatchedMessage
<1>5. CASE InsertFileTransfer
  <2>1. Head(pendingTransactions).file \in Files
    BY <1>5, QueueTaken, QueueElement, TransactionKinds DEF InsertFileTransfer, Take, TypeOK, QueueType
  <2> QED BY <1>5, <2>1, RowsExtended DEF InsertFileTransfer, Take
<1>6. CASE EraseMessages \/ EraseRows
  <2>1. rows' = Empty /\ worker' = Idle
    BY <1>6 DEF EraseMessages, EraseRows, Take
  <2>2. DOMAIN rows' = 1..0
    BY <2>1 DEF Empty
  <2> QED BY <2>1, <2>2
<1> QED BY <1>1, <1>2, <1>3, <1>4, <1>5, <1>6 DEF Next, WorkerStep
-----------------------------------------------------------------------------
(* InsertedOnce *)

Items == Message \cup Files

LEMMA AddsOne ==
  /\ \A x, y : Adds(Insert(x), y) <=> x = y
  /\ \A x, y : Adds(InsertFile(x), y) <=> x = y
  /\ \A t, x : Adds(t, x) => t.sql \in {"insert", "insertFile"}
BY DEF Adds, Insert, InsertFile

\* A message that was sent stays sent, a transfer that has begun stays begun.
LEMMA BegunStays ==
  ASSUME IInv, Next, NEW x \in Items, Begun(x)
  PROVE  Begun(x)'
<1>1. nextMessage' \in {nextMessage, nextMessage + 1} /\ nextMessage \in Nat
  BY PersistenceAssumption DEF Next, GuiStep, WorkerStep, Send, Complete, CompleteMessage, ToggleLogging, EraseHistory,
        AddNewFileMessage, SetFileFinished, OnFileInserted, InsertMessage, HandleDispatchedMessage,
        DeliverMessage, InsertFileTransfer, UpdateFileTransfer, EraseMessages, ErasePending,
        EraseTransfers, EraseRows, Restart, IInv, TypeOK
<1>2. x \in Files /\ transfers[x] # "new" => transfers'[x] # "new"
  <2>1. CASE AddNewFileMessage
    BY <2>1 DEF AddNewFileMessage, IInv, TypeOK
  <2>2. CASE SetFileFinished
    BY <2>2 DEF SetFileFinished, IInv, TypeOK
  <2>3. CASE Restart
    BY <2>3 DEF Restart, TransfersEnd
  <2>4. CASE transfers' = transfers
    BY <2>4
  <2> QED BY <2>1, <2>2, <2>3, <2>4
        DEF Next, GuiStep, WorkerStep, Send, Complete, CompleteMessage, ToggleLogging, EraseHistory,
            OnFileInserted, InsertMessage, HandleDispatchedMessage, DeliverMessage,
            InsertFileTransfer, UpdateFileTransfer, EraseMessages, ErasePending, EraseTransfers,
            EraseRows, fileVars
<1>3. x \in Items \ Files => x \in Nat
  BY DEF Items, Message
<1> QED BY <1>1, <1>2, <1>3 DEF Begun

\* A step that queues nothing to insert.
LEMMA OnceIfNothingNew ==
  ASSUME IInv, Next, UNCHANGED <<rows, worker>>,
         \/ pendingTransactions' = pendingTransactions
         \/ \E t \in Transaction : /\ t.sql \notin {"insert", "insertFile"}
                                   /\ pendingTransactions' = Append(pendingTransactions, t)
  PROVE  InsertedOnce'
<1> USE DEF IInv
<1>0. \A x \in Items : Begun(x) => Begun(x)'
  BY BegunStays
<1>q. QueueType /\ \A r \in DOMAIN rows : rows[r] \in Items
  BY DEF TypeOK, QueueType, Items
<1>1. \A i \in DOMAIN pendingTransactions' : \A x :
         Adds(pendingTransactions'[i], x) =>
            i \in DOMAIN pendingTransactions /\ pendingTransactions[i] = pendingTransactions'[i]
  <2>1. CASE pendingTransactions' = pendingTransactions
    BY <2>1
  <2>2. ASSUME NEW t \in Transaction, t.sql \notin {"insert", "insertFile"},
               pendingTransactions' = Append(pendingTransactions, t),
               NEW i \in DOMAIN pendingTransactions', NEW x, Adds(pendingTransactions'[i], x)
        PROVE  i \in DOMAIN pendingTransactions /\ pendingTransactions[i] = pendingTransactions'[i]
    <3>1. /\ Len(pendingTransactions) \in Nat
          /\ DOMAIN pendingTransactions = 1..Len(pendingTransactions)
          /\ DOMAIN pendingTransactions' = 1..(Len(pendingTransactions) + 1)
          /\ pendingTransactions'[Len(pendingTransactions) + 1] = t
          /\ \A j \in DOMAIN pendingTransactions : pendingTransactions'[j] = pendingTransactions[j]
      BY <1>q, <2>2, QueueAppended
    <3>2. pendingTransactions'[i] # t
      BY <2>2, AddsOne
    <3> QED BY <3>1, <3>2
  <2> QED BY <2>1, <2>2
<1>2. \A t \in Queue' : \A x : Adds(t, x) => t \in Queue
  BY <1>1 DEF Queue
<1>3. OneRowPerMessage' /\ \A x : InRows(x)' <=> InRows(x)
  BY DEF InsertedOnce, OneRowPerMessage, InRows
<1>4. \A r \in DOMAIN rows' : Begun(rows[r])'
  BY <1>0, <1>q DEF InsertedOnce
<1>5. ASSUME NEW i \in DOMAIN pendingTransactions', NEW x \in Items, Adds(pendingTransactions'[i], x)
      PROVE  /\ Begun(x)' /\ ~InRows(x)'
             /\ \A j \in DOMAIN pendingTransactions' : Adds(pendingTransactions'[j], x) => j = i
  <2>1. /\ Begun(x) /\ ~InRows(x)
        /\ \A j \in DOMAIN pendingTransactions : Adds(pendingTransactions[j], x) => j = i
    BY <1>1, <1>5 DEF InsertedOnce, Items
  <2> QED BY <1>1, <1>3, <2>1, <1>0
<1>6. worker'.at = "callback" =>
        /\ Begun(worker.message)' /\ ~InRows(worker.message)'
        /\ \A t \in Queue' : ~Adds(t, worker'.message)
  <2>1. worker.at = "callback" => worker.message \in Items
    BY DEF TypeOK, Items, Idle
  <2> QED BY <1>0, <1>2, <1>3, <2>1 DEF InsertedOnce
<1> QED BY <1>3, <1>4, <1>5, <1>6 DEF InsertedOnce, Items, InRows

\* The DB thread takes a transaction, and nothing comes into the table.
LEMMA OnceIfTaken ==
  ASSUME IInv, Next, NEW sql, Take(sql), rows' \in {rows, Empty},
         \/ worker'.at # "callback"
         \/ /\ worker'.message \in Message
            /\ Head(pendingTransactions) = Insert(worker'.message)
  PROVE  InsertedOnce'
<1> USE DEF IInv
<1>0. \A x \in Items : Begun(x) => Begun(x)'
  BY BegunStays
<1>q. QueueType /\ \A r \in DOMAIN rows : rows[r] \in Items
  BY DEF TypeOK, QueueType, Items
<1>1. /\ Len(pendingTransactions) \in Nat
      /\ DOMAIN pendingTransactions = 1..Len(pendingTransactions)
      /\ DOMAIN pendingTransactions' = 1..(Len(pendingTransactions) - 1)
      /\ \A i \in DOMAIN pendingTransactions' : pendingTransactions'[i] = pendingTransactions[i + 1]
      /\ Len(pendingTransactions) >= 1 /\ Head(pendingTransactions) = pendingTransactions[1]
  BY <1>q, QueueTaken
<1>2. OneRowPerMessage' /\ \A x : InRows(x)' => InRows(x)
  BY DEF InsertedOnce, OneRowPerMessage, InRows, Empty
<1>3. \A r \in DOMAIN rows' : Begun(rows[r])'
  BY <1>0, <1>q DEF InsertedOnce, Empty
<1>4. ASSUME NEW i \in DOMAIN pendingTransactions', NEW x \in Items, Adds(pendingTransactions'[i], x)
      PROVE  /\ Begun(x)' /\ ~InRows(x)'
             /\ \A j \in DOMAIN pendingTransactions' : Adds(pendingTransactions'[j], x) => j = i
  <2>1. /\ Begun(x) /\ ~InRows(x)
        /\ \A j \in DOMAIN pendingTransactions : Adds(pendingTransactions[j], x) => j = i + 1
    BY <1>1, <1>4 DEF InsertedOnce, Items
  <2> QED BY <1>1, <1>2, <2>1, <1>0
<1>5. ASSUME worker'.at = "callback"
      PROVE  /\ Begun(worker.message)' /\ ~InRows(worker.message)'
             /\ \A t \in Queue' : ~Adds(t, worker'.message)
  <2> DEFINE m == worker'.message
  <2>1. m \in Items /\ Adds(pendingTransactions[1], m)
    BY <1>1, <1>5, AddsOne DEF Items
  <2>2. /\ Begun(m) /\ ~InRows(m)
        /\ \A j \in DOMAIN pendingTransactions : Adds(pendingTransactions[j], m) => j = 1
    BY <1>1, <2>1 DEF InsertedOnce, Items
  <2>3. \A i \in DOMAIN pendingTransactions' : ~Adds(pendingTransactions'[i], m)
    BY <1>1, <2>2
  <2>4. \A t \in Queue' : ~Adds(t, m)
    BY <2>3 DEF Queue
  <2> QED BY <1>2, <2>1, <2>2, <2>4, <1>0
<1> QED BY <1>2, <1>3, <1>4, <1>5 DEF InsertedOnce, Items

\* A step that queues x, which was not there before.
LEMMA OnceIfNew ==
  ASSUME IInv, Next, UNCHANGED <<rows, worker>>,
         NEW x \in Items, ~Begun(x), Begun(x)',
         \/ pendingTransactions' = pendingTransactions
         \/ \E t \in Transaction : /\ \A y : Adds(t, y) => y = x
                                   /\ pendingTransactions' = Append(pendingTransactions, t)
  PROVE  InsertedOnce'
<1> USE DEF IInv
<1>0. \A y \in Items : Begun(y) => Begun(y)'
  BY BegunStays
<1>q. /\ QueueType /\ \A r \in DOMAIN rows : rows[r] \in Items
      /\ worker.at = "callback" => worker.message \in Items
  BY DEF TypeOK, QueueType, Items, Idle
<1>1. CASE pendingTransactions' = pendingTransactions
  BY <1>1, OnceIfNothingNew
<1>2. ASSUME NEW t \in Transaction, \A y : Adds(t, y) => y = x,
             pendingTransactions' = Append(pendingTransactions, t)
      PROVE  InsertedOnce'
  <2> DEFINE last == Len(pendingTransactions) + 1
  <2>1. /\ Len(pendingTransactions) \in Nat
        /\ DOMAIN pendingTransactions = 1..Len(pendingTransactions)
        /\ DOMAIN pendingTransactions' = 1..last
        /\ pendingTransactions'[last] = t
        /\ \A i \in DOMAIN pendingTransactions : pendingTransactions'[i] = pendingTransactions[i]
        /\ Queue' = Queue \cup {t}
    BY <1>q, <1>2, QueueAppended
  <2>2. /\ ~InRows(x) /\ (worker.at = "callback" => worker.message # x)
        /\ \A i \in DOMAIN pendingTransactions : ~Adds(pendingTransactions[i], x)
    BY <1>q DEF InsertedOnce, InRows, Items
  <2>3. OneRowPerMessage' /\ \A y : InRows(y)' <=> InRows(y)
    BY DEF InsertedOnce, OneRowPerMessage, InRows
  <2>4. \A r \in DOMAIN rows' : Begun(rows[r])'
    BY <1>0, <1>q DEF InsertedOnce
  <2>5. ASSUME NEW i \in DOMAIN pendingTransactions', NEW y \in Items, Adds(pendingTransactions'[i], y)
        PROVE  /\ Begun(y)' /\ ~InRows(y)'
               /\ \A j \in DOMAIN pendingTransactions' : Adds(pendingTransactions'[j], y) => j = i
    <3>1. CASE i = last
      <4>1. y = x
        BY <1>2, <2>1, <2>5, <3>1
      <4>2. \A j \in DOMAIN pendingTransactions' : j # last => ~Adds(pendingTransactions'[j], x)
        BY <2>1, <2>2
      <4> QED BY <2>2, <2>3, <3>1, <4>1, <4>2
    <3>2. CASE i # last
      <4>1. i \in DOMAIN pendingTransactions /\ Adds(pendingTransactions[i], y)
        BY <2>1, <2>5, <3>2
      <4>2. /\ Begun(y) /\ ~InRows(y) /\ y # x
            /\ \A j \in DOMAIN pendingTransactions : Adds(pendingTransactions[j], y) => j = i
        BY <2>2, <4>1 DEF InsertedOnce, Items
      <4>3. ~Adds(pendingTransactions'[last], y)
        BY <1>2, <2>1, <4>2
      <4>4. \A j \in DOMAIN pendingTransactions' : Adds(pendingTransactions'[j], y) => j = i
        BY <2>1, <4>2, <4>3
      <4> QED BY <1>0, <2>3, <4>2, <4>4
    <3> QED BY <3>1, <3>2
  <2>6. worker'.at = "callback" =>
          /\ Begun(worker.message)' /\ ~InRows(worker.message)'
          /\ \A u \in Queue' : ~Adds(u, worker'.message)
    BY <1>0, <1>q, <1>2, <2>1, <2>2, <2>3 DEF InsertedOnce
  <2> QED BY <2>3, <2>4, <2>5, <2>6 DEF InsertedOnce, Items
<1> QED BY <1>1, <1>2

\* What is queued for insertion now was so before, k places further back.
Moved(k) ==
    \A j \in DOMAIN pendingTransactions' : \A x :
        Adds(pendingTransactions'[j], x) =>
            /\ j \in Nat /\ j + k \in DOMAIN pendingTransactions
            /\ pendingTransactions[j + k] = pendingTransactions'[j]

\* A step in which x comes into the table.
LEMMA OnceIfInserted ==
  ASSUME IInv, Next, NEW x \in Items, Begun(x), ~InRows(x), rows' = Extend(rows, NextRow, x),
         worker'.at # "callback",
         NEW k \in {0, 1}, Moved(k),
         \A j \in DOMAIN pendingTransactions' : ~Adds(pendingTransactions'[j], x)
  PROVE  InsertedOnce'
<1> USE DEF IInv
<1>0. \A y \in Items : Begun(y) => Begun(y)'
  BY BegunStays
<1>q. \A r \in DOMAIN rows : rows[r] \in Items
  BY DEF TypeOK, Items
<1>1. /\ NextRow \notin DOMAIN rows
      /\ DOMAIN rows' = DOMAIN rows \cup {NextRow}
      /\ rows'[NextRow] = x
      /\ \A r \in DOMAIN rows : rows'[r] = rows[r]
  BY RowsExtended, NextRowIsNew DEF Items
<1>2. \A y : InRows(y)' => InRows(y) \/ y = x
  BY <1>1 DEF InRows
<1>3. OneRowPerMessage'
  BY <1>1 DEF OneRowPerMessage, InRows, InsertedOnce
<1>4. \A r \in DOMAIN rows' : Begun(rows[r])'
  BY <1>0, <1>1, <1>q DEF InsertedOnce
<1>5. ASSUME NEW i \in DOMAIN pendingTransactions', NEW y \in Items, Adds(pendingTransactions'[i], y)
      PROVE  /\ Begun(y)' /\ ~InRows(y)'
             /\ \A j \in DOMAIN pendingTransactions' : Adds(pendingTransactions'[j], y) => j = i
  <2>1. /\ y # x /\ i \in Nat
        /\ i + k \in DOMAIN pendingTransactions /\ Adds(pendingTransactions[i + k], y)
    BY <1>5 DEF Moved
  <2>2. /\ Begun(y) /\ ~InRows(y)
        /\ \A j \in DOMAIN pendingTransactions : Adds(pendingTransactions[j], y) => j = i + k
    BY <2>1 DEF InsertedOnce, Items
  <2>3. \A j \in DOMAIN pendingTransactions' : Adds(pendingTransactions'[j], y) => j \in Nat /\ j + k = i + k
    BY <2>2 DEF Moved
  <2> QED BY <1>0, <1>2, <2>1, <2>2, <2>3
<1> QED BY <1>3, <1>4, <1>5 DEF InsertedOnce, Items

LEMMA InsertedOnceStep ==
  ASSUME IInv, Next
  PROVE  InsertedOnce'
<1> USE DEF diskVars
<1>q. TypeOK /\ QueueType
  BY DEF IInv, TypeOK, QueueType
<1>1. CASE Send
  <2>1. PICK m \in Message : m = nextMessage /\ m \notin Files
    BY <1>1, <1>q, PersistenceAssumption DEF Send, Message, TypeOK
  <2>2. m \in Items /\ ~Begun(m) /\ Begun(m)'
    BY <1>1, <2>1 DEF Send, Items, Message, Begun
  <2>4. \/ pendingTransactions' = pendingTransactions
        \/ \E t \in Transaction : /\ \A y : Adds(t, y) => y = m
                                  /\ pendingTransactions' = Append(pendingTransactions, t)
    BY <1>1, <2>1, TransactionTypes, AddsOne DEF Send
  <2>3. UNCHANGED <<rows, worker>>
    BY <1>1 DEF Send
  <2> QED BY <2>2, <2>3, <2>4, OnceIfNew
<1>2. CASE AddNewFileMessage
  <2>1. PICK f \in Files :
          /\ transfers[f] = "new"
          /\ transfers' = [transfers EXCEPT ![f] = "running"]
          /\ \/ pendingTransactions' = Append(pendingTransactions, InsertFile(f))
             \/ pendingTransactions' = pendingTransactions
    BY <1>2 DEF AddNewFileMessage
  <2>2. f \in Items /\ ~Begun(f) /\ Begun(f)'
    BY <1>q, <2>1 DEF Items, Begun, TypeOK
  <2>3. InsertFile(f) \in Transaction /\ \A y : Adds(InsertFile(f), y) => y = f
    BY AddsOne, TransactionTypes
  <2>4. UNCHANGED <<rows, worker>>
    BY <1>2 DEF AddNewFileMessage
  <2> QED BY <2>1, <2>2, <2>3, <2>4, OnceIfNew
<1>3. CASE Complete \/ CompleteMessage \/ ToggleLogging \/ EraseHistory \/ SetFileFinished \/ OnFileInserted
            \/ EraseTransfers
  <2>1. UNCHANGED <<rows, worker>>
    BY <1>3 DEF Complete, CompleteMessage, ToggleLogging, EraseHistory, SetFileFinished,
                OnFileInserted, EraseTransfers
  <2>2. \/ pendingTransactions' = pendingTransactions
        \/ \E t \in Transaction : /\ t.sql \notin {"insert", "insertFile"}
                                  /\ pendingTransactions' = Append(pendingTransactions, t)
    <3>1. CASE CompleteMessage
      <4>1. gui.found => dispatchedMessageRowIdMap[gui.message] \in Nat
        BY <3>1 DEF CompleteMessage, IInv, TypeOK, RowsOfMessages
      <4> QED BY <3>1, <4>1, TransactionTypes DEF CompleteMessage, Deliver
    <3>2. CASE EraseHistory
      BY <3>2, TransactionTypes DEF EraseHistory, Erase, EraseAll
    <3>3. CASE SetFileFinished
      <4>1. PICK f \in Files, state \in {"finished", "canceled"} :
              \/ /\ f \in DOMAIN fileInfos
                 /\ pendingTransactions' = Append(pendingTransactions, FileFinished(fileInfos[f], state))
              \/ pendingTransactions' = pendingTransactions
        BY <3>3 DEF SetFileFinished
      <4>2. \A r \in Nat : /\ FileFinished(r, state) \in Transaction
                           /\ FileFinished(r, state).sql \notin {"insert", "insertFile"}
        BY TransactionTypes DEF FileFinished
      <4> QED BY <1>q, <4>1, <4>2 DEF TypeOK
    <3> QED BY <1>3, <3>1, <3>2, <3>3 DEF Complete, ToggleLogging, OnFileInserted, EraseTransfers
  <2> QED BY <2>1, <2>2, OnceIfNothingNew
<1>4. CASE InsertMessage
  <2>1. /\ Head(pendingTransactions).message \in Message
        /\ Head(pendingTransactions) = Insert(Head(pendingTransactions).message)
        /\ Take("insert")
    BY <1>4, <1>q, QueueTaken, QueueElement, TransactionKinds DEF InsertMessage, Take
  <2>2. rows' = rows /\ worker'.message = Head(pendingTransactions).message
    BY <1>4 DEF InsertMessage
  <2> QED BY <2>1, <2>2, OnceIfTaken
<1>5. CASE HandleDispatchedMessage
  <2> DEFINE m == worker.message
  <2>1. m \in Items /\ Begun(m) /\ ~InRows(m) /\ rows' = Extend(rows, NextRow, m) /\ worker'.at # "callback"
    BY <1>5 DEF HandleDispatchedMessage, IInv, TypeOK, InsertedOnce, RowsDense, Items, Idle
  <2>2. worker.row \in Nat
    BY <1>5, <1>q DEF HandleDispatchedMessage, TypeOK, Idle
  <2>3. /\ \A j \in DOMAIN pendingTransactions' : ~Adds(pendingTransactions'[j], m)
        /\ Moved(0)
    <3>1. \A j \in DOMAIN pendingTransactions : j \in Nat /\ ~Adds(pendingTransactions[j], m)
      BY <1>5, <1>q, QueueElement DEF HandleDispatchedMessage, IInv, InsertedOnce
    <3>2. CASE pendingTransactions' = pendingTransactions
      BY <3>1, <3>2 DEF Moved
    <3>3. CASE pendingTransactions' = Append(pendingTransactions, Deliver(worker.row))
      <4>1. Deliver(worker.row) \in Transaction /\ \A x : ~Adds(Deliver(worker.row), x)
        BY <2>2, TransactionTypes, AddsOne DEF Deliver
      <4>2. /\ Len(pendingTransactions) \in Nat
            /\ DOMAIN pendingTransactions = 1..Len(pendingTransactions)
            /\ DOMAIN pendingTransactions' = 1..(Len(pendingTransactions) + 1)
            /\ pendingTransactions'[Len(pendingTransactions) + 1] = Deliver(worker.row)
            /\ \A i \in DOMAIN pendingTransactions : pendingTransactions'[i] = pendingTransactions[i]
        BY <1>q, <3>3, <4>1, QueueAppended
      <4>3. \A j \in DOMAIN pendingTransactions' : \A x : Adds(pendingTransactions'[j], x) =>
               j \in DOMAIN pendingTransactions /\ pendingTransactions'[j] = pendingTransactions[j]
        BY <4>1, <4>2
      <4> QED BY <3>1, <4>2, <4>3 DEF Moved
    <3> QED BY <1>5, <3>2, <3>3 DEF HandleDispatchedMessage
  <2> QED BY <2>1, <2>3, OnceIfInserted
<1>6. CASE InsertFileTransfer
  <2> DEFINE f == Head(pendingTransactions).file
  <2>1. /\ f \in Items /\ Head(pendingTransactions) = InsertFile(f)
        /\ Take("insertFile") /\ rows' = Extend(rows, NextRow, f) /\ worker'.at # "callback"
    BY <1>6, <1>q, QueueTaken, QueueElement, TransactionKinds
       DEF InsertFileTransfer, Take, Items, Idle
  <2>2. /\ 1 \in DOMAIN pendingTransactions /\ pendingTransactions[1] = InsertFile(f)
        /\ \A i \in DOMAIN pendingTransactions' :
              /\ i \in Nat \ {0} /\ i + 1 \in DOMAIN pendingTransactions
              /\ pendingTransactions'[i] = pendingTransactions[i + 1]
    BY <1>q, <2>1, QueueTaken
  <2>3. /\ Begun(f) /\ ~InRows(f)
        /\ \A j \in DOMAIN pendingTransactions : Adds(pendingTransactions[j], f) => j = 1
    BY <2>1, <2>2, AddsOne DEF IInv, InsertedOnce, Items
  <2>4. Moved(1) /\ \A j \in DOMAIN pendingTransactions' : ~Adds(pendingTransactions'[j], f)
    BY <2>2, <2>3 DEF Moved
  <2> QED BY <2>1, <2>3, <2>4, OnceIfInserted
<1>7. CASE DeliverMessage \/ UpdateFileTransfer \/ EraseMessages \/ ErasePending
  <2>1. \E sql : Take(sql)
    BY <1>7 DEF DeliverMessage, UpdateFileTransfer, EraseMessages, ErasePending
  <2>2. rows' \in {rows, Empty} /\ worker'.at # "callback"
    BY <1>7 DEF DeliverMessage, UpdateFileTransfer, EraseMessages, ErasePending, Take, Idle
  <2> QED BY <2>1, <2>2, OnceIfTaken
<1>8. CASE EraseRows
  <2>1. /\ rows' = Empty /\ worker' = Idle
        /\ UNCHANGED <<pendingTransactions, transfers, nextMessage>>
    BY <1>8 DEF EraseRows, fileVars
  <2>2. \A x : ~InRows(x)'
    BY <2>1 DEF InRows, Empty
  <2> QED BY <2>1, <2>2 DEF IInv, InsertedOnce, OneRowPerMessage, Begun, Empty, Idle
<1>9. CASE Restart
  <2>1. rows' = rows /\ pendingTransactions' = <<>> /\ worker' = Idle
    BY <1>9 DEF Restart
  <2>2. OneRowPerMessage' /\ \A r \in DOMAIN rows' : Begun(rows[r])'
    <3>1. \A r \in DOMAIN rows : rows[r] \in Items /\ Begun(rows[r])
      BY <1>q DEF IInv, InsertedOnce, TypeOK, Items
    <3> QED BY <2>1, <3>1, BegunStays DEF IInv, InsertedOnce, OneRowPerMessage
  <2> QED BY <2>1, <2>2 DEF InsertedOnce, Idle
<1> QED BY <1>1, <1>2, <1>3, <1>4, <1>5, <1>6, <1>7, <1>8, <1>9 DEF Next, GuiStep, WorkerStep
-----------------------------------------------------------------------------
(* Completions *)

LEMMA CompletedAckedStep ==
  ASSUME IInv, Next
  PROVE  CompletedAcked'
<1> USE DEF IInv, CompletedAcked, chatVars, Idle
<1>1. CASE Complete
  BY <1>1 DEF Complete
<1>2. CASE CompleteMessage
  BY <1>2 DEF CompleteMessage
<1>3. CASE InsertMessage
  BY <1>3 DEF InsertMessage
<1>4. CASE HandleDispatchedMessage
  BY <1>4 DEF HandleDispatchedMessage
<1>5. CASE Send \/ ToggleLogging \/ EraseHistory \/ AddNewFileMessage \/ SetFileFinished \/ OnFileInserted
  BY <1>5 DEF Send, ToggleLogging, EraseHistory, AddNewFileMessage, SetFileFinished, OnFileInserted
<1>6. CASE DeliverMessage \/ InsertFileTransfer \/ UpdateFileTransfer \/ EraseMessages \/ ErasePending
            \/ EraseTransfers \/ EraseRows
  BY <1>6 DEF DeliverMessage, InsertFileTransfer, UpdateFileTransfer, EraseMessages, ErasePending,
              EraseTransfers, EraseRows
<1>7. CASE Restart
  BY <1>7 DEF Restart
<1> QED BY <1>1, <1>2, <1>3, <1>4, <1>5, <1>6, <1>7 DEF Next, GuiStep, WorkerStep

\* Until rows are erased, rows only come.
LEMMA RowsStay ==
  ASSUME IInv, Next, RowIdsFresh'
  PROVE  /\ RowIdsFresh
         /\ \A r \in DOMAIN rows : r \in DOMAIN rows' /\ rows'[r] = rows[r]
         /\ \A r \in DOMAIN fileTransfers : r \in DOMAIN fileTransfers'
<1> USE DEF IInv, RowIdsFresh, diskVars, boundVars
<1>q. TypeOK /\ QueueType
  BY DEF TypeOK, QueueType
<1>1. CASE GuiStep \/ Restart
  BY <1>1, <1>q DEF GuiStep, Send, Complete, CompleteMessage, ToggleLogging, EraseHistory,
          AddNewFileMessage, SetFileFinished, OnFileInserted, Restart, TypeOK
<1>2. CASE InsertMessage \/ DeliverMessage \/ UpdateFileTransfer
  BY <1>2 DEF InsertMessage, DeliverMessage, UpdateFileTransfer
<1>3. CASE HandleDispatchedMessage
  <2>1. worker.message \in Items /\ worker.row = NextRow
    BY <1>3 DEF HandleDispatchedMessage, RowsDense, TypeOK, Items, Idle
  <2>2. rows' = Extend(rows, NextRow, worker.message) /\ UNCHANGED <<fileTransfers, erasures>>
    BY <1>3, <2>1 DEF HandleDispatchedMessage
  <2> QED BY <2>1, <2>2, RowsExtended DEF Items
<1>4. CASE InsertFileTransfer
  <2>1. Head(pendingTransactions).file \in Items
    BY <1>4, <1>q, QueueTaken, QueueElement, TransactionKinds DEF InsertFileTransfer, Take, Items
  <2>2. /\ rows' = Extend(rows, NextRow, Head(pendingTransactions).file)
        /\ DOMAIN fileTransfers' = DOMAIN fileTransfers \cup {NextRow}
        /\ UNCHANGED erasures
    BY <1>4 DEF InsertFileTransfer, Extend
  <2> QED BY <2>1, <2>2, RowsExtended DEF Items
<1>5. CASE EraseMessages \/ ErasePending
  <2>1. Head(pendingTransactions) \in Queue /\ Head(pendingTransactions).sql \in {"erase", "eraseAll"}
    BY <1>5, <1>q, QueueTaken DEF EraseMessages, ErasePending, Take
  <2>2. erasures # 0
    BY <2>1 DEF ErasureInv
  <2> QED BY <1>5, <2>2 DEF EraseMessages, ErasePending
<1>6. CASE EraseTransfers \/ EraseRows
  <2>1. erasures # 0
    BY <1>6 DEF EraseTransfers, EraseRows, ErasureInv
  <2> QED BY <1>6, <2>1 DEF EraseTransfers, EraseRows
<1> QED BY <1>1, <1>2, <1>3, <1>4, <1>5, <1>6 DEF Next, WorkerStep

LEMMA AckedStay ==
  ASSUME Next
  PROVE  acked \subseteq acked'
BY DEF Next, GuiStep, WorkerStep, Send, Complete, CompleteMessage, ToggleLogging, EraseHistory,
       AddNewFileMessage, SetFileFinished, OnFileInserted, InsertMessage, HandleDispatchedMessage,
       DeliverMessage, InsertFileTransfer, UpdateFileTransfer, EraseMessages, ErasePending,
       EraseTransfers, EraseRows, Restart

\* What a step queues.
LEMMA QueueStep ==
  ASSUME IInv, Next, NEW t \in Queue', t \notin Queue
  PROVE  \/ Send /\ t = Insert(nextMessage)
         \/ CompleteMessage /\ gui.found /\ t = Deliver(dispatchedMessageRowIdMap[gui.message])
         \/ EraseHistory /\ t \in {Erase, EraseAll}
         \/ \E f \in Files : /\ AddNewFileMessage /\ t = InsertFile(f)
                             /\ transfers' = [transfers EXCEPT ![f] = "running"]
         \/ \E f \in DOMAIN fileInfos, state \in {"finished", "canceled"} :
               /\ SetFileFinished /\ t = FileFinished(fileInfos[f], state)
               /\ transfers[f] = "running"
               /\ transfers' = [transfers EXCEPT ![f] = state]
         \/ HandleDispatchedMessage /\ worker.found /\ t = Deliver(worker.row)
<1>q. TypeOK /\ QueueType /\ RowsOfMessages
  BY DEF IInv, TypeOK, QueueType
<1>0. pendingTransactions' # pendingTransactions
  BY DEF Queue
<1>1. ASSUME NEW u \in Transaction, pendingTransactions' = Append(pendingTransactions, u)
      PROVE  t = u
  BY <1>q, <1>1, QueueAppended
<1>2. \A sql : ~Take(sql)
  BY <1>q, QueueTaken
<1>3. CASE Send
  <2>1. nextMessage \in Message
    BY <1>3, <1>q, PersistenceAssumption DEF Send, Message, TypeOK
  <2> QED BY <1>0, <1>1, <1>3, <2>1, TransactionTypes DEF Send
<1>4. CASE CompleteMessage
  <2>1. gui.found => dispatchedMessageRowIdMap[gui.message] \in Nat
    BY <1>4, <1>q DEF CompleteMessage, TypeOK, RowsOfMessages
  <2> QED BY <1>0, <1>1, <1>4, <2>1, TransactionTypes DEF CompleteMessage
<1>5. CASE EraseHistory
  BY <1>1, <1>5, TransactionTypes DEF EraseHistory
<1>6. CASE AddNewFileMessage
  BY <1>0, <1>1, <1>6, TransactionTypes DEF AddNewFileMessage
<1>7. CASE SetFileFinished
  <2>1. PICK f \in Files, state \in {"finished", "canceled"} :
          /\ transfers[f] = "running"
          /\ transfers' = [transfers EXCEPT ![f] = state]
          /\ f \in DOMAIN fileInfos
          /\ pendingTransactions' = Append(pendingTransactions, FileFinished(fileInfos[f], state))
    BY <1>0, <1>7 DEF SetFileFinished
  <2>2. fileInfos[f] \in Nat
    BY <1>q, <2>1 DEF TypeOK
  <2>3. t = FileFinished(fileInfos[f], state)
    BY <1>1, <2>1, <2>2, TransactionTypes
  <2> QED BY <1>7, <2>1, <2>3
<1>8. CASE HandleDispatchedMessage
  <2>1. worker.row \in Nat
    BY <1>8, <1>q DEF HandleDispatchedMessage, TypeOK, Idle
  <2> QED BY <1>0, <1>1, <1>8, <2>1, TransactionTypes DEF HandleDispatchedMessage
<1>9. ~Restart
  BY DEF Restart, Queue
<1> QED BY <1>0, <1>2, <1>3, <1>4, <1>5, <1>6, <1>7, <1>8, <1>9
        DEF Next, GuiStep, WorkerStep, Complete, ToggleLogging, OnFileInserted, EraseTransfers, EraseRows,
            InsertMessage, DeliverMessage, InsertFileTransfer, UpdateFileTransfer, EraseMessages, ErasePending

\* What the callback is about to file stays unfiled until then, and then is in its row.
LEMMA FiledStep ==
  ASSUME IInv, HandleDispatchedMessage
  PROVE  /\ worker.message \in Message /\ worker.row \in Nat /\ worker.row = NextRow
         /\ rows' = Extend(rows, NextRow, worker.message)
         /\ worker.row \notin DOMAIN rows
         /\ DOMAIN rows' = DOMAIN rows \cup {worker.row}
         /\ rows'[worker.row] = worker.message
         /\ \A r \in DOMAIN rows : rows'[r] = rows[r]
<1>q. TypeOK /\ RowsDense
  BY DEF IInv
<1>1. /\ worker.message \in Message /\ worker.row \in Nat /\ worker.row = NextRow
      /\ rows' = Extend(rows, NextRow, worker.message)
  BY <1>q DEF HandleDispatchedMessage, RowsDense, TypeOK, Idle
<1>2. PICK m \in Message : m = worker.message
  BY <1>1
<1>3. m \in Message \cup Files /\ rows' = Extend(rows, NextRow, m)
  BY <1>1, <1>2
<1> QED BY <1>q, <1>1, <1>2, <1>3, RowsExtended

LEMMA RowsOfMessagesStep ==
  ASSUME IInv, Next
  PROVE  RowsOfMessages'
<1> USE DEF diskVars, chatVars, boundVars
<1>q. TypeOK /\ QueueType /\ RowsOfMessages /\ CompletedAcked
  BY DEF IInv, TypeOK, QueueType
<1> DEFINE Found == gui.at = "completeMessage" /\ gui.found =>
                       gui.message \in DOMAIN dispatchedMessageRowIdMap
           MapOK == RowIdsFresh => \A m \in DOMAIN dispatchedMessageRowIdMap :
                      LET r == dispatchedMessageRowIdMap[m] IN r \in DOMAIN rows /\ rows[r] = m
           DeliverOK(t) == RowIdsFresh /\ t.sql = "deliver" =>
                              t.row \in DOMAIN rows /\ rows[t.row] \in acked
<1>1. Found /\ MapOK /\ \A t \in Queue : DeliverOK(t)
  BY <1>q DEF RowsOfMessages
<1>2. \A t \in Queue : DeliverOK(t)'
  BY <1>1, RowsStay, AckedStay
<1>3. ASSUME NEW t \in Queue', t \notin Queue
      PROVE  DeliverOK(t)'
  <2>1. CASE CompleteMessage /\ gui.found /\ t = Deliver(dispatchedMessageRowIdMap[gui.message])
    <3>1. PICK m \in DOMAIN dispatchedMessageRowIdMap : m = gui.message /\ m \in acked
      BY <1>1, <1>q, <2>1 DEF CompleteMessage, CompletedAcked
    <3>2. PICK r : r = dispatchedMessageRowIdMap[m] /\ t.row = r
      BY <2>1, <3>1 DEF Deliver
    <3>3. UNCHANGED <<rows, erasures, acked>>
      BY <2>1 DEF CompleteMessage
    <3> QED BY <1>1, <3>1, <3>2, <3>3 DEF RowIdsFresh
  <2>2. CASE HandleDispatchedMessage /\ worker.found /\ t = Deliver(worker.row)
    <3>1. PICK r : r = worker.row /\ t.row = r
      BY <2>2 DEF Deliver
    <3>2. worker.message \in acked
      BY <1>q, <2>2 DEF HandleDispatchedMessage, CompletedAcked
    <3> QED BY <2>2, <3>1, <3>2, FiledStep, AckedStay
  <2>3. CASE t.sql # "deliver"
    BY <2>3
  <2>4. \/ t.sql # "deliver"
        \/ CompleteMessage /\ gui.found /\ t = Deliver(dispatchedMessageRowIdMap[gui.message])
        \/ HandleDispatchedMessage /\ worker.found /\ t = Deliver(worker.row)
    BY <1>3, QueueStep DEF Insert, Erase, EraseAll, InsertFile, FileFinished
  <2> QED BY <2>1, <2>2, <2>3, <2>4
<1>4. \A t \in Queue' : DeliverOK(t)'
  BY <1>2, <1>3
<1>5. Found' /\ MapOK'
  <2>1. CASE Complete
    <3>1. UNCHANGED <<rows, erasures, dispatchedMessageRowIdMap>>
      BY <2>1 DEF Complete
    <3>2. Found'
      <4>1. PICK m : gui' \in {gui, [at |-> "completeMessage", message |-> m,
                                     found |-> m \in DOMAIN dispatchedMessageRowIdMap]}
        BY <2>1 DEF Complete
      <4>2. CASE gui' = gui
        BY <2>1, <4>2 DEF Complete, Idle
      <4>3. CASE gui' = [at |-> "completeMessage", message |-> m,
                         found |-> m \in DOMAIN dispatchedMessageRowIdMap]
        <5>1. gui'.message = m /\ gui'.found = (m \in DOMAIN dispatchedMessageRowIdMap)
          BY <4>3
        <5> QED BY <3>1, <5>1
      <4> QED BY <4>1, <4>2, <4>3
    <3> QED BY <1>1, <3>1, <3>2 DEF RowIdsFresh
  <2>2. CASE CompleteMessage
    <3>1. /\ gui' = Idle /\ UNCHANGED <<rows, erasures>>
          /\ \/ dispatchedMessageRowIdMap' = dispatchedMessageRowIdMap
             \/ dispatchedMessageRowIdMap' = Without(dispatchedMessageRowIdMap, gui.message)
      BY <2>2 DEF CompleteMessage
    <3>2. Found'
      BY <3>1 DEF Idle
    <3>3. MapOK'
      BY <1>1, <3>1 DEF Without, RowIdsFresh
    <3> QED BY <3>2, <3>3
  <2>3. CASE HandleDispatchedMessage
    <3>1. CASE dispatchedMessageRowIdMap' = dispatchedMessageRowIdMap
      <4>1. Found'
        BY <1>1, <2>3, <3>1 DEF HandleDispatchedMessage
      <4>2. MapOK'
        BY <1>1, <2>3, <3>1, RowsStay
      <4> QED BY <4>1, <4>2
    <3>2. CASE dispatchedMessageRowIdMap' =
                  Extend(dispatchedMessageRowIdMap, worker.message, worker.row)
      <4>1. Found'
        BY <1>1, <2>3, <3>2 DEF HandleDispatchedMessage, Extend
      <4>2. MapOK'
        <5>1. PICK x, y : x = worker.message /\ y = worker.row
          OBVIOUS
        <5>2. y \in DOMAIN rows' /\ rows'[y] = x
          BY <2>3, <5>1, FiledStep
        <5>3. \A m \in DOMAIN dispatchedMessageRowIdMap' :
                 \/ m = x /\ dispatchedMessageRowIdMap'[m] = y
                 \/ m \in DOMAIN dispatchedMessageRowIdMap /\
                    dispatchedMessageRowIdMap'[m] = dispatchedMessageRowIdMap[m]
          BY <3>2, <5>1 DEF Extend
        <5>4. RowIdsFresh' => RowIdsFresh /\ \A r \in DOMAIN rows : r \in DOMAIN rows' /\ rows'[r] = rows[r]
          BY RowsStay
        <5> HIDE DEF Found
        <5> QED BY <1>1, <5>2, <5>3, <5>4
      <4> QED BY <4>1, <4>2
    <3> QED BY <2>3, <3>1, <3>2 DEF HandleDispatchedMessage
  <2>4. CASE Restart
    <3>1. gui' = Idle /\ UNCHANGED <<rows, pending>>
      BY <2>4 DEF Restart
    <3>2. PICK unsent : /\ unsent \subseteq pending
                        /\ dispatchedMessageRowIdMap' =
                             [m \in {rows[r] : r \in unsent} |-> CHOOSE r \in unsent : rows[r] = m]
      <4> DEFINE U == IF enableLogging THEN pending ELSE {}
      <4>1. U \subseteq pending
        OBVIOUS
      <4>2. /\ outstanding' = {rows[r] : r \in U}
            /\ dispatchedMessageRowIdMap' = [m \in outstanding' |-> CHOOSE r \in U : rows[r] = m]
        BY <2>4 DEF Restart
      <4> HIDE DEF U
      <4> QED BY <4>1, <4>2
    <3>3. \A m \in {rows[r] : r \in unsent} :
             /\ (CHOOSE r \in unsent : rows[r] = m) \in unsent
             /\ rows[CHOOSE r \in unsent : rows[r] = m] = m
      OBVIOUS
    <3>4. MapOK'
      BY <1>q, <3>1, <3>2, <3>3 DEF TypeOK
    <3>5. Found'
      BY <3>1 DEF Idle
    <3> QED BY <3>4, <3>5
  <2>5. CASE ~(Complete \/ CompleteMessage \/ HandleDispatchedMessage \/ Restart)
    <3>1. /\ dispatchedMessageRowIdMap' = dispatchedMessageRowIdMap
          /\ gui'.at = "completeMessage" => gui' = gui
      BY <2>5 DEF Next, GuiStep, WorkerStep, Send, ToggleLogging, EraseHistory, AddNewFileMessage,
           SetFileFinished, OnFileInserted, InsertMessage, DeliverMessage, InsertFileTransfer,
           UpdateFileTransfer, EraseMessages, ErasePending, EraseTransfers, EraseRows, Idle
    <3>2. MapOK'
      BY <1>1, <3>1, RowsStay
    <3>3. Found'
      BY <1>1, <3>1
    <3> QED BY <3>2, <3>3
  <2> QED BY <2>1, <2>2, <2>3, <2>4, <2>5
<1> QED BY <1>4, <1>5 DEF RowsOfMessages

\* A file is filed under the next row.
LEMMA FileFiledStep ==
  ASSUME IInv, InsertFileTransfer
  PROVE  \E f \in Files :
           /\ InsertFile(f) \in Queue /\ Head(pendingTransactions) = InsertFile(f)
           /\ NextRow \in Nat /\ NextRow \notin DOMAIN rows
           /\ rows' = Extend(rows, NextRow, f)
           /\ DOMAIN rows' = DOMAIN rows \cup {NextRow}
           /\ rows'[NextRow] = f
           /\ \A r \in DOMAIN rows : rows'[r] = rows[r]
           /\ fileTransfers' = Extend(fileTransfers, NextRow, "canceled")
           /\ fileInserted' = Append(fileInserted, [row |-> NextRow, file |-> f])
<1>q. TypeOK /\ QueueType /\ RowsDense
  BY DEF IInv, TypeOK, QueueType
<1>1. PICK f \in Files : InsertFile(f) \in Queue /\ Head(pendingTransactions) = InsertFile(f)
  BY <1>q, QueueTaken, QueueElement, TransactionKinds DEF InsertFileTransfer, Take
<1>2. /\ rows' = Extend(rows, NextRow, f)
      /\ fileTransfers' = Extend(fileTransfers, NextRow, "canceled")
      /\ fileInserted' = Append(fileInserted, [row |-> NextRow, file |-> f])
  BY <1>1 DEF InsertFileTransfer, InsertFile
<1>3. f \in Message \cup Files
  OBVIOUS
<1> QED BY <1>q, <1>1, <1>2, <1>3, RowsExtended

\* Until rows are erased, only a delivery takes a message off the pending ones.
LEMMA PendingStays ==
  ASSUME IInv, Next, RowIdsFresh'
  PROVE  \A r \in pending : r \in pending' \/ rows[r] \in acked
<1> USE DEF diskVars, boundVars
<1>q. TypeOK /\ QueueType /\ RowsOfMessages /\ ErasureInv /\ RowIdsFresh
  BY RowsStay DEF IInv, TypeOK, QueueType
<1>1. CASE DeliverMessage
  <2>1. PICK t \in Queue : t.sql = "deliver" /\ pending' = pending \ {t.row}
    BY <1>1, <1>q, QueueTaken DEF DeliverMessage, Take
  <2> QED BY <1>q, <2>1 DEF RowsOfMessages
<1>2. CASE EraseMessages \/ ErasePending
  <2>1. \E t \in Queue : t.sql \in {"erase", "eraseAll"}
    BY <1>2, <1>q, QueueTaken DEF EraseMessages, ErasePending, Take
  <2> QED BY <1>q, <2>1 DEF ErasureInv
<1>3. CASE ~(DeliverMessage \/ EraseMessages \/ ErasePending)
  BY <1>3 DEF Next, GuiStep, WorkerStep, Send, Complete, CompleteMessage, ToggleLogging, EraseHistory,
       AddNewFileMessage, SetFileFinished, OnFileInserted, InsertMessage, HandleDispatchedMessage,
       InsertFileTransfer, UpdateFileTransfer, EraseTransfers, EraseRows, Restart
<1> QED BY <1>1, <1>2, <1>3

LEMMA UndeliveredStep ==
  ASSUME IInv, Next
  PROVE  UndeliveredStaysPending'
<1> USE DEF diskVars
<1>1. SUFFICES ASSUME RowIdsFresh', NEW r \in DOMAIN rows', rows'[r] \in Message, rows'[r] \notin acked'
               PROVE  r \in pending'
  BY DEF UndeliveredStaysPending
<1>2. CASE r \in DOMAIN rows
  <2>1. RowIdsFresh /\ rows'[r] = rows[r] /\ rows[r] \notin acked
    BY <1>1, <1>2, RowsStay, AckedStay
  <2>2. r \in pending
    BY <1>1, <1>2, <2>1 DEF IInv, UndeliveredStaysPending
  <2> QED BY <1>1, <2>1, <2>2, PendingStays
<1>3. CASE r \notin DOMAIN rows
  <2>1. CASE HandleDispatchedMessage
    BY <1>3, <2>1, FiledStep DEF HandleDispatchedMessage
  <2>2. CASE InsertFileTransfer
    <3>1. rows'[r] \in Files
      BY <1>3, <2>2, FileFiledStep
    <3> QED BY <1>1, <3>1, PersistenceAssumption DEF Message
  <2>3. CASE ~(HandleDispatchedMessage \/ InsertFileTransfer)
    <3>1. rows' \in {rows, Empty}
      BY <2>3 DEF Next, GuiStep, WorkerStep, Send, Complete, CompleteMessage, ToggleLogging, EraseHistory,
       AddNewFileMessage, SetFileFinished, OnFileInserted, InsertMessage, DeliverMessage,
       UpdateFileTransfer, EraseMessages, ErasePending, EraseTransfers, EraseRows, Restart
    <3> QED BY <1>3, <3>1 DEF Empty
  <2> QED BY <2>1, <2>2, <2>3
<1> QED BY <1>2, <1>3
-----------------------------------------------------------------------------
(* Erasing *)

LEMMA ErasureStep ==
  ASSUME IInv, Next
  PROVE  ErasureInv'
<1> USE DEF diskVars, boundVars, Idle
<1>q. TypeOK /\ QueueType /\ ErasureInv
  BY DEF IInv, TypeOK, QueueType
<1>1. CASE EraseHistory
  <2>1. /\ gui.at # "execNow" /\ gui'.at = "execNow" /\ worker' = worker /\ ~RowIdsFresh'
    BY <1>1, <1>q DEF EraseHistory, RowIdsFresh, TypeOK
  <2>2. PICK e \in {Erase, EraseAll} : pendingTransactions' = Append(pendingTransactions, e)
    BY <1>1 DEF EraseHistory
  <2> DEFINE last == Len(pendingTransactions) + 1
  <2>3. /\ last \in Nat /\ DOMAIN pendingTransactions' = 1..last
        /\ \A j \in DOMAIN pendingTransactions' :
              j # last => /\ j < last
                          /\ j \in DOMAIN pendingTransactions
                          /\ pendingTransactions'[j] = pendingTransactions[j]
        /\ \A j \in DOMAIN pendingTransactions : pendingTransactions[j] \in Queue
    BY <1>q, <2>2, QueueAppended, QueueElement, TransactionTypes
  <2>4. \A j \in DOMAIN pendingTransactions' :
           /\ pendingTransactions'[j].sql \in {"erase", "eraseAll"} <=> j = last
           /\ j > last => pendingTransactions'[j].sql \in Harmless
    BY <1>q, <2>1, <2>2, <2>3, QueueAppended, TransactionTypes DEF ErasureInv, Erase, EraseAll
  <2>5. last \in DOMAIN pendingTransactions'
    BY <2>3
  <2> HIDE DEF last
  <2> QED BY <1>q, <2>1, <2>4, <2>5 DEF ErasureInv
<1>2. CASE Restart
  <2>1. gui' = Idle /\ worker' = Idle /\ Queue' = {}
    BY <1>2 DEF Restart, Queue
  <2> QED BY <2>1 DEF ErasureInv
<1>3. CASE GuiStep /\ ~EraseHistory
  <2>1. gui.at # "execNow" /\ gui'.at # "execNow" /\ worker' = worker
    BY <1>3, <1>q DEF GuiStep, Send, Complete, CompleteMessage, ToggleLogging,
        AddNewFileMessage, SetFileFinished, OnFileInserted
  <2>2. \A t \in Queue' : t \in Queue \/ t.sql \notin {"erase", "eraseAll"}
    BY <1>3, QueueStep DEF Insert, InsertFile, FileFinished, Deliver, GuiStep
  <2> QED BY <1>q, <2>1, <2>2 DEF ErasureInv
<1>4. CASE HandleDispatchedMessage
  <2>1. gui' = gui /\ worker'.at # "erasing" /\ worker.at # "erasing" /\ erasures' = erasures
    BY <1>4 DEF HandleDispatchedMessage
  <2>2. \/ pendingTransactions' = pendingTransactions
        \/ pendingTransactions' = Append(pendingTransactions, Deliver(worker.row))
    BY <1>4 DEF HandleDispatchedMessage
  <2>3. CASE pendingTransactions' = pendingTransactions
    BY <1>q, <2>1, <2>3 DEF ErasureInv, Queue, RowIdsFresh
  <2>4. CASE pendingTransactions' = Append(pendingTransactions, Deliver(worker.row))
    <3>1. worker.row \in Nat
      BY <1>4, <1>q DEF HandleDispatchedMessage, TypeOK
    <3> DEFINE new == Deliver(worker.row)
    <3>2. new \in Transaction /\ new.sql = "deliver"
      BY <3>1, TransactionTypes DEF Deliver
    <3>3. /\ Queue' = Queue \cup {new}
          /\ Len(pendingTransactions) \in Nat
          /\ DOMAIN pendingTransactions = 1..Len(pendingTransactions)
          /\ DOMAIN pendingTransactions' = 1..(Len(pendingTransactions) + 1)
          /\ \A i \in DOMAIN pendingTransactions : pendingTransactions'[i] = pendingTransactions[i]
          /\ pendingTransactions'[Len(pendingTransactions) + 1] = new
      BY <1>q, <2>4, <3>2, QueueAppended
    <3> HIDE DEF new
    <3>4. ASSUME gui.at = "execNow"
          PROVE  \E i \in DOMAIN pendingTransactions' :
                    /\ \A j \in DOMAIN pendingTransactions' :
                          pendingTransactions'[j].sql \in {"erase", "eraseAll"} <=> j = i
                    /\ \A j \in DOMAIN pendingTransactions' :
                          j > i => pendingTransactions'[j].sql \in Harmless
      <4>1. PICK i \in DOMAIN pendingTransactions :
                    /\ \A j \in DOMAIN pendingTransactions :
                          pendingTransactions[j].sql \in {"erase", "eraseAll"} <=> j = i
                    /\ \A j \in DOMAIN pendingTransactions :
                          j > i => pendingTransactions[j].sql \in Harmless
        BY <1>q, <2>1, <3>4 DEF ErasureInv
      <4>2. i \in DOMAIN pendingTransactions'
        BY <3>3
      <4> QED BY <3>2, <3>3, <4>1, <4>2 DEF Harmless
    <3>5. \A t \in Queue' : t \in Queue \/ t.sql = "deliver"
      BY <3>2, <3>3
    <3> QED BY <1>q, <2>1, <3>4, <3>5 DEF ErasureInv, RowIdsFresh
  <2> QED BY <2>2, <2>3, <2>4
<1>5. CASE InsertMessage \/ DeliverMessage \/ InsertFileTransfer \/ UpdateFileTransfer
  <2>1. PICK sql \in {"insert", "deliver", "insertFile", "fileFinished"} : Take(sql)
    BY <1>5 DEF InsertMessage, DeliverMessage, InsertFileTransfer, UpdateFileTransfer
  <2>2. gui' = gui /\ worker'.at # "erasing" /\ worker.at # "erasing" /\ erasures' = erasures
    BY <1>5 DEF InsertMessage, DeliverMessage, InsertFileTransfer, UpdateFileTransfer, Take
  <2>3. pendingTransactions[1].sql \notin {"erase", "eraseAll"} /\ Queue' \subseteq Queue
    BY <1>q, <2>1, QueueTaken DEF Take
  <2>4. ASSUME gui.at = "execNow"
        PROVE  \E i \in DOMAIN pendingTransactions' :
                  /\ \A j \in DOMAIN pendingTransactions' :
                        pendingTransactions'[j].sql \in {"erase", "eraseAll"} <=> j = i
                  /\ \A j \in DOMAIN pendingTransactions' :
                        j > i => pendingTransactions'[j].sql \in Harmless
    <3>1. PICK i \in DOMAIN pendingTransactions :
                  /\ \A j \in DOMAIN pendingTransactions :
                        pendingTransactions[j].sql \in {"erase", "eraseAll"} <=> j = i
                  /\ \A j \in DOMAIN pendingTransactions :
                        j > i => pendingTransactions[j].sql \in Harmless
      BY <1>q, <2>2, <2>4 DEF ErasureInv
    <3>2. /\ Len(pendingTransactions) \in Nat
          /\ DOMAIN pendingTransactions = 1..Len(pendingTransactions)
          /\ DOMAIN pendingTransactions' = 1..(Len(pendingTransactions) - 1)
          /\ \A j \in DOMAIN pendingTransactions' : pendingTransactions'[j] = pendingTransactions[j + 1]
      BY <1>q, <2>1, QueueTaken
    <3>3. i # 1
      BY <2>3, <3>1, <3>2
    <3>4. i - 1 \in DOMAIN pendingTransactions'
      BY <3>2, <3>3
    <3> WITNESS i - 1 \in DOMAIN pendingTransactions'
    <3>5. \A j \in DOMAIN pendingTransactions' :
             /\ j \in Nat /\ j + 1 \in DOMAIN pendingTransactions
             /\ pendingTransactions'[j] = pendingTransactions[j + 1]
             /\ (j + 1 = i) = (j = i - 1)
             /\ (j + 1 > i) = (j > i - 1)
      BY <3>2
    <3> QED BY <3>1, <3>5
  <2> QED BY <1>q, <2>2, <2>3, <2>4 DEF ErasureInv, RowIdsFresh
<1>6. CASE EraseMessages \/ ErasePending
  <2>1. PICK sql \in {"erase", "eraseAll"} : Take(sql) /\ erasures' = erasures
    BY <1>6 DEF EraseMessages, ErasePending
  <2>2. /\ DOMAIN pendingTransactions = 1..Len(pendingTransactions)
        /\ DOMAIN pendingTransactions' = 1..(Len(pendingTransactions) - 1)
        /\ \A j \in DOMAIN pendingTransactions' : pendingTransactions'[j] = pendingTransactions[j + 1]
        /\ Len(pendingTransactions) \in Nat /\ Len(pendingTransactions) >= 1
        /\ pendingTransactions[1].sql \in {"erase", "eraseAll"}
        /\ Head(pendingTransactions) \in Queue
    BY <1>q, <2>1, QueueTaken DEF Take
  <2>3. gui.at = "execNow" /\ worker.at # "erasing" /\ ~RowIdsFresh
    BY <1>q, <2>1, <2>2, QueueTaken DEF ErasureInv, Take
  <2>4. \A j \in DOMAIN pendingTransactions : j # 1 => pendingTransactions[j].sql \in Harmless
    <3>1. 1 \in DOMAIN pendingTransactions
      BY <2>2
    <3>2. \A j \in DOMAIN pendingTransactions : j > 1 => pendingTransactions[j].sql \in Harmless
      BY <1>q, <2>2, <2>3, <3>1 DEF ErasureInv
    <3> QED BY <2>2, <3>2
  <2>5. \A t \in Queue' : t.sql \in Harmless
    BY <2>2, <2>4 DEF Queue
  <2>6. CASE EraseMessages
    <3>1. gui' = Idle /\ worker' = worker
      BY <2>6 DEF EraseMessages
    <3> QED BY <2>3, <2>5, <3>1 DEF ErasureInv, Harmless
  <2>7. CASE ErasePending
    <3>1. gui' = gui /\ worker'.at = "erasing" /\ pending' = {}
      BY <2>7 DEF ErasePending
    <3> QED BY <2>1, <2>3, <2>5, <3>1 DEF ErasureInv, RowIdsFresh
  <2> QED BY <1>6, <2>6, <2>7
<1>7. CASE EraseTransfers
  BY <1>7, <1>q DEF EraseTransfers, ErasureInv, Queue, RowIdsFresh
<1>8. CASE EraseRows
  BY <1>8, <1>q DEF EraseRows, ErasureInv, Queue, RowIdsFresh, Harmless
<1> QED BY <1>1, <1>2, <1>3, <1>4, <1>5, <1>6, <1>7, <1>8 DEF Next, WorkerStep
-----------------------------------------------------------------------------
(* The results of the file transfers *)

LEMMA FileFacts ==
  ASSUME IInv, RowIdsFresh
  PROVE  /\ FilesKnown /\ ResultsQueued /\ ResultsWritten
         /\ \A r \in DOMAIN fileTransfers : r \in DOMAIN rows /\ rows[r] \in Files
         /\ \A r \in DOMAIN fileTransfers : transfers[rows[r]] # "new"
         /\ \A t \in Queue : t.sql = "insertFile" =>
               t.file \in Files /\ \A r \in DOMAIN fileTransfers : rows[r] # t.file
<1>1. TypeOK /\ QueueType /\ InsertedOnce /\ FileInv
  BY DEF IInv, TypeOK, QueueType
<1>2. \A r \in DOMAIN fileTransfers : r \in DOMAIN rows /\ rows[r] \in Files
  BY <1>1 DEF TypeOK
<1>3. \A r \in DOMAIN fileTransfers : transfers[rows[r]] # "new"
  BY <1>1, <1>2 DEF InsertedOnce, Begun
<1>4. ASSUME NEW t \in Queue, t.sql = "insertFile"
      PROVE  t.file \in Files /\ \A r \in DOMAIN fileTransfers : rows[r] # t.file
  <2>1. t.file \in Files /\ t = InsertFile(t.file)
    BY <1>1, <1>4, QueueElement, TransactionKinds
  <2>2. PICK k \in DOMAIN pendingTransactions : pendingTransactions[k] = t
    BY DEF Queue
  <2>3. ~InRows(t.file)
    BY <1>1, <2>1, <2>2 DEF InsertedOnce, Adds
  <2> QED BY <1>2, <2>1, <2>3 DEF InRows
<1> QED BY <1>1, <1>2, <1>3, <1>4 DEF FileInv

LEMMA FilesKnownStep ==
  ASSUME IInv, Next, RowIdsFresh'
  PROVE  FilesKnown'
<1>q. TypeOK /\ FilesKnown
  BY RowsStay, FileFacts DEF IInv
<1>0. \A r, f : RowOfFile(r, f) => RowOfFile(r, f)'
  BY <1>q, RowsStay DEF RowOfFile, IInv, TypeOK
<1>1. CASE OnFileInserted
  <2> DEFINE S == [row : Nat, file : Files]
  <2>1. fileInserted \in Seq(S) /\ fileInserted # <<>>
    BY <1>1, <1>q DEF TypeOK, OnFileInserted
  <2> HIDE DEF S
  <2>2. /\ 1 \in DOMAIN fileInserted /\ Head(fileInserted) = fileInserted[1]
        /\ \A i \in DOMAIN Tail(fileInserted) :
              i + 1 \in DOMAIN fileInserted /\ Tail(fileInserted)[i] = fileInserted[i + 1]
    BY <2>1
  <2>3. PICK t : t = fileInserted[1] /\ RowOfFile(t.row, t.file)
    BY <1>q, <2>2 DEF FilesKnown
  <2>4. /\ fileInserted' = Tail(fileInserted)
        /\ \A f \in DOMAIN fileInfos' : \/ f = t.file /\ fileInfos'[f] = t.row
                                        \/ f \in DOMAIN fileInfos /\ fileInfos'[f] = fileInfos[f]
    BY <1>1, <2>2, <2>3 DEF OnFileInserted, Extend
  <2>5. \A f \in DOMAIN fileInfos' : RowOfFile(fileInfos'[f], f)
    BY <1>q, <2>3, <2>4 DEF FilesKnown
  <2>6. \A i \in DOMAIN fileInserted' : RowOfFile(fileInserted'[i].row, fileInserted'[i].file)
    BY <1>q, <2>2, <2>4 DEF FilesKnown
  <2> QED BY <1>0, <2>5, <2>6 DEF FilesKnown
<1>2. CASE InsertFileTransfer
  <2>1. PICK f \in Files :
           /\ NextRow \in Nat /\ rows'[NextRow] = f
           /\ fileTransfers' = Extend(fileTransfers, NextRow, "canceled")
           /\ fileInserted' = Append(fileInserted, [row |-> NextRow, file |-> f])
    BY <1>2, FileFiledStep
  <2>2. PICK t \in [row : Nat, file : Files] : t.row = NextRow /\ t.file = f
                                               /\ fileInserted' = Append(fileInserted, t)
    BY <2>1
  <2>3. RowOfFile(t.row, t.file)'
    <3>1. NextRow \in DOMAIN fileTransfers'
      BY <2>1 DEF Extend
    <3> QED BY <2>1, <2>2, <3>1 DEF RowOfFile
  <2> DEFINE S == [row : Nat, file : Files]
  <2>4. fileInserted \in Seq(S) /\ t \in S
    BY <1>q, <2>2 DEF TypeOK
  <2> HIDE DEF S
  <2>5. \A i \in DOMAIN fileInserted' :
           fileInserted'[i] = t \/ (i \in DOMAIN fileInserted /\ fileInserted'[i] = fileInserted[i])
    <3>1. fileInserted' = Append(fileInserted, t)
      BY <2>2
    <3>2. /\ Len(fileInserted) \in Nat /\ DOMAIN fileInserted = 1..Len(fileInserted)
          /\ DOMAIN fileInserted' = 1..(Len(fileInserted) + 1)
          /\ fileInserted'[Len(fileInserted) + 1] = t
          /\ \A i \in 1..Len(fileInserted) : fileInserted'[i] = fileInserted[i]
      BY <2>4, <3>1, AppendProperties
    <3> QED BY <3>2
  <2>6. fileInfos' = fileInfos
    BY <1>2 DEF InsertFileTransfer
  <2> QED BY <1>0, <1>q, <2>3, <2>5, <2>6 DEF FilesKnown
<1>3. CASE SetFileFinished
  <2>1. /\ fileInserted' = fileInserted
        /\ \A f \in DOMAIN fileInfos' : f \in DOMAIN fileInfos /\ fileInfos'[f] = fileInfos[f]
    BY <1>3 DEF SetFileFinished, Without
  <2> QED BY <1>0, <1>q, <2>1 DEF FilesKnown
<1>4. CASE Restart
  BY <1>4 DEF Restart, TransfersEnd, FilesKnown, Empty
<1>5. CASE ~(OnFileInserted \/ InsertFileTransfer \/ SetFileFinished \/ Restart)
  <2>1. fileInfos' = fileInfos /\ fileInserted' = fileInserted
    BY <1>5 DEF Next, GuiStep, WorkerStep, Send, Complete, CompleteMessage, ToggleLogging, EraseHistory,
       AddNewFileMessage, InsertMessage, HandleDispatchedMessage, DeliverMessage, UpdateFileTransfer,
       EraseMessages, ErasePending, EraseTransfers, EraseRows, fileVars
  <2> QED BY <1>0, <1>q, <2>1 DEF FilesKnown
<1> QED BY <1>1, <1>2, <1>3, <1>4, <1>5

\* A step in which no transfer goes on, and the queue keeps the results in it.
LEMMA ResultsKept ==
  ASSUME IInv, Next, RowIdsFresh', UNCHANGED <<transfers, unrecorded, fileTransfers>>,
         \A t \in Queue' : t.sql \in {"fileFinished", "insertFile"} => t \in Queue,
         \A r \in Nat, state \in {"finished", "canceled"} :
            FileFinished(r, state) \in Queue => FileFinished(r, state) \in Queue'
  PROVE  ResultsQueued' /\ ResultsWritten'
<1>1. /\ ResultsQueued /\ ResultsWritten
      /\ \A r \in DOMAIN fileTransfers : r \in DOMAIN rows /\ r \in Nat /\ rows'[r] = rows[r]
  BY RowsStay, FileFacts DEF IInv, TypeOK
<1>2. ResultsQueued'
  BY <1>1 DEF ResultsQueued
<1>3. ResultsWritten'
  BY <1>1 DEF ResultsWritten
<1> QED BY <1>2, <1>3

LEMMA ResultsStep ==
  ASSUME IInv, Next, RowIdsFresh'
  PROVE  ResultsQueued' /\ ResultsWritten'
<1> USE DEF diskVars, fileVars, chatVars, boundVars
<1>q. TypeOK /\ QueueType /\ OneRowPerMessage
  BY DEF IInv, TypeOK, QueueType, InsertedOnce
<1>f. /\ RowIdsFresh /\ FilesKnown /\ ResultsQueued /\ ResultsWritten
      /\ \A r \in DOMAIN fileTransfers : r \in DOMAIN rows /\ r \in Nat /\ rows[r] \in Files
      /\ \A r \in DOMAIN fileTransfers : transfers[rows[r]] # "new"
      /\ \A t \in Queue : t.sql = "insertFile" =>
            t.file \in Files /\ \A r \in DOMAIN fileTransfers : rows[r] # t.file
      /\ \A r \in DOMAIN rows : r \in DOMAIN rows' /\ rows'[r] = rows[r]
      /\ \A r \in DOMAIN fileTransfers : r \in DOMAIN fileTransfers'
  BY <1>q, RowsStay, FileFacts DEF TypeOK
<1>1. CASE AddNewFileMessage
  <2>1. PICK f \in Files :
          /\ transfers[f] = "new" /\ transfers' = [transfers EXCEPT ![f] = "running"]
          /\ \/ pendingTransactions' = Append(pendingTransactions, InsertFile(f))
             \/ pendingTransactions' = pendingTransactions
          /\ UNCHANGED <<fileTransfers, unrecorded>>
    BY <1>1 DEF AddNewFileMessage
  <2>2. /\ Queue \subseteq Queue'
        /\ \A t \in Queue' : t \in Queue \/ t = InsertFile(f)
    BY <1>q, <2>1, QueueAppended, TransactionTypes DEF Queue
  <2>3. \A g \in Files : g # f => transfers'[g] = transfers[g]
    BY <1>q, <2>1 DEF TypeOK
  <2>4. transfers'[f] = "running"
    BY <1>q, <2>1 DEF TypeOK
  <2>5. \A r \in DOMAIN fileTransfers : rows[r] # f /\ transfers'[rows[r]] = transfers[rows[r]]
    BY <1>f, <2>1, <2>3
  <2>6. ResultsWritten'
    BY <1>f, <2>1, <2>2, <2>5 DEF ResultsWritten
  <2>7. ASSUME NEW t \in Queue
        PROVE  /\ t.sql = "fileFinished" =>
                     t.row \in DOMAIN fileTransfers /\ t.state = transfers'[rows'[t.row]]
               /\ t.sql = "insertFile" /\ transfers'[t.file] \in {"finished", "canceled"} =>
                     t.file \in unrecorded
    BY <1>f, <2>3, <2>4, <2>5 DEF ResultsQueued
  <2>8. ResultsQueued'
    BY <2>1, <2>2, <2>4, <2>7 DEF ResultsQueued, InsertFile
  <2> QED BY <2>6, <2>8
<1>2. CASE SetFileFinished
  <2>1. PICK f \in Files, state \in {"finished", "canceled"} :
          /\ transfers[f] = "running" /\ transfers' = [transfers EXCEPT ![f] = state]
          /\ \/ /\ f \in DOMAIN fileInfos
                /\ pendingTransactions' = Append(pendingTransactions, FileFinished(fileInfos[f], state))
                /\ unrecorded' = unrecorded
             \/ unrecorded' = unrecorded \cup {f} /\ pendingTransactions' = pendingTransactions
          /\ fileTransfers' = fileTransfers
    BY <1>2 DEF SetFileFinished
  <2>2. /\ \A g \in Files : g # f => transfers'[g] = transfers[g]
        /\ transfers'[f] = state
    BY <1>q, <2>1 DEF TypeOK
  <2>3. CASE unrecorded' = unrecorded \cup {f} /\ pendingTransactions' = pendingTransactions
    <3>1. Queue' = Queue
      BY <2>3 DEF Queue
    <3>2. \A r \in DOMAIN fileTransfers : rows[r] # f => transfers'[rows[r]] = transfers[rows[r]]
      BY <1>f, <2>2
    <3>3. ResultsWritten'
      BY <1>f, <2>1, <2>2, <2>3, <3>1, <3>2 DEF ResultsWritten
    <3>4. ASSUME NEW t \in Queue
          PROVE  /\ t.sql = "fileFinished" =>
                       t.row \in DOMAIN fileTransfers /\ t.state = transfers'[rows'[t.row]]
                 /\ t.sql = "insertFile" /\ transfers'[t.file] \in {"finished", "canceled"} =>
                       t.file \in unrecorded'
      <4>1. t.sql = "fileFinished" => t.state \in {"finished", "canceled"}
        BY <1>q, QueueElement, TransactionKinds
      <4>2. t.sql = "fileFinished" => t.row \in DOMAIN fileTransfers /\ rows[t.row] # f
        BY <1>f, <2>1, <4>1 DEF ResultsQueued
      <4> QED BY <1>f, <2>2, <2>3, <3>2, <4>2 DEF ResultsQueued
    <3>5. ResultsQueued'
      BY <2>1, <3>1, <3>4 DEF ResultsQueued
    <3> QED BY <3>3, <3>5
  <2>4. CASE /\ f \in DOMAIN fileInfos
             /\ pendingTransactions' = Append(pendingTransactions, FileFinished(fileInfos[f], state))
             /\ unrecorded' = unrecorded
    <3>1. PICK row \in DOMAIN fileTransfers : row = fileInfos[f] /\ rows[row] = f
      BY <1>f, <2>4 DEF FilesKnown, RowOfFile
    <3>2. Queue' = Queue \cup {FileFinished(row, state)}
      BY <1>f, <1>q, <2>4, <3>1, QueueAppended, TransactionTypes
    <3>3. \A r \in DOMAIN fileTransfers : r # row => rows[r] # f
      BY <1>f, <1>q, <3>1 DEF OneRowPerMessage
    <3>4. ResultsWritten'
      BY <1>f, <2>1, <2>2, <2>4, <3>1, <3>2, <3>3 DEF ResultsWritten
    <3>5. ASSUME NEW t \in Queue
          PROVE  /\ t.sql = "fileFinished" =>
                       t.row \in DOMAIN fileTransfers /\ t.state = transfers'[rows'[t.row]]
                 /\ t.sql = "insertFile" /\ transfers'[t.file] \in {"finished", "canceled"} =>
                       t.file \in unrecorded
      <4>1. t.sql = "fileFinished" => t.state \in {"finished", "canceled"}
        BY <1>q, QueueElement, TransactionKinds
      <4>2. t.sql = "fileFinished" => t.row \in DOMAIN fileTransfers /\ rows[t.row] # f
        BY <1>f, <2>1, <4>1 DEF ResultsQueued
      <4>3. t.sql = "insertFile" => t.file \in Files /\ t.file # f
        BY <1>f, <3>1
      <4> QED BY <1>f, <2>2, <4>2, <4>3 DEF ResultsQueued
    <3>6. ResultsQueued'
      BY <1>f, <2>1, <2>2, <2>4, <3>1, <3>2, <3>5 DEF ResultsQueued, FileFinished
    <3> QED BY <3>4, <3>6
  <2> QED BY <2>1, <2>3, <2>4
<1>3. CASE InsertFileTransfer
  <2>1. PICK f \in Files :
           /\ InsertFile(f) \in Queue /\ Head(pendingTransactions) = InsertFile(f)
           /\ rows'[NextRow] = f /\ NextRow \notin DOMAIN rows
           /\ fileTransfers' = Extend(fileTransfers, NextRow, "canceled")
    BY <1>3, FileFiledStep
  <2>2. Queue = Queue' \cup {InsertFile(f)} /\ UNCHANGED <<transfers, unrecorded>>
    BY <1>3, <1>q, <2>1, QueueTaken DEF InsertFileTransfer
  <2>3. PICK new : /\ new = NextRow /\ new \notin DOMAIN rows /\ rows'[new] = f
                   /\ DOMAIN fileTransfers' = DOMAIN fileTransfers \cup {new}
                   /\ fileTransfers'[new] = "canceled"
                   /\ \A r \in DOMAIN fileTransfers : r # new /\ fileTransfers'[r] = fileTransfers[r]
    BY <1>f, <2>1 DEF Extend
  <2>4. ResultsQueued'
    BY <1>f, <2>2, <2>3 DEF ResultsQueued
  <2>5. transfers[f] \in {"finished", "canceled"} => f \in unrecorded
    BY <1>f, <2>1 DEF ResultsQueued, InsertFile
  <2>6. ASSUME NEW r \in DOMAIN fileTransfers
        PROVE  /\ transfers'[rows'[r]] = "running" => fileTransfers'[r] = "canceled"
               /\ transfers'[rows'[r]] \in {"finished", "canceled"} /\ rows'[r] \notin unrecorded' =>
                    \/ fileTransfers'[r] = transfers'[rows'[r]]
                    \/ FileFinished(r, transfers'[rows'[r]]) \in Queue'
    <3>1. \A state : FileFinished(r, state) # InsertFile(f)
      BY DEF FileFinished, InsertFile
    <3> QED BY <1>f, <2>2, <2>3, <3>1 DEF ResultsWritten
  <2>7. ResultsWritten'
    BY <2>2, <2>3, <2>5, <2>6 DEF ResultsWritten
  <2> QED BY <2>4, <2>7
<1>4. CASE UpdateFileTransfer
  <2>1. PICK t \in Queue :
           /\ Queue = Queue' \cup {t} /\ t.sql = "fileFinished"
           /\ fileTransfers' = [r \in DOMAIN fileTransfers |->
                                  IF r = t.row THEN t.state ELSE fileTransfers[r]]
           /\ UNCHANGED <<transfers, unrecorded, rows>>
    BY <1>4, <1>q, QueueTaken DEF UpdateFileTransfer, Take
  <2>2. /\ t.row \in DOMAIN fileTransfers /\ t.state = transfers[rows[t.row]]
        /\ t.state \in {"finished", "canceled"}
    BY <1>f, <1>q, <2>1, QueueElement, TransactionKinds DEF ResultsQueued
  <2>3. ResultsQueued'
    BY <1>f, <2>1 DEF ResultsQueued
  <2>4. \A r \in DOMAIN fileTransfers : \A state : r # t.row => FileFinished(r, state) # t
    BY DEF FileFinished
  <2>5. ResultsWritten'
    BY <1>f, <2>1, <2>2, <2>4 DEF ResultsWritten
  <2> QED BY <2>3, <2>5
<1>5. CASE Restart
  <2>1. /\ Queue' = {} /\ UNCHANGED <<rows, fileTransfers>>
        /\ transfers' = [f \in Files |-> IF transfers[f] = "running" THEN "canceled" ELSE transfers[f]]
        /\ unrecorded' = unrecorded \cup
              {rows[t.row] : t \in {u \in Queue : u.sql = "fileFinished" /\ u.row \in DOMAIN fileTransfers}}
    BY <1>5 DEF Restart, TransfersEnd, Queue
  <2>2. ASSUME NEW r \in DOMAIN fileTransfers, NEW state, FileFinished(r, state) \in Queue
        PROVE  rows[r] \in unrecorded'
    <3>1. FileFinished(r, state).sql = "fileFinished" /\ FileFinished(r, state).row = r
      BY DEF FileFinished
    <3> QED BY <2>1, <2>2, <3>1
  <2>3. \A r \in DOMAIN fileTransfers :
           /\ rows[r] \in Files
           /\ transfers'[rows[r]] = IF transfers[rows[r]] = "running" THEN "canceled" ELSE transfers[rows[r]]
    BY <1>f, <2>1
  <2>4. ResultsWritten'
    BY <1>f, <2>1, <2>2, <2>3 DEF ResultsWritten
  <2>5. ResultsQueued'
    BY <2>1 DEF ResultsQueued
  <2> QED BY <2>4, <2>5
<1>6. CASE ~(AddNewFileMessage \/ SetFileFinished \/ InsertFileTransfer \/ UpdateFileTransfer \/ Restart)
  <2>1. CASE EraseMessages \/ ErasePending \/ EraseTransfers \/ EraseRows
    <3>1. ErasureInv /\ gui.at # "execNow"
      BY <1>f DEF IInv, ErasureInv
    <3>2. CASE EraseMessages \/ ErasePending
      BY <1>q, <3>1, <3>2, QueueTaken DEF EraseMessages, ErasePending, Take, ErasureInv
    <3>3. CASE EraseTransfers \/ EraseRows
      BY <3>1, <3>3 DEF EraseTransfers, EraseRows, ErasureInv
    <3> QED BY <2>1, <3>2, <3>3
  <2>2. CASE ~(EraseMessages \/ ErasePending \/ EraseTransfers \/ EraseRows)
    <3>1. UNCHANGED <<transfers, unrecorded, fileTransfers>>
      BY <1>6, <2>2 DEF Next, GuiStep, WorkerStep, Send, Complete, CompleteMessage, ToggleLogging,
         EraseHistory, OnFileInserted, InsertMessage, HandleDispatchedMessage, DeliverMessage
    <3>2. \A t \in Queue' : t.sql \in {"fileFinished", "insertFile"} => t \in Queue
      BY <1>6, QueueStep DEF Insert, Deliver, Erase, EraseAll
    <3>3. ASSUME NEW r \in Nat, NEW state \in {"finished", "canceled"}, FileFinished(r, state) \in Queue
          PROVE  FileFinished(r, state) \in Queue'
      <4>1. CASE InsertMessage \/ DeliverMessage
        <5>1. PICK sql \in {"insert", "deliver"} : Take(sql)
          BY <4>1 DEF InsertMessage, DeliverMessage
        <5>2. /\ Queue = Queue' \cup {Head(pendingTransactions)}
              /\ Head(pendingTransactions).sql # "fileFinished"
          BY <1>q, <5>1, QueueTaken DEF Take
        <5> QED BY <3>3, <5>2 DEF FileFinished
      <4>2. CASE ~(InsertMessage \/ DeliverMessage)
        <5>1. Queue \subseteq Queue'
          <6>1. \/ pendingTransactions' = pendingTransactions
                \/ \E u \in Transaction : pendingTransactions' = Append(pendingTransactions, u)
            <7>1. CASE Send
              <8>1. nextMessage \in Message
                BY <1>q, <7>1, PersistenceAssumption DEF Send, Message, TypeOK
              <8> QED BY <7>1, <8>1, TransactionTypes DEF Send
            <7>2. CASE CompleteMessage
              <8>1. gui.found => dispatchedMessageRowIdMap[gui.message] \in Nat
                BY <7>2, <1>q DEF CompleteMessage, TypeOK, IInv, RowsOfMessages
              <8> QED BY <7>2, <8>1, TransactionTypes DEF CompleteMessage
            <7>3. CASE EraseHistory
              BY <7>3, TransactionTypes DEF EraseHistory
            <7>4. CASE HandleDispatchedMessage
              <8>1. worker.row \in Nat
                BY <7>4, FiledStep
              <8> QED BY <7>4, <8>1, TransactionTypes DEF HandleDispatchedMessage
            <7> QED BY <1>6, <2>2, <4>2, <7>1, <7>2, <7>3, <7>4
                    DEF Next, GuiStep, WorkerStep, Complete, ToggleLogging, OnFileInserted
          <6> QED BY <1>q, <6>1, QueueAppended DEF Queue
        <5> QED BY <3>3, <5>1
      <4> QED BY <4>1, <4>2
    <3> QED BY <3>1, <3>2, <3>3, ResultsKept
  <2> QED BY <2>1, <2>2
<1> QED BY <1>1, <1>2, <1>3, <1>4, <1>5, <1>6
-----------------------------------------------------------------------------
(* Every step keeps the invariant *)

LEMMA StutterInv ==
  ASSUME IInv, UNCHANGED vars
  PROVE  IInv'
<1> USE DEF vars, diskVars, chatVars, fileVars, boundVars
<1>1. Queue' = Queue
  BY DEF Queue
<1>2. TypeOK' /\ RowsDense' /\ CompletedAcked'
  BY DEF IInv, TypeOK, RowsDense, NextRow, CompletedAcked
<1>3. InsertedOnce' /\ UndeliveredStaysPending' /\ RowsOfMessages'
  BY <1>1 DEF IInv, InsertedOnce, OneRowPerMessage, InRows, Begun, UndeliveredStaysPending,
              RowsOfMessages, RowIdsFresh
<1>4. ErasureInv' /\ FileInv'
  BY <1>1 DEF IInv, ErasureInv, FileInv, FilesKnown, ResultsQueued, ResultsWritten, RowOfFile, RowIdsFresh
<1> QED BY <1>2, <1>3, <1>4 DEF IInv

LEMMA NextInv == IInv /\ [Next]_vars => IInv'
<1> SUFFICES ASSUME IInv, [Next]_vars PROVE IInv'
  OBVIOUS
<1>1. CASE Next
  <2>1. TypeOK'
    BY <1>1, GuiTypes, WorkerTypes, RestartTypes DEF Next
  <2>2. FileInv'
    BY <1>1, FilesKnownStep, ResultsStep DEF FileInv
  <2> QED BY <1>1, <2>1, <2>2, RowsDenseStep, InsertedOnceStep, CompletedAckedStep, UndeliveredStep,
             RowsOfMessagesStep, ErasureStep DEF IInv
<1>2. CASE UNCHANGED vars
  BY <1>2, StutterInv
<1> QED BY <1>1, <1>2

LEMMA Invariance == Spec => []IInv
BY InitInv, NextInv, PTL DEF Spec
-----------------------------------------------------------------------------
(* Theorems *)

\* Values have their types, and no table refers to a row that is not there: also a crash between
\* the statements of eraseHistory, which are not one transaction, breaks no reference.
THEOREM TypeOKHolds == Spec => []TypeOK
<1>1. IInv => TypeOK
  BY DEF IInv
<1> QED BY <1>1, Invariance, PTL

\* A message, or a file, has one row: a message sent again after a restart is not inserted again.
THEOREM OneRowPerMessageHolds == Spec => []OneRowPerMessage
<1>1. IInv => OneRowPerMessage
  BY DEF IInv, InsertedOnce
<1> QED BY <1>1, Invariance, PTL

\* As long as no row was erased, a stored message that was not acknowledged is still pending, so
\* that a restart sends it again, however the completion races with the insertion.
THEOREM UndeliveredStaysPendingHolds == Spec => []UndeliveredStaysPending
<1>1. IInv => UndeliveredStaysPending
  BY DEF IInv
<1> QED BY <1>1, Invariance, PTL

\* As long as no row was erased, dispatchedMessageRowIdMap has the row of each message in it.
THEOREM RowOfItsMessageHolds == Spec => []RowOfItsMessage
<1>1. IInv => RowOfItsMessage
  BY DEF IInv, RowsOfMessages, RowOfItsMessage
<1> QED BY <1>1, Invariance, PTL

\* When both threads are done, the table has the result of each transfer that was recorded.
THEOREM FileResultRecordedHolds == Spec => []FileResultRecorded
<1>1. ASSUME IInv PROVE FileResultRecorded
  <2>1. AllDone => Queue = {}
    BY DEF AllDone, Queue
  <2> QED BY <1>1, <2>1 DEF IInv, FileInv, ResultsWritten, FileResultRecorded
<1> QED BY <1>1, Invariance, PTL

\* When the user gets the control back after erasing the history, the tables are empty, and
\* nothing that was sent before is on its way into them.
THEOREM ErasedForGoodHolds == Spec => ErasedForGood
<1> DEFINE Erased == /\ rows' = Empty /\ pending' = {} /\ fileTransfers' = Empty
                     /\ \A i \in 1..Len(pendingTransactions') :
                           pendingTransactions'[i].sql \notin {"insert", "insertFile"}
<1>1. ASSUME IInv, IInv', Next, gui.at = "execNow", gui' = Idle, crashes' = crashes
      PROVE  Erased
  <2>q. TypeOK /\ QueueType /\ ErasureInv /\ QueueType'
    BY <1>1 DEF IInv, TypeOK, QueueType
  <2>1. EraseMessages \/ EraseRows
    <3>1. ~GuiStep
      BY <1>1 DEF GuiStep, Send, Complete, CompleteMessage, ToggleLogging, EraseHistory,
                  AddNewFileMessage, SetFileFinished, OnFileInserted, Idle
    <3>2. ~Restart
      BY <1>1, <2>q DEF Restart, TypeOK
    <3> QED BY <1>1, <3>1, <3>2 DEF Next, WorkerStep, InsertMessage, HandleDispatchedMessage, DeliverMessage,
                InsertFileTransfer, UpdateFileTransfer, ErasePending, EraseTransfers, Idle
  <2>2. CASE EraseMessages
    <3>1. /\ DOMAIN pendingTransactions' = 1..(Len(pendingTransactions) - 1)
          /\ \A j \in DOMAIN pendingTransactions' : pendingTransactions'[j] = pendingTransactions[j + 1]
          /\ Len(pendingTransactions) \in Nat /\ Len(pendingTransactions) >= 1
          /\ DOMAIN pendingTransactions = 1..Len(pendingTransactions)
          /\ pendingTransactions[1].sql = "erase"
      BY <2>2, <2>q, QueueTaken DEF EraseMessages, Take
    <3>2. worker.at # "erasing"
      BY <2>2 DEF EraseMessages, Take, Idle
    <3>3. \A j \in DOMAIN pendingTransactions : j > 1 => pendingTransactions[j].sql \in Harmless
      <4>1. 1 \in DOMAIN pendingTransactions
        BY <3>1
      <4> QED BY <1>1, <2>q, <3>1, <3>2, <4>1 DEF ErasureInv
    <3>4. \A j \in DOMAIN pendingTransactions' : pendingTransactions'[j].sql \in Harmless
      BY <3>1, <3>3
    <3>5. DOMAIN pendingTransactions' = 1..Len(pendingTransactions')
      BY <2>q DEF QueueType
    <3> QED BY <2>2, <3>4, <3>5 DEF EraseMessages, Harmless
  <2>3. CASE EraseRows
    <3>1. pending = {} /\ \A t \in Queue : t.sql \in Harmless
      BY <1>1, <2>3, <2>q DEF EraseRows, ErasureInv
    <3>2. /\ rows' = Empty /\ pending' = {} /\ fileTransfers' = Empty
          /\ pendingTransactions' = pendingTransactions
      BY <2>3, <3>1 DEF EraseRows
    <3>3. \A i \in 1..Len(pendingTransactions) : pendingTransactions[i] \in Queue
      BY <2>q, QueueElement
    <3> QED BY <3>1, <3>2, <3>3 DEF Harmless
  <2> QED BY <2>1, <2>2, <2>3
<1>2. IInv /\ IInv' /\ [Next]_vars =>
         [(gui.at = "execNow" /\ gui' = Idle /\ crashes' = crashes) => Erased]_vars
  BY <1>1
<1> QED BY <1>2, Invariance, PTL DEF Spec, ErasedForGood
=============================================================================
