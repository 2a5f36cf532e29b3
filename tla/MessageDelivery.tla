---------------------------- MODULE MessageDelivery ----------------------------
(* Delivery of the text messages of one friend chat, from                     *)
(* FriendMessageDispatcher::sendMessage to the peer's screen and back:         *)
(*                                                                             *)
(*   GUI thread   FriendMessageDispatcher, its OfflineMsgEngine, Friend         *)
(*   Core thread  tox_iterate and the callbacks of Core, whose signals are     *)
(*                queued to the GUI thread (`events')                          *)
(*   toxcore      the connection to the friend, its lossless channel, its      *)
(*                receipts and the store for offline friends (external)        *)
(*                                                                             *)
(* The GUI thread reads the friend's status from its own copy, which lags      *)
(* behind the connection by whatever is still in `events'.  A GUI handler that *)
(* sends several messages takes coreLoopLock once per message, so the Core     *)
(* thread runs between two of them; no other GUI handler does.                 *)
EXTENDS OfflineMsgEngine, Sequences, FiniteSets

CONSTANTS
    MaxMessages,   \* bound: messages the user sends
    MaxParts,      \* bound: parts one message is split into
    MaxSessions,   \* bound: times the friend connects
    MaxRefusals,   \* bound: sends toxcore refuses although the friend is connected
    MaxDrops,      \* bound: signals lost because an iteration has too many events
    MaxEvents,     \* bound: queued signals when a further status packet may come
    OfflineIds,    \* the message ids tox_friend_send_offline_message may return
    ReceiptNums    \* how many receipt numbers there are, 2^32 in the code

ASSUME DeliveryAssumption ==
    /\ {MaxMessages, MaxParts, MaxSessions, MaxRefusals, MaxDrops, MaxEvents} \subseteq Nat
    /\ OfflineIds \subseteq Nat
    /\ ReceiptNums \in Nat \ {0}

Status == {"Offline", "Online", "Away"}
\* Status::isOnline
IsOnline(s) == s # "Offline"

VARIABLES
    friendStatus,    \* Friend::friendStatus, the GUI's copy
    nextMessageId,   \* FriendMessageDispatcher::nextMessageId
    parts,           \* parts sendMessage's loop has yet to dispatch
    resending,       \* messages onFriendOnlineOfflineChanged's loop has yet to dispatch
    discarded,       \* history: messages dropped by clearOutgoingMessages
    events,          \* signals Core emitted, not yet delivered to the GUI thread
    drops,           \* number of signals lost so far
    connected,       \* toxcore's view of the friend
    sessions,        \* number of connections so far
    announced,       \* the friend has announced its status in this session
    refusals,        \* number of refused sends so far
    nextReceipt,     \* toxcore's message counter
    sent,            \* history: what toxcore has accepted, in order, with the receipt numbers
    channel,         \* messages on their way to the peer, as positions in `sent'
    acks,            \* acknowledgements on their way back, as positions in `sent'
    store,           \* messages stored for the offline friend, as positions in `sent'
    reached          \* messages the peer's toxcore has received, in order

guiVars == <<friendStatus, nextMessageId, parts, resending, discarded>>
signalVars == <<events, drops>>
linkVars == <<connected, sessions, announced, channel, acks, store, reached>>
sendVars == <<refusals, nextReceipt, sent>>
vars == <<engineVars, guiVars, signalVars, linkVars, sendVars>>

Message == 1..MaxMessages

Init ==
    /\ EngineInit
    /\ friendStatus = "Offline"
    /\ nextMessageId = 1
    /\ parts = 0
    /\ resending = {}
    /\ discarded = {}
    /\ events = <<>>
    /\ drops = 0
    /\ connected = FALSE
    /\ sessions = 0
    /\ announced = FALSE
    /\ refusals = 0
    /\ nextReceipt = 1
    /\ sent = <<>>
    /\ channel = <<>>
    /\ acks = <<>>
    /\ store = {}
    /\ reached = <<>>
-----------------------------------------------------------------------------
(* Core::sendMessage / sendAction, called from the GUI thread *)

\* ReceiptNum is 32 bits wide: a 64-bit id keeps its low bits, and may come out as
\* a number that is in use.
ReceiptNum(id) == id % ReceiptNums

\* toxcore has taken the message; the engine is told under which receipt.
Accepted(m, r, isStored) ==
    /\ sent' = Append(sent, [message |-> m, receipt |-> r, session |-> sessions,
                             stored |-> isStored])
    /\ AddSentCoreMessage(r, m)
    /\ UNCHANGED refusals

\* tox_friend_send_message accepts the message and numbers it.
SendDirect(m) ==
    /\ connected
    /\ Accepted(m, ReceiptNum(nextReceipt), FALSE)
    /\ channel' = Append(channel, Len(sent) + 1)
    /\ nextReceipt' = nextReceipt + 1
    /\ UNCHANGED store

\* tox_friend_send_message answers FRIEND_NOT_CONNECTED and
\* tox_friend_send_offline_message takes the message; its id becomes the receipt.
SendStored(m) ==
    /\ ~connected
    /\ \E id \in OfflineIds : Accepted(m, ReceiptNum(id), TRUE)
    /\ store' = store \cup {Len(sent) + 1}
    /\ UNCHANGED <<nextReceipt, channel>>

\* Mutant: a message toxcore refuses is not kept.
SendRefusedForgets(m) ==
    /\ \/ connected /\ refusals < MaxRefusals /\ refusals' = refusals + 1
       \/ ~connected /\ UNCHANGED refusals
    /\ UNCHANGED <<engineVars, nextReceipt, sent, channel, store>>

\* Neither takes it: send queue full while connected, or the store failed.
SendRefused(m) ==
    /\ \/ connected /\ refusals < MaxRefusals /\ refusals' = refusals + 1
       \/ ~connected /\ UNCHANGED refusals
    /\ AddUnsentMessage(m)
    /\ UNCHANGED <<nextReceipt, sent, channel, store>>

\* FriendMessageDispatcher::sendCoreProcessedMessage
SendCoreProcessedMessage(m) == SendDirect(m) \/ SendStored(m) \/ SendRefused(m)

\* FriendMessageDispatcher::sendProcessedMessage
SendProcessedMessage(m) ==
    /\ IF IsOnline(friendStatus)
       THEN SendCoreProcessedMessage(m)
       ELSE AddUnsentMessage(m) /\ UNCHANGED <<sendVars, channel, store>>
    /\ UNCHANGED <<connected, sessions, announced, acks, reached>>
-----------------------------------------------------------------------------
(* GUI thread *)

GuiIdle == parts = 0 /\ resending = {}

\* The user sends a text that MessageProcessor splits into n parts.
SendMessage(n) ==
    /\ GuiIdle
    /\ nextMessageId + n <= MaxMessages + 1
    /\ parts' = n
    /\ UNCHANGED <<engineVars, friendStatus, nextMessageId, resending, discarded,
                   signalVars, linkVars, sendVars>>

\* One iteration of the loop of FriendMessageDispatcher::sendMessage
DispatchPart ==
    /\ parts > 0
    /\ parts' = parts - 1
    /\ nextMessageId' = nextMessageId + 1
    /\ SendProcessedMessage(nextMessageId)
    /\ UNCHANGED <<friendStatus, resending, discarded, signalVars>>

\* One iteration of the loop of FriendMessageDispatcher::onFriendOnlineOfflineChanged
ResendNext ==
    /\ \E e \in resending :
          /\ Earliest(e, resending)
          /\ resending' = resending \ {e}
          /\ SendProcessedMessage(e.message)
    /\ UNCHANGED <<friendStatus, nextMessageId, parts, discarded, signalVars>>

\* Mutant: setStatus reports the opposite transition.
OnFriendStatusChangedInverted(s) ==
    /\ friendStatus' = s
    /\ IF IsOnline(friendStatus) /\ ~IsOnline(s)
       THEN resending' = Tracked /\ RemoveAllMessages
       ELSE UNCHANGED <<resending, engineVars>>

\* ChatManager::onFriendStatusChanged, Friend::setStatus and the start of
\* FriendMessageDispatcher::onFriendOnlineOfflineChanged
OnFriendStatusChanged(s) ==
    /\ friendStatus' = s
    /\ IF ~IsOnline(friendStatus) /\ IsOnline(s)
       THEN resending' = Tracked /\ RemoveAllMessages
       ELSE UNCHANGED <<resending, engineVars>>

\* ChatManager::onReceiptReceived, FriendMessageDispatcher::onReceiptReceived
OnReceiptReceived(r) ==
    /\ EngineReceiptReceived(r)
    /\ UNCHANGED <<friendStatus, resending>>

\* The GUI's event loop delivers the oldest queued signal.
DeliverEvent ==
    /\ GuiIdle
    /\ events # <<>>
    /\ events' = Tail(events)
    /\ \/ Head(events).signal = "friendStatusChanged" /\ OnFriendStatusChanged(Head(events).status)
       \/ Head(events).signal = "receiptReceived" /\ OnReceiptReceived(Head(events).receipt)
    /\ UNCHANGED <<nextMessageId, parts, discarded, drops, linkVars, sendVars>>

\* Mutant: the callbacks of the removed messages run with success.
ClearOutgoingMessagesAsSuccess ==
    /\ GuiIdle
    /\ completed' = completed \cup {e.message : e \in Tracked}
    /\ unAckedMessages' = [r \in {} |-> 0]
    /\ receivedReceipts' = EmptyBag
    /\ unsentMessages' = {}
    /\ UNCHANGED <<now, overwritten, friendStatus, nextMessageId, parts, resending, discarded,
                   signalVars, linkVars, sendVars>>

\* FriendMessageDispatcher::clearOutgoingMessages
ClearOutgoingMessages ==
    /\ GuiIdle
    /\ discarded' = discarded \cup {e.message : e \in Tracked}
    /\ RemoveAllMessages
    /\ UNCHANGED <<friendStatus, nextMessageId, parts, resending, signalVars, linkVars, sendVars>>
-----------------------------------------------------------------------------
(* Core thread: the callbacks, and the signals they queue *)

StatusEvent(s) == [signal |-> "friendStatusChanged", status |-> s]
ReceiptEvent(r) == [signal |-> "receiptReceived", receipt |-> r]

\* The signal is queued; or it is among the events that Core::process drops because
\* one iteration has more of them than its limit.
Emit(event) ==
    \/ events' = Append(events, event) /\ UNCHANGED drops
    \/ drops < MaxDrops /\ drops' = drops + 1 /\ UNCHANGED events

\* Core::onConnectionStatusChanged with a connection: nothing is emitted.
FriendConnects ==
    /\ ~connected
    /\ sessions < MaxSessions
    /\ connected' = TRUE
    /\ sessions' = sessions + 1
    /\ announced' = FALSE
    /\ UNCHANGED <<engineVars, guiVars, signalVars, channel, acks, store, reached, sendVars>>

\* Core::onConnectionStatusChanged without one; toxcore forgets what was in flight.
FriendDisconnects ==
    /\ connected
    /\ connected' = FALSE
    /\ channel' = <<>>
    /\ acks' = <<>>
    /\ Emit(StatusEvent("Offline"))
    /\ UNCHANGED <<engineVars, guiVars, sessions, announced, store, reached, sendVars>>

\* Core::onUserStatusChanged: the friend announces its status after connecting
\* and whenever it changes.
FriendAnnouncesStatus ==
    /\ connected
    /\ Len(events) < MaxEvents
    /\ \E s \in Status \ {"Offline"} : Emit(StatusEvent(s))
    /\ announced' = TRUE
    /\ UNCHANGED <<engineVars, guiVars, connected, sessions, channel, acks, store, reached, sendVars>>

\* Core::onReadReceiptCallback
ReceiptArrives ==
    /\ acks # <<>>
    /\ acks' = Tail(acks)
    /\ Emit(ReceiptEvent(sent[Head(acks)].receipt))
    /\ UNCHANGED <<engineVars, guiVars, connected, sessions, announced, channel, store, reached, sendVars>>
-----------------------------------------------------------------------------
(* The peer *)

\* The peer's toxcore gets the next message of the channel and acknowledges it.
PeerReceives ==
    /\ channel # <<>>
    /\ channel' = Tail(channel)
    /\ acks' = Append(acks, Head(channel))
    /\ reached' = Append(reached, sent[Head(channel)].message)
    /\ UNCHANGED <<engineVars, guiVars, signalVars, connected, sessions, announced, store, sendVars>>

\* The peer finds a stored message (Core::onFriendOfflineMessage passes it on,
\* whatever its id); no receipt comes back.
PeerFindsStored ==
    /\ \E k \in store :
          /\ store' = store \ {k}
          /\ reached' = Append(reached, sent[k].message)
    /\ UNCHANGED <<engineVars, guiVars, signalVars, connected, sessions, announced, channel, acks, sendVars>>
-----------------------------------------------------------------------------
UserStep == (\E n \in 1..MaxParts : SendMessage(n)) \/ ClearOutgoingMessages
GuiStep == DispatchPart \/ ResendNext \/ DeliverEvent
CoreStep == FriendAnnouncesStatus \/ ReceiptArrives
LinkStep == FriendConnects \/ FriendDisconnects
PeerStep == PeerReceives \/ PeerFindsStored

Next == UserStep \/ GuiStep \/ CoreStep \/ LinkStep \/ PeerStep

Spec == Init /\ [][Next]_vars

\* Both event loops run, a connected friend announces its status once, and a live
\* channel delivers.  Connections come and go as they please, and nobody has to
\* send, to change status or to look into the store.
Fairness ==
    /\ WF_vars(DispatchPart) /\ WF_vars(ResendNext) /\ WF_vars(DeliverEvent)
    /\ WF_vars(~announced /\ FriendAnnouncesStatus) /\ WF_vars(ReceiptArrives)
    /\ WF_vars(PeerReceives)

FairSpec == Spec /\ Fairness
-----------------------------------------------------------------------------
(* Properties *)

Event == [signal : {"friendStatusChanged"}, status : Status]
             \cup [signal : {"receiptReceived"}, receipt : Nat]

Receipt == 0..(ReceiptNums - 1)
SentMessage == [message : Message, receipt : Receipt, session : Nat, stored : BOOLEAN]

EngineTypeOK ==
    /\ unsentMessages \subseteq OfflineMessage(Message)
    /\ unAckedMessages \in [DOMAIN unAckedMessages -> OfflineMessage(Message)]
    /\ DOMAIN unAckedMessages \subseteq Receipt
    /\ DOMAIN receivedReceipts \subseteq Receipt
    /\ now \in Nat
    /\ completed \subseteq Message
    /\ overwritten \subseteq Message

GuiTypeOK ==
    /\ friendStatus \in Status
    /\ nextMessageId \in Nat \ {0} /\ parts \in Nat
    /\ nextMessageId + parts <= MaxMessages + 1
    /\ resending \subseteq OfflineMessage(Message)
    /\ discarded \subseteq Message
    /\ events \in Seq(Event) /\ drops \in Nat

LinkTypeOK ==
    /\ connected \in BOOLEAN /\ announced \in BOOLEAN
    /\ sessions \in Nat /\ refusals \in Nat /\ nextReceipt \in Nat \ {0}
    /\ sent \in Seq(SentMessage)
    /\ channel \in Seq(Nat) /\ acks \in Seq(Nat)
    /\ store \subseteq 1..Len(sent)
    /\ reached \in Seq(Message)

\* Type invariant.
TypeOK == EngineTypeOK /\ GuiTypeOK /\ LinkTypeOK

Submitted == 1..(nextMessageId - 1)
Reached == {reached[i] : i \in 1..Len(reached)}
Held == Tracked \cup resending

\* Two messages have had the same receipt number, message j first.
Clash(j, k) ==
    /\ j < k
    /\ sent[j].receipt = sent[k].receipt
    /\ sent[j].message # sent[k].message
Clashed == {sent[k].message : k \in {l \in 1..Len(sent) : \E j \in 1..Len(sent) : Clash(j, l)}}

\* Across sends, receipts, reconnections and resend loops that the Core thread
\* interrupts, a submitted message is at every moment in exactly one place: held
\* for (re)sending or for its receipt, completed, discarded by the user, or displaced
\* by another message.  Only a message whose number was given to another one after it
\* can be displaced: nothing keeps the narrowed ids of stored messages apart from the
\* numbers of tox_friend_send_message, or from each other.
NoMessageLost ==
    /\ Submitted = {e.message : e \in Held} \cup completed \cup discarded \cup overwritten
    /\ {e.message : e \in Held} \cap (completed \cup discarded \cup overwritten) = {}
    /\ completed \cap discarded = {}
    /\ overwritten \cap (completed \cup discarded) = {}
    /\ \A m \in overwritten : \E j, k \in 1..Len(sent) : Clash(j, k) /\ sent[j].message = m

\* A message waits in one place only: neither twice for receipts, nor for a
\* receipt and to be sent again (either way it would be sent twice on the next
\* connection).
HeldOnce ==
    /\ \A e, f \in Held : e.message = f.message => e = f
    /\ unsentMessages \cap resending = {}
    /\ \A r \in DOMAIN unAckedMessages :
          /\ unAckedMessages[r] \notin unsentMessages \cup resending
          /\ \A q \in DOMAIN unAckedMessages : unAckedMessages[q] = unAckedMessages[r] => q = r

\* A message is marked as received only when it has reached the peer: receipts that
\* arrive late, after the resend gave the message another number, complete nothing
\* else.  The exception is a message whose number another message had before it: the
\* receipt may be the other one's.
Confirmed == completed \ Clashed
CompletedHadArrived == Confirmed \subseteq Reached

\* Sorting by authorshipTime restores the order in which the user sent, although
\* every resend stamps the message anew and sends of later messages may have
\* succeeded, failed or been acknowledged in between; a resend loop works through
\* the messages in that order.
InSendingOrder(entries) ==
    \A e, f \in entries : e.message < f.message => e.authorshipTime < f.authorshipTime
HeldInSendingOrder ==
    /\ InSendingOrder(Tracked)
    /\ InSendingOrder(resending)
    /\ \A e \in Tracked, f \in resending : e.message < f.message

\* A message that is acknowledged, discarded or displaced is never handed to toxcore
\* again.
Finished == completed \cup discarded \cup overwritten
NeverSentAgain ==
    [][Len(sent') > Len(sent) => sent'[Len(sent')].message \notin Finished]_vars

\* Once the friend stays connected, every message is received by the peer and
\* acknowledged, dropped by the user, or displaced by a message of the same number,
\* provided that toxcore refuses nothing and no iteration drops a signal: a lost
\* status or receipt is made up for only on the next connection.
EventuallySettled ==
    <>[]connected /\ [](refusals = 0 /\ drops = 0) =>
        \A m \in Message : [](m \in Submitted => <>(m \in Finished))

\* The invariant behind the safety properties.  What is under way was sent.
LinkKnown ==
    /\ \A i \in 1..Len(channel) : channel[i] \in 1..Len(sent)
    /\ \A i \in 1..Len(acks) : acks[i] \in 1..Len(sent)

\* A message waits for a receipt number that it was the last to be given, and nobody
\* waits for a receipt that has come.
LastSent(k) == \A j \in 1..Len(sent) : sent[j].receipt = sent[k].receipt => j <= k
ReceiptsAttributed ==
    /\ DOMAIN unAckedMessages \cap DOMAIN receivedReceipts = {}
    /\ \A r \in DOMAIN unAckedMessages : \E k \in 1..Len(sent) :
          /\ sent[k].receipt = r /\ sent[k].message = unAckedMessages[r].message
          /\ LastSent(k)

\* A receipt comes back, and is put by, only for a message that has arrived.
Earned(r) == \E k \in 1..Len(sent) : sent[k].receipt = r /\ sent[k].message \in Reached
ReceiptsEarned ==
    /\ \A i \in 1..Len(acks) : sent[acks[i]].message \in Reached
    /\ \A i \in 1..Len(events) : events[i].signal = "receiptReceived" => Earned(events[i].receipt)
    /\ \A r \in DOMAIN receivedReceipts : Earned(r)

\* What toxcore was handed, the user has submitted.
SentSubmitted == \A k \in 1..Len(sent) : sent[k].message \in Submitted

\* Stamps lie in the past, and one GUI handler runs at a time.
StampsPast == \A e \in Held : e.authorshipTime < now
OneHandler == parts > 0 => resending = {}

IInv ==
    /\ TypeOK
    /\ LinkKnown /\ ReceiptsAttributed /\ ReceiptsEarned /\ SentSubmitted
    /\ StampsPast /\ OneHandler
    /\ NoMessageLost /\ HeldOnce /\ CompletedHadArrived /\ HeldInSendingOrder

\* The engine and the link implement the abstract promise, but for the messages whose
\* number another message had before them.
Promise == INSTANCE Delivery WITH
    Message <- Message, submitted <- Submitted, reached <- Reached,
    confirmed <- Confirmed, abandoned <- discarded \cup overwritten
PromiseKept == Promise!Spec
-----------------------------------------------------------------------------
(* What the code says of itself, and does not keep *)

\* What addSentCoreMessage says of a sent message: it is resent "if the friend goes
\* offline then comes back before the receipt is received", so that none is lost; a
\* message that another one displaced is not.
NothingDisplaced == overwritten = {}

\* What onReceiptReceived is for: a message the chat log marks as received is one that
\* arrived.
MarkedHadArrived == completed \subseteq Reached

\* What addSentCoreMessage says again: one connection does not carry a message twice.
SentOncePerConnection ==
    \A j, k \in 1..Len(sent) :
        (/\ ~sent[j].stored /\ ~sent[k].stored
         /\ sent[j].message = sent[k].message /\ sent[j].session = sent[k].session) => j = k

\* What the header of the store says: a stored message is delivered when the friend
\* comes online, under an id that is there "for deduplication"; so a message that went
\* to the store arrives once.
StoredArrivesOnce ==
    \A k \in 1..Len(sent), i, j \in 1..Len(reached) :
        (sent[k].stored /\ reached[i] = sent[k].message /\ reached[j] = sent[k].message) => i = j
=============================================================================
