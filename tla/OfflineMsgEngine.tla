---------------------------- MODULE OfflineMsgEngine ----------------------------
(* Book-keeping of the outgoing text messages of one friend chat that the      *)
(* friend has not acknowledged (src/persistence/offlinemsgengine.{h,cpp}).     *)
(* This module is a component: its actions are conjoined with those of the     *)
(* dispatcher that owns the engine (MessageDelivery).                          *)
(*                                                                             *)
(* A message is named by its DispatchedMessageId; its text plays no part.      *)
(* An OfflineMessage is a record: the message and the order of its steady_clock*)
(* authorshipTime, which every (re)insertion sets anew.  The completion        *)
(* callback of a message is the emission of messageComplete, recorded here in  *)
(* `completed'.                                                                *)
EXTENDS Naturals, Bags

VARIABLES
    unAckedMessages,   \* std::map<ReceiptNum, OfflineMessage>, a partial function
    receivedReceipts,  \* receipts nobody waited for when they came, a bag
    unsentMessages,    \* messages toxcore has not accepted
    now,               \* what steady_clock::now() will return next
    completed,         \* messages whose completion callback ran with success
    overwritten        \* history: messages another one displaced from unAckedMessages

engineVars == <<unAckedMessages, receivedReceipts, unsentMessages, now, completed, overwritten>>

OfflineMessage(Message) == [message : Message, authorshipTime : Nat]

\* Every OfflineMessage the engine holds.
Tracked == unsentMessages \cup {unAckedMessages[r] : r \in DOMAIN unAckedMessages}

EngineInit ==
    /\ unAckedMessages = [r \in {} |-> 0]
    /\ receivedReceipts = EmptyBag
    /\ unsentMessages = {}
    /\ now = 0
    /\ completed = {}
    /\ overwritten = {}

\* OfflineMsgEngine::addUnsentMessage
AddUnsentMessage(m) ==
    /\ unsentMessages' = unsentMessages \cup {[message |-> m, authorshipTime |-> now]}
    /\ now' = now + 1
    /\ UNCHANGED <<unAckedMessages, receivedReceipts, completed, overwritten>>

\* ReceiptResolver::notifyMessageSent: the receipt may have come first; otherwise
\* the message waits for it, in place of any message that waited for it before.
NotifyMessageSent(r, entry) ==
    IF BagIn(r, receivedReceipts)
    THEN /\ receivedReceipts' = receivedReceipts (-) SetToBag({r})
         /\ completed' = completed \cup {entry.message}
         /\ UNCHANGED <<unAckedMessages, overwritten>>
    ELSE /\ unAckedMessages' = [x \in DOMAIN unAckedMessages \cup {r} |->
                                   IF x = r THEN entry ELSE unAckedMessages[x]]
         /\ overwritten' = overwritten \cup
                {unAckedMessages[x].message : x \in {r} \cap DOMAIN unAckedMessages}
         /\ UNCHANGED <<receivedReceipts, completed>>

\* OfflineMsgEngine::addSentCoreMessage
AddSentCoreMessage(r, m) ==
    /\ NotifyMessageSent(r, [message |-> m, authorshipTime |-> now])
    /\ now' = now + 1
    /\ UNCHANGED unsentMessages

\* Mutant: the acknowledged message is not erased.
EngineReceiptReceivedNotErased(r) ==
    /\ IF r \in DOMAIN unAckedMessages
       THEN completed' = completed \cup {unAckedMessages[r].message} /\ UNCHANGED receivedReceipts
       ELSE receivedReceipts' = receivedReceipts (+) SetToBag({r}) /\ UNCHANGED completed
    /\ UNCHANGED <<unAckedMessages, unsentMessages, now, overwritten>>

\* OfflineMsgEngine::onReceiptReceived and ReceiptResolver::notifyReceiptReceived
EngineReceiptReceived(r) ==
    /\ IF r \in DOMAIN unAckedMessages
       THEN /\ completed' = completed \cup {unAckedMessages[r].message}
            /\ unAckedMessages' = [x \in DOMAIN unAckedMessages \ {r} |-> unAckedMessages[x]]
            /\ UNCHANGED receivedReceipts
       ELSE /\ receivedReceipts' = receivedReceipts (+) SetToBag({r})
            /\ UNCHANGED <<unAckedMessages, completed>>
    /\ UNCHANGED <<unsentMessages, now, overwritten>>

\* Mutant: unsentMessages.clear() is forgotten.
RemoveAllMessagesButUnsent ==
    /\ unAckedMessages' = [r \in {} |-> 0]
    /\ receivedReceipts' = EmptyBag
    /\ UNCHANGED <<unsentMessages, now, completed, overwritten>>

\* OfflineMsgEngine::removeAllMessages and ReceiptResolver::clear; what it
\* returns is Tracked, taken in order of authorshipTime (see Earliest).
RemoveAllMessages ==
    /\ unAckedMessages' = [r \in {} |-> 0]
    /\ receivedReceipts' = EmptyBag
    /\ unsentMessages' = {}
    /\ UNCHANGED <<now, completed, overwritten>>

\* Mutant: the comparison of std::sort is the wrong way round.
Latest(e, entries) ==
    /\ e \in entries
    /\ \A f \in entries : e.authorshipTime >= f.authorshipTime

\* The order std::sort gives the removed messages: e is the next to be handed out.
Earliest(e, entries) ==
    /\ e \in entries
    /\ \A f \in entries : e.authorshipTime <= f.authorshipTime
=============================================================================
