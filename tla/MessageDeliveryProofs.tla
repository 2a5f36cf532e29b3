------------------------- MODULE MessageDeliveryProofs -------------------------
(* Proofs about MessageDelivery for every number of messages, parts, sessions, *)
(* refusals, lost signals, stored messages and receipt numbers.                *)
EXTENDS MessageDelivery, SequenceTheorems, TLAPS

-----------------------------------------------------------------------------
(* What the engine's operations do to the messages it holds *)

Entry(m) == [message |-> m, authorshipTime |-> now]

\* The entries a message that waits for receipt r displaces: one or none.
Displaced(r) == {unAckedMessages[x] : x \in {r} \cap DOMAIN unAckedMessages}

\* The receipts put by are a bag: taking one out leaves no other, adding one adds it.
LEMMA ReceiptBag ==
    ASSUME NEW b, NEW r
    PROVE  /\ DOMAIN (b (-) SetToBag({r})) \subseteq DOMAIN b
           /\ DOMAIN (b (+) SetToBag({r})) = DOMAIN b \cup {r}
           /\ BagIn(r, b) <=> r \in DOMAIN b
           /\ DOMAIN EmptyBag = {}
<1>1. DOMAIN (b (-) SetToBag({r})) \subseteq DOMAIN b
  BY DEF (-), SetToBag
<1>2. DOMAIN (b (+) SetToBag({r})) = DOMAIN b \cup {r}
  BY DEF (+), SetToBag
<1>3. BagIn(r, b) <=> r \in DOMAIN b
  BY DEF BagIn, BagToSet
<1>4. DOMAIN EmptyBag = {}
  BY DEF EmptyBag, SetToBag
<1>5. QED BY <1>1, <1>2, <1>3, <1>4

\* A message toxcore did not take is held from now on.
LEMMA AddUnsentHolds ==
    ASSUME NEW m, AddUnsentMessage(m)
    PROVE  /\ Tracked' = Tracked \cup {Entry(m)}
           /\ now' = now + 1
           /\ unsentMessages' = unsentMessages \cup {Entry(m)}
           /\ UNCHANGED <<unAckedMessages, receivedReceipts, completed, overwritten>>
BY DEF AddUnsentMessage, Tracked, Entry

\* The receipt was there already: the message is complete, and not held.
Early(m, r) ==
    /\ r \in DOMAIN receivedReceipts
    /\ completed' = completed \cup {m}
    /\ DOMAIN receivedReceipts' \subseteq DOMAIN receivedReceipts
    /\ Tracked' = Tracked
    /\ UNCHANGED <<unAckedMessages, overwritten>>

\* The message is held, in place of what waited for the receipt before.
Waits(m, r) ==
    /\ r \notin DOMAIN receivedReceipts
    /\ DOMAIN unAckedMessages' = DOMAIN unAckedMessages \cup {r}
    /\ unAckedMessages' = [x \in DOMAIN unAckedMessages \cup {r} |->
                              IF x = r THEN Entry(m) ELSE unAckedMessages[x]]
    /\ Tracked' = (Tracked \ Displaced(r)) \cup {Entry(m)}
    /\ overwritten' = overwritten \cup {e.message : e \in Displaced(r)}
    /\ UNCHANGED <<receivedReceipts, completed>>

\* A message toxcore has taken is complete or held.
LEMMA AddSentHolds ==
    ASSUME NEW m, NEW r, AddSentCoreMessage(r, m), HeldOnce
    PROVE  /\ Early(m, r) \/ Waits(m, r)
           /\ now' = now + 1
           /\ UNCHANGED unsentMessages
<1>1. now' = now + 1 /\ UNCHANGED unsentMessages
  BY DEF AddSentCoreMessage
<1>2. CASE BagIn(r, receivedReceipts)
  <2>1. /\ receivedReceipts' = receivedReceipts (-) SetToBag({r})
        /\ completed' = completed \cup {m}
        /\ UNCHANGED <<unAckedMessages, overwritten>>
    BY <1>2 DEF AddSentCoreMessage, NotifyMessageSent
  <2>2. Tracked' = Tracked
    BY <1>1, <2>1 DEF Tracked
  <2>3. Early(m, r)
    BY <1>2, <2>1, <2>2, ReceiptBag DEF Early
  <2>4. QED BY <1>1, <2>3
<1>3. CASE ~BagIn(r, receivedReceipts)
  <2>1. /\ unAckedMessages' = [x \in DOMAIN unAckedMessages \cup {r} |->
                                  IF x = r THEN Entry(m) ELSE unAckedMessages[x]]
        /\ overwritten' = overwritten \cup
              {unAckedMessages[x].message : x \in {r} \cap DOMAIN unAckedMessages}
        /\ UNCHANGED <<receivedReceipts, completed>>
    BY <1>3 DEF AddSentCoreMessage, NotifyMessageSent, Entry
  <2>2. overwritten' = overwritten \cup {e.message : e \in Displaced(r)}
    BY <2>1 DEF Displaced
  <2>3. {unAckedMessages'[x] : x \in DOMAIN unAckedMessages'}
           = ({unAckedMessages[x] : x \in DOMAIN unAckedMessages} \ Displaced(r)) \cup {Entry(m)}
    BY <2>1 DEF HeldOnce, Displaced
  <2>4. unsentMessages \cap Displaced(r) = {}
    BY DEF HeldOnce, Displaced
  <2>5. Waits(m, r)
    BY <1>1, <1>3, <2>1, <2>2, <2>3, <2>4, ReceiptBag DEF Waits, Tracked
  <2>6. QED BY <1>1, <2>5
<1>4. QED BY <1>2, <1>3

\* An awaited receipt takes its message, and no other, out of the engine.
LEMMA ReceiptReleases ==
    ASSUME NEW r \in DOMAIN unAckedMessages, EngineReceiptReceived(r), HeldOnce
    PROVE  /\ Tracked' = Tracked \ {unAckedMessages[r]}
           /\ completed' = completed \cup {unAckedMessages[r].message}
           /\ unAckedMessages' = [x \in DOMAIN unAckedMessages \ {r} |-> unAckedMessages[x]]
           /\ UNCHANGED <<unsentMessages, receivedReceipts, now, overwritten>>
<1>1. /\ completed' = completed \cup {unAckedMessages[r].message}
      /\ unAckedMessages' = [x \in DOMAIN unAckedMessages \ {r} |-> unAckedMessages[x]]
      /\ UNCHANGED <<unsentMessages, receivedReceipts, now, overwritten>>
  BY DEF EngineReceiptReceived
<1>2. {unAckedMessages'[x] : x \in DOMAIN unAckedMessages'}
         = {unAckedMessages[x] : x \in DOMAIN unAckedMessages} \ {unAckedMessages[r]}
  BY <1>1 DEF HeldOnce
<1>3. unAckedMessages[r] \notin unsentMessages
  BY DEF HeldOnce
<1>4. QED BY <1>1, <1>2, <1>3 DEF Tracked

\* A receipt nobody waits for is put by.
LEMMA ReceiptKept ==
    ASSUME NEW r, r \notin DOMAIN unAckedMessages, EngineReceiptReceived(r)
    PROVE  /\ Tracked' = Tracked
           /\ DOMAIN receivedReceipts' = DOMAIN receivedReceipts \cup {r}
           /\ UNCHANGED <<unAckedMessages, unsentMessages, completed, now, overwritten>>
<1>1. /\ receivedReceipts' = receivedReceipts (+) SetToBag({r})
      /\ UNCHANGED <<unAckedMessages, unsentMessages, completed, now, overwritten>>
  BY DEF EngineReceiptReceived
<1>2. DOMAIN receivedReceipts' = DOMAIN receivedReceipts \cup {r}
  BY <1>1, ReceiptBag
<1>3. QED BY <1>1, <1>2 DEF Tracked

\* Removing all messages leaves the engine empty.
LEMMA RemoveAllEmpties ==
    ASSUME RemoveAllMessages
    PROVE  /\ Tracked' = {} /\ DOMAIN unAckedMessages' = {}
           /\ unsentMessages' = {} /\ DOMAIN receivedReceipts' = {}
           /\ unAckedMessages' = [x \in {} |-> 0]
           /\ UNCHANGED <<now, completed, overwritten>>
<1>1. unAckedMessages' = [x \in {} |-> 0] /\ unsentMessages' = {} /\ receivedReceipts' = EmptyBag
      /\ UNCHANGED <<now, completed, overwritten>>
  BY DEF RemoveAllMessages
<1>2. DOMAIN unAckedMessages' = {} /\ DOMAIN receivedReceipts' = {}
  BY <1>1, ReceiptBag
<1>3. QED BY <1>1, <1>2 DEF Tracked
-----------------------------------------------------------------------------
(* What handing a message to the Core does *)

\* The message is held as unsent and no receipt number is given out.
HeldUnsent(m) ==
    /\ Tracked' = Tracked \cup {Entry(m)}
    /\ unsentMessages' = unsentMessages \cup {Entry(m)}
    /\ UNCHANGED <<unAckedMessages, receivedReceipts, completed, overwritten,
                   sent, nextReceipt, channel, store>>

Sending(m, r, isStored) ==
    [message |-> m, receipt |-> r, session |-> sessions, stored |-> isStored]

\* toxcore has it, under the receipt number r.
Taken(m, r) ==
    /\ \E isStored \in BOOLEAN : sent' = Append(sent, Sending(m, r, isStored))
    /\ Early(m, r) \/ Waits(m, r)
    /\ \/ store' = store \cup {Len(sent) + 1} /\ UNCHANGED <<channel, nextReceipt>>
       \/ nextReceipt' = nextReceipt + 1 /\ channel' = Append(channel, Len(sent) + 1)
          /\ UNCHANGED store
    /\ UNCHANGED unsentMessages

\* Narrowing yields a receipt number.
LEMMA NarrowedIsReceipt == ASSUME NEW id \in Nat PROVE ReceiptNum(id) \in Receipt
BY DeliveryAssumption DEF ReceiptNum, Receipt

\* Handing a message to the Core, or finding the friend offline: it is held as unsent,
\* or toxcore has it.
LEMMA SendHolds ==
    ASSUME NEW m \in Message, SendProcessedMessage(m), LinkTypeOK, HeldOnce
    PROVE  /\ now' = now + 1
           /\ refusals' \in Nat
           /\ HeldUnsent(m) \/ \E r \in Receipt : Taken(m, r)
           /\ UNCHANGED <<connected, sessions, announced, acks, reached>>
<1>1. UNCHANGED <<connected, sessions, announced, acks, reached>>
  BY DEF SendProcessedMessage
<1>2. CASE AddUnsentMessage(m) /\ UNCHANGED <<sendVars, channel, store>>
  BY <1>1, <1>2, AddUnsentHolds DEF HeldUnsent, sendVars, LinkTypeOK
<1>3. CASE SendRefused(m)
  <2>1. refusals' \in Nat
    BY <1>3 DEF SendRefused, LinkTypeOK
  <2>2. QED BY <1>1, <1>3, <2>1, AddUnsentHolds DEF SendRefused, HeldUnsent
<1>4. ASSUME NEW r \in Receipt, NEW isStored \in BOOLEAN, Accepted(m, r, isStored),
             \/ store' = store \cup {Len(sent) + 1} /\ UNCHANGED <<channel, nextReceipt>>
             \/ nextReceipt' = nextReceipt + 1 /\ channel' = Append(channel, Len(sent) + 1)
                /\ UNCHANGED store
      PROVE  /\ now' = now + 1
             /\ refusals' \in Nat
             /\ Taken(m, r)
  <2>1. /\ sent' = Append(sent, Sending(m, r, isStored)) /\ AddSentCoreMessage(r, m)
        /\ refusals' = refusals
    BY <1>4 DEF Accepted, Sending
  <2>2. /\ Early(m, r) \/ Waits(m, r)
        /\ now' = now + 1 /\ UNCHANGED unsentMessages
    BY <2>1, AddSentHolds
  <2>3. QED BY <1>4, <2>1, <2>2 DEF Taken, LinkTypeOK
<1>5. CASE SendDirect(m)
  <2>1. ReceiptNum(nextReceipt) \in Receipt
    BY NarrowedIsReceipt DEF LinkTypeOK
  <2>2. QED BY <1>1, <1>4, <1>5, <2>1 DEF SendDirect
<1>6. CASE SendStored(m)
  <2>1. PICK id \in OfflineIds : Accepted(m, ReceiptNum(id), TRUE)
    BY <1>6 DEF SendStored
  <2>2. ReceiptNum(id) \in Receipt
    BY <2>1, DeliveryAssumption, NarrowedIsReceipt
  <2>3. QED BY <1>1, <1>4, <1>6, <2>1, <2>2 DEF SendStored
<1>7. QED
  BY <1>2, <1>3, <1>5, <1>6 DEF SendProcessedMessage, SendCoreProcessedMessage

\* `sent' only grows: what was sent before keeps its place.
LEMMA SentGrows ==
    ASSUME NEW m \in Message, NEW r \in Receipt, Taken(m, r), LinkTypeOK
    PROVE  /\ sent' \in Seq(SentMessage)
           /\ Len(sent) \in Nat /\ Len(sent') = Len(sent) + 1
           /\ 1..Len(sent') = 1..Len(sent) \cup {Len(sent) + 1}
           /\ \A k \in 1..Len(sent) : sent'[k] = sent[k]
           /\ sent'[Len(sent) + 1].message = m /\ sent'[Len(sent) + 1].receipt = r
<1>1. PICK isStored \in BOOLEAN : sent' = Append(sent, Sending(m, r, isStored))
  BY DEF Taken
<1>2. Sending(m, r, isStored) \in SentMessage /\ sent \in Seq(SentMessage)
  BY DEF Sending, SentMessage, LinkTypeOK
<1>3. /\ sent' \in Seq(SentMessage) /\ Len(sent') = Len(sent) + 1 /\ Len(sent) \in Nat
      /\ \A k \in 1..Len(sent) : sent'[k] = sent[k]
      /\ sent'[Len(sent) + 1] = Sending(m, r, isStored)
  BY <1>1, <1>2, AppendProperties, LenProperties
<1>4. QED BY <1>3 DEF Sending

\* So two messages that clash still do, and only the new one may clash besides.
LEMMA ClashesKept ==
    ASSUME NEW m \in Message, NEW r \in Receipt, Taken(m, r), LinkTypeOK
    PROVE  /\ \A j, k \in 1..Len(sent) : Clash(j, k)' <=> Clash(j, k)
           /\ \A n : n = Len(sent) + 1 => \A j \in 1..Len(sent) :
                 Clash(j, n)' <=> sent[j].receipt = r /\ sent[j].message # m
           /\ Clashed \subseteq Clashed'
           /\ Clashed' \subseteq Clashed \cup {m}
           /\ m \notin Clashed' => \A j \in 1..Len(sent) : sent[j].receipt = r => sent[j].message = m
<1>1. \A j, k \in 1..Len(sent) : Clash(j, k)' <=> Clash(j, k)
  BY SentGrows DEF Clash
<1>2. \A n : n = Len(sent) + 1 => \A j \in 1..Len(sent) :
           Clash(j, n)' <=> sent[j].receipt = r /\ sent[j].message # m
  BY SentGrows DEF Clash
<1>3. Clashed \subseteq Clashed'
  BY <1>1, SentGrows DEF Clashed
<1>4. ASSUME NEW c \in Clashed' PROVE c \in Clashed \cup {m}
  <2>1. PICK k \in 1..Len(sent'), j \in 1..Len(sent') : Clash(j, k)' /\ c = sent'[k].message
    BY <1>4 DEF Clashed
  <2>2. CASE k = Len(sent) + 1
    BY <2>1, <2>2, SentGrows
  <2>3. CASE k \in 1..Len(sent)
    <3>1. j \in 1..Len(sent)
      BY <2>1, <2>3, SentGrows DEF Clash
    <3>2. QED BY <1>1, <2>1, <2>3, <3>1, SentGrows DEF Clashed
  <2>4. QED BY <2>1, <2>2, <2>3, SentGrows
<1>5. ASSUME m \notin Clashed', NEW j \in 1..Len(sent), sent[j].receipt = r PROVE sent[j].message = m
  <2>1. PICK n : n = Len(sent) + 1
    OBVIOUS
  <2>2. n \in 1..Len(sent') /\ j \in 1..Len(sent') /\ sent'[n].message = m
    BY <2>1, SentGrows
  <2>3. ~Clash(j, n)'
    BY <1>5, <2>2 DEF Clashed
  <2>4. QED BY <1>2, <1>5, <2>1, <2>3
<1>6. QED BY <1>1, <1>2, <1>3, <1>4, <1>5

\* Handing over a message keeps the engine and the link well-typed.
LEMMA SendTyped ==
    ASSUME NEW m \in Message, SendProcessedMessage(m), EngineTypeOK, LinkTypeOK, LinkKnown, HeldOnce
    PROVE  EngineTypeOK' /\ LinkTypeOK' /\ LinkKnown'
<1>1. Entry(m) \in OfflineMessage(Message)
  BY DEF Entry, OfflineMessage, EngineTypeOK
<1>2. now' \in Nat
  BY SendHolds DEF EngineTypeOK
<1>3. CASE HeldUnsent(m)
  <2>1. EngineTypeOK'
    BY <1>1, <1>2, <1>3 DEF HeldUnsent, EngineTypeOK
  <2>2. LinkTypeOK' /\ LinkKnown'
    BY <1>3, SendHolds DEF HeldUnsent, LinkTypeOK, LinkKnown
  <2>3. QED BY <2>1, <2>2
<1>4. ASSUME NEW r \in Receipt, Taken(m, r) PROVE EngineTypeOK' /\ LinkTypeOK' /\ LinkKnown'
  <2>1. EngineTypeOK'
    <3>1. CASE Early(m, r)
      BY <1>2, <1>4, <3>1 DEF Early, Taken, EngineTypeOK
    <3>2. CASE Waits(m, r)
      <4>1. {e.message : e \in Displaced(r)} \subseteq Message
        BY DEF Displaced, EngineTypeOK, OfflineMessage
      <4>2. QED BY <1>1, <1>2, <1>4, <3>2, <4>1 DEF Waits, Taken, EngineTypeOK
    <3>3. QED BY <1>4, <3>1, <3>2 DEF Taken
  <2>2. /\ Len(sent) + 1 \in 1..Len(sent') /\ 1..Len(sent) \subseteq 1..Len(sent')
        /\ sent' \in Seq(SentMessage) /\ Len(sent) + 1 \in Nat
    BY <1>4, SentGrows
  <2>3. /\ store \subseteq 1..Len(sent) /\ nextReceipt \in Nat \ {0} /\ channel \in Seq(Nat)
    BY DEF LinkTypeOK
  <2>4. store' \subseteq 1..Len(sent') /\ nextReceipt' \in Nat \ {0}
    <3>1. CASE store' = store \cup {Len(sent) + 1} /\ nextReceipt' = nextReceipt
      BY <2>2, <2>3, <3>1
    <3>2. CASE store' = store /\ nextReceipt' = nextReceipt + 1
      BY <2>2, <2>3, <3>2
    <3>3. QED BY <1>4, <3>1, <3>2 DEF Taken
  <2>5. /\ channel' \in Seq(Nat)
        /\ \A i \in 1..Len(channel') : channel'[i] \in 1..Len(sent')
    <3>1. CASE channel' = channel
      BY <2>2, <2>3, <3>1 DEF LinkKnown
    <3>2. CASE channel' = Append(channel, Len(sent) + 1)
      <4>1. /\ channel' \in Seq(Nat) /\ Len(channel') = Len(channel) + 1
            /\ \A i \in 1..Len(channel) : channel'[i] = channel[i]
            /\ channel'[Len(channel) + 1] = Len(sent) + 1
        BY <2>2, <2>3, <3>2, AppendProperties
      <4>2. \A i \in 1..Len(channel') : i \in 1..Len(channel) \/ i = Len(channel) + 1
        BY <2>3, <4>1, LenProperties
      <4>3. QED BY <2>2, <4>1, <4>2 DEF LinkKnown
    <3>3. QED BY <1>4, <3>1, <3>2 DEF Taken
  <2>6. LinkTypeOK'
    BY <2>2, <2>4, <2>5, SendHolds DEF LinkTypeOK
  <2>7. LinkKnown'
    BY <2>2, <2>5, SendHolds DEF LinkKnown
  <2>8. QED BY <2>1, <2>6, <2>7
<1>5. QED BY <1>3, <1>4, SendHolds

\* A receipt is waited for by the message that had the number last; those that have come
\* back stay earned.
LEMMA SendKeepsReceipts ==
    ASSUME NEW m \in Message, SendProcessedMessage(m), UNCHANGED events,
           EngineTypeOK, LinkTypeOK, LinkKnown, events \in Seq(Event), HeldOnce,
           ReceiptsAttributed, ReceiptsEarned
    PROVE  ReceiptsAttributed' /\ ReceiptsEarned'
<1>1. Reached' = Reached
  BY SendHolds DEF Reached
<1>2. CASE HeldUnsent(m)
  BY <1>1, <1>2, SendHolds
     DEF HeldUnsent, ReceiptsAttributed, ReceiptsEarned, Earned, LastSent
<1>3. ASSUME NEW r \in Receipt, Taken(m, r)
      PROVE  ReceiptsAttributed' /\ ReceiptsEarned'
  <2>0. PICK n : n = Len(sent) + 1
    OBVIOUS
  <2>1. /\ n \in 1..Len(sent') /\ 1..Len(sent') = 1..Len(sent) \cup {n}
        /\ \A k \in 1..Len(sent) : sent'[k] = sent[k] /\ k \in 1..Len(sent') /\ k <= n
        /\ sent'[n].message = m /\ sent'[n].receipt = r
    BY <1>3, <2>0, SentGrows
  <2>2. \A x : Earned(x) => Earned(x)'
    BY <1>1, <2>1 DEF Earned
  <2>3. DOMAIN receivedReceipts' \subseteq DOMAIN receivedReceipts
    BY <1>3 DEF Taken, Early, Waits
  <2>4. ReceiptsEarned'
    <3>1. \A i \in 1..Len(acks') : sent'[acks'[i]].message \in Reached'
      BY <1>1, <2>1, SendHolds DEF ReceiptsEarned, LinkKnown
    <3>2. QED BY <2>2, <2>3, <3>1 DEF ReceiptsEarned
  <2>5. \A k \in 1..Len(sent) : LastSent(k) /\ sent[k].receipt # r => LastSent(k)'
    BY <2>1 DEF LastSent
  <2>6. ASSUME NEW x \in DOMAIN unAckedMessages, unAckedMessages'[x] = unAckedMessages[x], x # r
        PROVE  \E k \in 1..Len(sent') : /\ sent'[k].receipt = x
                                        /\ sent'[k].message = unAckedMessages'[x].message
                                        /\ LastSent(k)'
    <3>1. PICK k \in 1..Len(sent) : /\ sent[k].receipt = x
                                    /\ sent[k].message = unAckedMessages[x].message
                                    /\ LastSent(k)
      BY <2>6 DEF ReceiptsAttributed
    <3>2. QED BY <2>1, <2>5, <2>6, <3>1
  <2>7. CASE Waits(m, r)
    <3>1. /\ unAckedMessages'[r].message = m
          /\ DOMAIN unAckedMessages' = DOMAIN unAckedMessages \cup {r}
          /\ \A x \in DOMAIN unAckedMessages \ {r} : unAckedMessages'[x] = unAckedMessages[x]
      BY <2>7 DEF Waits, Entry
    <3>2. LastSent(n)'
      BY <2>1 DEF LastSent
    <3>3. DOMAIN unAckedMessages' \cap DOMAIN receivedReceipts' = {}
      BY <2>7, <3>1 DEF Waits, ReceiptsAttributed
    <3>4. QED BY <2>1, <2>4, <2>6, <3>1, <3>2, <3>3 DEF ReceiptsAttributed
  <2>8. CASE Early(m, r)
    \* Nobody waits for a receipt that has come.
    <3>1. unAckedMessages' = unAckedMessages /\ r \in DOMAIN receivedReceipts
      BY <2>8 DEF Early
    <3>2. r \notin DOMAIN unAckedMessages
      BY <3>1 DEF ReceiptsAttributed
    <3>3. DOMAIN unAckedMessages' \cap DOMAIN receivedReceipts' = {}
      BY <2>3, <3>1 DEF ReceiptsAttributed
    <3>4. QED BY <2>4, <2>6, <3>1, <3>2, <3>3 DEF ReceiptsAttributed
  <2>9. QED BY <1>3, <2>7, <2>8 DEF Taken
<1>4. QED BY <1>2, <1>3, SendHolds

\* The engine holds no message but m that it did not hold before.
LEMMA SendTracks ==
    ASSUME NEW m \in Message, SendProcessedMessage(m), LinkTypeOK, HeldOnce
    PROVE  /\ Tracked' \subseteq Tracked \cup {Entry(m)}
           /\ unsentMessages' \subseteq unsentMessages \cup {Entry(m)}
           /\ \A r \in DOMAIN unAckedMessages' :
                 \/ r \in DOMAIN unAckedMessages /\ unAckedMessages'[r] = unAckedMessages[r]
                 \/ unAckedMessages'[r] = Entry(m) /\ UNCHANGED unsentMessages
                    /\ \A q \in DOMAIN unAckedMessages' \ {r} :
                          q \in DOMAIN unAckedMessages /\ unAckedMessages'[q] = unAckedMessages[q]
<1>1. CASE HeldUnsent(m)
  BY <1>1 DEF HeldUnsent
<1>2. ASSUME NEW r \in Receipt, Taken(m, r), Early(m, r)
      PROVE  Tracked' = Tracked /\ UNCHANGED <<unAckedMessages, unsentMessages>>
  BY <1>2 DEF Taken, Early
<1>3. ASSUME NEW r \in Receipt, Taken(m, r), Waits(m, r)
      PROVE  /\ Tracked' \subseteq Tracked \cup {Entry(m)} /\ UNCHANGED unsentMessages
             /\ DOMAIN unAckedMessages' = DOMAIN unAckedMessages \cup {r}
             /\ unAckedMessages'[r] = Entry(m)
             /\ \A x \in DOMAIN unAckedMessages \ {r} : unAckedMessages'[x] = unAckedMessages[x]
  BY <1>3 DEF Taken, Waits
<1>4. QED BY <1>1, <1>2, <1>3, SendHolds DEF Taken

\* Handing over the message that follows every message tracked, and precedes every
\* message still to be resent, keeps all of them apart and in order.
LEMMA SendKeepsOrder ==
    ASSUME NEW m \in Message, SendProcessedMessage(m),
           EngineTypeOK, LinkTypeOK,
           resending \subseteq OfflineMessage(Message), resending' \subseteq resending,
           StampsPast, HeldOnce, HeldInSendingOrder,
           \A e \in Tracked : e.message < m,
           \A f \in resending' : m < f.message
    PROVE  StampsPast' /\ HeldOnce' /\ HeldInSendingOrder'
<1>1. /\ Tracked \subseteq OfflineMessage(Message)
      /\ \A e \in OfflineMessage(Message) : e.message \in Nat /\ e.authorshipTime \in Nat
      /\ now \in Nat /\ m \in Nat
  BY DEF Tracked, EngineTypeOK, OfflineMessage, Message
<1>2. Entry(m).message = m /\ Entry(m).authorshipTime = now
  BY DEF Entry
<1>3. Tracked' \subseteq Tracked \cup {Entry(m)} /\ now' = now + 1
  BY SendHolds, SendTracks
<1>4. Held' \subseteq Held \cup {Entry(m)}
  BY <1>3 DEF Held
<1>5. StampsPast'
  BY <1>1, <1>2, <1>3, <1>4 DEF StampsPast, Held
<1>6. Entry(m) \notin Tracked \cup resending
  BY <1>1, <1>2 DEF StampsPast, Held
<1>7. HeldInSendingOrder'
  <2>1. InSendingOrder(Tracked)'
    BY <1>1, <1>2, <1>3 DEF HeldInSendingOrder, InSendingOrder, StampsPast, Held
  <2>2. InSendingOrder(resending)'
    BY DEF HeldInSendingOrder, InSendingOrder
  <2>3. \A e \in Tracked', f \in resending' : e.message < f.message
    BY <1>2, <1>3 DEF HeldInSendingOrder
  <2>4. QED BY <2>1, <2>2, <2>3 DEF HeldInSendingOrder
<1>8. HeldOnce'
  <2>1. \A e, f \in Held' : e.message = f.message => e = f
    <3>1. \A e \in Held' : e = Entry(m) \/ (e \in Held /\ e.message # m)
      BY <1>1, <1>3 DEF Held
    <3>2. QED BY <1>2, <3>1 DEF HeldOnce
  <2>2. unsentMessages' \cap resending' = {}
    BY <1>6, SendTracks DEF HeldOnce
  <2>3. \A r \in DOMAIN unAckedMessages :
           unAckedMessages[r] \notin unsentMessages \cup resending \cup {Entry(m)}
    BY <1>6 DEF HeldOnce, Tracked
  <2>4. ASSUME NEW r \in DOMAIN unAckedMessages'
        PROVE  /\ unAckedMessages'[r] \notin unsentMessages' \cup resending'
               /\ \A q \in DOMAIN unAckedMessages' : unAckedMessages'[q] = unAckedMessages'[r] => q = r
    <3>1. unsentMessages \subseteq Tracked
      BY DEF Tracked
    <3>2. CASE r \in DOMAIN unAckedMessages /\ unAckedMessages'[r] = unAckedMessages[r]
      <4>1. unAckedMessages'[r] \notin unsentMessages' \cup resending'
        BY <2>3, <3>2, SendTracks
      <4>2. ASSUME NEW q \in DOMAIN unAckedMessages', unAckedMessages'[q] = unAckedMessages'[r]
            PROVE  q = r
        BY <2>3, <3>2, <4>2, SendTracks DEF HeldOnce
      <4>3. QED BY <4>1, <4>2
    <3>3. CASE /\ unAckedMessages'[r] = Entry(m) /\ UNCHANGED unsentMessages
               /\ \A q \in DOMAIN unAckedMessages' \ {r} :
                     q \in DOMAIN unAckedMessages /\ unAckedMessages'[q] = unAckedMessages[q]
      BY <1>6, <2>3, <3>1, <3>3
    <3>4. QED BY <3>2, <3>3, SendTracks
  <2>5. QED BY <2>1, <2>2, <2>4 DEF HeldOnce
<1>9. QED BY <1>5, <1>7, <1>8

\* No message gets lost when m, which is in no other place, is handed over.
LEMMA SendLosesNone ==
    ASSUME NEW m \in Message, SendProcessedMessage(m), EngineTypeOK, LinkTypeOK,
           HeldOnce, NoMessageLost, ReceiptsAttributed,
           resending' \subseteq resending, discarded' = discarded,
           m \notin Finished,
           \A e \in Tracked \cup resending' : e.message # m
    PROVE  /\ {e.message : e \in Held'} \cup Finished'
                 = {e.message : e \in Tracked \cup resending'} \cup {m} \cup Finished
           /\ {e.message : e \in Held'} \cap Finished' = {}
           /\ completed' \cap discarded' = {}
           /\ overwritten' \cap (completed' \cup discarded') = {}
           /\ \A d \in overwritten' : \E j, k \in 1..Len(sent') : Clash(j, k)' /\ sent'[j].message = d
<1> DEFINE Left == Tracked \cup resending'
           Msgs(S) == {e.message : e \in S}
<1>1. /\ Left \subseteq Held /\ Held' = Tracked' \cup resending' /\ Entry(m).message = m
  BY DEF Held, Entry
<1>2. /\ Msgs(Left) \cap Finished = {} /\ m \notin Msgs(Left)
      /\ completed \cap discarded = {} /\ overwritten \cap (completed \cup discarded) = {}
  BY <1>1 DEF NoMessageLost, Finished
<1>3. CASE HeldUnsent(m)
  <2>1. Msgs(Held') = Msgs(Left) \cup {m}
    <3>1. Held' = Left \cup {Entry(m)}
      BY <1>1, <1>3 DEF HeldUnsent
    <3>2. QED BY <1>1, <3>1
  <2>2. UNCHANGED <<completed, overwritten, sent>>
    BY <1>3 DEF HeldUnsent
  <2>3. QED BY <1>2, <2>1, <2>2 DEF Finished, NoMessageLost, Clash
<1>4. ASSUME NEW r \in Receipt, Taken(m, r), Early(m, r)
      PROVE  /\ Msgs(Held') \cup Finished' = Msgs(Left) \cup {m} \cup Finished
             /\ Msgs(Held') \cap Finished' = {}
             /\ completed' \cap discarded' = {}
             /\ overwritten' \cap (completed' \cup discarded') = {}
             /\ \A d \in overwritten' : \E j, k \in 1..Len(sent') : Clash(j, k)' /\ sent'[j].message = d
  <2>1. completed' = completed \cup {m} /\ overwritten' = overwritten /\ Held' = Left
    BY <1>1, <1>4 DEF Early
  <2>2. \A d \in overwritten : \E j, k \in 1..Len(sent') : Clash(j, k)' /\ sent'[j].message = d
    BY <1>4, SentGrows, ClashesKept DEF NoMessageLost
  <2>3. QED BY <1>2, <2>1, <2>2 DEF Finished
<1>5. ASSUME NEW r \in Receipt, Taken(m, r), Waits(m, r)
      PROVE  /\ Msgs(Held') \cup Finished' = Msgs(Left) \cup {m} \cup Finished
             /\ Msgs(Held') \cap Finished' = {}
             /\ completed' \cap discarded' = {}
             /\ overwritten' \cap (completed' \cup discarded') = {}
             /\ \A d \in overwritten' : \E j, k \in 1..Len(sent') : Clash(j, k)' /\ sent'[j].message = d
  <2> DEFINE D == Displaced(r)
  <2>1. /\ completed' = completed /\ overwritten' = overwritten \cup Msgs(D)
        /\ Tracked' = (Tracked \ D) \cup {Entry(m)}
    BY <1>5 DEF Waits
  <2>2. D \subseteq Tracked /\ D \cap resending = {}
    BY DEF Displaced, Tracked, HeldOnce
  <2>3. Held' = (Left \ D) \cup {Entry(m)}
    BY <1>1, <2>1, <2>2
  <2>4. Msgs(Left \ D) = Msgs(Left) \ Msgs(D)
    BY <1>1, <2>2 DEF HeldOnce
  <2>5. Msgs(Held') = (Msgs(Left) \ Msgs(D)) \cup {m}
    BY <1>1, <2>3, <2>4
  <2>6. Msgs(D) \subseteq Msgs(Left)
    BY <2>2
  <2>7. ASSUME NEW d \in Msgs(D)
        PROVE  \E j, k \in 1..Len(sent') : Clash(j, k)' /\ sent'[j].message = d
    <3>1. r \in DOMAIN unAckedMessages /\ d = unAckedMessages[r].message /\ d # m
      BY <1>2, <2>6, <2>7 DEF Displaced
    <3>2. PICK j \in 1..Len(sent) : sent[j].receipt = r /\ sent[j].message = d
      BY <3>1 DEF ReceiptsAttributed
    <3>3. PICK n : n = Len(sent) + 1
      OBVIOUS
    <3>4. Clash(j, n)'
      BY <1>5, <3>1, <3>2, <3>3, ClashesKept
    <3>5. QED BY <1>5, <3>2, <3>3, <3>4, SentGrows
  <2>8. \A d \in overwritten : \E j, k \in 1..Len(sent') : Clash(j, k)' /\ sent'[j].message = d
    BY <1>5, SentGrows, ClashesKept DEF NoMessageLost
  <2>9. \A d \in overwritten' : \E j, k \in 1..Len(sent') : Clash(j, k)' /\ sent'[j].message = d
    BY <2>1, <2>7, <2>8
  <2> HIDE DEF Left, Msgs, D
  <2>10. /\ Msgs(Held') \cup Finished' = Msgs(Left) \cup {m} \cup Finished
         /\ Msgs(Held') \cap Finished' = {}
    BY <1>2, <2>1, <2>5, <2>6 DEF Finished
  <2>11. /\ completed' \cap discarded' = {}
         /\ overwritten' \cap (completed' \cup discarded') = {}
    BY <1>2, <2>1, <2>6 DEF Finished
  <2>12. QED BY <2>9, <2>10, <2>11
<1>6. QED BY <1>3, <1>4, <1>5, SendHolds DEF Taken

\* What is marked as received for certain has arrived: when the receipt was there before
\* the message was sent, every earlier message of that number was the same one.
LEMMA SendConfirms ==
    ASSUME NEW m \in Message, SendProcessedMessage(m), LinkTypeOK, HeldOnce, ReceiptsEarned,
           m \notin completed
    PROVE  /\ Confirmed' = Confirmed \/ (Confirmed' = Confirmed \cup {m} /\ m \in Reached)
           /\ Reached' = Reached
<1>1. Reached' = Reached
  BY SendHolds DEF Reached
<1>2. CASE HeldUnsent(m)
  BY <1>1, <1>2 DEF HeldUnsent, Confirmed, Clashed, Clash
<1>3. ASSUME NEW r \in Receipt, Taken(m, r), Waits(m, r)
      PROVE  Confirmed' = Confirmed
  BY <1>3, ClashesKept DEF Waits, Confirmed
<1>4. ASSUME NEW r \in Receipt, Taken(m, r), Early(m, r)
      PROVE  Confirmed' = Confirmed \/ (Confirmed' = Confirmed \cup {m} /\ m \in Reached)
  <2>1. completed' = completed \cup {m} /\ r \in DOMAIN receivedReceipts
    BY <1>4 DEF Early
  <2>2. CASE m \in Clashed'
    BY <1>4, <2>1, <2>2, ClashesKept DEF Confirmed
  <2>3. CASE m \notin Clashed'
    <3>1. PICK k \in 1..Len(sent) : sent[k].receipt = r /\ sent[k].message \in Reached
      BY <2>1 DEF ReceiptsEarned, Earned
    <3>2. sent[k].message = m
      BY <1>4, <2>3, <3>1, ClashesKept
    <3>3. QED BY <1>4, <2>1, <2>3, <3>1, <3>2, ClashesKept DEF Confirmed
  <2>4. QED BY <2>2, <2>3
<1>5. QED BY <1>1, <1>2, <1>3, <1>4, SendHolds DEF Taken

\* What toxcore was handed was submitted.
LEMMA SendKeepsSubmitted ==
    ASSUME NEW m \in Message, SendProcessedMessage(m), LinkTypeOK, HeldOnce, SentSubmitted,
           m \in Submitted', Submitted \subseteq Submitted'
    PROVE  SentSubmitted'
<1>1. CASE HeldUnsent(m)
  BY <1>1 DEF HeldUnsent, SentSubmitted
<1>2. ASSUME NEW r \in Receipt, Taken(m, r) PROVE SentSubmitted'
  BY <1>2, SentGrows DEF SentSubmitted
<1>3. QED BY <1>1, <1>2, SendHolds
-----------------------------------------------------------------------------
(* IInv is inductive: one lemma for each action of the GUI thread, one for the *)
(* actions of the Core thread and the peer.                                    *)

\* A message that leaves parts or resending is in Message and follows the messages
\* tracked.
LEMMA DispatchPartKeeps ==
    ASSUME IInv, DispatchPart
    PROVE  IInv'
<1>0. PICK m : m = nextMessageId
  OBVIOUS
<1>1. /\ parts > 0 /\ parts' = parts - 1 /\ nextMessageId' = m + 1
      /\ SendProcessedMessage(m)
      /\ UNCHANGED <<friendStatus, resending, discarded, signalVars>>
  BY <1>0 DEF DispatchPart
<1>2. m \in Message
  BY <1>0, <1>1, DeliveryAssumption DEF IInv, TypeOK, GuiTypeOK, Message
<1>3. resending = {} /\ UNCHANGED <<events, drops>>
  BY <1>1 DEF IInv, OneHandler, signalVars
<1>4. /\ EngineTypeOK /\ LinkTypeOK /\ GuiTypeOK /\ LinkKnown /\ ReceiptsAttributed
      /\ ReceiptsEarned /\ SentSubmitted /\ StampsPast /\ HeldOnce /\ HeldInSendingOrder
      /\ NoMessageLost /\ CompletedHadArrived
  BY DEF IInv, TypeOK
<1>5. Submitted' = Submitted \cup {m} /\ m \notin Submitted /\ \A x \in Submitted : x \in Nat /\ x < m
  BY <1>0, <1>1, <1>2 DEF Submitted, Message
<1>6. /\ \A e \in Held : e.message \in Submitted
      /\ m \notin Finished
  BY <1>4, <1>5 DEF NoMessageLost, Finished
<1>7. \A e \in Held : e.message < m /\ e.message # m
  BY <1>5, <1>6
<1>8. EngineTypeOK' /\ LinkTypeOK' /\ LinkKnown'
  BY <1>1, <1>2, <1>4, SendTyped
<1>9. GuiTypeOK'
  BY <1>0, <1>1, <1>3, <1>4 DEF GuiTypeOK
<1>10. ReceiptsAttributed' /\ ReceiptsEarned'
  BY <1>1, <1>2, <1>3, <1>4, SendKeepsReceipts DEF GuiTypeOK
<1>11. StampsPast' /\ HeldOnce' /\ HeldInSendingOrder'
  BY <1>1, <1>2, <1>3, <1>4, <1>7, SendKeepsOrder DEF GuiTypeOK, Held
<1>12. OneHandler'
  BY <1>1, <1>3 DEF OneHandler
<1>13. SentSubmitted'
  BY <1>1, <1>2, <1>4, <1>5, SendKeepsSubmitted
<1>14. NoMessageLost'
  <2>1. \A e \in Tracked \cup resending' : e.message # m
    BY <1>1, <1>7 DEF Held
  <2>2. /\ {e.message : e \in Held'} \cup Finished'
              = {e.message : e \in Tracked \cup resending'} \cup {m} \cup Finished
        /\ {e.message : e \in Held'} \cap Finished' = {}
        /\ completed' \cap discarded' = {}
        /\ overwritten' \cap (completed' \cup discarded') = {}
        /\ \A d \in overwritten' : \E j, k \in 1..Len(sent') : Clash(j, k)' /\ sent'[j].message = d
    BY <1>1, <1>2, <1>4, <1>6, <2>1, SendLosesNone
  <2>3. {e.message : e \in Tracked \cup resending'} = {e.message : e \in Held}
    BY <1>1 DEF Held
  <2>4. Submitted = {e.message : e \in Held} \cup Finished
    BY <1>4 DEF NoMessageLost, Finished
  <2>5. Submitted' = {e.message : e \in Held'} \cup Finished'
    BY <1>5, <2>2, <2>3, <2>4
  <2>6. QED BY <2>2, <2>5 DEF NoMessageLost, Finished
<1>15. CompletedHadArrived'
  BY <1>1, <1>2, <1>4, <1>6, SendConfirms DEF CompletedHadArrived, Finished
<1>16. QED
  BY <1>8, <1>9, <1>10, <1>11, <1>12, <1>13, <1>14, <1>15 DEF IInv, TypeOK

\* A turn of the resend loop, whatever happened since the last one.
LEMMA ResendNextKeeps ==
    ASSUME IInv, ResendNext
    PROVE  IInv'
<1>1. PICK e \in resending :
          /\ Earliest(e, resending)
          /\ resending' = resending \ {e}
          /\ SendProcessedMessage(e.message)
  BY DEF ResendNext
<1>2. /\ UNCHANGED <<friendStatus, nextMessageId, parts, discarded, signalVars>>
      /\ UNCHANGED <<events, drops>>
  BY DEF ResendNext, signalVars
<1>3. /\ EngineTypeOK /\ LinkTypeOK /\ GuiTypeOK /\ LinkKnown /\ ReceiptsAttributed
      /\ ReceiptsEarned /\ SentSubmitted /\ StampsPast /\ HeldOnce /\ HeldInSendingOrder
      /\ NoMessageLost /\ CompletedHadArrived
  BY DEF IInv, TypeOK
<1>4. PICK m : m = e.message
  OBVIOUS
<1>5. /\ m \in Message /\ m \in Nat
      /\ resending \subseteq OfflineMessage(Message)
      /\ \A f \in resending : f.message \in Nat /\ f.authorshipTime \in Nat
  BY <1>3, <1>4 DEF GuiTypeOK, OfflineMessage, Message
<1>6. SendProcessedMessage(m) /\ resending' \subseteq resending /\ discarded' = discarded
  BY <1>1, <1>2, <1>4
<1>7. \A f \in Tracked : f.message < m /\ f.message # m
  <2>1. \A f \in Tracked : f.message < m /\ f.message \in Nat
    BY <1>1, <1>3, <1>4 DEF HeldInSendingOrder, Tracked, EngineTypeOK, OfflineMessage, Message
  <2>2. QED BY <1>5, <2>1
<1>8. \A f \in resending' : m < f.message /\ f.message # m
  <2>1. SUFFICES ASSUME NEW f \in resending, f # e PROVE m < f.message /\ f.message # m
    BY <1>1
  <2>2. f.message # m
    BY <1>1, <1>3, <1>4, <2>1 DEF HeldOnce, Held
  <2>3. ~(f.message < m)
    BY <1>1, <1>3, <1>4, <1>5 DEF Earliest, HeldInSendingOrder, InSendingOrder
  <2>4. QED BY <1>5, <2>2, <2>3
<1>9. m \in Submitted /\ m \notin Finished
  BY <1>1, <1>3, <1>4 DEF NoMessageLost, Held, Finished
<1>10. EngineTypeOK' /\ LinkTypeOK' /\ LinkKnown'
  BY <1>3, <1>5, <1>6, SendTyped
<1>11. GuiTypeOK'
  BY <1>2, <1>3, <1>6 DEF GuiTypeOK
<1>12. ReceiptsAttributed' /\ ReceiptsEarned'
  BY <1>2, <1>3, <1>5, <1>6, SendKeepsReceipts DEF GuiTypeOK
<1>13. StampsPast' /\ HeldOnce' /\ HeldInSendingOrder'
  BY <1>3, <1>5, <1>6, <1>7, <1>8, SendKeepsOrder
<1>14. OneHandler'
  BY <1>1, <1>2 DEF IInv, OneHandler
<1>15. Submitted' = Submitted
  BY <1>2 DEF Submitted
<1>16. SentSubmitted'
  BY <1>3, <1>5, <1>6, <1>9, <1>15, SendKeepsSubmitted
<1>17. NoMessageLost'
  <2>1. /\ {f.message : f \in Held'} \cup Finished'
              = {f.message : f \in Tracked \cup resending'} \cup {m} \cup Finished
        /\ {f.message : f \in Held'} \cap Finished' = {}
        /\ completed' \cap discarded' = {}
        /\ overwritten' \cap (completed' \cup discarded') = {}
        /\ \A d \in overwritten' : \E j, k \in 1..Len(sent') : Clash(j, k)' /\ sent'[j].message = d
    BY <1>3, <1>5, <1>6, <1>7, <1>8, <1>9, SendLosesNone
  <2>2. {f.message : f \in Tracked \cup resending'} \cup {m} = {f.message : f \in Held}
    BY <1>1, <1>4 DEF Held
  <2>3. Submitted = {f.message : f \in Held} \cup Finished
    BY <1>3 DEF NoMessageLost, Finished
  <2>4. Submitted' = {f.message : f \in Held'} \cup Finished'
    BY <1>15, <2>1, <2>2, <2>3
  <2>5. QED BY <2>1, <2>4 DEF NoMessageLost, Finished
<1>18. CompletedHadArrived'
  BY <1>3, <1>5, <1>6, <1>9, SendConfirms DEF CompletedHadArrived, Finished
<1>19. QED
  BY <1>10, <1>11, <1>12, <1>13, <1>14, <1>16, <1>17, <1>18 DEF IInv, TypeOK

\* Taking a signal from the queue leaves the link, and what the other signals say, alone.
LEMMA SignalTaken ==
    ASSUME IInv, DeliverEvent
    PROVE  /\ events' \in Seq(Event)
           /\ LinkTypeOK' /\ LinkKnown' /\ SentSubmitted'
           /\ UNCHANGED <<Reached, Clashed, sent>>
           /\ \A r : Earned(r)' <=> Earned(r)
           /\ \A i \in 1..Len(acks') : sent'[acks'[i]].message \in Reached'
           /\ (\A i \in 1..Len(events) :
                 events[i].signal = "receiptReceived" => Earned(events[i].receipt))'
           /\ Head(events) = events[1] /\ 1 \in 1..Len(events) /\ Head(events) \in Event
<1>1. /\ events # <<>> /\ events' = Tail(events)
      /\ UNCHANGED <<nextMessageId, parts, discarded, drops, linkVars, sendVars>>
  BY DEF DeliverEvent
<1>2. LinkTypeOK /\ LinkKnown /\ SentSubmitted /\ ReceiptsEarned /\ events \in Seq(Event)
  BY DEF IInv, TypeOK, GuiTypeOK
<1>3. /\ events' \in Seq(Event)
      /\ Len(events') = Len(events) - 1 /\ Len(events) \in Nat
      /\ \A i \in 1..Len(events') : events'[i] = events[i + 1]
      /\ Head(events) = events[1] /\ Head(events) \in Event
  BY <1>1, <1>2, HeadTailProperties, LenProperties
<1>4. 1 \in 1..Len(events) /\ \A i \in 1..Len(events') : i + 1 \in 1..Len(events)
  BY <1>1, <1>2, <1>3, EmptySeq, LenProperties
<1>5. LinkTypeOK' /\ LinkKnown' /\ SentSubmitted'
  BY <1>1, <1>2 DEF LinkTypeOK, LinkKnown, SentSubmitted, Submitted, linkVars, sendVars
<1>6. UNCHANGED <<Reached, Clashed, sent>>
  BY <1>1 DEF Reached, Clashed, Clash, linkVars, sendVars
<1>7. \A r : Earned(r)' <=> Earned(r)
  BY <1>6 DEF Earned
<1>8. \A i \in 1..Len(acks') : sent'[acks'[i]].message \in Reached'
  BY <1>1, <1>2, <1>6 DEF ReceiptsEarned, linkVars
<1>9. (\A i \in 1..Len(events) :
          events[i].signal = "receiptReceived" => Earned(events[i].receipt))'
  <2>1. \A i \in 1..Len(events') : events'[i].signal = "receiptReceived" =>
            \E k \in 1..Len(sent) : sent[k].receipt = events'[i].receipt /\ sent[k].message \in Reached
    BY <1>2, <1>3, <1>4 DEF ReceiptsEarned, Earned
  <2>2. QED BY <1>6, <2>1 DEF Earned
<1>10. QED BY <1>3, <1>4, <1>5, <1>6, <1>7, <1>8, <1>9

\* A status change moves every message the engine holds into the resend loop, or
\* nothing.
LEMMA StatusChangeKeeps ==
    ASSUME IInv, DeliverEvent, NEW s \in Status, OnFriendStatusChanged(s)
    PROVE  IInv'
<1>1. /\ GuiIdle
      /\ UNCHANGED <<nextMessageId, parts, discarded, drops, linkVars, sendVars>>
  BY DEF DeliverEvent
<1>2. /\ EngineTypeOK /\ GuiTypeOK /\ ReceiptsAttributed
      /\ ReceiptsEarned /\ StampsPast /\ HeldOnce /\ HeldInSendingOrder /\ NoMessageLost
      /\ CompletedHadArrived
  BY DEF IInv, TypeOK
<1>3. /\ events' \in Seq(Event) /\ LinkTypeOK' /\ LinkKnown' /\ SentSubmitted'
      /\ UNCHANGED <<Reached, Clashed, sent>>
  BY SignalTaken
<1>4. resending = {} /\ parts = 0
  BY <1>1 DEF GuiIdle
<1>5. CASE ~IsOnline(friendStatus) /\ IsOnline(s)
  <2>1. resending' = Tracked /\ RemoveAllMessages /\ friendStatus' = s
    BY <1>5 DEF OnFriendStatusChanged
  <2>2. /\ Tracked' = {} /\ DOMAIN unAckedMessages' = {}
        /\ unsentMessages' = {} /\ DOMAIN receivedReceipts' = {}
        /\ unAckedMessages' = [x \in {} |-> 0]
        /\ UNCHANGED <<now, completed, overwritten>>
    BY <2>1, RemoveAllEmpties
  <2>3. Held' = Held /\ resending' = Held
    BY <1>4, <2>1, <2>2 DEF Held
  <2>4. Tracked \subseteq OfflineMessage(Message)
    BY <1>2 DEF Tracked, EngineTypeOK
  <2>5. EngineTypeOK' /\ GuiTypeOK'
    BY <1>1, <1>2, <1>3, <2>1, <2>2, <2>4 DEF EngineTypeOK, GuiTypeOK
  <2>6. ReceiptsAttributed' /\ ReceiptsEarned'
    BY <2>2, SignalTaken DEF ReceiptsAttributed, ReceiptsEarned
  <2>7. StampsPast' /\ OneHandler'
    BY <1>1, <1>2, <1>4, <2>2, <2>3 DEF StampsPast, OneHandler
  <2>8. HeldOnce' /\ HeldInSendingOrder'
    BY <1>2, <1>4, <2>1, <2>2, <2>3 DEF HeldOnce, HeldInSendingOrder, InSendingOrder, Held
  <2>9. NoMessageLost' /\ CompletedHadArrived'
    BY <1>1, <1>2, <1>3, <2>2, <2>3
       DEF NoMessageLost, CompletedHadArrived, Confirmed, Submitted, Clash
  <2>10. QED BY <1>3, <2>5, <2>6, <2>7, <2>8, <2>9 DEF IInv, TypeOK
<1>6. CASE ~(~IsOnline(friendStatus) /\ IsOnline(s))
  <2>1. friendStatus' = s /\ UNCHANGED <<resending, engineVars>>
    BY <1>6 DEF OnFriendStatusChanged
  <2>2. Tracked' = Tracked /\ Held' = Held
    BY <2>1 DEF Tracked, Held, engineVars
  <2>3. EngineTypeOK' /\ GuiTypeOK'
    BY <1>1, <1>2, <1>3, <2>1 DEF EngineTypeOK, GuiTypeOK, engineVars
  <2>4. ReceiptsAttributed'
    BY <1>2, <1>3, <2>1 DEF ReceiptsAttributed, LastSent, engineVars
  <2>5. ReceiptsEarned'
    BY <1>2, <2>1, SignalTaken DEF ReceiptsEarned, engineVars
  <2>6. StampsPast' /\ OneHandler'
    BY <1>1, <1>2, <1>4, <2>1, <2>2 DEF StampsPast, OneHandler, engineVars
  <2>7. HeldOnce' /\ HeldInSendingOrder'
    BY <1>2, <2>1, <2>2 DEF HeldOnce, HeldInSendingOrder, InSendingOrder, engineVars
  <2>8. NoMessageLost' /\ CompletedHadArrived'
    BY <1>1, <1>2, <1>3, <2>1, <2>2
       DEF NoMessageLost, CompletedHadArrived, Confirmed, Submitted, Clash, engineVars
  <2>9. QED BY <1>3, <2>3, <2>4, <2>5, <2>6, <2>7, <2>8 DEF IInv, TypeOK
<1>7. QED BY <1>5, <1>6

\* A message that waits for a receipt that was earned has arrived, unless another message
\* had the number before it.
LEMMA AwaitedArrived ==
    ASSUME ReceiptsAttributed, LinkTypeOK,
           NEW r \in DOMAIN unAckedMessages, Earned(r),
           unAckedMessages[r].message \notin Clashed
    PROVE  unAckedMessages[r].message \in Reached
<1>1. PICK k \in 1..Len(sent) : /\ sent[k].receipt = r
                                /\ sent[k].message = unAckedMessages[r].message
                                /\ LastSent(k)
  BY DEF ReceiptsAttributed
<1>2. PICK j \in 1..Len(sent) : sent[j].receipt = r /\ sent[j].message \in Reached
  BY DEF Earned
<1>3. j <= k
  BY <1>1, <1>2 DEF LastSent
<1>4. ~Clash(j, k)
  BY <1>1 DEF Clashed
<1>5. CASE j = k
  BY <1>1, <1>2, <1>5
<1>6. CASE j < k
  BY <1>1, <1>2, <1>4, <1>6 DEF Clash
<1>7. Len(sent) \in Nat
  BY LenProperties DEF LinkTypeOK
<1>8. QED BY <1>3, <1>5, <1>6, <1>7

\* A receipt completes the message that waits for it, which has arrived.
LEMMA ReceiptKeeps ==
    ASSUME IInv, DeliverEvent, Head(events).signal = "receiptReceived",
           OnReceiptReceived(Head(events).receipt)
    PROVE  IInv'
<1>0. PICK r : r = Head(events).receipt
  OBVIOUS
<1>1. /\ GuiIdle
      /\ UNCHANGED <<nextMessageId, parts, discarded, drops, linkVars, sendVars>>
      /\ UNCHANGED <<friendStatus, resending>>
      /\ EngineReceiptReceived(r)
  BY <1>0 DEF DeliverEvent, OnReceiptReceived
<1>2. /\ EngineTypeOK /\ LinkTypeOK /\ GuiTypeOK /\ ReceiptsAttributed
      /\ ReceiptsEarned /\ StampsPast /\ HeldOnce /\ HeldInSendingOrder /\ NoMessageLost
      /\ CompletedHadArrived
  BY DEF IInv, TypeOK
<1>3. /\ events' \in Seq(Event) /\ LinkTypeOK' /\ LinkKnown' /\ SentSubmitted'
      /\ UNCHANGED <<Reached, Clashed, sent>>
  BY SignalTaken
<1>4. resending = {} /\ parts = 0
  BY <1>1 DEF GuiIdle
<1>5. Earned(r) /\ r \in Receipt
  <2>1. Earned(r)
    BY <1>0, <1>2, SignalTaken DEF ReceiptsEarned
  <2>2. PICK k \in 1..Len(sent) : sent[k].receipt = r
    BY <2>1 DEF Earned
  <2>3. sent[k] \in SentMessage
    BY <1>2, <2>2 DEF LinkTypeOK
  <2>4. QED BY <2>1, <2>2, <2>3 DEF SentMessage
<1>6. GuiTypeOK' /\ OneHandler'
  BY <1>1, <1>2, <1>3, <1>4 DEF GuiTypeOK, OneHandler
<1>7. CASE r \in DOMAIN unAckedMessages
  <2>0. PICK a : a = unAckedMessages[r]
    OBVIOUS
  <2>1. /\ Tracked' = Tracked \ {a}
        /\ completed' = completed \cup {a.message}
        /\ unAckedMessages' = [x \in DOMAIN unAckedMessages \ {r} |-> unAckedMessages[x]]
        /\ UNCHANGED <<unsentMessages, receivedReceipts, now, overwritten>>
    BY <1>1, <1>2, <1>7, <2>0, ReceiptReleases
  <2>2. a \in Tracked /\ a \in OfflineMessage(Message) /\ a.message \in Message
    BY <1>2, <1>7, <2>0 DEF Tracked, EngineTypeOK, OfflineMessage
  <2>3. Held' = Held \ {a}
    BY <1>1, <1>4, <2>1 DEF Held
  <2>4. EngineTypeOK'
    BY <1>2, <2>1, <2>2 DEF EngineTypeOK
  <2>5. ReceiptsAttributed' /\ ReceiptsEarned'
    <3>1. ReceiptsAttributed'
      BY <1>2, <1>3, <2>1 DEF ReceiptsAttributed, LastSent
    <3>2. QED BY <1>2, <2>1, <3>1, SignalTaken DEF ReceiptsEarned
  <2>6. StampsPast'
    BY <1>2, <2>1, <2>3 DEF StampsPast
  <2>7. HeldOnce' /\ HeldInSendingOrder'
    BY <1>1, <1>2, <2>1, <2>3 DEF HeldOnce, HeldInSendingOrder, InSendingOrder
  <2>8. NoMessageLost'
    <3>1. {e.message : e \in Held'} = {e.message : e \in Held} \ {a.message}
      BY <1>2, <2>2, <2>3 DEF HeldOnce, Held
    <3>2. a.message \in {e.message : e \in Held}
      BY <2>2 DEF Held
    <3>3. Submitted' = Submitted /\ discarded' = discarded
      BY <1>1 DEF Submitted
    <3>4. \A m \in overwritten' : \E j, k \in 1..Len(sent') : Clash(j, k)' /\ sent'[j].message = m
      BY <1>2, <1>3, <2>1 DEF NoMessageLost, Clash
    <3> DEFINE M == {e.message : e \in Held}
               N == {e.message : e \in Held'}
    <3>5. /\ N = M \ {a.message} /\ a.message \in M
          /\ Submitted = M \cup completed \cup discarded \cup overwritten
          /\ M \cap (completed \cup discarded \cup overwritten) = {}
          /\ completed \cap discarded = {} /\ overwritten \cap (completed \cup discarded) = {}
      BY <1>2, <3>1, <3>2 DEF NoMessageLost
    <3> HIDE DEF M, N
    <3>6. /\ Submitted' = N \cup completed' \cup discarded' \cup overwritten'
          /\ N \cap (completed' \cup discarded' \cup overwritten') = {}
          /\ completed' \cap discarded' = {} /\ overwritten' \cap (completed' \cup discarded') = {}
      BY <2>1, <3>3, <3>5
    <3>7. QED BY <3>4, <3>6 DEF NoMessageLost, N
  <2>9. CompletedHadArrived'
    <3>1. a.message \notin Clashed => a.message \in Reached
      BY <1>2, <1>5, <1>7, <2>0, AwaitedArrived
    <3>2. QED BY <1>2, <1>3, <2>1, <3>1 DEF CompletedHadArrived, Confirmed
  <2>10. QED
    BY <1>3, <1>6, <2>4, <2>5, <2>6, <2>7, <2>8, <2>9 DEF IInv, TypeOK
<1>8. CASE r \notin DOMAIN unAckedMessages
  <2>1. /\ Tracked' = Tracked /\ DOMAIN receivedReceipts' = DOMAIN receivedReceipts \cup {r}
        /\ UNCHANGED <<unAckedMessages, unsentMessages, completed, now, overwritten>>
    BY <1>1, <1>8, ReceiptKept
  <2>2. Held' = Held
    BY <1>1, <2>1 DEF Held
  <2>3. EngineTypeOK'
    BY <1>2, <1>5, <2>1 DEF EngineTypeOK
  <2>4. ReceiptsAttributed' /\ ReceiptsEarned'
    <3>1. ReceiptsAttributed'
      BY <1>2, <1>3, <1>8, <2>1 DEF ReceiptsAttributed, LastSent
    <3>2. \A x \in DOMAIN receivedReceipts' : Earned(x)'
      BY <1>2, <1>5, <2>1, SignalTaken DEF ReceiptsEarned
    <3>3. QED BY <3>1, <3>2, SignalTaken DEF ReceiptsEarned
  <2>5. StampsPast' /\ HeldOnce' /\ HeldInSendingOrder'
    BY <1>1, <1>2, <2>1, <2>2 DEF StampsPast, HeldOnce, HeldInSendingOrder, InSendingOrder
  <2>6. NoMessageLost' /\ CompletedHadArrived'
    BY <1>1, <1>2, <1>3, <2>1, <2>2
       DEF NoMessageLost, CompletedHadArrived, Confirmed, Submitted, Clash
  <2>7. QED BY <1>3, <1>6, <2>3, <2>4, <2>5, <2>6 DEF IInv, TypeOK
<1>9. QED BY <1>7, <1>8

\* The GUI thread takes the next queued signal of the Core.
LEMMA DeliverEventKeeps ==
    ASSUME IInv, DeliverEvent
    PROVE  IInv'
<1>1. CASE /\ Head(events).signal = "friendStatusChanged"
           /\ OnFriendStatusChanged(Head(events).status)
  <2>1. Head(events) \in Event
    BY SignalTaken
  <2>2. Head(events).status \in Status
    BY <1>1, <2>1 DEF Event
  <2>3. QED BY <1>1, <2>2, StatusChangeKeeps
<1>2. CASE /\ Head(events).signal = "receiptReceived"
           /\ OnReceiptReceived(Head(events).receipt)
  BY <1>2, ReceiptKeeps
<1>3. QED BY <1>1, <1>2 DEF DeliverEvent

\* Dropping everything moves the messages held to those discarded.
LEMMA ClearKeeps ==
    ASSUME IInv, ClearOutgoingMessages
    PROVE  IInv'
<1>1. /\ GuiIdle
      /\ discarded' = discarded \cup {e.message : e \in Tracked}
      /\ RemoveAllMessages
      /\ UNCHANGED <<friendStatus, nextMessageId, parts, resending, signalVars, linkVars, sendVars>>
  BY DEF ClearOutgoingMessages
<1>2. /\ EngineTypeOK /\ LinkTypeOK /\ GuiTypeOK /\ LinkKnown /\ ReceiptsAttributed
      /\ ReceiptsEarned /\ SentSubmitted /\ StampsPast /\ HeldOnce /\ HeldInSendingOrder
      /\ NoMessageLost /\ CompletedHadArrived
  BY DEF IInv, TypeOK
<1>3. /\ Tracked' = {} /\ DOMAIN unAckedMessages' = {}
      /\ unsentMessages' = {} /\ DOMAIN receivedReceipts' = {}
      /\ unAckedMessages' = [x \in {} |-> 0]
      /\ UNCHANGED <<now, completed, overwritten>>
  BY <1>1, RemoveAllEmpties
<1>4. Held = Tracked /\ Held' = {} /\ resending = {} /\ resending' = {}
  BY <1>1, <1>3 DEF Held, GuiIdle
<1>5. \A e \in Tracked : e.message \in Message
  BY <1>2 DEF Tracked, EngineTypeOK, OfflineMessage
<1>6. EngineTypeOK' /\ GuiTypeOK'
  BY <1>1, <1>2, <1>3, <1>5 DEF EngineTypeOK, GuiTypeOK, signalVars
<1>7. LinkTypeOK' /\ LinkKnown' /\ SentSubmitted'
  BY <1>1, <1>2 DEF LinkTypeOK, LinkKnown, SentSubmitted, Submitted, linkVars, sendVars
<1>8. UNCHANGED <<Reached, Clashed, sent, Submitted>>
  BY <1>1 DEF Reached, Clashed, Clash, Submitted, linkVars, sendVars
<1>9. ReceiptsAttributed' /\ ReceiptsEarned'
  BY <1>1, <1>2, <1>3, <1>8
     DEF ReceiptsAttributed, ReceiptsEarned, Earned, linkVars, signalVars
<1>10. StampsPast' /\ OneHandler' /\ HeldOnce' /\ HeldInSendingOrder'
  BY <1>3, <1>4 DEF StampsPast, OneHandler, HeldOnce, HeldInSendingOrder, InSendingOrder
<1>11. NoMessageLost' /\ CompletedHadArrived'
  <2>1. \A m \in overwritten' : \E j, k \in 1..Len(sent') : Clash(j, k)' /\ sent'[j].message = m
    BY <1>2, <1>3, <1>8 DEF NoMessageLost, Clash
  <2>2. {e.message : e \in Held'} = {}
    BY <1>4
  <2>3. NoMessageLost'
    BY <1>1, <1>2, <1>3, <1>4, <1>8, <2>1, <2>2 DEF NoMessageLost
  <2>4. CompletedHadArrived'
    BY <1>2, <1>3, <1>8 DEF CompletedHadArrived, Confirmed
  <2>5. QED BY <2>3, <2>4
<1>12. QED BY <1>6, <1>7, <1>9, <1>10, <1>11 DEF IInv, TypeOK

\* Steps that leave the engine, what was sent and what the GUI has in hand alone: what is
\* left to show is that the receipts stay known and earned.
LEMMA ElsewhereKeeps ==
    ASSUME IInv,
           UNCHANGED <<engineVars, sendVars, friendStatus, nextMessageId, resending, discarded>>,
           parts' = parts \/ (GuiIdle /\ parts' \in Nat /\ nextMessageId + parts' <= MaxMessages + 1),
           LinkTypeOK', events' \in Seq(Event), drops' \in Nat,
           Reached \subseteq Reached',
           LinkKnown', ReceiptsEarned'
    PROVE  IInv'
<1>1. /\ EngineTypeOK /\ GuiTypeOK /\ ReceiptsAttributed /\ SentSubmitted
      /\ StampsPast /\ OneHandler /\ HeldOnce /\ HeldInSendingOrder /\ NoMessageLost
      /\ CompletedHadArrived
  BY DEF IInv, TypeOK
<1>2. EngineTypeOK' /\ GuiTypeOK'
  BY <1>1 DEF EngineTypeOK, GuiTypeOK, engineVars
<1>3. /\ Tracked' = Tracked /\ Held' = Held /\ Submitted' = Submitted /\ Clashed' = Clashed
      /\ sent' = sent
  BY DEF Tracked, Held, Submitted, Clashed, Clash, engineVars, sendVars
<1>4. ReceiptsAttributed' /\ SentSubmitted'
  BY <1>1, <1>3 DEF ReceiptsAttributed, LastSent, SentSubmitted, engineVars
<1>5. StampsPast' /\ OneHandler' /\ HeldOnce' /\ HeldInSendingOrder'
  BY <1>1, <1>3
     DEF StampsPast, OneHandler, HeldOnce, HeldInSendingOrder, InSendingOrder, engineVars, GuiIdle
<1>6. NoMessageLost' /\ CompletedHadArrived'
  BY <1>1, <1>3 DEF NoMessageLost, CompletedHadArrived, Confirmed, Clash, engineVars
<1>7. QED BY <1>2, <1>4, <1>5, <1>6 DEF IInv, TypeOK

\* The user sends a text of n parts.
LEMMA SendMessageKeeps ==
    ASSUME IInv, NEW n \in 1..MaxParts, SendMessage(n)
    PROVE  IInv'
<1>1. /\ GuiIdle /\ nextMessageId + n <= MaxMessages + 1 /\ parts' = n
      /\ UNCHANGED <<engineVars, friendStatus, nextMessageId, resending, discarded,
                     signalVars, linkVars, sendVars>>
  BY DEF SendMessage
<1>2. n \in Nat
  BY DeliveryAssumption
<1>3. LinkTypeOK /\ LinkKnown /\ ReceiptsEarned /\ events \in Seq(Event) /\ drops \in Nat
  BY DEF IInv, TypeOK, GuiTypeOK
<1>4. LinkTypeOK' /\ LinkKnown' /\ events' \in Seq(Event) /\ drops' \in Nat
  BY <1>1, <1>3 DEF LinkTypeOK, LinkKnown, linkVars, sendVars, signalVars
<1>5. Reached' = Reached /\ ReceiptsEarned'
  BY <1>1, <1>3 DEF Reached, ReceiptsEarned, Earned, engineVars, linkVars, sendVars, signalVars
<1>6. QED BY <1>1, <1>2, <1>4, <1>5, ElsewhereKeeps

\* What the Core emits joins the queue, or is dropped.
LEMMA Emits ==
    ASSUME NEW ev \in Event, Emit(ev), events \in Seq(Event), drops \in Nat,
           UNCHANGED <<Reached, sent, receivedReceipts>>,
           ReceiptsEarned,
           ev.signal = "receiptReceived" => Earned(ev.receipt),
           \A i \in 1..Len(acks') : sent[acks'[i]].message \in Reached
    PROVE  events' \in Seq(Event) /\ drops' \in Nat /\ ReceiptsEarned'
<1>1. \A r : Earned(r)' <=> Earned(r)
  BY DEF Earned
<1>2. CASE events' = events /\ drops' = drops + 1
  BY <1>1, <1>2 DEF ReceiptsEarned, Earned
<1>3. CASE events' = Append(events, ev) /\ drops' = drops
  <2>1. /\ events' \in Seq(Event) /\ Len(events') = Len(events) + 1
        /\ \A i \in 1..Len(events) : events'[i] = events[i]
        /\ events'[Len(events) + 1] = ev
    BY <1>3, AppendProperties
  <2>2. \A i \in 1..Len(events') : i \in 1..Len(events) \/ i = Len(events) + 1
    BY <2>1, LenProperties
  <2>3. \A i \in 1..Len(events') : events'[i].signal = "receiptReceived" =>
            \E k \in 1..Len(sent) : sent[k].receipt = events'[i].receipt /\ sent[k].message \in Reached
    BY <2>1, <2>2 DEF ReceiptsEarned, Earned
  <2>4. QED BY <1>1, <1>3, <2>1, <2>3 DEF ReceiptsEarned, Earned
<1>4. QED BY <1>2, <1>3 DEF Emit

\* Something reaches the peer.
LEMMA Arrival ==
    ASSUME LinkTypeOK, NEW k \in 1..Len(sent), reached' = Append(reached, sent[k].message)
    PROVE  reached' \in Seq(Message) /\ Reached' = Reached \cup {sent[k].message}
<1>1. sent[k].message \in Message /\ reached \in Seq(Message)
  <2>1. sent[k] \in SentMessage /\ reached \in Seq(Message)
    BY DEF LinkTypeOK
  <2>2. QED BY <2>1 DEF SentMessage
<1>2. /\ reached' \in Seq(Message) /\ Len(reached') = Len(reached) + 1
      /\ \A i \in 1..Len(reached) : reached'[i] = reached[i]
      /\ reached'[Len(reached) + 1] = sent[k].message
  BY <1>1, AppendProperties
<1>3. 1..Len(reached') = 1..Len(reached) \cup {Len(reached) + 1}
  BY <1>1, <1>2, LenProperties
<1>4. QED BY <1>2, <1>3 DEF Reached

\* The Core thread, the link and the peer leave the engine alone.
LEMMA CoreAndPeerKeep ==
    ASSUME IInv, CoreStep \/ LinkStep \/ PeerStep
    PROVE  IInv'
<1>1. /\ LinkTypeOK /\ events \in Seq(Event) /\ drops \in Nat /\ LinkKnown /\ ReceiptsEarned
      /\ channel \in Seq(Nat) /\ acks \in Seq(Nat) /\ reached \in Seq(Message)
  BY DEF IInv, TypeOK, GuiTypeOK, LinkTypeOK
<1>2. CASE FriendConnects
  <2>1. LinkTypeOK' /\ LinkKnown'
    <3>1. /\ connected' = TRUE /\ announced' = FALSE /\ sessions' = sessions + 1
          /\ UNCHANGED <<channel, acks, store, reached, refusals, nextReceipt, sent>>
      BY <1>2 DEF FriendConnects, sendVars
    <3>2. connected' \in BOOLEAN /\ announced' \in BOOLEAN
      BY <3>1
    <3>3. /\ sessions' \in Nat
          /\ UNCHANGED <<channel, acks, store, reached, refusals, nextReceipt, sent>>
      BY <1>1, <3>1 DEF LinkTypeOK
    <3>4. LinkTypeOK'
      BY <1>1, <3>2, <3>3 DEF LinkTypeOK
    <3>5. QED BY <1>1, <3>3, <3>4 DEF LinkKnown
  <2>2. ReceiptsEarned' /\ Reached' = Reached /\ UNCHANGED <<events, drops>>
    BY <1>1, <1>2 DEF FriendConnects, ReceiptsEarned, Earned, Reached, engineVars, sendVars, signalVars
  <2>3. QED
    BY <1>1, <1>2, <2>1, <2>2, ElsewhereKeeps DEF FriendConnects, guiVars
<1>3. CASE FriendDisconnects
  <2>1. /\ Emit(StatusEvent("Offline")) /\ channel' = <<>> /\ acks' = <<>>
        /\ UNCHANGED <<engineVars, guiVars, reached, sessions, announced, store, sendVars>>
        /\ connected' = FALSE
    BY <1>3 DEF FriendDisconnects
  <2>2. StatusEvent("Offline") \in Event /\ StatusEvent("Offline").signal # "receiptReceived"
    BY DEF StatusEvent, Event, Status
  <2>3. LinkTypeOK' /\ LinkKnown' /\ Len(acks') = 0
    <3>1. <<>> \in Seq(Nat) /\ Len(<<>>) = 0
      OBVIOUS
    <3>2. /\ channel' \in Seq(Nat) /\ acks' \in Seq(Nat) /\ Len(channel') = 0 /\ Len(acks') = 0
      BY <2>1, <3>1
    <3>3. UNCHANGED <<sessions, announced, store, reached, refusals, nextReceipt, sent>>
      BY <2>1 DEF sendVars
    <3>4. LinkTypeOK'
      BY <1>1, <2>1, <3>2, <3>3 DEF LinkTypeOK
    <3>5. QED BY <3>2, <3>4 DEF LinkKnown
  <2>4. UNCHANGED <<Reached, sent, receivedReceipts>>
    BY <2>1 DEF Reached, engineVars, sendVars
  <2>5. events' \in Seq(Event) /\ drops' \in Nat /\ ReceiptsEarned'
    BY <1>1, <2>1, <2>2, <2>3, <2>4, Emits
  <2>6. QED BY <2>1, <2>3, <2>4, <2>5, ElsewhereKeeps DEF guiVars
<1>4. CASE FriendAnnouncesStatus
  <2>1. PICK s \in Status : Emit(StatusEvent(s))
    BY <1>4 DEF FriendAnnouncesStatus
  <2>2. /\ announced' = TRUE
        /\ UNCHANGED <<engineVars, guiVars, connected, sessions, channel, acks, store, reached, sendVars>>
    BY <1>4 DEF FriendAnnouncesStatus
  <2>3. StatusEvent(s) \in Event /\ StatusEvent(s).signal # "receiptReceived"
    BY DEF StatusEvent, Event
  <2>4. LinkTypeOK' /\ LinkKnown'
    BY <1>1, <2>2 DEF LinkTypeOK, LinkKnown, sendVars
  <2>5. UNCHANGED <<Reached, sent, receivedReceipts>>
    BY <2>2 DEF Reached, engineVars, sendVars
  <2>6. \A i \in 1..Len(acks') : sent[acks'[i]].message \in Reached
    BY <1>1, <2>2 DEF ReceiptsEarned
  <2>7. events' \in Seq(Event) /\ drops' \in Nat /\ ReceiptsEarned'
    BY <1>1, <2>1, <2>3, <2>5, <2>6, Emits
  <2>8. QED BY <2>2, <2>4, <2>5, <2>7, ElsewhereKeeps DEF guiVars
<1>5. CASE ReceiptArrives
  <2>0. PICK r : r = sent[Head(acks)].receipt
    OBVIOUS
  <2>1. /\ acks # <<>> /\ acks' = Tail(acks) /\ Emit(ReceiptEvent(r))
        /\ UNCHANGED <<engineVars, guiVars, connected, sessions, announced, channel, store, reached, sendVars>>
    BY <1>5, <2>0 DEF ReceiptArrives
  <2>2. /\ acks' \in Seq(Nat) /\ Len(acks') = Len(acks) - 1
        /\ \A i \in 1..Len(acks') : acks'[i] = acks[i + 1]
        /\ Head(acks) = acks[1] /\ Head(acks) \in Nat
    BY <1>1, <2>1, HeadTailProperties
  <2>3. 1 \in 1..Len(acks) /\ \A i \in 1..Len(acks') : i + 1 \in 1..Len(acks)
    BY <1>1, <2>1, <2>2, LenProperties, EmptySeq
  <2>4. Head(acks) \in 1..Len(sent) /\ sent[Head(acks)].message \in Reached
    BY <1>1, <2>2, <2>3 DEF LinkKnown, ReceiptsEarned
  <2>5. Earned(r) /\ r \in Nat
    <3>1. sent[Head(acks)] \in SentMessage
      BY <1>1, <2>4 DEF LinkTypeOK
    <3>2. QED BY <2>0, <2>4, <3>1 DEF Earned, SentMessage, Receipt
  <2>6. ReceiptEvent(r) \in Event /\ ReceiptEvent(r).receipt = r
    BY <2>5 DEF ReceiptEvent, Event
  <2>7. LinkTypeOK' /\ LinkKnown'
    BY <1>1, <2>1, <2>2, <2>3 DEF LinkTypeOK, LinkKnown, sendVars
  <2>8. UNCHANGED <<Reached, sent, receivedReceipts>>
    BY <2>1 DEF Reached, engineVars, sendVars
  <2>9. \A i \in 1..Len(acks') : sent[acks'[i]].message \in Reached
    BY <1>1, <2>2, <2>3 DEF ReceiptsEarned
  <2>10. events' \in Seq(Event) /\ drops' \in Nat /\ ReceiptsEarned'
    BY <1>1, <2>1, <2>5, <2>6, <2>8, <2>9, Emits
  <2>11. QED BY <2>1, <2>7, <2>8, <2>10, ElsewhereKeeps DEF guiVars
<1>6. CASE PeerReceives
  <2>0. PICK k : k = Head(channel)
    OBVIOUS
  <2>1. /\ channel # <<>> /\ channel' = Tail(channel) /\ acks' = Append(acks, k)
        /\ reached' = Append(reached, sent[k].message)
        /\ UNCHANGED <<engineVars, guiVars, signalVars, connected, sessions, announced, store, sendVars>>
    BY <1>6, <2>0 DEF PeerReceives
  <2>2. /\ channel' \in Seq(Nat) /\ Len(channel') = Len(channel) - 1
        /\ \A i \in 1..Len(channel') : channel'[i] = channel[i + 1]
        /\ k = channel[1] /\ k \in Nat
    BY <1>1, <2>0, <2>1, HeadTailProperties
  <2>3. 1 \in 1..Len(channel) /\ \A i \in 1..Len(channel') : i + 1 \in 1..Len(channel)
    BY <1>1, <2>1, <2>2, LenProperties, EmptySeq
  <2>4. /\ k \in 1..Len(sent)
        /\ \A i \in 1..Len(channel') : channel'[i] \in 1..Len(sent)
    BY <1>1, <2>2, <2>3 DEF LinkKnown
  <2>5. /\ acks' \in Seq(Nat) /\ Len(acks') = Len(acks) + 1
        /\ \A i \in 1..Len(acks) : acks'[i] = acks[i]
        /\ acks'[Len(acks) + 1] = k
    BY <1>1, <2>1, <2>2, AppendProperties
  <2>6. reached' \in Seq(Message) /\ Reached' = Reached \cup {sent[k].message}
    BY <1>1, <2>1, <2>4, Arrival
  <2>7. \A i \in 1..Len(acks') : i \in 1..Len(acks) \/ i = Len(acks) + 1
    BY <1>1, <2>5, LenProperties
  <2>8. LinkTypeOK' /\ LinkKnown'
    BY <1>1, <2>1, <2>2, <2>4, <2>5, <2>6, <2>7 DEF LinkTypeOK, LinkKnown, sendVars
  <2>9. /\ sent' = sent /\ events' = events /\ drops' = drops /\ receivedReceipts' = receivedReceipts
        /\ \A i \in 1..Len(acks') : sent[acks'[i]].message \in Reached'
    BY <1>1, <2>1, <2>5, <2>6, <2>7 DEF ReceiptsEarned, sendVars, signalVars, engineVars
  <2>10. ReceiptsEarned'
    BY <1>1, <2>6, <2>9 DEF ReceiptsEarned, Earned
  <2>11. QED BY <1>1, <2>1, <2>6, <2>8, <2>9, <2>10, ElsewhereKeeps DEF guiVars
<1>7. CASE PeerFindsStored
  <2>1. PICK k \in store : store' = store \ {k} /\ reached' = Append(reached, sent[k].message)
    BY <1>7 DEF PeerFindsStored
  <2>2. UNCHANGED <<engineVars, guiVars, signalVars, connected, sessions, announced, channel, acks, sendVars>>
    BY <1>7 DEF PeerFindsStored
  <2>3. reached' \in Seq(Message) /\ Reached \subseteq Reached'
    BY <1>1, <2>1, Arrival DEF LinkTypeOK
  <2>4. LinkTypeOK' /\ LinkKnown'
    BY <1>1, <2>1, <2>2, <2>3 DEF LinkTypeOK, LinkKnown, sendVars
  <2>5. ReceiptsEarned' /\ UNCHANGED <<events, drops>>
    BY <1>1, <2>2, <2>3 DEF ReceiptsEarned, Earned, sendVars, signalVars, engineVars
  <2>6. QED BY <1>1, <2>2, <2>3, <2>4, <2>5, ElsewhereKeeps DEF guiVars
<1>8. QED
  BY <1>2, <1>3, <1>4, <1>5, <1>6, <1>7 DEF CoreStep, LinkStep, PeerStep
-----------------------------------------------------------------------------
(* The theorems *)

\* The invariant holds at the start.
LEMMA InitIInv == Init => IInv
<1> SUFFICES ASSUME Init PROVE IInv
  OBVIOUS
<1>1. /\ DOMAIN unAckedMessages = {} /\ DOMAIN receivedReceipts = {}
      /\ resending = {} /\ unsentMessages = {} /\ Tracked = {} /\ Held = {}
  <2>1. /\ unAckedMessages = [r \in {} |-> 0] /\ receivedReceipts = EmptyBag
        /\ resending = {} /\ unsentMessages = {}
    BY DEF Init, EngineInit
  <2>2. DOMAIN unAckedMessages = {} /\ DOMAIN receivedReceipts = {}
    BY <2>1, ReceiptBag
  <2>3. Tracked = {}
    BY <2>1, <2>2 DEF Tracked
  <2>4. QED BY <2>1, <2>2, <2>3 DEF Held
<1>2. /\ Submitted = {} /\ Len(reached) = 0 /\ Len(acks) = 0 /\ Len(events) = 0
      /\ Len(channel) = 0 /\ Len(sent) = 0
  BY DEF Init, Submitted
<1>3. EngineTypeOK
  BY <1>1 DEF Init, EngineInit, EngineTypeOK
<1>4. GuiTypeOK
  BY <1>1, DeliveryAssumption DEF Init, GuiTypeOK, Status
<1>5. LinkTypeOK
  <2>1. /\ channel \in Seq(Nat) /\ acks \in Seq(Nat) /\ reached \in Seq(Message)
        /\ sent \in Seq(SentMessage)
    BY EmptySeq DEF Init
  <2>2. connected = FALSE /\ announced = FALSE
    BY DEF Init
  <2>3. connected \in BOOLEAN /\ announced \in BOOLEAN
    BY <2>2
  <2>4. /\ sessions \in Nat /\ refusals \in Nat /\ nextReceipt \in Nat \ {0} /\ store = {}
    BY DEF Init
  <2>5. QED BY <2>1, <2>3, <2>4 DEF LinkTypeOK
<1>6. /\ LinkKnown /\ ReceiptsAttributed /\ ReceiptsEarned /\ SentSubmitted
  BY <1>1, <1>2 DEF LinkKnown, ReceiptsAttributed, ReceiptsEarned, SentSubmitted
<1>7. StampsPast /\ OneHandler /\ HeldOnce /\ HeldInSendingOrder
  BY <1>1 DEF StampsPast, OneHandler, HeldOnce, HeldInSendingOrder, InSendingOrder
<1>8. NoMessageLost /\ CompletedHadArrived
  BY <1>1, <1>2 DEF Init, EngineInit, NoMessageLost, CompletedHadArrived, Confirmed
<1>9. QED BY <1>3, <1>4, <1>5, <1>6, <1>7, <1>8 DEF IInv, TypeOK

\* Every step of the two threads, the link and the peer preserves the invariant.
LEMMA StepIInv == IInv /\ [Next]_vars => IInv'
<1> SUFFICES ASSUME IInv, [Next]_vars PROVE IInv'
  OBVIOUS
<1>1. CASE UserStep
  BY <1>1, SendMessageKeeps, ClearKeeps DEF UserStep
<1>2. CASE GuiStep
  BY <1>2, DispatchPartKeeps, ResendNextKeeps, DeliverEventKeeps DEF GuiStep
<1>3. CASE CoreStep \/ LinkStep \/ PeerStep
  BY <1>3, CoreAndPeerKeep
<1>4. CASE UNCHANGED vars
  <2>1. UNCHANGED <<engineVars, sendVars, friendStatus, nextMessageId, parts, resending, discarded,
                    events, drops, linkVars>>
    BY <1>4 DEF vars, guiVars, signalVars
  <2>2. LinkTypeOK /\ LinkKnown /\ ReceiptsEarned /\ events \in Seq(Event) /\ drops \in Nat
    BY DEF IInv, TypeOK, GuiTypeOK
  <2>3. LinkTypeOK' /\ LinkKnown'
    BY <2>1, <2>2 DEF LinkTypeOK, LinkKnown, linkVars, sendVars
  <2>4. Reached' = Reached /\ ReceiptsEarned'
    BY <2>1, <2>2 DEF Reached, ReceiptsEarned, Earned, engineVars, linkVars, sendVars
  <2>5. QED BY <2>1, <2>2, <2>3, <2>4, ElsewhereKeeps
<1>5. QED BY <1>1, <1>2, <1>3, <1>4 DEF Next

\* The invariant holds in every reachable state, for every number of messages,
\* parts, connections, refused sends, lost signals, stored messages and receipt numbers.
THEOREM IInvHolds == Spec => []IInv
<1>1. Init => IInv
  BY InitIInv
<1>2. IInv /\ [Next]_vars => IInv'
  BY StepIInv
<1>3. QED BY <1>1, <1>2, PTL DEF Spec

\* The engine, the GUI's queue and the link keep their types.
THEOREM TypeOKHolds == Spec => []TypeOK
<1>1. IInv => TypeOK
  BY DEF IInv
<1>2. QED BY <1>1, IInvHolds, PTL

\* No interleaving of sends, receipts, reconnections and interrupted resend loops
\* makes OfflineMsgEngine and its dispatcher lose a message, but for one whose receipt
\* number was given to another message as well.
THEOREM NoMessageLostHolds == Spec => []NoMessageLost
<1>1. IInv => NoMessageLost
  BY DEF IInv
<1>2. QED BY <1>1, IInvHolds, PTL

\* removeAllMessages sorts the messages into the order in which the user sent them.
THEOREM HeldInSendingOrderHolds == Spec => []HeldInSendingOrder
<1>1. IInv => HeldInSendingOrder
  BY DEF IInv
<1>2. QED BY <1>1, IInvHolds, PTL

\* No step hands an acknowledged, discarded or displaced message to toxcore again:
\* resends come from the messages held, which are none of these.
THEOREM NeverSentAgainHolds == Spec => NeverSentAgain
<1> DEFINE Fresh == Len(sent') > Len(sent) => sent'[Len(sent')].message \notin Finished
<1>1. ASSUME IInv, NEW m \in Message, SendProcessedMessage(m), m \notin Finished
      PROVE  Fresh
  <2>1. LinkTypeOK /\ HeldOnce
    BY <1>1 DEF IInv, TypeOK
  <2>2. HeldUnsent(m) \/ \E r \in Receipt : Taken(m, r)
    BY <1>1, <2>1, SendHolds
  <2>3. CASE HeldUnsent(m)
    BY <2>1, <2>3, LenProperties DEF HeldUnsent, LinkTypeOK
  <2>4. ASSUME NEW r \in Receipt, Taken(m, r) PROVE Fresh
    BY <1>1, <2>1, <2>4, SentGrows
  <2>5. QED BY <2>2, <2>3, <2>4
<1>2. ASSUME IInv, DispatchPart PROVE Fresh
  <2>1. nextMessageId \notin Submitted /\ nextMessageId \in Message
    BY <1>2, DeliveryAssumption DEF DispatchPart, Submitted, IInv, TypeOK, GuiTypeOK, Message
  <2>2. nextMessageId \notin Finished
    BY <1>2, <2>1 DEF IInv, NoMessageLost, Finished
  <2>3. QED BY <1>1, <1>2, <2>1, <2>2 DEF DispatchPart
<1>3. ASSUME IInv, ResendNext PROVE Fresh
  <2>1. PICK e \in resending : SendProcessedMessage(e.message)
    BY <1>3 DEF ResendNext
  <2>2. e.message \in Message
    BY <1>3, <2>1 DEF IInv, TypeOK, GuiTypeOK, OfflineMessage
  <2>3. e.message \notin Finished
    BY <1>3, <2>1 DEF IInv, NoMessageLost, Held, Finished
  <2>4. QED BY <1>1, <1>3, <2>1, <2>2, <2>3
<1>4. ASSUME IInv, [Next]_vars PROVE [Fresh]_vars
  <2>1. CASE UNCHANGED sent
    <3>1. Len(sent) \in Nat
      BY <1>4, LenProperties DEF IInv, TypeOK, LinkTypeOK
    <3>2. QED BY <2>1, <3>1
  <2>2. CASE DispatchPart \/ ResendNext
    BY <1>2, <1>3, <1>4, <2>2
  <2>3. QED
    BY <1>4, <2>1, <2>2
       DEF Next, UserStep, GuiStep, CoreStep, LinkStep, PeerStep, SendMessage,
           ClearOutgoingMessages, DeliverEvent, FriendConnects, FriendDisconnects,
           FriendAnnouncesStatus, ReceiptArrives, PeerReceives, PeerFindsStored,
           sendVars, vars
<1>5. QED BY <1>4, IInvHolds, PTL DEF Spec, NeverSentAgain

\* A message is marked as received only when it has reached the peer, however late its
\* receipt comes, unless another message had its receipt number before it.
THEOREM CompletedHadArrivedHolds == Spec => []CompletedHadArrived
<1>1. IInv => CompletedHadArrived
  BY DEF IInv
<1>2. QED BY <1>1, IInvHolds, PTL

\* The engine holds a message under one receipt or as unsent, never both or twice.
THEOREM HeldOnceHolds == Spec => []HeldOnce
<1>1. IInv => HeldOnce
  BY DEF IInv
<1>2. QED BY <1>1, IInvHolds, PTL
-----------------------------------------------------------------------------
(* The promise to the user (module Delivery) *)

Abandoned == discarded \cup overwritten
promiseVars == <<Submitted, Reached, Confirmed, Abandoned>>

\* A message handed over displaces at most one other, which waits for a receipt; what is
\* confirmed or displaced by it is not both.
LEMMA SendDisplaces ==
    ASSUME IInv, NEW m \in Message, SendProcessedMessage(m), discarded' = discarded
    PROVE  /\ \/ Abandoned' = Abandoned
              \/ /\ completed' = completed
                 /\ \E d \in Message : /\ d \in Submitted \ (completed \cup Abandoned)
                                       /\ Abandoned' = Abandoned \cup {d}
           /\ completed' = completed => Confirmed' \subseteq Confirmed
<1>1. LinkTypeOK /\ HeldOnce /\ NoMessageLost /\ EngineTypeOK
  BY DEF IInv, TypeOK
<1>2. CASE HeldUnsent(m)
  BY <1>2 DEF HeldUnsent, Abandoned, Confirmed, Clashed, Clash
<1>3. ASSUME NEW r \in Receipt, Taken(m, r), Early(m, r)
      PROVE  Abandoned' = Abandoned
  BY <1>3 DEF Early, Abandoned
<1>4. ASSUME NEW r \in Receipt, Taken(m, r), Waits(m, r), r \notin DOMAIN unAckedMessages
      PROVE  Abandoned' = Abandoned
  <2>1. Displaced(r) = {}
    BY <1>4 DEF Displaced
  <2>2. QED BY <1>4, <2>1 DEF Waits, Abandoned
<1>5. ASSUME NEW r \in Receipt, Taken(m, r), Waits(m, r), r \in DOMAIN unAckedMessages
      PROVE  /\ completed' = completed
             /\ \E d \in Message : /\ d \in Submitted \ (completed \cup Abandoned)
                                   /\ Abandoned' = Abandoned \cup {d}
  <2>1. Displaced(r) = {unAckedMessages[r]}
    BY <1>5 DEF Displaced
  <2>2. /\ unAckedMessages[r] \in Held /\ unAckedMessages[r].message \in Message
    BY <1>1, <1>5 DEF Held, Tracked, EngineTypeOK, OfflineMessage
  <2>3. overwritten' = overwritten \cup {unAckedMessages[r].message} /\ completed' = completed
    BY <1>5, <2>1 DEF Waits
  <2>4. unAckedMessages[r].message \in Submitted \ (completed \cup Abandoned)
    BY <1>1, <2>2 DEF NoMessageLost, Abandoned
  <2>5. QED BY <2>2, <2>3, <2>4 DEF Abandoned
<1>6. ASSUME NEW r \in Receipt, Taken(m, r), completed' = completed PROVE Confirmed' \subseteq Confirmed
  BY <1>1, <1>6, ClashesKept DEF Confirmed
<1>7. QED BY <1>1, <1>2, <1>3, <1>4, <1>5, <1>6, SendHolds DEF Taken

\* A message sent for the first time is not confirmed by the sending: a receipt that is
\* there already is another message's.
LEMMA NewUnconfirmed ==
    ASSUME NEW m \in Message, SendProcessedMessage(m), LinkTypeOK, HeldOnce, ReceiptsEarned,
           SentSubmitted, m \notin Submitted, m \notin completed
    PROVE  Confirmed' = Confirmed
<1>1. CASE HeldUnsent(m)
  BY <1>1 DEF HeldUnsent, Confirmed, Clashed, Clash
<1>2. ASSUME NEW r \in Receipt, Taken(m, r), Waits(m, r)
      PROVE  Confirmed' = Confirmed
  BY <1>2, ClashesKept DEF Waits, Confirmed
<1>3. ASSUME NEW r \in Receipt, Taken(m, r), Early(m, r)
      PROVE  Confirmed' = Confirmed
  <2>1. completed' = completed \cup {m} /\ r \in DOMAIN receivedReceipts
    BY <1>3 DEF Early
  <2>2. PICK k \in 1..Len(sent) : sent[k].receipt = r
    BY <2>1 DEF ReceiptsEarned, Earned
  <2>3. sent[k].message # m
    BY <2>2 DEF SentSubmitted
  <2>4. m \in Clashed'
    BY <1>3, <2>2, <2>3, ClashesKept
  <2>5. QED BY <1>3, <2>1, <2>4, ClashesKept DEF Confirmed
<1>4. QED BY <1>1, <1>2, <1>3, SendHolds DEF Taken

\* Dispatching the next part submits it, and confirms nothing: a receipt that is there
\* already is another message's.
LEMMA DispatchSubmits ==
    ASSUME IInv, DispatchPart
    PROVE  Promise!Submit(nextMessageId) /\ nextMessageId \in Message
<1>0. PICK m : m = nextMessageId
  OBVIOUS
<1>1. m \in Message /\ m \notin Submitted
  BY <1>0, DeliveryAssumption DEF DispatchPart, Submitted, IInv, TypeOK, GuiTypeOK, Message
<1>2. Submitted' = Submitted \cup {m}
  BY <1>0 DEF DispatchPart, Submitted, IInv, TypeOK, GuiTypeOK
<1>3. SendProcessedMessage(m) /\ discarded' = discarded
  BY <1>0 DEF DispatchPart
<1>4. LinkTypeOK /\ HeldOnce /\ NoMessageLost /\ SentSubmitted /\ ReceiptsEarned
  BY DEF IInv, TypeOK
<1>5. m \notin completed
  BY <1>1, <1>4 DEF NoMessageLost
<1>6. Reached' = Reached /\ Confirmed' = Confirmed
  BY <1>1, <1>3, <1>4, <1>5, NewUnconfirmed, SendConfirms
<1>7. Abandoned' = Abandoned \/ \E d \in Submitted \ (Confirmed \cup Abandoned) :
                                    Abandoned' = Abandoned \cup {d}
  BY <1>1, <1>3, SendDisplaces DEF Confirmed
<1>8. QED
  BY <1>0, <1>1, <1>2, <1>6, <1>7 DEF Promise!Submit, Promise!Unsettled, Abandoned

\* A resend confirms the message, whose receipt has come already, or displaces another
\* one, or does neither.
LEMMA ResendConfirms ==
    ASSUME IInv, ResendNext
    PROVE  \/ \E m \in Message : Promise!Confirm(m)
           \/ \E S \in SUBSET Message : Promise!Abandon(S)
           \/ UNCHANGED promiseVars
<1>1. PICK e \in resending : SendProcessedMessage(e.message)
  BY DEF ResendNext
<1>2. Submitted' = Submitted /\ discarded' = discarded
  BY DEF ResendNext, Submitted
<1>3. LinkTypeOK /\ HeldOnce /\ NoMessageLost /\ ReceiptsEarned
  BY DEF IInv, TypeOK
<1>4. PICK m \in Message : m = e.message
  BY DEF IInv, TypeOK, GuiTypeOK, OfflineMessage
<1>5. m \in Submitted \ (completed \cup Abandoned)
  BY <1>3, <1>4 DEF NoMessageLost, Held, Abandoned
<1>6. /\ Confirmed' = Confirmed \/ (Confirmed' = Confirmed \cup {m} /\ m \in Reached)
      /\ Reached' = Reached
  BY <1>1, <1>3, <1>4, <1>5, SendConfirms
<1>7. CASE Abandoned' = Abandoned
  <2>1. CASE Confirmed' = Confirmed
    BY <1>2, <1>6, <1>7, <2>1 DEF promiseVars
  <2>2. CASE Confirmed' = Confirmed \cup {m} /\ m \in Reached
    <3>1. Promise!Confirm(m)
      BY <1>2, <1>5, <1>6, <1>7, <2>2 DEF Promise!Confirm, Promise!Unsettled, Abandoned, Confirmed
    <3>2. QED BY <3>1
  <2>3. QED BY <1>6, <2>1, <2>2
<1>8. ASSUME completed' = completed,
             NEW d \in Message, d \in Submitted \ (completed \cup Abandoned),
             Abandoned' = Abandoned \cup {d}
      PROVE  \E S \in SUBSET Message : Promise!Abandon(S)
  <2>1. Confirmed' = Confirmed
    BY <1>1, <1>2, <1>4, <1>6, <1>8, SendDisplaces
  <2>2. Promise!Abandon({d})
    BY <1>2, <1>6, <1>8, <2>1 DEF Promise!Abandon, Promise!Unsettled, Abandoned, Confirmed
  <2>3. QED BY <2>2
<1>9. QED BY <1>1, <1>2, <1>4, <1>7, <1>8, SendDisplaces

\* A receipt confirms the message that waits for it, which has arrived and which nobody
\* has confirmed or dropped; a message that clashes is marked without being confirmed, and
\* any other signal confirms nothing.
LEMMA DeliverConfirms ==
    ASSUME IInv, DeliverEvent
    PROVE  (\E m \in Message : Promise!Confirm(m)) \/ UNCHANGED promiseVars
<1>1. /\ UNCHANGED <<Submitted, Reached, Clashed, discarded>>
      /\ Head(events) = events[1] /\ 1 \in 1..Len(events)
  BY SignalTaken DEF DeliverEvent, Submitted
<1>2. CASE OnFriendStatusChanged(Head(events).status)
  <2>1. completed' = completed /\ overwritten' = overwritten
    BY <1>2, RemoveAllEmpties DEF OnFriendStatusChanged, engineVars
  <2>2. QED BY <1>1, <2>1 DEF promiseVars, Confirmed, Abandoned
<1>3. CASE /\ Head(events).signal = "receiptReceived"
           /\ OnReceiptReceived(Head(events).receipt)
  <2>0. PICK r : r = Head(events).receipt
    OBVIOUS
  <2>1. EngineReceiptReceived(r) /\ HeldOnce /\ Earned(r) /\ LinkTypeOK /\ ReceiptsAttributed
    BY <1>1, <1>3, <2>0 DEF OnReceiptReceived, IInv, TypeOK, ReceiptsEarned
  <2>2. CASE r \notin DOMAIN unAckedMessages
    BY <1>1, <2>1, <2>2, ReceiptKept DEF promiseVars, Confirmed, Abandoned
  <2>3. CASE r \in DOMAIN unAckedMessages
    <3>1. PICK m \in Message : m = unAckedMessages[r].message
      BY <2>3 DEF IInv, TypeOK, EngineTypeOK, OfflineMessage
    <3>2. completed' = completed \cup {m} /\ overwritten' = overwritten
      BY <2>1, <2>3, <3>1, ReceiptReleases
    <3>3. unAckedMessages[r] \in Held
      BY <2>3 DEF Held, Tracked
    <3>4. m \in Submitted \ (completed \cup Abandoned)
      BY <3>1, <3>3 DEF IInv, NoMessageLost, Abandoned
    <3>5. CASE m \in Clashed
      BY <1>1, <3>2, <3>5 DEF promiseVars, Confirmed, Abandoned
    <3>6. CASE m \notin Clashed
      <4>1. m \in Reached
        BY <2>1, <2>3, <3>1, <3>6, AwaitedArrived
      <4>2. Confirmed' = Confirmed \cup {m}
        BY <1>1, <3>2, <3>6 DEF Confirmed
      <4>3. Promise!Confirm(m)
        BY <1>1, <3>2, <3>4, <4>1, <4>2
           DEF Promise!Confirm, Promise!Unsettled, Abandoned, Confirmed
      <4>4. QED BY <4>3
    <3>7. QED BY <3>5, <3>6
  <2>4. QED BY <2>2, <2>3
<1>4. QED BY <1>2, <1>3 DEF DeliverEvent

\* Whatever the engine still holds when it is cleared is abandoned.
LEMMA ClearAbandons ==
    ASSUME IInv, ClearOutgoingMessages
    PROVE  \E S \in SUBSET Message : Promise!Abandon(S)
<1>0. PICK S : S = {e.message : e \in Tracked}
  OBVIOUS
<1>1. /\ discarded' = discarded \cup S
      /\ UNCHANGED <<completed, overwritten, nextMessageId, sent, reached>>
  BY <1>0, RemoveAllEmpties DEF ClearOutgoingMessages, linkVars, sendVars
<1>2. S \subseteq Message
  BY <1>0 DEF Tracked, IInv, TypeOK, EngineTypeOK, OfflineMessage
<1>3. S \subseteq {e.message : e \in Held}
  BY <1>0 DEF Held
<1>4. S \subseteq Submitted \ (completed \cup Abandoned)
  BY <1>3 DEF IInv, NoMessageLost, Abandoned
<1>5. UNCHANGED <<Submitted, Reached, Confirmed>>
  BY <1>1 DEF Submitted, Reached, Confirmed, Clashed, Clash
<1>6. Promise!Abandon(S)
  BY <1>1, <1>4, <1>5 DEF Promise!Abandon, Promise!Unsettled, Abandoned, Confirmed
<1>7. QED BY <1>2, <1>6

\* What reaches the peer was submitted.
LEMMA PeerReached ==
    ASSUME IInv, PeerStep
    PROVE  \E m \in Message : Promise!Arrive(m)
<1>1. /\ LinkTypeOK /\ LinkKnown /\ SentSubmitted
      /\ UNCHANGED <<Submitted, Confirmed, Abandoned, sent>>
  BY DEF IInv, TypeOK, PeerStep, PeerReceives, PeerFindsStored, engineVars, guiVars, sendVars,
         Submitted, Confirmed, Clashed, Clash, Abandoned
<1>2. ASSUME NEW k \in 1..Len(sent), reached' = Append(reached, sent[k].message)
      PROVE  \E m \in Message : Promise!Arrive(m)
  <2>1. Reached' = Reached \cup {sent[k].message}
    BY <1>1, <1>2, Arrival
  <2>2. sent[k].message \in Submitted /\ sent[k].message \in Message
    <3>1. sent[k] \in SentMessage
      BY <1>1 DEF LinkTypeOK
    <3>2. QED BY <1>1, <3>1 DEF SentSubmitted, SentMessage
  <2>3. Promise!Arrive(sent[k].message)
    BY <1>1, <2>1, <2>2 DEF Promise!Arrive, Abandoned
  <2>4. QED BY <2>2, <2>3
<1>3. CASE PeerReceives
  <2>1. channel # <<>> /\ reached' = Append(reached, sent[Head(channel)].message)
    BY <1>3 DEF PeerReceives
  <2>2. Head(channel) \in 1..Len(sent)
    <3>1. channel \in Seq(Nat)
      BY <1>1 DEF LinkTypeOK
    <3>2. Head(channel) = channel[1] /\ 1 \in 1..Len(channel)
      BY <2>1, <3>1, HeadTailProperties, EmptySeq, LenProperties
    <3>3. QED BY <1>1, <3>2 DEF LinkKnown
  <2>3. QED BY <1>2, <2>1, <2>2
<1>4. CASE PeerFindsStored
  BY <1>1, <1>2, <1>4 DEF PeerFindsStored, LinkTypeOK
<1>5. QED BY <1>3, <1>4 DEF PeerStep

\* Every step of the program is a step of the promise, or leaves it alone.
LEMMA StepKeepsPromise ==
    ASSUME IInv, [Next]_vars
    PROVE  [Promise!Next]_promiseVars
<1>1. CASE DispatchPart
  BY <1>1, DispatchSubmits DEF Promise!Next
<1>2. CASE ResendNext
  BY <1>2, ResendConfirms DEF Promise!Next
<1>3. CASE DeliverEvent
  BY <1>3, DeliverConfirms DEF Promise!Next
<1>4. CASE ClearOutgoingMessages
  BY <1>4, ClearAbandons DEF Promise!Next
<1>5. CASE PeerStep
  BY <1>5, PeerReached DEF Promise!Next
<1>6. CASE UNCHANGED <<nextMessageId, sent, reached, completed, overwritten, discarded>>
  BY <1>6 DEF Submitted, Reached, Confirmed, Clashed, Clash, Abandoned, promiseVars
<1>7. CASE (\E n \in 1..MaxParts : SendMessage(n)) \/ CoreStep \/ LinkStep \/ UNCHANGED vars
  <2>1. UNCHANGED <<nextMessageId, sent, reached, completed, overwritten, discarded>>
    BY <1>7 DEF SendMessage, CoreStep, LinkStep, FriendAnnouncesStatus, ReceiptArrives,
                FriendConnects, FriendDisconnects, vars, engineVars, guiVars, linkVars, sendVars
  <2>2. QED BY <1>6, <2>1
<1>8. QED
  BY <1>1, <1>2, <1>3, <1>4, <1>5, <1>7 DEF Next, UserStep, GuiStep

\* The dispatcher, the engine and the link together keep the promise: what is marked
\* as received was submitted and has arrived, is marked once, and is never given up, but
\* for messages whose receipt number another message had before them.
THEOREM PromiseKeptHolds == Spec => PromiseKept
<1>1. Init => Promise!Init
  <2> SUFFICES ASSUME Init PROVE Promise!Init
    OBVIOUS
  <2>1. /\ nextMessageId = 1 /\ reached = <<>> /\ completed = {} /\ discarded = {}
        /\ overwritten = {}
    BY DEF Init, EngineInit
  <2>2. Submitted = {} /\ Reached = {} /\ Confirmed = {}
    BY <2>1 DEF Submitted, Reached, Confirmed
  <2>3. QED BY <2>1, <2>2 DEF Promise!Init
<1>2. IInv /\ [Next]_vars => [Promise!Next]_(Promise!vars)
  BY StepKeepsPromise DEF promiseVars, Promise!vars, Abandoned
<1>3. QED
  BY <1>1, <1>2, IInvHolds, PTL DEF Spec, PromiseKept, Promise!Spec
=============================================================================
