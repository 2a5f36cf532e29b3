----------------------------- MODULE CoreFileProofs -----------------------------
(* Proofs about CoreFile for any files, file numbers and bounds.  Most actions     *)
(* touch the transfer of one number: a step on a set of numbers is described once  *)
(* (StepOn), shown to keep the invariant (StepKeeps), and each action is shown to  *)
(* be such a step.  The three that take an event from the queue come last.         *)
EXTENDS CoreFile, SequenceTheorems, TLAPS

-----------------------------------------------------------------------------
(* The inductive invariant *)

Event ==
    [is : {"file"}, file : Files, num : Nums, status : Live \cup Complete, local : BOOLEAN]
      \cup [is : {"status"}, offline : BOOLEAN]
      \cup [is : {"offer"}, file : Avatars, num : RecvNums]

Transfer == [file : Files, running : BOOLEAN, us : BOOLEAN, peer : BOOLEAN, pos : 0..Size]

\* The types of toxcore's transfers, of fileMap and of the chat log.
ToxOK(t) == DOMAIN t \subseteq Nums /\ \A n \in DOMAIN t : t[n] \in Transfer

FileOK(n, file) ==
    /\ file \in ToxFileType
    /\ file.num = n \/ file.file = NoFile
    /\ file.status \in Live \/ file.file = NoFile
MapOK(m) == DOMAIN m \subseteq Nums /\ \A n \in DOMAIN m : FileOK(n, m[n])

LogOK(its, cft) ==
    /\ its \in Seq(ItemType)
    /\ DOMAIN cft \subseteq Nums
    /\ \A n \in DOMAIN cft :
         cft[n] \in DOMAIN its /\ its[cft[n]].num = n /\ its[cft[n]].status \in Live

GuiOK ==
    /\ gui.in \in {"events", "status", "offer", "crashed"}
    /\ gui.in = "status" =>
         gui \in [in : {"status"}, keys : SUBSET Nums, status : {"BROKEN", "TRANSMITTING"}]
    /\ gui.in = "offer" => gui \in [in : {"offer"}, num : RecvNums, file : Files \cup {NoFile}]

TypeInv ==
    /\ ToxOK(tox) /\ MapOK(fileMap) /\ LogOK(items, currentFileTransfers) /\ GuiOK
    /\ connected \in BOOLEAN /\ (~connected => tox = <<>>)
    /\ delivered \subseteq Files /\ unused \subseteq Files
    /\ events \in Seq(Event)
    /\ refusals \in 0..MaxRefusals

\* Nobody handles an avatar offer before there was one.
OfferInv ==
    Avatars \subseteq unused =>
        gui.in # "offer" /\ \A i \in DOMAIN events : events[i].is # "offer"

\* What will be shown as finished has arrived.
FinishedInv ==
    \A i \in DOMAIN events :
        events[i].is = "file" /\ Apart(events[i].num) /\ events[i].status = "FINISHED" =>
            events[i].file \in delivered

\* The progress of a file counts a chunk that was refused.
SentInv(n) ==
    n \in DOMAIN fileMap =>
        /\ fileMap[n].sent <= Size + refusals
        /\ n \in DOMAIN tox /\ n \in SendNums => fileMap[n].sent <= tox[n].pos + refusals

\* The transfer n is known to CoreFile and to toxcore,
Known(n) == Apart(n) /\ n \in DOMAIN fileMap /\ n \in DOMAIN tox /\ fileMap[n].file # NoFile

\* who mean the same file,
MatchInv(n) == Known(n) => tox[n].file = fileMap[n].file

\* agree about the pauses, and about which transfers have not begun,
PauseInv(n) ==
    Known(n) /\ refusals = 0 =>
        /\ fileMap[n].local = tox[n].us /\ fileMap[n].remote = tox[n].peer
        /\ tox[n].running \/ (fileMap[n].status = "INITIALIZING" /\ ~tox[n].us /\ ~tox[n].peer)

\* and a file that is received, or was, is open.
OpenInv(n) ==
    /\ Known(n) /\ n \in RecvNums
    /\ tox[n].running \/ fileMap[n].status # "INITIALIZING"
    => fileMap[n].open

IsData(n) == n \in DOMAIN fileMap /\ ~fileMap[n].avatar /\ fileMap[n].file # NoFile

StaleInv(n) == Apart(n) /\ IsData(n) => BreakPending(n) \/ n \in DOMAIN tox

TransferInv(n) == SentInv(n) /\ MatchInv(n) /\ PauseInv(n) /\ OpenInv(n) /\ StaleInv(n)

\* WillShow, for any queue q and chat log.
WillShowIn(q, cft, its, n, file) ==
    \/ \E i \in DOMAIN q : /\ About(q[i], n) /\ Shows(q[i], file)
                           /\ \A j \in DOMAIN q : j > i => ~About(q[j], n)
    \/ /\ \A i \in DOMAIN q : ~About(q[i], n)
       /\ n \in DOMAIN cft /\ Shows(its[cft[n]], file)

\* The chat log will have an item for n: it has one that no event in the queue ends, or
\* an event that begins one is in the queue.
EndsAfter(q, n, i) == \E j \in DOMAIN q : j > i /\ About(q[j], n) /\ q[j].status \in Complete
ItemIn(q, cft, n) ==
    \/ n \in DOMAIN cft /\ ~EndsAfter(q, n, 0)
    \/ \E i \in DOMAIN q : /\ About(q[i], n) /\ q[i].status = "INITIALIZING"
                           /\ ~EndsAfter(q, n, i)

Follows(q, cft, its, n, file) == WillShowIn(q, cft, its, n, file) /\ ItemIn(q, cft, n)

UiInv(n) == IsData(n) => Follows(events, currentFileTransfers, items, n, fileMap[n])

IInv ==
    /\ TypeInv /\ OfferInv /\ FinishedInv /\ FinishedWasDelivered
    /\ \A n \in Nums : TransferInv(n) /\ UiInv(n)
-----------------------------------------------------------------------------
(* Lemmas about the queue *)

\* Which events there are.
LEMMA EventKinds ==
    /\ \A e \in Event :
         /\ e.is \in {"file", "status", "offer"}
         /\ e.is = "file" => /\ e.file \in Files /\ e.num \in Nums
                             /\ e.status \in Live \cup Complete /\ e.local \in BOOLEAN
         /\ e.is = "offer" => e.num \in RecvNums
         /\ e.is = "status" => e.offline \in BOOLEAN
    /\ \A b \in BOOLEAN : StatusEvent(b) \in Event /\ StatusEvent(b).is = "status"
    /\ \A f \in Avatars, n \in RecvNums : OfferEvent(f, n) \in Event /\ OfferEvent(f, n).is = "offer"
BY DEF Event, StatusEvent, OfferEvent

LEMMA FileEventIs ==
    ASSUME NEW file \in ToxFileType, file.file # NoFile
    PROVE  /\ FileEvent(file) \in Event /\ FileEvent(file).is = "file"
           /\ About(FileEvent(file), file.num) /\ Shows(FileEvent(file), file)
           /\ FileEvent(file).status = file.status /\ FileEvent(file).num = file.num
           /\ FileEvent(file).file = file.file
BY DEF FileEvent, Event, ToxFileType, About, Shows

LEMMA Appended ==
    ASSUME NEW q \in Seq(Event), NEW e \in Event
    PROVE  /\ Append(q, e) \in Seq(Event)
           /\ DOMAIN q = 1..Len(q) /\ Len(q) \in Nat
           /\ DOMAIN Append(q, e) = 1..(Len(q) + 1)
           /\ \A i \in 1..Len(q) : Append(q, e)[i] = q[i]
           /\ Append(q, e)[Len(q) + 1] = e
<1>1. /\ Append(q, e) \in Seq(Event) /\ Len(Append(q, e)) = Len(q) + 1
      /\ \A k \in 1..Len(q) : Append(q, e)[k] = q[k]
      /\ Append(q, e)[Len(q) + 1] = e
  BY AppendProperties
<1>2. QED BY <1>1

LEMMA Popped ==
    ASSUME NEW q \in Seq(Event), q # <<>>
    PROVE  /\ Head(q) \in Event /\ Head(q) = q[1] /\ Tail(q) \in Seq(Event)
           /\ DOMAIN q = 1..Len(q) /\ Len(q) \in Nat /\ Len(q) >= 1
           /\ DOMAIN Tail(q) = 1..(Len(q) - 1)
           /\ \A i \in 1..(Len(q) - 1) : Tail(q)[i] = q[i + 1]
<1>1. /\ Head(q) \in Event /\ Tail(q) \in Seq(Event)
      /\ Len(Tail(q)) = Len(q) - 1 /\ Len(q) \in Nat /\ Len(q) >= 1
      /\ Head(q) = q[1]
      /\ \A k \in 1..Len(Tail(q)) : Tail(q)[k] = q[k + 1]
  BY HeadTailProperties, EmptySeq, LenProperties
<1>2. QED BY <1>1

\* An event about another number changes nothing for n.
LEMMA FollowsAppendOther ==
    ASSUME NEW q \in Seq(Event), NEW e \in Event, NEW cft, NEW its, NEW n, NEW file,
           ~About(e, n), Follows(q, cft, its, n, file)
    PROVE  Follows(Append(q, e), cft, its, n, file)
<1> DEFINE r == Append(q, e)
<1>1. /\ DOMAIN q = 1..Len(q) /\ Len(q) \in Nat /\ DOMAIN r = 1..(Len(q) + 1)
      /\ \A i \in 1..Len(q) : r[i] = q[i]
      /\ r[Len(q) + 1] = e
  BY Appended
<1> HIDE DEF r
<1>2. WillShowIn(r, cft, its, n, file)
  <2>1. CASE \E i \in DOMAIN q : /\ About(q[i], n) /\ Shows(q[i], file)
                                 /\ \A j \in DOMAIN q : j > i => ~About(q[j], n)
    <3>1. PICK i \in DOMAIN q : /\ About(q[i], n) /\ Shows(q[i], file)
                                /\ \A j \in DOMAIN q : j > i => ~About(q[j], n)
      BY <2>1
    <3>2. i \in DOMAIN r /\ About(r[i], n) /\ Shows(r[i], file)
      BY <1>1, <3>1
    <3>3. \A j \in DOMAIN r : j > i => ~About(r[j], n)
      BY <1>1, <3>1
    <3>4. QED BY <3>2, <3>3 DEF WillShowIn
  <2>2. CASE /\ \A i \in DOMAIN q : ~About(q[i], n)
             /\ n \in DOMAIN cft /\ Shows(its[cft[n]], file)
    <3>1. \A i \in DOMAIN r : ~About(r[i], n)
      BY <1>1, <2>2
    <3>2. QED BY <2>2, <3>1 DEF WillShowIn
  <2>3. QED BY <2>1, <2>2 DEF Follows, WillShowIn
<1>3. ASSUME NEW i \in Int, ~EndsAfter(q, n, i)
      PROVE  ~EndsAfter(r, n, i)
  BY <1>1, <1>3 DEF EndsAfter
<1>4. ItemIn(r, cft, n)
  <2>1. CASE n \in DOMAIN cft /\ ~EndsAfter(q, n, 0)
    BY <1>3, <2>1 DEF ItemIn
  <2>2. CASE \E i \in DOMAIN q : /\ About(q[i], n) /\ q[i].status = "INITIALIZING"
                                 /\ ~EndsAfter(q, n, i)
    <3>1. PICK i \in DOMAIN q : /\ About(q[i], n) /\ q[i].status = "INITIALIZING"
                                /\ ~EndsAfter(q, n, i)
      BY <2>2
    <3>2. i \in DOMAIN r /\ r[i] = q[i] /\ ~EndsAfter(r, n, i)
      BY <1>1, <1>3, <3>1
    <3>3. QED BY <3>1, <3>2 DEF ItemIn
  <2>3. QED BY <2>1, <2>2 DEF Follows, ItemIn
<1>5. QED BY <1>2, <1>4 DEF Follows, r

\* An event with what file is now makes the chat log follow it.
LEMMA FollowsAppendOwn ==
    ASSUME NEW q \in Seq(Event), NEW e \in Event, NEW cft, NEW its, NEW n, NEW file,
           About(e, n), Shows(e, file), e.status \in Live,
           e.status = "INITIALIZING" \/ ItemIn(q, cft, n)
    PROVE  Follows(Append(q, e), cft, its, n, file)
<1> DEFINE r == Append(q, e)
<1>1. /\ DOMAIN q = 1..Len(q) /\ Len(q) \in Nat /\ DOMAIN r = 1..(Len(q) + 1)
      /\ \A i \in 1..Len(q) : r[i] = q[i]
      /\ r[Len(q) + 1] = e
  BY Appended
<1> HIDE DEF r
<1>2. WillShowIn(r, cft, its, n, file)
  <2>1. Len(q) + 1 \in DOMAIN r /\ \A j \in DOMAIN r : ~(j > Len(q) + 1)
    BY <1>1
  <2>2. QED BY <1>1, <2>1 DEF WillShowIn
<1>3. e.status \notin Complete
  BY DEF Live, Complete
<1>4. ASSUME NEW i \in Int, ~EndsAfter(q, n, i)
      PROVE  ~EndsAfter(r, n, i)
  BY <1>1, <1>3, <1>4 DEF EndsAfter
<1>5. ItemIn(r, cft, n)
  <2>1. CASE e.status = "INITIALIZING"
    <3>1. ~EndsAfter(r, n, Len(q) + 1) /\ Len(q) + 1 \in DOMAIN r
      BY <1>1 DEF EndsAfter
    <3>2. QED BY <1>1, <2>1, <3>1 DEF ItemIn
  <2>2. CASE n \in DOMAIN cft /\ ~EndsAfter(q, n, 0)
    BY <1>4, <2>2 DEF ItemIn
  <2>3. CASE \E i \in DOMAIN q : /\ About(q[i], n) /\ q[i].status = "INITIALIZING"
                                 /\ ~EndsAfter(q, n, i)
    <3>1. PICK i \in DOMAIN q : /\ About(q[i], n) /\ q[i].status = "INITIALIZING"
                                /\ ~EndsAfter(q, n, i)
      BY <2>3
    <3>2. i \in DOMAIN r /\ r[i] = q[i] /\ ~EndsAfter(r, n, i)
      BY <1>1, <1>4, <3>1
    <3>3. QED BY <3>1, <3>2 DEF ItemIn
  <2>4. QED BY <2>1, <2>2, <2>3 DEF ItemIn
<1>6. QED BY <1>2, <1>5 DEF Follows, r

\* An event about another number is taken from the queue.
LEMMA FollowsPopOther ==
    ASSUME NEW q \in Seq(Event), q # <<>>, NEW n, NEW file,
           NEW cft, NEW its, NEW cft2, NEW its2,
           n \in DOMAIN cft => n \in DOMAIN cft2 /\ its2[cft2[n]] = its[cft[n]],
           ~About(Head(q), n), Follows(q, cft, its, n, file)
    PROVE  Follows(Tail(q), cft2, its2, n, file)
<1> DEFINE r == Tail(q)
<1>1. /\ DOMAIN q = 1..Len(q) /\ Len(q) \in Nat /\ DOMAIN r = 1..(Len(q) - 1)
      /\ \A i \in 1..(Len(q) - 1) : r[i] = q[i + 1]
      /\ Head(q) = q[1] /\ Len(q) >= 1
  BY Popped
<1> HIDE DEF r
<1>2. ASSUME NEW i \in DOMAIN q, About(q[i], n)
      PROVE  i - 1 \in DOMAIN r /\ r[i - 1] = q[i]
  BY <1>1, <1>2
<1>3. \A j \in DOMAIN r : j + 1 \in DOMAIN q /\ r[j] = q[j + 1] /\ j \in Int
  BY <1>1
<1>4. WillShowIn(r, cft2, its2, n, file)
  <2>1. CASE \E i \in DOMAIN q : /\ About(q[i], n) /\ Shows(q[i], file)
                                 /\ \A j \in DOMAIN q : j > i => ~About(q[j], n)
    <3>1. PICK i \in DOMAIN q : /\ About(q[i], n) /\ Shows(q[i], file)
                                /\ \A j \in DOMAIN q : j > i => ~About(q[j], n)
      BY <2>1
    <3>2. i - 1 \in DOMAIN r /\ r[i - 1] = q[i] /\ i \in Int
      BY <1>1, <1>2, <3>1
    <3>3. \A j \in DOMAIN r : j > i - 1 => ~About(r[j], n)
      BY <1>3, <3>1, <3>2
    <3>4. QED BY <3>1, <3>2, <3>3 DEF WillShowIn
  <2>2. CASE /\ \A i \in DOMAIN q : ~About(q[i], n)
             /\ n \in DOMAIN cft /\ Shows(its[cft[n]], file)
    <3>1. \A i \in DOMAIN r : ~About(r[i], n)
      BY <1>3, <2>2
    <3>2. QED BY <2>2, <3>1 DEF WillShowIn
  <2>3. QED BY <2>1, <2>2 DEF Follows, WillShowIn
<1>5. ASSUME NEW i \in Int, ~EndsAfter(q, n, i)
      PROVE  ~EndsAfter(r, n, i - 1)
  <2>1. ASSUME NEW j \in DOMAIN r, j > i - 1, About(r[j], n), r[j].status \in Complete
        PROVE  FALSE
    <3>1. j + 1 \in DOMAIN q /\ r[j] = q[j + 1] /\ j + 1 > i
      BY <1>3, <2>1
    <3>2. QED BY <1>5, <2>1, <3>1 DEF EndsAfter
  <2>2. QED BY <2>1 DEF EndsAfter
<1>6. ItemIn(r, cft2, n)
  <2>1. CASE n \in DOMAIN cft /\ ~EndsAfter(q, n, 0)
    <3>1. ~EndsAfter(r, n, 0)
      <4>1. ~EndsAfter(r, n, 0 - 1)
        BY <1>5, <2>1
      <4>2. QED BY <1>3, <4>1 DEF EndsAfter
    <3>2. QED BY <2>1, <3>1 DEF ItemIn
  <2>2. CASE \E i \in DOMAIN q : /\ About(q[i], n) /\ q[i].status = "INITIALIZING"
                                 /\ ~EndsAfter(q, n, i)
    <3>1. PICK i \in DOMAIN q : /\ About(q[i], n) /\ q[i].status = "INITIALIZING"
                                /\ ~EndsAfter(q, n, i)
      BY <2>2
    <3>2. i - 1 \in DOMAIN r /\ r[i - 1] = q[i] /\ i \in Int
      BY <1>1, <1>2, <3>1
    <3>3. ~EndsAfter(r, n, i - 1)
      BY <1>5, <3>1, <3>2
    <3>4. QED BY <3>1, <3>2, <3>3 DEF ItemIn
  <2>3. QED BY <2>1, <2>2 DEF Follows, ItemIn
<1>7. QED BY <1>4, <1>6 DEF Follows, r

\* An event about n is taken from the queue, and the chat log shows it.
LEMMA FollowsPopOwn ==
    ASSUME NEW q \in Seq(Event), q # <<>>, NEW n, NEW file, file.status \in Live,
           NEW cft, NEW its, NEW cft2, NEW its2,
           About(Head(q), n), Follows(q, cft, its, n, file),
           (n \in DOMAIN cft \/ Head(q).status = "INITIALIZING") /\ Head(q).status \notin Complete =>
              /\ n \in DOMAIN cft2
              /\ Shows(Head(q), file) => Shows(its2[cft2[n]], file)
    PROVE  Follows(Tail(q), cft2, its2, n, file)
<1> DEFINE r == Tail(q)
<1>1. /\ DOMAIN q = 1..Len(q) /\ Len(q) \in Nat /\ DOMAIN r = 1..(Len(q) - 1)
      /\ \A i \in 1..(Len(q) - 1) : r[i] = q[i + 1]
      /\ Head(q) = q[1] /\ Len(q) >= 1
  BY Popped
<1> HIDE DEF r
<1>2. ASSUME NEW i \in DOMAIN q, i # 1
      PROVE  i - 1 \in DOMAIN r /\ r[i - 1] = q[i]
  BY <1>1, <1>2
<1>3. \A j \in DOMAIN r : j + 1 \in DOMAIN q /\ r[j] = q[j + 1] /\ j \in Int /\ j >= 1
  BY <1>1
<1>4. "INITIALIZING" \notin Complete /\ file.status \notin Complete /\ 1 \in DOMAIN q
  BY <1>1 DEF Live, Complete
<1>5. ASSUME NEW i \in Int, ~EndsAfter(q, n, i)
      PROVE  ~EndsAfter(r, n, i - 1)
  <2>1. ASSUME NEW j \in DOMAIN r, j > i - 1, About(r[j], n), r[j].status \in Complete
        PROVE  FALSE
    <3>1. j + 1 \in DOMAIN q /\ r[j] = q[j + 1] /\ j + 1 > i
      BY <1>3, <2>1
    <3>2. QED BY <1>5, <2>1, <3>1 DEF EndsAfter
  <2>2. QED BY <2>1 DEF EndsAfter
\* The event is the beginning, or there is an item and it is not the end.
<1>6. \/ n \in DOMAIN cft2 /\ ~EndsAfter(r, n, 0)
      \/ \E i \in DOMAIN q : /\ i # 1 /\ About(q[i], n) /\ q[i].status = "INITIALIZING"
                             /\ ~EndsAfter(q, n, i)
  <2>1. CASE n \in DOMAIN cft /\ ~EndsAfter(q, n, 0)
    <3>1. Head(q).status \notin Complete
      BY <1>1, <1>4, <2>1 DEF EndsAfter
    <3>2. ~EndsAfter(r, n, 0)
      <4>1. ~EndsAfter(r, n, 0 - 1)
        BY <1>5, <2>1
      <4>2. QED BY <1>3, <4>1 DEF EndsAfter
    <3>3. QED BY <2>1, <3>1, <3>2
  <2>2. CASE \E i \in DOMAIN q : /\ About(q[i], n) /\ q[i].status = "INITIALIZING"
                                 /\ ~EndsAfter(q, n, i)
    <3>1. PICK i \in DOMAIN q : /\ About(q[i], n) /\ q[i].status = "INITIALIZING"
                                /\ ~EndsAfter(q, n, i)
      BY <2>2
    <3>2. CASE i = 1
      <4>1. ~EndsAfter(r, n, 1 - 1)
        BY <1>5, <3>1, <3>2
      <4>2. QED BY <1>1, <1>4, <3>1, <3>2, <4>1
    <3>3. QED BY <3>1, <3>2
  <2>3. QED BY <2>1, <2>2 DEF Follows, ItemIn
<1>7. ItemIn(r, cft2, n)
  <2>1. CASE n \in DOMAIN cft2 /\ ~EndsAfter(r, n, 0)
    BY <2>1 DEF ItemIn
  <2>2. CASE \E i \in DOMAIN q : /\ i # 1 /\ About(q[i], n) /\ q[i].status = "INITIALIZING"
                                 /\ ~EndsAfter(q, n, i)
    <3>1. PICK i \in DOMAIN q : /\ i # 1 /\ About(q[i], n) /\ q[i].status = "INITIALIZING"
                                /\ ~EndsAfter(q, n, i)
      BY <2>2
    <3>2. i \in Int /\ i - 1 \in DOMAIN r /\ r[i - 1] = q[i]
      BY <1>1, <1>2, <3>1
    <3>3. ~EndsAfter(r, n, i - 1)
      BY <1>5, <3>1, <3>2
    <3>4. QED BY <3>1, <3>2, <3>3 DEF ItemIn
  <2>3. QED BY <1>6, <2>1, <2>2
<1>8. WillShowIn(r, cft2, its2, n, file)
  <2>1. PICK i \in DOMAIN q : /\ About(q[i], n) /\ Shows(q[i], file)
                              /\ \A j \in DOMAIN q : j > i => ~About(q[j], n)
    BY <1>1, <1>4 DEF Follows, WillShowIn
  <2>2. CASE i = 1
    <3>1. \A j \in DOMAIN r : ~About(r[j], n)
      BY <1>3, <2>1, <2>2
    <3>2. n \in DOMAIN cft \/ Head(q).status = "INITIALIZING"
      <4>1. \A k \in DOMAIN q : About(q[k], n) => k = 1
        BY <1>1, <2>1, <2>2
      <4>2. QED BY <1>1, <4>1 DEF Follows, ItemIn
    <3>3. Head(q).status \notin Complete /\ Shows(Head(q), file)
      BY <1>1, <1>4, <2>1, <2>2 DEF Shows
    <3>4. QED BY <3>1, <3>2, <3>3 DEF WillShowIn
  <2>3. CASE i # 1
    <3>1. i - 1 \in DOMAIN r /\ r[i - 1] = q[i] /\ i \in Int
      BY <1>1, <1>2, <2>3
    <3>2. \A j \in DOMAIN r : j > i - 1 => ~About(r[j], n)
      BY <1>3, <2>1, <3>1
    <3>3. QED BY <2>1, <3>1, <3>2 DEF WillShowIn
  <2>4. QED BY <2>2, <2>3
<1>9. QED BY <1>7, <1>8 DEF Follows, r
-----------------------------------------------------------------------------
(* A step on the transfers of some numbers *)

Same(f, g, n) == (n \in DOMAIN g <=> n \in DOMAIN f) /\ (n \in DOMAIN f => g[n] = f[n])

\* What is shown of n stays, or an event about it tells the change.
UiStep(n) ==
    \/ ~IsData(n)'
    \/ /\ IsData(n)
       /\ fileMap'[n].file = fileMap[n].file
       /\ fileMap'[n].status = fileMap[n].status /\ fileMap'[n].local = fileMap[n].local
       /\ events' = events \/ \E e \in Event : events' = Append(events, e) /\ ~About(e, n)
    \/ /\ events' = Append(events, FileEvent(fileMap'[n]))
       /\ IsData(n) \/ fileMap'[n].status = "INITIALIZING"

\* At most one event is queued, a file event about a number in S.
Said(S) ==
    \/ events' = events
    \/ \E e \in Event :
         /\ events' = Append(events, e)
         /\ e.is = "file" => /\ e.num \in S
                             /\ Apart(e.num)' /\ e.status = "FINISHED" => e.file \in delivered'
         /\ e.is = "offer" => ~(Avatars \subseteq unused')

StepOn(S) ==
    /\ ToxOK(tox') /\ MapOK(fileMap') /\ GuiOK'
    /\ connected' \in BOOLEAN /\ (~connected' => tox' = <<>>)
    /\ delivered \subseteq delivered' /\ delivered' \subseteq Files /\ unused' \subseteq unused
    /\ refusals' \in 0..MaxRefusals /\ refusals <= refusals'
    /\ UNCHANGED <<items, currentFileTransfers>>
    /\ gui'.in = "offer" => gui.in = "offer"
    /\ Said(S)
    /\ \A m \in Nums \ S : /\ Same(fileMap, fileMap', m) /\ Same(tox, tox', m)
                           /\ BreakPending(m) => BreakPending(m)'
    /\ \A n \in S : TransferInv(n)' /\ UiStep(n)

\* Nothing of n is touched.
LEMMA TransferKept ==
    ASSUME IInv, NEW n \in Nums,
           Same(fileMap, fileMap', n), Same(tox, tox', n),
           n \in DOMAIN fileMap /\ BreakPending(n) => BreakPending(n)',
           unused' \subseteq unused, refusals' \in 0..MaxRefusals, refusals <= refusals'
    PROVE  TransferInv(n)'
<1> USE DEF IInv, TypeInv, Same
<1>1. TransferInv(n)
  OBVIOUS
<1>2. Apart(n)' => Apart(n)
  BY DEF Apart
<1>3. n \in DOMAIN fileMap => fileMap[n].sent \in Nat
  BY DEF MapOK, FileOK, ToxFileType
<1>4. n \in DOMAIN tox => tox[n].pos \in Nat
  BY DEF ToxOK, Transfer
<1>5. Known(n)' => Known(n)
  BY <1>2 DEF Known
<1>6. SentInv(n)'
  BY <1>1, <1>3, <1>4, CoreFileAssumption DEF TransferInv, SentInv
<1>7. MatchInv(n)'
  BY <1>1, <1>5 DEF TransferInv, MatchInv, Known
<1>8. PauseInv(n)'
  BY <1>1, <1>5 DEF TransferInv, PauseInv, Known
<1>9. OpenInv(n)'
  BY <1>1, <1>5 DEF TransferInv, OpenInv, Known
<1>10. StaleInv(n)'
  BY <1>1, <1>2 DEF TransferInv, StaleInv, IsData
<1>11. QED BY <1>6, <1>7, <1>8, <1>9, <1>10 DEF TransferInv

LEMMA UiKept ==
    ASSUME IInv, NEW n \in Nums, MapOK(fileMap'), UiStep(n),
           UNCHANGED <<items, currentFileTransfers>>
    PROVE  UiInv(n)'
<1> SUFFICES ASSUME IsData(n)'
             PROVE  Follows(events', currentFileTransfers, items, n, fileMap'[n])
  BY DEF UiInv
<1>1. events \in Seq(Event) /\ UiInv(n)
  BY DEF IInv, TypeInv
<1>2. CASE /\ IsData(n)
           /\ fileMap'[n].file = fileMap[n].file
           /\ fileMap'[n].status = fileMap[n].status /\ fileMap'[n].local = fileMap[n].local
           /\ events' = events \/ \E e \in Event : events' = Append(events, e) /\ ~About(e, n)
  <2>1. Follows(events, currentFileTransfers, items, n, fileMap[n])
    BY <1>1, <1>2 DEF UiInv
  <2>2. Follows(events, currentFileTransfers, items, n, fileMap'[n])
    BY <1>2, <2>1 DEF Follows, WillShowIn, Shows
  <2>3. CASE events' = events
    BY <2>2, <2>3
  <2>4. CASE \E e \in Event : events' = Append(events, e) /\ ~About(e, n)
    BY <1>1, <2>2, <2>4, FollowsAppendOther
  <2>5. QED BY <1>2, <2>3, <2>4
<1>3. CASE /\ events' = Append(events, FileEvent(fileMap'[n]))
           /\ IsData(n) \/ fileMap'[n].status = "INITIALIZING"
  <2> DEFINE e == FileEvent(fileMap'[n])
  <2>1. /\ fileMap'[n] \in ToxFileType /\ fileMap'[n].file # NoFile
        /\ fileMap'[n].num = n /\ fileMap'[n].status \in Live
    BY DEF MapOK, FileOK, IsData
  <2>2. e \in Event /\ About(e, n) /\ Shows(e, fileMap'[n]) /\ e.status = fileMap'[n].status
    BY <2>1, FileEventIs
  <2>3. IsData(n) => ItemIn(events, currentFileTransfers, n)
    BY <1>1 DEF UiInv, Follows
  <2> HIDE DEF e
  <2>4. Follows(Append(events, e), currentFileTransfers, items, n, fileMap'[n])
    BY <1>1, <1>3, <2>1, <2>2, <2>3, FollowsAppendOwn
  <2>5. QED BY <1>3, <2>4 DEF e
<1>4. QED BY <1>2, <1>3 DEF UiStep

LEMMA StepKeeps ==
    ASSUME IInv, NEW S \in SUBSET Nums, StepOn(S)
    PROVE  IInv'
<1>1. events \in Seq(Event) /\ refusals \in 0..MaxRefusals
  BY DEF IInv, TypeInv
<1>2. \A n \in Nums : Apart(n)' => Apart(n)
  BY DEF Apart, StepOn
<1>3. ASSUME NEW n \in Nums PROVE TransferInv(n)' /\ UiInv(n)'
  <2>1. CASE n \in S
    <3>1. TransferInv(n)' /\ UiStep(n)
      BY <2>1 DEF StepOn
    <3>2. QED BY <3>1, UiKept DEF StepOn
  <2>2. CASE n \notin S
    <3>1. /\ Same(fileMap, fileMap', n) /\ Same(tox, tox', n)
          /\ BreakPending(n) => BreakPending(n)'
      BY <2>2 DEF StepOn
    <3>2. TransferInv(n)'
      BY <3>1, TransferKept DEF StepOn
    <3>3. UiStep(n)
      <4>1. \A e \in Event : (e.is = "file" => e.num \in S) => ~About(e, n)
        BY <2>2 DEF About
      <4>2. events' = events \/ \E e \in Event : events' = Append(events, e) /\ ~About(e, n)
        BY <4>1 DEF StepOn, Said
      <4>3. IsData(n)' => IsData(n) /\ fileMap'[n] = fileMap[n]
        BY <3>1 DEF IsData, Same
      <4>4. QED BY <4>2, <4>3 DEF UiStep
    <3>4. QED BY <3>2, <3>3, UiKept DEF StepOn
  <2>3. QED BY <2>1, <2>2
<1>4. TypeInv'
  <2>1. events' \in Seq(Event)
    BY <1>1, Appended DEF StepOn, Said
  <2>2. LogOK(items, currentFileTransfers)'
    BY DEF StepOn, IInv, TypeInv
  <2>3. QED BY <2>1, <2>2 DEF StepOn, TypeInv, IInv
<1>5. ASSUME NEW e \in Event, events' = Append(events, e)
      PROVE  \A i \in DOMAIN events' : events'[i] = e \/ (i \in DOMAIN events /\ events'[i] = events[i])
  BY <1>1, <1>5, Appended
<1>6. OfferInv'
  <2>1. Avatars \subseteq unused' => Avatars \subseteq unused
    BY DEF StepOn
  <2>2. Avatars \subseteq unused => gui.in # "offer" /\ \A i \in DOMAIN events : events[i].is # "offer"
    BY DEF IInv, OfferInv
  <2>3. Avatars \subseteq unused' => \A i \in DOMAIN events' : events'[i].is # "offer"
    BY <1>5, <2>1, <2>2 DEF StepOn, Said
  <2>4. QED BY <2>1, <2>2, <2>3 DEF StepOn, OfferInv
<1>7. FinishedInv'
  <2> SUFFICES ASSUME NEW i \in DOMAIN events', events'[i].is = "file",
                      Apart(events[i].num)', events'[i].status = "FINISHED"
               PROVE  events'[i].file \in delivered'
    BY DEF FinishedInv
  <2>1. CASE i \in DOMAIN events /\ events'[i] = events[i]
    <3>1. events[i].num \in Nums
      BY <1>1, <2>1, EventKinds, ElementOfSeq
    <3>2. events[i].file \in delivered
      <4>1. Apart(events[i].num)
        BY <1>2, <2>1, <3>1 DEF Apart
      <4>2. QED BY <2>1, <4>1 DEF IInv, FinishedInv
    <3>3. QED BY <2>1, <3>2 DEF StepOn
  <2>2. CASE ~(i \in DOMAIN events /\ events'[i] = events[i])
    <3>1. PICK e \in Event :
              /\ events' = Append(events, e)
              /\ e.is = "file" => (Apart(e.num)' /\ e.status = "FINISHED" => e.file \in delivered')
      BY <2>2 DEF StepOn, Said
    <3>2. events'[i] = e
      BY <1>5, <2>2, <3>1
    <3>3. Apart(e.num)'
      BY <3>2 DEF Apart
    <3>4. QED BY <3>1, <3>2, <3>3
  <2>3. QED BY <2>1, <2>2
<1>8. FinishedWasDelivered'
  <2> SUFFICES ASSUME NEW i \in DOMAIN items, Apart(items[i].num)', items[i].status = "FINISHED"
               PROVE  items[i].file \in delivered'
    BY DEF FinishedWasDelivered, StepOn
  <2>1. items[i].num \in Nums
    <3>1. items \in Seq(ItemType)
      BY DEF IInv, TypeInv, LogOK
    <3>2. items[i] \in ItemType
      BY <3>1, ElementOfSeq
    <3>3. QED BY <3>2 DEF ItemType
  <2>2. items[i].file \in delivered
    <3>1. Apart(items[i].num)
      BY <1>2, <2>1 DEF Apart, StepOn
    <3>2. QED BY <3>1 DEF IInv, FinishedWasDelivered
  <2>3. QED BY <2>2 DEF StepOn
<1>9. QED BY <1>3, <1>4, <1>6, <1>7, <1>8 DEF IInv
-----------------------------------------------------------------------------
(* What the operations do to toxcore's transfers and to fileMap *)

LEMMA Constants ==
    /\ Size \in Nat /\ MaxRefusals \in Nat /\ NoFile \notin Files /\ Zero \in Nums
    /\ RecvNums \subseteq Nums /\ SendNums \subseteq Nums /\ RecvNums \cap SendNums = {}
BY CoreFileAssumption DEF Nums

LEMMA MapPut ==
    ASSUME NEW m, MapOK(m), NEW n \in Nums, NEW file, FileOK(n, file)
    PROVE  /\ MapOK(Put(m, n, file)) /\ n \in DOMAIN Put(m, n, file)
           /\ Put(m, n, file)[n] = file
           /\ \A k \in Nums \ {n} : Same(m, Put(m, n, file), k)
<1> DEFINE p == Put(m, n, file)
<1>1. /\ DOMAIN p = DOMAIN m \cup {n} /\ p[n] = file
      /\ \A k \in DOMAIN m \ {n} : p[k] = m[k]
  BY DEF Put
<1> HIDE DEF p
<1>2. MapOK(p)
  BY <1>1 DEF MapOK
<1>3. \A k \in Nums \ {n} : Same(m, p, k)
  BY <1>1 DEF Same
<1>4. QED BY <1>1, <1>2, <1>3 DEF p

LEMMA MapWithout ==
    ASSUME NEW m, MapOK(m), NEW n
    PROVE  /\ MapOK(Without(m, n)) /\ n \notin DOMAIN Without(m, n)
           /\ \A k \in Nums \ {n} : Same(m, Without(m, n), k)
BY DEF Without, MapOK, Same

LEMMA ToxPut ==
    ASSUME NEW t, ToxOK(t), NEW n \in Nums, NEW v \in Transfer
    PROVE  /\ ToxOK(Put(t, n, v)) /\ n \in DOMAIN Put(t, n, v) /\ Put(t, n, v)[n] = v
           /\ \A k \in Nums \ {n} : Same(t, Put(t, n, v), k)
<1> DEFINE p == Put(t, n, v)
<1>1. /\ DOMAIN p = DOMAIN t \cup {n} /\ p[n] = v
      /\ \A k \in DOMAIN t \ {n} : p[k] = t[k]
  BY DEF Put
<1> HIDE DEF p
<1>2. ToxOK(p)
  BY <1>1 DEF ToxOK
<1>3. \A k \in Nums \ {n} : Same(t, p, k)
  BY <1>1 DEF Same
<1>4. QED BY <1>1, <1>2, <1>3 DEF p

LEMMA ToxWithout ==
    ASSUME NEW t, ToxOK(t), NEW n
    PROVE  /\ ToxOK(Without(t, n)) /\ n \notin DOMAIN Without(t, n)
           /\ \A k \in Nums \ {n} : Same(t, Without(t, n), k)
BY DEF Without, ToxOK, Same

\* The transfer n is changed in one field or two.
LEMMA ToxChanged ==
    ASSUME NEW t, ToxOK(t), NEW n \in DOMAIN t, NEW v \in Transfer,
           NEW u, u = [t EXCEPT ![n] = v]
    PROVE  /\ ToxOK(u) /\ n \in DOMAIN u /\ u[n] = v
           /\ \A k \in Nums \ {n} : Same(t, u, k)
<1>1. /\ DOMAIN u = DOMAIN t /\ u[n] = v
      /\ \A k \in DOMAIN t \ {n} : u[k] = t[k]
  OBVIOUS
<1>2. QED BY <1>1 DEF ToxOK, Same

LEMMA NewTransferIs ==
    ASSUME NEW f \in Files
    PROVE  /\ NewTransfer(f) \in Transfer /\ NewTransfer(f).file = f
           /\ ~NewTransfer(f).running /\ ~NewTransfer(f).us /\ ~NewTransfer(f).peer
           /\ NewTransfer(f).pos = 0
BY Constants DEF NewTransfer, Transfer

LEMMA NewToxFileIs ==
    ASSUME NEW f \in Files \cup {NoFile}, NEW n \in Nums, NEW a \in BOOLEAN
    PROVE  LET file == NewToxFile(f, n, a)
           IN /\ FileOK(n, file)
              /\ file.file = f /\ file.num = n /\ file.avatar = a /\ file.status = "INITIALIZING"
              /\ file.local = FALSE /\ file.remote = FALSE /\ file.sent = 0 /\ file.open = FALSE
BY Constants DEF NewToxFile, FileOK, ToxFileType, Live

\* What a transfer looks like that CoreFile or toxcore has, and that toxcore is connected.
LEMMA TransferFacts ==
    ASSUME IInv, NEW n \in Nums
    PROVE  /\ n \in DOMAIN fileMap => FileOK(n, fileMap[n])
           /\ n \in DOMAIN tox => connected /\ tox[n] \in Transfer
           /\ TransferInv(n) /\ UiInv(n)
           /\ ToxOK(tox) /\ MapOK(fileMap) /\ events \in Seq(Event)
           /\ refusals \in 0..MaxRefusals
<1>1. n \in DOMAIN tox => tox # <<>>
  OBVIOUS
<1>2. QED BY <1>1 DEF IInv, TypeInv, MapOK, ToxOK

LEMMA StatusSet ==
    ASSUME NEW n, NEW file, FileOK(n, file), NEW s \in Live \cup Complete
    PROVE  LET c == [file EXCEPT !.status = s]
           IN /\ c \in ToxFileType /\ c.status = s /\ (c.num = n \/ c.file = NoFile)
              /\ c.file = file.file /\ c.num = file.num /\ c.avatar = file.avatar
              /\ c.local = file.local /\ c.remote = file.remote
              /\ c.sent = file.sent /\ c.open = file.open
              /\ s \in Live => FileOK(n, c)
BY DEF FileOK, ToxFileType

\* A signal about the transfer n.
LEMMA EmitSays ==
    ASSUME NEW n \in Nums, NEW file \in ToxFileType, file.num = n \/ file.file = NoFile,
           Emit(file),
           Apart(n)' /\ file.status = "FINISHED" => file.file \in delivered'
    PROVE  /\ Said({n})
           /\ IF file.file = NoFile THEN events' = events
                                    ELSE events' = Append(events, FileEvent(file))
<1>1. CASE file.file = NoFile
  BY <1>1 DEF Emit, Said
<1>2. CASE file.file # NoFile
  <2>1. /\ FileEvent(file) \in Event /\ FileEvent(file).num = n
        /\ FileEvent(file).status = file.status /\ FileEvent(file).file = file.file
        /\ FileEvent(file).is = "file"
    BY <1>2, FileEventIs
  <2>2. events' = Append(events, FileEvent(file))
    BY <1>2 DEF Emit
  <2>3. QED BY <1>2, <2>1, <2>2 DEF Said
<1>3. QED BY <1>1, <1>2

LEMMA EmitDataSays ==
    ASSUME NEW n \in Nums, NEW file \in ToxFileType, file.num = n \/ file.file = NoFile,
           EmitData(file),
           ~file.avatar /\ Apart(n)' /\ file.status = "FINISHED" => file.file \in delivered'
    PROVE  /\ Said({n})
           /\ IF file.file = NoFile \/ file.avatar THEN events' = events
              ELSE events' = Append(events, FileEvent(file))
<1>1. CASE file.avatar
  BY <1>1 DEF EmitData, Said
<1>2. CASE ~file.avatar
  BY <1>2, EmitSays DEF EmitData
<1>3. QED BY <1>1, <1>2

\* A step on one transfer, of the user or of toxcore.
LocalStep(n) ==
    /\ UNCHANGED <<gui, items, currentFileTransfers, connected>>
    /\ connected \/ UNCHANGED tox
    /\ ToxOK(tox') /\ MapOK(fileMap')
    /\ \A m \in Nums \ {n} : Same(fileMap, fileMap', m) /\ Same(tox, tox', m)
    /\ delivered \subseteq delivered' /\ delivered' \subseteq Files /\ unused' \subseteq unused
    /\ refusals' \in 0..MaxRefusals /\ refusals <= refusals'
    /\ Said({n})
    /\ TransferInv(n)' /\ UiStep(n)

LEMMA PendingKept ==
    ASSUME IInv, NEW S, Said(S), UNCHANGED gui, NEW n, BreakPending(n)
    PROVE  BreakPending(n)'
<1>1. events \in Seq(Event)
  BY DEF IInv, TypeInv
<1>2. \A i \in DOMAIN events : i \in DOMAIN events' /\ events'[i] = events[i]
  BY <1>1, Appended DEF Said
<1>3. QED BY <1>2 DEF BreakPending

LEMMA LocalKeeps ==
    ASSUME IInv, NEW n \in Nums, LocalStep(n)
    PROVE  IInv'
<1>1. GuiOK' /\ connected' \in BOOLEAN /\ (~connected' => tox' = <<>>)
  BY DEF IInv, TypeInv, GuiOK, LocalStep
<1>2. \A m \in Nums : BreakPending(m) => BreakPending(m)'
  BY PendingKept DEF LocalStep
<1>3. StepOn({n})
  BY <1>1, <1>2 DEF StepOn, LocalStep
<1>4. QED BY <1>3, StepKeeps

\* A file that is not in fileMap any more.
LEMMA Removed ==
    ASSUME NEW n, n \notin DOMAIN fileMap'
    PROVE  TransferInv(n)' /\ UiStep(n)
BY DEF TransferInv, SentInv, MatchInv, PauseInv, OpenInv, StaleInv, Known, IsData, UiStep

\* toxcore's transfers with n changed, but not its file.
ToxWith(u, n) ==
    /\ ToxOK(u) /\ n \in DOMAIN u /\ u[n].file = tox[n].file
    /\ \A k \in Nums \ {n} : Same(tox, u, k)

LEMMA ToxVariants ==
    ASSUME IInv, NEW n \in DOMAIN tox
    PROVE  /\ n \in Nums
           /\ ToxWith(Resumed(n), n)
           /\ Resumed(n)[n].running /\ ~Resumed(n)[n].us
           /\ Resumed(n)[n].peer = tox[n].peer /\ Resumed(n)[n].pos = tox[n].pos
           /\ LET u == [tox EXCEPT ![n].us = TRUE]
              IN /\ ToxWith(u, n) /\ u[n].us = TRUE
                 /\ u[n].running = tox[n].running /\ u[n].peer = tox[n].peer /\ u[n].pos = tox[n].pos
           /\ LET u == [tox EXCEPT ![n].peer = TRUE]
              IN /\ ToxWith(u, n) /\ u[n].peer = TRUE
                 /\ u[n].running = tox[n].running /\ u[n].us = tox[n].us /\ u[n].pos = tox[n].pos
           /\ LET u == [tox EXCEPT ![n].running = TRUE, ![n].peer = FALSE]
              IN /\ ToxWith(u, n) /\ u[n].running = TRUE /\ u[n].peer = FALSE
                 /\ u[n].us = tox[n].us /\ u[n].pos = tox[n].pos
           /\ tox[n].pos # Size =>
                /\ ToxWith(Advance(n), n) /\ Advance(n)[n].pos = tox[n].pos + 1
                /\ Advance(n)[n].running = tox[n].running /\ Advance(n)[n].us = tox[n].us
                /\ Advance(n)[n].peer = tox[n].peer
<1>1. ToxOK(tox) /\ n \in Nums /\ tox[n] \in Transfer
  BY DEF IInv, TypeInv, ToxOK
<1>2. /\ ToxWith(Resumed(n), n)
      /\ Resumed(n)[n].running /\ ~Resumed(n)[n].us
      /\ Resumed(n)[n].peer = tox[n].peer /\ Resumed(n)[n].pos = tox[n].pos
  <2> DEFINE v == [tox[n] EXCEPT !.running = TRUE, !.us = FALSE]
  <2>1. /\ v \in Transfer /\ v.file = tox[n].file /\ v.running /\ ~v.us
        /\ v.peer = tox[n].peer /\ v.pos = tox[n].pos
    BY <1>1 DEF Transfer
  <2> DEFINE w == Resumed(n)
  <2>2. w = [tox EXCEPT ![n] = v]
    BY DEF Resumed
  <2> HIDE DEF v, w
  <2>3. ToxOK(w) /\ n \in DOMAIN w /\ w[n] = v /\ \A k \in Nums \ {n} : Same(tox, w, k)
    BY <1>1, <2>1, <2>2, ToxChanged
  <2>4. QED BY <2>1, <2>3 DEF ToxWith, w
<1>3. LET u == [tox EXCEPT ![n].us = TRUE]
      IN /\ ToxWith(u, n) /\ u[n].us = TRUE
         /\ u[n].running = tox[n].running /\ u[n].peer = tox[n].peer /\ u[n].pos = tox[n].pos
  <2> DEFINE v == [tox[n] EXCEPT !.us = TRUE]
  <2>1. /\ v \in Transfer /\ v.file = tox[n].file /\ v.running = tox[n].running /\ v.us = TRUE
        /\ v.peer = tox[n].peer /\ v.pos = tox[n].pos
    BY <1>1 DEF Transfer
  <2> DEFINE w == [tox EXCEPT ![n].us = TRUE]
  <2>2. w = [tox EXCEPT ![n] = v]
    OBVIOUS
  <2> HIDE DEF v, w
  <2>3. ToxOK(w) /\ n \in DOMAIN w /\ w[n] = v /\ \A k \in Nums \ {n} : Same(tox, w, k)
    BY <1>1, <2>1, <2>2, ToxChanged
  <2>4. QED BY <2>1, <2>3 DEF ToxWith, w
<1>4. LET u == [tox EXCEPT ![n].peer = TRUE]
      IN /\ ToxWith(u, n) /\ u[n].peer = TRUE
         /\ u[n].running = tox[n].running /\ u[n].us = tox[n].us /\ u[n].pos = tox[n].pos
  <2> DEFINE v == [tox[n] EXCEPT !.peer = TRUE]
  <2>1. /\ v \in Transfer /\ v.file = tox[n].file /\ v.running = tox[n].running /\ v.peer = TRUE
        /\ v.us = tox[n].us /\ v.pos = tox[n].pos
    BY <1>1 DEF Transfer
  <2> DEFINE w == [tox EXCEPT ![n].peer = TRUE]
  <2>2. w = [tox EXCEPT ![n] = v]
    OBVIOUS
  <2> HIDE DEF v, w
  <2>3. ToxOK(w) /\ n \in DOMAIN w /\ w[n] = v /\ \A k \in Nums \ {n} : Same(tox, w, k)
    BY <1>1, <2>1, <2>2, ToxChanged
  <2>4. QED BY <2>1, <2>3 DEF ToxWith, w
<1>5. LET u == [tox EXCEPT ![n].running = TRUE, ![n].peer = FALSE]
      IN /\ ToxWith(u, n) /\ u[n].running = TRUE /\ u[n].peer = FALSE
         /\ u[n].us = tox[n].us /\ u[n].pos = tox[n].pos
  <2> DEFINE v == [tox[n] EXCEPT !.running = TRUE, !.peer = FALSE]
  <2>1. /\ v \in Transfer /\ v.file = tox[n].file /\ v.running = TRUE /\ v.peer = FALSE
        /\ v.us = tox[n].us /\ v.pos = tox[n].pos
    BY <1>1 DEF Transfer
  <2> DEFINE w == [tox EXCEPT ![n].running = TRUE, ![n].peer = FALSE]
  <2>2. w = [tox EXCEPT ![n] = v]
    OBVIOUS
  <2> HIDE DEF v, w
  <2>3. ToxOK(w) /\ n \in DOMAIN w /\ w[n] = v /\ \A k \in Nums \ {n} : Same(tox, w, k)
    BY <1>1, <2>1, <2>2, ToxChanged
  <2>4. QED BY <2>1, <2>3 DEF ToxWith, w
<1>6. tox[n].pos # Size =>
        /\ ToxWith(Advance(n), n) /\ Advance(n)[n].pos = tox[n].pos + 1
        /\ Advance(n)[n].running = tox[n].running /\ Advance(n)[n].us = tox[n].us
        /\ Advance(n)[n].peer = tox[n].peer
  <2> SUFFICES ASSUME tox[n].pos # Size
               PROVE  /\ ToxWith(Advance(n), n) /\ Advance(n)[n].pos = tox[n].pos + 1
                      /\ Advance(n)[n].running = tox[n].running /\ Advance(n)[n].us = tox[n].us
                      /\ Advance(n)[n].peer = tox[n].peer
    OBVIOUS
  <2> DEFINE v == [tox[n] EXCEPT !.pos = tox[n].pos + 1]
  <2>1. /\ v \in Transfer /\ v.file = tox[n].file /\ v.running = tox[n].running
        /\ v.us = tox[n].us /\ v.peer = tox[n].peer /\ v.pos = tox[n].pos + 1
    BY <1>1, Constants DEF Transfer
  <2> DEFINE w == Advance(n)
  <2>2. w = [tox EXCEPT ![n] = v]
    BY DEF Advance
  <2> HIDE DEF v, w
  <2>3. ToxOK(w) /\ n \in DOMAIN w /\ w[n] = v /\ \A k \in Nums \ {n} : Same(tox, w, k)
    BY <1>1, <2>1, <2>2, ToxChanged
  <2>4. QED BY <2>1, <2>3 DEF ToxWith, w
<1>7. QED BY <1>1, <1>2, <1>3, <1>4, <1>5, <1>6
-----------------------------------------------------------------------------
(* The user *)

LEMMA SendFileKeeps ==
    ASSUME IInv, NEW f \in SendFiles, NEW n \in SendNums, SendFile(f, n)
    PROVE  IInv'
<1> DEFINE file == NewToxFile(f, n, FALSE)
<1>1. n \in Nums /\ f \in Files /\ n \notin DOMAIN tox
  BY Constants DEF SendFile, Files
<1>2. /\ FileOK(n, file) /\ file.file = f /\ file.num = n /\ file.avatar = FALSE
      /\ file.status = "INITIALIZING" /\ ~file.local /\ ~file.remote /\ file.sent = 0
  BY <1>1, NewToxFileIs
<1>3. file.file # NoFile
  BY <1>1, <1>2, Constants
<1> HIDE DEF file
<1>4. /\ ToxOK(tox) /\ MapOK(fileMap) /\ refusals \in 0..MaxRefusals
      /\ delivered \subseteq Files
  BY DEF IInv, TypeInv
<1>5. /\ tox' = Put(tox, n, NewTransfer(f)) /\ fileMap' = Put(fileMap, n, file) /\ Emit(file)
      /\ unused' \subseteq unused /\ connected
      /\ UNCHANGED <<connected, delivered, gui, items, currentFileTransfers, refusals>>
  BY DEF SendFile, Store, guiVars, bounds, file
<1>6. /\ ToxOK(tox') /\ n \in DOMAIN tox' /\ tox'[n] = NewTransfer(f)
      /\ \A k \in Nums \ {n} : Same(tox, tox', k)
  BY <1>1, <1>4, <1>5, NewTransferIs, ToxPut
<1>7. /\ MapOK(fileMap') /\ n \in DOMAIN fileMap' /\ fileMap'[n] = file
      /\ \A k \in Nums \ {n} : Same(fileMap, fileMap', k)
  BY <1>1, <1>2, <1>4, <1>5, MapPut
<1>8. Said({n}) /\ events' = Append(events, FileEvent(file))
  BY <1>1, <1>2, <1>3, <1>5, EmitSays DEF FileOK
<1>9. TransferInv(n)'
  <2>1. /\ tox'[n].file = f /\ ~tox'[n].running /\ ~tox'[n].us /\ ~tox'[n].peer
        /\ tox'[n].us \in BOOLEAN /\ tox'[n].peer \in BOOLEAN /\ tox'[n].pos = 0
    BY <1>1, <1>6, NewTransferIs DEF Transfer
  <2>2. file.local \in BOOLEAN /\ file.remote \in BOOLEAN
    BY <1>2 DEF FileOK, ToxFileType
  <2>3. SentInv(n)'
    BY <1>2, <1>4, <1>5, <1>7, <2>1, Constants DEF SentInv
  <2>4. MatchInv(n)'
    BY <1>2, <1>7, <2>1 DEF MatchInv
  <2>5. PauseInv(n)'
    BY <1>2, <1>7, <2>1, <2>2 DEF PauseInv
  <2>6. OpenInv(n)' /\ StaleInv(n)'
    BY <1>2, <1>6, <1>7, <2>1 DEF OpenInv, StaleInv
  <2>7. QED BY <2>3, <2>4, <2>5, <2>6 DEF TransferInv
<1>10. UiStep(n)
  BY <1>2, <1>7, <1>8 DEF UiStep
<1>11. LocalStep(n)
  BY <1>4, <1>5, <1>6, <1>7, <1>8, <1>9, <1>10 DEF LocalStep
<1>12. QED BY <1>1, <1>11, LocalKeeps

LEMMA PauseResumeFileKeeps ==
    ASSUME IInv, NEW n \in Nums, PauseResumeFile(n)
    PROVE  IInv'
<1> DEFINE file == fileMap[n]
           toggled == [file EXCEPT !.local = ~file.local]
           changed == [toggled EXCEPT !.status = IF Paused(toggled) THEN "PAUSED"
                                                                    ELSE "TRANSMITTING"]
<1>1. /\ n \in DOMAIN fileMap /\ file.status \in {"TRANSMITTING", "PAUSED"}
      /\ fileMap' = Put(fileMap, n, changed) /\ Emit(changed)
      /\ UNCHANGED <<connected, delivered, gui, items, currentFileTransfers, unused>>
      /\ IF file.file = NoFile THEN UNCHANGED <<tox, refusals>>
         ELSE IF changed.local
         THEN IF PauseAllowed(n) THEN Taken([tox EXCEPT ![n].us = TRUE]) \/ Refused
                                 ELSE UNCHANGED <<tox, refusals>>
         ELSE IF ResumeAllowed(n) THEN Taken(Resumed(n)) \/ Refused
                                  ELSE UNCHANGED <<tox, refusals>>
  BY DEF PauseResumeFile, Store, guiVars
<1>2. /\ FileOK(n, file) /\ (n \in DOMAIN tox => connected /\ tox[n] \in Transfer)
      /\ TransferInv(n) /\ ToxOK(tox) /\ MapOK(fileMap) /\ refusals \in 0..MaxRefusals
      /\ delivered \subseteq Files
  BY <1>1, TransferFacts DEF IInv, TypeInv
<1>3. /\ FileOK(n, changed) /\ changed.file = file.file /\ changed.num = file.num
      /\ changed.avatar = file.avatar /\ changed.status \in {"TRANSMITTING", "PAUSED"}
      /\ changed.local = ~file.local /\ changed.remote = file.remote
      /\ changed.sent = file.sent /\ changed.open = file.open
      /\ changed.local \in BOOLEAN /\ changed.remote \in BOOLEAN /\ file.local \in BOOLEAN
  <2>1. file \in ToxFileType
    BY <1>2 DEF FileOK
  <2>2. toggled \in ToxFileType /\ toggled.local = ~file.local /\ toggled.remote = file.remote
    BY <2>1 DEF ToxFileType
  <2>3. \A s \in {"TRANSMITTING", "PAUSED"} :
          LET c == [toggled EXCEPT !.status = s]
          IN /\ c \in ToxFileType /\ c.status = s /\ c.file = file.file /\ c.num = file.num
             /\ c.avatar = file.avatar /\ c.local = toggled.local /\ c.remote = toggled.remote
             /\ c.sent = file.sent /\ c.open = file.open
    BY <2>1, <2>2 DEF ToxFileType, Live
  <2>4. file.local \in BOOLEAN /\ file.remote \in BOOLEAN
    BY <2>1 DEF ToxFileType
  <2>5. (IF Paused(toggled) THEN "PAUSED" ELSE "TRANSMITTING") \in {"TRANSMITTING", "PAUSED"}
    OBVIOUS
  <2>6. file.num = n \/ file.file = NoFile
    BY <1>2 DEF FileOK
  <2> HIDE DEF toggled
  <2>7. QED BY <2>2, <2>3, <2>4, <2>5, <2>6 DEF FileOK, Live
<1> HIDE DEF changed, toggled
<1>4. /\ MapOK(fileMap') /\ n \in DOMAIN fileMap' /\ fileMap'[n] = changed
      /\ \A k \in Nums \ {n} : Same(fileMap, fileMap', k)
  BY <1>1, <1>2, <1>3, MapPut
<1>5. /\ Said({n})
      /\ IF changed.file = NoFile THEN events' = events
                                  ELSE events' = Append(events, FileEvent(changed))
  BY <1>1, <1>3, EmitSays DEF FileOK
<1>6. UiStep(n)
  BY <1>1, <1>3, <1>4, <1>5 DEF UiStep, IsData
\* What happens to the transfer in toxcore.
<1>7. /\ refusals' \in 0..MaxRefusals /\ refusals <= refusals'
      /\ refusals' = 0 => refusals = 0
      /\ tox' = tox \/ (n \in DOMAIN tox /\ ToxWith(tox', n) /\ tox'[n].pos = tox[n].pos)
      /\ n \in DOMAIN tox /\ refusals' = 0 /\ file.file # NoFile =>
           /\ tox'[n].peer = tox[n].peer
           /\ changed.local =>
                IF PauseAllowed(n) THEN tox'[n].us = TRUE /\ tox'[n].running = tox[n].running
                                   ELSE tox' = tox
           /\ ~changed.local =>
                IF ResumeAllowed(n) THEN tox'[n].us = FALSE /\ tox'[n].running = TRUE
                                    ELSE tox' = tox
  <2>1. refusals \in Int /\ MaxRefusals \in Int
    BY <1>2, Constants
  <2>2. CASE tox' = tox /\ refusals' = refusals /\
             (file.file = NoFile \/ (changed.local /\ ~PauseAllowed(n))
                                 \/ (~changed.local /\ ~ResumeAllowed(n)))
    BY <1>2, <2>1, <2>2
  <2>3. CASE Refused
    BY <1>2, <2>1, <2>3, Constants DEF Refused, RefusedLeaving
  <2>4. CASE changed.local /\ PauseAllowed(n) /\ Taken([tox EXCEPT ![n].us = TRUE])
    <3>1. n \in DOMAIN tox /\ tox' = [tox EXCEPT ![n].us = TRUE] /\ refusals' = refusals
      BY <2>4 DEF PauseAllowed, Taken
    <3>2. /\ ToxWith(tox', n) /\ tox'[n].us = TRUE
          /\ tox'[n].running = tox[n].running /\ tox'[n].peer = tox[n].peer
          /\ tox'[n].pos = tox[n].pos
      BY <3>1, ToxVariants
    <3>3. QED BY <1>2, <2>1, <2>4, <3>1, <3>2
  <2>5. CASE ~changed.local /\ ResumeAllowed(n) /\ Taken(Resumed(n))
    <3>1. n \in DOMAIN tox /\ tox' = Resumed(n) /\ refusals' = refusals
      BY <2>5 DEF ResumeAllowed, Taken
    <3>2. /\ ToxWith(tox', n) /\ tox'[n].running /\ ~tox'[n].us
          /\ tox'[n].peer = tox[n].peer /\ tox'[n].pos = tox[n].pos
      BY <3>1, ToxVariants
    <3>3. tox'[n].us = FALSE /\ tox'[n].running = TRUE
      BY <3>2 DEF ToxWith, ToxOK, Transfer
    <3>4. /\ refusals' \in 0..MaxRefusals /\ refusals <= refusals'
          /\ refusals' = 0 => refusals = 0
      BY <1>2, <2>1, <3>1
    <3>5. QED BY <2>5, <3>1, <3>2, <3>3, <3>4
  <2>6. QED BY <1>1, <2>2, <2>3, <2>4, <2>5
<1>8. /\ ToxOK(tox') /\ (n \in DOMAIN tox' <=> n \in DOMAIN tox)
      /\ n \in DOMAIN tox => tox'[n].file = tox[n].file /\ tox'[n].pos = tox[n].pos
      /\ \A k \in Nums \ {n} : Same(tox, tox', k)
  BY <1>2, <1>7 DEF ToxWith, Same
<1>9. Known(n)' => Known(n)
  BY <1>1, <1>3, <1>4, <1>8 DEF Known, Apart
<1>10. SentInv(n)'
  <2>1. file.sent \in Nat /\ (n \in DOMAIN tox => tox[n].pos \in Nat)
    BY <1>2 DEF FileOK, ToxFileType, Transfer
  <2>2. /\ file.sent <= Size + refusals
        /\ n \in DOMAIN tox /\ n \in SendNums => file.sent <= tox[n].pos + refusals
    BY <1>1, <1>2 DEF TransferInv, SentInv
  <2>3. refusals \in Nat /\ refusals' \in Nat /\ Size \in Nat
    BY <1>2, <1>7, Constants
  <2>4. /\ changed.sent <= Size + refusals'
        /\ n \in DOMAIN tox' /\ n \in SendNums => changed.sent <= tox'[n].pos + refusals'
    BY <1>3, <1>7, <1>8, <2>1, <2>2, <2>3
  <2>5. QED BY <1>4, <2>4 DEF SentInv
<1>11. MatchInv(n)'
  BY <1>2, <1>3, <1>4, <1>8, <1>9 DEF TransferInv, MatchInv, Known
<1>12. PauseInv(n)'
  <2> SUFFICES ASSUME Known(n)', refusals' = 0
               PROVE  /\ changed.local = tox'[n].us /\ changed.remote = tox'[n].peer
                      /\ tox'[n].running
    BY <1>4 DEF PauseInv
  <2>1. /\ n \in DOMAIN tox /\ file.file # NoFile /\ refusals = 0
        /\ file.local = tox[n].us /\ file.remote = tox[n].peer /\ tox[n].running
    BY <1>1, <1>2, <1>7, <1>9 DEF TransferInv, PauseInv, Known
  <2>2. tox'[n].peer = tox[n].peer
    BY <1>7, <2>1
  <2>3. CASE changed.local
    <3>1. PauseAllowed(n)
      BY <1>3, <2>1, <2>3 DEF PauseAllowed
    <3>2. tox'[n].us = TRUE /\ tox'[n].running = tox[n].running
      BY <1>7, <2>1, <2>3, <3>1
    <3>3. QED BY <1>3, <2>1, <2>2, <2>3, <3>2
  <2>4. CASE ~changed.local
    <3>1. ResumeAllowed(n)
      BY <1>3, <2>1, <2>4 DEF ResumeAllowed
    <3>2. tox'[n].us = FALSE /\ tox'[n].running = TRUE
      BY <1>7, <2>1, <2>4, <3>1
    <3>3. QED BY <1>3, <2>1, <2>2, <2>4, <3>2
  <2>5. QED BY <2>3, <2>4
<1>13. OpenInv(n)'
  <2>1. Known(n)' /\ n \in RecvNums => file.open
    BY <1>1, <1>2, <1>9 DEF TransferInv, OpenInv
  <2>2. QED BY <1>3, <1>4, <2>1 DEF OpenInv
<1>14. StaleInv(n)'
  <2>1. BreakPending(n) => BreakPending(n)'
    BY <1>1, <1>5, PendingKept
  <2>2. IsData(n)' => IsData(n)
    BY <1>1, <1>3, <1>4 DEF IsData
  <2>3. QED BY <1>1, <1>2, <1>8, <2>1, <2>2 DEF TransferInv, StaleInv, Apart
<1>15. TransferInv(n)'
  BY <1>10, <1>11, <1>12, <1>13, <1>14 DEF TransferInv
<1>16. LocalStep(n)
  <2>1. connected \/ UNCHANGED tox
    BY <1>2, <1>7
  <2>2. QED BY <1>1, <1>2, <1>4, <1>5, <1>6, <1>7, <1>8, <1>15, <2>1 DEF LocalStep
<1>17. QED BY <1>16, LocalKeeps

LEMMA CancelFileKeeps ==
    ASSUME IInv, NEW n \in Nums, CancelFile(n)
    PROVE  IInv'
<1> DEFINE changed == [fileMap[n] EXCEPT !.status = "CANCELED"]
<1>1. /\ n \in DOMAIN fileMap /\ n \in DOMAIN tox
      /\ \/ /\ Taken(Without(tox, n)) /\ Emit(changed) /\ RemoveFile(n)
         \/ Refused /\ UNCHANGED <<fileMap, events>>
      /\ UNCHANGED <<connected, delivered, gui, items, currentFileTransfers, unused>>
  BY DEF CancelFile, guiVars
<1>2. /\ FileOK(n, fileMap[n]) /\ connected /\ ToxOK(tox) /\ MapOK(fileMap)
      /\ refusals \in 0..MaxRefusals /\ delivered \subseteq Files
  BY <1>1, TransferFacts DEF IInv, TypeInv
<1>3. CASE Taken(Without(tox, n)) /\ Emit(changed) /\ RemoveFile(n)
  <2>1. tox' = Without(tox, n) /\ fileMap' = Without(fileMap, n) /\ refusals' = refusals
    BY <1>3 DEF Taken, RemoveFile
  <2>2. /\ ToxOK(tox') /\ MapOK(fileMap') /\ n \notin DOMAIN fileMap'
        /\ \A k \in Nums \ {n} : Same(fileMap, fileMap', k) /\ Same(tox, tox', k)
    BY <1>2, <2>1, MapWithout, ToxWithout
  <2>3. Said({n})
    <3>1. /\ changed \in ToxFileType /\ changed.status = "CANCELED"
          /\ changed.num = n \/ changed.file = NoFile
      BY <1>2, StatusSet DEF Complete
    <3> HIDE DEF changed
    <3>2. QED BY <1>3, <3>1, EmitSays
  <2>4. TransferInv(n)' /\ UiStep(n)
    BY <2>2, Removed
  <2>5. LocalStep(n)
    BY <1>1, <1>2, <2>1, <2>2, <2>3, <2>4 DEF LocalStep
  <2>6. QED BY <2>5, LocalKeeps
<1>4. CASE Refused /\ UNCHANGED <<fileMap, events>>
  <2>1. tox' = tox /\ refusals' \in 0..MaxRefusals /\ refusals <= refusals'
    BY <1>2, <1>4, Constants DEF Refused, RefusedLeaving
  <2>2. \A k \in Nums : Same(fileMap, fileMap', k) /\ Same(tox, tox', k)
    BY <1>4, <2>1 DEF Same
  <2>3. Said({n}) /\ UiStep(n)
    BY <1>4 DEF Said, UiStep, IsData
  <2>4. TransferInv(n)'
    BY <1>1, <2>1, <2>2, <2>3, PendingKept, TransferKept
  <2>5. LocalStep(n)
    BY <1>1, <1>2, <1>4, <2>1, <2>2, <2>3, <2>4 DEF LocalStep
  <2>6. QED BY <2>5, LocalKeeps
<1>5. QED BY <1>1, <1>3, <1>4

\* A request that is accepted: from the chat log, or by itself.
LEMMA RequestAccepted ==
    ASSUME IInv, NEW n \in RecvNums, AcceptFileRecvRequest(n), ~NullFile(n), UNCHANGED unused
    PROVE  /\ ToxOK(tox') /\ MapOK(fileMap') /\ (connected \/ UNCHANGED tox)
           /\ refusals' \in 0..MaxRefusals /\ refusals <= refusals'
           /\ \A k \in Nums \ {n} : Same(fileMap, fileMap', k) /\ Same(tox, tox', k)
           /\ SentInv(n)' /\ MatchInv(n)' /\ PauseInv(n)' /\ OpenInv(n)'
           /\ n \in DOMAIN fileMap' <=> n \in DOMAIN fileMap
           /\ n \in DOMAIN tox' <=> n \in DOMAIN tox
           /\ n \in DOMAIN fileMap =>
                /\ fileMap'[n].file = fileMap[n].file /\ fileMap'[n].local = fileMap[n].local
                /\ fileMap'[n].avatar = fileMap[n].avatar
                /\ fileMap'[n].status \in {fileMap[n].status, "TRANSMITTING"}
                /\ fileMap[n].file # NoFile
<1>1. /\ n \in Nums /\ (n \in DOMAIN tox => connected /\ tox[n] \in Transfer)
      /\ TransferInv(n) /\ ToxOK(tox) /\ MapOK(fileMap) /\ refusals \in 0..MaxRefusals
      /\ n \in DOMAIN fileMap => FileOK(n, fileMap[n]) /\ fileMap[n].file # NoFile
  BY TransferFacts DEF NullFile, Nums
<1>2. CASE ~(n \in DOMAIN fileMap /\ ~fileMap[n].open)
  <2>1. UNCHANGED <<tox, refusals, fileMap>>
    BY <1>2 DEF AcceptFileRecvRequest
  <2>2. SentInv(n)' /\ MatchInv(n)' /\ PauseInv(n)' /\ OpenInv(n)'
    BY <1>1, <2>1 DEF TransferInv, SentInv, MatchInv, PauseInv, OpenInv, Known, Apart
  <2>3. QED BY <1>1, <2>1, <2>2, Constants DEF Same
<1>3. CASE n \in DOMAIN fileMap /\ ~fileMap[n].open
  <2> DEFINE file == fileMap[n]
             opened(s) == [file EXCEPT !.open = TRUE, !.status = s]
  <2>1. PICK s \in {file.status, "TRANSMITTING"} :
          /\ fileMap' = Put(fileMap, n, opened(s))
          /\ \/ /\ ResumeAllowed(n) /\ Taken(Resumed(n)) /\ s = "TRANSMITTING"
             \/ /\ s = file.status
                /\ IF ResumeAllowed(n) THEN Refused ELSE UNCHANGED <<tox, refusals>>
    <3>1. [file EXCEPT !.open = TRUE] = opened(file.status)
      BY <1>1, <1>3 DEF FileOK, ToxFileType
    <3>2. QED BY <1>3, <3>1 DEF AcceptFileRecvRequest, Store
  <2> DEFINE c == opened(s)
  <2>2. /\ FileOK(n, c) /\ c.file = file.file /\ c.num = file.num /\ c.avatar = file.avatar
        /\ c.local = file.local /\ c.remote = file.remote /\ c.sent = file.sent
        /\ c.open = TRUE /\ c.status = s
    <3>1. file \in ToxFileType /\ s \in Live /\ (file.num = n \/ file.file = NoFile)
      BY <1>1, <1>3, <2>1 DEF FileOK, Live
    <3>2. QED BY <3>1 DEF FileOK, ToxFileType
  <2>3. /\ MapOK(fileMap') /\ n \in DOMAIN fileMap' /\ fileMap'[n] = c
        /\ \A k \in Nums \ {n} : Same(fileMap, fileMap', k)
    <3> HIDE DEF c
    <3>1. QED BY <1>1, <2>1, <2>2, MapPut DEF c
  <2> HIDE DEF c, opened
  <2>4. file.sent \in Nat /\ (n \in DOMAIN tox => tox[n].pos \in Nat)
    BY <1>1, <1>3 DEF FileOK, ToxFileType, Transfer
  <2>5. /\ file.sent <= Size + refusals
        /\ n \in DOMAIN tox /\ n \in SendNums => file.sent <= tox[n].pos + refusals
    BY <1>1, <1>3 DEF TransferInv, SentInv
  <2>6. refusals \in Nat /\ Size \in Nat /\ MaxRefusals \in Nat
    BY <1>1, Constants
  <2>7. CASE ResumeAllowed(n) /\ Taken(Resumed(n)) /\ s = "TRANSMITTING"
    <3>1. n \in DOMAIN tox /\ tox' = Resumed(n) /\ refusals' = refusals
      BY <2>7 DEF ResumeAllowed, Taken
    <3>2. /\ ToxOK(tox') /\ n \in DOMAIN tox' /\ tox'[n].file = tox[n].file
          /\ \A k \in Nums \ {n} : Same(tox, tox', k)
          /\ tox'[n].running /\ ~tox'[n].us
          /\ tox'[n].peer = tox[n].peer /\ tox'[n].pos = tox[n].pos
      BY <3>1, ToxVariants DEF ToxWith
    <3>3. Known(n)' => Known(n)
      BY <1>3, <2>2, <2>3, <3>1 DEF Known, Apart
    <3>4. SentInv(n)'
      BY <2>2, <2>3, <2>5, <3>1, <3>2 DEF SentInv
    <3>5. MatchInv(n)'
      BY <1>1, <2>2, <2>3, <3>2, <3>3 DEF TransferInv, MatchInv
    <3>6. OpenInv(n)'
      BY <2>2, <2>3 DEF OpenInv
    <3>7. PauseInv(n)'
      <4> SUFFICES ASSUME Known(n)', refusals' = 0
                   PROVE  c.local = tox'[n].us /\ c.remote = tox'[n].peer
        BY <2>3, <3>2 DEF PauseInv
      <4>1. /\ file.local = tox[n].us /\ file.remote = tox[n].peer
            /\ tox[n].running \/ ~tox[n].us
        BY <1>1, <3>1, <3>3 DEF TransferInv, PauseInv
      <4>2. ~tox[n].us
        <5>1. tox[n].running => FALSE
          BY <1>1, <1>3, <2>7, <3>3 DEF TransferInv, OpenInv, ResumeAllowed, Known
        <5>2. QED BY <4>1, <5>1
      <4>3. tox[n].us \in BOOLEAN /\ tox'[n].us \in BOOLEAN
        BY <1>1, <3>1, <3>2 DEF ToxOK, Transfer
      <4>4. QED BY <2>2, <3>2, <4>1, <4>2, <4>3
    <3>8. QED BY <1>1, <1>3, <2>2, <2>3, <3>1, <3>2, <3>4, <3>5, <3>6, <3>7, <2>6
  <2>8. CASE s = file.status /\ tox' = tox /\ refusals' \in 0..MaxRefusals /\ refusals <= refusals'
    <3>1. Known(n)' => Known(n)
      BY <1>3, <2>2, <2>3, <2>8 DEF Known, Apart
    <3>2. SentInv(n)'
      <4>1. refusals' \in Nat
        BY <2>6, <2>8
      <4>2. QED BY <2>2, <2>3, <2>4, <2>5, <2>6, <2>8, <4>1 DEF SentInv
    <3>3. MatchInv(n)'
      BY <1>1, <2>2, <2>3, <2>8, <3>1 DEF TransferInv, MatchInv
    <3>4. OpenInv(n)'
      BY <2>2, <2>3 DEF OpenInv
    <3>5. PauseInv(n)'
      <4>1. refusals' = 0 => refusals = 0
        BY <2>6, <2>8
      <4>2. QED BY <1>1, <2>2, <2>3, <2>8, <3>1, <4>1 DEF TransferInv, PauseInv
    <3>6. QED BY <1>1, <1>3, <2>2, <2>3, <2>8, <3>2, <3>3, <3>4, <3>5 DEF Same
  <2>9. CASE s = file.status /\ (IF ResumeAllowed(n) THEN Refused ELSE UNCHANGED <<tox, refusals>>)
    <3>1. tox' = tox /\ refusals' \in 0..MaxRefusals /\ refusals <= refusals'
      BY <1>1, <2>6, <2>9 DEF Refused, RefusedLeaving
    <3>2. QED BY <2>8, <2>9, <3>1
  <2>10. QED BY <2>1, <2>7, <2>9
<1>4. QED BY <1>2, <1>3

LEMMA AcceptFileKeeps ==
    ASSUME IInv, NEW n \in Nums, AcceptFile(n)
    PROVE  IInv'
<1>1. /\ n \in RecvNums /\ n \in DOMAIN fileMap /\ ~NullFile(n) /\ AcceptFileRecvRequest(n)
      /\ EmitAccepted(events, n)
      /\ UNCHANGED <<connected, delivered, gui, items, currentFileTransfers, unused>>
  BY DEF AcceptFile, guiVars
<1>2. /\ ToxOK(tox') /\ MapOK(fileMap') /\ (connected \/ UNCHANGED tox)
      /\ refusals' \in 0..MaxRefusals /\ refusals <= refusals'
      /\ \A k \in Nums \ {n} : Same(fileMap, fileMap', k) /\ Same(tox, tox', k)
      /\ SentInv(n)' /\ MatchInv(n)' /\ PauseInv(n)' /\ OpenInv(n)'
      /\ n \in DOMAIN fileMap' /\ (n \in DOMAIN tox' <=> n \in DOMAIN tox)
      /\ fileMap'[n].file = fileMap[n].file /\ fileMap'[n].local = fileMap[n].local
      /\ fileMap'[n].avatar = fileMap[n].avatar
      /\ fileMap'[n].status \in {fileMap[n].status, "TRANSMITTING"}
      /\ fileMap[n].file # NoFile
  BY <1>1, RequestAccepted
<1>3. FileOK(n, fileMap'[n]) /\ TransferInv(n) /\ delivered \subseteq Files
  BY <1>2, TransferFacts DEF MapOK, IInv, TypeInv
<1>4. Said({n})
  <2>1. CASE fileMap'[n].status # fileMap[n].status
    <3>1. events' = Append(events, FileEvent(fileMap'[n])) /\ fileMap'[n].status = "TRANSMITTING"
      BY <1>1, <1>2, <2>1 DEF EmitAccepted
    <3>2. /\ FileEvent(fileMap'[n]) \in Event /\ FileEvent(fileMap'[n]).num = n
          /\ FileEvent(fileMap'[n]).status = "TRANSMITTING"
          /\ FileEvent(fileMap'[n]).is = "file"
      BY <1>2, <1>3, <3>1, FileEventIs DEF FileOK
    <3>3. QED BY <3>1, <3>2 DEF Said
  <2>2. CASE fileMap'[n].status = fileMap[n].status
    BY <1>1, <2>2 DEF EmitAccepted, Said
  <2>3. QED BY <2>1, <2>2
<1>5. UiStep(n)
  BY <1>1, <1>2 DEF UiStep, IsData, EmitAccepted
<1>6. StaleInv(n)'
  <2>1. BreakPending(n) => BreakPending(n)'
    BY <1>1, <1>4, PendingKept
  <2>2. QED BY <1>1, <1>2, <1>3, <2>1 DEF TransferInv, StaleInv, IsData, Apart
<1>7. LocalStep(n)
  BY <1>1, <1>2, <1>3, <1>4, <1>5, <1>6 DEF LocalStep, TransferInv
<1>8. QED BY <1>7, LocalKeeps
-----------------------------------------------------------------------------
(* The connection, and the end of the program *)

\* toxcore has no transfer any more, and the GUI thread has yet to hear of it.
LEMMA ConnectionLost ==
    ASSUME IInv, tox' = <<>>, UNCHANGED <<fileMap, refusals>>, NEW n \in Nums, BreakPending(n)'
    PROVE  TransferInv(n)'
<1>1. SentInv(n) /\ n \notin DOMAIN tox'
  BY DEF IInv, TransferInv
<1>2. QED BY <1>1 DEF TransferInv, SentInv, MatchInv, PauseInv, OpenInv, StaleInv, Known

LEMMA NoToxOK == ToxOK(<<>>)
BY DEF ToxOK

\* An event about no file is queued.
LEMMA OtherSaid ==
    ASSUME IInv, NEW e \in Event, e.is # "file", events' = Append(events, e), UNCHANGED fileMap
    PROVE  \A n \in Nums : UiStep(n)
BY DEF UiStep, IsData, About

LEMMA FriendConnectsKeeps ==
    ASSUME IInv, FriendConnects
    PROVE  IInv'
<1>1. StepOn({})
  BY DEF StepOn, FriendConnects, IInv, TypeInv, GuiOK, guiVars, bounds, Said, Same, BreakPending
<1>2. QED BY <1>1, StepKeeps

LEMMA FriendStatusKeeps ==
    ASSUME IInv, FriendStatus
    PROVE  IInv'
<1>1. events' = Append(events, StatusEvent(FALSE)) /\ StatusEvent(FALSE) \in Event
      /\ StatusEvent(FALSE).is = "status"
  BY EventKinds DEF FriendStatus
<1>2. Said({})
  BY <1>1 DEF Said
<1>3. \A m \in Nums : BreakPending(m) => BreakPending(m)'
  BY <1>2, PendingKept DEF FriendStatus, guiVars
<1>4. StepOn({})
  BY <1>2, <1>3 DEF StepOn, FriendStatus, IInv, TypeInv, GuiOK, guiVars, toxVars, Same
<1>5. QED BY <1>4, StepKeeps

LEMMA FriendDisconnectsKeeps ==
    ASSUME IInv, FriendDisconnects
    PROVE  IInv'
<1> DEFINE e == StatusEvent(TRUE)
<1>1. e \in Event /\ e.is = "status"
  BY EventKinds
<1> HIDE DEF e
<1>2. /\ events' = Append(events, e) /\ tox' = <<>> /\ connected' = FALSE
      /\ UNCHANGED <<delivered, fileMap, gui, items, currentFileTransfers, unused, refusals>>
  BY DEF FriendDisconnects, guiVars, e
<1>3. Said(Nums)
  BY <1>1, <1>2 DEF Said
<1>4. \A n \in Nums : UiStep(n)
  BY <1>1, <1>2, OtherSaid
<1>5. \A n \in Nums : BreakPending(n)'
  <2>1. Len(events) + 1 \in DOMAIN events' /\ events'[Len(events) + 1].is = "status"
    BY <1>1, <1>2, Appended DEF IInv, TypeInv
  <2>2. QED BY <2>1 DEF BreakPending
<1>6. \A n \in Nums : TransferInv(n)'
  BY <1>2, <1>5, ConnectionLost
<1>7. /\ MapOK(fileMap') /\ GuiOK' /\ delivered' \subseteq Files
      /\ refusals' \in 0..MaxRefusals /\ refusals <= refusals'
  BY <1>2, Constants DEF IInv, TypeInv, GuiOK
<1>8. StepOn(Nums)
  BY <1>2, <1>3, <1>4, <1>6, <1>7, NoToxOK DEF StepOn
<1>9. QED BY <1>8, StepKeeps

LEMMA CrashKeeps ==
    ASSUME IInv, Crash
    PROVE  IInv'
<1>1. /\ gui'.in = "crashed" /\ tox' = <<>> /\ connected' = FALSE /\ GuiOK'
      /\ UNCHANGED <<delivered, fileMap, events, items, currentFileTransfers, unused, refusals>>
  BY DEF Crash, bounds, GuiOK
<1>2. \A n \in Nums : BreakPending(n)'
  BY <1>1 DEF BreakPending
<1>3. \A n \in Nums : TransferInv(n)'
  BY <1>1, <1>2, ConnectionLost
<1>4. \A n \in Nums : UiStep(n)
  BY <1>1 DEF UiStep, IsData
<1>5. /\ MapOK(fileMap') /\ delivered' \subseteq Files
      /\ refusals' \in 0..MaxRefusals /\ refusals <= refusals'
  BY <1>1, Constants DEF IInv, TypeInv
<1>6. StepOn(Nums)
  BY <1>1, <1>3, <1>4, <1>5, NoToxOK DEF StepOn, Said
<1>7. QED BY <1>6, StepKeeps
-----------------------------------------------------------------------------
(* What the friend does with a transfer *)

LEMMA FileReceiveKeeps ==
    ASSUME IInv, NEW f \in RecvFiles \cup Avatars, NEW n \in RecvNums, FileReceive(f, n)
    PROVE  IInv'
<1>1. /\ n \in Nums /\ f \in Files /\ f \in unused /\ n \notin DOMAIN tox /\ n \notin SendNums
      /\ connected /\ tox' = Put(tox, n, NewTransfer(f)) /\ unused' = unused \ {f}
      /\ UNCHANGED <<connected, delivered, gui, items, currentFileTransfers, refusals>>
  BY Constants DEF FileReceive, Files, guiVars, bounds
<1>2. /\ ToxOK(tox) /\ MapOK(fileMap) /\ refusals \in 0..MaxRefusals /\ refusals \in Nat
      /\ delivered \subseteq Files
  BY Constants DEF IInv, TypeInv
<1>3. /\ ToxOK(tox') /\ n \in DOMAIN tox' /\ tox'[n] = NewTransfer(f)
      /\ \A k \in Nums \ {n} : Same(tox, tox', k)
  BY <1>1, <1>2, NewTransferIs, ToxPut
<1>4. CASE f \in Avatars
  <2> DEFINE e == OfferEvent(f, n)
  <2>1. e \in Event /\ e.is = "offer"
    BY <1>4, EventKinds
  <2> HIDE DEF e
  <2>2. events' = Append(events, e) /\ fileMap' = fileMap
    BY <1>4 DEF FileReceive, e
  <2>3. ~Apart(n)'
    BY <1>1, <1>4 DEF Apart
  <2>4. SentInv(n)'
    BY <1>1, <2>2 DEF IInv, TransferInv, SentInv
  <2>5. TransferInv(n)'
    BY <2>3, <2>4 DEF TransferInv, MatchInv, PauseInv, OpenInv, StaleInv, Known
  <2>6. UiStep(n)
    BY <1>1, <2>1, <2>2, OtherSaid
  <2>7. Said({n})
    BY <1>1, <1>4, <2>1, <2>2 DEF Said
  <2>8. LocalStep(n)
    BY <1>1, <1>2, <1>3, <2>2, <2>5, <2>6, <2>7 DEF LocalStep, Same
  <2>9. QED BY <1>1, <2>8, LocalKeeps
<1>5. CASE f \notin Avatars
  <2> DEFINE file == NewToxFile(f, n, FALSE)
  <2>1. /\ FileOK(n, file) /\ file.file = f /\ file.num = n /\ file.avatar = FALSE
        /\ file.status = "INITIALIZING" /\ file.local = FALSE /\ file.remote = FALSE
        /\ file.sent = 0
    BY <1>1, NewToxFileIs
  <2>2. file.file # NoFile
    BY <1>1, <2>1, Constants
  <2> HIDE DEF file
  <2>3. fileMap' = Put(fileMap, n, file) /\ Emit(file)
    BY <1>5 DEF FileReceive, Store, file
  <2>4. /\ MapOK(fileMap') /\ n \in DOMAIN fileMap' /\ fileMap'[n] = file
        /\ \A k \in Nums \ {n} : Same(fileMap, fileMap', k)
    BY <1>1, <1>2, <2>1, <2>3, MapPut
  <2>5. Said({n}) /\ events' = Append(events, FileEvent(file))
    BY <1>1, <2>1, <2>2, <2>3, EmitSays DEF FileOK
  <2>6. TransferInv(n)'
    <3>1. /\ tox'[n].file = f /\ ~tox'[n].running /\ ~tox'[n].us /\ ~tox'[n].peer
          /\ tox'[n].us \in BOOLEAN /\ tox'[n].peer \in BOOLEAN
      BY <1>1, <1>3, NewTransferIs DEF Transfer
    <3>2. SentInv(n)'
      BY <1>1, <1>2, <2>1, <2>4, Constants DEF SentInv
    <3>3. MatchInv(n)'
      BY <2>1, <2>4, <3>1 DEF MatchInv
    <3>4. PauseInv(n)'
      BY <2>1, <2>4, <3>1 DEF PauseInv
    <3>5. OpenInv(n)' /\ StaleInv(n)'
      BY <1>3, <2>1, <2>4, <3>1 DEF OpenInv, StaleInv
    <3>6. QED BY <3>2, <3>3, <3>4, <3>5 DEF TransferInv
  <2>7. UiStep(n)
    BY <2>1, <2>4, <2>5 DEF UiStep
  <2>8. LocalStep(n)
    BY <1>1, <1>2, <1>3, <2>4, <2>5, <2>6, <2>7 DEF LocalStep
  <2>9. QED BY <1>1, <2>8, LocalKeeps
<1>6. QED BY <1>4, <1>5

LEMMA PeerCancelsKeeps ==
    ASSUME IInv, NEW n \in Nums, PeerCancels(n)
    PROVE  IInv'
<1> DEFINE changed == [fileMap[n] EXCEPT !.status = "CANCELED"]
<1>1. /\ n \in DOMAIN tox /\ tox' = Without(tox, n) /\ FileControl(n, changed)
      /\ delivered' \in {delivered, delivered \cup {OwnAvatar}}
      /\ UNCHANGED <<connected, gui, items, currentFileTransfers, unused, refusals>>
  BY DEF PeerCancels, guiVars, bounds
<1>2. /\ connected /\ ToxOK(tox) /\ MapOK(fileMap) /\ refusals \in 0..MaxRefusals
      /\ refusals <= refusals' /\ delivered \subseteq Files /\ OwnAvatar \in Files
      /\ n \in DOMAIN fileMap => FileOK(n, fileMap[n])
  BY <1>1, TransferFacts, Constants DEF IInv, TypeInv, Files
<1>3. n \in DOMAIN fileMap =>
        /\ changed \in ToxFileType /\ changed.status = "CANCELED"
        /\ changed.num = n \/ changed.file = NoFile
  BY <1>2, StatusSet DEF Complete
<1> HIDE DEF changed
<1>4. IF n \in DOMAIN fileMap THEN Emit(changed) /\ fileMap' = Without(fileMap, n)
                              ELSE UNCHANGED <<fileMap, events>>
  BY <1>1, <1>3 DEF FileControl, RemoveFile
<1>5. /\ ToxOK(tox') /\ MapOK(fileMap') /\ n \notin DOMAIN fileMap'
      /\ \A k \in Nums \ {n} : Same(fileMap, fileMap', k) /\ Same(tox, tox', k)
  BY <1>1, <1>2, <1>4, MapWithout, ToxWithout DEF Same
<1>6. Said({n})
  <2>1. CASE n \in DOMAIN fileMap
    BY <1>3, <1>4, <2>1, EmitSays
  <2>2. CASE n \notin DOMAIN fileMap
    BY <1>4, <2>2 DEF Said
  <2>3. QED BY <2>1, <2>2
<1>7. TransferInv(n)' /\ UiStep(n)
  BY <1>5, Removed
<1>8. LocalStep(n)
  BY <1>1, <1>2, <1>5, <1>6, <1>7 DEF LocalStep
<1>9. QED BY <1>8, LocalKeeps

\* A control of the friend that pauses or resumes the transfer, or accepts it.
LEMMA ControlKeeps ==
    ASSUME IInv, NEW n \in DOMAIN tox, ToxWith(tox', n),
           tox[n].running \/ n \in SendNums,
           tox'[n].running, tox'[n].us = tox[n].us, tox'[n].pos = tox[n].pos,
           NEW file, FileControl(n, file),
           n \in DOMAIN fileMap =>
             /\ FileOK(n, file) /\ file.file = fileMap[n].file
             /\ file.avatar = fileMap[n].avatar /\ file.local = fileMap[n].local
             /\ file.sent = fileMap[n].sent /\ file.open = fileMap[n].open
             /\ file.remote = tox'[n].peer /\ file.status \in {"PAUSED", "TRANSMITTING"},
           UNCHANGED <<connected, delivered, gui, items, currentFileTransfers, unused, refusals>>
    PROVE  IInv'
<1>1. /\ n \in Nums /\ connected /\ ToxOK(tox) /\ MapOK(fileMap) /\ TransferInv(n)
      /\ refusals \in 0..MaxRefusals /\ refusals <= refusals' /\ delivered \subseteq Files
  <2>1. n \in Nums
    BY DEF IInv, TypeInv, ToxOK
  <2>2. QED BY <2>1, TransferFacts, Constants DEF IInv, TypeInv
<1>2. /\ ToxOK(tox') /\ n \in DOMAIN tox' /\ tox'[n].file = tox[n].file
      /\ \A k \in Nums \ {n} : Same(tox, tox', k)
  BY DEF ToxWith
<1>3. CASE n \in DOMAIN fileMap
  <2>1. Emit(file) /\ fileMap' = Put(fileMap, n, file)
    BY <1>3 DEF FileControl
  <2>2. /\ MapOK(fileMap') /\ n \in DOMAIN fileMap' /\ fileMap'[n] = file
        /\ \A k \in Nums \ {n} : Same(fileMap, fileMap', k)
    BY <1>1, <1>3, <2>1, MapPut
  <2>3. /\ Said({n})
        /\ file.file # NoFile => events' = Append(events, FileEvent(file))
    BY <1>1, <1>3, <2>1, EmitSays DEF FileOK
  <2>4. UiStep(n)
    BY <1>3, <2>2, <2>3 DEF UiStep, IsData
  <2>5. Known(n)' => Known(n)
    BY <1>3, <2>2 DEF Known, Apart
  <2>6. SentInv(n)'
    BY <1>1, <1>3, <2>2 DEF TransferInv, SentInv
  <2>7. MatchInv(n)'
    BY <1>1, <1>2, <1>3, <2>2, <2>5 DEF TransferInv, MatchInv
  <2>8. PauseInv(n)'
    BY <1>1, <1>3, <2>2, <2>5 DEF TransferInv, PauseInv
  <2>9. OpenInv(n)'
    BY <1>1, <1>3, <2>2, <2>5, Constants DEF TransferInv, OpenInv
  <2>10. StaleInv(n)'
    BY <1>2 DEF StaleInv
  <2>11. LocalStep(n)
    BY <1>1, <1>2, <2>2, <2>3, <2>4, <2>6, <2>7, <2>8, <2>9, <2>10 DEF LocalStep, TransferInv
  <2>12. QED BY <1>1, <2>11, LocalKeeps
<1>4. CASE n \notin DOMAIN fileMap
  <2>1. UNCHANGED <<fileMap, events>>
    BY <1>4 DEF FileControl
  <2>2. TransferInv(n)' /\ UiStep(n)
    BY <1>4, <2>1, Removed
  <2>3. LocalStep(n)
    BY <1>1, <1>2, <2>1, <2>2 DEF LocalStep, Said, Same
  <2>4. QED BY <1>1, <2>3, LocalKeeps
<1>5. QED BY <1>3, <1>4

LEMMA PeerPausesKeeps ==
    ASSUME IInv, NEW n \in Nums, PeerPauses(n)
    PROVE  IInv'
<1> DEFINE u == [tox EXCEPT ![n].peer = TRUE]
           file == [fileMap[n] EXCEPT !.remote = TRUE, !.status = "PAUSED"]
<1>1. /\ n \in DOMAIN tox /\ tox[n].running /\ tox' = u /\ FileControl(n, file)
      /\ UNCHANGED <<connected, delivered, gui, items, currentFileTransfers, unused, refusals>>
  BY DEF PeerPauses, guiVars
<1>2. /\ ToxWith(u, n) /\ u[n].peer = TRUE /\ u[n].running = tox[n].running
      /\ u[n].us = tox[n].us /\ u[n].pos = tox[n].pos
  BY <1>1, ToxVariants
<1>3. n \in DOMAIN fileMap =>
        /\ FileOK(n, file) /\ file.file = fileMap[n].file
        /\ file.avatar = fileMap[n].avatar /\ file.local = fileMap[n].local
        /\ file.sent = fileMap[n].sent /\ file.open = fileMap[n].open
        /\ file.remote = TRUE /\ file.status = "PAUSED"
  BY TransferFacts DEF FileOK, ToxFileType, Live
<1> HIDE DEF u, file
<1>4. QED BY <1>1, <1>2, <1>3, ControlKeeps

LEMMA PeerResumesKeeps ==
    ASSUME IInv, NEW n \in Nums, PeerResumes(n)
    PROVE  IInv'
<1> DEFINE u == [tox EXCEPT ![n].running = TRUE, ![n].peer = FALSE]
           s == IF fileMap[n].local THEN "PAUSED" ELSE "TRANSMITTING"
           file == [fileMap[n] EXCEPT !.remote = FALSE, !.status = s]
<1>1. /\ n \in DOMAIN tox /\ (tox[n].running \/ n \in SendNums) /\ tox' = u
      /\ FileControl(n, file)
      /\ UNCHANGED <<connected, delivered, gui, items, currentFileTransfers, unused, refusals>>
  BY DEF PeerResumes, guiVars, bounds
<1>2. /\ ToxWith(u, n) /\ u[n].running = TRUE /\ u[n].peer = FALSE
      /\ u[n].us = tox[n].us /\ u[n].pos = tox[n].pos
  BY <1>1, ToxVariants
<1>3. s \in {"PAUSED", "TRANSMITTING"}
  OBVIOUS
<1> HIDE DEF s
<1>4. n \in DOMAIN fileMap =>
        /\ FileOK(n, file) /\ file.file = fileMap[n].file
        /\ file.avatar = fileMap[n].avatar /\ file.local = fileMap[n].local
        /\ file.sent = fileMap[n].sent /\ file.open = fileMap[n].open
        /\ file.remote = FALSE /\ file.status \in {"PAUSED", "TRANSMITTING"}
  BY <1>3, TransferFacts DEF FileOK, ToxFileType, Live
<1> HIDE DEF u, file
<1>5. QED BY <1>1, <1>2, <1>4, ControlKeeps

\* The transfer is over for CoreFile; toxcore has ended it, or still has it.
LEMMA RemovalKeeps ==
    ASSUME IInv, NEW n \in DOMAIN tox,
           ToxOK(tox'), \A k \in Nums \ {n} : Same(tox, tox', k),
           n \notin DOMAIN fileMap', MapOK(fileMap'),
           \A k \in Nums \ {n} : Same(fileMap, fileMap', k), Said({n}),
           delivered \subseteq delivered', delivered' \subseteq Files,
           refusals' \in 0..MaxRefusals, refusals <= refusals',
           UNCHANGED <<connected, gui, items, currentFileTransfers, unused>>
    PROVE  IInv'
<1>1. n \in Nums /\ connected
  <2>1. n \in Nums
    BY DEF IInv, TypeInv, ToxOK
  <2>2. QED BY <2>1, TransferFacts
<1>2. TransferInv(n)' /\ UiStep(n)
  BY Removed
<1>3. LocalStep(n)
  BY <1>1, <1>2 DEF LocalStep
<1>4. QED BY <1>1, <1>3, LocalKeeps

LEMMA FinishKeeps ==
    ASSUME IInv, NEW n \in DOMAIN tox, ~NullFile(n), Finish(n),
           UNCHANGED <<connected, gui, items, currentFileTransfers, unused>>
    PROVE  IInv'
<1> DEFINE changed == [fileMap[n] EXCEPT !.status = "FINISHED"]
<1>1. /\ tox' = Without(tox, n) /\ delivered' = delivered \cup {tox[n].file}
      /\ IF n \in DOMAIN fileMap THEN EmitData(changed) /\ fileMap' = Without(fileMap, n)
                                 ELSE UNCHANGED <<fileMap, events>>
      /\ refusals' = refusals
  BY DEF Finish, RemoveFile
<1>2. n \in Nums
  BY DEF IInv, TypeInv, ToxOK
<1>3. /\ ToxOK(tox) /\ MapOK(fileMap) /\ refusals \in 0..MaxRefusals /\ delivered \subseteq Files
      /\ tox[n].file \in Files /\ TransferInv(n) /\ refusals <= refusals
      /\ n \in DOMAIN fileMap => FileOK(n, fileMap[n])
  BY <1>2, TransferFacts, Constants DEF IInv, TypeInv, Transfer
<1>4. n \in DOMAIN fileMap =>
        /\ changed \in ToxFileType /\ changed.file = fileMap[n].file
        /\ changed.num = n \/ changed.file = NoFile
  BY <1>3, StatusSet DEF Complete
<1> HIDE DEF changed
<1>5. /\ ToxOK(tox') /\ MapOK(fileMap') /\ n \notin DOMAIN fileMap'
      /\ \A k \in Nums \ {n} : Same(fileMap, fileMap', k) /\ Same(tox, tox', k)
  BY <1>1, <1>3, MapWithout, ToxWithout DEF Same
<1>6. Said({n})
  <2>1. CASE n \in DOMAIN fileMap
    <3>1. Apart(n)' => changed.file \in delivered'
      BY <1>1, <1>3, <1>4, <2>1 DEF TransferInv, MatchInv, Known, Apart, NullFile
    <3>2. QED BY <1>1, <1>2, <1>4, <2>1, <3>1, EmitDataSays
  <2>2. CASE n \notin DOMAIN fileMap
    BY <1>1, <2>2 DEF Said
  <2>3. QED BY <2>1, <2>2
<1>7. QED BY <1>1, <1>3, <1>5, <1>6, RemovalKeeps

LEMMA AbortReceiveKeeps ==
    ASSUME IInv, NEW n \in DOMAIN tox, AbortReceive(n),
           UNCHANGED <<connected, gui, items, currentFileTransfers, unused>>
    PROVE  IInv'
<1> DEFINE changed == [fileMap[n] EXCEPT !.status = "CANCELED"]
<1>1. /\ \/ Taken(Without(tox, n))
         \/ RefusedLeaving(IF tox[n].pos = Size THEN Without(tox, n) ELSE Advance(n))
      /\ IF n \in DOMAIN fileMap THEN EmitData(changed) /\ fileMap' = Without(fileMap, n)
                                 ELSE UNCHANGED <<fileMap, events>>
      /\ delivered' = delivered
  BY DEF AbortReceive, RemoveFile
<1>2. n \in Nums
  BY DEF IInv, TypeInv, ToxOK
<1>3. /\ ToxOK(tox) /\ MapOK(fileMap) /\ refusals \in 0..MaxRefusals /\ delivered \subseteq Files
      /\ n \in DOMAIN fileMap => FileOK(n, fileMap[n])
  BY <1>2, TransferFacts DEF IInv, TypeInv
<1>4. n \in DOMAIN fileMap =>
        /\ changed \in ToxFileType /\ changed.status = "CANCELED"
        /\ changed.num = n \/ changed.file = NoFile
  BY <1>3, StatusSet DEF Complete
<1> HIDE DEF changed
<1>5. ToxOK(tox') /\ \A k \in Nums \ {n} : Same(tox, tox', k)
  <2>1. tox' = Without(tox, n) \/ (tox[n].pos # Size /\ tox' = Advance(n))
    BY <1>1 DEF Taken, RefusedLeaving
  <2>2. CASE tox' = Without(tox, n)
    BY <1>3, <2>2, ToxWithout
  <2>3. CASE tox[n].pos # Size /\ tox' = Advance(n)
    <3>1. ToxWith(Advance(n), n)
      BY <2>3, ToxVariants
    <3>2. QED BY <2>3, <3>1 DEF ToxWith
  <2>4. QED BY <2>1, <2>2, <2>3
<1>6. refusals' \in 0..MaxRefusals /\ refusals <= refusals'
  BY <1>1, <1>3, Constants DEF Taken, RefusedLeaving
<1>7. /\ MapOK(fileMap') /\ n \notin DOMAIN fileMap'
      /\ \A k \in Nums \ {n} : Same(fileMap, fileMap', k)
  BY <1>1, <1>3, MapWithout DEF Same
<1>8. Said({n})
  <2>1. CASE n \in DOMAIN fileMap
    BY <1>1, <1>2, <1>4, <2>1, EmitDataSays
  <2>2. CASE n \notin DOMAIN fileMap
    BY <1>1, <2>2 DEF Said
  <2>3. QED BY <2>1, <2>2
<1>9. QED BY <1>1, <1>3, <1>5, <1>6, <1>7, <1>8, RemovalKeeps

\* A chunk is read or written, or refused: only the progress changes.
LEMMA ProgressKeeps ==
    ASSUME IInv, NEW n \in DOMAIN tox, tox[n].running, tox[n].pos # Size, n \in DOMAIN fileMap,
           tox' \in {tox, Advance(n)},
           \/ UNCHANGED <<fileMap, events>>
           \/ /\ fileMap[n].sent + 1 <= Size + refusals'
              /\ n \in SendNums => fileMap[n].sent + 1 <= tox'[n].pos + refusals'
              /\ Store(n, Progressed(n))
              /\ EmitData(Progressed(n)) \/ (UNCHANGED events),
           refusals' \in 0..MaxRefusals, refusals <= refusals',
           UNCHANGED <<connected, delivered, gui, items, currentFileTransfers, unused>>
    PROVE  IInv'
<1> DEFINE c == Progressed(n)
<1>1. n \in Nums
  BY DEF IInv, TypeInv, ToxOK
<1>2. /\ FileOK(n, fileMap[n]) /\ connected /\ tox[n] \in Transfer /\ TransferInv(n)
      /\ ToxOK(tox) /\ MapOK(fileMap) /\ refusals \in 0..MaxRefusals /\ delivered \subseteq Files
  BY <1>1, TransferFacts DEF IInv, TypeInv
<1>3. /\ ToxWith(tox', n) /\ tox'[n].running /\ tox'[n].us = tox[n].us
      /\ tox'[n].peer = tox[n].peer /\ tox'[n].pos \in {tox[n].pos, tox[n].pos + 1}
  <2>1. CASE tox' = tox
    BY <1>1, <1>2, <2>1 DEF ToxWith, Same
  <2>2. CASE tox' = Advance(n)
    BY <2>2, ToxVariants
  <2>3. QED BY <2>1, <2>2
<1>4. fileMap[n].sent + 1 <= Size + refusals' =>
        /\ FileOK(n, c) /\ c.file = fileMap[n].file /\ c.avatar = fileMap[n].avatar
        /\ c.status = fileMap[n].status /\ c.local = fileMap[n].local
        /\ c.remote = fileMap[n].remote /\ c.open = fileMap[n].open
        /\ c.sent = fileMap[n].sent + 1 /\ c.sent \in Nat
  BY <1>2, Constants DEF Progressed, FileOK, ToxFileType
<1> HIDE DEF c
<1>5. /\ MapOK(fileMap') /\ n \in DOMAIN fileMap'
      /\ \A k \in Nums \ {n} : Same(fileMap, fileMap', k)
      /\ fileMap'[n] = fileMap[n] \/ fileMap'[n] = c
  BY <1>1, <1>2, <1>4, MapPut DEF Store, c, Same
<1>6. /\ fileMap'[n].file = fileMap[n].file /\ fileMap'[n].avatar = fileMap[n].avatar
      /\ fileMap'[n].status = fileMap[n].status /\ fileMap'[n].local = fileMap[n].local
      /\ fileMap'[n].remote = fileMap[n].remote /\ fileMap'[n].open = fileMap[n].open
  <2>1. CASE UNCHANGED <<fileMap, events>>
    BY <2>1
  <2>2. CASE fileMap[n].sent + 1 <= Size + refusals' /\ Store(n, c)
    BY <1>4, <2>2, MapPut, <1>1, <1>2 DEF Store
  <2>3. QED BY <2>1, <2>2 DEF c
<1>7. SentInv(n)'
  <2>1. /\ fileMap[n].sent \in Nat /\ tox[n].pos \in Nat /\ refusals \in Nat /\ refusals' \in Nat
        /\ Size \in Nat /\ refusals <= refusals'
    BY <1>2, Constants DEF FileOK, ToxFileType, Transfer
  <2>2. CASE UNCHANGED <<fileMap, events>>
    BY <1>2, <1>3, <2>1, <2>2 DEF TransferInv, SentInv
  <2>3. CASE /\ fileMap[n].sent + 1 <= Size + refusals'
             /\ n \in SendNums => fileMap[n].sent + 1 <= tox'[n].pos + refusals'
             /\ Store(n, c)
    <3>1. fileMap'[n] = c
      BY <1>1, <1>2, <1>4, <2>3, MapPut DEF Store
    <3>2. QED BY <1>4, <2>3, <3>1 DEF SentInv
  <2>4. QED BY <2>2, <2>3 DEF c
<1>8. Known(n)' => Known(n)
  BY <1>6 DEF Known, Apart
<1>9. MatchInv(n)'
  BY <1>2, <1>3, <1>6, <1>8 DEF TransferInv, MatchInv, ToxWith
<1>10. PauseInv(n)'
  <2>1. refusals' = 0 => refusals = 0
    BY <1>2, Constants
  <2>2. QED BY <1>2, <1>3, <1>6, <1>8, <2>1 DEF TransferInv, PauseInv
<1>11. OpenInv(n)'
  BY <1>2, <1>6, <1>8 DEF TransferInv, OpenInv
<1>12. StaleInv(n)'
  BY <1>3 DEF StaleInv, ToxWith
<1>13. Said({n}) /\ UiStep(n)
  <2>1. CASE UNCHANGED events
    BY <1>5, <1>6, <2>1 DEF Said, UiStep, IsData
  <2>2. CASE /\ fileMap[n].sent + 1 <= Size + refusals'
             /\ Store(n, c) /\ EmitData(c)
    <3>1. fileMap'[n] = c
      BY <1>1, <1>2, <1>4, <2>2, MapPut DEF Store
    <3>2. /\ c \in ToxFileType /\ (c.num = n \/ c.file = NoFile)
          /\ c.file = NoFile \/ c.status # "FINISHED"
      BY <1>4, <2>2 DEF FileOK, Live
    <3>3. Said({n})
      <4>1. CASE c.file = NoFile
        BY <2>2, <4>1 DEF EmitData, Emit, Said
      <4>2. CASE c.file # NoFile
        BY <1>1, <2>2, <3>2, <4>2, EmitDataSays
      <4>3. QED BY <4>1, <4>2
    <3>4. c.file = NoFile \/ c.avatar \/ events' = Append(events, FileEvent(c))
      BY <2>2 DEF EmitData, Emit
    <3>5. UiStep(n)
      BY <1>6, <3>1, <3>4 DEF UiStep, IsData
    <3>6. QED BY <3>3, <3>5
  <2>3. QED BY <2>1, <2>2 DEF c
<1>14. LocalStep(n)
  BY <1>2, <1>3, <1>5, <1>7, <1>9, <1>10, <1>11, <1>12, <1>13 DEF LocalStep, TransferInv, ToxWith
<1>15. QED BY <1>1, <1>14, LocalKeeps

LEMMA FileRecvChunkKeeps ==
    ASSUME IInv, NEW n \in Nums, FileRecvChunk(n)
    PROVE  IInv'
<1>1. /\ n \in RecvNums /\ n \in DOMAIN tox /\ tox[n].running /\ ~NullFile(n)
      /\ UNCHANGED <<connected, gui, items, currentFileTransfers, unused>>
  BY DEF FileRecvChunk, Flowing, guiVars
<1>2. CASE AbortReceive(n)
  BY <1>1, <1>2, AbortReceiveKeeps
<1>3. CASE Finish(n)
  BY <1>1, <1>3, FinishKeeps
<1>4. CASE /\ n \in DOMAIN fileMap /\ fileMap[n].sent = tox[n].pos /\ tox[n].pos # Size
           /\ Taken(Advance(n)) /\ Store(n, Progressed(n)) /\ EmitData(Progressed(n))
           /\ UNCHANGED delivered
  <2>1. /\ tox[n] \in Transfer /\ refusals \in 0..MaxRefusals /\ refusals' = refusals
        /\ tox' = Advance(n) /\ refusals \in Nat /\ Size \in Nat
    BY <1>1, <1>4, TransferFacts, Constants DEF Taken
  <2>2. fileMap[n].sent + 1 <= Size + refusals' /\ refusals <= refusals'
    BY <1>4, <2>1 DEF Transfer
  <2>3. n \notin SendNums
    BY <1>1, Constants
  <2>4. QED BY <1>1, <1>4, <2>1, <2>2, <2>3, ProgressKeeps
<1>5. QED BY <1>2, <1>3, <1>4 DEF FileRecvChunk

LEMMA FileDataKeeps ==
    ASSUME IInv, NEW n \in Nums, FileData(n)
    PROVE  IInv'
<1>1. /\ n \in SendNums /\ n \in DOMAIN tox /\ tox[n].running /\ ~NullFile(n)
      /\ UNCHANGED <<connected, gui, items, currentFileTransfers, unused>>
  BY DEF FileData, Flowing, guiVars
<1>2. CASE Finish(n)
  BY <1>1, <1>2, FinishKeeps
<1>3. CASE tox[n].pos # Size
  <2>1. n \in DOMAIN fileMap /\ delivered' = delivered
    BY <1>3 DEF FileData
  <2>2. /\ tox[n] \in Transfer /\ FileOK(n, fileMap[n]) /\ TransferInv(n)
        /\ refusals \in 0..MaxRefusals /\ MaxRefusals \in Nat /\ Size \in Nat
    BY <1>1, <2>1, TransferFacts, Constants
  <2>3. /\ fileMap[n].sent \in Nat /\ tox[n].pos \in Nat /\ refusals \in Nat
        /\ tox[n].pos + 1 <= Size /\ fileMap[n].sent <= tox[n].pos + refusals
    BY <1>1, <1>3, <2>1, <2>2 DEF FileOK, ToxFileType, Transfer, TransferInv, SentInv
  <2>4. CASE Taken(Advance(n))
    <3>1. tox' = Advance(n) /\ refusals' = refusals /\ Advance(n)[n].pos = tox[n].pos + 1
      BY <1>1, <1>3, <2>4, ToxVariants DEF Taken
    <3>2. /\ fileMap[n].sent + 1 <= tox'[n].pos + refusals'
          /\ fileMap[n].sent + 1 <= Size + refusals' /\ refusals <= refusals'
      BY <2>3, <2>2, <3>1
    <3>3. \/ UNCHANGED <<fileMap, events>>
          \/ Store(n, Progressed(n)) /\ (EmitData(Progressed(n)) \/ UNCHANGED events)
      <4>1. CASE fileMap[n].avatar
        BY <1>3, <4>1 DEF FileData
      <4>2. CASE ~fileMap[n].avatar
        <5>1. Progressed(n).avatar = fileMap[n].avatar
          BY <2>2 DEF Progressed, FileOK, ToxFileType
        <5>2. QED BY <1>3, <4>2, <5>1 DEF FileData, EmitData
      <4>3. QED BY <4>1, <4>2
    <3>4. QED BY <1>1, <1>3, <2>1, <2>2, <3>1, <3>2, <3>3, ProgressKeeps
  <2>5. CASE Refused
    <3>1. tox' = tox /\ refusals' = refusals + 1 /\ refusals' \in 0..MaxRefusals
      BY <2>2, <2>5 DEF Refused, RefusedLeaving
    <3>2. /\ fileMap[n].sent + 1 <= tox'[n].pos + refusals'
          /\ fileMap[n].sent + 1 <= Size + refusals' /\ refusals <= refusals'
      BY <2>3, <2>2, <3>1
    <3>3. \/ UNCHANGED <<fileMap, events>>
          \/ Store(n, Progressed(n)) /\ (EmitData(Progressed(n)) \/ UNCHANGED events)
      <4>1. CASE fileMap[n].avatar
        BY <1>3, <4>1 DEF FileData
      <4>2. CASE ~fileMap[n].avatar
        <5>1. Progressed(n).avatar = fileMap[n].avatar
          BY <2>2 DEF Progressed, FileOK, ToxFileType
        <5>2. QED BY <1>3, <4>2, <5>1 DEF FileData, EmitData
      <4>3. QED BY <4>1, <4>2
    <3>4. QED BY <1>1, <1>3, <2>1, <2>2, <3>1, <3>2, <3>3, ProgressKeeps
  <2>6. QED BY <1>3, <2>4, <2>5 DEF FileData
<1>4. QED BY <1>2, <1>3 DEF FileData

LEMMA FileReadFailsKeeps ==
    ASSUME IInv, NEW n \in Nums, FileReadFails(n)
    PROVE  IInv'
<1> DEFINE changed == [fileMap[n] EXCEPT !.status = "CANCELED"]
<1>1. /\ n \in DOMAIN tox /\ n \in DOMAIN fileMap /\ Emit(changed) /\ fileMap' = Without(fileMap, n)
      /\ UNCHANGED <<tox, delivered, refusals>>
      /\ UNCHANGED <<connected, gui, items, currentFileTransfers, unused>>
  BY DEF FileReadFails, Flowing, RemoveFile, toxVars, guiVars, bounds
<1>2. /\ FileOK(n, fileMap[n]) /\ ToxOK(tox) /\ MapOK(fileMap) /\ delivered \subseteq Files
      /\ refusals \in 0..MaxRefusals /\ refusals <= refusals
  BY <1>1, TransferFacts, Constants DEF IInv, TypeInv
<1>3. /\ changed \in ToxFileType /\ changed.status = "CANCELED"
      /\ changed.num = n \/ changed.file = NoFile
  BY <1>2, StatusSet DEF Complete
<1> HIDE DEF changed
<1>4. /\ MapOK(fileMap') /\ n \notin DOMAIN fileMap'
      /\ \A k \in Nums \ {n} : Same(fileMap, fileMap', k) /\ Same(tox, tox', k)
  BY <1>1, <1>2, MapWithout DEF Same
<1>5. Said({n})
  BY <1>1, <1>3, EmitSays
<1>6. QED BY <1>1, <1>2, <1>4, <1>5, RemovalKeeps
-----------------------------------------------------------------------------
(* The handlers of the GUI thread that change fileMap without the lock *)

LEMMA BreakFileKeeps ==
    ASSUME IInv, NEW n \in Nums, BreakFile(n)
    PROVE  IInv'
<1> DEFINE found == IF n \in DOMAIN fileMap THEN fileMap[n] ELSE DefaultToxFile
           file == [found EXCEPT !.status = gui.status]
<1>1. /\ gui.in = "status" /\ n \in gui.keys
      /\ fileMap' = Without(Put(fileMap, n, file), file.num) /\ Emit(file)
      /\ gui' = [gui EXCEPT !.keys = gui.keys \ {n}]
      /\ UNCHANGED <<tox, connected, delivered, items, currentFileTransfers, unused, refusals>>
  BY DEF BreakFile, toxVars, bounds
<1>2. /\ ToxOK(tox) /\ MapOK(fileMap) /\ refusals \in 0..MaxRefusals /\ refusals \in Nat
      /\ delivered \subseteq Files /\ refusals <= refusals /\ SentInv(n)
      /\ connected \in BOOLEAN /\ (~connected => tox = <<>>)
  BY TransferFacts, Constants DEF IInv, TypeInv, TransferInv
<1>3. /\ gui \in [in : {"status"}, keys : SUBSET Nums, status : {"BROKEN", "TRANSMITTING"}]
      /\ GuiOK' /\ gui'.in = "status" /\ gui'.keys = gui.keys \ {n}
  <2>1. gui \in [in : {"status"}, keys : SUBSET Nums, status : {"BROKEN", "TRANSMITTING"}]
    BY <1>1 DEF IInv, TypeInv, GuiOK
  <2>2. /\ gui' \in [in : {"status"}, keys : SUBSET Nums, status : {"BROKEN", "TRANSMITTING"}]
        /\ gui'.keys = gui.keys \ {n}
    BY <1>1, <2>1
  <2>3. QED BY <2>1, <2>2 DEF GuiOK
<1>4. /\ found \in ToxFileType /\ (found.num = n \/ found.file = NoFile)
      /\ n \notin DOMAIN fileMap => found.file = NoFile /\ found.sent = 0
  <2>1. CASE n \in DOMAIN fileMap
    BY <1>2, <2>1 DEF MapOK, FileOK
  <2>2. CASE n \notin DOMAIN fileMap
    <3>1. found = NewToxFile(NoFile, Zero, FALSE)
      BY <2>2 DEF DefaultToxFile
    <3> HIDE DEF found
    <3>2. FileOK(Zero, found) /\ found.file = NoFile /\ found.sent = 0
      BY <3>1, NewToxFileIs, Constants
    <3>3. QED BY <2>2, <3>2 DEF FileOK
  <2>3. QED BY <2>1, <2>2
<1>5. found.sent <= Size + refusals /\ (n \in DOMAIN tox /\ n \in SendNums => found.sent <= tox[n].pos + refusals)
  <2>1. Size \in Nat /\ (n \in DOMAIN tox => tox[n].pos \in Nat)
    BY <1>2, Constants DEF ToxOK, Transfer
  <2>2. QED BY <1>2, <1>4, <2>1 DEF SentInv
<1> HIDE DEF found
<1>6. /\ file \in ToxFileType /\ file.num \in Nums /\ (file.num = n \/ file.file = NoFile)
      /\ file.sent = found.sent /\ file.status \in {"BROKEN", "TRANSMITTING"}
  BY <1>3, <1>4 DEF ToxFileType, Live, Complete
<1> HIDE DEF file
<1> PICK k0 \in Nums : k0 = file.num
  BY <1>6
<1> DEFINE m == Put(fileMap, n, file)
           S == {n, k0}
<1>7. /\ DOMAIN m = DOMAIN fileMap \cup {n} /\ m[n] = file
      /\ \A k \in DOMAIN fileMap \ {n} : m[k] = fileMap[k]
  BY DEF Put
<1>8. /\ DOMAIN fileMap' = DOMAIN m \ {k0} /\ \A k \in DOMAIN fileMap' : fileMap'[k] = m[k]
  BY <1>1 DEF Without
<1> HIDE DEF m
<1>9. /\ n \in DOMAIN fileMap' => fileMap'[n] = file /\ file.file = NoFile
      /\ k0 \notin DOMAIN fileMap'
      /\ \A k \in Nums \ S : Same(fileMap, fileMap', k)
  BY <1>6, <1>7, <1>8 DEF Same
<1>10. MapOK(fileMap')
  BY <1>2, <1>6, <1>7, <1>8, <1>9 DEF MapOK, FileOK
<1>11. Said(S)
  <2>1. CASE file.file = NoFile
    BY <1>1, <2>1 DEF Emit, Said
  <2>2. CASE file.file # NoFile
    <3>1. Said({n})
      BY <1>1, <1>6, EmitSays
    <3>2. QED BY <3>1 DEF Said
  <2>3. QED BY <2>1, <2>2
<1>12. \A k \in Nums \ S : BreakPending(k) => BreakPending(k)'
  <2>1. \A i \in DOMAIN events : i \in DOMAIN events' /\ events'[i] = events[i]
    BY <1>11, Appended DEF Said, IInv, TypeInv
  <2>2. QED BY <1>1, <1>3, <2>1 DEF BreakPending
<1>13. TransferInv(n)' /\ UiStep(n)
  <2>1. CASE n \notin DOMAIN fileMap'
    BY <2>1, Removed
  <2>2. CASE n \in DOMAIN fileMap'
    <3>1. fileMap'[n].file = NoFile /\ fileMap'[n].sent = found.sent
      BY <1>6, <1>9, <2>2
    <3>2. SentInv(n)'
      BY <1>1, <1>5, <3>1 DEF SentInv
    <3>3. ~Known(n)' /\ ~IsData(n)'
      BY <3>1 DEF Known, IsData
    <3>4. QED BY <3>2, <3>3 DEF TransferInv, MatchInv, PauseInv, OpenInv, StaleInv, UiStep
  <2>3. QED BY <2>1, <2>2
<1>14. TransferInv(k0)' /\ UiStep(k0)
  BY <1>9, Removed
<1>15. \A k \in S : TransferInv(k)' /\ UiStep(k)
  BY <1>13, <1>14
<1>16. StepOn(S) /\ S \subseteq Nums
  <2>1. \A k \in Nums : Same(tox, tox', k)
    BY <1>1 DEF Same
  <2> HIDE DEF S
  <2>2. StepOn(S)
    BY <1>1, <1>2, <1>3, <1>9, <1>10, <1>11, <1>12, <1>15, <2>1 DEF StepOn
  <2>3. QED BY <1>6, <2>2 DEF S
<1> HIDE DEF S
<1>17. QED BY <1>16, StepKeeps

LEMMA SendAvatarToKeeps ==
    ASSUME IInv, SendAvatarTo
    PROVE  IInv'
<1>1. /\ gui.in = "status" /\ gui.keys = {} /\ gui' = [in |-> "events"]
      /\ unused' \subseteq unused
      /\ UNCHANGED <<connected, delivered, events, items, currentFileTransfers>>
  BY DEF SendAvatarTo
<1>2. /\ ToxOK(tox) /\ MapOK(fileMap) /\ refusals \in 0..MaxRefusals /\ refusals \in Nat
      /\ delivered \subseteq Files /\ refusals <= refusals
      /\ connected \in BOOLEAN /\ (~connected => tox = <<>>)
  BY Constants DEF IInv, TypeInv
<1>3. GuiOK' /\ gui'.in = "events"
  BY <1>1 DEF GuiOK
<1>4. \A m \in Nums : BreakPending(m) => BreakPending(m)'
  BY <1>1 DEF BreakPending
<1>5. CASE UNCHANGED <<tox, refusals, fileMap>>
  <2>1. \A m \in Nums : Same(fileMap, fileMap', m) /\ Same(tox, tox', m)
    BY <1>5 DEF Same
  <2>2. StepOn({})
    BY <1>1, <1>2, <1>3, <1>4, <1>5, <2>1 DEF StepOn, Said
  <2>3. QED BY <2>2, StepKeeps
<1>6. ASSUME NEW n \in SendNums \ DOMAIN tox, connected,
             Taken(Put(tox, n, NewTransfer(OwnAvatar))), Store(n, NewToxFile(OwnAvatar, n, TRUE))
      PROVE  IInv'
  <2> DEFINE file == NewToxFile(OwnAvatar, n, TRUE)
  <2>1. n \in Nums /\ OwnAvatar \in Files
    BY Constants DEF Files
  <2>2. /\ FileOK(n, file) /\ file.file = OwnAvatar /\ file.avatar = TRUE
        /\ file.status = "INITIALIZING" /\ file.local = FALSE /\ file.remote = FALSE
        /\ file.sent = 0
    BY <2>1, NewToxFileIs
  <2>3. fileMap' = Put(fileMap, n, file) /\ tox' = Put(tox, n, NewTransfer(OwnAvatar)) /\ refusals' = refusals
    BY <1>6 DEF Store, Taken
  <2> HIDE DEF file
  <2>4. /\ MapOK(fileMap') /\ n \in DOMAIN fileMap' /\ fileMap'[n] = file
        /\ \A k \in Nums \ {n} : Same(fileMap, fileMap', k)
    BY <1>2, <2>1, <2>2, <2>3, MapPut
  <2>5. /\ ToxOK(tox') /\ n \in DOMAIN tox' /\ tox'[n] = NewTransfer(OwnAvatar)
        /\ \A k \in Nums \ {n} : Same(tox, tox', k)
    BY <1>2, <2>1, <2>3, NewTransferIs, ToxPut
  <2>6. /\ tox'[n].file = OwnAvatar /\ tox'[n].us = FALSE /\ tox'[n].peer = FALSE
        /\ tox'[n].pos = 0
    BY <2>1, <2>5, NewTransferIs DEF Transfer
  <2>7. TransferInv(n)'
    <3>1. SentInv(n)'
      BY <1>2, <2>2, <2>3, <2>4, <2>6, Constants DEF SentInv
    <3>2. MatchInv(n)'
      BY <2>2, <2>4, <2>6 DEF MatchInv
    <3>3. PauseInv(n)'
      BY <2>2, <2>4, <2>6 DEF PauseInv
    <3>4. OpenInv(n)' /\ StaleInv(n)'
      BY <1>6, <2>5, Constants DEF OpenInv, StaleInv
    <3>5. QED BY <3>1, <3>2, <3>3, <3>4 DEF TransferInv
  <2>8. UiStep(n)
    BY <2>2, <2>4 DEF UiStep, IsData
  <2>9. StepOn({n})
    BY <1>1, <1>2, <1>3, <1>4, <1>6, <2>3, <2>4, <2>5, <2>7, <2>8 DEF StepOn, Said
  <2>10. QED BY <2>1, <2>9, StepKeeps
<1>7. QED BY <1>5, <1>6 DEF SendAvatarTo

LEMMA GetAvatarIdKeeps ==
    ASSUME IInv, GetAvatarId
    PROVE  IInv'
<1>1. /\ gui.in = "offer"
      /\ gui' = IF gui.num \in DOMAIN tox THEN [gui EXCEPT !.file = tox[gui.num].file]
                                          ELSE [in |-> "events"]
      /\ UNCHANGED <<tox, connected, delivered, fileMap, events, items, currentFileTransfers,
                     unused, refusals>>
  BY DEF GetAvatarId, toxVars, bounds
<1>2. GuiOK'
  <2>1. gui \in [in : {"offer"}, num : RecvNums, file : Files \cup {NoFile}]
    BY <1>1 DEF IInv, TypeInv, GuiOK
  <2>2. CASE gui.num \in DOMAIN tox
    <3>1. tox[gui.num].file \in Files
      BY <2>2 DEF IInv, TypeInv, ToxOK, Transfer
    <3>2. gui' \in [in : {"offer"}, num : RecvNums, file : Files \cup {NoFile}]
      BY <1>1, <2>1, <2>2, <3>1
    <3>3. QED BY <3>2 DEF GuiOK
  <2>3. CASE gui.num \notin DOMAIN tox
    BY <1>1, <2>3 DEF GuiOK
  <2>4. QED BY <2>2, <2>3
<1>3. \A m \in Nums : BreakPending(m) => BreakPending(m)'
  BY <1>1 DEF BreakPending
<1>4. /\ ToxOK(tox) /\ MapOK(fileMap) /\ refusals \in 0..MaxRefusals
      /\ delivered \subseteq Files /\ refusals <= refusals
      /\ connected \in BOOLEAN /\ (~connected => tox = <<>>)
  BY Constants DEF IInv, TypeInv
<1>5. \A m \in Nums : Same(fileMap, fileMap', m) /\ Same(tox, tox', m)
  BY <1>1 DEF Same
<1>6. StepOn({})
  BY <1>1, <1>2, <1>3, <1>4, <1>5 DEF StepOn, Said
<1>7. QED BY <1>6, StepKeeps

LEMMA AddAvatarKeeps ==
    ASSUME IInv, AddAvatar
    PROVE  IInv'
<1>0. gui.in = "offer" /\ gui.num \in RecvNums /\ gui.file \in Files \cup {NoFile}
  BY DEF AddAvatar, IInv, TypeInv, GuiOK
<1> PICK n \in RecvNums : n = gui.num
  BY <1>0
<1> DEFINE file == NewToxFile(gui.file, n, TRUE)
<1>1. /\ gui.in = "offer" /\ fileMap' = Put(fileMap, n, file) /\ gui' = [in |-> "events"]
      /\ UNCHANGED <<tox, connected, delivered, events, items, currentFileTransfers,
                     unused, refusals>>
  BY DEF AddAvatar, Store, toxVars, bounds
<1>2. /\ ToxOK(tox) /\ MapOK(fileMap) /\ refusals \in 0..MaxRefusals /\ refusals \in Nat
      /\ delivered \subseteq Files /\ refusals <= refusals
      /\ connected \in BOOLEAN /\ (~connected => tox = <<>>)
  BY Constants DEF IInv, TypeInv
<1>3. n \in Nums /\ n \notin SendNums
  BY Constants
<1>4. ~Apart(n)'
  BY <1>1, <1>3 DEF Apart, IInv, OfferInv
<1>5. FileOK(n, file) /\ file.avatar = TRUE /\ file.sent = 0
  BY <1>0, <1>3, NewToxFileIs
<1> HIDE DEF file
<1>6. /\ MapOK(fileMap') /\ n \in DOMAIN fileMap' /\ fileMap'[n] = file
      /\ \A k \in Nums \ {n} : Same(fileMap, fileMap', k)
  BY <1>1, <1>2, <1>3, <1>5, MapPut
<1>7. SentInv(n)'
  BY <1>1, <1>2, <1>3, <1>5, <1>6, Constants DEF SentInv
<1>8. TransferInv(n)' /\ UiStep(n)
  BY <1>4, <1>5, <1>6, <1>7
     DEF TransferInv, MatchInv, PauseInv, OpenInv, StaleInv, Known, IsData, UiStep
<1>9. GuiOK' /\ gui'.in = "events"
  BY <1>1 DEF GuiOK
<1>10. \A m \in Nums : BreakPending(m) => BreakPending(m)'
  BY <1>1 DEF BreakPending
<1>11. \A m \in Nums : Same(tox, tox', m)
  BY <1>1 DEF Same
<1>12. StepOn({n})
  BY <1>1, <1>2, <1>6, <1>8, <1>9, <1>10, <1>11 DEF StepOn, Said
<1>13. QED BY <1>3, <1>12, StepKeeps
-----------------------------------------------------------------------------
(* The events of the queue *)

\* An event that is not about a file is taken.
LEMMA PopKeeps ==
    ASSUME IInv, events # <<>>, events' = Tail(events), Head(events).is # "file",
           UNCHANGED <<connected, delivered, fileMap, items, currentFileTransfers, unused>>,
           ToxOK(tox'), ~connected => tox' = <<>>, GuiOK', refusals' \in 0..MaxRefusals,
           gui'.in = "offer" => ~(Avatars \subseteq unused),
           \A n \in Nums : TransferInv(n)'
    PROVE  IInv'
<1>1. events \in Seq(Event)
  BY DEF IInv, TypeInv
<1>2. /\ events' \in Seq(Event) /\ DOMAIN events = 1..Len(events) /\ Len(events) \in Nat
      /\ \A i \in DOMAIN events' : i + 1 \in DOMAIN events /\ events'[i] = events[i + 1]
  BY <1>1, Popped
<1>3. TypeInv'
  BY <1>2 DEF IInv, TypeInv
<1>4. OfferInv'
  BY <1>2 DEF IInv, OfferInv
<1>5. FinishedInv'
  <2> SUFFICES ASSUME NEW i \in DOMAIN events', events'[i].is = "file",
                      Apart(events[i].num)', events'[i].status = "FINISHED"
               PROVE  events'[i].file \in delivered
    BY DEF FinishedInv
  <2>1. i + 1 \in DOMAIN events /\ events'[i] = events[i + 1]
    BY <1>2
  <2>2. Apart(events[i + 1].num)
    BY <2>1 DEF Apart
  <2>3. QED BY <2>1, <2>2 DEF IInv, FinishedInv
<1>6. FinishedWasDelivered'
  BY DEF IInv, FinishedWasDelivered, Apart
<1>7. ASSUME NEW n \in Nums, IsData(n)'
      PROVE  Follows(events', currentFileTransfers, items, n, fileMap[n])
  <2>1. Follows(events, currentFileTransfers, items, n, fileMap[n])
    BY <1>7 DEF IInv, UiInv, IsData
  <2>2. ~About(Head(events), n)
    BY DEF About
  <2>3. QED BY <1>1, <2>1, <2>2, FollowsPopOther
<1>8. \A n \in Nums : UiInv(n)'
  BY <1>7 DEF UiInv
<1>9. QED BY <1>3, <1>4, <1>5, <1>6, <1>8 DEF IInv

\* A file event, or an offer, is taken: what is still to come of a lost connection stays.
LEMMA PendingAfterPop ==
    ASSUME IInv, events # <<>>, Head(events).is # "status", gui.in = "events",
           \A i \in 1..(Len(events) - 1) : i \in DOMAIN events' /\ events'[i] = Tail(events)[i],
           NEW n, BreakPending(n)
    PROVE  BreakPending(n)'
<1>1. events \in Seq(Event)
  BY DEF IInv, TypeInv
<1>2. PICK i \in DOMAIN events : events[i].is = "status"
  BY DEF BreakPending
<1>3. i - 1 \in 1..(Len(events) - 1) /\ Tail(events)[i - 1] = events[i]
  BY <1>1, <1>2, Popped
<1>4. i - 1 \in DOMAIN events' /\ events'[i - 1].is = "status"
  BY <1>2, <1>3
<1>5. QED BY <1>4 DEF BreakPending

LEMMA ConnectionStatusChangedKeeps ==
    ASSUME IInv, ConnectionStatusChanged
    PROVE  IInv'
<1>1. /\ events # <<>> /\ events' = Tail(events) /\ Head(events).is = "status"
      /\ gui.in = "events"
      /\ gui' = [in |-> "status", keys |-> DOMAIN fileMap,
                 status |-> IF Head(events).offline THEN "BROKEN" ELSE "TRANSMITTING"]
      /\ UNCHANGED <<connected, delivered, fileMap, items, currentFileTransfers, unused,
                     tox, refusals>>
  BY DEF ConnectionStatusChanged, toxVars, bounds
<1>2. /\ ToxOK(tox) /\ (~connected => tox = <<>>) /\ refusals \in 0..MaxRefusals
      /\ refusals <= refusals /\ DOMAIN fileMap \subseteq Nums
  BY Constants DEF IInv, TypeInv, MapOK
<1>3. GuiOK' /\ gui'.in = "status" /\ gui'.keys = DOMAIN fileMap
  BY <1>1, <1>2 DEF GuiOK
<1>4. \A n \in Nums : TransferInv(n)'
  <2>1. ASSUME NEW n \in Nums PROVE TransferInv(n)'
    <3>1. Same(fileMap, fileMap', n) /\ Same(tox, tox', n)
      BY <1>1 DEF Same
    <3>2. n \in DOMAIN fileMap => BreakPending(n)'
      BY <1>3 DEF BreakPending
    <3>3. QED BY <1>1, <1>2, <3>1, <3>2, TransferKept
  <2>2. QED BY <2>1
<1>5. QED BY <1>1, <1>2, <1>3, <1>4, PopKeeps

LEMMA AvatarOfferReceivedKeeps ==
    ASSUME IInv, AvatarOfferReceived
    PROVE  IInv'
<1> DEFINE e == Head(events)
<1>1. events # <<>> /\ events' = Tail(events) /\ e.is = "offer" /\ gui.in = "events"
  BY DEF AvatarOfferReceived
<1>2. /\ events \in Seq(Event) /\ ToxOK(tox) /\ (~connected => tox = <<>>)
      /\ refusals \in 0..MaxRefusals /\ GuiOK
  BY DEF IInv, TypeInv
<1>3. e.num \in RecvNums /\ ~(Avatars \subseteq unused)
  <2>1. e \in Event /\ e = events[1] /\ 1 \in DOMAIN events
    BY <1>1, <1>2, Popped
  <2>2. QED BY <1>1, <2>1, EventKinds DEF IInv, OfferInv
<1> PICK n \in RecvNums : n = e.num
  BY <1>3
<1> HIDE DEF e
<1>4. /\ \/ /\ IF n \in DOMAIN tox THEN Taken(Without(tox, n)) \/ Refused
                                   ELSE UNCHANGED <<tox, refusals>>
            /\ UNCHANGED gui
         \/ /\ ResumeAllowed(n) /\ Taken(Resumed(n))
            /\ gui' = [in |-> "offer", num |-> n, file |-> NoFile]
         \/ /\ IF ResumeAllowed(n) THEN Refused ELSE UNCHANGED <<tox, refusals>>
            /\ UNCHANGED gui
      /\ UNCHANGED <<connected, delivered, fileMap, items, currentFileTransfers, unused>>
  BY DEF AvatarOfferReceived, e
<1>5. n \in Nums /\ n \notin SendNums
  BY Constants
<1>6. GuiOK' /\ (gui'.in = "offer" => ~(Avatars \subseteq unused))
  BY <1>2, <1>3, <1>4 DEF GuiOK
<1>7. /\ tox' \in {tox, Without(tox, n), Resumed(n)} /\ (n \notin DOMAIN tox => tox' = tox)
      /\ refusals' \in 0..MaxRefusals /\ refusals <= refusals'
  BY <1>2, <1>4, Constants DEF Taken, Refused, RefusedLeaving, ResumeAllowed
<1>8. ToxOK(tox') /\ \A k \in Nums \ {n} : Same(tox, tox', k)
  <2>1. CASE tox' = tox
    BY <1>2, <2>1 DEF Same
  <2>2. CASE tox' = Without(tox, n)
    BY <1>2, <2>2, ToxWithout
  <2>3. CASE n \in DOMAIN tox /\ tox' = Resumed(n)
    <3>1. ToxWith(Resumed(n), n)
      BY <2>3, ToxVariants
    <3>2. QED BY <2>3, <3>1 DEF ToxWith
  <2>4. QED BY <1>7, <2>1, <2>2, <2>3
<1>9. ~connected => tox' = <<>>
  BY <1>2, <1>7
<1>10. ASSUME NEW k \in Nums PROVE TransferInv(k)'
  <2>1. CASE k = n
    <3>1. ~Apart(k)'
      BY <1>3, <1>4, <1>5, <2>1 DEF Apart
    <3>2. k \in DOMAIN fileMap => fileMap[k].sent <= Size + refusals'
      <4>1. k \in DOMAIN fileMap => fileMap[k].sent <= Size + refusals /\ fileMap[k].sent \in Nat
        BY TransferFacts DEF TransferInv, SentInv, FileOK, ToxFileType
      <4>2. refusals \in Nat /\ refusals' \in Nat /\ Size \in Nat
        BY <1>2, <1>7, Constants
      <4>3. QED BY <1>7, <4>1, <4>2
    <3>3. SentInv(k)'
      BY <1>4, <1>5, <2>1, <3>2 DEF SentInv
    <3>4. QED BY <3>1, <3>3 DEF TransferInv, MatchInv, PauseInv, OpenInv, StaleInv, Known
  <2>2. CASE k # n
    <3>1. Same(fileMap, fileMap', k) /\ Same(tox, tox', k)
      BY <1>4, <1>8, <2>2 DEF Same
    <3>2. \A i \in 1..(Len(events) - 1) : i \in DOMAIN events' /\ events'[i] = Tail(events)[i]
      BY <1>1, <1>2, Popped
    <3>3. BreakPending(k) => BreakPending(k)'
      BY <1>1, <3>2, PendingAfterPop DEF e
    <3>4. QED BY <1>4, <1>7, <3>1, <3>3, TransferKept
  <2>3. QED BY <2>1, <2>2
<1>11. e.is # "file"
  BY <1>1
<1>12. QED BY <1>1, <1>4, <1>6, <1>7, <1>8, <1>9, <1>10, <1>11, PopKeeps DEF e

ItemOf(e) == [file |-> e.file, num |-> e.num, status |-> e.status, local |-> e.local]

\* The chat log after an event: other items stay, and the one of the event shows it.
LEMMA ChatLogUpdated ==
    ASSUME LogOK(items, currentFileTransfers), NEW e \in Event, e.is = "file", UpdateChatLog(e)
    PROVE  /\ LogOK(items', currentFileTransfers')
           /\ \A m \in Nums \ {e.num} : m \in DOMAIN currentFileTransfers =>
                /\ m \in DOMAIN currentFileTransfers'
                /\ items'[currentFileTransfers'[m]] = items[currentFileTransfers[m]]
           /\ /\ e.num \in DOMAIN currentFileTransfers \/ e.status = "INITIALIZING"
              /\ e.status \notin Complete
              => /\ e.num \in DOMAIN currentFileTransfers'
                 /\ items'[currentFileTransfers'[e.num]] = ItemOf(e)
           /\ \A i \in DOMAIN items' :
                items'[i] = ItemOf(e) \/ (i \in DOMAIN items /\ items'[i] = items[i])
<1> DEFINE cft == currentFileTransfers
           n == e.num
           known == n \in DOMAIN cft
           idx == IF known THEN cft[n] ELSE Len(items) + 1
<1>1. /\ n \in Nums /\ ItemOf(e) \in ItemType /\ ItemOf(e).num = n
      /\ ItemOf(e).status = e.status /\ e.status \in Live \cup Complete
  BY EventKinds DEF ItemOf, ItemType
<1>2. /\ items \in Seq(ItemType) /\ DOMAIN items = 1..Len(items) /\ Len(items) \in Nat
      /\ DOMAIN cft \subseteq Nums
      /\ \A m \in DOMAIN cft :
           cft[m] \in DOMAIN items /\ items[cft[m]].num = m /\ items[cft[m]].status \in Live
  BY LenProperties DEF LogOK
<1>3. CASE known \/ e.status = "INITIALIZING"
  <2>1. /\ items' = IF known THEN [items EXCEPT ![idx] = ItemOf(e)] ELSE Append(items, ItemOf(e))
        /\ cft' = IF e.status \in Complete THEN Without(cft, n) ELSE Put(cft, n, idx)
    BY <1>3 DEF UpdateChatLog, ItemOf
  <2>2. /\ items' \in Seq(ItemType) /\ idx \in DOMAIN items' /\ items'[idx] = ItemOf(e)
        /\ \A i \in DOMAIN items : i # idx => i \in DOMAIN items' /\ items'[i] = items[i]
        /\ \A i \in DOMAIN items' : i # idx => i \in DOMAIN items
    <3>1. CASE known
      <4>1. idx \in 1..Len(items) /\ items' = [items EXCEPT ![idx] = ItemOf(e)]
        BY <1>2, <2>1, <3>1
      <4> HIDE DEF idx
      <4>2. /\ items' \in Seq(ItemType) /\ DOMAIN items' = DOMAIN items
            /\ items'[idx] = ItemOf(e)
            /\ \A i \in DOMAIN items : i # idx => items'[i] = items[i]
        BY <1>1, <1>2, <4>1, ExceptSeq
      <4>3. QED BY <1>2, <4>1, <4>2
    <3>2. CASE ~known
      <4>1. idx = Len(items) + 1 /\ items' = Append(items, ItemOf(e))
        BY <2>1, <3>2
      <4> HIDE DEF idx
      <4>2. /\ items' \in Seq(ItemType) /\ Len(items') = Len(items) + 1
            /\ \A i \in 1..Len(items) : items'[i] = items[i]
            /\ items'[idx] = ItemOf(e)
        BY <1>1, <1>2, <4>1, AppendProperties
      <4>3. DOMAIN items' = 1..(Len(items) + 1)
        BY <4>2, LenProperties
      <4>4. QED BY <1>2, <4>1, <4>2, <4>3
    <3>3. QED BY <3>1, <3>2
  <2>3. \A m \in DOMAIN cft \ {n} : cft[m] # idx
    BY <1>2
  <2> HIDE DEF idx
  <2>4. /\ DOMAIN cft' \subseteq DOMAIN cft \cup {n}
        /\ \A m \in DOMAIN cft \ {n} : m \in DOMAIN cft' /\ cft'[m] = cft[m]
        /\ IF e.status \in Complete THEN n \notin DOMAIN cft'
           ELSE n \in DOMAIN cft' /\ cft'[n] = idx
    BY <2>1 DEF Put, Without
  <2> HIDE DEF cft
  <2>5. \A m \in DOMAIN cft \ {n} : m \in DOMAIN cft' /\ items'[cft'[m]] = items[cft[m]]
    BY <1>2, <2>2, <2>3, <2>4
  <2>6. e.status \notin Complete => n \in DOMAIN cft' /\ items'[cft'[n]] = ItemOf(e)
    BY <2>2, <2>4
  <2>7. LogOK(items', cft')
    <3>1. DOMAIN cft' \subseteq Nums
      BY <1>1, <1>2, <2>4
    <3>2. ASSUME NEW m \in DOMAIN cft'
          PROVE  /\ cft'[m] \in DOMAIN items' /\ items'[cft'[m]].num = m
                 /\ items'[cft'[m]].status \in Live
      <4>1. CASE m = n
        BY <1>1, <2>2, <2>4, <4>1
      <4>2. CASE m # n
        BY <1>2, <2>2, <2>3, <2>4, <4>2
      <4>3. QED BY <4>1, <4>2
    <3>3. QED BY <2>2, <3>1, <3>2 DEF LogOK
  <2>8. \A i \in DOMAIN items' :
          items'[i] = ItemOf(e) \/ (i \in DOMAIN items /\ items'[i] = items[i])
    BY <2>2
  <2>9. QED BY <2>5, <2>6, <2>7, <2>8 DEF cft
<1>4. CASE ~known /\ e.status # "INITIALIZING"
  <2>1. items' = items /\ cft' = cft
    BY <1>4 DEF UpdateChatLog
  <2>2. QED BY <1>4, <2>1
<1>5. QED BY <1>3, <1>4

LEMMA DispatchFileKeeps ==
    ASSUME IInv, DispatchFile
    PROVE  IInv'
<1> DEFINE e == Head(events)
           changed(n) == n \in DOMAIN fileMap' /\ fileMap'[n].status # fileMap[n].status
<1>1. /\ events # <<>> /\ e.is = "file" /\ gui.in = "events" /\ ~AcceptsNullFile
      /\ IF AcceptedByItself(e) THEN AcceptFileRecvRequest(e.num)
                                ELSE UNCHANGED <<tox, refusals, fileMap>>
      /\ EmitAccepted(Tail(events), e.num) /\ UpdateChatLog(e)
      /\ UNCHANGED <<connected, delivered, gui, unused>>
  BY DEF DispatchFile
<1>2. /\ events \in Seq(Event) /\ LogOK(items, currentFileTransfers) /\ GuiOK
      /\ connected \in BOOLEAN /\ (~connected => tox = <<>>)
      /\ delivered \subseteq Files /\ unused \subseteq Files
      /\ ToxOK(tox) /\ MapOK(fileMap) /\ refusals \in 0..MaxRefusals
  BY DEF IInv, TypeInv
<1>3. /\ e \in Event /\ e = events[1] /\ 1 \in DOMAIN events /\ Tail(events) \in Seq(Event)
      /\ DOMAIN Tail(events) = 1..(Len(events) - 1) /\ Len(events) \in Nat
      /\ \A i \in DOMAIN Tail(events) : i + 1 \in DOMAIN events /\ Tail(events)[i] = events[i + 1]
  BY <1>1, <1>2, Popped
<1>4. /\ e.num \in Nums /\ e.file \in Files /\ e.status \in Live \cup Complete
      /\ ~(AcceptedByItself(e) /\ NullFile(e.num))
  BY <1>1, <1>3, EventKinds DEF AcceptsNullFile
<1> PICK n \in Nums : n = e.num
  BY <1>4
<1>5. /\ LogOK(items', currentFileTransfers')
      /\ \A m \in Nums \ {n} : m \in DOMAIN currentFileTransfers =>
           /\ m \in DOMAIN currentFileTransfers'
           /\ items'[currentFileTransfers'[m]] = items[currentFileTransfers[m]]
      /\ (n \in DOMAIN currentFileTransfers \/ e.status = "INITIALIZING") /\ e.status \notin Complete
           => n \in DOMAIN currentFileTransfers' /\ items'[currentFileTransfers'[n]] = ItemOf(e)
      /\ \A i \in DOMAIN items' :
           items'[i] = ItemOf(e) \/ (i \in DOMAIN items /\ items'[i] = items[i])
  <2> HIDE DEF e
  <2>1. QED BY <1>1, <1>2, <1>3, ChatLogUpdated
\* What the acceptance does.
<1>6. /\ ToxOK(tox') /\ MapOK(fileMap') /\ (connected \/ UNCHANGED tox)
      /\ refusals' \in 0..MaxRefusals /\ refusals <= refusals'
      /\ \A k \in Nums \ {n} : Same(fileMap, fileMap', k) /\ Same(tox, tox', k)
      /\ SentInv(n)' /\ MatchInv(n)' /\ PauseInv(n)' /\ OpenInv(n)'
      /\ n \in DOMAIN fileMap' <=> n \in DOMAIN fileMap
      /\ n \in DOMAIN tox' <=> n \in DOMAIN tox
      /\ n \in DOMAIN fileMap =>
           /\ fileMap'[n].file = fileMap[n].file /\ fileMap'[n].local = fileMap[n].local
           /\ fileMap'[n].avatar = fileMap[n].avatar
           /\ fileMap'[n].status = fileMap[n].status
              \/ (fileMap'[n].status = "TRANSMITTING" /\ fileMap[n].file # NoFile)
  <2>1. CASE AcceptedByItself(e)
    <3>1. n \in RecvNums /\ AcceptFileRecvRequest(n) /\ ~NullFile(n)
      BY <1>1, <1>4, <2>1 DEF AcceptedByItself
    <3> HIDE DEF e
    <3>2. QED BY <1>1, <3>1, RequestAccepted
  <2>2. CASE ~AcceptedByItself(e)
    <3>1. UNCHANGED <<tox, refusals, fileMap, unused>>
      BY <1>1, <2>2
    <3>2. SentInv(n)' /\ MatchInv(n)' /\ PauseInv(n)' /\ OpenInv(n)'
      BY <3>1, TransferFacts
         DEF TransferInv, SentInv, MatchInv, PauseInv, OpenInv, Known, Apart
    <3>3. \A k \in Nums \ {n} : Same(fileMap, fileMap', k) /\ Same(tox, tox', k)
      BY <3>1 DEF Same
    <3> HIDE DEF e
    <3>4. QED BY <1>2, <3>1, <3>2, <3>3, Constants
  <2>3. QED BY <2>1, <2>2
\* The queue afterwards.
<1> DEFINE e2 == FileEvent(fileMap'[n])
<1>7. events' = IF changed(n) THEN Append(Tail(events), e2) ELSE Tail(events)
  BY <1>1 DEF EmitAccepted
<1>8. changed(n) =>
        /\ n \in DOMAIN fileMap /\ fileMap'[n].file # NoFile /\ fileMap'[n].status = "TRANSMITTING"
        /\ fileMap'[n] \in ToxFileType /\ fileMap'[n].num = n
  BY <1>6 DEF MapOK, FileOK
<1>9. changed(n) =>
        /\ e2 \in Event /\ e2.is = "file" /\ e2.status = "TRANSMITTING"
        /\ About(e2, n) /\ Shows(e2, fileMap'[n])
  BY <1>8, FileEventIs
<1> HIDE DEF e, e2, changed
<1>10. /\ events' \in Seq(Event)
       /\ \A i \in DOMAIN Tail(events) : i \in DOMAIN events' /\ events'[i] = Tail(events)[i]
       /\ \A i \in DOMAIN events' :
            \/ i \in DOMAIN Tail(events) /\ events'[i] = Tail(events)[i]
            \/ events'[i] = e2 /\ e2.is = "file" /\ e2.status = "TRANSMITTING"
  <2>1. CASE changed(n)
    <3>1. events' = Append(Tail(events), e2)
      BY <1>7, <2>1
    <3>2. QED BY <1>3, <1>9, <2>1, <3>1, Appended
  <2>2. CASE ~changed(n)
    BY <1>3, <1>7, <2>2
  <2>3. QED BY <2>1, <2>2
<1>11. \A i \in DOMAIN events' :
         \/ i + 1 \in DOMAIN events /\ events'[i] = events[i + 1]
         \/ events'[i].is = "file" /\ events'[i].status = "TRANSMITTING"
  BY <1>3, <1>10
<1>12. TypeInv'
  <2>1. GuiOK'
    BY <1>1, <1>2 DEF GuiOK
  <2>2. QED BY <1>1, <1>2, <1>5, <1>6, <1>10, <2>1 DEF TypeInv
<1>13. OfferInv'
  BY <1>1, <1>11 DEF IInv, OfferInv
<1>14. FinishedInv'
  <2> SUFFICES ASSUME NEW i \in DOMAIN events', events'[i].is = "file",
                      Apart(events[i].num)', events'[i].status = "FINISHED"
               PROVE  events'[i].file \in delivered'
    BY DEF FinishedInv
  <2>1. i + 1 \in DOMAIN events /\ events'[i] = events[i + 1]
    BY <1>11
  <2>2. Apart(events[i + 1].num)
    BY <1>1, <2>1 DEF Apart
  <2>3. QED BY <1>1, <2>1, <2>2 DEF IInv, FinishedInv
<1>15. FinishedWasDelivered'
  <2> SUFFICES ASSUME NEW i \in DOMAIN items', Apart(items[i].num)', items'[i].status = "FINISHED"
               PROVE  items'[i].file \in delivered'
    BY DEF FinishedWasDelivered
  <2>1. CASE items'[i] = ItemOf(e)
    <3>1. items'[i].num = n /\ e.status = "FINISHED" /\ items'[i].file = e.file
      BY <2>1 DEF ItemOf
    <3>2. Apart(n)
      BY <1>1, <3>1 DEF Apart
    <3>3. e.file \in delivered
      BY <1>1, <1>3, <3>1, <3>2 DEF IInv, FinishedInv
    <3>4. QED BY <1>1, <3>1, <3>3
  <2>2. CASE i \in DOMAIN items /\ items'[i] = items[i]
    <3>1. Apart(items[i].num)
      BY <1>1, <2>2 DEF Apart
    <3>2. QED BY <1>1, <2>2, <3>1 DEF IInv, FinishedWasDelivered
  <2>3. QED BY <1>5, <2>1, <2>2
<1>16. ASSUME NEW k \in Nums PROVE TransferInv(k)'
  <2>1. BreakPending(k) => BreakPending(k)'
    <3>1. \A i \in 1..(Len(events) - 1) : i \in DOMAIN events' /\ events'[i] = Tail(events)[i]
      BY <1>3, <1>10
    <3>2. Head(events).is # "status"
      BY <1>1 DEF e
    <3>3. QED BY <1>1, <3>1, <3>2, PendingAfterPop
  <2>2. CASE k = n
    <3>1. StaleInv(n)
      BY DEF IInv, TransferInv
    <3>2. StaleInv(n)'
      BY <1>1, <1>6, <2>1, <2>2, <3>1 DEF StaleInv, IsData, Apart
    <3>3. QED BY <1>6, <2>2, <3>2 DEF TransferInv
  <2>3. CASE k # n
    BY <1>1, <1>6, <2>1, <2>3, TransferKept
  <2>4. QED BY <2>2, <2>3
<1>17. ASSUME NEW k \in Nums, IsData(k)'
       PROVE  Follows(events', currentFileTransfers', items', k, fileMap'[k])
  <2>1. CASE k # n
    <3>1. IsData(k) /\ fileMap'[k] = fileMap[k]
      BY <1>6, <1>17, <2>1 DEF Same, IsData
    <3>2. Follows(events, currentFileTransfers, items, k, fileMap[k])
      BY <3>1 DEF IInv, UiInv
    <3>3. ~About(Head(events), k)
      BY <2>1 DEF About, e
    <3>4. Follows(Tail(events), currentFileTransfers', items', k, fileMap[k])
      BY <1>1, <1>2, <1>5, <2>1, <3>2, <3>3, FollowsPopOther
    <3>5. CASE changed(n)
      <4>1. ~About(e2, k)
        BY <1>9, <2>1, <3>5 DEF About
      <4>2. Follows(Append(Tail(events), e2), currentFileTransfers', items', k, fileMap[k])
        BY <1>3, <1>9, <3>4, <3>5, <4>1, FollowsAppendOther
      <4>3. QED BY <1>7, <3>1, <3>5, <4>2
    <3>6. CASE ~changed(n)
      BY <1>7, <3>1, <3>4, <3>6
    <3>7. QED BY <3>5, <3>6
  <2>2. CASE k = n
    <3>1. IsData(n)
      BY <1>6, <1>17, <2>2 DEF IsData
    <3>2. Follows(events, currentFileTransfers, items, n, fileMap[n])
      BY <3>1 DEF IInv, UiInv
    <3>3. fileMap[n].status \in Live /\ About(Head(events), n)
      BY <1>1, <1>2, <3>1 DEF IsData, MapOK, FileOK, About, e
    <3>4. /\ n \in DOMAIN currentFileTransfers \/ Head(events).status = "INITIALIZING"
          /\ Head(events).status \notin Complete
          => /\ n \in DOMAIN currentFileTransfers'
             /\ Shows(Head(events), fileMap[n]) => Shows(items'[currentFileTransfers'[n]], fileMap[n])
      BY <1>5 DEF e, ItemOf, Shows
    <3>5. Follows(Tail(events), currentFileTransfers', items', n, fileMap[n])
      BY <1>1, <1>2, <3>2, <3>3, <3>4, FollowsPopOwn
    <3>6. CASE changed(n)
      <4>1. ItemIn(Tail(events), currentFileTransfers', n)
        BY <3>5 DEF Follows
      <4>2. e2.status \in Live
        BY <1>9, <3>6 DEF Live
      <4>3. Follows(Append(Tail(events), e2), currentFileTransfers', items', n, fileMap'[n])
        BY <1>3, <1>9, <3>6, <4>1, <4>2, FollowsAppendOwn
      <4>4. QED BY <1>7, <2>2, <3>6, <4>3
    <3>7. CASE ~changed(n)
      <4>1. /\ fileMap'[n].file = fileMap[n].file /\ fileMap'[n].local = fileMap[n].local
            /\ fileMap'[n].status = fileMap[n].status
        BY <1>6, <3>1, <3>7 DEF changed, IsData
      <4>2. Follows(Tail(events), currentFileTransfers', items', n, fileMap'[n])
        BY <3>5, <4>1 DEF Follows, WillShowIn, Shows
      <4>3. QED BY <1>7, <2>2, <3>7, <4>2
    <3>8. QED BY <3>6, <3>7
  <2>3. QED BY <2>1, <2>2
<1>18. \A k \in Nums : UiInv(k)'
  BY <1>17 DEF UiInv
<1>19. QED BY <1>12, <1>13, <1>14, <1>15, <1>16, <1>18 DEF IInv
-----------------------------------------------------------------------------
(* The invariant holds *)

LEMMA InitIInv == Init => IInv
<1> SUFFICES ASSUME Init PROVE IInv
  OBVIOUS
<1>1. TypeInv
  <2>1. GuiOK /\ ToxOK(tox) /\ MapOK(fileMap)
    BY DEF Init, GuiOK, ToxOK, MapOK
  <2>2. LogOK(items, currentFileTransfers) /\ events \in Seq(Event)
    BY DEF Init, LogOK
  <2>3. refusals \in 0..MaxRefusals
    BY Constants DEF Init
  <2>4. delivered \subseteq Files /\ unused \subseteq Files
    BY DEF Init, Files
  <2>5. QED BY <2>1, <2>2, <2>3, <2>4 DEF Init, TypeInv
<1>2. OfferInv /\ FinishedInv /\ FinishedWasDelivered
  BY DEF Init, OfferInv, FinishedInv, FinishedWasDelivered
<1>3. \A n \in Nums : n \notin DOMAIN fileMap /\ n \notin DOMAIN tox
  BY DEF Init
<1>4. \A n \in Nums : TransferInv(n) /\ UiInv(n)
  BY <1>3 DEF TransferInv, SentInv, MatchInv, PauseInv, OpenInv, StaleInv, Known, IsData, UiInv
<1>5. QED BY <1>1, <1>2, <1>4 DEF IInv

LEMMA StutterKeeps == IInv /\ UNCHANGED vars => IInv'
<1> SUFFICES ASSUME IInv, UNCHANGED vars PROVE IInv'
  OBVIOUS
<1>1. UNCHANGED <<tox, connected, delivered, fileMap, events, gui, items, currentFileTransfers,
                  unused, refusals>>
  BY DEF vars, toxVars, guiVars, bounds
<1>2. /\ ToxOK(tox) /\ MapOK(fileMap) /\ GuiOK' /\ refusals \in 0..MaxRefusals
      /\ refusals <= refusals /\ delivered \subseteq Files
      /\ connected \in BOOLEAN /\ (~connected => tox = <<>>)
  BY <1>1, Constants DEF IInv, TypeInv, GuiOK
<1>3. \A n \in Nums : Same(fileMap, fileMap', n) /\ Same(tox, tox', n) /\ (BreakPending(n) => BreakPending(n)')
  BY <1>1 DEF Same, BreakPending
<1>4. StepOn({})
  BY <1>1, <1>2, <1>3 DEF StepOn, Said
<1>5. QED BY <1>4, StepKeeps

LEMMA HandleKeeps == IInv /\ Handle => IInv'
<1> SUFFICES ASSUME IInv, Handle PROVE IInv'
  OBVIOUS
<1>1. CASE DispatchFile
  BY <1>1, DispatchFileKeeps
<1>2. CASE ConnectionStatusChanged
  BY <1>2, ConnectionStatusChangedKeeps
<1>3. CASE SendAvatarTo
  BY <1>3, SendAvatarToKeeps
<1>4. CASE \E n \in Nums : BreakFile(n)
  BY <1>4, BreakFileKeeps
<1>5. CASE AvatarOfferReceived
  BY <1>5, AvatarOfferReceivedKeeps
<1>6. CASE GetAvatarId
  BY <1>6, GetAvatarIdKeeps
<1>7. CASE AddAvatar
  BY <1>7, AddAvatarKeeps
<1>8. CASE HandleNullFile
  BY <1>8, CrashKeeps DEF HandleNullFile
<1>9. QED BY <1>1, <1>2, <1>3, <1>4, <1>5, <1>6, <1>7, <1>8 DEF Handle

LEMMA UserKeeps == IInv /\ User => IInv'
<1> SUFFICES ASSUME IInv, User PROVE IInv'
  OBVIOUS
<1>1. CASE \E f \in SendFiles, n \in SendNums : SendFile(f, n)
  BY <1>1, SendFileKeeps
<1>2. ASSUME NEW n \in Nums, PauseResumeFile(n) PROVE IInv'
  BY <1>2, PauseResumeFileKeeps
<1>3. ASSUME NEW n \in Nums, CancelFile(n) PROVE IInv'
  BY <1>3, CancelFileKeeps
<1>4. ASSUME NEW n \in Nums, AcceptFile(n) PROVE IInv'
  BY <1>4, AcceptFileKeeps
<1>5. QED BY <1>1, <1>2, <1>3, <1>4 DEF User

LEMMA FriendKeeps == IInv /\ Friend => IInv'
<1> SUFFICES ASSUME IInv, Friend PROVE IInv'
  OBVIOUS
<1>1. CASE FriendConnects
  BY <1>1, FriendConnectsKeeps
<1>2. CASE FriendStatus
  BY <1>2, FriendStatusKeeps
<1>3. CASE FriendDisconnects
  BY <1>3, FriendDisconnectsKeeps
<1>4. CASE \E f \in RecvFiles \union Avatars, n \in RecvNums : FileReceive(f, n)
  BY <1>4, FileReceiveKeeps
<1>5. ASSUME NEW n \in Nums, PeerCancels(n) PROVE IInv'
  BY <1>5, PeerCancelsKeeps
<1>6. ASSUME NEW n \in Nums, PeerPauses(n) PROVE IInv'
  BY <1>6, PeerPausesKeeps
<1>7. ASSUME NEW n \in Nums, PeerResumes(n) PROVE IInv'
  BY <1>7, PeerResumesKeeps
<1>8. ASSUME NEW n \in Nums, FileRecvChunk(n) PROVE IInv'
  BY <1>8, FileRecvChunkKeeps
<1>9. ASSUME NEW n \in Nums, FileData(n) PROVE IInv'
  BY <1>9, FileDataKeeps
<1>10. ASSUME NEW n \in Nums, FileReadFails(n) PROVE IInv'
  BY <1>10, FileReadFailsKeeps
<1>11. QED BY <1>1, <1>2, <1>3, <1>4, <1>5, <1>6, <1>7, <1>8, <1>9, <1>10 DEF Friend

LEMMA StepIInv == IInv /\ [Next]_vars => IInv'
<1>1. (\E n \in Nums : UseNullFile(n)) /\ IInv => IInv'
  BY CrashKeeps DEF UseNullFile
<1>2. QED BY <1>1, HandleKeeps, UserKeeps, FriendKeeps, StutterKeeps DEF Next

\* What the theorems below rest on holds in every reachable state.
THEOREM InvariantHolds == Spec => []IInv
BY InitIInv, StepIInv, PTL DEF Spec
-----------------------------------------------------------------------------
(* The properties *)

\* Types, and what they relate: fileMap holds a live transfer under its own number, and the
\* chat log updates an item under the number it shows (CoreFile::addFile and removeFile,
\* SessionChatLog::onFileUpdated).
THEOREM TypeOKHolds == Spec => []TypeOK
<1>1. ASSUME IInv PROVE TypeOK
  <2>1. \A i \in DOMAIN items : items[i] \in ItemType
    BY <1>1, ElementOfSeq, LenProperties DEF IInv, TypeInv, LogOK
  <2>2. QED BY <1>1, <2>1 DEF IInv, TypeInv, TypeOK, ToxOK, Transfer, MapOK, FileOK, LogOK
<1>2. IInv => TypeOK
  BY <1>1
<1>3. QED BY <1>2, InvariantHolds, PTL

\* The last signal the chat log gets about a transfer is the last one CoreFile emitted about
\* it, and the chat log has an item to show it with (the comment at widget.cpp:346-361).
THEOREM UiFollowsCoreFileHolds == Spec => []UiFollowsCoreFile
<1>1. ASSUME IInv, NEW n \in DOMAIN fileMap, ~fileMap[n].avatar, fileMap[n].file # NoFile
      PROVE  WillShow(n, fileMap[n])
  <2>1. n \in Nums
    BY <1>1 DEF IInv, TypeInv, MapOK
  <2>2. WillShowIn(events, currentFileTransfers, items, n, fileMap[n])
    BY <1>1, <2>1 DEF IInv, UiInv, IsData, Follows
  <2>3. QED BY <2>2 DEF WillShowIn, WillShow, LastAbout, Item
<1>2. IInv => UiFollowsCoreFile
  BY <1>1 DEF UiFollowsCoreFile
<1>3. QED BY <1>2, InvariantHolds, PTL

\* A data transfer of CoreFile is the one toxcore has, unless the GUI thread has yet to
\* handle a lost connection that reaches it (CoreFile::onConnectionStatusChanged).
THEOREM StaleOnlyBeforeBreakHolds == Spec => []StaleOnlyBeforeBreak
<1>1. ASSUME IInv, NEW n \in DOMAIN fileMap, Apart(n), ~fileMap[n].avatar, fileMap[n].file # NoFile
      PROVE  BreakPending(n) \/ (n \in DOMAIN tox /\ tox[n].file = fileMap[n].file)
  <2>1. n \in Nums
    BY <1>1 DEF IInv, TypeInv, MapOK
  <2>2. StaleInv(n) /\ MatchInv(n)
    BY <1>1, <2>1 DEF IInv, TransferInv
  <2>3. QED BY <1>1, <2>2 DEF StaleInv, MatchInv, IsData, Known
<1>2. IInv => StaleOnlyBeforeBreak
  BY <1>1 DEF StaleOnlyBeforeBreak
<1>3. QED BY <1>2, InvariantHolds, PTL

\* What the chat log shows as finished has arrived whole (the ends of onFileDataCallback
\* and onFileRecvChunkCallback).
THEOREM FinishedWasDeliveredHolds == Spec => []FinishedWasDelivered
<1>1. IInv => FinishedWasDelivered
  BY DEF IInv
<1>2. QED BY <1>1, InvariantHolds, PTL

\* ToxFilePause is what toxcore has, on both sides, as long as toxcore refuses nothing
\* (pauseResumeFile and onFileControlCallback).
THEOREM PausedAsToxcoreHolds == Spec => []PausedAsToxcore
<1>1. ASSUME IInv, NEW n \in DOMAIN fileMap \intersect DOMAIN tox, Apart(n), refusals = 0,
             tox[n].running, tox[n].file = fileMap[n].file
      PROVE  fileMap[n].local = tox[n].us /\ fileMap[n].remote = tox[n].peer
  <2>1. n \in Nums /\ tox[n].file \in Files
    BY <1>1 DEF IInv, TypeInv, MapOK, ToxOK, Transfer
  <2>2. Known(n)
    BY <1>1, <2>1, Constants DEF Known
  <2>3. PauseInv(n)
    BY <1>1, <2>1 DEF IInv, TransferInv
  <2>4. QED BY <1>1, <2>2, <2>3 DEF PauseInv
<1>2. IInv => PausedAsToxcore
  BY <1>1 DEF PausedAsToxcore
<1>3. QED BY <1>2, InvariantHolds, PTL
-----------------------------------------------------------------------------
(* The data of a transfer *)

\* What ChunksOfTheirFile says of a step.
ChunkStep ==
    \A n \in DOMAIN fileMap :
        Apart(n) /\ n \in DOMAIN fileMap' /\ fileMap'[n].sent > fileMap[n].sent =>
            tox[n].file = fileMap[n].file

\* A step that leaves the progress of n alone, or begins or ends a transfer.
KeepsSent(n, file) == file.sent = 0 \/ (n \in DOMAIN fileMap /\ file.sent = fileMap[n].sent)

LEMMA NoChunk ==
    ASSUME IInv,
           \/ UNCHANGED fileMap
           \/ \E n \in Nums : fileMap' = Without(fileMap, n)
           \/ \E n \in Nums : \E file : fileMap' = Put(fileMap, n, file) /\ KeepsSent(n, file)
           \/ \E n \in Nums : \E k, file :
                fileMap' = Without(Put(fileMap, n, file), k) /\ KeepsSent(n, file)
    PROVE  ChunkStep
<1>1. \A m \in DOMAIN fileMap : fileMap[m].sent \in Nat
  BY DEF IInv, TypeInv, MapOK, FileOK, ToxFileType
<1>2. ASSUME NEW m \in DOMAIN fileMap, m \in DOMAIN fileMap'
      PROVE  ~(fileMap'[m].sent > fileMap[m].sent)
  <2>1. fileMap'[m].sent = fileMap[m].sent \/ fileMap'[m].sent = 0
    BY <1>2 DEF Put, Without, KeepsSent
  <2>2. QED BY <1>1, <2>1
<1>3. QED BY <1>2 DEF ChunkStep

\* Only a change of the progress of a transfer that toxcore has adds to it.
LEMMA OwnChunk ==
    ASSUME IInv, NEW n \in DOMAIN tox, ~NullFile(n), n \in DOMAIN fileMap,
           Store(n, Progressed(n))
    PROVE  ChunkStep
<1>1. n \in Nums /\ MatchInv(n)
  BY DEF IInv, TypeInv, ToxOK, TransferInv
<1>2. \A m \in DOMAIN fileMap : fileMap[m].sent \in Nat
  BY DEF IInv, TypeInv, MapOK, FileOK, ToxFileType
<1>3. ASSUME NEW m \in DOMAIN fileMap, Apart(m), m \in DOMAIN fileMap',
             fileMap'[m].sent > fileMap[m].sent
      PROVE  tox[m].file = fileMap[m].file
  <2>1. CASE m = n
    BY <1>1, <1>3, <2>1 DEF MatchInv, Known, NullFile
  <2>2. CASE m # n
    <3>1. fileMap'[m] = fileMap[m]
      BY <1>3, <2>2 DEF Store, Put
    <3>2. QED BY <1>2, <1>3, <3>1
  <2>3. QED BY <2>1, <2>2
<1>4. QED BY <1>3 DEF ChunkStep

LEMMA FinishNoChunk ==
    ASSUME IInv, NEW n \in Nums, Finish(n) \/ AbortReceive(n)
    PROVE  ChunkStep
<1>1. UNCHANGED fileMap \/ fileMap' = Without(fileMap, n)
  BY DEF Finish, AbortReceive, RemoveFile
<1>2. QED BY <1>1, NoChunk

LEMMA AcceptNoChunk ==
    ASSUME IInv, NEW n \in Nums, AcceptFileRecvRequest(n)
    PROVE  ChunkStep
<1>1. n \in DOMAIN fileMap => fileMap[n] \in ToxFileType
  BY TransferFacts DEF FileOK
<1>2. n \in DOMAIN fileMap =>
        /\ KeepsSent(n, [fileMap[n] EXCEPT !.open = TRUE, !.status = "TRANSMITTING"])
        /\ KeepsSent(n, [fileMap[n] EXCEPT !.open = TRUE])
  BY <1>1 DEF KeepsSent, ToxFileType
<1>3. \/ UNCHANGED fileMap
      \/ \E file : fileMap' = Put(fileMap, n, file) /\ KeepsSent(n, file)
  BY <1>2 DEF AcceptFileRecvRequest, Store
<1>4. QED BY <1>3, NoChunk

LEMMA NewNoChunk ==
    ASSUME IInv, NEW n \in Nums, NEW f \in Files \cup {NoFile}, NEW a \in BOOLEAN,
           Store(n, NewToxFile(f, n, a))
    PROVE  ChunkStep
<1>1. KeepsSent(n, NewToxFile(f, n, a))
  BY NewToxFileIs DEF KeepsSent
<1>2. QED BY <1>1, NoChunk DEF Store

LEMMA HandleChunk == IInv /\ Handle => ChunkStep
<1> SUFFICES ASSUME IInv, Handle PROVE ChunkStep
  OBVIOUS
<1>1. CASE DispatchFile
  <2>1. CASE AcceptedByItself(Head(events))
    <3>1. AcceptFileRecvRequest(Head(events).num) /\ Head(events).num \in Nums
      BY <1>1, <2>1 DEF DispatchFile, AcceptedByItself, Nums
    <3>2. QED BY <3>1, AcceptNoChunk
  <2>2. CASE ~AcceptedByItself(Head(events))
    BY <1>1, <2>2, NoChunk DEF DispatchFile
  <2>3. QED BY <2>1, <2>2
<1>2. CASE ConnectionStatusChanged \/ AvatarOfferReceived \/ GetAvatarId \/ HandleNullFile
  BY <1>2, NoChunk DEF ConnectionStatusChanged, AvatarOfferReceived, GetAvatarId, HandleNullFile, Crash
<1>3. CASE SendAvatarTo
  <2>1. OwnAvatar \in Files /\ SendNums \subseteq Nums
    BY Constants DEF Files
  <2>2. UNCHANGED fileMap \/ \E n \in SendNums : Store(n, NewToxFile(OwnAvatar, n, TRUE))
    BY <1>3 DEF SendAvatarTo
  <2>3. QED BY <2>1, <2>2, NewNoChunk, NoChunk
<1>4. ASSUME NEW n \in Nums, BreakFile(n) PROVE ChunkStep
  <2> DEFINE found == IF n \in DOMAIN fileMap THEN fileMap[n] ELSE DefaultToxFile
             file == [found EXCEPT !.status = gui.status]
  <2>1. fileMap' = Without(Put(fileMap, n, file), file.num)
    BY <1>4 DEF BreakFile
  <2>2. KeepsSent(n, file)
    <3>1. CASE n \in DOMAIN fileMap
      <4>1. fileMap[n] \in ToxFileType
        BY <3>1, TransferFacts DEF FileOK
      <4>2. QED BY <3>1, <4>1 DEF ToxFileType, KeepsSent
    <3>2. CASE n \notin DOMAIN fileMap
      BY <3>2 DEF DefaultToxFile, NewToxFile, KeepsSent
    <3>3. QED BY <3>1, <3>2
  <2> HIDE DEF file
  <2>3. QED BY <2>1, <2>2, NoChunk
<1>5. CASE AddAvatar
  <2>1. gui.num \in Nums /\ gui.file \in Files \cup {NoFile}
    BY <1>5, Constants DEF AddAvatar, IInv, TypeInv, GuiOK
  <2>2. QED BY <1>5, <2>1, NewNoChunk DEF AddAvatar
<1>6. QED BY <1>1, <1>2, <1>3, <1>4, <1>5 DEF Handle

LEMMA UserChunk == IInv /\ User => ChunkStep
<1> SUFFICES ASSUME IInv, User PROVE ChunkStep
  OBVIOUS
<1>1. ASSUME NEW f \in SendFiles, NEW n \in SendNums, SendFile(f, n) PROVE ChunkStep
  <2>1. n \in Nums /\ f \in Files /\ Store(n, NewToxFile(f, n, FALSE))
    BY <1>1, Constants DEF SendFile, Files
  <2>2. QED BY <2>1, NewNoChunk
<1>2. ASSUME NEW n \in Nums, PauseResumeFile(n) PROVE ChunkStep
  <2> DEFINE toggled == [fileMap[n] EXCEPT !.local = ~fileMap[n].local]
             changed == [toggled EXCEPT !.status = IF Paused(toggled) THEN "PAUSED"
                                                                      ELSE "TRANSMITTING"]
  <2>1. n \in DOMAIN fileMap /\ fileMap' = Put(fileMap, n, changed)
    BY <1>2 DEF PauseResumeFile, Store
  <2>2. fileMap[n] \in ToxFileType
    BY <2>1, TransferFacts DEF FileOK
  <2>3. KeepsSent(n, changed)
    BY <2>1, <2>2 DEF KeepsSent, ToxFileType
  <2> HIDE DEF changed
  <2>4. QED BY <2>1, <2>3, NoChunk
<1>3. ASSUME NEW n \in Nums, CancelFile(n) PROVE ChunkStep
  <2>1. UNCHANGED fileMap \/ fileMap' = Without(fileMap, n)
    BY <1>3 DEF CancelFile, RemoveFile
  <2>2. QED BY <2>1, NoChunk
<1>4. ASSUME NEW n \in Nums, AcceptFile(n) PROVE ChunkStep
  BY <1>4, AcceptNoChunk DEF AcceptFile
<1>5. QED BY <1>1, <1>2, <1>3, <1>4 DEF User

LEMMA FriendChunk == IInv /\ Friend => ChunkStep
<1> SUFFICES ASSUME IInv, Friend PROVE ChunkStep
  OBVIOUS
<1>1. CASE FriendConnects \/ FriendStatus \/ FriendDisconnects
  BY <1>1, NoChunk DEF FriendConnects, FriendStatus, FriendDisconnects
<1>2. ASSUME NEW f \in RecvFiles \union Avatars, NEW n \in RecvNums, FileReceive(f, n)
      PROVE  ChunkStep
  <2>1. n \in Nums /\ f \in Files
    BY Constants DEF Files
  <2>2. UNCHANGED fileMap \/ Store(n, NewToxFile(f, n, FALSE))
    BY <1>2 DEF FileReceive
  <2>3. QED BY <2>1, <2>2, NewNoChunk, NoChunk
<1>3. ASSUME NEW n \in Nums, NEW file, FileControl(n, file),
             n \in DOMAIN fileMap => file.sent = fileMap[n].sent
      PROVE  ChunkStep
  <2>1. \/ UNCHANGED fileMap \/ fileMap' = Without(fileMap, n)
        \/ fileMap' = Put(fileMap, n, file) /\ KeepsSent(n, file)
    BY <1>3 DEF FileControl, RemoveFile, KeepsSent
  <2>2. QED BY <2>1, NoChunk
<1>4. ASSUME NEW n \in Nums, PeerCancels(n) \/ PeerPauses(n) \/ PeerResumes(n) PROVE ChunkStep
  <2>1. n \in DOMAIN fileMap => fileMap[n] \in ToxFileType
    BY TransferFacts DEF FileOK
  <2>2. \E file : FileControl(n, file) /\ (n \in DOMAIN fileMap => file.sent = fileMap[n].sent)
    <3>1. CASE PeerCancels(n)
      <4> DEFINE file == [fileMap[n] EXCEPT !.status = "CANCELED"]
      <4>1. FileControl(n, file)
        BY <3>1 DEF PeerCancels
      <4>2. n \in DOMAIN fileMap => file.sent = fileMap[n].sent
        BY <2>1 DEF ToxFileType
      <4> HIDE DEF file
      <4>3. QED BY <4>1, <4>2
    <3>2. CASE PeerPauses(n)
      <4> DEFINE file == [fileMap[n] EXCEPT !.remote = TRUE, !.status = "PAUSED"]
      <4>1. FileControl(n, file)
        BY <3>2 DEF PeerPauses
      <4>2. n \in DOMAIN fileMap => file.sent = fileMap[n].sent
        BY <2>1 DEF ToxFileType
      <4> HIDE DEF file
      <4>3. QED BY <4>1, <4>2
    <3>3. CASE PeerResumes(n)
      <4> DEFINE file == [fileMap[n] EXCEPT !.remote = FALSE,
                            !.status = IF fileMap[n].local THEN "PAUSED" ELSE "TRANSMITTING"]
      <4>1. FileControl(n, file)
        BY <3>3 DEF PeerResumes
      <4>2. n \in DOMAIN fileMap => file.sent = fileMap[n].sent
        BY <2>1 DEF ToxFileType
      <4> HIDE DEF file
      <4>3. QED BY <4>1, <4>2
    <3>4. QED BY <1>4, <3>1, <3>2, <3>3
  <2>3. QED BY <1>3, <2>2
<1>5. ASSUME NEW n \in Nums, FileRecvChunk(n) PROVE ChunkStep
  <2>1. CASE AbortReceive(n) \/ Finish(n)
    BY <2>1, FinishNoChunk
  <2>2. CASE n \in DOMAIN fileMap /\ Store(n, Progressed(n))
    BY <1>5, <2>2, OwnChunk DEF FileRecvChunk, Flowing
  <2>3. QED BY <1>5, <2>1, <2>2 DEF FileRecvChunk
<1>6. ASSUME NEW n \in Nums, FileData(n) PROVE ChunkStep
  <2>1. CASE Finish(n)
    BY <2>1, FinishNoChunk
  <2>2. CASE n \in DOMAIN fileMap /\ Store(n, Progressed(n))
    BY <1>6, <2>2, OwnChunk DEF FileData, Flowing
  <2>3. CASE UNCHANGED fileMap
    BY <2>3, NoChunk
  <2>4. QED BY <1>6, <2>1, <2>2, <2>3 DEF FileData
<1>7. ASSUME NEW n \in Nums, FileReadFails(n) PROVE ChunkStep
  <2>1. fileMap' = Without(fileMap, n)
    BY <1>7 DEF FileReadFails, RemoveFile
  <2>2. QED BY <2>1, NoChunk
<1>8. QED BY <1>1, <1>2, <1>4, <1>5, <1>6, <1>7 DEF Friend

\* The data of a transfer goes to, or comes from, the file of that transfer
\* (onFileDataCallback, onFileRecvChunkCallback).
THEOREM ChunksOfTheirFileHolds == Spec => ChunksOfTheirFile
<1>1. ASSUME IInv, Next PROVE ChunkStep
  <2>1. (\E n \in Nums : UseNullFile(n)) => ChunkStep
    BY <1>1, NoChunk DEF UseNullFile, Crash
  <2>2. QED BY <1>1, <2>1, HandleChunk, UserChunk, FriendChunk DEF Next
<1>2. IInv /\ [Next]_vars => [ChunkStep]_vars
  BY <1>1
<1>3. QED BY <1>2, InvariantHolds, PTL DEF Spec, ChunksOfTheirFile, ChunkStep
=============================================================================
