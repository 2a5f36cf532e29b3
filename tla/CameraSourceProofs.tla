-------------------------- MODULE CameraSourceProofs --------------------------
(* Proofs about CameraSource for any number of users, devices and subscriptions. *)
EXTENDS CameraSource, FiniteSetTheorems, SequenceTheorems, TLAPS

-----------------------------------------------------------------------------
(* The inductive invariant *)

Slots == {Open, Close} \cup [slot : {"setupDevice"}, device : Devices \cup {NONE}]

\* A slot of this name is in the queue.
Queued(q, name) == \E k \in DOMAIN q : q[k].slot = name

\* Who holds which lock, and that the users are gone when the program ends.
LockInv ==
    /\ gui \in {"deviceMutex", "wait"} => streamMutex = "gui"
    /\ gui \in {"streamFuture", "gone"} => slot = "ended"
    /\ gui # "running" => subscribers = {}
    /\ slot \in {"none", "setupDevice", "ended"} => deviceMutex # "device"

\* The subscriptions are where setupDevice has put them.
CountInv ==
    IF deviceMutex = "device" /\ slot \in {"closeDevice", "switch"}
    THEN subscriptions = 0 /\ saved = Cardinality(subscribers)
    ELSE subscriptions = Cardinality(subscribers)

\* An open device that nobody uses is about to be closed.
CloseInv ==
    subscribers = {} =>
        /\ device # NONE => Queued(queue, "closeDevice") \/ slot = "closeDevice"
        /\ slot = "opening" => Queued(queue, "closeDevice")

\* A device that is wanted is about to be opened.
OpenInv ==
    subscribers # {} /\ deviceName # NONE /\ device = NONE /\ ~refused =>
        \/ Queued(queue, "openDevice") \/ slot \in {"openDevice", "opening"}
        \/ deviceMutex = "device"

IInv == TypeOK /\ LockInv /\ CountInv /\ CloseInv /\ OpenInv
-----------------------------------------------------------------------------
(* Lemmas about the queue and the subscribers *)

LEMMA SlotNames ==
    /\ Open \in Slots /\ Open.slot = "openDevice"
    /\ Close \in Slots /\ Close.slot = "closeDevice"
    /\ \A d \in Devices \cup {NONE} : Setup(d) \in Slots /\ Setup(d).slot = "setupDevice"
    /\ \A s \in Slots : /\ s.slot \in {"openDevice", "closeDevice", "setupDevice"}
                        /\ s.slot = "setupDevice" => s.device \in Devices \cup {NONE}
BY DEF Slots, Open, Close, Setup

\* What is queued stays queued, and what is appended is queued.
LEMMA QueuedAppended ==
    ASSUME NEW q \in Seq(Slots), NEW s \in Slots, NEW name
    PROVE  /\ Append(q, s) \in Seq(Slots)
           /\ Queued(q, name) => Queued(Append(q, s), name)
           /\ Queued(Append(q, s), s.slot)
<1>1. /\ Append(q, s) \in Seq(Slots) /\ Len(Append(q, s)) = Len(q) + 1
      /\ \A k \in 1..Len(q) : Append(q, s)[k] = q[k]
      /\ Append(q, s)[Len(q) + 1] = s
  BY AppendProperties
<1>2. DOMAIN q = 1..Len(q) /\ DOMAIN Append(q, s) = 1..(Len(q) + 1) /\ Len(q) \in Nat
  BY <1>1
<1>3. QED BY <1>1, <1>2 DEF Queued

\* The slot that is run is the first, and the others stay.
LEMMA QueuedTail ==
    ASSUME NEW q \in Seq(Slots), q # <<>>, NEW name
    PROVE  /\ Head(q) \in Slots /\ Tail(q) \in Seq(Slots)
           /\ Queued(q, name) => Head(q).slot = name \/ Queued(Tail(q), name)
<1>1. /\ Head(q) \in Slots /\ Tail(q) \in Seq(Slots)
      /\ Len(Tail(q)) = Len(q) - 1 /\ Len(q) \in Nat /\ Len(q) >= 1
      /\ Head(q) = q[1]
      /\ \A k \in 1..Len(Tail(q)) : Tail(q)[k] = q[k + 1]
  BY HeadTailProperties, EmptySeq, LenProperties
<1>2. DOMAIN q = 1..Len(q) /\ DOMAIN Tail(q) = 1..(Len(q) - 1)
  BY <1>1
<1>3. ASSUME NEW k \in DOMAIN q, q[k].slot = name
      PROVE  Head(q).slot = name \/ Queued(Tail(q), name)
  <2>1. CASE k = 1
    BY <1>1, <1>3, <2>1
  <2>2. CASE k # 1
    <3>1. k - 1 \in DOMAIN Tail(q) /\ Tail(q)[k - 1] = q[k]
      BY <1>1, <1>2, <2>2
    <3>2. QED BY <1>3, <3>1 DEF Queued
  <2>3. QED BY <2>1, <2>2
<1>4. QED BY <1>1, <1>3 DEF Queued

\* The subscribers can be counted.
LEMMA Counting ==
    ASSUME TypeOK
    PROVE  /\ Cardinality(subscribers) \in Nat
           /\ Cardinality(subscribers) = 0 <=> subscribers = {}
           /\ \A u \in Users \ subscribers :
                Cardinality(subscribers \cup {u}) = Cardinality(subscribers) + 1
           /\ \A u \in subscribers :
                Cardinality(subscribers \ {u}) = Cardinality(subscribers) - 1
<1>1. IsFiniteSet(subscribers)
  BY CameraAssumption, FS_Subset DEF TypeOK
<1>2. QED BY <1>1, FS_CardinalityType, FS_EmptySet, FS_AddElement, FS_RemoveElement

\* The type of the queue, by its own name.
LEMMA QueueType ==
    TypeOK => queue \in Seq(Slots)
BY DEF TypeOK, Slots

LEMMA InitIInv == Init => IInv
<1> SUFFICES ASSUME Init PROVE IInv
  OBVIOUS
<1>1. TypeOK
  <2>1. queue \in Seq(Slots)
    BY DEF Init
  <2>2. queue \in Seq({Open, Close} \cup [slot : {"setupDevice"}, device : Devices \cup {NONE}])
    BY <2>1 DEF Slots
  <2>3. /\ subscribers \subseteq Users /\ subscriptions \in Nat /\ saved \in Nat
        /\ deviceName = NONE /\ device = NONE /\ chosen = NONE
        /\ usable = FALSE /\ refused = FALSE
        /\ subscribed \in Nat /\ switches \in Nat
    BY DEF Init
  <2>4. /\ slot = "none" /\ deviceMutex = "free" /\ streamMutex = "free"
        /\ stream = "none" /\ gui = "running"
    BY DEF Init
  <2>5. QED BY <2>2, <2>3, <2>4 DEF TypeOK
<1>2. Cardinality(subscribers) = 0
  BY FS_EmptySet DEF Init
<1>3. QED BY <1>1, <1>2 DEF Init, IInv, LockInv, CountInv, CloseInv, OpenInv
-----------------------------------------------------------------------------
(* The users *)

LEMMA SubscribePreserves ==
    ASSUME IInv, NEW u \in Users, Subscribe(u)
    PROVE  IInv'
<1>0. TypeOK /\ queue \in Seq(Slots)
  BY QueueType DEF IInv
<1>1. /\ queue' \in Seq(Slots) /\ Queued(queue', "openDevice")
  BY <1>0, SlotNames, QueuedAppended DEF Subscribe
<1>2. subscriptions' = Cardinality(subscribers') /\ subscriptions' \in Nat
  BY <1>0, Counting DEF IInv, CountInv, Subscribe
<1>3. TypeOK'
  BY <1>0, <1>1, <1>2 DEF TypeOK, Slots, Subscribe, deviceVars, slotVars, mutexes
<1>4. LockInv' /\ CountInv'
  BY <1>2 DEF IInv, LockInv, CountInv, Subscribe, slotVars, mutexes
<1>5. CloseInv' /\ OpenInv'
  BY <1>1 DEF CloseInv, OpenInv, Subscribe
<1>6. QED BY <1>3, <1>4, <1>5 DEF IInv

LEMMA UnsubscribePreserves ==
    ASSUME IInv, NEW u \in Users, Unsubscribe(u)
    PROVE  IInv'
<1>0. TypeOK /\ queue \in Seq(Slots)
  BY QueueType DEF IInv
<1>1. /\ subscriptions = Cardinality(subscribers)
      /\ subscriptions' = Cardinality(subscribers') /\ subscriptions' \in Nat
      /\ subscribers' = {} => subscriptions = 1
  <2>1. subscriptions = Cardinality(subscribers)
    BY DEF IInv, CountInv, Unsubscribe
  <2>2. /\ subscriptions' = Cardinality(subscribers) - 1
        /\ Cardinality(subscribers') = Cardinality(subscribers) - 1
        /\ Cardinality(subscribers) # 0 /\ Cardinality(subscribers) \in Nat
    BY <1>0, <2>1, Counting DEF Unsubscribe
  <2>3. subscribers' = {} => Cardinality(subscribers') = 0
    BY FS_EmptySet
  <2>4. QED BY <2>1, <2>2, <2>3
<1>2. /\ queue' \in Seq(Slots)
      /\ Queued(queue, "openDevice") => Queued(queue', "openDevice")
      /\ subscribers' = {} => Queued(queue', "closeDevice")
  <2>1. Append(queue, Close) \in Seq(Slots) /\ Queued(Append(queue, Close), "closeDevice")
    BY <1>0, SlotNames, QueuedAppended
  <2>2. Queued(queue, "openDevice") => Queued(Append(queue, Close), "openDevice")
    BY <1>0, SlotNames, QueuedAppended
  <2>3. QED BY <1>0, <1>1, <2>1, <2>2 DEF Unsubscribe
<1>3. TypeOK'
  BY <1>0, <1>1, <1>2 DEF TypeOK, Slots, Unsubscribe, deviceVars, slotVars, mutexes, boundVars
<1>4. LockInv' /\ CountInv'
  BY <1>1 DEF IInv, LockInv, CountInv, Unsubscribe, slotVars, mutexes
<1>5. CloseInv' /\ OpenInv'
  BY <1>2 DEF IInv, CloseInv, OpenInv, Unsubscribe, deviceVars, slotVars, mutexes
<1>6. QED BY <1>3, <1>4, <1>5 DEF IInv

LEMMA InvokePreserves ==
    ASSUME IInv, NEW d \in Devices \cup {NONE}, InvokeSetupDevice(d)
    PROVE  IInv'
<1>0. TypeOK /\ queue \in Seq(Slots)
  BY QueueType DEF IInv
<1>1. /\ queue' \in Seq(Slots)
      /\ Queued(queue, "openDevice") => Queued(queue', "openDevice")
      /\ Queued(queue, "closeDevice") => Queued(queue', "closeDevice")
  BY <1>0, SlotNames, QueuedAppended DEF InvokeSetupDevice
<1>2. TypeOK'
  BY <1>0, <1>1 DEF TypeOK, Slots, InvokeSetupDevice, userVars, deviceVars, slotVars, mutexes
<1>3. LockInv' /\ CountInv'
  BY DEF IInv, LockInv, CountInv, InvokeSetupDevice, userVars, slotVars, mutexes
<1>4. CloseInv' /\ OpenInv'
  BY <1>1 DEF IInv, CloseInv, OpenInv, InvokeSetupDevice, userVars, deviceVars, slotVars, mutexes
<1>5. QED BY <1>2, <1>3, <1>4 DEF IInv
-----------------------------------------------------------------------------
(* The device thread *)

LEMMA RunSlotPreserves ==
    ASSUME IInv, RunSlot
    PROVE  IInv'
<1>0. TypeOK /\ queue \in Seq(Slots)
  BY QueueType DEF IInv
<1>1. /\ queue' \in Seq(Slots) /\ Head(queue) \in Slots
      /\ Queued(queue, "openDevice") => slot' = "openDevice" \/ Queued(queue', "openDevice")
      /\ Queued(queue, "closeDevice") => slot' = "closeDevice" \/ Queued(queue', "closeDevice")
  BY <1>0, QueuedTail DEF RunSlot
<1>2. /\ slot' \in {"openDevice", "closeDevice", "setupDevice"}
      /\ chosen' \in Devices \cup {NONE}
  BY <1>0, <1>1, SlotNames DEF RunSlot, TypeOK
<1>3. slot = "none" /\ deviceMutex # "device" /\ gui \notin {"streamFuture", "gone"}
  BY DEF RunSlot, IInv, LockInv
<1>4. TypeOK'
  BY <1>0, <1>1, <1>2, <1>3 DEF TypeOK, Slots, RunSlot, userVars, deviceVars, mutexes, boundVars
<1>5. LockInv' /\ CountInv'
  BY <1>2, <1>3 DEF IInv, LockInv, CountInv, RunSlot, userVars, mutexes
<1>6. CloseInv' /\ OpenInv'
  BY <1>1, <1>2, <1>3 DEF IInv, CloseInv, OpenInv, RunSlot, userVars, deviceVars, mutexes
<1>7. QED BY <1>4, <1>5, <1>6 DEF IInv

LEMMA SetupDevicePreserves ==
    ASSUME IInv, SetupDevice
    PROVE  IInv'
<1>0. TypeOK /\ subscriptions = Cardinality(subscribers)
  BY DEF IInv, CountInv, SetupDevice
<1>1. TypeOK'
  BY <1>0 DEF TypeOK, SetupDevice, deviceVars, boundVars
<1>2. LockInv'
  BY DEF IInv, LockInv, SetupDevice
<1>3. CountInv'
  BY <1>0 DEF CountInv, SetupDevice
<1>4. CloseInv' /\ OpenInv'
  BY DEF IInv, CloseInv, OpenInv, SetupDevice, deviceVars
<1>5. QED BY <1>1, <1>2, <1>3, <1>4 DEF IInv

LEMMA CloseDevicePreserves ==
    ASSUME IInv, CloseDevice
    PROVE  IInv'
<1>0. /\ TypeOK
      /\ deviceMutex # "device" => subscriptions = Cardinality(subscribers)
      /\ deviceMutex = "device" => subscriptions = 0 /\ saved = Cardinality(subscribers)
      /\ Cardinality(subscribers) = 0 <=> subscribers = {}
  BY Counting DEF IInv, CountInv, CloseDevice
<1>1. TypeOK'
  BY <1>0 DEF TypeOK, CloseDevice, Return, userVars, deviceVars, boundVars
<1>2. LockInv'
  BY DEF IInv, LockInv, CloseDevice, Return, userVars
<1>3. CountInv'
  BY <1>0 DEF CountInv, CloseDevice, Return, userVars
<1>4. CloseInv' /\ OpenInv'
  BY <1>0 DEF IInv, CloseInv, OpenInv, CloseDevice, Return, userVars, deviceVars
<1>5. QED BY <1>1, <1>2, <1>3, <1>4 DEF IInv

LEMMA SwitchDevicePreserves ==
    ASSUME IInv, SwitchDevice
    PROVE  IInv'
<1>0. /\ TypeOK /\ deviceMutex = "device"
      /\ subscriptions' = Cardinality(subscribers) /\ saved = Cardinality(subscribers)
      /\ Cardinality(subscribers) = 0 <=> subscribers = {}
  BY Counting DEF IInv, TypeOK, CountInv, SwitchDevice
<1>1. TypeOK'
  BY <1>0 DEF TypeOK, SwitchDevice, Return, deviceVars, boundVars
<1>2. LockInv'
  BY <1>0 DEF IInv, LockInv, TypeOK, SwitchDevice, Return
<1>3. CountInv'
  BY <1>0 DEF CountInv, SwitchDevice, Return
<1>4. CloseInv' /\ OpenInv'
  BY <1>0 DEF IInv, CloseInv, OpenInv, SwitchDevice, Return, deviceVars
<1>5. QED BY <1>1, <1>2, <1>3, <1>4 DEF IInv

LEMMA OpenDevicePreserves ==
    ASSUME IInv, OpenDevice
    PROVE  IInv'
<1>0. /\ TypeOK /\ subscriptions = Cardinality(subscribers)
      /\ Cardinality(subscribers) = 0 <=> subscribers = {}
  BY Counting DEF IInv, CountInv, OpenDevice
<1>1. TypeOK'
  BY <1>0 DEF TypeOK, OpenDevice, Return, userVars, deviceVars, boundVars
<1>2. LockInv'
  BY DEF IInv, LockInv, OpenDevice, Return, userVars
<1>3. CountInv'
  BY <1>0 DEF CountInv, OpenDevice, Return, userVars
<1>4. CloseInv' /\ OpenInv'
  BY <1>0 DEF IInv, CloseInv, OpenInv, OpenDevice, Return, userVars, deviceVars
<1>5. QED BY <1>1, <1>2, <1>3, <1>4 DEF IInv

LEMMA OpenedDevicePreserves ==
    ASSUME IInv, OpenedDevice
    PROVE  IInv'
<1>0. TypeOK /\ subscriptions = Cardinality(subscribers) /\ streamMutex = "device"
  BY DEF IInv, TypeOK, CountInv, OpenedDevice
<1>1. TypeOK'
  BY <1>0 DEF TypeOK, OpenedDevice, Return, userVars, boundVars
<1>2. LockInv'
  BY <1>0 DEF IInv, LockInv, OpenedDevice, Return, userVars
<1>3. CountInv'
  BY <1>0 DEF CountInv, OpenedDevice, Return, userVars
<1>4. CloseInv' /\ OpenInv'
  BY DEF IInv, CloseInv, OpenInv, OpenedDevice, Return, userVars
<1>5. QED BY <1>1, <1>2, <1>3, <1>4 DEF IInv
-----------------------------------------------------------------------------
(* The stream thread and the destructor *)

LEMMA StreamPreserves ==
    ASSUME IInv, StreamThread
    PROVE  IInv'
<1>0. TypeOK /\ StreamThread
  BY DEF IInv
<1>1. TypeOK'
  BY <1>0 DEF TypeOK, StreamThread, StreamLocks, StreamReads, StreamEnds, userVars, deviceVars,
       slotVars, mutexes, boundVars
<1>2. LockInv' /\ CountInv'
  BY <1>0 DEF IInv, TypeOK, LockInv, CountInv, StreamThread, StreamLocks, StreamReads, StreamEnds,
       userVars, slotVars, mutexes
<1>3. CloseInv' /\ OpenInv'
  BY <1>0 DEF IInv, CloseInv, OpenInv, StreamThread, StreamLocks, StreamReads, StreamEnds,
       userVars, deviceVars, slotVars, mutexes
<1>4. QED BY <1>1, <1>2, <1>3 DEF IInv

LEMMA DestructorPreserves ==
    ASSUME IInv, Destroy \/ Destructor
    PROVE  IInv'
<1>0. TypeOK /\ LockInv
  BY DEF IInv
<1>1. CASE Destroy \/ LockDevice
  <2>1. TypeOK'
    BY <1>0, <1>1 DEF TypeOK, Destroy, LockDevice, userVars, deviceVars, slotVars, boundVars
  <2>2. LockInv' /\ CountInv'
    BY <1>0, <1>1 DEF IInv, TypeOK, LockInv, CountInv, Destroy, LockDevice, userVars, slotVars
  <2>3. CloseInv' /\ OpenInv'
    BY <1>0, <1>1 DEF IInv, CloseInv, OpenInv, Destroy, LockDevice, userVars, deviceVars, slotVars
  <2>4. QED BY <2>1, <2>2, <2>3 DEF IInv
<1>2. CASE DeviceThreadEnds
  <2>1. subscribers = {} /\ streamMutex = "gui" /\ deviceMutex # "device"
    BY <1>0, <1>2 DEF LockInv, DeviceThreadEnds
  <2>2. TypeOK'
    BY <1>0, <1>2, <2>1 DEF TypeOK, DeviceThreadEnds, userVars, deviceVars, boundVars
  <2>3. LockInv' /\ CountInv'
    BY <1>0, <1>2, <2>1 DEF IInv, LockInv, CountInv, DeviceThreadEnds, userVars
  <2>4. CloseInv' /\ OpenInv'
    BY <1>0, <1>2, <2>1 DEF IInv, CloseInv, OpenInv, DeviceThreadEnds, userVars, deviceVars
  <2>5. QED BY <2>2, <2>3, <2>4 DEF IInv
<1>3. CASE StreamFutureEnds
  <2>1. slot = "ended" /\ deviceMutex # "device" /\ subscribers = {}
    BY <1>0, <1>3 DEF LockInv, StreamFutureEnds
  <2>2. TypeOK'
    BY <1>0, <1>3, <2>1 DEF TypeOK, StreamFutureEnds, userVars, deviceVars, slotVars, boundVars
  <2>3. LockInv' /\ CountInv'
    BY <1>0, <1>3, <2>1 DEF IInv, LockInv, CountInv, StreamFutureEnds, userVars, slotVars
  <2>4. CloseInv' /\ OpenInv'
    BY <1>0, <1>3, <2>1 DEF IInv, CloseInv, OpenInv, StreamFutureEnds, userVars, deviceVars, slotVars
  <2>5. QED BY <2>2, <2>3, <2>4 DEF IInv
<1>4. QED BY <1>1, <1>2, <1>3 DEF Destructor
-----------------------------------------------------------------------------
(* The theorems *)

LEMMA NextPreserves ==
    ASSUME IInv, [Next]_vars
    PROVE  IInv'
<1>1. CASE UserStep
  BY <1>1, SubscribePreserves, UnsubscribePreserves DEF UserStep
<1>2. CASE \E d \in Devices \cup {NONE} : InvokeSetupDevice(d)
  BY <1>2, InvokePreserves
<1>3. CASE DeviceThread
  BY <1>3, RunSlotPreserves, SetupDevicePreserves, CloseDevicePreserves, SwitchDevicePreserves,
     OpenDevicePreserves, OpenedDevicePreserves DEF DeviceThread
<1>4. CASE StreamThread \/ Destroy \/ Destructor
  BY <1>4, StreamPreserves, DestructorPreserves
<1>5. CASE UNCHANGED vars
  BY <1>5 DEF IInv, TypeOK, LockInv, CountInv, CloseInv, OpenInv, vars, userVars, deviceVars,
     slotVars, mutexes, boundVars
<1>6. QED BY <1>1, <1>2, <1>3, <1>4, <1>5 DEF Next

LEMMA IInvHolds == Spec => []IInv
BY InitIInv, NextPreserves, PTL DEF Spec

\* The types, and that each lock is held exactly where the code holds it.
THEOREM TypeOKHolds == Spec => []TypeOK
<1>1. IInv => TypeOK
  BY DEF IInv
<1>2. QED BY <1>1, IInvHolds, PTL

\* For any number of users and switches of the device, subscriptions is the number of users
\* whenever setupDevice is not in the middle of its trick with it.
THEOREM SubscriptionsCountedHolds == Spec => []SubscriptionsCounted
<1>1. IInv => SubscriptionsCounted
  BY DEF IInv, CountInv, SubscriptionsCounted
<1>2. QED BY <1>1, IInvHolds, PTL

\* Once every queued slot has run, the camera is off if nobody uses it, and on if somebody
\* does, a device is chosen and it could be opened.
THEOREM CameraFollowsUseHolds == Spec => []CameraFollowsUse
<1>1. IInv => ClosedWhenUnused
  BY DEF IInv, CloseInv, ClosedWhenUnused, Settled, Queued
<1>2. IInv => OpenWhenUsed
  BY DEF IInv, LockInv, OpenInv, OpenWhenUsed, Settled, Queued
<1>3. IInv => CameraFollowsUse
  BY <1>1, <1>2 DEF CameraFollowsUse
<1>4. QED BY <1>3, IInvHolds, PTL

\* The device stays as it is while the stream thread reads it: whoever changes it holds
\* streamMutex.
THEOREM DeviceKeptWhileReadHolds == Spec => DeviceKeptWhileRead
<1>1. ASSUME IInv, [Next]_vars
      PROVE  [stream = "reading" /\ stream' = "reading" => device' = device]_vars
  <2>1. SUFFICES ASSUME stream = "reading", Next
                 PROVE  device' = device
    BY <1>1
  <2>2. streamMutex = "stream" /\ slot # "opening" /\ gui # "wait"
    BY <1>1, <2>1 DEF IInv, TypeOK, LockInv
  <2>3. CASE UserStep
    BY <2>3 DEF UserStep, Subscribe, Unsubscribe, deviceVars
  <2>4. CASE \E d \in Devices \cup {NONE} : InvokeSetupDevice(d)
    BY <2>4 DEF InvokeSetupDevice, deviceVars
  <2>5. CASE DeviceThread
    BY <2>2, <2>5 DEF DeviceThread, RunSlot, SetupDevice, CloseDevice, SwitchDevice, OpenDevice,
       OpenedDevice, deviceVars
  <2>6. CASE StreamThread
    BY <2>6 DEF StreamThread, StreamLocks, StreamReads, StreamEnds, deviceVars
  <2>7. CASE Destroy \/ Destructor
    BY <2>2, <2>7 DEF Destroy, Destructor, LockDevice, DeviceThreadEnds, StreamFutureEnds, deviceVars
  <2>8. QED BY <2>1, <2>3, <2>4, <2>5, <2>6, <2>7 DEF Next
<1>2. QED BY <1>1, IInvHolds, PTL DEF Spec, DeviceKeptWhileRead
=============================================================================
