----------------------------- MODULE CameraSource -----------------------------
(* The camera, shared by whoever wants its pictures, between four kinds of      *)
(* threads:                                                                    *)
(*                                                                             *)
(*   users          windows and calls, which subscribe and unsubscribe         *)
(*   device thread  runs the slots that open, close and switch the device      *)
(*   stream thread  reads the open device, frame after frame                   *)
(*   GUI thread     destroys the source when the program ends                  *)
(*                                                                             *)
(* deviceMutex protects the subscriptions and the choice of the device,        *)
(* streamMutex the device, which the stream thread holds for reading while it   *)
(* reads a frame.  A user only queues what the device thread then does under    *)
(* streamMutex alone, so what has been queued and what is true when it runs     *)
(* may differ.  A device is named together with its mode.                       *)
EXTENDS Naturals, Sequences, FiniteSets

CONSTANTS
    Users,             \* windows and calls that show or send the picture
    Devices,           \* devices in their modes
    NONE,              \* CameraDevice::NONE, and no device
    MaxSubscriptions,  \* bound: calls of subscribe
    MaxSwitches,       \* bound: calls of setupDevice
    MaxExits           \* bound: 1 if the program may end, or 0

ASSUME CameraAssumption ==
    /\ IsFiniteSet(Users)
    /\ NONE \notin Devices
    /\ {MaxSubscriptions, MaxSwitches, MaxExits} \subseteq Nat

VARIABLES
    subscribers,     \* the users between subscribe and unsubscribe
    subscriptions,   \* CameraSource::subscriptions
    deviceName,      \* CameraSource::deviceName and mode
    device,          \* the device that CameraSource::device is, or NONE
    usable,          \* a stream and a decoder were found in the device
    refused,         \* the device could not be opened when it was last tried
    queue,           \* slots invoked and not yet run by the device thread
    slot,            \* where the device thread is
    chosen, saved,   \* setupDevice: its argument, and the subscriptions it puts aside
    deviceMutex, streamMutex,  \* who holds them
    stream,          \* the stream thread
    gui,             \* the GUI thread in the destructor
    subscribed, switches  \* what has been used of the bounds

userVars == <<subscribers, subscriptions, deviceName>>
deviceVars == <<device, usable, refused>>
slotVars == <<slot, chosen, saved>>
mutexes == <<deviceMutex, streamMutex>>
boundVars == <<subscribed, switches>>
vars == <<userVars, deviceVars, queue, slotVars, mutexes, stream, gui, boundVars>>

Open == [slot |-> "openDevice"]
Close == [slot |-> "closeDevice"]
Setup(d) == [slot |-> "setupDevice", device |-> d]

Init ==
    /\ subscribers = {} /\ subscriptions = 0 /\ deviceName = NONE
    /\ device = NONE /\ usable = FALSE /\ refused = FALSE
    /\ queue = <<>>
    /\ slot = "none" /\ chosen = NONE /\ saved = 0
    /\ deviceMutex = "free" /\ streamMutex = "free"
    /\ stream = "none" /\ gui = "running"
    /\ subscribed = 0 /\ switches = 0
-----------------------------------------------------------------------------
(* Users, in any thread but the device thread: openDevice, closeDevice and      *)
(* setupDevice invoke themselves there.                                        *)

Subscribe(u) ==
    /\ gui = "running" /\ deviceMutex = "free"
    /\ u \notin subscribers /\ subscribed < MaxSubscriptions
    /\ subscribers' = subscribers \cup {u}
    /\ subscriptions' = subscriptions + 1
    /\ queue' = Append(queue, Open)
    /\ subscribed' = subscribed + 1
    /\ UNCHANGED <<deviceName, deviceVars, slotVars, mutexes, stream, gui, switches>>

\* Mutant: a subscription that ends is not noticed while the device is open.
UnsubscribeSilently(u) ==
    /\ gui = "running" /\ deviceMutex = "free"
    /\ u \in subscribers
    /\ subscribers' = subscribers \ {u}
    /\ subscriptions' = subscriptions - 1
    /\ queue' = IF subscriptions = 1 /\ device = NONE THEN Append(queue, Close) ELSE queue
    /\ UNCHANGED <<deviceName, deviceVars, slotVars, mutexes, stream, gui, boundVars>>

\* The last one asks for the device to be closed.
Unsubscribe(u) ==
    /\ gui = "running" /\ deviceMutex = "free"
    /\ u \in subscribers
    /\ subscribers' = subscribers \ {u}
    /\ subscriptions' = subscriptions - 1
    /\ queue' = IF subscriptions = 1 THEN Append(queue, Close) ELSE queue
    /\ UNCHANGED <<deviceName, deviceVars, slotVars, mutexes, stream, gui, boundVars>>

\* AVForm chooses a device, or a call that finds none sets up the default one.
InvokeSetupDevice(d) ==
    /\ gui = "running"
    /\ switches < MaxSwitches /\ switches' = switches + 1
    /\ queue' = Append(queue, Setup(d))
    /\ UNCHANGED <<userVars, deviceVars, slotVars, mutexes, stream, gui, subscribed>>
-----------------------------------------------------------------------------
(* The device thread *)

\* Its event loop; what is queued when exit is called may still be run.
RunSlot ==
    /\ slot = "none" /\ queue # <<>>
    /\ queue' = Tail(queue)
    /\ slot' = Head(queue).slot
    /\ chosen' = IF Head(queue).slot = "setupDevice" THEN Head(queue).device ELSE chosen
    /\ UNCHANGED <<userVars, deviceVars, saved, mutexes, stream, gui, boundVars>>

\* setupDevice up to closeDevice: nothing to do, or the subscriptions are put aside to force
\* the device closed.
SetupDevice ==
    /\ slot = "setupDevice" /\ deviceMutex = "free"
    /\ \/ /\ chosen = deviceName
          /\ slot' = "none"
          /\ UNCHANGED <<deviceMutex, subscriptions, saved>>
       \/ /\ chosen # deviceName
          /\ deviceMutex' = "device"
          /\ slot' = IF subscriptions # 0 THEN "closeDevice" ELSE "switch"
          /\ saved' = subscriptions
          /\ subscriptions' = 0
    /\ UNCHANGED <<subscribers, deviceName, deviceVars, queue, chosen, streamMutex, stream, gui, boundVars>>

\* A slot returns, or openDevice or closeDevice to setupDevice, which then returns or goes on.
Return ==
    /\ slot' = "none"
    /\ deviceMutex' = IF deviceMutex = "device" THEN "free" ELSE deviceMutex

\* Mutant: the device is closed while a frame may be read.
CloseDeviceUnlocked ==
    /\ slot = "closeDevice"
    /\ IF subscriptions = 0
       THEN device' = NONE /\ usable' = FALSE /\ refused' = FALSE
       ELSE UNCHANGED deviceVars
    /\ IF deviceMutex = "device"
       THEN slot' = "switch" /\ UNCHANGED deviceMutex
       ELSE Return
    /\ UNCHANGED <<userVars, queue, chosen, saved, streamMutex, stream, gui, boundVars>>

\* closeDevice, unless somebody has subscribed meanwhile.
CloseDevice ==
    /\ slot = "closeDevice" /\ streamMutex = "free"
    /\ IF subscriptions = 0
       THEN device' = NONE /\ usable' = FALSE /\ refused' = FALSE
       ELSE UNCHANGED deviceVars
    /\ IF deviceMutex = "device"
       THEN slot' = "switch" /\ UNCHANGED deviceMutex
       ELSE Return
    /\ UNCHANGED <<userVars, queue, chosen, saved, streamMutex, stream, gui, boundVars>>

\* The rest of setupDevice
SwitchDevice ==
    /\ slot = "switch"
    /\ deviceName' = chosen
    /\ subscriptions' = saved
    /\ IF saved # 0 /\ chosen # NONE
       THEN slot' = "openDevice" /\ UNCHANGED deviceMutex
       ELSE Return
    /\ UNCHANGED <<subscribers, deviceVars, queue, chosen, saved, streamMutex, stream, gui, boundVars>>

\* openDevice up to CameraDevice::open
OpenDevice ==
    /\ slot = "openDevice" /\ streamMutex = "free"
    /\ IF subscriptions = 0 \/ deviceName = NONE \/ device # NONE
       THEN Return /\ UNCHANGED streamMutex
       ELSE slot' = "opening" /\ streamMutex' = "device" /\ UNCHANGED deviceMutex
    /\ UNCHANGED <<userVars, deviceVars, queue, chosen, saved, stream, gui, boundVars>>

\* The device cannot be opened, or has nothing that can be decoded, or is streamed: by a new
\* stream thread, unless the one of the last device still runs.
OpenedDevice ==
    /\ slot = "opening"
    /\ streamMutex' = "free" /\ Return
    /\ \/ refused' = TRUE /\ UNCHANGED <<device, usable, stream>>
       \/ /\ device' = deviceName /\ refused' = FALSE
          /\ \/ usable' = FALSE /\ UNCHANGED stream
             \/ /\ usable' = TRUE
                /\ stream' = IF stream = "none" THEN "looping" ELSE stream
    /\ UNCHANGED <<userVars, queue, chosen, saved, gui, boundVars>>
-----------------------------------------------------------------------------
(* The stream thread: stream() *)

\* It ends when there is no device, which its future shows a little later.
StreamLocks ==
    /\ stream = "looping" /\ streamMutex = "free"
    /\ \/ device = NONE /\ stream' = "ending" /\ UNCHANGED streamMutex
       \/ device # NONE /\ stream' = "reading" /\ streamMutex' = "stream"
    /\ UNCHANGED <<userVars, deviceVars, queue, slotVars, deviceMutex, gui, boundVars>>

\* Mutant: the lock is kept from one frame to the next.
StreamReadsOn ==
    /\ stream = "reading"
    /\ IF device = NONE
       THEN stream' = "looping" /\ streamMutex' = "free"
       ELSE UNCHANGED <<stream, streamMutex>>
    /\ UNCHANGED <<userVars, deviceVars, queue, slotVars, deviceMutex, gui, boundVars>>

\* A frame, which is emitted to the threads of those who are connected.
StreamReads ==
    /\ stream = "reading"
    /\ stream' = "looping" /\ streamMutex' = "free"
    /\ UNCHANGED <<userVars, deviceVars, queue, slotVars, deviceMutex, gui, boundVars>>

StreamEnds ==
    /\ stream = "ending"
    /\ stream' = "none"
    /\ UNCHANGED <<userVars, deviceVars, queue, slotVars, mutexes, gui, boundVars>>
-----------------------------------------------------------------------------
(* ~CameraSource, in the GUI thread, when windows and calls are gone *)

Destroy ==
    /\ gui = "running" /\ MaxExits > 0
    /\ subscribers = {}
    /\ streamMutex = "free" /\ streamMutex' = "gui"
    /\ gui' = "deviceMutex"
    /\ UNCHANGED <<userVars, deviceVars, queue, slotVars, deviceMutex, stream, boundVars>>

LockDevice ==
    /\ gui = "deviceMutex" /\ deviceMutex = "free"
    /\ deviceMutex' = "gui"
    /\ gui' = "wait"
    /\ UNCHANGED <<userVars, deviceVars, queue, slotVars, streamMutex, stream, boundVars>>

\* deviceThread->wait() returns when no slot runs.  Without a chosen device that is all.
DeviceThreadEnds ==
    /\ gui = "wait" /\ slot = "none"
    /\ slot' = "ended"
    /\ streamMutex' = "free"
    /\ IF deviceName = NONE
       THEN gui' = "gone" /\ deviceMutex' = "free" /\ UNCHANGED deviceVars
       ELSE gui' = "streamFuture" /\ device' = NONE /\ usable' = FALSE
            /\ UNCHANGED <<refused, deviceMutex>>
    /\ UNCHANGED <<userVars, queue, chosen, saved, stream, boundVars>>

StreamFutureEnds ==
    /\ gui = "streamFuture" /\ stream = "none"
    /\ gui' = "gone" /\ deviceMutex' = "free"
    /\ UNCHANGED <<userVars, deviceVars, queue, slotVars, streamMutex, stream, boundVars>>
-----------------------------------------------------------------------------
UserStep == \E u \in Users : Subscribe(u) \/ Unsubscribe(u)
DeviceThread == RunSlot \/ SetupDevice \/ CloseDevice \/ SwitchDevice \/ OpenDevice \/ OpenedDevice
StreamThread == StreamLocks \/ StreamReads \/ StreamEnds
Destructor == LockDevice \/ DeviceThreadEnds \/ StreamFutureEnds

Next ==
    \/ UserStep
    \/ \E d \in Devices \cup {NONE} : InvokeSetupDevice(d)
    \/ DeviceThread \/ StreamThread
    \/ Destroy \/ Destructor

Spec == Init /\ [][Next]_vars

\* Threads that can go on do, and frames come.  A writer is not passed by readers forever:
\* QReadWriteLock lets no new reader in while a writer waits.
FairSpec == Spec /\ SF_vars(DeviceThread) /\ WF_vars(StreamThread) /\ WF_vars(Destructor)
-----------------------------------------------------------------------------
(* Properties *)

\* Types, and the locks: setupDevice holds deviceMutex from the first change to its end.
TypeOK ==
    /\ subscribers \subseteq Users /\ subscriptions \in Nat /\ saved \in Nat
    /\ {deviceName, device, chosen} \subseteq Devices \cup {NONE}
    /\ usable \in BOOLEAN /\ refused \in BOOLEAN
    /\ queue \in Seq({Open, Close} \cup [slot : {"setupDevice"}, device : Devices \cup {NONE}])
    /\ slot \in {"none", "openDevice", "opening", "closeDevice", "setupDevice", "switch", "ended"}
    /\ deviceMutex \in {"free", "device", "gui"}
    /\ streamMutex \in {"free", "device", "stream", "gui"}
    /\ stream \in {"none", "looping", "reading", "ending"}
    /\ gui \in {"running", "deviceMutex", "wait", "streamFuture", "gone"}
    /\ streamMutex = "stream" <=> stream = "reading"
    /\ streamMutex = "device" <=> slot = "opening"
    /\ slot = "switch" => deviceMutex = "device"
    /\ {subscribed, switches} \subseteq Nat

Settled == queue = <<>> /\ slot = "none"

\* While setupDevice puts the subscriptions aside nobody's subscription is lost or
\* forgotten.
SubscriptionsCounted ==
    deviceMutex # "device" => subscriptions = Cardinality(subscribers)

\* The device is never closed under the stream thread that reads it, nor exchanged for
\* another one.
DeviceKeptWhileRead ==
    [][stream = "reading" /\ stream' = "reading" => device' = device]_vars

\* When all slots have been run the camera is off if nobody uses it,
ClosedWhenUnused ==
    Settled /\ subscribers = {} => device = NONE

\* and on if somebody does, a device is chosen and could be opened.
OpenWhenUsed ==
    Settled /\ subscribers # {} /\ deviceName # NONE => device # NONE \/ refused

\* Both, whatever the order in which subscriptions began and ended, devices were chosen and
\* the slots of all that came to run.
CameraFollowsUse == ClosedWhenUnused /\ OpenWhenUsed

\* The camera is let go after the last user has left, although the stream thread goes on
\* taking the lock for one frame after the other.
CameraReleased ==
    subscribers = {} ~> device = NONE \/ subscribers # {} \/ gui # "running"
-----------------------------------------------------------------------------
(* What comments in the code say, and the code does not do. *)

\* camerasource.cpp:252: "If a device is already open, the source will seamlessly switch to
\* the new device."
SwitchesDevice ==
    Settled /\ device # NONE => device = deviceName

\* videosource.h: "If subscribe successfully opens the source, it will start emitting
\* frameAvailable signals."
StartsStreaming ==
    Settled /\ subscribers # {} /\ device # NONE /\ usable => stream \in {"looping", "reading"}

\* camerasource.cpp:295: "Stop the device thread"
DeviceThreadStops ==
    gui = "deviceMutex" ~> slot = "ended"
=============================================================================
