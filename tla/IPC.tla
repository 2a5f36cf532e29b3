--------------------------------- MODULE IPC ---------------------------------
(* The qTox processes of one user and the shared memory they find each other   *)
(* through: the IPC class, and the part of AppManager::startGui that uses it.  *)
(* The memory is locked with QSharedMemory::lock, which blocks the caller;     *)
(* holder is the process inside processEvents, whose loop over the events is   *)
(* modelled turn by turn.  A handler runs inside a turn, with the memory       *)
(* locked: those of "activate" and "save" return at once, that of "uri" shows  *)
(* a dialog.  They accept every event that startGui posts.  The clock counts   *)
(* seconds, as time(nullptr) does.  A process posts at most one event in its   *)
(* life, so an event is known by its sender.                                   *)
EXTENDS Integers, Sequences, FiniteSets

CONSTANTS
    Instances,         \* the processes
    Profiles,          \* profile ids, with that of no current profile
    AnyProfile,        \* dest 0: the owner of the shared memory
    Nobody,            \* globalId 0, and no holder of the lock
    QueueSize,         \* EVENT_QUEUE_SIZE
    GcTimeout,         \* EVENT_GC_TIMEOUT
    OwnershipTimeout,  \* OWNERSHIP_TIMEOUT_S
    Period,            \* EVENT_TIMER_MS, in seconds
    WaitTimeout,       \* the timeout startGui waits with
    Names,             \* names of events the processes are started with
    Slack,             \* how late, in seconds, an event loop may run a timer
    StartTime,         \* the time at the start
    LastLaunch,        \* bound: the last second in which a process starts
    MaxTime,           \* bound: the last second
    MaxCrashes         \* bound: processes that crash

ASSUME IPCAssumption ==
    /\ Nobody \notin Instances /\ AnyProfile \notin Profiles
    /\ Names \subseteq {"activate", "uri", "save"}
    /\ {QueueSize, GcTimeout, OwnershipTimeout, Period, WaitTimeout, Slack, StartTime, LastLaunch,
        MaxTime, MaxCrashes} \subseteq Nat
    /\ QueueSize > 0 /\ OwnershipTimeout > 0 /\ StartTime > OwnershipTimeout
    /\ StartTime <= MaxTime /\ IsFiniteSet(Instances)

VARIABLES
    clock,
    exists,    \* whether the shared memory exists
    mem,       \* its contents, an IPCMemory
    holder,    \* the process in processEvents, with the memory locked
    handling,  \* the slot of the event whose handler it runs, 0 for none
    pc,        \* where each process is
    name, dest, profileId, eventHandlers, \* what it was started with, and IPC's fields
    due,       \* when its timer fires
    wait,      \* waitUntilAccepted: when it started, the time of the event, and whether the
               \* memory was zeroed since
    handled,   \* the processes that have handled the event of each one, in order
    interrupted, \* pairs of a sender and a process that crashed in the handler of its event
    crashes

local == <<name, dest, profileId, eventHandlers>>
past  == <<handled, interrupted>>
vars  == <<clock, exists, mem, holder, handling, pc, local, due, wait, past, crashes>>
-----------------------------------------------------------------------------
Slots == 1..QueueSize
Free == [by |-> Nobody, dest |-> AnyProfile, posted |-> 0, processed |-> 0, accepted |-> FALSE]
ZeroMemory == [globalId |-> Nobody, lastEvent |-> 0, lastProcessed |-> 0,
               events |-> [k \in Slots |-> Free]]
OwnedBy(i) == [ZeroMemory EXCEPT !.globalId = i, !.lastProcessed = clock]

Ended == {"off", "done", "closed", "crashed"}
Attached(i) == pc[i] \notin Ended
\* The event loop runs: the timer of IPC can fire.
InLoop(i) == pc[i] \in {"waiting", "login", "running", "loggedOut"}
Unlocked == holder = Nobody

\* All processes that are waiting lose their events.
ZeroedBy(i) ==
    /\ mem' = OwnedBy(i)
    /\ wait' = [j \in Instances |-> IF pc[j] = "waiting" THEN [wait[j] EXCEPT !.lost = TRUE]
                                     ELSE wait[j]]

Goto(i, where) == pc' = [pc EXCEPT ![i] = where]
WaitFor(time) == [since |-> clock, time |-> time, lost |-> FALSE]
NoWait == [since |-> 0, time |-> 0, lost |-> FALSE]

\* The process has ended: what was its own is forgotten.
Forget(i) == /\ due' = [due EXCEPT ![i] = 0]
             /\ wait' = [wait EXCEPT ![i] = NoWait]
             /\ eventHandlers' = [eventHandlers EXCEPT ![i] = {}]
             /\ profileId' = [profileId EXCEPT ![i] = AnyProfile]
             /\ dest' = [dest EXCEPT ![i] = AnyProfile]
             /\ UNCHANGED name

\* QSharedMemory detaches; the last one to do so removes the memory.
Detach(i) == exists' = (\E j \in Instances \ {i} : Attached(j))
-----------------------------------------------------------------------------
(* The constructor. *)

\* create succeeds, or else attach does.
Launch(i, n, p, d) ==
    /\ pc[i] = "off" /\ clock <= LastLaunch
    /\ name' = [name EXCEPT ![i] = n]
    /\ profileId' = [profileId EXCEPT ![i] = p]
    /\ dest' = [dest EXCEPT ![i] = d]
    /\ exists' = TRUE
    /\ IF exists THEN UNCHANGED mem /\ Goto(i, "attached")
                 ELSE mem' = ZeroMemory /\ Goto(i, "created")
    /\ UNCHANGED <<clock, holder, handling, eventHandlers, due, wait, past, crashes>>

\* The process that created the memory locks it and takes ownership.
TakeFirstOwnership(i) ==
    /\ pc[i] = "created" /\ Unlocked
    /\ ZeroedBy(i)
    /\ Goto(i, "attached")
    /\ UNCHANGED <<clock, exists, holder, handling, local, due, past, crashes>>
-----------------------------------------------------------------------------
(* processEvents: at the end of the constructor, and whenever the timer fires. *)

\* Mutant: ownership is taken only when nobody has it.
ProcessEventsIfFree(i) ==
    /\ Unlocked
    /\ pc[i] = "attached" \/ (InLoop(i) /\ due[i] <= clock)
    /\ holder' = i
    /\ mem' = IF mem.globalId \in {i, Nobody} THEN [mem EXCEPT !.globalId = i, !.lastProcessed = clock]
              ELSE mem
    /\ UNCHANGED <<clock, exists, handling, pc, local, due, wait, past, crashes>>

ProcessEvents(i) ==
    /\ Unlocked
    /\ pc[i] = "attached" \/ (InLoop(i) /\ due[i] <= clock)
    /\ holder' = i
    /\ \/ /\ mem.globalId # i /\ clock - mem.lastProcessed >= OwnershipTimeout
          /\ ZeroedBy(i)
       \/ /\ mem.globalId = i \/ clock - mem.lastProcessed < OwnershipTimeout
          /\ mem' = IF mem.globalId = i THEN [mem EXCEPT !.lastProcessed = clock] ELSE mem
          /\ UNCHANGED wait
    /\ UNCHANGED <<clock, exists, handling, pc, local, due, past, crashes>>

\* Mutant: an event that nobody processes is kept.
ExpiredIfProcessed(e) == e.processed # 0 /\ clock - e.processed > GcTimeout

Expired(e) == IF e.processed # 0 THEN clock - e.processed > GcTimeout
                                 ELSE clock - e.posted > GcTimeout

\* The slots whose event fetchEvent can return to i.
Fetchable(i) ==
    {k \in Slots : LET e == mem.events[k]
                   IN /\ e.posted # 0 /\ e.processed = 0 /\ ~Expired(e) /\ e.by # i
                      /\ e.dest = profileId[i] \/ (e.dest = AnyProfile /\ mem.globalId = i)}

\* The events when fetchEvent has come to slot k, with those it passed collected.
CollectedBefore(k) ==
    [s \in Slots |-> IF s < k /\ Expired(mem.events[s]) THEN Free ELSE mem.events[s]]

\* The loops over the events stop at the first slot they look for.
First(k, S) == k \in S /\ \A s \in S : k <= s

\* One turn of the loop, up to the handler: it runs with the memory locked.  Without a
\* handler the event is fetched again, at once.
RunEventHandler(i) ==
  \E k \in Slots :
    LET sender == mem.events[k].by
    IN /\ holder = i /\ handling = 0 /\ First(k, Fetchable(i))
       /\ mem' = [mem EXCEPT !.events = CollectedBefore(k)]
       /\ \/ /\ name[sender] \in eventHandlers[i]
             /\ handling' = k
             /\ handled' = [handled EXCEPT ![sender] = Append(@, i)]
          \/ /\ name[sender] \notin eventHandlers[i]
             /\ UNCHANGED <<handling, handled>>
       /\ UNCHANGED <<clock, exists, holder, pc, local, due, wait, interrupted, crashes>>

\* Mutant: an event for the owner is not marked as processed.
EventHandledUnmarked(i) ==
    LET now == IF mem.events[handling].dest = AnyProfile THEN 0 ELSE clock
    IN /\ holder = i /\ handling # 0
       /\ mem' = [mem EXCEPT !.events[handling].accepted = TRUE, !.events[handling].processed = now]
       /\ handling' = 0
       /\ UNCHANGED <<clock, exists, holder, pc, local, due, wait, past, crashes>>

\* The handler has returned true, and the event is marked.
EventHandled(i) ==
    /\ holder = i /\ handling # 0
    /\ mem' = [mem EXCEPT !.events[handling].accepted = TRUE, !.events[handling].processed = clock]
    /\ handling' = 0
    /\ UNCHANGED <<clock, exists, holder, pc, local, due, wait, past, crashes>>

\* The holder of the lock shows the dialog of the handler of "uri".
DialogOpen == handling # 0 /\ name[mem.events[handling].by] = "uri"

\* The loop ends.
Unlock(i) ==
    /\ holder = i /\ handling = 0 /\ Fetchable(i) = {}
    /\ mem' = [mem EXCEPT !.events = CollectedBefore(QueueSize + 1)]
    /\ holder' = Nobody
    /\ due' = [due EXCEPT ![i] = clock + Period]
    /\ IF pc[i] = "attached" THEN Goto(i, "started") ELSE UNCHANGED pc
    /\ UNCHANGED <<clock, exists, handling, local, wait, past, crashes>>
-----------------------------------------------------------------------------
(* AppManager::startGui. *)

EmptySlots == {k \in Slots : mem.events[k].posted = 0}
NextTime == IF mem.lastEvent + 1 > clock THEN mem.lastEvent + 1 ELSE clock
NewEvent(i, time) == [Free EXCEPT !.by = i, !.dest = dest[i], !.posted = time]

\* Mutant: lastEvent is not taken into account.
PostEventAtClock(i) ==
  \E k \in Slots :
    /\ pc[i] = "started" /\ Unlocked /\ mem.globalId # i /\ First(k, EmptySlots)
    /\ Goto(i, "waiting")
    /\ mem' = [mem EXCEPT !.lastEvent = clock, !.events[k] = NewEvent(i, clock)]
    /\ wait' = [wait EXCEPT ![i] = WaitFor(clock)]
    /\ UNCHANGED <<clock, exists, holder, handling, local, due, past, crashes>>

\* isCurrentOwner and postEvent; 0 is the time of an event that found no slot.
PostEvent(i) ==
    /\ pc[i] = "started" /\ Unlocked
    /\ \/ /\ mem.globalId = i
          /\ Goto(i, "loading")
          /\ UNCHANGED <<mem, wait>>
       \/ /\ mem.globalId # i /\ EmptySlots = {}
          /\ Goto(i, "waiting")
          /\ wait' = [wait EXCEPT ![i] = WaitFor(0)]
          /\ UNCHANGED mem
       \/ /\ mem.globalId # i
          /\ \E k \in Slots :
               /\ First(k, EmptySlots)
               /\ mem' = [mem EXCEPT !.lastEvent = NextTime, !.events[k] = NewEvent(i, NextTime)]
          /\ Goto(i, "waiting")
          /\ wait' = [wait EXCEPT ![i] = WaitFor(NextTime)]
    /\ UNCHANGED <<clock, exists, holder, handling, local, due, past, crashes>>

\* isEventAccepted
Accepted(i) ==
    /\ mem.lastProcessed > wait[i].time
    /\ \E k \in Slots : /\ mem.events[k].posted = wait[i].time
                        /\ mem.events[k].processed # 0 /\ mem.events[k].accepted

\* waitUntilAccepted returns true, and the process exits.
LeaveToOther(i) ==
    /\ pc[i] = "waiting" /\ Unlocked /\ Accepted(i)
    /\ Goto(i, "done")
    /\ Detach(i)
    /\ mem' = IF mem.globalId = i THEN [mem EXCEPT !.globalId = Nobody] ELSE mem
    /\ Forget(i)
    /\ UNCHANGED <<clock, holder, handling, past, crashes>>

\* waitUntilAccepted returns false.
GiveUp(i) ==
    /\ pc[i] = "waiting" /\ Unlocked /\ ~Accepted(i)
    /\ clock - wait[i].since >= WaitTimeout
    /\ Goto(i, "loading")
    /\ wait' = [wait EXCEPT ![i] = NoWait]
    /\ UNCHANGED <<clock, exists, mem, holder, handling, local, due, past, crashes>>

\* The login screen, an event loop.  With -l it is shown without posting an event.
ShowLogin(i) ==
    /\ pc[i] \in {"started", "loading"} /\ holder # i
    /\ Goto(i, "login")
    /\ UNCHANGED <<clock, exists, mem, holder, handling, local, due, wait, past, crashes>>

\* No other process runs the profile: it would hold its lock.
NotRun(p) == \A j \in Instances : pc[j] = "running" => profileId[j] # p

\* A profile is loaded, automatically the one that was asked for or was last used, and IPC
\* follows the current profile.  The first time the handlers are registered, and an event
\* other than "activate" is handled here.
Login(i, p) ==
    /\ pc[i] \in {"loading", "login", "loggedOut"} /\ holder # i /\ NotRun(p)
    /\ pc[i] = "loading" => p = IF dest[i] = AnyProfile THEN profileId[i] ELSE dest[i]
    /\ profileId' = [profileId EXCEPT ![i] = p]
    /\ \/ /\ pc[i] # "loggedOut"
          /\ eventHandlers' = [eventHandlers EXCEPT ![i] = {"activate", "uri", "save"}]
          /\ handled' = IF name[i] = "activate" THEN handled
                        ELSE [handled EXCEPT ![i] = Append(@, i)]
       \/ /\ pc[i] = "loggedOut"
          /\ UNCHANGED <<eventHandlers, handled>>
    /\ Goto(i, "running")
    /\ UNCHANGED <<clock, exists, mem, holder, handling, name, dest, due, wait, interrupted,
                   crashes>>

\* The profile is renamed, and its id with it.
Rename(i, p) ==
    /\ pc[i] = "running" /\ holder # i /\ NotRun(p)
    /\ profileId' = [profileId EXCEPT ![i] = p]
    /\ UNCHANGED <<clock, exists, mem, holder, handling, pc, name, dest, eventHandlers, due, wait,
                   past, crashes>>

\* Logging out deletes the Widget, and with it the handlers that it registered; "uri" and
\* the profile id stay.
Logout(i) ==
    /\ pc[i] = "running" /\ holder # i
    /\ Goto(i, "loggedOut")
    /\ eventHandlers' = [eventHandlers EXCEPT ![i] = {"uri"}]
    /\ UNCHANGED <<clock, exists, mem, holder, handling, name, dest, profileId, due, wait, past,
                   crashes>>

\* Mutant: the destructor runs inside a handler and does not wait for the lock.
ExitInHandler(i) ==
    /\ pc[i] \in {"loading", "login", "running", "loggedOut"}
    /\ Goto(i, "closed")
    /\ Detach(i)
    /\ mem' = IF mem.globalId = i THEN [mem EXCEPT !.globalId = Nobody] ELSE mem
    /\ Forget(i)
    /\ UNCHANGED <<clock, holder, handling, past, crashes>>

\* The destructor.
Exit(i) ==
    /\ pc[i] \in {"loading", "login", "running", "loggedOut"} /\ Unlocked
    /\ Goto(i, "closed")
    /\ Detach(i)
    /\ mem' = IF mem.globalId = i THEN [mem EXCEPT !.globalId = Nobody] ELSE mem
    /\ Forget(i)
    /\ UNCHANGED <<clock, holder, handling, past, crashes>>

\* A crash leaves the memory; the system undoes its lock.
CrashOf(i) ==
    /\ Attached(i) /\ crashes < MaxCrashes
    /\ crashes' = crashes + 1
    /\ Goto(i, "crashed")
    /\ \/ /\ holder = i
          /\ holder' = Nobody /\ handling' = 0
          /\ interrupted' = IF handling = 0 THEN interrupted
                            ELSE interrupted \union {<<mem.events[handling].by, i>>}
       \/ /\ holder # i
          /\ UNCHANGED <<holder, handling, interrupted>>
    /\ Forget(i)
    /\ UNCHANGED <<clock, exists, mem, handled>>

\* The loop of processEvents goes round without a handler.
Spinning(i) ==
    /\ holder = i /\ handling = 0
    /\ \E k \in Slots : First(k, Fetchable(i)) /\ name[mem.events[k].by] \notin eventHandlers[i]

\* A second passes.  Only a spinning process and one that shows a dialog keep the lock for
\* that long, and no event loop that is not blocked on it is more than Slack late.  The
\* constructor and startGui up to waitUntilAccepted take less than a second; loading a
\* profile takes any time.
Tick ==
    /\ clock < MaxTime
    /\ \A i \in Instances : holder = i => Spinning(i) \/ DialogOpen
    /\ Unlocked => \A i \in Instances :
          /\ InLoop(i) => clock < due[i] + Slack
          /\ pc[i] \notin {"created", "attached", "started"}
          /\ pc[i] = "waiting" => clock < wait[i].since + WaitTimeout + Slack
    /\ clock' = clock + 1
    /\ UNCHANGED <<exists, mem, holder, handling, pc, local, due, wait, past, crashes>>
-----------------------------------------------------------------------------
Init ==
    /\ clock = StartTime /\ exists = FALSE /\ mem = ZeroMemory /\ holder = Nobody
    /\ handling = 0 /\ interrupted = {}
    /\ pc = [i \in Instances |-> "off"]
    /\ name = [i \in Instances |-> "activate"]
    /\ dest = [i \in Instances |-> AnyProfile]
    /\ profileId = [i \in Instances |-> AnyProfile]
    /\ eventHandlers = [i \in Instances |-> {}]
    /\ due = [i \in Instances |-> 0]
    /\ wait = [i \in Instances |-> NoWait]
    /\ handled = [i \in Instances |-> <<>>]
    /\ crashes = 0

Step(i) ==
    \/ TakeFirstOwnership(i) \/ ProcessEvents(i) \/ RunEventHandler(i) \/ Unlock(i)
    \/ PostEvent(i) \/ LeaveToOther(i) \/ GiveUp(i)
    \/ ~DialogOpen /\ EventHandled(i)

\* The user closes the dialog.
CloseDialog(i) == DialogOpen /\ EventHandled(i)

Next ==
    \/ \E i \in Instances :
         \/ \E n \in Names, p \in Profiles, d \in Profiles \union {AnyProfile} : Launch(i, n, p, d)
         \/ Step(i) \/ CloseDialog(i)
         \/ \E p \in Profiles : Login(i, p) \/ Rename(i, p)
         \/ ShowLogin(i) \/ Logout(i) \/ Exit(i) \/ CrashOf(i)
    \/ Tick

\* A process that can run does, and time passes.  No user has to close a dialog.
Fairness == WF_vars(Tick) /\ \A i \in Instances : WF_vars(Step(i))
Spec == Init /\ [][Next]_vars
FairSpec == Spec /\ Fairness
-----------------------------------------------------------------------------
(* Properties. *)

EventType == [by : Instances \union {Nobody}, dest : Profiles \union {AnyProfile},
              posted : 0..(MaxTime + Cardinality(Instances)), processed : 0..MaxTime,
              accepted : BOOLEAN]

\* Types, and three facts about the memory: it exists while a process is attached, a handler
\* runs only with the memory locked, for an event that is not processed yet, and an event
\* carries the name of a process that has posted it.
TypeOK ==
    /\ clock \in StartTime..MaxTime /\ exists \in BOOLEAN
    /\ mem.globalId \in Instances \union {Nobody}
    /\ mem.events \in [Slots -> EventType]
    /\ holder \in Instances \union {Nobody}
    /\ holder # Nobody => Attached(holder)
    /\ (\E i \in Instances : Attached(i)) => exists
    /\ handling # 0 => /\ handling \in Slots /\ holder # Nobody
                      /\ mem.events[handling].posted # 0 /\ mem.events[handling].processed = 0
    /\ \A k \in Slots : mem.events[k].posted # 0 =>
         pc[mem.events[k].by] \notin {"off", "created", "attached", "started"}

\* ipc.cpp:345-352: an instance other than the sender handles an event only if everyone that
\* did before crashed in the handler, before the event was marked.
HandledOnce ==
    \A i \in Instances : \A k, l \in DOMAIN handled[i] :
        k < l /\ handled[i][k] # i /\ handled[i][l] # i => <<i, handled[i][k]>> \in interrupted

\* isEventAccepted looks an event up by the time it was posted: postEvent gives no time to
\* two events of the memory, however many are posted in a second.
EventTimesDistinct ==
    \A k, l \in Slots :
        k # l /\ mem.events[k].posted # 0 => mem.events[k].posted # mem.events[l].posted

\* appmanager.cpp:334-346: a process leaves its event to the others only if one of them has
\* handled it, whatever becomes of its slot, unless the memory was zeroed while it waited.
LeavesOnlyIfHandled ==
    [][\A i \in Instances : pc[i] = "waiting" /\ pc'[i] = "done" =>
          wait[i].lost \/ \E k \in DOMAIN handled[i] : handled[i][k] # i]_vars

\* Somebody owns the shared memory again after a crash or an exit (ipc.cpp:71-76), unless
\* time runs out or a process shows a handler's dialog with the memory locked: a process
\* needs OwnershipTimeout and a turn of its timer to notice, and another may hold the lock
\* until the event it spins on expires.
OwnerEventually ==
    (\E i \in Instances : InLoop(i))
      /\ clock + OwnershipTimeout + Period + GcTimeout + Slack < MaxTime
        ~> \/ mem.globalId # Nobody /\ Attached(mem.globalId)
           \/ ~\E i \in Instances : InLoop(i)
           \/ DialogOpen

\* startGui gets out of waitUntilAccepted, with an owner that is dead, spins or never answers,
\* unless a process shows a handler's dialog: isEventAccepted then waits for the lock.
WaitEnds ==
    \A i \in Instances :
        pc[i] = "waiting" /\ clock + WaitTimeout + GcTimeout + Slack < MaxTime
            ~> pc[i] # "waiting" \/ DialogOpen
-----------------------------------------------------------------------------
(* What comments in the code say, and the code does not do. *)

\* appmanager.cpp:334: "If someone else processed it, we're done here".
DoneOnlyIfHandled == \A i \in Instances : pc[i] = "done" => handled[i] # <<>>

\* ipc.cpp:345-346: "Global events should be processed only by instance that accepted event".
HandledByOne ==
    \A i \in Instances : \A k, l \in DOMAIN handled[i] :
        handled[i][k] # i /\ handled[i][l] # i => k = l

\* ipc.cpp:332: "Non-main instance is limited to events destined for specific profile it runs".
\* A process whose user has logged out still handles the events for its last profile.
LimitedToProfileItRuns ==
    [][\A i, j \in Instances :
          handled'[i] = Append(handled[i], j) /\ j # i /\ mem.globalId # j =>
              pc[j] = "running"]_vars

\* ipc.cpp:194, of a handler: "Should not block for more than a second, at worst".
HandlersAreBrief == [][clock' # clock => handling = 0]_vars

\* appmanager.cpp:390: "Event was not handled by already running instance therefore we
\* handle it ourselves".
HandledHereOnlyIfNotThere == \A i \in Instances : Len(handled[i]) <= 1

\* ipc.cpp:75-76: "If the owner exits normally, it can set the timestamp to 0 first to
\* immediately give ownership".
ImmediateOwnership ==
    [][\A i \in Instances :
          holder' = i /\ holder # i /\ exists /\ mem.globalId = Nobody => mem'.globalId = i]_vars

\* ipc.cpp:73: "If the timestamp isn't updated, that's a timeout and someone else can take
\* ownership".
OwnershipOnlyAfterTimeout ==
    [][\A i, j \in Instances :
          mem.globalId = i /\ mem'.globalId = j /\ i # j /\ Attached(i) =>
              clock - mem.lastProcessed >= OwnershipTimeout]_vars

\* ipc.cpp:323-324: "if the previous owner's dead, we can take ownership now".
OwnershipOnlyFromDead ==
    [][\A i, j \in Instances :
          mem.globalId = i /\ mem'.globalId = j /\ i # j /\ holder' = j => ~Attached(i)]_vars
=============================================================================
