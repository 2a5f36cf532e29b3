------------------------------- MODULE IPCProofs -------------------------------
(* Proofs about IPC for every number of processes, profiles and slots and for   *)
(* all timeouts.                                                                *)
EXTENDS IPC, SequenceTheorems, FiniteSetTheorems, TLAPS

-----------------------------------------------------------------------------
(* Who holds the lock *)

\* Where a process can be inside processEvents.
Holding == {"attached", "waiting", "loading", "login", "running", "loggedOut"}
Places == Holding \cup {"off", "created", "started", "done", "closed", "crashed"}

\* A process that holds the lock is attached, a handler runs only while one does, and the
\* memory is there for those who are attached.
MemoryInv ==
    /\ pc \in [Instances -> Places]
    /\ exists \in BOOLEAN /\ holder \in Instances \union {Nobody}
    /\ \A i \in Instances : holder = i => pc[i] \in Holding
    /\ (\E i \in Instances : Attached(i)) => exists
    /\ handling # 0 => handling \in Slots /\ holder # Nobody

\* A process moves, and nobody takes the lock.
LEMMA MemoryMoves ==
    ASSUME MemoryInv, NEW i \in Instances, NEW where \in Places, Goto(i, where),
           \/ holder' = holder /\ handling' = handling
           \/ holder' = Nobody /\ handling' = 0,
           holder' # i \/ where \in Holding,
           \/ where \notin Ended /\ pc[i] \notin Ended /\ exists' = exists
           \/ where \notin Ended /\ exists' = TRUE
           \/ where \in Ended /\ exists' = exists
           \/ where \in Ended /\ Detach(i)
    PROVE  MemoryInv'
<1>1. pc' = [pc EXCEPT ![i] = where] /\ pc \in [Instances -> Places]
  BY DEF Goto, MemoryInv
<1>2. pc' \in [Instances -> Places] /\ pc'[i] = where
      /\ \A j \in Instances : j # i => pc'[j] = pc[j]
  BY <1>1
<1>3. exists' \in BOOLEAN /\ holder' \in Instances \union {Nobody}
      /\ (handling' # 0 => handling' \in Slots /\ holder' # Nobody)
  BY DEF MemoryInv, Detach
<1>4. ASSUME NEW j \in Instances, holder' = j
      PROVE  pc'[j] \in Holding
  <2>1. holder = j
    BY <1>4, IPCAssumption DEF IPCAssumption
  <2>2. QED BY <1>2, <1>4, <2>1 DEF MemoryInv
<1>5. (\E j \in Instances : Attached(j)') => exists'
  <2> SUFFICES ASSUME NEW j \in Instances, pc'[j] \notin Ended PROVE exists'
    BY DEF Attached
  <2>1. CASE exists' = TRUE
    BY <2>1
  <2>2. CASE exists' = exists /\ (where \in Ended \/ pc[i] \notin Ended)
    BY <1>2, <2>2 DEF MemoryInv, Attached
  <2>3. CASE where \in Ended /\ Detach(i)
    BY <1>2, <2>3 DEF Detach, Attached
  <2>4. QED BY <2>1, <2>2, <2>3
<1>6. QED BY <1>2, <1>3, <1>4, <1>5 DEF MemoryInv

\* No process moves.
LEMMA MemoryStays ==
    ASSUME MemoryInv, pc' = pc, exists' = exists, holder' = holder,
           handling' # 0 => handling' = handling \/ (handling' \in Slots /\ holder # Nobody)
    PROVE  MemoryInv'
BY DEF MemoryInv, Attached

\* The steps that a process takes by itself (IPC and startGui).
LEMMA StepMemory ==
    ASSUME MemoryInv, NEW i \in Instances, Step(i) \/ CloseDialog(i)
    PROVE  MemoryInv'
<1> USE DEF Ended, Places, Holding
<1>1. CASE TakeFirstOwnership(i)
  BY <1>1, MemoryMoves DEF TakeFirstOwnership
<1>2. CASE ProcessEvents(i)
  <2>1. pc' = pc /\ exists' = exists /\ holder' = i /\ handling' = handling
        /\ pc[i] \in Holding
    BY <1>2 DEF ProcessEvents, InLoop
  <2>2. handling = 0
    BY <1>2 DEF ProcessEvents, Unlocked, MemoryInv
  <2>3. \A j \in Instances : holder' = j => pc'[j] \in Holding
    BY <2>1
  <2>4. (\E j \in Instances : Attached(j)') => exists'
    BY <2>1 DEF MemoryInv, Attached
  <2>5. pc' \in [Instances -> Places] /\ exists' \in BOOLEAN /\ holder' \in Instances \union {Nobody}
        /\ handling' = 0
    BY <2>1, <2>2 DEF MemoryInv
  <2>6. QED BY <2>3, <2>4, <2>5 DEF MemoryInv
<1>3. CASE RunEventHandler(i)
  <2>1. pc' = pc /\ exists' = exists /\ holder' = holder /\ holder = i
        /\ (handling' = handling \/ handling' \in Slots)
    BY <1>3 DEF RunEventHandler
  <2>2. QED BY <2>1, IPCAssumption, MemoryStays DEF IPCAssumption
<1>4. CASE Unlock(i)
  <2>1. holder' = Nobody /\ exists' = exists /\ handling' = 0
    BY <1>4 DEF Unlock
  <2>2. CASE pc[i] = "attached" /\ Goto(i, "started")
    BY <2>1, <2>2, IPCAssumption, MemoryMoves DEF IPCAssumption
  <2>3. CASE pc' = pc
    <3>1. \A j \in Instances : holder' # j
      BY <2>1, IPCAssumption DEF IPCAssumption
    <3>2. QED BY <2>1, <2>3, <3>1 DEF MemoryInv, Attached
  <2>4. QED BY <1>4, <2>2, <2>3 DEF Unlock
<1>5. CASE PostEvent(i)
  <2>1. \E where \in {"loading", "waiting"} : Goto(i, where)
    BY <1>5 DEF PostEvent
  <2>2. holder' = holder /\ handling' = handling /\ exists' = exists /\ pc[i] \notin Ended
    BY <1>5 DEF PostEvent
  <2>3. QED BY <2>1, <2>2, MemoryMoves
<1>6. CASE LeaveToOther(i)
  <2>1. holder' = holder /\ handling' = handling /\ holder' # i /\ Detach(i) /\ Goto(i, "done")
    BY <1>6, IPCAssumption DEF LeaveToOther, Unlocked, IPCAssumption
  <2>2. QED BY <2>1, MemoryMoves
<1>7. CASE GiveUp(i)
  BY <1>7, MemoryMoves DEF GiveUp
<1>8. CASE EventHandled(i)
  <2>1. pc' = pc /\ exists' = exists /\ holder' = holder /\ handling' = 0
    BY <1>8 DEF EventHandled
  <2>2. QED BY <2>1, MemoryStays
<1>9. QED BY <1>1, <1>2, <1>3, <1>4, <1>5, <1>6, <1>7, <1>8 DEF Step, CloseDialog

\* Every step: a crash gives the lock back, and ends the handler with its process.
LEMMA NextMemory ==
    ASSUME MemoryInv, [Next]_vars
    PROVE  MemoryInv'
<1> USE DEF Ended, Places, Holding
<1>1. ASSUME NEW i \in Instances, NEW n \in Names, NEW p \in Profiles,
             NEW d \in Profiles \union {AnyProfile}, Launch(i, n, p, d)
      PROVE  MemoryInv'
  <2>1. pc[i] = "off" /\ holder' = holder /\ handling' = handling /\ exists' = TRUE
        /\ \E where \in {"created", "attached"} : Goto(i, where)
    BY <1>1 DEF Launch
  <2>2. holder' # i
    BY <2>1 DEF MemoryInv
  <2>3. QED BY <2>1, <2>2, MemoryMoves
<1>2. CASE \E i \in Instances : Step(i) \/ CloseDialog(i)
  BY <1>2, StepMemory
<1>3. ASSUME NEW i \in Instances, ShowLogin(i) \/ Logout(i) \/ \E p \in Profiles : Login(i, p)
      PROVE  MemoryInv'
  <2>1. holder' = holder /\ handling' = handling /\ exists' = exists /\ pc[i] \notin Ended
        /\ \E where \in {"login", "running", "loggedOut"} : Goto(i, where)
    BY <1>3 DEF ShowLogin, Login, Logout
  <2>2. QED BY <2>1, MemoryMoves
<1>4. ASSUME NEW i \in Instances, NEW p \in Profiles, Rename(i, p)
      PROVE  MemoryInv'
  <2>1. pc' = pc /\ exists' = exists /\ holder' = holder /\ handling' = handling
    BY <1>4 DEF Rename
  <2>2. QED BY <2>1, MemoryStays
<1>5. ASSUME NEW i \in Instances, Exit(i)
      PROVE  MemoryInv'
  <2>1. holder' = holder /\ handling' = handling /\ holder' # i /\ Detach(i) /\ Goto(i, "closed")
    BY <1>5, IPCAssumption DEF Exit, Unlocked, IPCAssumption
  <2>2. QED BY <2>1, MemoryMoves
<1>6. ASSUME NEW i \in Instances, CrashOf(i)
      PROVE  MemoryInv'
  <2>1. Goto(i, "crashed") /\ exists' = exists /\ holder' # i
        /\ \/ holder' = holder /\ handling' = handling
           \/ holder' = Nobody /\ handling' = 0
    BY <1>6, IPCAssumption DEF CrashOf, IPCAssumption
  <2>2. QED BY <2>1, MemoryMoves
<1>7. CASE Tick \/ UNCHANGED vars
  <2>1. pc' = pc /\ exists' = exists /\ holder' = holder /\ handling' = handling
    BY <1>7 DEF Tick, vars
  <2>2. QED BY <2>1, MemoryStays
<1>8. QED BY <1>1, <1>2, <1>3, <1>4, <1>5, <1>6, <1>7 DEF Next

\* No process runs at first.
LEMMA InitMemory == Init => MemoryInv
<1> SUFFICES ASSUME Init PROVE MemoryInv
  OBVIOUS
<1>1. pc = [i \in Instances |-> "off"] /\ exists = FALSE /\ holder = Nobody /\ handling = 0
  BY DEF Init
<1>2. pc \in [Instances -> Places] /\ \A i \in Instances : ~Attached(i)
  BY <1>1 DEF Places, Attached, Ended
<1>3. \A i \in Instances : holder # i
  BY <1>1, IPCAssumption DEF IPCAssumption
<1>4. QED BY <1>1, <1>2, <1>3 DEF MemoryInv
-----------------------------------------------------------------------------
(* The inductive invariant *)

Event == [by : Instances \cup {Nobody}, dest : Profiles \cup {AnyProfile},
          posted : Nat, processed : Nat, accepted : BOOLEAN]
Memory == [globalId : Instances \cup {Nobody}, lastEvent : Nat, lastProcessed : Nat,
           events : [Slots -> Event]]

\* The types that the steps rely on.
TypeInv ==
    /\ clock \in Nat /\ clock > 0
    /\ mem \in Memory
    /\ dest \in [Instances -> Profiles \cup {AnyProfile}]
    /\ handled \in [Instances -> Seq(Instances)]

\* lastEvent is the latest time given out, and no two events share a time.
TimesInv ==
    /\ \A k \in Slots : mem.events[k].posted <= mem.lastEvent
    /\ EventTimesDistinct

\* The processes that have not got to postEvent yet.
Early(i) == pc[i] \in {"off", "created", "attached", "started"}

\* Every event has a sender of its own that has been at postEvent.
SendersInv ==
    /\ \A k \in Slots : mem.events[k].posted # 0 =>
         mem.events[k].by \in Instances /\ ~Early(mem.events[k].by)
    /\ \A k, l \in Slots :
         k # l /\ mem.events[k].posted # 0 /\ mem.events[l].posted # 0 =>
             mem.events[k].by # mem.events[l].by

\* What another instance did with the event of i in slot k: nothing, or it crashed in the
\* handler, or it is in there.
Unfinished(i, k) ==
    \A n \in DOMAIN handled[i] :
        \/ handled[i][n] = i
        \/ <<i, handled[i][n]>> \in interrupted
        \/ handling = k /\ handled[i][n] = holder

NotElsewhere(i) == \A n \in DOMAIN handled[i] : handled[i][n] = i
Elsewhere(i) == \E n \in DOMAIN handled[i] : handled[i][n] # i

\* What is still to be processed, or to be posted, no other process has handled to the end;
\* the event in a handler is one of those.
HandledInv ==
    /\ \A k \in Slots : mem.events[k].posted # 0 /\ mem.events[k].processed = 0 =>
         Unfinished(mem.events[k].by, k)
    /\ \A i \in Instances : Early(i) => NotElsewhere(i)
    /\ handling # 0 => /\ mem.events[handling].posted # 0 /\ mem.events[handling].processed = 0
                       /\ Elsewhere(mem.events[handling].by)
    /\ HandledOnce

IInv == TypeInv /\ TimesInv /\ SendersInv /\ HandledInv
-----------------------------------------------------------------------------
(* What the steps do to the events of the memory *)

\* Some events of the memory are cleared, and nothing else happens to them.
Cleared(old, new) == \A k \in Slots : new[k] = old[k] \/ new[k] = Free

\* A free slot (Free) is an event that was not posted.
LEMMA FreeType == Free \in Event /\ Free.posted = 0 /\ Free.processed = 0
BY DEF Free, Event

\* The memory as the constructor zeroes it holds no event.
LEMMA ZeroMemoryType == ZeroMemory \in Memory
<1>1. [k \in Slots |-> Free] \in [Slots -> Event]
  BY FreeType
<1>2. QED BY <1>1 DEF ZeroMemory, Memory

\* Taking ownership zeroes the memory (IPC::processEvents).
LEMMA OwnedByType ==
    ASSUME NEW i \in Instances, clock \in Nat
    PROVE  OwnedBy(i) \in Memory /\ OwnedBy(i).events = [k \in Slots |-> Free]
<1>1. [k \in Slots |-> Free] \in [Slots -> Event]
  BY FreeType
<1>2. OwnedBy(i).events = [k \in Slots |-> Free]
  BY DEF OwnedBy, ZeroMemory
<1>3. OwnedBy(i) \in Memory
  BY <1>1, ZeroMemoryType DEF OwnedBy, Memory
<1>4. QED BY <1>2, <1>3

\* Garbage collection only clears events.
LEMMA CollectedClears ==
    ASSUME mem \in Memory, NEW k
    PROVE  CollectedBefore(k) \in [Slots -> Event] /\ Cleared(mem.events, CollectedBefore(k))
<1>1. \A s \in Slots : CollectedBefore(k)[s] = mem.events[s] \/ CollectedBefore(k)[s] = Free
  BY DEF CollectedBefore
<1>2. \A s \in Slots : mem.events[s] \in Event
  BY DEF Memory
<1>3. CollectedBefore(k) \in [Slots -> Event]
  BY <1>2, FreeType DEF CollectedBefore
<1>4. QED BY <1>1, <1>3 DEF Cleared

\* While the memory is not locked, no handler runs (IPC::processEvents).
LEMMA UnlockedIdle == MemoryInv /\ Unlocked => handling = 0
BY DEF MemoryInv, Unlocked

\* A step that posts no event and gives out no time keeps the times and the senders.
LEMMA EventsKept ==
    ASSUME IInv, mem' \in Memory,
           \A k \in Slots : mem'.events[k].posted # 0 =>
               mem'.events[k].posted = mem.events[k].posted /\ mem'.events[k].by = mem.events[k].by,
           \/ mem'.lastEvent = mem.lastEvent
           \/ \A k \in Slots : mem'.events[k] = Free,
           \A i \in Instances : ~Early(i) => ~Early(i)'
    PROVE  TimesInv' /\ SendersInv'
<1>1. TimesInv'
  <2>1. \A k \in Slots : mem'.events[k].posted <= mem'.lastEvent
    <3>1. SUFFICES ASSUME NEW k \in Slots PROVE mem'.events[k].posted <= mem'.lastEvent
      OBVIOUS
    <3>2. CASE mem'.events[k].posted = 0
      BY <3>2 DEF Memory
    <3>3. CASE mem'.events[k].posted # 0
      <4>1. mem'.lastEvent = mem.lastEvent
        BY <3>3, FreeType
      <4>2. QED BY <3>3, <4>1 DEF IInv, TimesInv
    <3>4. QED BY <3>2, <3>3
  <2>2. EventTimesDistinct'
    <3>1. SUFFICES ASSUME NEW k \in Slots, NEW l \in Slots, k # l, mem'.events[k].posted # 0
                   PROVE  mem'.events[k].posted # mem'.events[l].posted
      BY DEF EventTimesDistinct
    <3>2. CASE mem'.events[l].posted = 0
      BY <3>1, <3>2
    <3>3. CASE mem'.events[l].posted # 0
      BY <3>1, <3>3 DEF IInv, TimesInv, EventTimesDistinct
    <3>4. QED BY <3>2, <3>3
  <2>3. QED BY <2>1, <2>2 DEF TimesInv
<1>2. SendersInv'
  <2>1. ASSUME NEW k \in Slots, mem'.events[k].posted # 0
        PROVE  /\ mem'.events[k].by = mem.events[k].by /\ mem.events[k].posted # 0
               /\ mem.events[k].by \in Instances /\ ~Early(mem.events[k].by)
    BY <2>1 DEF IInv, SendersInv
  <2>2. ASSUME NEW k \in Slots, mem'.events[k].posted # 0, NEW j, j = mem'.events[k].by
        PROVE  j \in Instances /\ pc'[j] \notin {"off", "created", "attached", "started"}
    BY <2>1, <2>2 DEF Early
  <2>3. \A k, l \in Slots :
          k # l /\ mem'.events[k].posted # 0 /\ mem'.events[l].posted # 0 =>
              mem'.events[k].by # mem'.events[l].by
    BY <2>1 DEF IInv, SendersInv
  <2>4. QED BY <2>2, <2>3 DEF SendersInv, Early
<1>3. QED BY <1>1, <1>2

\* The handler that ran, if any, is still the same, or its process has crashed.
HandlerGoesOnOrCrashed ==
    \/ handling' = 0
       /\ (handling # 0 => <<mem.events[handling].by, holder>> \in interrupted')
    \/ handling' = handling /\ holder' = holder /\ mem'.events = mem.events

\* A step that clears events, lowers lastEvent only if it clears them all, and lets no
\* process handle an event or fall back to an early state preserves the invariant.
LEMMA ClearingPreserves ==
    ASSUME IInv,
           clock' \in Nat, clock' > 0, mem' \in Memory,
           dest' \in [Instances -> Profiles \cup {AnyProfile}], handled' = handled,
           interrupted \subseteq interrupted', HandlerGoesOnOrCrashed,
           Cleared(mem.events, mem'.events),
           \/ mem'.lastEvent = mem.lastEvent
           \/ \A k \in Slots : mem'.events[k] = Free,
           \A i \in Instances : ~Early(i) => ~Early(i)'
    PROVE  IInv'
<1>1. TypeInv'
  BY DEF IInv, TypeInv
<1>2. \A k \in Slots : mem'.events[k].posted # 0 => mem'.events[k] = mem.events[k]
  BY FreeType DEF Cleared
<1>3. TimesInv' /\ SendersInv'
  BY <1>2, EventsKept
<1>4. HandledInv'
  <2>1. \A i \in Instances : Early(i)' => NotElsewhere(i)'
    BY DEF IInv, HandledInv, NotElsewhere
  <2>2. HandledOnce'
    BY DEF IInv, HandledInv, HandledOnce
  <2>3. ASSUME NEW k \in Slots, mem'.events[k].posted # 0, mem'.events[k].processed = 0,
               NEW j, j = mem'.events[k].by, NEW n \in DOMAIN handled'[j],
               handled'[j][n] # j, <<j, handled'[j][n]>> \notin interrupted'
        PROVE  handling' = k /\ handled'[j][n] = holder'
    <3>1. Unfinished(j, k)
      BY <1>2, <2>3 DEF IInv, HandledInv
    <3>2. handling = k /\ handled[j][n] = holder
      BY <2>3, <3>1 DEF Unfinished
    <3>3. j = mem.events[k].by
      BY <1>2, <2>3
    <3>4. k \in Nat /\ k # 0
      BY IPCAssumption DEF Slots, IPCAssumption
    <3>5. QED BY <2>3, <3>2, <3>3, <3>4 DEF HandlerGoesOnOrCrashed
  <2>4. handling' # 0 => /\ mem'.events[handling'].posted # 0 /\ mem'.events[handling'].processed = 0
                         /\ \E n \in DOMAIN handled'[mem'.events[handling'].by] :
                               handled'[mem'.events[handling'].by][n] # mem'.events[handling'].by
    BY DEF IInv, HandledInv, HandlerGoesOnOrCrashed, Elsewhere
  <2>5. \A k \in Slots : mem'.events[k].posted # 0 /\ mem'.events[k].processed = 0 =>
          \A n \in DOMAIN handled'[mem'.events[k].by] :
              \/ handled'[mem'.events[k].by][n] = mem'.events[k].by
              \/ <<mem'.events[k].by, handled'[mem'.events[k].by][n]>> \in interrupted'
              \/ handling' = k /\ handled'[mem'.events[k].by][n] = holder'
    BY <2>3
  <2>6. QED BY <2>1, <2>2, <2>4, <2>5 DEF HandledInv, Elsewhere, Unfinished
<1>5. QED BY <1>1, <1>3, <1>4 DEF IInv
-----------------------------------------------------------------------------
(* The steps that clear events, or leave them alone *)

\* Time 0 marks events that were not posted or not processed.
LEMMA ClockPositive == StartTime \in Nat /\ StartTime > 0
BY IPCAssumption DEF IPCAssumption

\* The invariant holds before any process is started.
LEMMA InitIInv == Init => IInv
<1> SUFFICES ASSUME Init PROVE IInv
  OBVIOUS
<1>1. TypeInv
  <2>1. mem \in Memory
    BY ZeroMemoryType DEF Init
  <2>2. <<>> \in Seq(Instances)
    OBVIOUS
  <2>3. handled \in [Instances -> Seq(Instances)]
    BY <2>2 DEF Init
  <2>4. clock \in Nat /\ clock > 0
    BY ClockPositive DEF Init
  <2>5. dest \in [Instances -> Profiles \cup {AnyProfile}]
    BY DEF Init
  <2>6. QED BY <2>1, <2>3, <2>4, <2>5 DEF TypeInv
<1>2. \A k \in Slots : mem.events[k] = Free
  BY DEF Init, ZeroMemory
<1>3. TimesInv
  BY <1>2, FreeType DEF Init, ZeroMemory, TimesInv, EventTimesDistinct
<1>4. SendersInv
  BY <1>2, FreeType DEF SendersInv
<1>5. HandledInv
  BY <1>2, FreeType DEF Init, HandledInv, HandledOnce, NotElsewhere
<1>6. QED BY <1>1, <1>3, <1>4, <1>5 DEF IInv

\* No process gets back to where it may not have posted.
LEMMA Advances ==
    ASSUME MemoryInv, NEW i \in Instances, NEW where, Goto(i, where),
           Early(i) \/ where \notin {"off", "created", "attached", "started"}
    PROVE  \A j \in Instances : ~Early(j) => ~Early(j)'
<1>1. pc' = [pc EXCEPT ![i] = where] /\ pc \in [Instances -> Places]
  BY DEF Goto, MemoryInv
<1>2. pc'[i] = where /\ \A j \in Instances : j # i => pc'[j] = pc[j]
  BY <1>1
<1>3. QED BY <1>2 DEF Early

\* The events and lastEvent stay as they are.
LEMMA EventsStayPreserves ==
    ASSUME IInv,
           clock' \in Nat, clock' > 0,
           mem' \in Memory, mem'.events = mem.events, mem'.lastEvent = mem.lastEvent,
           dest' \in [Instances -> Profiles \cup {AnyProfile}], handled' = handled,
           interrupted \subseteq interrupted', HandlerGoesOnOrCrashed,
           \A i \in Instances : ~Early(i) => ~Early(i)'
    PROVE  IInv'
<1>1. Cleared(mem.events, mem'.events)
  BY DEF Cleared
<1>2. QED BY <1>1, ClearingPreserves

\* Giving up the ownership leaves the events alone.
LEMMA DisownType ==
    ASSUME mem \in Memory, NEW i,
           mem' = IF mem.globalId = i THEN [mem EXCEPT !.globalId = Nobody] ELSE mem
    PROVE  mem' \in Memory /\ mem'.events = mem.events /\ mem'.lastEvent = mem.lastEvent
BY DEF Memory

\* The constructor: it zeroes the memory if there was none.
LEMMA LaunchPreserves ==
    ASSUME IInv, MemoryInv, NEW i \in Instances, NEW n \in Names, NEW p \in Profiles,
           NEW d \in Profiles \cup {AnyProfile}, Launch(i, n, p, d)
    PROVE  IInv'
<1>1. mem \in Memory /\ dest \in [Instances -> Profiles \cup {AnyProfile}]
      /\ clock \in Nat /\ clock > 0
  BY DEF IInv, TypeInv
<1>2. dest' \in [Instances -> Profiles \cup {AnyProfile}] /\ UNCHANGED <<clock, handled, interrupted>>
      /\ handling' = handling /\ holder' = holder
  BY <1>1 DEF Launch, past
<1>3. \A j \in Instances : ~Early(j) => ~Early(j)'
  <2>1. pc[i] = "off" /\ \E where \in {"attached", "created"} : Goto(i, where)
    BY DEF Launch
  <2>2. Early(i)
    BY <2>1 DEF Early
  <2>3. QED BY <2>1, <2>2, Advances
<1>4. CASE mem' = mem
  <2>1. HandlerGoesOnOrCrashed
    BY <1>2, <1>4 DEF HandlerGoesOnOrCrashed
  <2>2. QED BY <1>1, <1>2, <1>3, <1>4, <2>1, EventsStayPreserves
<1>5. CASE mem' = ZeroMemory /\ ~exists
  <2>1. \A k \in Slots : mem'.events[k] = Free
    BY <1>5 DEF ZeroMemory
  <2>2. Cleared(mem.events, mem'.events)
    BY <2>1 DEF Cleared
  <2>3. mem' \in Memory
    BY <1>5, ZeroMemoryType
  <2>4. handling = 0
    BY <1>5 DEF MemoryInv, Attached, Ended, Holding
  <2>5. HandlerGoesOnOrCrashed
    BY <1>2, <2>4 DEF HandlerGoesOnOrCrashed
  <2>6. QED BY <1>1, <1>2, <1>3, <2>1, <2>2, <2>3, <2>5, ClearingPreserves
<1>6. QED BY <1>4, <1>5 DEF Launch

\* Taking ownership after the timeout, or first, clears all events.
LEMMA OwnedByClears ==
    ASSUME mem \in Memory, clock \in Nat, NEW i \in Instances, mem' = OwnedBy(i)
    PROVE  mem' \in Memory /\ Cleared(mem.events, mem'.events)
           /\ \A k \in Slots : mem'.events[k] = Free
BY OwnedByType DEF Cleared

\* The constructor: the creator of the memory takes the ownership.
LEMMA TakeFirstOwnershipPreserves ==
    ASSUME IInv, MemoryInv, NEW i \in Instances, TakeFirstOwnership(i)
    PROVE  IInv'
<1>1. mem \in Memory /\ dest \in [Instances -> Profiles \cup {AnyProfile}]
      /\ clock \in Nat /\ clock > 0
  BY DEF IInv, TypeInv
<1>2. pc[i] = "created" /\ Goto(i, "attached") /\ mem' = OwnedBy(i) /\ Unlocked
      /\ UNCHANGED <<clock, dest, handled, interrupted, handling>>
  BY DEF TakeFirstOwnership, local, past, ZeroedBy
<1>3. \A j \in Instances : ~Early(j) => ~Early(j)'
  BY <1>2, Advances DEF Early
<1>4. HandlerGoesOnOrCrashed
  BY <1>2, UnlockedIdle DEF HandlerGoesOnOrCrashed
<1>5. QED BY <1>1, <1>2, <1>3, <1>4, OwnedByClears, ClearingPreserves

\* Taking over the ownership clears the memory (IPC::processEvents).
LEMMA ProcessEventsPreserves ==
    ASSUME IInv, MemoryInv, NEW i \in Instances, ProcessEvents(i)
    PROVE  IInv'
<1>1. mem \in Memory /\ dest \in [Instances -> Profiles \cup {AnyProfile}]
      /\ clock \in Nat /\ clock > 0
  BY DEF IInv, TypeInv
<1>2. UNCHANGED <<clock, pc, dest, handled, interrupted, handling>> /\ Unlocked
  BY DEF ProcessEvents, local, past
<1>3. \A j \in Instances : ~Early(j) => ~Early(j)'
  BY <1>2 DEF Early
<1>4. HandlerGoesOnOrCrashed
  BY <1>2, UnlockedIdle DEF HandlerGoesOnOrCrashed
<1>5. CASE mem' = OwnedBy(i)
  BY <1>1, <1>2, <1>3, <1>4, <1>5, OwnedByClears, ClearingPreserves
<1>6. CASE mem' = mem \/ mem' = [mem EXCEPT !.lastProcessed = clock]
  <2>1. mem' \in Memory /\ mem'.events = mem.events /\ mem'.lastEvent = mem.lastEvent
    BY <1>1, <1>6 DEF Memory
  <2>2. QED BY <1>1, <1>2, <1>3, <1>4, <2>1, EventsStayPreserves
<1>7. QED BY <1>5, <1>6 DEF ProcessEvents, ZeroedBy

\* The end of the loop has collected garbage (IPC::fetchEvent).
LEMMA UnlockPreserves ==
    ASSUME IInv, MemoryInv, NEW i \in Instances, Unlock(i)
    PROVE  IInv'
<1>1. mem \in Memory /\ dest \in [Instances -> Profiles \cup {AnyProfile}]
      /\ clock \in Nat /\ clock > 0
  BY DEF IInv, TypeInv
<1>2. UNCHANGED <<clock, dest, handled, interrupted>> /\ handling = 0 /\ handling' = 0
  BY DEF Unlock, local, past
<1>3. \A j \in Instances : ~Early(j) => ~Early(j)'
  <2>1. CASE pc[i] = "attached" /\ Goto(i, "started")
    BY <2>1, Advances DEF Early
  <2>2. CASE pc' = pc
    BY <2>2 DEF Early
  <2>3. QED BY <2>1, <2>2 DEF Unlock
<1>4. mem' = [mem EXCEPT !.events = CollectedBefore(QueueSize + 1)]
  BY DEF Unlock
<1>5. mem' \in Memory /\ mem'.lastEvent = mem.lastEvent
      /\ mem'.events = CollectedBefore(QueueSize + 1)
  BY <1>1, <1>4, CollectedClears DEF Memory
<1>6. HandlerGoesOnOrCrashed
  BY <1>2 DEF HandlerGoesOnOrCrashed
<1>7. QED BY <1>1, <1>2, <1>3, <1>5, <1>6, CollectedClears, ClearingPreserves
-----------------------------------------------------------------------------
(* A turn of the loop over the events *)

\* Garbage collection leaves an event that fetchEvent returns.
LEMMA FetchedIsKept ==
    ASSUME IInv, NEW k \in Slots, mem' = [mem EXCEPT !.events = CollectedBefore(k)]
    PROVE  /\ mem' \in Memory /\ mem'.lastEvent = mem.lastEvent
           /\ Cleared(mem.events, mem'.events) /\ mem'.events[k] = mem.events[k]
           /\ \A l \in Slots : mem'.events[l].posted # 0 => mem'.events[l] = mem.events[l]
<1>1. mem \in Memory
  BY DEF IInv, TypeInv
<1>2. mem' \in Memory /\ mem'.lastEvent = mem.lastEvent /\ mem'.events = CollectedBefore(k)
  BY <1>1, CollectedClears DEF Memory
<1>3. k \in Int
  BY IPCAssumption DEF IPCAssumption, Slots
<1>4. CollectedBefore(k)[k] = mem.events[k]
  BY <1>3 DEF CollectedBefore
<1>5. Cleared(mem.events, mem'.events)
  BY <1>1, <1>2, CollectedClears
<1>6. QED BY <1>2, <1>4, <1>5, FreeType DEF Cleared

\* Without a handler, nothing but garbage collection happens.
LEMMA NoHandlerPreserves ==
    ASSUME IInv, NEW k \in Slots, mem' = [mem EXCEPT !.events = CollectedBefore(k)],
           handling = 0, UNCHANGED <<clock, pc, dest, handled, interrupted, handling>>
    PROVE  IInv'
<1>1. clock \in Nat /\ clock > 0 /\ dest \in [Instances -> Profiles \cup {AnyProfile}]
  BY DEF IInv, TypeInv
<1>2. \A j \in Instances : ~Early(j) => ~Early(j)'
  BY DEF Early
<1>3. HandlerGoesOnOrCrashed
  BY DEF HandlerGoesOnOrCrashed
<1>4. QED BY <1>1, <1>2, <1>3, FetchedIsKept, ClearingPreserves

\* A handler starts: whoever handled the event before has crashed in there.
LEMMA HandlerPreserves ==
    ASSUME IInv, NEW i \in Instances, NEW k \in Slots, k \in Fetchable(i), holder = i,
           mem' = [mem EXCEPT !.events = CollectedBefore(k)],
           handled' = [handled EXCEPT ![mem.events[k].by] = Append(@, i)],
           handling = 0, handling' = k,
           UNCHANGED <<clock, pc, dest, holder, interrupted>>
    PROVE  IInv'
<1> DEFINE sender == mem.events[k].by
<1>1. handled \in [Instances -> Seq(Instances)] /\ k # 0
  BY IPCAssumption DEF IInv, TypeInv, Slots, IPCAssumption
<1>2. /\ mem' \in Memory /\ mem'.lastEvent = mem.lastEvent /\ mem'.events[k] = mem.events[k]
      /\ \A l \in Slots : mem'.events[l].posted # 0 => mem'.events[l] = mem.events[l]
  BY FetchedIsKept
<1>3. mem.events[k].posted # 0 /\ mem.events[k].processed = 0 /\ sender # i
  BY DEF Fetchable
<1>4. sender \in Instances /\ ~Early(sender) /\ Unfinished(sender, k)
  BY <1>3 DEF IInv, SendersInv, HandledInv
<1>5. handled'[sender] = Append(handled[sender], i) /\ handled[sender] \in Seq(Instances)
      /\ \A j \in Instances : j # sender => handled'[j] = handled[j]
  BY <1>1, <1>4
<1>6. /\ \A n \in DOMAIN handled'[sender] :
           \/ n = Len(handled[sender]) + 1
           \/ /\ n \in DOMAIN handled[sender] /\ handled'[sender][n] = handled[sender][n]
              /\ n <= Len(handled[sender])
      /\ Len(handled[sender]) + 1 \in DOMAIN handled'[sender]
      /\ handled'[sender][Len(handled[sender]) + 1] = i
  BY <1>5, AppendProperties
<1>7. TypeInv'
  <2>1. handled' \in [Instances -> Seq(Instances)]
    BY <1>1, <1>4
  <2>2. QED BY <1>2, <2>1 DEF IInv, TypeInv
<1>8. TimesInv' /\ SendersInv'
  <2>1. \A j \in Instances : ~Early(j) => ~Early(j)'
    BY DEF Early
  <2>2. QED BY <1>2, <2>1, EventsKept
\* what the sender's event has been through before
<1>9. \A n \in DOMAIN handled[sender] :
         handled[sender][n] = sender \/ <<sender, handled[sender][n]>> \in interrupted
  BY <1>1, <1>4 DEF Unfinished
<1>10. HandledInv'
  <2>1. ASSUME NEW l \in Slots, mem'.events[l].posted # 0, mem'.events[l].processed = 0,
               NEW n \in DOMAIN handled'[mem'.events[l].by]
        PROVE  \/ handled'[mem'.events[l].by][n] = mem'.events[l].by
               \/ <<mem'.events[l].by, handled'[mem'.events[l].by][n]>> \in interrupted'
               \/ handling' = l /\ handled'[mem'.events[l].by][n] = holder'
    <3>1. CASE l = k
      <4>1. mem'.events[l].by = sender
        BY <1>2, <3>1
      <4>2. handled'[sender][n] = i \/ (n \in DOMAIN handled[sender]
                                        /\ handled'[sender][n] = handled[sender][n])
        BY <1>6, <2>1, <4>1
      <4>3. QED BY <1>9, <3>1, <4>1, <4>2
    <3>2. CASE l # k
      <4>1. mem'.events[l] = mem.events[l]
        BY <1>2, <2>1
      <4>2. mem.events[l].by \in Instances /\ mem.events[l].by # sender
            /\ Unfinished(mem.events[l].by, l)
        BY <1>3, <2>1, <3>2, <4>1 DEF IInv, SendersInv, HandledInv
      <4>3. handled'[mem.events[l].by] = handled[mem.events[l].by]
        BY <1>5, <4>2
      <4>4. handling # l
        BY IPCAssumption DEF Slots, IPCAssumption
      <4>5. QED BY <2>1, <4>1, <4>2, <4>3, <4>4 DEF Unfinished
    <3>3. QED BY <3>1, <3>2
  <2>2. \A j \in Instances : Early(j)' => NotElsewhere(j)'
    BY <1>4, <1>5 DEF IInv, HandledInv, Early, NotElsewhere
  <2>3. /\ mem'.events[handling'].posted # 0 /\ mem'.events[handling'].processed = 0
        /\ \E n \in DOMAIN handled'[mem'.events[handling'].by] :
              handled'[mem'.events[handling'].by][n] # mem'.events[handling'].by
    <3>1. mem'.events[handling'] = mem.events[k]
      BY <1>2
    <3>2. \E n \in DOMAIN handled'[sender] : handled'[sender][n] # sender
      BY <1>3, <1>6
    <3>3. QED BY <1>3, <3>1, <3>2
  <2>4. HandledOnce'
    <3>1. SUFFICES ASSUME NEW j \in Instances, NEW m \in DOMAIN handled'[j],
                          NEW n \in DOMAIN handled'[j], m < n,
                          handled'[j][m] # j, handled'[j][n] # j
                   PROVE  <<j, handled'[j][m]>> \in interrupted'
      BY DEF HandledOnce
    <3>2. CASE j = sender
      <4>1. m \in DOMAIN handled[sender] /\ handled'[sender][m] = handled[sender][m]
        <5>1. m # Len(handled[sender]) + 1
          <6>1. m \in Nat /\ n \in Nat /\ Len(handled[sender]) \in Nat
            BY <1>5, <3>1, <3>2, AppendProperties
          <6>2. n = Len(handled[sender]) + 1 \/ n <= Len(handled[sender])
            BY <1>6, <3>1, <3>2
          <6>3. QED BY <3>1, <6>1, <6>2
        <5>2. QED BY <1>6, <3>1, <3>2, <5>1
      <4>2. QED BY <1>9, <3>1, <3>2, <4>1
    <3>3. CASE j # sender
      BY <1>5, <3>1, <3>3 DEF IInv, HandledInv, HandledOnce
    <3>4. QED BY <3>2, <3>3
  <2>5. QED BY <2>1, <2>2, <2>3, <2>4 DEF HandledInv, Elsewhere, Unfinished
<1>11. QED BY <1>7, <1>8, <1>10 DEF IInv

\* A turn of the loop of IPC::processEvents, with a handler or without.
LEMMA RunEventHandlerPreserves ==
    ASSUME IInv, NEW i \in Instances, RunEventHandler(i)
    PROVE  IInv'
<1>1. PICK k \in Slots :
         /\ holder = i /\ handling = 0 /\ First(k, Fetchable(i))
         /\ mem' = [mem EXCEPT !.events = CollectedBefore(k)]
         /\ \/ /\ handling' = k
               /\ handled' = [handled EXCEPT ![mem.events[k].by] = Append(@, i)]
            \/ UNCHANGED <<handling, handled>>
         /\ UNCHANGED <<clock, pc, dest, holder, interrupted>>
  BY DEF RunEventHandler, local
<1>2. k \in Fetchable(i)
  BY <1>1 DEF First
<1>3. CASE UNCHANGED <<handling, handled>>
  BY <1>1, <1>3, NoHandlerPreserves
<1>4. CASE /\ handling' = k
           /\ handled' = [handled EXCEPT ![mem.events[k].by] = Append(@, i)]
  BY <1>1, <1>2, <1>4, HandlerPreserves
<1>5. QED BY <1>1, <1>3, <1>4

\* The memory after the event in the handler is marked.
LEMMA MarkedType ==
    ASSUME IInv, NEW k \in Slots,
           mem' = [mem EXCEPT !.events[k].accepted = TRUE, !.events[k].processed = clock]
    PROVE  /\ mem' \in Memory /\ mem'.lastEvent = mem.lastEvent
           /\ \A l \in Slots : l # k => mem'.events[l] = mem.events[l]
           /\ mem'.events[k].posted = mem.events[k].posted /\ mem'.events[k].by = mem.events[k].by
           /\ mem'.events[k].processed = clock
<1> DEFINE event == [mem.events[k] EXCEPT !.accepted = TRUE, !.processed = clock]
<1>1. mem \in Memory /\ clock \in Nat /\ mem.events \in [Slots -> Event]
  BY DEF IInv, TypeInv, Memory
<1>2. event \in Event /\ event.posted = mem.events[k].posted /\ event.by = mem.events[k].by
      /\ event.processed = clock
  BY <1>1 DEF Event
<1>3. mem'.events = [mem.events EXCEPT ![k] = event] /\ mem'.lastEvent = mem.lastEvent
      /\ mem'.globalId = mem.globalId /\ mem'.lastProcessed = mem.lastProcessed
      /\ mem' = [mem EXCEPT !.events = [mem.events EXCEPT ![k] = event]]
  BY <1>1 DEF Memory
<1> HIDE DEF event
<1>4. [mem.events EXCEPT ![k] = event] \in [Slots -> Event]
  BY <1>1, <1>2
<1>5. mem' \in Memory
  BY <1>1, <1>3, <1>4 DEF Memory
<1>6. mem'.events[k] = event /\ \A l \in Slots : l # k => mem'.events[l] = mem.events[l]
  BY <1>1, <1>3
<1>7. QED BY <1>2, <1>3, <1>5, <1>6

\* The handler returns: the event is marked, and nobody will handle it again.
LEMMA EventHandledPreserves ==
    ASSUME IInv, MemoryInv, NEW i \in Instances, EventHandled(i)
    PROVE  IInv'
<1>1. holder = i /\ handling \in Slots /\ handling # 0 /\ handling' = 0
      /\ UNCHANGED <<clock, pc, dest, handled, interrupted>>
  BY DEF EventHandled, MemoryInv, local, past
<1>2. /\ mem' \in Memory /\ mem'.lastEvent = mem.lastEvent
      /\ \A l \in Slots : l # handling => mem'.events[l] = mem.events[l]
      /\ mem'.events[handling].posted = mem.events[handling].posted
      /\ mem'.events[handling].by = mem.events[handling].by
      /\ mem'.events[handling].processed = clock
  BY <1>1, MarkedType DEF EventHandled
<1>3. TypeInv'
  BY <1>1, <1>2 DEF IInv, TypeInv
<1>4. TimesInv' /\ SendersInv'
  <2>1. \A j \in Instances : ~Early(j) => ~Early(j)'
    BY <1>1 DEF Early
  <2>2. \A l \in Slots : mem'.events[l].posted = mem.events[l].posted
                         /\ mem'.events[l].by = mem.events[l].by
    BY <1>2
  <2>3. QED BY <1>2, <2>1, <2>2, EventsKept
<1>5. HandledInv'
  <2>1. ASSUME NEW l \in Slots, mem'.events[l].posted # 0, mem'.events[l].processed = 0
        PROVE  \A n \in DOMAIN handled'[mem'.events[l].by] :
                 \/ handled'[mem'.events[l].by][n] = mem'.events[l].by
                 \/ <<mem'.events[l].by, handled'[mem'.events[l].by][n]>> \in interrupted'
    <3>1. clock # 0
      BY DEF IInv, TypeInv
    <3>2. l # handling
      BY <1>2, <2>1, <3>1
    <3>3. mem'.events[l] = mem.events[l]
      BY <1>2, <3>2
    <3>4. Unfinished(mem.events[l].by, l)
      BY <2>1, <3>3 DEF IInv, HandledInv
    <3>5. QED BY <1>1, <3>2, <3>3, <3>4 DEF Unfinished
  <2>2. \A j \in Instances : Early(j)' => NotElsewhere(j)'
    BY <1>1 DEF IInv, HandledInv, Early, NotElsewhere
  <2>3. HandledOnce'
    BY <1>1 DEF IInv, HandledInv, HandledOnce
  <2>4. QED BY <1>1, <2>1, <2>2, <2>3 DEF HandledInv, Unfinished
<1>6. QED BY <1>3, <1>4, <1>5 DEF IInv
-----------------------------------------------------------------------------
(* startGui *)

\* A time given out is later than all before it: nobody shares it, and i, which has not
\* been here before, is the sender of no other event.
LEMMA NewEventPreserves ==
    ASSUME IInv, MemoryInv, NEW i \in Instances, NEW k \in Slots, pc[i] = "started",
           mem.events[k].posted = 0, handling = 0, handling' = 0,
           mem' = [mem EXCEPT !.lastEvent = NextTime, !.events[k] = NewEvent(i, NextTime)],
           pc' = [pc EXCEPT ![i] = "waiting"],
           UNCHANGED <<clock, dest, handled, interrupted>>
    PROVE  IInv'
<1>1. mem \in Memory /\ clock \in Nat /\ clock > 0 /\ pc \in [Instances -> Places]
      /\ dest \in [Instances -> Profiles \cup {AnyProfile}]
  BY DEF IInv, TypeInv, MemoryInv
<1>2. mem.lastEvent \in Nat /\ mem.events \in [Slots -> Event]
  BY <1>1 DEF Memory
<1>3. NextTime \in Nat /\ NextTime > mem.lastEvent /\ NextTime > 0
  BY <1>1, <1>2 DEF NextTime
<1>4. NewEvent(i, NextTime) \in Event /\ NewEvent(i, NextTime).posted = NextTime
      /\ NewEvent(i, NextTime).by = i
  <2>1. dest[i] \in Profiles \cup {AnyProfile}
    BY <1>1
  <2>2. NewEvent(i, NextTime) \in Event
    BY <1>3, <2>1, FreeType DEF NewEvent, Event
  <2>3. QED BY <2>2 DEF NewEvent, Free
<1>5. mem' \in Memory /\ mem'.lastEvent = NextTime
      /\ mem'.events = [mem.events EXCEPT ![k] = NewEvent(i, NextTime)]
  BY <1>1, <1>2, <1>3, <1>4 DEF Memory
<1>6. mem'.events[k] = NewEvent(i, NextTime)
      /\ \A l \in Slots : l # k => mem'.events[l] = mem.events[l]
  BY <1>2, <1>5
<1>7. Early(i) /\ ~Early(i)' /\ \A j \in Instances : j # i => (Early(j)' <=> Early(j))
  <2>1. pc'[i] = "waiting" /\ \A j \in Instances : j # i => pc'[j] = pc[j]
    BY <1>1
  <2>2. QED BY <2>1 DEF Early
<1>8. \A l \in Slots : mem.events[l].posted # 0 => mem.events[l].by \in Instances \ {i}
  BY <1>7 DEF IInv, SendersInv
<1>9. \A l \in Slots : mem.events[l].posted \in Nat /\ mem.events[l].posted < NextTime
  <2>1. \A l \in Slots : mem.events[l].posted \in Nat
    BY <1>2 DEF Event
  <2>2. \A l \in Slots : mem.events[l].posted <= mem.lastEvent
    BY DEF IInv, TimesInv
  <2>3. QED BY <1>2, <1>3, <2>1, <2>2
<1>10. TypeInv'
  BY <1>1, <1>5 DEF IInv, TypeInv
<1>11. TimesInv'
  <2>1. \A l \in Slots : mem'.events[l].posted <= mem'.lastEvent
    BY <1>3, <1>4, <1>5, <1>6, <1>9
  <2>2. EventTimesDistinct'
    BY <1>3, <1>4, <1>6, <1>9 DEF IInv, TimesInv, EventTimesDistinct
  <2>3. QED BY <2>1, <2>2 DEF TimesInv
<1>12. SendersInv'
  <2>1. ASSUME NEW l \in Slots, mem'.events[l].posted # 0, NEW j, j = mem'.events[l].by
        PROVE  j \in Instances /\ pc'[j] \notin {"off", "created", "attached", "started"}
    <3>1. CASE l = k
      BY <1>1, <1>4, <1>6, <2>1, <3>1
    <3>2. CASE l # k
      <4>1. j \in Instances \ {i} /\ ~Early(j)
        BY <1>6, <1>8, <2>1, <3>2 DEF IInv, SendersInv
      <4>2. QED BY <1>1, <4>1 DEF Early
    <3>3. QED BY <3>1, <3>2
  <2>2. \A m, l \in Slots :
          m # l /\ mem'.events[m].posted # 0 /\ mem'.events[l].posted # 0 =>
              mem'.events[m].by # mem'.events[l].by
    BY <1>4, <1>6, <1>8 DEF IInv, SendersInv
  <2>3. QED BY <2>1, <2>2 DEF SendersInv, Early
<1>13. HandledInv'
  <2>1. ASSUME NEW l \in Slots, mem'.events[l].posted # 0, mem'.events[l].processed = 0
        PROVE  \A n \in DOMAIN handled'[mem'.events[l].by] :
                 \/ handled'[mem'.events[l].by][n] = mem'.events[l].by
                 \/ <<mem'.events[l].by, handled'[mem'.events[l].by][n]>> \in interrupted'
    <3>1. CASE l = k
      BY <1>4, <1>6, <1>7, <3>1 DEF IInv, HandledInv, NotElsewhere
    <3>2. CASE l # k
      <4>1. handling # l
        BY IPCAssumption DEF Slots, IPCAssumption
      <4>2. QED BY <1>6, <2>1, <3>2, <4>1 DEF IInv, HandledInv, Unfinished
    <3>3. QED BY <3>1, <3>2
  <2>2. \A j \in Instances : Early(j)' => NotElsewhere(j)'
    BY <1>7 DEF IInv, HandledInv, NotElsewhere
  <2>3. HandledOnce'
    BY DEF IInv, HandledInv, HandledOnce
  <2>4. QED BY <2>1, <2>2, <2>3 DEF HandledInv, Unfinished
<1>14. QED BY <1>10, <1>11, <1>12, <1>13 DEF IInv

\* startGui as the owner, with a full queue, and with a slot for its event.
LEMMA PostEventPreserves ==
    ASSUME IInv, MemoryInv, NEW i \in Instances, PostEvent(i)
    PROVE  IInv'
<1>1. mem \in Memory /\ pc[i] = "started" /\ Early(i) /\ clock \in Nat /\ clock > 0
      /\ dest \in [Instances -> Profiles \cup {AnyProfile}]
      /\ UNCHANGED <<clock, dest, handled, interrupted>> /\ handling = 0 /\ handling' = 0
  BY UnlockedIdle DEF PostEvent, IInv, TypeInv, local, past, Early
<1>2. ASSUME NEW where \in {"loading", "waiting"}, mem' = mem, Goto(i, where)
      PROVE  IInv'
  <2>1. \A j \in Instances : ~Early(j) => ~Early(j)'
    BY <1>1, <1>2, Advances
  <2>2. HandlerGoesOnOrCrashed
    BY <1>1 DEF HandlerGoesOnOrCrashed
  <2>3. QED BY <1>1, <1>2, <2>1, <2>2, EventsStayPreserves
<1>3. CASE /\ \E k \in Slots :
                /\ First(k, EmptySlots)
                /\ mem' = [mem EXCEPT !.lastEvent = NextTime, !.events[k] = NewEvent(i, NextTime)]
           /\ Goto(i, "waiting")
  <2>1. PICK k \in Slots :
           /\ First(k, EmptySlots)
           /\ mem' = [mem EXCEPT !.lastEvent = NextTime, !.events[k] = NewEvent(i, NextTime)]
    BY <1>3
  <2>2. mem.events[k].posted = 0
    BY <2>1 DEF First, EmptySlots
  <2>3. QED BY <1>1, <1>3, <2>1, <2>2, NewEventPreserves DEF Goto
<1>4. QED BY <1>2, <1>3 DEF PostEvent

\* A process that handles its own event is not another one.
LEMMA LoginPreserves ==
    ASSUME IInv, MemoryInv, NEW i \in Instances, NEW p \in Profiles, Login(i, p)
    PROVE  IInv'
<1>1. mem \in Memory /\ handled \in [Instances -> Seq(Instances)] /\ clock \in Nat /\ clock > 0
      /\ dest \in [Instances -> Profiles \cup {AnyProfile}]
  BY DEF IInv, TypeInv
<1>2. mem' = mem /\ clock' = clock /\ dest' = dest /\ Goto(i, "running")
      /\ UNCHANGED <<handling, holder, interrupted>>
  BY DEF Login
<1>3. \A j \in Instances : ~Early(j) => ~Early(j)'
  BY <1>2, Advances
<1>4. CASE handled' = handled
  <2>1. HandlerGoesOnOrCrashed
    BY <1>2 DEF HandlerGoesOnOrCrashed
  <2>2. QED BY <1>1, <1>2, <1>3, <1>4, <2>1, EventsStayPreserves
<1>5. CASE handled' = [handled EXCEPT ![i] = Append(@, i)]
  <2>1. handled'[i] = Append(handled[i], i) /\ handled[i] \in Seq(Instances)
        /\ \A j \in Instances : j # i => handled'[j] = handled[j]
    BY <1>1, <1>5
  <2>2. \A j \in Instances : \A n \in DOMAIN handled'[j] :
           \/ handled'[j][n] = j
           \/ n \in DOMAIN handled[j] /\ handled'[j][n] = handled[j][n]
    <3>1. \A n \in DOMAIN handled'[i] :
             \/ handled'[i][n] = i
             \/ n \in DOMAIN handled[i] /\ handled'[i][n] = handled[i][n]
      BY <2>1, AppendProperties
    <3>2. QED BY <2>1, <3>1
  <2>3. \A j \in Instances : NotElsewhere(j) => NotElsewhere(j)'
    BY <2>2 DEF NotElsewhere
  <2>4. TypeInv'
    <3>1. handled' \in [Instances -> Seq(Instances)]
      BY <1>1, <1>5
    <3>2. QED BY <1>2, <3>1 DEF IInv, TypeInv
  <2>5. TimesInv' /\ SendersInv'
    BY <1>1, <1>2, <1>3, EventsKept
  <2>6. HandledOnce'
    <3>1. SUFFICES ASSUME NEW j \in Instances, NEW m \in DOMAIN handled'[j],
                          NEW n \in DOMAIN handled'[j], m < n,
                          handled'[j][m] # j, handled'[j][n] # j
                   PROVE  <<j, handled'[j][m]>> \in interrupted'
      BY DEF HandledOnce
    <3>2. m \in DOMAIN handled[j] /\ handled'[j][m] = handled[j][m]
          /\ n \in DOMAIN handled[j] /\ handled'[j][n] = handled[j][n]
      BY <2>2, <3>1
    <3>3. QED BY <1>2, <3>1, <3>2 DEF IInv, HandledInv, HandledOnce
  <2>7. ASSUME NEW k \in Slots, mem.events[k].posted # 0, mem.events[k].processed = 0,
               NEW j, j = mem.events[k].by, NEW n \in DOMAIN handled'[j]
        PROVE  \/ handled'[j][n] = j
               \/ <<j, handled'[j][n]>> \in interrupted'
               \/ handling' = k /\ handled'[j][n] = holder'
    <3>1. j \in Instances /\ Unfinished(j, k)
      BY <2>7 DEF IInv, SendersInv, HandledInv
    <3>2. QED BY <1>2, <2>2, <2>7, <3>1 DEF Unfinished
  <2>8. \A j \in Instances : Early(j)' => NotElsewhere(j)'
    BY <1>3, <2>3 DEF IInv, HandledInv
  <2>9. ASSUME handling # 0, NEW j, j = mem.events[handling].by
        PROVE  \E n \in DOMAIN handled'[j] : handled'[j][n] # j
    <3>1. j \in Instances /\ Elsewhere(j)
      BY <2>9 DEF IInv, SendersInv, HandledInv, MemoryInv
    <3>2. PICK n \in DOMAIN handled[j] : handled[j][n] # j
      BY <3>1 DEF Elsewhere
    <3>3. n \in DOMAIN handled'[j] /\ handled'[j][n] = handled[j][n]
      BY <2>1, <3>1, <3>2, AppendProperties
    <3>4. QED BY <3>2, <3>3
  <2>10. handling' # 0 => mem'.events[handling'].posted # 0 /\ mem'.events[handling'].processed = 0
    BY <1>2 DEF IInv, HandledInv
  <2>11. HandledInv'
    BY <1>2, <2>6, <2>7, <2>8, <2>9, <2>10 DEF HandledInv, Unfinished, Elsewhere
  <2>12. QED BY <2>4, <2>5, <2>11 DEF IInv
<1>6. QED BY <1>4, <1>5 DEF Login

\* The steps that give up the ownership, or only move the process on.
LEMMA OtherStepsPreserve ==
    ASSUME IInv, MemoryInv, NEW i \in Instances,
           \/ LeaveToOther(i) \/ GiveUp(i) \/ ShowLogin(i) \/ Logout(i) \/ Exit(i) \/ CrashOf(i)
           \/ \E p \in Profiles : Rename(i, p)
    PROVE  IInv'
<1>1. mem \in Memory /\ clock \in Nat /\ clock > 0
      /\ dest \in [Instances -> Profiles \cup {AnyProfile}]
  BY DEF IInv, TypeInv
<1>2. UNCHANGED <<clock, handled>> /\ interrupted \subseteq interrupted'
      /\ dest' \in [Instances -> Profiles \cup {AnyProfile}]
  BY <1>1 DEF LeaveToOther, GiveUp, ShowLogin, Logout, Exit, CrashOf, Rename, Forget, local, past
<1>3. mem' \in Memory /\ mem'.events = mem.events /\ mem'.lastEvent = mem.lastEvent
  <2>1. CASE mem' = IF mem.globalId = i THEN [mem EXCEPT !.globalId = Nobody] ELSE mem
    BY <1>1, <2>1, DisownType
  <2>2. CASE mem' = mem
    BY <1>1, <2>2
  <2>3. QED BY <2>1, <2>2 DEF LeaveToOther, GiveUp, ShowLogin, Logout, Exit, CrashOf, Rename
<1>4. \A j \in Instances : ~Early(j) => ~Early(j)'
  <2>1. CASE pc' = pc
    BY <2>1 DEF Early
  <2>2. ASSUME NEW where \in {"done", "loading", "login", "loggedOut", "closed", "crashed"},
               Goto(i, where)
        PROVE  \A j \in Instances : ~Early(j) => ~Early(j)'
    BY <2>2, Advances
  <2>3. QED
    BY <2>1, <2>2 DEF LeaveToOther, GiveUp, ShowLogin, Logout, Exit, CrashOf, Rename
<1>5. HandlerGoesOnOrCrashed
  <2>1. CASE handling' = handling /\ holder' = holder
    BY <1>3, <2>1 DEF HandlerGoesOnOrCrashed
  <2>2. CASE CrashOf(i) /\ holder = i
    BY <2>2 DEF CrashOf, HandlerGoesOnOrCrashed
  <2>3. QED BY <2>1, <2>2 DEF LeaveToOther, GiveUp, ShowLogin, Logout, Exit, CrashOf, Rename
<1>6. QED BY <1>1, <1>2, <1>3, <1>4, <1>5, EventsStayPreserves

\* Time only makes the clock grow, and nothing changes otherwise.
LEMMA IdlePreserves ==
    ASSUME IInv, clock' = clock \/ clock' = clock + 1,
           UNCHANGED <<mem, pc, dest, handled, interrupted, handling, holder>>
    PROVE  IInv'
<1>1. clock \in Nat /\ clock > 0 /\ mem \in Memory
      /\ dest \in [Instances -> Profiles \cup {AnyProfile}]
  BY DEF IInv, TypeInv
<1>2. HandlerGoesOnOrCrashed /\ \A j \in Instances : ~Early(j) => ~Early(j)'
  BY DEF HandlerGoesOnOrCrashed, Early
<1>3. QED BY <1>1, <1>2, EventsStayPreserves

\* Every step of the processes and of the time preserves the invariant.
LEMMA NextPreserves == IInv /\ MemoryInv /\ [Next]_vars => IInv'
<1> SUFFICES ASSUME IInv, MemoryInv, [Next]_vars PROVE IInv'
  OBVIOUS
<1>1. ASSUME NEW i \in Instances, NEW n \in Names, NEW p \in Profiles,
             NEW d \in Profiles \union {AnyProfile}, Launch(i, n, p, d)
      PROVE  IInv'
  BY <1>1, LaunchPreserves
<1>2. ASSUME NEW i \in Instances, Step(i) \/ CloseDialog(i)
      PROVE  IInv'
  BY <1>2, TakeFirstOwnershipPreserves, ProcessEventsPreserves, RunEventHandlerPreserves,
     UnlockPreserves, PostEventPreserves, EventHandledPreserves, OtherStepsPreserve
  DEF Step, CloseDialog
<1>3. ASSUME NEW i \in Instances, NEW p \in Profiles, Login(i, p) \/ Rename(i, p)
      PROVE  IInv'
  BY <1>3, LoginPreserves, OtherStepsPreserve
<1>4. ASSUME NEW i \in Instances, ShowLogin(i) \/ Logout(i) \/ Exit(i) \/ CrashOf(i)
      PROVE  IInv'
  BY <1>4, OtherStepsPreserve
<1>5. CASE Tick
  BY <1>5, IdlePreserves DEF Tick, local, past
<1>6. CASE UNCHANGED vars
  BY <1>6, IdlePreserves DEF vars, local, past
<1>7. QED BY <1>1, <1>2, <1>3, <1>4, <1>5, <1>6 DEF Next
-----------------------------------------------------------------------------
(* The theorems *)

\* The memory, the times and the senders of the events in it, and what has been handled
\* stay consistent in every behaviour of the processes (IPC and startGui).
THEOREM IInvHolds == Spec => [](IInv /\ MemoryInv)
<1>1. Init => IInv /\ MemoryInv
  BY InitIInv, InitMemory
<1>2. IInv /\ MemoryInv /\ [Next]_vars => IInv' /\ MemoryInv'
  BY NextPreserves, NextMemory
<1>3. QED BY <1>1, <1>2, PTL DEF Spec

\* However the owners, the timeouts and the garbage collection interleave, an instance other
\* than the sender handles an event only if everyone before it crashed inside the handler,
\* with the memory locked and the event unmarked (IPC::processEvents).
THEOREM HandledOnceHolds == Spec => []HandledOnce
<1>1. IInv => HandledOnce
  BY DEF IInv, HandledInv
<1>2. QED BY <1>1, IInvHolds, PTL

\* Two events of the memory never have the same time, so that isEventAccepted can only
\* find the event that it is asked for (IPC::postEvent).
THEOREM EventTimesDistinctHolds == Spec => []EventTimesDistinct
<1>1. IInv => EventTimesDistinct
  BY DEF IInv, TimesInv
<1>2. QED BY <1>1, IInvHolds, PTL
-----------------------------------------------------------------------------
(* Leaving an event to the others *)

Waits == [since : Nat, time : Nat, lost : BOOLEAN]

\* An event that is processed has been handled by another, and the time that a process waits
\* with is that of its own event, unless the memory was zeroed meanwhile.
LeaveInv ==
    /\ wait \in [Instances -> Waits]
    /\ \A k \in Slots : mem.events[k].posted = 0 => mem.events[k].processed = 0
    /\ \A k \in Slots : mem.events[k].posted # 0 /\ mem.events[k].processed # 0 =>
         Elsewhere(mem.events[k].by)
    /\ \A i \in Instances : pc[i] = "waiting" /\ ~wait[i].lost =>
         /\ wait[i].time <= mem.lastEvent
         /\ \A k \in Slots : mem.events[k].posted # 0 /\ mem.events[k].posted = wait[i].time =>
              mem.events[k].by = i

\* A step that at most clears events, and changes lastEvent only if nobody relies on it.
LEMMA LeaveKept ==
    ASSUME IInv, LeaveInv, wait' \in [Instances -> Waits],
           Cleared(mem.events, mem'.events),
           \A j \in Instances : Elsewhere(j) => Elsewhere(j)',
           \A j \in Instances : pc'[j] = "waiting" /\ ~wait'[j].lost =>
               pc[j] = "waiting" /\ wait'[j] = wait[j] /\ mem'.lastEvent = mem.lastEvent
    PROVE  LeaveInv'
<1>1. \A k \in Slots : mem'.events[k].posted # 0 => mem'.events[k] = mem.events[k]
  BY FreeType DEF Cleared
<1>2. \A k \in Slots : mem'.events[k].posted = 0 => mem'.events[k].processed = 0
  BY FreeType DEF Cleared, LeaveInv
<1>3. ASSUME NEW k \in Slots, mem'.events[k].posted # 0, mem'.events[k].processed # 0,
             NEW j, j = mem'.events[k].by
      PROVE  \E n \in DOMAIN handled'[j] : handled'[j][n] # j
  <2>1. j \in Instances /\ Elsewhere(j)
    BY <1>1, <1>3 DEF LeaveInv, IInv, SendersInv
  <2>2. QED BY <2>1 DEF Elsewhere
<1>4. ASSUME NEW j \in Instances, pc'[j] = "waiting", ~wait'[j].lost
      PROVE  /\ wait'[j].time <= mem'.lastEvent
             /\ \A k \in Slots : mem'.events[k].posted # 0 /\ mem'.events[k].posted = wait'[j].time =>
                  mem'.events[k].by = j
  <2>1. pc[j] = "waiting" /\ ~wait[j].lost /\ wait'[j] = wait[j] /\ mem'.lastEvent = mem.lastEvent
    BY <1>4
  <2>2. QED BY <1>1, <2>1 DEF LeaveInv
<1>5. QED BY <1>2, <1>3, <1>4 DEF LeaveInv, Elsewhere

\* Nobody is waiting for an answer in a memory that is zeroed: they know, or are not there.
LEMMA ZeroedKeeps ==
    ASSUME IInv, LeaveInv, NEW i \in Instances, ZeroedBy(i), handled' = handled,
           \A j \in Instances : pc'[j] = "waiting" => pc[j] = "waiting"
    PROVE  LeaveInv'
<1>1. mem \in Memory /\ clock \in Nat
  BY DEF IInv, TypeInv
<1>2. Cleared(mem.events, mem'.events)
  BY <1>1, OwnedByClears DEF ZeroedBy
<1>3. \A j \in Instances : wait'[j] = IF pc[j] = "waiting" THEN [wait[j] EXCEPT !.lost = TRUE]
                                      ELSE wait[j]
  BY DEF ZeroedBy
<1>4. wait' \in [Instances -> Waits]
  BY DEF ZeroedBy, LeaveInv, Waits
<1>5. \A j \in Instances : pc[j] = "waiting" => wait'[j].lost
  BY <1>3 DEF LeaveInv, Waits
<1>6. \A j \in Instances : Elsewhere(j) => Elsewhere(j)'
  BY DEF Elsewhere
<1>7. QED BY <1>2, <1>4, <1>5, <1>6, LeaveKept

\* The event that a process posts is the only one with the time that it waits with.
LEMMA PostEventLeaves ==
    ASSUME IInv, MemoryInv, LeaveInv, NEW i \in Instances, PostEvent(i)
    PROVE  LeaveInv'
<1>1. /\ mem \in Memory /\ clock \in Nat /\ pc[i] = "started" /\ pc \in [Instances -> Places]
      /\ mem.lastEvent \in Nat /\ mem.events \in [Slots -> Event]
      /\ wait \in [Instances -> Waits] /\ handled' = handled
  BY DEF IInv, TypeInv, MemoryInv, Memory, LeaveInv, PostEvent, past
<1>2. \A j \in Instances : Elsewhere(j) => Elsewhere(j)'
  BY <1>1 DEF Elsewhere
<1>3. CASE mem' = mem /\ wait' = wait /\ Goto(i, "loading")
  <2>1. \A j \in Instances : pc'[j] = "waiting" => pc[j] = "waiting"
    BY <1>1, <1>3 DEF Goto
  <2>2. Cleared(mem.events, mem'.events)
    BY <1>3 DEF Cleared
  <2>3. QED BY <1>1, <1>2, <1>3, <2>1, <2>2, LeaveKept
<1>4. ASSUME NEW time \in Nat, Goto(i, "waiting"), wait' = [wait EXCEPT ![i] = WaitFor(time)]
      PROVE  /\ wait' \in [Instances -> Waits] /\ wait'[i].time = time
             /\ \A j \in Instances \ {i} : pc'[j] = pc[j] /\ wait'[j] = wait[j]
  <2>1. WaitFor(time) \in Waits /\ WaitFor(time).time = time
    BY <1>1, <1>4 DEF WaitFor, Waits
  <2>2. QED BY <1>1, <1>4, <2>1 DEF Goto
<1>5. CASE mem' = mem /\ Goto(i, "waiting") /\ wait' = [wait EXCEPT ![i] = WaitFor(0)]
  <2>1. /\ wait' \in [Instances -> Waits] /\ wait'[i].time = 0
        /\ \A j \in Instances \ {i} : pc'[j] = pc[j] /\ wait'[j] = wait[j]
    BY <1>4, <1>5
  <2>2. \A j \in Instances : pc'[j] = "waiting" /\ ~wait'[j].lost =>
          /\ wait'[j].time <= mem'.lastEvent
          /\ \A k \in Slots : mem'.events[k].posted # 0 /\ mem'.events[k].posted = wait'[j].time =>
               mem'.events[k].by = j
    BY <1>1, <1>5, <2>1 DEF LeaveInv
  <2>3. \A k \in Slots : mem'.events[k].posted # 0 /\ mem'.events[k].processed # 0 =>
          \E n \in DOMAIN handled'[mem'.events[k].by] :
              handled'[mem'.events[k].by][n] # mem'.events[k].by
    BY <1>1, <1>5 DEF LeaveInv, Elsewhere
  <2>4. QED BY <1>5, <2>1, <2>2, <2>3 DEF LeaveInv, Elsewhere
<1>6. CASE /\ \E k \in Slots :
                /\ First(k, EmptySlots)
                /\ mem' = [mem EXCEPT !.lastEvent = NextTime, !.events[k] = NewEvent(i, NextTime)]
           /\ Goto(i, "waiting") /\ wait' = [wait EXCEPT ![i] = WaitFor(NextTime)]
  <2>1. PICK k \in Slots :
           mem' = [mem EXCEPT !.lastEvent = NextTime, !.events[k] = NewEvent(i, NextTime)]
    BY <1>6
  <2>2. NextTime \in Nat /\ NextTime > mem.lastEvent
    BY <1>1 DEF NextTime
  <2>3. /\ mem'.lastEvent = NextTime /\ mem'.events[k] = NewEvent(i, NextTime)
        /\ \A l \in Slots : l # k => mem'.events[l] = mem.events[l]
    BY <1>1, <2>1 DEF Memory
  <2>4. NewEvent(i, NextTime).by = i /\ NewEvent(i, NextTime).posted = NextTime
        /\ NewEvent(i, NextTime).processed = 0
    BY DEF NewEvent, Free
  <2>5. /\ wait' \in [Instances -> Waits] /\ wait'[i].time = NextTime
        /\ \A j \in Instances \ {i} : pc'[j] = pc[j] /\ wait'[j] = wait[j]
    BY <1>4, <1>6, <2>2
  <2>6. \A l \in Slots : mem.events[l].posted \in Nat /\ mem.events[l].posted < NextTime
    <3>1. \A l \in Slots : mem.events[l].posted \in Nat
      BY <1>1 DEF Event
    <3>2. \A l \in Slots : mem.events[l].posted <= mem.lastEvent
      BY DEF IInv, TimesInv
    <3>3. QED BY <1>1, <2>2, <3>1, <3>2
  <2>7. ASSUME NEW j \in Instances, pc'[j] = "waiting", ~wait'[j].lost
        PROVE  /\ wait'[j].time <= mem'.lastEvent
               /\ \A l \in Slots : mem'.events[l].posted # 0 /\ mem'.events[l].posted = wait'[j].time =>
                    mem'.events[l].by = j
    <3>1. CASE j = i
      BY <2>2, <2>3, <2>4, <2>5, <2>6, <3>1
    <3>2. CASE j # i
      <4>1. pc[j] = "waiting" /\ ~wait[j].lost /\ wait'[j] = wait[j]
        BY <2>5, <2>7, <3>2
      <4>2. wait[j].time <= mem.lastEvent /\ wait[j].time \in Nat
            /\ \A l \in Slots : mem.events[l].posted # 0 /\ mem.events[l].posted = wait[j].time =>
                 mem.events[l].by = j
        BY <1>1, <4>1 DEF LeaveInv, Waits
      <4>3. QED BY <1>1, <2>2, <2>3, <2>4, <4>1, <4>2
    <3>3. QED BY <3>1, <3>2
  <2>8. \A l \in Slots : mem'.events[l].posted = 0 => mem'.events[l].processed = 0
    BY <2>3, <2>4 DEF LeaveInv
  <2>9. \A l \in Slots : mem'.events[l].posted # 0 /\ mem'.events[l].processed # 0 =>
          \E n \in DOMAIN handled'[mem'.events[l].by] :
              handled'[mem'.events[l].by][n] # mem'.events[l].by
    BY <1>1, <2>3, <2>4 DEF LeaveInv, Elsewhere
  <2>10. QED BY <2>5, <2>7, <2>8, <2>9 DEF LeaveInv, Elsewhere
<1>7. QED BY <1>3, <1>5, <1>6 DEF PostEvent

\* The event that is marked has been handled by the process that marks it.
LEMMA EventHandledLeaves ==
    ASSUME IInv, MemoryInv, LeaveInv, NEW i \in Instances, EventHandled(i)
    PROVE  LeaveInv'
<1>1. handling \in Slots /\ handling # 0 /\ UNCHANGED <<pc, handled, wait>>
  BY DEF EventHandled, MemoryInv, past
<1>2. /\ mem'.lastEvent = mem.lastEvent
      /\ \A l \in Slots : l # handling => mem'.events[l] = mem.events[l]
      /\ mem'.events[handling].posted = mem.events[handling].posted
      /\ mem'.events[handling].by = mem.events[handling].by
  BY <1>1, MarkedType DEF EventHandled
<1>3. mem.events[handling].posted # 0 /\ Elsewhere(mem.events[handling].by)
  BY <1>1 DEF IInv, HandledInv
<1>4. \A l \in Slots : mem'.events[l].posted = mem.events[l].posted
                       /\ mem'.events[l].by = mem.events[l].by
  BY <1>2
<1>5. \A l \in Slots : mem'.events[l].posted = 0 => mem'.events[l].processed = 0
  BY <1>2, <1>3 DEF LeaveInv
<1>6. \A l \in Slots : mem'.events[l].posted # 0 /\ mem'.events[l].processed # 0 =>
        \E n \in DOMAIN handled'[mem'.events[l].by] :
            handled'[mem'.events[l].by][n] # mem'.events[l].by
  BY <1>1, <1>2, <1>3 DEF LeaveInv, Elsewhere
<1>7. \A j \in Instances : pc'[j] = "waiting" /\ ~wait'[j].lost =>
        /\ wait'[j].time <= mem'.lastEvent
        /\ \A l \in Slots : mem'.events[l].posted # 0 /\ mem'.events[l].posted = wait'[j].time =>
             mem'.events[l].by = j
  BY <1>1, <1>2, <1>4 DEF LeaveInv
<1>8. wait' \in [Instances -> Waits]
  BY <1>1 DEF LeaveInv
<1>9. QED BY <1>5, <1>6, <1>7, <1>8 DEF LeaveInv, Elsewhere

\* A turn of the loop clears events, and at most hands one to a handler.
LEMMA RunEventHandlerLeaves ==
    ASSUME IInv, LeaveInv, NEW i \in Instances, RunEventHandler(i)
    PROVE  LeaveInv'
<1>1. PICK k \in Slots :
         /\ k \in Fetchable(i)
         /\ mem' = [mem EXCEPT !.events = CollectedBefore(k)]
         /\ \/ handled' = [handled EXCEPT ![mem.events[k].by] = Append(@, i)]
            \/ handled' = handled
         /\ pc' = pc /\ wait' = wait
  BY DEF RunEventHandler, First
<1>2. mem'.lastEvent = mem.lastEvent /\ Cleared(mem.events, mem'.events)
  BY <1>1, FetchedIsKept
<1>3. mem.events[k].by \in Instances
  BY <1>1 DEF Fetchable, IInv, SendersInv
<1>4. ASSUME NEW j \in Instances, Elsewhere(j)
      PROVE  Elsewhere(j)'
  <2>1. handled[j] \in Seq(Instances)
    BY DEF IInv, TypeInv
  <2>2. PICK n \in DOMAIN handled[j] : handled[j][n] # j
    BY <1>4 DEF Elsewhere
  <2>3. handled'[j] = handled[j] \/ handled'[j] = Append(handled[j], i)
    BY <1>1, <1>3 DEF IInv, TypeInv
  <2>4. n \in DOMAIN handled'[j] /\ handled'[j][n] = handled[j][n]
    BY <2>1, <2>2, <2>3, AppendProperties
  <2>5. QED BY <2>2, <2>4 DEF Elsewhere
<1>5. QED BY <1>1, <1>2, <1>4, LeaveKept DEF LeaveInv

\* The steps that leave the events and what was done with them alone.
LEMMA MovesLeave ==
    ASSUME IInv, MemoryInv, LeaveInv, NEW i \in Instances,
           pc' = pc \/ (\E where : where # "waiting" /\ Goto(i, where)),
           \/ wait' = wait
           \/ wait' = [wait EXCEPT ![i] = NoWait]
              /\ \E where : where # "waiting" /\ Goto(i, where),
           Cleared(mem.events, mem'.events), mem'.lastEvent = mem.lastEvent,
           \A j \in Instances : Elsewhere(j) => Elsewhere(j)'
    PROVE  LeaveInv'
<1>1. pc \in [Instances -> Places] /\ wait \in [Instances -> Waits] /\ NoWait \in Waits
  BY DEF MemoryInv, LeaveInv, NoWait, Waits
<1>2. wait' \in [Instances -> Waits]
  BY <1>1
<1>3. ASSUME NEW j \in Instances, pc'[j] = "waiting"
      PROVE  pc[j] = "waiting" /\ wait'[j] = wait[j]
  <2>1. CASE pc' = pc /\ wait' = wait
    BY <1>3, <2>1
  <2>2. CASE \E where : where # "waiting" /\ Goto(i, where)
    <3>1. j # i /\ pc'[j] = pc[j]
      BY <1>1, <1>3, <2>2 DEF Goto
    <3>2. wait'[j] = wait[j]
      BY <1>1, <3>1
    <3>3. QED BY <1>3, <3>1, <3>2
  <2>3. QED BY <2>1, <2>2
<1>4. QED BY <1>2, <1>3, LeaveKept

\* Giving up the ownership clears no event.
LEMMA DisownClears ==
    ASSUME mem \in Memory, NEW i,
           \/ mem' = mem
           \/ mem' = IF mem.globalId = i THEN [mem EXCEPT !.globalId = Nobody] ELSE mem
    PROVE  Cleared(mem.events, mem'.events) /\ mem'.lastEvent = mem.lastEvent
BY DEF Cleared, Memory

\* The steps of a process in startGui, in the GUI and at its end.
LEMMA OtherStepsLeave ==
    ASSUME IInv, MemoryInv, LeaveInv, NEW i \in Instances,
           \/ LeaveToOther(i) \/ GiveUp(i) \/ ShowLogin(i) \/ Logout(i) \/ Exit(i) \/ CrashOf(i)
           \/ \E p \in Profiles : Rename(i, p)
    PROVE  LeaveInv'
<1>1. Cleared(mem.events, mem'.events) /\ mem'.lastEvent = mem.lastEvent
  <2>1. mem \in Memory
    BY DEF IInv, TypeInv
  <2>2. QED BY <2>1, DisownClears
        DEF LeaveToOther, GiveUp, ShowLogin, Logout, Exit, CrashOf, Rename
<1>2. \A j \in Instances : Elsewhere(j) => Elsewhere(j)'
  <2>1. handled' = handled
    BY DEF LeaveToOther, GiveUp, ShowLogin, Logout, Exit, CrashOf, Rename, past
  <2>2. QED BY <2>1 DEF Elsewhere
<1>3. CASE \E p \in Profiles : Rename(i, p)
  <2>1. pc' = pc /\ wait' = wait
    BY <1>3 DEF Rename
  <2>2. QED BY <1>1, <1>2, <2>1, MovesLeave
<1>4. CASE ShowLogin(i) \/ Logout(i)
  <2>1. wait' = wait /\ \E where \in {"login", "loggedOut"} : Goto(i, where)
    BY <1>4 DEF ShowLogin, Logout
  <2>2. QED BY <1>1, <1>2, <2>1, MovesLeave
<1>5. CASE LeaveToOther(i) \/ GiveUp(i) \/ Exit(i) \/ CrashOf(i)
  <2>1. /\ wait' = [wait EXCEPT ![i] = NoWait]
        /\ \E where \in {"done", "loading", "closed", "crashed"} : Goto(i, where)
    BY <1>5 DEF LeaveToOther, GiveUp, Exit, CrashOf, Forget
  <2>2. QED BY <1>1, <1>2, <2>1, MovesLeave
<1>6. QED BY <1>3, <1>4, <1>5

\* The constructor and the loop of processEvents.
LEMMA OwnershipLeaves ==
    ASSUME IInv, MemoryInv, LeaveInv, NEW i \in Instances,
           TakeFirstOwnership(i) \/ ProcessEvents(i) \/ Unlock(i)
    PROVE  LeaveInv'
<1>1. mem \in Memory /\ pc \in [Instances -> Places]
  BY DEF IInv, TypeInv, MemoryInv
<1>2. handled' = handled /\ \A j \in Instances : Elsewhere(j) => Elsewhere(j)'
  <2>1. handled' = handled
    BY DEF TakeFirstOwnership, ProcessEvents, Unlock, past
  <2>2. QED BY <2>1 DEF Elsewhere
<1>3. CASE TakeFirstOwnership(i)
  <2>1. Goto(i, "attached") /\ ZeroedBy(i)
    BY <1>3 DEF TakeFirstOwnership
  <2>2. \A j \in Instances : pc'[j] = "waiting" => pc[j] = "waiting"
    BY <1>1, <2>1 DEF Goto
  <2>3. QED BY <1>2, <2>1, <2>2, ZeroedKeeps
<1>4. CASE ProcessEvents(i) /\ ZeroedBy(i)
  BY <1>2, <1>4, ZeroedKeeps DEF ProcessEvents
<1>5. CASE ProcessEvents(i) /\ ~ZeroedBy(i)
  <2>1. pc' = pc /\ wait' = wait
        /\ (mem' = mem \/ mem' = [mem EXCEPT !.lastProcessed = clock])
    BY <1>5 DEF ProcessEvents
  <2>2. mem'.events = mem.events /\ mem'.lastEvent = mem.lastEvent
    BY <1>1, <2>1 DEF Memory
  <2>3. Cleared(mem.events, mem'.events)
    BY <2>2 DEF Cleared
  <2>4. QED BY <1>2, <2>1, <2>2, <2>3, MovesLeave
<1>6. CASE Unlock(i)
  <2>1. mem' = [mem EXCEPT !.events = CollectedBefore(QueueSize + 1)] /\ wait' = wait
        /\ (pc' = pc \/ Goto(i, "started"))
    BY <1>6 DEF Unlock
  <2>2. mem'.lastEvent = mem.lastEvent /\ Cleared(mem.events, mem'.events)
    BY <1>1, <2>1, CollectedClears DEF Memory
  <2>3. QED BY <1>2, <2>1, <2>2, MovesLeave
<1>7. QED BY <1>3, <1>4, <1>5, <1>6

\* A process that is launched is not waiting yet, and nobody is if there was no memory.
LEMMA LaunchLeaves ==
    ASSUME IInv, MemoryInv, LeaveInv, NEW i \in Instances, NEW n \in Names, NEW p \in Profiles,
           NEW d \in Profiles \cup {AnyProfile}, Launch(i, n, p, d)
    PROVE  LeaveInv'
<1>1. wait' = wait /\ handled' = handled /\ \E where \in {"created", "attached"} : Goto(i, where)
  BY DEF Launch, past
<1>2. \A j \in Instances : Elsewhere(j) => Elsewhere(j)'
  BY <1>1 DEF Elsewhere
<1>3. CASE mem' = mem
  <2>1. Cleared(mem.events, mem'.events) /\ mem'.lastEvent = mem.lastEvent
    BY <1>3 DEF Cleared
  <2>2. QED BY <1>1, <1>2, <2>1, MovesLeave
<1>4. CASE mem' = ZeroMemory /\ ~exists
  <2>1. Cleared(mem.events, mem'.events)
    BY <1>4 DEF Cleared, ZeroMemory
  <2>2. \A j \in Instances : pc[j] # "waiting"
    BY <1>4 DEF MemoryInv, Attached, Ended
  <2>3. \A j \in Instances : pc'[j] # "waiting"
    BY <1>1, <2>2 DEF Goto, MemoryInv
  <2>4. wait' \in [Instances -> Waits]
    BY <1>1 DEF LeaveInv
  <2>5. QED BY <1>2, <2>1, <2>3, <2>4, LeaveKept
<1>5. QED BY <1>3, <1>4 DEF Launch

\* A process that handles its own event takes nothing from what others did.
LEMMA LoginLeaves ==
    ASSUME IInv, MemoryInv, LeaveInv, NEW i \in Instances, NEW p \in Profiles, Login(i, p)
    PROVE  LeaveInv'
<1>1. mem' = mem /\ wait' = wait /\ Goto(i, "running")
      /\ (handled' = handled \/ handled' = [handled EXCEPT ![i] = Append(@, i)])
  BY DEF Login
<1>2. Cleared(mem.events, mem'.events) /\ mem'.lastEvent = mem.lastEvent
  BY <1>1 DEF Cleared
<1>3. ASSUME NEW j \in Instances, Elsewhere(j)
      PROVE  Elsewhere(j)'
  <2>1. handled[j] \in Seq(Instances)
    BY DEF IInv, TypeInv
  <2>2. PICK n \in DOMAIN handled[j] : handled[j][n] # j
    BY <1>3 DEF Elsewhere
  <2>3. handled'[j] = handled[j] \/ handled'[j] = Append(handled[j], i)
    BY <1>1 DEF IInv, TypeInv
  <2>4. n \in DOMAIN handled'[j] /\ handled'[j][n] = handled[j][n]
    BY <2>1, <2>2, <2>3, AppendProperties
  <2>5. QED BY <2>2, <2>4 DEF Elsewhere
<1>4. QED BY <1>1, <1>2, <1>3, MovesLeave

\* Every step keeps what a waiting process relies on.
LEMMA NextLeaves ==
    ASSUME IInv, MemoryInv, LeaveInv, [Next]_vars
    PROVE  LeaveInv'
<1>1. ASSUME NEW i \in Instances, NEW n \in Names, NEW p \in Profiles,
             NEW d \in Profiles \union {AnyProfile}, Launch(i, n, p, d)
      PROVE  LeaveInv'
  BY <1>1, LaunchLeaves
<1>2. ASSUME NEW i \in Instances, Step(i) \/ CloseDialog(i)
      PROVE  LeaveInv'
  BY <1>2, OwnershipLeaves, RunEventHandlerLeaves, PostEventLeaves, EventHandledLeaves,
     OtherStepsLeave DEF Step, CloseDialog
<1>3. ASSUME NEW i \in Instances, NEW p \in Profiles, Login(i, p) \/ Rename(i, p)
      PROVE  LeaveInv'
  BY <1>3, LoginLeaves, OtherStepsLeave
<1>4. ASSUME NEW i \in Instances, ShowLogin(i) \/ Logout(i) \/ Exit(i) \/ CrashOf(i)
      PROVE  LeaveInv'
  BY <1>4, OtherStepsLeave
<1>5. CASE Tick \/ UNCHANGED vars
  <2>1. UNCHANGED <<mem, pc, handled, wait>>
    BY <1>5 DEF Tick, vars, past
  <2>2. \A j \in Instances : Elsewhere(j) => Elsewhere(j)'
    BY <2>1 DEF Elsewhere
  <2>3. Cleared(mem.events, mem'.events)
    BY <2>1 DEF Cleared
  <2>4. wait' \in [Instances -> Waits]
    BY <2>1 DEF LeaveInv
  <2>5. QED BY <2>1, <2>2, <2>3, <2>4, LeaveKept
<1>6. QED BY <1>1, <1>2, <1>3, <1>4, <1>5 DEF Next

\* Nobody waits at first.
LEMMA InitLeaves == Init => LeaveInv
<1> SUFFICES ASSUME Init PROVE LeaveInv
  OBVIOUS
<1>1. \A k \in Slots : mem.events[k] = Free
  BY DEF Init, ZeroMemory
<1>2. wait \in [Instances -> Waits]
  BY DEF Init, NoWait, Waits
<1>3. \A i \in Instances : pc[i] = "off"
  BY DEF Init
<1>4. QED BY <1>1, <1>2, <1>3, FreeType DEF LeaveInv

\* Only waitUntilAccepted ends a process this way.
LEMMA DoneByLeaving ==
    ASSUME MemoryInv, [Next]_vars, NEW i \in Instances, pc[i] = "waiting", pc'[i] = "done"
    PROVE  LeaveToOther(i)
<1> DEFINE Others == Places \ {"done"}
<1>1. ASSUME NEW j \in Instances, NEW where, Goto(j, where)
      PROVE  where = "done" /\ j = i
  <2>1. pc' = [pc EXCEPT ![j] = where] /\ pc \in [Instances -> Places]
    BY <1>1 DEF Goto, MemoryInv
  <2>2. pc'[i] = IF i = j THEN where ELSE pc[i]
    BY <2>1
  <2>3. QED BY <2>2
<1>2. pc' # pc
  OBVIOUS
<1>3. ASSUME NEW j \in Instances, Step(j) \/ CloseDialog(j)
      PROVE  LeaveToOther(i)
  <2>1. CASE LeaveToOther(j)
    BY <1>1, <2>1 DEF LeaveToOther
  <2>2. CASE TakeFirstOwnership(j)
    BY <1>1, <2>2 DEF TakeFirstOwnership
  <2>3. CASE ProcessEvents(j) \/ RunEventHandler(j) \/ EventHandled(j)
    BY <1>2, <2>3 DEF ProcessEvents, RunEventHandler, EventHandled
  <2>4. CASE Unlock(j)
    BY <1>1, <1>2, <2>4 DEF Unlock
  <2>5. CASE PostEvent(j)
    BY <1>1, <2>5 DEF PostEvent
  <2>6. CASE GiveUp(j)
    BY <1>1, <2>6 DEF GiveUp
  <2>7. QED BY <1>3, <2>1, <2>2, <2>3, <2>4, <2>5, <2>6 DEF Step, CloseDialog
<1>4. ASSUME NEW j \in Instances,
             \/ \E n \in Names, p \in Profiles, d \in Profiles \union {AnyProfile} : Launch(j, n, p, d)
             \/ \E p \in Profiles : Login(j, p)
             \/ ShowLogin(j) \/ Logout(j) \/ Exit(j) \/ CrashOf(j)
      PROVE  FALSE
  <2>1. \E where \in {"created", "attached", "running", "login", "loggedOut", "closed", "crashed"} :
           Goto(j, where)
    BY <1>4 DEF Launch, Login, ShowLogin, Logout, Exit, CrashOf
  <2>2. QED BY <1>1, <2>1
<1>5. ~Tick /\ ~UNCHANGED vars /\ \A j \in Instances, p \in Profiles : ~Rename(j, p)
  BY <1>2 DEF Tick, vars, Rename
<1>6. QED BY <1>3, <1>4, <1>5 DEF Next

\* startGui exits only if another instance has handled its event, or if the memory was zeroed
\* while it waited: the slot it finds by the time of the event is that of the event.
THEOREM LeavesOnlyIfHandledHolds == Spec => LeavesOnlyIfHandled
<1>1. ASSUME IInv, MemoryInv, LeaveInv, [Next]_vars, NEW i \in Instances,
             pc[i] = "waiting", pc'[i] = "done"
      PROVE  wait[i].lost \/ \E k \in DOMAIN handled[i] : handled[i][k] # i
  <2>1. LeaveToOther(i)
    BY <1>1, DoneByLeaving
  <2>2. PICK k \in Slots : mem.events[k].posted = wait[i].time /\ mem.events[k].processed # 0
    BY <2>1 DEF LeaveToOther, Accepted
  <2>3. mem.events[k].posted # 0
    BY <1>1, <2>2 DEF LeaveInv
  <2>4. CASE ~wait[i].lost
    <3>1. mem.events[k].by = i
      BY <1>1, <2>2, <2>3, <2>4 DEF LeaveInv
    <3>2. Elsewhere(i)
      BY <1>1, <2>2, <2>3, <3>1 DEF LeaveInv
    <3>3. QED BY <3>2 DEF Elsewhere
  <2>5. QED BY <2>4
<1>2. IInv /\ MemoryInv /\ LeaveInv /\ [Next]_vars =>
        [\A i \in Instances : pc[i] = "waiting" /\ pc'[i] = "done" =>
            wait[i].lost \/ \E k \in DOMAIN handled[i] : handled[i][k] # i]_vars
  BY <1>1
<1>3. Init => LeaveInv
  BY InitLeaves
<1>4. IInv /\ MemoryInv /\ LeaveInv /\ [Next]_vars => LeaveInv'
  BY NextLeaves
<1>5. QED BY <1>2, <1>3, <1>4, IInvHolds, PTL DEF Spec, LeavesOnlyIfHandled
-----------------------------------------------------------------------------
(* Types *)

\* The bounds of the times: each process posts one event at most, so lastEvent runs ahead of
\* the clock by their number at most.
Posters == {i \in Instances : ~Early(i)}
BoundInv ==
    /\ clock \in StartTime..MaxTime
    /\ mem.lastEvent <= clock + Cardinality(Posters)
    /\ \A k \in Slots : mem.events[k].processed <= clock


\* The number of processes that have been at postEvent.
LEMMA PostersType == IsFiniteSet(Posters) /\ Cardinality(Posters) \in Nat
<1>1. IsFiniteSet(Instances) /\ Posters \subseteq Instances
  BY IPCAssumption DEF IPCAssumption, Posters
<1>2. IsFiniteSet(Posters)
  BY <1>1, FS_Subset
<1>3. QED BY <1>2, FS_CardinalityType

\* It never falls, and a process that posts makes it grow.
LEMMA PostersGrow ==
    ASSUME \A j \in Instances : ~Early(j) => ~Early(j)'
    PROVE  /\ Cardinality(Posters)' \in Nat
           /\ Cardinality(Posters)' >= Cardinality(Posters)
           /\ \A i \in Instances : Early(i) /\ ~Early(i)' =>
                 Cardinality(Posters)' >= Cardinality(Posters) + 1
<1>1. IsFiniteSet(Posters') /\ Cardinality(Posters)' \in Nat /\ Posters \subseteq Posters'
  <2>1. IsFiniteSet(Instances) /\ Posters' \subseteq Instances
    BY IPCAssumption DEF IPCAssumption, Posters
  <2>2. IsFiniteSet(Posters') /\ Cardinality(Posters') \in Nat
    BY <2>1, FS_Subset, FS_CardinalityType
  <2>3. QED BY <2>2 DEF Posters
<1>2. Cardinality(Posters') >= Cardinality(Posters)
  BY <1>1, PostersType, FS_Subset
<1>3. ASSUME NEW i \in Instances, Early(i), ~Early(i)'
      PROVE  Cardinality(Posters') >= Cardinality(Posters) + 1
  <2>1. i \notin Posters /\ Posters \union {i} \subseteq Posters'
    BY <1>1, <1>3 DEF Posters
  <2>2. Cardinality(Posters \union {i}) = Cardinality(Posters) + 1
    BY <2>1, PostersType, FS_AddElement
  <2>3. Cardinality(Posters \union {i}) <= Cardinality(Posters')
    BY <1>1, <2>1, FS_Subset
  <2>4. QED BY <2>2, <2>3
<1>4. QED BY <1>1, <1>2, <1>3

\* A step that gives out no time and processes nothing.
LEMMA BoundsKept ==
    ASSUME IInv, BoundInv, clock' \in StartTime..MaxTime, clock <= clock',
           mem'.lastEvent = mem.lastEvent \/ mem'.lastEvent = 0,
           Cleared(mem.events, mem'.events),
           \A j \in Instances : ~Early(j) => ~Early(j)'
    PROVE  BoundInv'
<1>1. clock \in Nat /\ clock' \in Nat /\ mem.lastEvent \in Nat
  BY IPCAssumption DEF IPCAssumption, IInv, TypeInv, Memory, BoundInv
<1>2. mem'.lastEvent <= clock' + Cardinality(Posters)'
  BY <1>1, PostersType, PostersGrow DEF BoundInv
<1>3. \A k \in Slots : mem'.events[k].processed <= clock'
  <2>1. \A k \in Slots : mem.events[k].processed \in Nat
    BY DEF IInv, TypeInv, Memory, Event
  <2>2. Free.processed = 0
    BY DEF Free
  <2>3. QED BY <1>1, <2>1, <2>2 DEF Cleared, BoundInv
<1>4. QED BY <1>2, <1>3 DEF BoundInv

\* The steps of a process that give out no time, and its moves.
LEMMA MovesBounded ==
    ASSUME IInv, MemoryInv, BoundInv, NEW i \in Instances,
           pc' = pc \/ \E where \in Places : /\ Goto(i, where)
                                             /\ Early(i) \/ where \notin {"off", "created", "attached", "started"},
           clock' = clock, mem'.lastEvent = mem.lastEvent \/ mem'.lastEvent = 0,
           Cleared(mem.events, mem'.events)
    PROVE  BoundInv'
<1>1. \A j \in Instances : ~Early(j) => ~Early(j)'
  <2>1. CASE pc' = pc
    BY <2>1 DEF Early
  <2>2. CASE \E where \in Places : /\ Goto(i, where)
                                   /\ Early(i) \/ where \notin {"off", "created", "attached", "started"}
    BY <2>2, Advances
  <2>3. QED BY <2>1, <2>2
<1>2. clock' \in StartTime..MaxTime /\ clock <= clock'
  BY IPCAssumption DEF IPCAssumption, BoundInv
<1>3. QED BY <1>1, <1>2, BoundsKept

LEMMA OwnershipBounded ==
    ASSUME IInv, MemoryInv, BoundInv, NEW i \in Instances,
           TakeFirstOwnership(i) \/ ProcessEvents(i) \/ Unlock(i)
    PROVE  BoundInv'
<1>1. mem \in Memory /\ clock \in Nat
  BY DEF IInv, TypeInv
<1>2. OwnedBy(i).lastEvent = 0
  BY DEF OwnedBy, ZeroMemory
<1>3. CASE TakeFirstOwnership(i)
  <2>1. mem' = OwnedBy(i) /\ Cleared(mem.events, mem'.events)
    BY <1>1, <1>3, OwnedByClears DEF TakeFirstOwnership, ZeroedBy
  <2>2. Goto(i, "attached") /\ "attached" \in Places /\ Early(i) /\ clock' = clock
    BY <1>3 DEF TakeFirstOwnership, Places, Holding, Early
  <2>3. QED BY <1>2, <2>1, <2>2, MovesBounded
<1>4. CASE ProcessEvents(i)
  <2>1. CASE mem' = OwnedBy(i)
    BY <1>1, <1>2, <1>4, <2>1, OwnedByClears, MovesBounded DEF ProcessEvents
  <2>2. CASE mem' = mem \/ mem' = [mem EXCEPT !.lastProcessed = clock]
    <3>1. mem'.events = mem.events /\ mem'.lastEvent = mem.lastEvent
      BY <1>1, <2>2 DEF Memory
    <3>2. Cleared(mem.events, mem'.events)
      BY <3>1 DEF Cleared
    <3>3. QED BY <1>4, <3>1, <3>2, MovesBounded DEF ProcessEvents
  <2>3. QED BY <1>4, <2>1, <2>2 DEF ProcessEvents, ZeroedBy
<1>5. CASE Unlock(i)
  <2>1. mem' = [mem EXCEPT !.events = CollectedBefore(QueueSize + 1)]
    BY <1>5 DEF Unlock
  <2>2. Cleared(mem.events, mem'.events) /\ mem'.lastEvent = mem.lastEvent
    BY <1>1, <2>1, CollectedClears DEF Memory
  <2>3. pc' = pc \/ (Goto(i, "started") /\ "started" \in Places /\ Early(i))
    BY <1>5 DEF Unlock, Places, Early
  <2>4. QED BY <1>5, <2>2, <2>3, MovesBounded DEF Unlock
<1>6. QED BY <1>3, <1>4, <1>5
LEMMA RunEventHandlerBounded ==
    ASSUME IInv, MemoryInv, BoundInv, NEW i \in Instances, RunEventHandler(i)
    PROVE  BoundInv'
<1>1. PICK k \in Slots : /\ mem' = [mem EXCEPT !.events = CollectedBefore(k)]
                        /\ clock' = clock /\ pc' = pc
  BY DEF RunEventHandler
<1>2. mem'.lastEvent = mem.lastEvent /\ Cleared(mem.events, mem'.events)
  BY <1>1, FetchedIsKept
<1>3. QED BY <1>1, <1>2, MovesBounded

\* An event is marked as processed at this second.
LEMMA EventHandledBounded ==
    ASSUME IInv, MemoryInv, BoundInv, NEW i \in Instances, EventHandled(i)
    PROVE  BoundInv'
<1>1. /\ handling \in Slots /\ clock' = clock /\ pc' = pc
      /\ mem' = [mem EXCEPT !.events[handling].accepted = TRUE,
                            !.events[handling].processed = clock]
  BY DEF EventHandled, MemoryInv
<1>2. /\ mem'.lastEvent = mem.lastEvent /\ mem'.events[handling].processed = clock
      /\ \A l \in Slots : l # handling => mem'.events[l] = mem.events[l]
  BY <1>1, MarkedType
<1>3. clock \in Nat
  BY DEF IInv, TypeInv
<1>4. ASSUME NEW l \in Slots PROVE mem'.events[l].processed <= clock'
  <2>1. CASE l = handling
    <3>1. mem'.events[l].processed = clock
      BY <1>2, <2>1
    <3>2. QED BY <1>1, <1>3, <3>1
  <2>2. CASE l # handling
    BY <1>1, <1>2, <2>2 DEF BoundInv
  <2>3. QED BY <2>1, <2>2
<1>5. Posters' = Posters
  BY <1>1 DEF Posters, Early
<1>6. mem'.lastEvent <= clock' + Cardinality(Posters)'
  BY <1>1, <1>2, <1>5 DEF BoundInv
<1>7. QED BY <1>1, <1>4, <1>6 DEF BoundInv

\* The time given out is ahead of the clock by as many as have posted.
LEMMA PostEventBounded ==
    ASSUME IInv, MemoryInv, BoundInv, NEW i \in Instances, PostEvent(i)
    PROVE  BoundInv'
<1>1. mem \in Memory /\ clock \in Nat /\ pc[i] = "started" /\ clock' = clock
      /\ pc \in [Instances -> Places]
  BY DEF IInv, TypeInv, MemoryInv, PostEvent
<1>2. \E where \in {"loading", "waiting"} : Goto(i, where)
  BY DEF PostEvent
<1>3. CASE mem' = mem
  <2>1. Cleared(mem.events, mem'.events)
    BY <1>3 DEF Cleared
  <2>2. \A where \in {"loading", "waiting"} :
           where \in Places /\ where \notin {"off", "created", "attached", "started"}
    BY DEF Places, Holding
  <2>3. QED BY <1>1, <1>2, <1>3, <2>1, <2>2, MovesBounded
<1>4. CASE \E k \in Slots :
             mem' = [mem EXCEPT !.lastEvent = NextTime, !.events[k] = NewEvent(i, NextTime)]
  <2>1. PICK k \in Slots :
           mem' = [mem EXCEPT !.lastEvent = NextTime, !.events[k] = NewEvent(i, NextTime)]
    BY <1>4
  <2>2. /\ mem.events \in [Slots -> Event] /\ mem.lastEvent \in Nat
        /\ mem'.events = [mem.events EXCEPT ![k] = NewEvent(i, NextTime)]
        /\ mem'.lastEvent = NextTime
    BY <1>1, <2>1 DEF Memory
  <2>3. Early(i) /\ ~Early(i)' /\ \A j \in Instances : ~Early(j) => ~Early(j)'
    <3>1. PICK where \in {"loading", "waiting"} : Goto(i, where)
      BY <1>2
    <3>2. pc'[i] = where /\ \A j \in Instances : j # i => pc'[j] = pc[j]
      BY <1>1, <3>1 DEF Goto
    <3>3. QED BY <1>1, <3>2 DEF Early
  <2>4. Cardinality(Posters)' \in Nat /\ Cardinality(Posters)' >= Cardinality(Posters) + 1
    BY <2>3, PostersGrow
  <2>5. NextTime <= clock + Cardinality(Posters) + 1
    BY <1>1, <2>2, PostersType DEF NextTime, BoundInv
  <2>6. mem'.lastEvent <= clock' + Cardinality(Posters)'
    BY <1>1, <2>2, <2>4, <2>5, PostersType DEF NextTime
  <2>7. NewEvent(i, NextTime).processed = 0
    BY DEF NewEvent, Free
  <2>8. ASSUME NEW l \in Slots PROVE mem'.events[l].processed <= clock'
    <3>1. CASE l = k
      <4>1. mem'.events[l] = NewEvent(i, NextTime)
        BY <2>2, <3>1
      <4>2. QED BY <1>1, <2>7, <4>1
    <3>2. CASE l # k
      <4>1. mem'.events[l] = mem.events[l]
        BY <2>2, <3>2
      <4>2. QED BY <1>1, <4>1 DEF BoundInv
    <3>3. QED BY <3>1, <3>2
  <2>9. QED BY <1>1, <2>6, <2>8 DEF BoundInv
<1>5. QED BY <1>3, <1>4 DEF PostEvent

LEMMA OtherStepsBounded ==
    ASSUME IInv, MemoryInv, BoundInv, NEW i \in Instances,
           \/ LeaveToOther(i) \/ GiveUp(i) \/ ShowLogin(i) \/ Logout(i) \/ Exit(i) \/ CrashOf(i)
           \/ \E p \in Profiles : Login(i, p) \/ Rename(i, p)
    PROVE  BoundInv'
<1> DEFINE Later == {"done", "loading", "login", "running", "loggedOut", "closed", "crashed"}
<1>1. mem \in Memory
  BY DEF IInv, TypeInv
<1>2. Cleared(mem.events, mem'.events) /\ mem'.lastEvent = mem.lastEvent
  <2>1. CASE mem' = mem
    BY <2>1 DEF Cleared
  <2>2. CASE mem' = [mem EXCEPT !.globalId = Nobody]
    BY <1>1, <2>2, DisownClears
  <2>3. QED BY <2>1, <2>2 DEF LeaveToOther, GiveUp, ShowLogin, Login, Rename, Logout, Exit, CrashOf
<1>3. pc' = pc \/ \E where \in Later : Goto(i, where)
  BY DEF LeaveToOther, GiveUp, ShowLogin, Login, Rename, Logout, Exit, CrashOf
<1>4. \A where \in Later : where \in Places /\ where \notin {"off", "created", "attached", "started"}
  BY DEF Places, Holding
<1>5. clock' = clock
  BY DEF LeaveToOther, GiveUp, ShowLogin, Login, Rename, Logout, Exit, CrashOf
<1>6. QED BY <1>2, <1>3, <1>4, <1>5, MovesBounded

LEMMA NextBounded ==
    ASSUME IInv, MemoryInv, BoundInv, [Next]_vars
    PROVE  BoundInv'
<1>1. ASSUME NEW i \in Instances, NEW n \in Names, NEW p \in Profiles,
             NEW d \in Profiles \union {AnyProfile}, Launch(i, n, p, d)
      PROVE  BoundInv'
  <2>1. mem' = mem \/ mem' = ZeroMemory
    BY <1>1 DEF Launch
  <2>2. Cleared(mem.events, mem'.events) /\ mem'.lastEvent \in {mem.lastEvent, 0}
    BY <2>1 DEF Cleared, ZeroMemory
  <2>3. \E where \in {"attached", "created"} : Goto(i, where)
    BY <1>1 DEF Launch
  <2>4. Early(i) /\ \A where \in {"attached", "created"} : where \in Places
    BY <1>1 DEF Launch, Early, Places, Holding
  <2>5. clock' = clock
    BY <1>1 DEF Launch
  <2>6. QED BY <2>2, <2>3, <2>4, <2>5, MovesBounded
<1>2. ASSUME NEW i \in Instances, Step(i) \/ CloseDialog(i)
      PROVE  BoundInv'
  BY <1>2, OwnershipBounded, RunEventHandlerBounded, EventHandledBounded, PostEventBounded,
     OtherStepsBounded DEF Step, CloseDialog
<1>3. ASSUME NEW i \in Instances,
             \/ ShowLogin(i) \/ Logout(i) \/ Exit(i) \/ CrashOf(i)
             \/ \E p \in Profiles : Login(i, p) \/ Rename(i, p)
      PROVE  BoundInv'
  BY <1>3, OtherStepsBounded
<1>4. CASE Tick \/ UNCHANGED vars
  <2>1. UNCHANGED <<mem, pc>> /\ clock' \in StartTime..MaxTime /\ clock <= clock'
    BY <1>4, IPCAssumption DEF IPCAssumption, Tick, vars, BoundInv
  <2>2. Cleared(mem.events, mem'.events) /\ \A j \in Instances : ~Early(j) => ~Early(j)'
    BY <2>1 DEF Cleared, Early
  <2>3. QED BY <2>1, <2>2, BoundsKept
<1>5. QED BY <1>1, <1>2, <1>3, <1>4 DEF Next

LEMMA InitBound == Init => BoundInv
<1> SUFFICES ASSUME Init PROVE BoundInv
  OBVIOUS
<1>1. mem.lastEvent = 0 /\ \A k \in Slots : mem.events[k].processed = 0
  BY DEF Init, ZeroMemory, Free
<1>2. clock \in StartTime..MaxTime /\ clock \in Nat
  BY IPCAssumption DEF Init, IPCAssumption
<1>3. QED BY <1>1, <1>2, PostersType DEF BoundInv

\* Times stay below the bound that the processes' one event each gives, the lock is held by an
\* attached process, the memory exists for those who are, a handler runs with the memory locked
\* for an event that is not processed, and every event has a sender.
THEOREM TypeOKHolds == Spec => []TypeOK
<1>1. IInv /\ BoundInv /\ MemoryInv => TypeOK
  <2> SUFFICES ASSUME IInv, BoundInv, MemoryInv PROVE TypeOK
    OBVIOUS
  <2>1. /\ mem \in Memory /\ clock \in StartTime..MaxTime /\ clock \in Nat /\ MaxTime \in Nat
        /\ mem.events \in [Slots -> Event]
    BY IPCAssumption DEF IPCAssumption, IInv, TypeInv, BoundInv, Memory
  <2>2. Cardinality(Posters) <= Cardinality(Instances) /\ Cardinality(Instances) \in Nat
    BY IPCAssumption, FS_Subset, FS_CardinalityType DEF IPCAssumption, Posters
  <2>3. ASSUME NEW k \in Slots PROVE mem.events[k] \in EventType
    <3>1. mem.events[k] \in Event
      BY <2>1
    <3>2. mem.events[k].processed \in 0..MaxTime
      BY <2>1, <3>1 DEF BoundInv, Event
    <3>3. mem.events[k].posted <= mem.lastEvent /\ mem.lastEvent \in Nat
      BY <2>1 DEF IInv, TimesInv, Memory
    <3>4. mem.events[k].posted \in 0..(MaxTime + Cardinality(Instances))
      BY <2>1, <2>2, <3>1, <3>3, PostersType DEF BoundInv, Event
    <3>5. QED BY <3>1, <3>2, <3>4 DEF Event, EventType
  <2>4. mem.events \in [Slots -> EventType]
    BY <2>1, <2>3
  <2>5. mem.globalId \in Instances \union {Nobody}
    BY <2>1 DEF Memory
  <2>6. holder # Nobody => Attached(holder)
    BY DEF MemoryInv, Attached, Ended, Holding
  <2>7. \A k \in Slots : mem.events[k].posted # 0 =>
           pc[mem.events[k].by] \notin {"off", "created", "attached", "started"}
    BY DEF IInv, SendersInv, Early
  <2>8. handling # 0 => mem.events[handling].posted # 0 /\ mem.events[handling].processed = 0
    BY DEF IInv, HandledInv
  <2>9. QED BY <2>1, <2>4, <2>5, <2>6, <2>7, <2>8 DEF TypeOK, MemoryInv
<1>2. Init => BoundInv
  BY InitBound
<1>3. IInv /\ MemoryInv /\ BoundInv /\ [Next]_vars => BoundInv'
  BY NextBounded
<1>4. QED BY <1>1, <1>2, <1>3, IInvHolds, PTL DEF Spec
=============================================================================
