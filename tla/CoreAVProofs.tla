------------------------------ MODULE CoreAVProofs -----------------------------
(* Proofs about CoreAV for every set of friends and any number of calls.        *)
EXTENDS CoreAV, SequenceTheorems, TLAPS

-----------------------------------------------------------------------------
(* The inductive invariant *)

\* What each thread can be doing, and where it can stand.
ThreadInv ==
    /\ Busy("gui") => /\ op["gui"].do \in {"start", "answer", "cancel"}
                      /\ op["gui"].at = "avEnd" => op["gui"].do = "cancel"
    /\ Busy("av") => /\ op["av"].do \in {"answer", "play", "send"}
                     /\ op["av"].at # "avEnd"
    /\ Busy("core") => /\ op["core"].do \in {"call", "sending", "finished"}
                       /\ op["core"].at = "callsLock"
    /\ \A t \in Threads : op[t].do = "play" => op[t].at = "callsLock"

\* What toxav is about to tell in a callback, and what CoreAV knows by then.
CallbackInv ==
    Busy("core") =>
        LET f == op["core"].friend
        IN /\ op["core"].do = "call" => toxav[f] = "invited" /\ calls[f] = NoCall
           /\ op["core"].do = "sending" => toxav[f] = "active" /\ calls[f] = OutgoingCall
           /\ op["core"].do = "finished" => toxav[f] = "none"

IInv == TypeOK /\ ThreadInv /\ CallbackInv /\ CallsFollowToxav
-----------------------------------------------------------------------------
(* Lemmas *)

Working == [do : {"start", "answer", "cancel", "call", "sending", "finished", "play", "send"},
            friend : Friends, at : {"callsLock", "coreLock", "avEnd"}]

\* A thread that does something that concerns a friend is busy with one of the operations.
LEMMA WorkingThread ==
    ASSUME TypeOK, NEW t \in Threads, op[t].do \notin {"nothing", "aborted"}
    PROVE  Busy(t) /\ op[t] \in Working
<1>1. op[t] # Idle /\ op[t] # Aborted
  BY DEF Idle, Aborted
<1>2. op[t] \in Operation
  BY DEF TypeOK
<1>3. QED BY <1>1, <1>2 DEF Busy, Operation, Working

\* Nobody holds coreLock exactly when the Core thread runs no callback and the GUI thread
\* is not in avEnd.
LEMMA CoreLockFree ==
    ASSUME TypeOK, coreLock = Nobody, NEW t \in Threads
    PROVE  ~(Busy(t) /\ (t = "core" \/ op[t].at = "avEnd"))
BY AVAssumption DEF TypeOK

\* The calls that the specification writes.
LEMMA CallTypes ==
    /\ NoCall \in Call /\ OutgoingCall \in Call /\ IncomingCall \in Call
    /\ [active |-> TRUE, state |-> "sending"] \in Call
BY DEF NoCall, OutgoingCall, IncomingCall, Call

\* A step of the locks of one thread keeps the lock facts of the other threads.
LEMMA BeginType ==
    ASSUME TypeOK, NEW t \in Threads, NEW f \in Friends,
           NEW what \in {"start", "answer", "cancel", "call", "sending", "finished", "play", "send"},
           Begin(t, what, f)
    PROVE  /\ op' \in [Threads -> Operation]
           /\ op'[t] = [do |-> what, friend |-> f, at |-> "callsLock"]
           /\ \A u \in Threads : u # t => op'[u] = op[u]
           /\ op'[t] \notin {Idle, Aborted}
<1>1. [do |-> what, friend |-> f, at |-> "callsLock"] \in Working
  BY DEF Working
<1>2. [do |-> what, friend |-> f, at |-> "callsLock"] \in Operation
  BY <1>1 DEF Working, Operation
<1>3. [do |-> what, friend |-> f, at |-> "callsLock"].do \notin {"nothing", "aborted"}
  OBVIOUS
<1>4. [do |-> what, friend |-> f, at |-> "callsLock"] \notin {Idle, Aborted}
  BY <1>3 DEF Idle, Aborted
<1>5. op \in [Threads -> Operation]
  BY DEF TypeOK
<1>6. QED BY <1>2, <1>4, <1>5 DEF Begin

\* A thread that has ended its operation is idle, and the others go on.
LEMMA EndType ==
    ASSUME TypeOK, NEW t \in Threads, End(t)
    PROVE  /\ op' \in [Threads -> Operation]
           /\ op'[t] = Idle
           /\ \A u \in Threads : u # t => op'[u] = op[u]
BY DEF TypeOK, End, Operation

\* Emitting adds a signal and may excuse the friend.
LEMMA EmitType ==
    ASSUME TypeOK, NEW f \in Friends, NEW s \in {"avInvite", "avStart", "avEnd"}, Emit(s, f)
    PROVE  /\ signals' \in Seq([name : {"avInvite", "avStart", "avEnd"}, friend : Friends])
           /\ raced' \subseteq Friends
BY DEF TypeOK, Emit
-----------------------------------------------------------------------------
(* The initial state *)

LEMMA InitIInv == Init => IInv
<1> SUFFICES ASSUME Init PROVE IInv
  OBVIOUS
<1>1. \A t \in Threads : op[t] = Idle /\ ~Busy(t)
  BY DEF Init, Busy
<1>2. TypeOK
  <2>1. op \in [Threads -> Operation]
    BY DEF Init, Operation
  <2>2. \A t \in Threads : callsLock # t /\ coreLock # t
    BY AVAssumption DEF Init
  <2>3. calls \in [Friends -> Call]
    BY CallTypes DEF Init
  <2>4. toxav \in [Friends -> {"none", "invited", "calling", "active"}]
    BY DEF Init
  <2>5. \A S : <<>> \in Seq(S)
    OBVIOUS
  <2>6. QED BY <1>1, <2>1, <2>2, <2>3, <2>4, <2>5 DEF Init, TypeOK
<1>3. ThreadInv /\ CallbackInv
  BY <1>1 DEF ThreadInv, CallbackInv, Threads, Idle
<1>4. CallsFollowToxav
  BY DEF Init, CallsFollowToxav
<1>5. QED BY <1>2, <1>3, <1>4 DEF IInv
-----------------------------------------------------------------------------
(* The steps that leave the calls alone *)

\* A step that changes neither calls nor toxav nor what the Core thread does keeps what the
\* callbacks know and CoreAV's agreement with toxav.
LEMMA CallsUntouched ==
    ASSUME IInv, calls' = calls, toxav' = toxav, op'["core"] = op["core"]
    PROVE  CallbackInv' /\ CallsFollowToxav'
<1>1. Busy("core")' = Busy("core")
  BY DEF Busy, Idle, Aborted
<1>2. CallbackInv'
  BY <1>1 DEF IInv, CallbackInv, OutgoingCall, NoCall
<1>3. CallsFollowToxav'
  BY <1>1 DEF IInv, CallsFollowToxav, OutgoingCall, NoCall, IncomingCall
<1>4. QED BY <1>2, <1>3

\* When no callback runs and the call of one friend changes, the friend's new call decides.
LEMMA OneCallChanges ==
    ASSUME IInv, ~Busy("core"), NEW f \in Friends,
           \A g \in Friends : g # f => calls'[g] = calls[g] /\ toxav'[g] = toxav[g],
           toxav'[f] = "none" => calls'[f] = NoCall,
           toxav'[f] = "calling" => calls'[f] = OutgoingCall,
           toxav'[f] = "invited" => calls'[f] = IncomingCall,
           toxav'[f] = "active" => calls'[f] = [active |-> TRUE, state |-> "sending"]
    PROVE  CallsFollowToxav'
<1>1. SUFFICES ASSUME NEW g \in Friends
               PROVE  /\ toxav'[g] = "none" => calls'[g] = NoCall
                      /\ toxav'[g] = "calling" => calls'[g] = OutgoingCall
                      /\ toxav'[g] = "invited" => calls'[g] = IncomingCall
                      /\ toxav'[g] = "active" => calls'[g] = [active |-> TRUE, state |-> "sending"]
  BY DEF CallsFollowToxav, NoCall, OutgoingCall, IncomingCall
<1>2. CASE g = f
  BY <1>2
<1>3. CASE g # f
  BY <1>3 DEF IInv, CallsFollowToxav
<1>4. QED BY <1>2, <1>3

\* A thread that was idle begins an operation, and takes no lock.
LEMMA BeginPreserves ==
    ASSUME IInv, NEW t \in {"gui", "av"}, NEW f \in Friends,
           NEW what \in {"start", "answer", "cancel", "play", "send"},
           t = "gui" => what \notin {"play", "send"}, t = "av" => what \in {"answer", "play", "send"},
           op[t] = Idle, Begin(t, what, f),
           UNCHANGED <<calls, locks, toxav>>,
           isCancelling' \in BOOLEAN,
           signals' = signals, invocations' \in Seq(AutoAccept),
           callConfirm' \subseteq Friends, counting' = counting, raced' \subseteq Friends
    PROVE  IInv'
<1>0. t \in Threads /\ TypeOK
  BY DEF Threads, IInv
<1>1. /\ op' \in [Threads -> Operation]
      /\ op'[t] = [do |-> what, friend |-> f, at |-> "callsLock"]
      /\ \A u \in Threads : u # t => op'[u] = op[u]
      /\ op'[t] \notin {Idle, Aborted}
  BY <1>0, BeginType
<1>2. ~Busy(t) /\ Busy(t)'
  BY <1>1 DEF Busy, Idle, Aborted
<1>3. \A u \in Threads : u # t => Busy(u)' = Busy(u)
  BY <1>1 DEF Busy, Idle, Aborted
<1>4. ASSUME NEW u \in Threads
      PROVE  /\ callsLock' = u <=> Busy(u)' /\ op'[u].at = "coreLock"
             /\ coreLock' = u <=> Busy(u)' /\ (u = "core" \/ op'[u].at = "avEnd")
  BY <1>0, <1>1, <1>2, <1>3 DEF TypeOK, locks
<1>5. TypeOK'
  BY <1>0, <1>1, <1>4 DEF TypeOK, locks
<1>6. ThreadInv'
  BY <1>1, <1>2, <1>3 DEF IInv, ThreadInv, Threads
<1>7. CallbackInv' /\ CallsFollowToxav'
  BY <1>1, CallsUntouched DEF Threads, locks
<1>8. QED BY <1>5, <1>6, <1>7 DEF IInv

\* Operations of the user.
LEMMA UserPreserves ==
    ASSUME IInv, NEW f \in Friends,
           CallTriggered(f) \/ AnswerCallTriggered(f) \/ RejectCallTriggered(f)
    PROVE  IInv'
<1>0. /\ TypeOK /\ raced' \subseteq Friends
  BY DEF IInv, TypeOK, CallTriggered, AnswerCallTriggered, RejectCallTriggered, Act
<1>1. CASE CallTriggered(f) /\ calls[f] # NoCall
  BY <1>0, <1>1, BeginPreserves DEF CallTriggered, queues, ui, TypeOK
<1>2. CASE CallTriggered(f) /\ calls[f] = NoCall
  BY <1>0, <1>2, BeginPreserves DEF CallTriggered, queues, ui, TypeOK
<1>3. CASE AnswerCallTriggered(f)
  BY <1>0, <1>3, BeginPreserves DEF AnswerCallTriggered, queues, TypeOK
<1>4. CASE RejectCallTriggered(f)
  BY <1>0, <1>4, BeginPreserves DEF RejectCallTriggered, queues, TypeOK
<1>5. QED BY <1>1, <1>2, <1>3, <1>4

\* The CoreAV thread takes up an answer, a frame or a picture to send.
LEMMA AvBeginPreserves ==
    ASSUME IInv, InvokeAnswerCall \/ \E f \in Friends : ReceiveFrame(f) \/ FrameAvailable(f)
    PROVE  IInv'
<1>0. TypeOK
  BY DEF IInv
<1>1. CASE InvokeAnswerCall
  <2>1. Head(invocations) \in AutoAccept /\ Tail(invocations) \in Seq(AutoAccept)
    BY <1>0, <1>1 DEF TypeOK, InvokeAnswerCall
  <2>2. QED BY <1>0, <1>1, <2>1, BeginPreserves, AVAssumption DEF InvokeAnswerCall, ui, TypeOK
<1>2. CASE \E f \in Friends : ReceiveFrame(f)
  BY <1>0, <1>2, BeginPreserves DEF ReceiveFrame, queues, ui, TypeOK
<1>3. CASE \E f \in Friends : FrameAvailable(f)
  BY <1>0, <1>3, BeginPreserves DEF FrameAvailable, queues, ui, TypeOK
<1>4. QED BY <1>1, <1>2, <1>3
-----------------------------------------------------------------------------
(* The operations that lock *)

\* A thread gets callsLock.
LEMMA LockCallsPreserves ==
    ASSUME IInv, NEW t \in {"gui", "av"}, LockCalls(t)
    PROVE  IInv'
<1>0. t \in Threads /\ TypeOK
  BY DEF Threads, IInv
<1>1. Busy(t) /\ op[t] \in Working
  BY <1>0, WorkingThread DEF LockCalls
<1>2. /\ op'[t] = [op[t] EXCEPT !.at = "coreLock"]
      /\ op'[t] \in Working
      /\ \A u \in Threads : u # t => op'[u] = op[u]
  BY <1>0, <1>1 DEF LockCalls, TypeOK, Working
<1>3. op' \in [Threads -> Operation]
  BY <1>0, <1>2 DEF LockCalls, TypeOK, Operation, Working
<1>4. Busy(t)' /\ \A u \in Threads : u # t => Busy(u)' = Busy(u)
  <2>1. op'[t].do \notin {"nothing", "aborted"}
    BY <1>1, <1>2 DEF LockCalls, Working
  <2>2. QED BY <1>2, <2>1 DEF Busy, Idle, Aborted
<1>5. ASSUME NEW u \in Threads
      PROVE  /\ callsLock' = u <=> Busy(u)' /\ op'[u].at = "coreLock"
             /\ coreLock' = u <=> Busy(u)' /\ (u = "core" \/ op'[u].at = "avEnd")
  <2>1. CASE u = t
    BY <1>0, <1>1, <1>2, <1>4, <2>1 DEF TypeOK, LockCalls, Working
  <2>2. CASE u # t
    BY <1>0, <1>2, <1>4, <2>2, AVAssumption DEF TypeOK, LockCalls
  <2>3. QED BY <2>1, <2>2
<1>6. TypeOK'
  BY <1>0, <1>3, <1>5 DEF TypeOK, LockCalls, queues, ui
<1>7. ThreadInv'
  BY <1>1, <1>2, <1>4 DEF IInv, ThreadInv, Threads, LockCalls, Working
<1>8. CallbackInv' /\ CallsFollowToxav'
  BY <1>2, CallsUntouched DEF Threads, LockCalls
<1>9. QED BY <1>6, <1>7, <1>8 DEF IInv

\* With both locks no callback runs, so every call is toxav's; no one else holds callsLock.
LEMMA BothLocks ==
    ASSUME IInv, NEW t \in {"gui", "av"}, NEW what \in {"start", "answer", "cancel"},
           Locked(t, what)
    PROVE  /\ t \in Threads /\ TypeOK /\ op[t] \in Working /\ Busy(t) /\ callsLock = t
           /\ ~Busy("core")
           /\ \A u \in Threads : ~(Busy(u) /\ (u = "core" \/ op[u].at = "avEnd"))
           /\ \A u \in Threads : u # t => ~(Busy(u) /\ op[u].at = "coreLock")
<1>0. t \in Threads /\ TypeOK
  BY DEF Threads, IInv
<1>1. Busy(t) /\ op[t] \in Working
  BY <1>0, WorkingThread DEF Locked
<1>2. callsLock = t
  BY <1>0, <1>1 DEF TypeOK, Locked
<1>3. \A u \in Threads : ~(Busy(u) /\ (u = "core" \/ op[u].at = "avEnd"))
  BY <1>0, CoreLockFree DEF Locked
<1>4. \A u \in Threads : u # t => ~(Busy(u) /\ op[u].at = "coreLock")
  BY <1>0, <1>2 DEF TypeOK
<1>5. ~Busy("core")
  BY <1>3 DEF Threads
<1>6. QED BY <1>0, <1>1, <1>2, <1>3, <1>4, <1>5

\* The thread returns with both locks free, or all threads stop.
LEMMA ReturnPreserves ==
    ASSUME IInv, NEW t \in {"gui", "av"}, NEW what \in {"start", "answer", "cancel"},
           Locked(t, what), callsLock' = Nobody, coreLock' = coreLock,
           End(t) \/ op' = [u \in Threads |-> Aborted],
           isCancelling' = isCancelling, UNCHANGED <<queues, callConfirm>>,
           counting' \subseteq Friends, raced' \subseteq Friends,
           calls' \in [Friends -> Call],
           toxav' \in [Friends -> {"none", "invited", "calling", "active"}]
    PROVE  /\ TypeOK' /\ ThreadInv' /\ CallbackInv'
           /\ ~Busy("core")'
<1>1. /\ t \in Threads /\ TypeOK /\ op[t] \in Working /\ Busy(t) /\ callsLock = t
      /\ ~Busy("core")
      /\ \A u \in Threads : ~(Busy(u) /\ (u = "core" \/ op[u].at = "avEnd"))
      /\ \A u \in Threads : u # t => ~(Busy(u) /\ op[u].at = "coreLock")
  BY BothLocks
<1>2. /\ op' \in [Threads -> Operation]
      /\ \A u \in Threads : op'[u] = op[u] \/ ~Busy(u)'
      /\ ~Busy(t)' /\ ~Busy("core")'
      /\ \A u \in Threads : op'[u] \in {op[u], Idle, Aborted}
  <2>1. CASE End(t)
    <3>1. /\ op' \in [Threads -> Operation] /\ op'[t] = Idle
          /\ \A u \in Threads : u # t => op'[u] = op[u]
      BY <1>1, <2>1, EndType
    <3>2. QED BY <1>1, <3>1 DEF Busy, Threads
  <2>2. CASE op' = [u \in Threads |-> Aborted]
    <3>1. \A u \in Threads : op'[u] = Aborted
      BY <2>2
    <3>2. op' \in [Threads -> Operation]
      BY <2>2 DEF Operation
    <3>3. QED BY <1>1, <3>1, <3>2 DEF Busy, Threads
  <2>3. QED BY <2>1, <2>2
<1>3. ASSUME NEW u \in Threads
      PROVE  /\ callsLock' = u <=> Busy(u)' /\ op'[u].at = "coreLock"
             /\ coreLock' = u <=> Busy(u)' /\ (u = "core" \/ op'[u].at = "avEnd")
  <2>1. callsLock' # u /\ coreLock' # u
    BY AVAssumption DEF Locked
  <2>2. CASE ~Busy(u)'
    BY <2>1, <2>2
  <2>3. CASE op'[u] = op[u] /\ u # t
    BY <1>1, <2>1, <2>3 DEF Busy, Idle, Aborted
  <2>4. QED BY <1>2, <2>2, <2>3
<1>4. TypeOK'
  BY <1>1, <1>2, <1>3 DEF TypeOK, queues
<1>5. \A u \in Threads : op'[u].do = "play" => op'[u].at = "callsLock"
  BY <1>2 DEF IInv, ThreadInv, Idle, Aborted
<1>6. ThreadInv'
  <2>1. \A u \in Threads : Busy(u)' => op'[u] = op[u] /\ Busy(u)
    BY <1>2 DEF Busy, Idle, Aborted
  <2>2. QED BY <1>5, <2>1 DEF IInv, ThreadInv, Threads
<1>7. CallbackInv'
  BY <1>2 DEF CallbackInv
<1>8. QED BY <1>2, <1>4, <1>6, <1>7

LEMMA StartCallPreserves ==
    ASSUME IInv, StartCall
    PROVE  IInv'
<1> DEFINE f == op["gui"].friend
<1>1. Locked("gui", "start")
  BY DEF StartCall
<1>2. TypeOK /\ f \in Friends /\ ~Busy("core")
  BY <1>1, BothLocks DEF Working
<1>3. /\ calls' \in [Friends -> Call]
      /\ toxav' \in [Friends -> {"none", "invited", "calling", "active"}]
  BY <1>2, CallTypes DEF StartCall, TypeOK
<1>4. TypeOK' /\ ThreadInv' /\ CallbackInv'
  BY <1>1, <1>2, <1>3, ReturnPreserves DEF StartCall, ui, TypeOK
<1>5. CallsFollowToxav'
  <2>1. /\ calls \in [Friends -> Call]
        /\ toxav \in [Friends -> {"none", "invited", "calling", "active"}]
    BY <1>2 DEF TypeOK
  <2>2. CASE UNCHANGED <<toxav, calls>>
    BY <1>2, <2>2 DEF IInv, CallsFollowToxav
  <2>3. CASE /\ toxav' = [toxav EXCEPT ![f] = "calling"]
             /\ calls' = [calls EXCEPT ![f] = OutgoingCall]
    BY <1>2, <2>1, <2>3 DEF IInv, CallsFollowToxav, NoCall, OutgoingCall, IncomingCall
  <2>4. QED BY <2>2, <2>3 DEF StartCall
<1>6. QED BY <1>4, <1>5 DEF IInv

LEMMA AnswerCallPreserves ==
    ASSUME IInv, NEW t \in {"gui", "av"}, AnswerCall(t)
    PROVE  IInv'
<1> DEFINE f == op[t].friend
<1>1. Locked(t, "answer")
  BY DEF AnswerCall
<1>2. TypeOK /\ f \in Friends /\ ~Busy("core")
  BY <1>1, BothLocks DEF Working
<1>3. \A c \in Call : c # NoCall => [active |-> TRUE, state |-> c.state] \in Call
  BY DEF Call, NoCall
<1>4. /\ calls' \in [Friends -> Call]
      /\ toxav' \in [Friends -> {"none", "invited", "calling", "active"}]
      /\ counting' \subseteq Friends /\ raced' \subseteq Friends
  BY <1>2, <1>3, CallTypes DEF AnswerCall, TypeOK
<1>5. TypeOK' /\ ThreadInv' /\ CallbackInv'
  BY <1>1, <1>2, <1>4, ReturnPreserves DEF AnswerCall, End, TypeOK
<1>6. CallsFollowToxav'
  <2>1. CASE calls[f] # NoCall /\ toxav[f] = "invited" /\ toxav' = [toxav EXCEPT ![f] = "active"]
             /\ calls' = [calls EXCEPT ![f] = [active |-> TRUE, state |-> calls[f].state]]
    <3>1. calls[f] = IncomingCall
      BY <1>2, <2>1 DEF IInv, CallsFollowToxav
    <3>2. calls' = [calls EXCEPT ![f] = [active |-> TRUE, state |-> "sending"]]
      BY <2>1, <3>1 DEF IncomingCall
    <3>3. /\ calls'[f] = [active |-> TRUE, state |-> "sending"] /\ toxav'[f] = "active"
          /\ \A g \in Friends : g # f => calls'[g] = calls[g] /\ toxav'[g] = toxav[g]
      BY <1>2, <2>1, <3>2 DEF TypeOK
    <3>4. QED BY <1>2, <3>3, OneCallChanges
        DEF NoCall, OutgoingCall, IncomingCall
  <2>2. CASE toxav' = toxav /\ calls' = calls
    BY <1>2, <2>2 DEF IInv, CallsFollowToxav, NoCall, OutgoingCall, IncomingCall
  <2>3. CASE toxav' = [toxav EXCEPT ![f] = "none"] /\ calls' = [calls EXCEPT ![f] = NoCall]
    BY <1>2, <2>3 DEF IInv, CallsFollowToxav, TypeOK, NoCall, OutgoingCall, IncomingCall
  <2>4. QED BY <2>1, <2>2, <2>3 DEF AnswerCall
<1>7. QED BY <1>5, <1>6 DEF IInv

LEMMA CancelCallPreserves ==
    ASSUME IInv, CancelCall
    PROVE  IInv'
<1> DEFINE f == op["gui"].friend
<1>1. Locked("gui", "cancel")
  BY DEF CancelCall
<1>2. /\ "gui" \in Threads /\ TypeOK /\ op["gui"] \in Working /\ Busy("gui") /\ callsLock = "gui"
      /\ ~Busy("core")
      /\ \A u \in Threads : ~(Busy(u) /\ (u = "core" \/ op[u].at = "avEnd"))
      /\ \A u \in Threads : u # "gui" => ~(Busy(u) /\ op[u].at = "coreLock")
  BY <1>1, BothLocks
<1>3. f \in Friends
  BY <1>2 DEF Working
<1>4. CASE toxav[f] = "none"
  <2>1. TypeOK' /\ ThreadInv' /\ CallbackInv' /\ op'["core"] = op["core"]
    BY <1>1, <1>2, <1>4, ReturnPreserves DEF CancelCall, ui, TypeOK, End, Threads
  <2>2. CallsFollowToxav'
    BY <1>4, <2>1, CallsUntouched DEF CancelCall
  <2>3. QED BY <2>1, <2>2 DEF IInv
<1>5. CASE toxav[f] # "none"
  <2>1. /\ op'["gui"] = [op["gui"] EXCEPT !.at = "avEnd"] /\ op'["gui"] \in Working
        /\ op'["gui"].do = "cancel" /\ op'["gui"].at = "avEnd"
        /\ \A u \in Threads : u # "gui" => op'[u] = op[u]
    BY <1>1, <1>2, <1>5 DEF CancelCall, TypeOK, Working, Locked
  <2>2. op' \in [Threads -> Operation]
    BY <1>2, <1>5, <2>1 DEF CancelCall, TypeOK, Operation, Working
  <2>3. Busy("gui")' /\ \A u \in Threads : u # "gui" => Busy(u)' = Busy(u)
    BY <2>1 DEF Busy, Idle, Aborted
  <2>4. ASSUME NEW u \in Threads
        PROVE  /\ callsLock' = u <=> Busy(u)' /\ op'[u].at = "coreLock"
               /\ coreLock' = u <=> Busy(u)' /\ (u = "core" \/ op'[u].at = "avEnd")
    <3>1. callsLock' = Nobody /\ coreLock' = "gui"
      BY <1>5 DEF CancelCall
    <3>2. CASE u = "gui"
      BY <2>1, <2>3, <3>1, <3>2, AVAssumption DEF Threads
    <3>3. CASE u # "gui"
      BY <1>2, <2>1, <2>3, <3>1, <3>3, AVAssumption
    <3>4. QED BY <3>2, <3>3
  <2>5. /\ calls' = [calls EXCEPT ![f] = NoCall]
        /\ toxav' = [toxav EXCEPT ![f] = "none"]
    BY <1>5 DEF CancelCall
  <2>6. TypeOK'
    <3>1. /\ calls' \in [Friends -> Call]
          /\ toxav' \in [Friends -> {"none", "invited", "calling", "active"}]
      BY <1>2, <1>3, <2>5, CallTypes DEF TypeOK
    <3>2. UNCHANGED <<isCancelling, signals, invocations, callConfirm, counting, raced>>
          /\ UNCHANGED bounds
      BY <1>5 DEF CancelCall, queues, ui
    <3>3. QED BY <1>2, <2>2, <2>4, <3>1, <3>2 DEF TypeOK, bounds
  <2>7. ThreadInv'
    BY <1>2, <2>1, <2>3 DEF IInv, ThreadInv, Threads
  <2>8. ~Busy("core")'
    BY <1>2, <2>3 DEF Threads
  <2>9. CallbackInv'
    BY <2>8 DEF CallbackInv
  <2>10. CallsFollowToxav'
    <3>1. /\ calls'[f] = NoCall /\ toxav'[f] = "none"
          /\ \A g \in Friends : g # f => calls'[g] = calls[g] /\ toxav'[g] = toxav[g]
      BY <1>2, <1>3, <2>5 DEF TypeOK
    <3>2. QED BY <1>2, <1>3, <3>1, OneCallChanges DEF NoCall, OutgoingCall, IncomingCall
  <2>11. QED BY <2>6, <2>7, <2>9, <2>10 DEF IInv
<1>6. QED BY <1>4, <1>5

\* A thread ends an operation, and with it the one lock it may hold.
LEMMA EndPreserves ==
    ASSUME IInv, NEW t \in Threads, Busy(t), End(t),
           \/ op[t].at # "coreLock" /\ callsLock' = callsLock
           \/ op[t].at = "coreLock" /\ callsLock' = Nobody,
           \/ coreLock = t /\ coreLock' = Nobody
           \/ coreLock # t /\ coreLock' = coreLock
    PROVE  /\ op' \in [Threads -> Operation] /\ ThreadInv' /\ ~Busy(t)'
           /\ \A u \in Threads : u # t => op'[u] = op[u]
           /\ \A u \in Threads :
                /\ callsLock' = u <=> Busy(u)' /\ op'[u].at = "coreLock"
                /\ coreLock' = u <=> Busy(u)' /\ (u = "core" \/ op'[u].at = "avEnd")
<1>0. TypeOK
  BY DEF IInv
<1>1. /\ op' \in [Threads -> Operation] /\ op'[t] = Idle
      /\ \A u \in Threads : u # t => op'[u] = op[u]
  BY <1>0, EndType
<1>2. ~Busy(t)' /\ \A u \in Threads : u # t => Busy(u)' = Busy(u)
  BY <1>1 DEF Busy, Idle, Aborted
<1>3. ASSUME NEW u \in Threads
      PROVE  /\ callsLock' = u <=> Busy(u)' /\ op'[u].at = "coreLock"
             /\ coreLock' = u <=> Busy(u)' /\ (u = "core" \/ op'[u].at = "avEnd")
  <2>1. CASE u = t
    <3>1. callsLock' # t
      BY <1>0, AVAssumption DEF TypeOK
    <3>2. coreLock' # t
      BY AVAssumption
    <3>3. QED BY <1>2, <2>1, <3>1, <3>2
  <2>2. CASE u # t
    <3>1. callsLock' = u <=> callsLock = u
      BY <1>0, <2>2, AVAssumption DEF TypeOK
    <3>2. coreLock' = u <=> coreLock = u
      BY <2>2, AVAssumption
    <3>3. QED BY <1>0, <1>1, <1>2, <2>2, <3>1, <3>2 DEF TypeOK
  <2>3. QED BY <2>1, <2>2
<1>4. \A u \in Threads : op'[u].do = "play" => op'[u].at = "callsLock"
  BY <1>1 DEF IInv, ThreadInv, Idle
<1>5. ThreadInv'
  BY <1>1, <1>2, <1>4 DEF IInv, ThreadInv, Threads
<1>6. QED BY <1>1, <1>2, <1>3, <1>5

\* The slots of avEnd, in the GUI thread, and the signals it gets later.
LEMMA SlotsPreserve ==
    ASSUME IInv, EmitAvEnd \/ HandleSignal
    PROVE  IInv'
<1>0. TypeOK
  BY DEF IInv
<1>1. CASE EmitAvEnd
  <2>1. Busy("gui") /\ op["gui"] \in Working /\ "gui" \in Threads
    BY <1>0, <1>1, WorkingThread DEF EmitAvEnd, Threads
  <2>2. coreLock = "gui" /\ op["gui"].at # "coreLock"
    BY <1>0, <1>1, <2>1 DEF EmitAvEnd, TypeOK
  <2>3. /\ op' \in [Threads -> Operation] /\ ThreadInv' /\ ~Busy("gui")'
        /\ \A u \in Threads : u # "gui" => op'[u] = op[u]
        /\ \A u \in Threads :
             /\ callsLock' = u <=> Busy(u)' /\ op'[u].at = "coreLock"
             /\ coreLock' = u <=> Busy(u)' /\ (u = "core" \/ op'[u].at = "avEnd")
    BY <1>1, <2>1, <2>2, EndPreserves DEF EmitAvEnd
  <2>4. TypeOK'
    BY <1>0, <1>1, <2>3 DEF TypeOK, EmitAvEnd, queues
  <2>5. CallbackInv' /\ CallsFollowToxav'
    BY <1>1, <2>3, CallsUntouched DEF EmitAvEnd, Threads
  <2>6. QED BY <2>3, <2>4, <2>5 DEF IInv
<1>2. CASE HandleSignal
  <2> DEFINE Signal == [name : {"avInvite", "avStart", "avEnd"}, friend : Friends]
             f == Head(signals).friend
  <2>1. signals' \in Seq(Signal) /\ f \in Friends
    <3>1. signals \in Seq(Signal) /\ signals # <<>> /\ signals' = Tail(signals)
      BY <1>0, <1>2 DEF TypeOK, HandleSignal
    <3>2. Head(signals) \in Signal /\ Tail(signals) \in Seq(Signal)
      BY <3>1, HeadTailProperties
    <3>3. QED BY <3>1, <3>2
  <2>2. /\ invocations' \in Seq(AutoAccept)
        /\ callConfirm' \subseteq Friends /\ counting' \subseteq Friends
    <3> HIDE DEF f
    <3>1. /\ invocations \in Seq(AutoAccept)
          /\ callConfirm \subseteq Friends /\ counting \subseteq Friends
      BY <1>0 DEF TypeOK
    <3>2. f \in AutoAccept => Append(invocations, f) \in Seq(AutoAccept)
      BY <3>1, AppendProperties
    <3>3. CASE OnAvInvite(f)
      BY <2>1, <3>1, <3>2, <3>3 DEF OnAvInvite
    <3>4. CASE OnAvStart(f) \/ OnAvEnd(f)
      BY <2>1, <3>1, <3>4 DEF OnAvStart, OnAvEnd
    <3>5. QED BY <1>2, <3>3, <3>4 DEF HandleSignal, f
  <2>3. /\ op' = op /\ locks' = locks /\ calls' = calls /\ toxav' = toxav
        /\ raced' = raced /\ isCancelling' = isCancelling
    BY <1>2 DEF HandleSignal
  <2>4. TypeOK'
    BY <1>0, <2>1, <2>2, <2>3 DEF TypeOK, locks, Busy, Idle, Aborted
  <2>5. ThreadInv'
    BY <2>3 DEF IInv, ThreadInv, Busy, Idle, Aborted
  <2>6. CallbackInv' /\ CallsFollowToxav'
    BY <2>3, CallsUntouched
  <2>7. QED BY <2>4, <2>5, <2>6 DEF IInv
<1>3. QED BY <1>1, <1>2

\* The frame is played, or the call is gone.
LEMMA PlayFramePreserves ==
    ASSUME IInv, PlayFrame
    PROVE  IInv'
<1>0. TypeOK
  BY DEF IInv
<1>1. Busy("av") /\ op["av"] \in Working /\ "av" \in Threads /\ op["av"].at = "callsLock"
  BY <1>0, WorkingThread DEF PlayFrame, Threads, IInv, ThreadInv
<1>2. coreLock # "av"
  BY <1>0, <1>1 DEF TypeOK
<1>3. /\ op' \in [Threads -> Operation] /\ ThreadInv' /\ ~Busy("av")'
      /\ \A u \in Threads : u # "av" => op'[u] = op[u]
      /\ \A u \in Threads :
           /\ callsLock' = u <=> Busy(u)' /\ op'[u].at = "coreLock"
           /\ coreLock' = u <=> Busy(u)' /\ (u = "core" \/ op'[u].at = "avEnd")
  BY <1>1, <1>2, EndPreserves DEF PlayFrame, locks
<1>4. TypeOK'
  BY <1>0, <1>3 DEF TypeOK, PlayFrame, queues, ui
<1>5. CallbackInv' /\ CallsFollowToxav'
  BY <1>3, CallsUntouched DEF PlayFrame, Threads
<1>6. QED BY <1>3, <1>4, <1>5 DEF IInv

\* A picture is sent, or the call is gone; callsLock is released.
LEMMA SendCallVideoPreserves ==
    ASSUME IInv, SendCallVideo
    PROVE  IInv'
<1>0. TypeOK
  BY DEF IInv
<1>1. Busy("av") /\ op["av"] \in Working /\ "av" \in Threads /\ op["av"].at = "coreLock"
  BY <1>0, WorkingThread DEF SendCallVideo, Threads
<1>2. coreLock # "av"
  BY <1>0, <1>1 DEF TypeOK
<1>3. End("av") /\ callsLock' = Nobody /\ coreLock' = coreLock
  BY DEF SendCallVideo
<1>4. /\ op' \in [Threads -> Operation] /\ ThreadInv' /\ ~Busy("av")'
      /\ \A u \in Threads : u # "av" => op'[u] = op[u]
      /\ \A u \in Threads :
           /\ callsLock' = u <=> Busy(u)' /\ op'[u].at = "coreLock"
           /\ coreLock' = u <=> Busy(u)' /\ (u = "core" \/ op'[u].at = "avEnd")
  BY <1>1, <1>2, <1>3, EndPreserves
<1>5. TypeOK'
  BY <1>0, <1>4 DEF TypeOK, SendCallVideo, queues, ui
<1>6. CallbackInv' /\ CallsFollowToxav'
  BY <1>4, CallsUntouched DEF SendCallVideo, Threads
<1>7. QED BY <1>4, <1>5, <1>6 DEF IInv
-----------------------------------------------------------------------------
(* The Core thread *)

\* toxav calls back about a call that is as CoreAV knows it, but for what is new.
LEMMA IteratePreserves ==
    ASSUME IInv, NEW f \in Friends, Iterate(f)
    PROVE  IInv'
<1>0. TypeOK /\ "core" \in Threads /\ op["core"] = Idle /\ ~Busy("core")
  BY DEF IInv, Iterate, Threads, Busy
<1>1. PICK what \in {"call", "sending", "finished"} :
         /\ Begin("core", what, f)
         /\ what = "call" => toxav[f] = "none" /\ toxav' = [toxav EXCEPT ![f] = "invited"]
         /\ what = "sending" => toxav[f] = "calling" /\ toxav' = [toxav EXCEPT ![f] = "active"]
         /\ what = "finished" => toxav' = [toxav EXCEPT ![f] = "none"]
  BY DEF Iterate
<1>2. /\ op' \in [Threads -> Operation]
      /\ op'["core"] = [do |-> what, friend |-> f, at |-> "callsLock"]
      /\ \A u \in Threads : u # "core" => op'[u] = op[u]
      /\ op'["core"] \notin {Idle, Aborted}
  <2>1. what \in {"start", "answer", "cancel", "call", "sending", "finished", "play", "send"}
    BY <1>1
  <2>2. Begin("core", what, f)
    BY <1>1
  <2>3. TypeOK /\ "core" \in Threads
    BY <1>0
  <2>4. QED BY <2>1, <2>2, <2>3, BeginType
<1>3. Busy("core")' /\ \A u \in Threads : u # "core" => Busy(u)' = Busy(u)
  BY <1>2 DEF Busy, Idle, Aborted
<1>4. toxav' \in [Friends -> {"none", "invited", "calling", "active"}]
  BY <1>0, <1>1 DEF TypeOK
<1>5. ASSUME NEW u \in Threads
      PROVE  /\ callsLock' = u <=> Busy(u)' /\ op'[u].at = "coreLock"
             /\ coreLock' = u <=> Busy(u)' /\ (u = "core" \/ op'[u].at = "avEnd")
  <2>1. coreLock = Nobody /\ coreLock' = "core" /\ callsLock' = callsLock
    BY DEF Iterate
  <2>2. CASE u = "core"
    BY <1>0, <1>2, <1>3, <2>1, <2>2 DEF TypeOK
  <2>3. CASE u # "core"
    BY <1>0, <1>2, <1>3, <2>1, <2>3, CoreLockFree DEF TypeOK
  <2>4. QED BY <2>2, <2>3
<1>6. TypeOK'
  BY <1>0, <1>2, <1>4, <1>5 DEF TypeOK, Iterate, queues, ui
<1>7. ThreadInv'
  BY <1>2, <1>3 DEF IInv, ThreadInv, Threads
<1>8. calls' = calls /\ calls \in [Friends -> Call]
  BY <1>0 DEF Iterate, TypeOK
<1>9. CallbackInv'
  <2>1. op'["core"].do = what /\ op'["core"].friend = f
    BY <1>2
  <2>2. /\ what = "call" => calls[f] = NoCall
        /\ what = "sending" => calls[f] = OutgoingCall
    BY <1>0, <1>1 DEF IInv, CallsFollowToxav
  <2>3. /\ what = "call" => toxav'[f] = "invited"
        /\ what = "sending" => toxav'[f] = "active"
        /\ what = "finished" => toxav'[f] = "none"
    BY <1>0, <1>1 DEF TypeOK
  <2>4. QED BY <1>8, <2>1, <2>2, <2>3 DEF CallbackInv, OutgoingCall, NoCall
<1>10. CallsFollowToxav'
  <2>1. op'["core"].friend = f
    BY <1>2
  <2>2. \A g \in Friends : g # f => toxav'[g] = toxav[g]
    BY <1>0, <1>1 DEF TypeOK
  <2>3. QED BY <1>0, <1>3, <1>8, <2>1, <2>2
            DEF IInv, CallsFollowToxav, OutgoingCall, NoCall, IncomingCall
<1>11. QED BY <1>6, <1>7, <1>9, <1>10 DEF IInv

\* The callbacks bring CoreAV's call where toxav's is, and release coreLock.
LEMMA CallbacksPreserve ==
    ASSUME IInv, CallCallback \/ StateCallback
    PROVE  IInv'
<1> DEFINE f == op["core"].friend
<1>0. TypeOK /\ "core" \in Threads
  BY DEF IInv, Threads
<1>1. Busy("core") /\ op["core"] \in Working
  BY <1>0, WorkingThread DEF CallCallback, StateCallback
<1>2. f \in Friends /\ op["core"].at = "callsLock" /\ coreLock = "core"
  BY <1>0, <1>1 DEF Working, IInv, ThreadInv, TypeOK
<1>3. End("core") /\ callsLock' = callsLock /\ coreLock' = Nobody
  BY DEF CallCallback, StateCallback
<1>4. /\ op' \in [Threads -> Operation] /\ ThreadInv' /\ ~Busy("core")'
      /\ \A u \in Threads :
           /\ callsLock' = u <=> Busy(u)' /\ op'[u].at = "coreLock"
           /\ coreLock' = u <=> Busy(u)' /\ (u = "core" \/ op'[u].at = "avEnd")
  BY <1>0, <1>1, <1>2, <1>3, EndPreserves
<1>5. /\ isCancelling' = isCancelling /\ invocations' = invocations /\ ui' = ui
      /\ signals' \in Seq([name : {"avInvite", "avStart", "avEnd"}, friend : Friends])
      /\ raced' \subseteq Friends
  BY <1>0, <1>2, EmitType DEF CallCallback, StateCallback, TypeOK
<1>6. CASE CallCallback
  <2>1. calls[f] = NoCall /\ toxav[f] = "invited"
    BY <1>1, <1>6 DEF IInv, CallbackInv, CallCallback
  <2>2. calls' = [calls EXCEPT ![f] = IncomingCall] /\ toxav' = toxav
    BY <1>6, <2>1 DEF CallCallback
  <2>3. TypeOK'
    BY <1>0, <1>4, <1>5, <2>2, CallTypes DEF TypeOK, ui
  <2>4. CallsFollowToxav'
    BY <1>0, <1>2, <1>4, <2>1, <2>2 DEF IInv, CallsFollowToxav, TypeOK, OutgoingCall, NoCall, IncomingCall
  <2>5. CallbackInv'
    BY <1>4 DEF CallbackInv
  <2>6. QED BY <1>4, <2>3, <2>4, <2>5 DEF IInv
<1>7. CASE StateCallback
  <2>1. /\ op["core"].do = "sending" => toxav[f] = "active" /\ calls[f] = OutgoingCall
        /\ op["core"].do = "finished" => toxav[f] = "none"
    BY <1>1 DEF IInv, CallbackInv
  <2>2. toxav' = toxav /\ op["core"].do \in {"sending", "finished"}
    BY <1>7 DEF StateCallback
  <2>3. CASE op["core"].do = "sending"
    <3>1. calls[f].state = "0"
      BY <2>1, <2>3 DEF OutgoingCall
    <3>2. calls' = [calls EXCEPT ![f] = [active |-> TRUE, state |-> "sending"]]
      BY <1>7, <2>3, <3>1 DEF StateCallback
    <3>3. TypeOK'
      BY <1>0, <1>4, <1>5, <2>2, <3>2, CallTypes DEF TypeOK, ui
    <3>4. CallsFollowToxav'
      BY <1>0, <1>2, <1>4, <2>1, <2>2, <2>3, <3>2
      DEF IInv, CallsFollowToxav, TypeOK, OutgoingCall, NoCall, IncomingCall
    <3>5. QED BY <1>4, <3>3, <3>4 DEF IInv, CallbackInv
  <2>4. CASE op["core"].do = "finished"
    <3>1. calls' = [calls EXCEPT ![f] = NoCall]
      BY <1>0, <1>2, <1>7, <2>4 DEF StateCallback, TypeOK
    <3>2. TypeOK'
      BY <1>0, <1>4, <1>5, <2>2, <3>1, CallTypes DEF TypeOK, ui
    <3>3. CallsFollowToxav'
      BY <1>0, <1>2, <1>4, <2>1, <2>2, <2>4, <3>1
      DEF IInv, CallsFollowToxav, TypeOK, OutgoingCall, NoCall, IncomingCall
    <3>4. QED BY <1>4, <3>2, <3>3 DEF IInv, CallbackInv
  <2>5. QED BY <2>2, <2>3, <2>4
<1>8. QED BY <1>6, <1>7
-----------------------------------------------------------------------------
(* The theorems *)

LEMMA NextPreserves ==
    ASSUME IInv, [Next]_vars
    PROVE  IInv'
<1>1. CASE \E t \in {"gui", "av"} : LockCalls(t) \/ AnswerCall(t)
  BY <1>1, LockCallsPreserves, AnswerCallPreserves
<1>2. CASE StartCall \/ CancelCall \/ EmitAvEnd \/ HandleSignal
  BY <1>2, StartCallPreserves, CancelCallPreserves, SlotsPreserve
<1>3. CASE \E f \in Friends :
             \/ CallTriggered(f) \/ AnswerCallTriggered(f) \/ RejectCallTriggered(f)
             \/ Iterate(f) \/ ReceiveFrame(f) \/ FrameAvailable(f)
  BY <1>3, UserPreserves, IteratePreserves, AvBeginPreserves
<1>4. CASE CallCallback \/ StateCallback
  BY <1>4, CallbacksPreserve
<1>5. CASE InvokeAnswerCall \/ PlayFrame \/ SendCallVideo
  BY <1>5, AvBeginPreserves, PlayFramePreserves, SendCallVideoPreserves
<1>6. CASE UNCHANGED vars
  <2>1. TypeOK' /\ ThreadInv'
    BY <1>6 DEF IInv, TypeOK, ThreadInv, Busy, Idle, Aborted, vars, locks, queues, ui, bounds
  <2>2. CallbackInv' /\ CallsFollowToxav'
    BY <1>6, CallsUntouched DEF vars
  <2>3. QED BY <2>1, <2>2 DEF IInv
<1>7. QED BY <1>1, <1>2, <1>3, <1>4, <1>5, <1>6 DEF Next

\* The variables keep their types, a thread that holds callsLock is between its two locks,
\* and coreLock is held exactly by callbacks and in the slots of avEnd: no operation of
\* CoreAV returns with a lock.
THEOREM TypeOKHolds == Spec => []TypeOK
<1>1. IInv => TypeOK
  BY DEF IInv
<1>2. QED BY <1>1, InitIInv, NextPreserves, PTL DEF Spec

\* Whatever the number of friends and of calls, and however the GUI, Core and CoreAV threads
\* interleave at their locks, CoreAV::calls agrees with toxav outside the callbacks.
THEOREM CallsFollowToxavHolds == Spec => []CallsFollowToxav
<1>1. IInv => CallsFollowToxav
  BY DEF IInv
<1>2. QED BY <1>1, InitIInv, NextPreserves, PTL DEF Spec
-----------------------------------------------------------------------------
(* What the chat form shows *)

\* A queued avEnd of f.
EndOf(s, f) == s.friend = f /\ s.name = "avEnd"

\* f will be in the set when the queue is handled, if the signals in names put it there and
\* avEnd removes it.
Will(q, set, names, f) ==
    \/ \E k \in DOMAIN q : /\ q[k].friend = f /\ q[k].name \in names
                           /\ \A j \in DOMAIN q : j > k => ~EndOf(q[j], f)
    \/ f \in set /\ \A j \in DOMAIN q : ~EndOf(q[j], f)

\* The signals that show a call of f as in progress, and as ringing.
CountedBy(f) == IF f \in AutoAccept THEN {"avStart", "avInvite"} ELSE {"avStart"}
ConfirmedBy(f) == IF f \in AutoAccept THEN {} ELSE {"avInvite"}

\* What ought to be shown of f: a call that is accepted automatically counts from the start.
Counts(f) == calls[f].active \/ (f \in AutoAccept /\ calls[f] = IncomingCall)
Rings(f) == f \notin AutoAccept /\ calls[f] = IncomingCall

\* An automatic answer to f is on its way.
AnswerDue(f) ==
    \/ Invoked(f)
    \/ op["av"].do = "answer" /\ op["av"].friend = f
    \/ \E k \in DOMAIN signals : signals[k].friend = f /\ signals[k].name = "avInvite"

\* The user acts on f, so no signal about f is queued.
ActedOn(f) ==
    /\ ~Queued(f)
    /\ op["gui"].do = "start" => calls[f] = NoCall /\ f \notin counting /\ f \notin callConfirm
    /\ op["gui"].do = "answer" => /\ f \notin AutoAccept /\ calls[f] = IncomingCall
                                  /\ f \notin counting /\ f \notin callConfirm
    /\ op["gui"].do = "cancel" => (calls[f] = NoCall <=> op["gui"].at = "avEnd")

\* What is shown when the queued signals are handled is what there is.
WillShow(f) ==
    /\ Will(signals, counting, CountedBy(f), f) <=> Counts(f)
    /\ Will(signals, callConfirm, ConfirmedBy(f), f) <=> Rings(f)

FriendInv(f) ==
    /\ Doing("gui", f) => ActedOn(f)
    /\ ~Doing("gui", f) => WillShow(f)
    /\ f \in AutoAccept /\ calls[f] = IncomingCall => AnswerDue(f)

AutoInv ==
    /\ callConfirm \cap AutoAccept = {}
    /\ op["av"].do = "answer" => op["av"].friend \in AutoAccept

ShownInv == AutoInv /\ (op["gui"] # Aborted => \A f \in Friends \ raced : FriendInv(f))

-----------------------------------------------------------------------------
(* Lemmas about the queue of signals *)

Signal == [name : {"avInvite", "avStart", "avEnd"}, friend : Friends]

\* A signal at the end of the queue: one about another friend, or one that does not concern
\* the set, changes nothing; avEnd removes, and a signal in names adds.
LEMMA WillAppend ==
    ASSUME NEW q \in Seq(Signal), NEW s \in Signal, NEW set, NEW names, NEW f,
           "avEnd" \notin names
    PROVE  /\ s.friend # f \/ s.name \notin names \union {"avEnd"} =>
                  (Will(Append(q, s), set, names, f) <=> Will(q, set, names, f))
           /\ EndOf(s, f) => ~Will(Append(q, s), set, names, f)
           /\ s.friend = f /\ s.name \in names => Will(Append(q, s), set, names, f)
<1> DEFINE p == Append(q, s)
           n == Len(q)
<1>1. /\ n \in Nat /\ DOMAIN q = 1..n /\ DOMAIN p = 1..(n+1)
      /\ \A k \in 1..n : p[k] = q[k]
      /\ p[n+1] = s
  BY AppendProperties
<1> HIDE DEF p, n
<1>2. ASSUME s.friend # f \/ s.name \notin names \union {"avEnd"}
      PROVE  Will(p, set, names, f) <=> Will(q, set, names, f)
  <2>1. ~EndOf(p[n+1], f) /\ ~(p[n+1].friend = f /\ p[n+1].name \in names)
    BY <1>1, <1>2 DEF EndOf
  <2>2. ASSUME Will(p, set, names, f) PROVE Will(q, set, names, f)
    <3>1. CASE f \in set /\ \A j \in DOMAIN p : ~EndOf(p[j], f)
      BY <1>1, <3>1 DEF Will
    <3>2. CASE \E k \in DOMAIN p : /\ p[k].friend = f /\ p[k].name \in names
                                   /\ \A j \in DOMAIN p : j > k => ~EndOf(p[j], f)
      <4>1. PICK k \in DOMAIN p : /\ p[k].friend = f /\ p[k].name \in names
                                  /\ \A j \in DOMAIN p : j > k => ~EndOf(p[j], f)
        BY <3>2
      <4>2. k \in 1..n
        BY <1>1, <2>1, <4>1
      <4>3. QED BY <1>1, <4>1, <4>2 DEF Will
    <3>3. QED BY <2>2, <3>1, <3>2 DEF Will
  <2>3. ASSUME Will(q, set, names, f) PROVE Will(p, set, names, f)
    <3>1. CASE f \in set /\ \A j \in DOMAIN q : ~EndOf(q[j], f)
      <4>1. \A j \in DOMAIN p : ~EndOf(p[j], f)
        BY <1>1, <2>1, <3>1
      <4>2. QED BY <3>1, <4>1 DEF Will
    <3>2. CASE \E k \in DOMAIN q : /\ q[k].friend = f /\ q[k].name \in names
                                   /\ \A j \in DOMAIN q : j > k => ~EndOf(q[j], f)
      <4>1. PICK k \in DOMAIN q : /\ q[k].friend = f /\ q[k].name \in names
                                  /\ \A j \in DOMAIN q : j > k => ~EndOf(q[j], f)
        BY <3>2
      <4>2. k \in DOMAIN p /\ p[k].friend = f /\ p[k].name \in names
        BY <1>1, <4>1
      <4>3. \A j \in DOMAIN p : j > k => ~EndOf(p[j], f)
        BY <1>1, <2>1, <4>1
      <4>4. QED BY <4>2, <4>3 DEF Will
    <3>3. QED BY <2>3, <3>1, <3>2 DEF Will
  <2>4. QED BY <2>2, <2>3
<1>3. ASSUME EndOf(s, f) PROVE ~Will(p, set, names, f)
  <2>1. n+1 \in DOMAIN p /\ EndOf(p[n+1], f) /\ p[n+1].name \notin names
    BY <1>1, <1>3 DEF EndOf
  <2>2. \A k \in DOMAIN p : k = n+1 \/ n+1 > k
    BY <1>1
  <2>3. QED BY <2>1, <2>2 DEF Will
<1>4. ASSUME s.friend = f, s.name \in names PROVE Will(p, set, names, f)
  <2>1. n+1 \in DOMAIN p /\ \A j \in DOMAIN p : ~(j > n+1)
    BY <1>1
  <2>2. QED BY <1>1, <1>4, <2>1 DEF Will
<1>5. QED BY <1>2, <1>3, <1>4 DEF p

\* The signal at the head is handled: what will be shown stays the same.
LEMMA WillPop ==
    ASSUME NEW q \in Seq(Signal), q # <<>>, NEW set, NEW after, NEW names, NEW f,
           "avEnd" \notin names,
           f \in after <=> \/ f \in set /\ ~EndOf(Head(q), f)
                           \/ Head(q).friend = f /\ Head(q).name \in names
    PROVE  Will(Tail(q), after, names, f) <=> Will(q, set, names, f)
<1> DEFINE p == Tail(q)
           n == Len(q)
<1>1. /\ n \in Nat /\ n > 0 /\ DOMAIN q = 1..n /\ DOMAIN p = 1..(n-1)
      /\ \A k \in 1..(n-1) : p[k] = q[k+1]
      /\ Head(q) = q[1]
  BY HeadTailProperties
<1> HIDE DEF p, n
<1>2. \A j \in 2..n : j-1 \in 1..(n-1) /\ p[j-1] = q[j]
  BY <1>1
<1>3. ASSUME Will(p, after, names, f) PROVE Will(q, set, names, f)
  <2>1. CASE f \in after /\ \A j \in DOMAIN p : ~EndOf(p[j], f)
    <3>1. \A j \in DOMAIN q : j > 1 => ~EndOf(q[j], f)
      <4>1. \A j \in DOMAIN q : j > 1 => j \in 2..n
        BY <1>1
      <4>2. \A j \in 2..n : ~EndOf(q[j], f)
        BY <1>1, <1>2, <2>1
      <4>3. QED BY <4>1, <4>2
    <3>2. CASE f \in set /\ ~EndOf(Head(q), f)
      <4>1. \A j \in DOMAIN q : ~EndOf(q[j], f)
        BY <1>1, <3>1, <3>2
      <4>2. QED BY <3>2, <4>1 DEF Will
    <3>3. CASE Head(q).friend = f /\ Head(q).name \in names
      <4>1. 1 \in DOMAIN q
        BY <1>1
      <4>2. QED BY <1>1, <3>1, <3>3, <4>1 DEF Will
    <3>4. QED BY <2>1, <3>2, <3>3
  <2>2. CASE \E k \in DOMAIN p : /\ p[k].friend = f /\ p[k].name \in names
                                 /\ \A j \in DOMAIN p : j > k => ~EndOf(p[j], f)
    <3>1. PICK k \in DOMAIN p : /\ p[k].friend = f /\ p[k].name \in names
                                /\ \A j \in DOMAIN p : j > k => ~EndOf(p[j], f)
      BY <2>2
    <3>2. k+1 \in DOMAIN q /\ q[k+1].friend = f /\ q[k+1].name \in names
      BY <1>1, <3>1
    <3>3. \A j \in DOMAIN q : j > k+1 => ~EndOf(q[j], f)
      <4>1. \A j \in DOMAIN q : j > k+1 => j \in 2..n /\ j-1 > k
        BY <1>1, <3>1
      <4>2. QED BY <1>1, <1>2, <3>1, <4>1
    <3>4. QED BY <3>2, <3>3 DEF Will
  <2>3. QED BY <1>3, <2>1, <2>2 DEF Will
<1>4. ASSUME Will(q, set, names, f) PROVE Will(p, after, names, f)
  <2>1. CASE f \in set /\ \A j \in DOMAIN q : ~EndOf(q[j], f)
    <3>1. \A j \in DOMAIN p : ~EndOf(p[j], f)
      BY <1>1, <2>1
    <3>2. ~EndOf(Head(q), f)
      <4>1. 1 \in DOMAIN q
        BY <1>1
      <4>2. ~EndOf(q[1], f)
        BY <2>1, <4>1
      <4>3. QED BY <1>1, <4>2
    <3>3. f \in after
      BY <2>1, <3>2
    <3>4. QED BY <3>1, <3>3 DEF Will
  <2>2. CASE \E k \in DOMAIN q : /\ q[k].friend = f /\ q[k].name \in names
                                 /\ \A j \in DOMAIN q : j > k => ~EndOf(q[j], f)
    <3>1. PICK k \in DOMAIN q : /\ q[k].friend = f /\ q[k].name \in names
                                /\ \A j \in DOMAIN q : j > k => ~EndOf(q[j], f)
      BY <2>2
    <3>2. CASE k = 1
      <4>1. f \in after
        BY <1>1, <3>1, <3>2
      <4>2. \A j \in DOMAIN p : ~EndOf(p[j], f)
        BY <1>1, <3>1, <3>2
      <4>3. QED BY <4>1, <4>2 DEF Will
    <3>3. CASE k # 1
      <4>1. k-1 \in DOMAIN p /\ p[k-1] = q[k]
        BY <1>1, <1>2, <3>1, <3>3
      <4>2. \A j \in DOMAIN p : j > k-1 => ~EndOf(p[j], f)
        <5>1. \A j \in DOMAIN p : j > k-1 => j+1 \in DOMAIN q /\ j+1 > k /\ p[j] = q[j+1]
          BY <1>1, <3>1
        <5>2. QED BY <3>1, <5>1
      <4>3. QED BY <3>1, <4>1, <4>2 DEF Will
    <3>4. QED BY <3>2, <3>3
  <2>3. QED BY <1>4, <2>1, <2>2 DEF Will
<1>5. QED BY <1>3, <1>4 DEF p

\* Without a queued signal about f, what is shown of f stays.
LEMMA WillUnqueued ==
    ASSUME NEW f, ~Queued(f), NEW set, NEW names
    PROVE  Will(signals, set, names, f) <=> f \in set
BY DEF Queued, Will, EndOf

\* The calls differ.
LEMMA CallsDiffer ==
    /\ NoCall # IncomingCall /\ NoCall # OutgoingCall /\ IncomingCall # OutgoingCall
    /\ [active |-> TRUE, state |-> "sending"] \notin {NoCall, IncomingCall, OutgoingCall}
    /\ ~NoCall.active /\ ~IncomingCall.active /\ ~OutgoingCall.active
    /\ [active |-> TRUE, state |-> "sending"].active
<1>1. NoCall.state = "no call" /\ IncomingCall.state = "sending" /\ OutgoingCall.state = "0"
  BY DEF NoCall, IncomingCall, OutgoingCall
<1>2. [active |-> TRUE, state |-> "sending"].state = "sending"
  OBVIOUS
<1>3. ~NoCall.active
  BY DEF NoCall
<1>4. ~IncomingCall.active
  BY DEF IncomingCall
<1>5. ~OutgoingCall.active
  BY DEF OutgoingCall
<1>6. [active |-> TRUE, state |-> "sending"].active
  OBVIOUS
<1>7. [active |-> TRUE, state |-> "sending"] # IncomingCall
  BY <1>4, <1>6
<1>8. QED BY <1>1, <1>2, <1>3, <1>4, <1>5, <1>6, <1>7
-----------------------------------------------------------------------------
(* The steps keep ShownInv *)

\* A friend whom a step does not concern.
LEMMA OtherFriend ==
    ASSUME NEW f \in Friends, FriendInv(f),
           calls'[f] = calls[f], signals' = signals,
           f \in callConfirm' <=> f \in callConfirm, f \in counting' <=> f \in counting,
           op'["gui"] = op["gui"] \/ (~Doing("gui", f) /\ ~Doing("gui", f)'),
           AnswerDue(f) => AnswerDue(f)'
    PROVE  FriendInv(f)'
<1>1. Counts(f)' = Counts(f) /\ Rings(f)' = Rings(f)
  BY DEF Counts, Rings, IncomingCall
<1>2. Doing("gui", f)' = Doing("gui", f) /\ Queued(f)' = Queued(f)
  BY DEF Doing, Queued
<1>3. /\ Will(signals, counting, CountedBy(f), f)' = Will(signals, counting, CountedBy(f), f)
      /\ Will(signals, callConfirm, ConfirmedBy(f), f)' = Will(signals, callConfirm, ConfirmedBy(f), f)
  BY DEF Will, CountedBy, ConfirmedBy, EndOf
<1>4. WillShow(f)' = WillShow(f)
  BY <1>1, <1>3 DEF WillShow
<1>5. Doing("gui", f) => ActedOn(f)' = ActedOn(f)
  BY <1>2 DEF ActedOn, NoCall, IncomingCall
<1>6. (f \in AutoAccept /\ calls'[f] = IncomingCall)
          = (f \in AutoAccept /\ calls[f] = IncomingCall)
  BY DEF IncomingCall
<1>7. QED BY <1>2, <1>4, <1>5, <1>6 DEF FriendInv, IncomingCall

\* A friend whose chat form has shown what there is: no signal about it is queued.
LEMMA ShownNow ==
    ASSUME NEW f \in Friends, ~Queued(f)', ~Doing("gui", f)',
           f \in counting' <=> Counts(f)', f \in callConfirm' <=> Rings(f)',
           f \in AutoAccept /\ calls'[f] = IncomingCall => AnswerDue(f)'
    PROVE  FriendInv(f)'
<1>1. /\ Will(signals, counting, CountedBy(f), f)' <=> f \in counting'
      /\ Will(signals, callConfirm, ConfirmedBy(f), f)' <=> f \in callConfirm'
  BY DEF Queued, Will, EndOf
<1>2. QED BY <1>1 DEF FriendInv, WillShow, IncomingCall

\* What Doing says of a thread that has just begun or ended something.
LEMMA DoingBegun ==
    ASSUME IInv, NEW t \in Threads, NEW f \in Friends,
           NEW what \in {"start", "answer", "cancel", "call", "sending", "finished", "play", "send"},
           Begin(t, what, f)
    PROVE  /\ op'[t].do = what /\ op'[t].friend = f /\ op'[t].at = "callsLock"
           /\ \A u \in Threads : u # t => op'[u] = op[u]
           /\ op'[t] # Aborted
<1>1. TypeOK
  BY DEF IInv
<1>2. /\ op'[t] = [do |-> what, friend |-> f, at |-> "callsLock"]
      /\ \A u \in Threads : u # t => op'[u] = op[u]
      /\ op'[t] \notin {Idle, Aborted}
  BY <1>1, BeginType
<1>3. /\ op'[t].do = what /\ op'[t].friend = f /\ op'[t].at = "callsLock"
  BY <1>2
<1>4. QED BY <1>2, <1>3

LEMMA DoingEnded ==
    ASSUME IInv, NEW t \in Threads, End(t)
    PROVE  /\ op'[t] = Idle /\ op'[t].do = "nothing"
           /\ \A u \in Threads : u # t => op'[u] = op[u]
<1>1. TypeOK
  BY DEF IInv
<1>2. QED BY <1>1, EndType DEF Idle

\* A thread that is idle or has aborted does nothing.
LEMMA DoingNothing ==
    /\ Idle.do = "nothing" /\ Aborted.do = "aborted" /\ Idle # Aborted
BY DEF Idle, Aborted

\* The GUI thread gets callsLock.
LEMMA LockCallsShows ==
    ASSUME IInv, ShownInv, NEW t \in {"gui", "av"}, LockCalls(t)
    PROVE  ShownInv'
<1>0. TypeOK /\ t \in Threads /\ op \in [Threads -> Operation]
  BY DEF IInv, TypeOK, Threads
<1>1. op[t] \in Working
  BY <1>0, WorkingThread DEF LockCalls
<1>2. /\ op'[t].do = op[t].do /\ op'[t].friend = op[t].friend
      /\ op[t].at = "callsLock" /\ op'[t].at = "coreLock"
      /\ \A u \in Threads : u # t => op'[u] = op[u]
  BY <1>0, <1>1 DEF LockCalls, Working
<1>3. /\ calls' = calls /\ signals' = signals /\ invocations' = invocations
      /\ callConfirm' = callConfirm /\ counting' = counting /\ raced' = raced
  BY DEF LockCalls, queues, ui
<1>4. AutoInv'
  BY <1>2, <1>3 DEF ShownInv, AutoInv, Threads
<1>5. ASSUME NEW f \in Friends, f \notin raced', op'["gui"] # Aborted PROVE FriendInv(f)'
  <2>1. AnswerDue(f)' = AnswerDue(f)
    BY <1>2, <1>3 DEF AnswerDue, Invoked, Threads
  <2>2. op["gui"] # Aborted
    <3>1. CASE t = "gui"
      BY <3>1, DoingNothing DEF LockCalls
    <3>2. CASE t = "av"
      BY <1>2, <1>5, <3>2 DEF Threads
    <3>3. QED BY <3>1, <3>2
  <2>3. FriendInv(f)
    BY <1>3, <1>5, <2>2 DEF ShownInv
  <2>4. CASE t = "gui" /\ Doing("gui", f)
    <3>1. Doing("gui", f)' /\ Queued(f)' = Queued(f)
      BY <1>2, <1>3, <2>4 DEF Doing, Queued
    <3>2. ActedOn(f)'
      BY <1>2, <1>3, <2>3, <2>4, <3>1 DEF FriendInv, ActedOn, NoCall, IncomingCall
    <3>3. QED BY <1>3, <2>1, <2>3, <3>1, <3>2 DEF FriendInv, IncomingCall
  <2>5. CASE ~(t = "gui" /\ Doing("gui", f))
    <3>1. op'["gui"] = op["gui"] \/ (~Doing("gui", f) /\ ~Doing("gui", f)')
      BY <1>2, <2>5 DEF Doing, Threads
    <3>2. QED BY <1>3, <2>1, <2>3, <3>1, OtherFriend
  <2>6. QED BY <2>4, <2>5
<1>6. QED BY <1>4, <1>5 DEF ShownInv

\* startCall
LEMMA StartCallShows ==
    ASSUME IInv, ShownInv, StartCall
    PROVE  ShownInv'
<1> DEFINE g == op["gui"].friend
<1>0. TypeOK /\ "gui" \in Threads /\ op["gui"] \in Working /\ End("gui")
  BY BothLocks DEF StartCall
<1>1. /\ op'["gui"].do = "nothing"
      /\ op'["av"] = op["av"] /\ op["gui"] # Aborted
  BY <1>0, DoingEnded, DoingNothing DEF Threads, StartCall, Locked
<1>2. /\ signals' = signals /\ invocations' = invocations
      /\ callConfirm' = callConfirm /\ counting' = counting /\ raced' = raced
  BY DEF StartCall, queues, ui
<1>3. /\ g \in Friends /\ Doing("gui", g) /\ op["gui"].do = "start"
      /\ calls'[g] = calls[g] \/ calls'[g] = OutgoingCall
      /\ \A f \in Friends : f # g => calls'[f] = calls[f]
  BY <1>0 DEF StartCall, Locked, Working, Doing, TypeOK
<1>4. AutoInv'
  BY <1>1, <1>2 DEF ShownInv, AutoInv
<1>5. ASSUME NEW f \in Friends, f \notin raced' PROVE FriendInv(f)'
  <2>1. FriendInv(f)
    BY <1>1, <1>2, <1>5 DEF ShownInv
  <2>2. AnswerDue(f)' = AnswerDue(f)
    BY <1>1, <1>2 DEF AnswerDue, Invoked
  <2>3. CASE f = g
    <3>1. ~Queued(f) /\ calls[f] = NoCall /\ f \notin counting /\ f \notin callConfirm
      BY <1>3, <2>1, <2>3 DEF FriendInv, ActedOn
    <3>2. calls'[f] \in {NoCall, OutgoingCall}
      BY <1>3, <2>3, <3>1
    <3>3. ~Counts(f)' /\ ~Rings(f)' /\ calls'[f] # IncomingCall
      BY <3>2, CallsDiffer DEF Counts, Rings
    <3>4. ~Queued(f)' /\ ~Doing("gui", f)'
      BY <1>1, <1>2, <3>1 DEF Queued, Doing
    <3>5. QED BY <1>2, <3>1, <3>3, <3>4, ShownNow DEF IncomingCall
  <2>4. CASE f # g
    <3>1. ~Doing("gui", f) /\ ~Doing("gui", f)'
      BY <1>1, <2>4 DEF Doing
    <3>2. QED BY <1>2, <1>3, <2>1, <2>2, <2>4, <3>1, OtherFriend
  <2>5. QED BY <2>3, <2>4
<1>6. QED BY <1>4, <1>5 DEF ShownInv

\* answerCall: the friend's call is in progress, is given up, or qTox stops.
LEMMA AnswerCallShows ==
    ASSUME IInv, ShownInv, NEW t \in {"gui", "av"}, AnswerCall(t)
    PROVE  ShownInv'
<1> DEFINE g == op[t].friend
<1>0. /\ TypeOK /\ t \in Threads /\ "gui" \in Threads /\ "av" \in Threads
      /\ op[t] \in Working /\ ~Busy("core") /\ op \in [Threads -> Operation]
      /\ op[t].do = "answer"
  BY BothLocks DEF AnswerCall, Threads, TypeOK, Locked
<1>1. /\ signals' = signals /\ invocations' = invocations /\ callConfirm' = callConfirm
      /\ g \in Friends /\ raced \subseteq raced'
      /\ \A f \in Friends : f # g => /\ calls'[f] = calls[f]
                                     /\ f \in counting' <=> f \in counting
  BY <1>0 DEF AnswerCall, Working, TypeOK, queues
<1>2. CASE calls[g] = NoCall
  <2>1. op' = [u \in Threads |-> Aborted]
    BY <1>2 DEF AnswerCall
  <2>2. op'["gui"] = Aborted /\ op'["av"].do = "aborted"
    BY <1>0, <2>1, DoingNothing
  <2>3. QED BY <1>1, <2>2 DEF ShownInv, AutoInv
<1>3. CASE calls[g] # NoCall
  <2>1. op' = [op EXCEPT ![t] = Idle]
    BY <1>3 DEF AnswerCall
  <2>2. /\ op'[t].do = "nothing" /\ \A u \in Threads : u # t => op'[u] = op[u]
      BY <1>0, <2>1, DoingNothing
  <2>3. AutoInv'
    BY <1>0, <1>1, <2>2 DEF ShownInv, AutoInv
  <2>4. op'["gui"] # Aborted => op["gui"] # Aborted
    BY <1>0, <2>2, DoingNothing
  <2>5. ASSUME NEW f \in Friends, f \notin raced', op["gui"] # Aborted PROVE FriendInv(f)'
    <3>1. FriendInv(f)
      BY <1>1, <2>5 DEF ShownInv
    <3>2. CASE f # g
      <4>1. op'["gui"] = op["gui"] \/ (~Doing("gui", f) /\ ~Doing("gui", f)')
        BY <1>0, <2>2, <3>2 DEF Doing
      <4>2. AnswerDue(f) => AnswerDue(f)'
        BY <1>0, <1>1, <2>2, <3>2 DEF AnswerDue, Invoked
      <4>3. QED BY <1>1, <3>1, <3>2, <4>1, <4>2, OtherFriend
    <3>3. CASE f = g /\ t = "gui"
      <4>1. Doing("gui", f)
        BY <1>0, <3>3 DEF Doing
      <4>2. /\ ~Queued(f) /\ f \notin AutoAccept /\ calls[f] = IncomingCall
            /\ f \notin counting /\ f \notin callConfirm
        BY <1>0, <3>1, <3>3, <4>1 DEF FriendInv, ActedOn
      <4>3. ~Queued(f)' /\ ~Doing("gui", f)'
        BY <1>1, <2>2, <3>3, <4>2 DEF Queued, Doing
      <4>0. calls[f].state = "sending" /\ calls \in [Friends -> Call]
        BY <1>0, <4>2 DEF IncomingCall, TypeOK
      <4>4. \/ calls'[f] = [active |-> TRUE, state |-> "sending"] /\ f \in counting'
            \/ calls'[f] = NoCall /\ f \notin counting'
        BY <1>1, <1>3, <3>3, <4>0 DEF AnswerCall
      <4>5. f \in counting' <=> Counts(f)'
        BY <4>2, <4>4, CallsDiffer DEF Counts
      <4>6. calls'[f] # IncomingCall
        BY <4>4, CallsDiffer
      <4>7. f \in callConfirm' <=> Rings(f)'
        BY <1>1, <4>2, <4>6 DEF Rings, IncomingCall
      <4>8. QED BY <4>2, <4>3, <4>5, <4>7, ShownNow
    <3>4. CASE f = g /\ t = "av"
      <4>1. f \in AutoAccept /\ op'["gui"] = op["gui"]
        BY <1>0, <2>2, <3>4 DEF ShownInv, AutoInv
      <4>2. toxav[f] = "invited"
        BY <1>0, <1>3, <2>5, <3>4 DEF AnswerCall
      <4>3. calls[f] = IncomingCall
        BY <1>0, <4>2 DEF IInv, CallsFollowToxav
      <4>0. calls[f].state = "sending" /\ calls \in [Friends -> Call]
        BY <1>0, <4>3 DEF IncomingCall, TypeOK
      <4>4. /\ calls'[f] = [active |-> TRUE, state |-> "sending"]
            /\ f \in counting' <=> f \in counting
        <5>1. /\ calls' = [calls EXCEPT ![f] = [active |-> TRUE, state |-> calls[f].state]]
              /\ counting' = counting
          BY <1>3, <2>5, <3>4 DEF AnswerCall
        <5>2. QED BY <4>0, <5>1
      <4>5. calls'[f] # IncomingCall /\ calls'[f] # NoCall
        BY <4>4, CallsDiffer
      <4>6. CASE Doing("gui", f)
        <5>1. ActedOn(f) /\ Doing("gui", f)'
          BY <3>1, <4>1, <4>6 DEF FriendInv, Doing
        <5>2. op["gui"].do = "cancel"
          BY <1>3, <3>4, <4>1, <4>6, <5>1 DEF ActedOn, Doing
        <5>3. ActedOn(f)'
          BY <1>1, <1>3, <3>4, <4>1, <4>5, <5>1, <5>2 DEF ActedOn, Queued, NoCall
        <5>4. QED BY <4>5, <5>1, <5>3 DEF FriendInv, IncomingCall
      <4>7. CASE ~Doing("gui", f)
        <5>1. WillShow(f) /\ ~Doing("gui", f)'
          BY <3>1, <4>1, <4>7 DEF FriendInv, Doing
        <5>2. Counts(f)' = Counts(f) /\ Rings(f)' = Rings(f)
          BY <4>1, <4>3, <4>4, <4>5, CallsDiffer DEF Counts, Rings
        <5>3. /\ Will(signals, counting, CountedBy(f), f)' = Will(signals, counting, CountedBy(f), f)
              /\ Will(signals, callConfirm, ConfirmedBy(f), f)' = Will(signals, callConfirm, ConfirmedBy(f), f)
          BY <1>1, <4>4 DEF Will, CountedBy, ConfirmedBy, EndOf
        <5>4. QED BY <4>5, <5>1, <5>2, <5>3 DEF FriendInv, WillShow, IncomingCall
      <4>8. QED BY <4>6, <4>7
    <3>5. QED BY <3>2, <3>3, <3>4
  <2>6. QED BY <2>3, <2>4, <2>5 DEF ShownInv
<1>4. QED BY <1>2, <1>3

\* cancelCall with its locks: the call is gone, and is shown as gone next.
LEMMA CancelCallShows ==
    ASSUME IInv, ShownInv, CancelCall
    PROVE  ShownInv'
<1> DEFINE g == op["gui"].friend
<1>0. /\ TypeOK /\ "gui" \in Threads /\ op["gui"] \in Working /\ ~Busy("core")
      /\ Busy("gui") /\ op["gui"].do = "cancel" /\ op["gui"].at = "coreLock"
  BY BothLocks DEF CancelCall, Locked
<1>1. /\ signals' = signals /\ invocations' = invocations /\ callConfirm' = callConfirm
      /\ counting' = counting /\ raced' = raced
      /\ g \in Friends /\ Doing("gui", g) /\ op["gui"] # Aborted
      /\ \A f \in Friends : f # g => calls'[f] = calls[f]
  BY <1>0 DEF CancelCall, Working, TypeOK, queues, ui, Doing, Busy
<1>2. op'["av"] = op["av"]
  BY <1>0, DoingEnded DEF CancelCall, Threads, TypeOK
<1>3. op'["gui"] # Aborted => op["gui"] # Aborted
  BY <1>1
<1>4. AutoInv'
  BY <1>1, <1>2 DEF ShownInv, AutoInv
<1>5. ASSUME NEW f \in Friends, f \notin raced' PROVE FriendInv(f)'
  <2>1. FriendInv(f)
    BY <1>1, <1>5 DEF ShownInv
  <2>2. AnswerDue(f)' = AnswerDue(f)
    BY <1>1, <1>2 DEF AnswerDue, Invoked
  <2>3. CASE f # g
    <3>1. ~Doing("gui", f)
      BY <2>3 DEF Doing
    <3>2. op'["gui"].do = "nothing" \/ op'["gui"].friend = g
      BY <1>0, DoingEnded DEF CancelCall, TypeOK, Working
    <3>3. ~Doing("gui", f)'
      BY <2>3, <3>2 DEF Doing
    <3>4. QED BY <1>1, <2>1, <2>2, <2>3, <3>1, <3>3, OtherFriend
  <2>4. CASE f = g
    <3>1. ActedOn(f) /\ calls[f] # NoCall
      BY <1>0, <1>1, <2>1, <2>4 DEF FriendInv, ActedOn
    <3>2. toxav[f] # "none"
      BY <1>0, <3>1 DEF IInv, CallsFollowToxav
    <3>3. calls'[f] = NoCall /\ op' = [op EXCEPT !["gui"].at = "avEnd"]
      BY <1>0, <2>4, <3>2 DEF CancelCall, TypeOK, Working
    <3>4. op'["gui"].do = "cancel" /\ op'["gui"].at = "avEnd" /\ op'["gui"].friend = g
      BY <1>0, <3>3 DEF TypeOK, Working
    <3>5. ActedOn(f)' /\ Doing("gui", f)'
      BY <1>1, <2>4, <3>1, <3>3, <3>4 DEF ActedOn, Doing, Queued, NoCall
    <3>6. calls'[f] # IncomingCall
      BY <3>3, CallsDiffer
    <3>7. QED BY <3>5, <3>6 DEF FriendInv, IncomingCall
  <2>5. QED BY <2>3, <2>4
<1>6. QED BY <1>4, <1>5 DEF ShownInv

\* The slots of avEnd take the friend's call off the screen.
LEMMA EmitAvEndShows ==
    ASSUME IInv, ShownInv, EmitAvEnd
    PROVE  ShownInv'
<1> DEFINE g == op["gui"].friend
<1>0. TypeOK /\ "gui" \in Threads /\ op["gui"] \in Working /\ End("gui")
  <2>1. TypeOK /\ "gui" \in Threads
    BY DEF IInv, Threads
  <2>2. QED BY <2>1, WorkingThread DEF EmitAvEnd
<1>1. op'["gui"].do = "nothing" /\ op'["av"] = op["av"] /\ op["gui"] # Aborted
  BY <1>0, DoingEnded, DoingNothing DEF Threads, EmitAvEnd
<1>2. /\ signals' = signals /\ invocations' = invocations /\ raced' = raced /\ calls' = calls
      /\ callConfirm' = callConfirm \ {g} /\ counting' = counting \ {g}
      /\ g \in Friends /\ Doing("gui", g)
  BY <1>0 DEF EmitAvEnd, Working, queues, Doing
<1>3. AutoInv'
  BY <1>1, <1>2 DEF ShownInv, AutoInv
<1>4. ASSUME NEW f \in Friends, f \notin raced' PROVE FriendInv(f)'
  <2>1. FriendInv(f)
    BY <1>1, <1>2, <1>4 DEF ShownInv
  <2>2. AnswerDue(f)' = AnswerDue(f)
    BY <1>1, <1>2 DEF AnswerDue, Invoked
  <2>3. CASE f = g
    <3>1. ~Queued(f) /\ calls[f] = NoCall
      BY <1>2, <2>1, <2>3 DEF FriendInv, ActedOn, EmitAvEnd
    <3>2. ~Queued(f)' /\ ~Doing("gui", f)'
      BY <1>1, <1>2, <3>1 DEF Queued, Doing
    <3>3. ~Counts(f)' /\ ~Rings(f)' /\ calls'[f] # IncomingCall
      BY <1>2, <3>1, CallsDiffer DEF Counts, Rings
    <3>4. QED BY <1>2, <2>3, <3>2, <3>3, ShownNow DEF IncomingCall
  <2>4. CASE f # g
    <3>1. ~Doing("gui", f) /\ ~Doing("gui", f)'
      BY <1>1, <2>4 DEF Doing
    <3>2. QED BY <1>2, <2>1, <2>2, <2>4, <3>1, OtherFriend
  <2>5. QED BY <2>3, <2>4
<1>5. QED BY <1>3, <1>4 DEF ShownInv

\* The user starts, answers, rejects or cancels a call.
LEMMA UserShows ==
    ASSUME IInv, ShownInv, NEW g \in Friends,
           CallTriggered(g) \/ AnswerCallTriggered(g) \/ RejectCallTriggered(g)
    PROVE  ShownInv'
<1>0. /\ TypeOK /\ "gui" \in Threads /\ "av" \in Threads
      /\ op["gui"] = Idle /\ op["gui"].do = "nothing" /\ op["gui"] # Aborted
  BY DoingNothing DEF IInv, Threads, CallTriggered, AnswerCallTriggered, RejectCallTriggered
<1>1. /\ signals' = signals /\ invocations' = invocations /\ counting' = counting /\ calls' = calls
      /\ raced \subseteq raced' /\ (g \notin raced' => ~Queued(g))
      /\ callConfirm' \subseteq callConfirm
      /\ \A f \in Friends : f # g => (f \in callConfirm' <=> f \in callConfirm)
  BY DEF CallTriggered, AnswerCallTriggered, RejectCallTriggered, queues, ui, Act
<1>2. PICK what \in {"start", "answer", "cancel"} :
         /\ Begin("gui", what, g)
         /\ what = "start" => calls[g] = NoCall /\ callConfirm' = callConfirm
         /\ what = "answer" => g \in callConfirm /\ callConfirm' = callConfirm \ {g}
         /\ what = "cancel" => calls[g] # NoCall \/ g \in callConfirm
  BY DEF CallTriggered, AnswerCallTriggered, RejectCallTriggered, ui
<1>3. /\ op'["gui"].do = what /\ op'["gui"].friend = g /\ op'["gui"].at = "callsLock"
      /\ op'["av"] = op["av"]
  BY <1>0, <1>2, DoingBegun DEF Threads
<1>4. AutoInv'
  BY <1>1, <1>3 DEF ShownInv, AutoInv
<1>5. ASSUME NEW f \in Friends, f \notin raced' PROVE FriendInv(f)'
  <2>1. FriendInv(f) /\ ~Doing("gui", f)
    BY <1>0, <1>1, <1>5 DEF ShownInv, Doing
  <2>2. AnswerDue(f)' = AnswerDue(f)
    BY <1>1, <1>3 DEF AnswerDue, Invoked
  <2>3. CASE f = g
    <3>1. ~Queued(f)
      BY <1>1, <1>5, <2>3
    <3>2. (f \in counting <=> Counts(f)) /\ (f \in callConfirm <=> Rings(f))
      BY <2>1, <3>1, WillUnqueued DEF FriendInv, WillShow
    <3>3. ~Queued(f)' /\ Doing("gui", f)'
      BY <1>1, <1>3, <2>3, <3>1 DEF Queued, Doing
    <3>4. what = "start" => calls'[f] = NoCall /\ f \notin counting' /\ f \notin callConfirm'
      BY <1>1, <1>2, <2>3, <3>2, CallsDiffer DEF Counts, Rings
    <3>5. what = "answer" => /\ f \notin AutoAccept /\ calls'[f] = IncomingCall
                             /\ f \notin counting' /\ f \notin callConfirm'
      BY <1>1, <1>2, <2>3, <3>2 DEF Counts, Rings, IncomingCall
    <3>6. what = "cancel" => calls'[f] # NoCall
      BY <1>1, <1>2, <2>3, <3>2, CallsDiffer DEF Rings
    <3>7. ActedOn(f)'
      BY <1>3, <3>3, <3>4, <3>5, <3>6 DEF ActedOn, NoCall, IncomingCall
    <3>8. QED BY <1>1, <2>1, <2>2, <3>3, <3>7 DEF FriendInv, IncomingCall
  <2>4. CASE f # g
    <3>1. ~Doing("gui", f)'
      BY <1>3, <2>4 DEF Doing
    <3>2. QED BY <1>1, <2>1, <2>2, <2>4, <3>1, OtherFriend
  <2>5. QED BY <2>3, <2>4
<1>6. QED BY <1>4, <1>5 DEF ShownInv

\* A signal is handled: it shows what it was to show, and an automatic answer is queued.
LEMMA HandleSignalShows ==
    ASSUME IInv, ShownInv, HandleSignal
    PROVE  ShownInv'
<1> DEFINE s == Head(signals)
           g == s.friend
<1>0. /\ TypeOK /\ op["gui"] = Idle /\ op["gui"].do = "nothing" /\ op["gui"] # Aborted
      /\ signals \in Seq(Signal) /\ signals # <<>> /\ signals' = Tail(signals)
      /\ op' = op /\ calls' = calls /\ raced' = raced
      /\ invocations \in Seq(AutoAccept)
  BY DoingNothing DEF IInv, TypeOK, HandleSignal, Signal
<1>1. s \in Signal
  BY <1>0, HeadTailProperties
<1>2. \/ s.name = "avInvite" /\ OnAvInvite(g)
      \/ s.name = "avStart" /\ OnAvStart(g)
      \/ s.name = "avEnd" /\ OnAvEnd(g)
  BY DEF HandleSignal
<1> HIDE DEF s
<1>3. AutoInv'
  BY <1>0, <1>2 DEF ShownInv, AutoInv, OnAvInvite, OnAvStart, OnAvEnd
<1>4. ASSUME NEW f \in Friends
      PROVE  /\ f \in counting' <=> \/ f \in counting /\ ~EndOf(s, f)
                                    \/ s.friend = f /\ s.name \in CountedBy(f)
             /\ f \in callConfirm' <=> \/ f \in callConfirm /\ ~EndOf(s, f)
                                       \/ s.friend = f /\ s.name \in ConfirmedBy(f)
  <2>1. CASE s.name = "avInvite" /\ OnAvInvite(g)
    BY <2>1 DEF OnAvInvite, CountedBy, ConfirmedBy, EndOf
  <2>2. CASE s.name = "avStart" /\ OnAvStart(g)
    BY <2>2 DEF OnAvStart, CountedBy, ConfirmedBy, EndOf
  <2>3. CASE s.name = "avEnd" /\ OnAvEnd(g)
    BY <2>3 DEF OnAvEnd, CountedBy, ConfirmedBy, EndOf
  <2>4. QED BY <1>2, <2>1, <2>2, <2>3
<1>5. ASSUME NEW f \in Friends, f \notin raced' PROVE FriendInv(f)'
  <2>1. FriendInv(f) /\ ~Doing("gui", f) /\ ~Doing("gui", f)'
    BY <1>0, <1>5 DEF ShownInv, Doing
  <2>2. "avEnd" \notin CountedBy(f) /\ "avEnd" \notin ConfirmedBy(f)
    BY DEF CountedBy, ConfirmedBy
  <2>3. Will(Tail(signals), counting', CountedBy(f), f) <=> Will(signals, counting, CountedBy(f), f)
    BY <1>0, <1>4, <2>2, WillPop DEF s
  <2>4. Will(Tail(signals), callConfirm', ConfirmedBy(f), f)
            <=> Will(signals, callConfirm, ConfirmedBy(f), f)
    BY <1>0, <1>4, <2>2, WillPop DEF s
  <2>5. Counts(f)' = Counts(f) /\ Rings(f)' = Rings(f)
    BY <1>0 DEF Counts, Rings, IncomingCall
  <2>6. WillShow(f)'
    <3>1. /\ CountedBy(f)' = CountedBy(f) /\ ConfirmedBy(f)' = ConfirmedBy(f)
      BY DEF CountedBy, ConfirmedBy
    <3>2. /\ Will(signals, counting, CountedBy(f), f)' <=> Will(Tail(signals), counting', CountedBy(f), f)
          /\ Will(signals, callConfirm, ConfirmedBy(f), f)'
                <=> Will(Tail(signals), callConfirm', ConfirmedBy(f), f)
      BY <1>0 DEF Will, CountedBy, ConfirmedBy, EndOf
    <3>3. QED BY <2>1, <2>3, <2>4, <2>5, <3>2 DEF FriendInv, WillShow
  <2>7. ASSUME f \in AutoAccept, AnswerDue(f) PROVE AnswerDue(f)'
    <3>1. CASE Invoked(f)
      <4>1. invocations' = invocations \/ (invocations' = Append(invocations, g) /\ g \in AutoAccept)
        BY <1>2 DEF OnAvInvite, OnAvStart, OnAvEnd
      <4>2. PICK k \in DOMAIN invocations : invocations[k] = f
        BY <3>1 DEF Invoked
      <4>3. k \in DOMAIN invocations' /\ invocations'[k] = f
        BY <1>0, <4>1, <4>2, AppendProperties
      <4>4. QED BY <4>3 DEF AnswerDue, Invoked
    <3>2. CASE op["av"].do = "answer" /\ op["av"].friend = f
      BY <1>0, <3>2 DEF AnswerDue
    <3>3. CASE \E k \in DOMAIN signals : signals[k].friend = f /\ signals[k].name = "avInvite"
      <4>1. PICK k \in DOMAIN signals : signals[k].friend = f /\ signals[k].name = "avInvite"
        BY <3>3
      <4>2. CASE k = 1
        <5>1. s = signals[1]
          BY <1>0, HeadTailProperties DEF s
        <5>2. OnAvInvite(f)
          BY <1>2, <4>1, <4>2, <5>1
        <5>3. invocations' = Append(invocations, f)
          BY <2>7, <5>2 DEF OnAvInvite
        <5>4. Len(invocations) + 1 \in DOMAIN invocations'
              /\ invocations'[Len(invocations) + 1] = f
          BY <1>0, <2>7, <5>3, AppendProperties
        <5>5. QED BY <5>4 DEF AnswerDue, Invoked
      <4>3. CASE k # 1
        <5>1. k-1 \in DOMAIN Tail(signals) /\ Tail(signals)[k-1] = signals[k]
          BY <1>0, <4>1, <4>3, HeadTailProperties
        <5>2. QED BY <1>0, <4>1, <5>1 DEF AnswerDue
      <4>4. QED BY <4>2, <4>3
    <3>4. QED BY <2>7, <3>1, <3>2, <3>3 DEF AnswerDue
  <2>8. QED BY <1>0, <2>1, <2>6, <2>7 DEF FriendInv, IncomingCall
<1>6. QED BY <1>3, <1>5 DEF ShownInv

\* Steps that change neither a call nor a signal nor what is shown, nor the GUI thread.
LEMMA UnseenShows ==
    ASSUME ShownInv, AutoInv', calls' = calls, signals' = signals,
           callConfirm' = callConfirm, counting' = counting, raced' = raced,
           op'["gui"] = op["gui"],
           \A f \in Friends : AnswerDue(f) => AnswerDue(f)'
    PROVE  ShownInv'
<1>1. ASSUME NEW f \in Friends, f \notin raced', op'["gui"] # Aborted PROVE FriendInv(f)'
  <2>1. FriendInv(f)
    BY <1>1 DEF ShownInv, Aborted
  <2>2. QED BY <2>1, OtherFriend
<1>2. QED BY <1>1 DEF ShownInv

\* A callback of toxav begins.
LEMMA IterateShows ==
    ASSUME IInv, ShownInv, NEW g \in Friends, Iterate(g)
    PROVE  ShownInv'
<1>1. "core" \in Threads /\ "gui" \in Threads /\ "av" \in Threads
  BY DEF Threads
<1>2. op'["gui"] = op["gui"] /\ op'["av"] = op["av"]
  BY <1>1, DoingBegun DEF Iterate
<1>3. /\ calls' = calls /\ signals' = signals /\ invocations' = invocations
      /\ callConfirm' = callConfirm /\ counting' = counting /\ raced' = raced
  BY DEF Iterate, queues, ui
<1>4. AutoInv' /\ \A f \in Friends : AnswerDue(f) => AnswerDue(f)'
  BY <1>2, <1>3 DEF ShownInv, AutoInv, AnswerDue, Invoked
<1>5. QED BY <1>2, <1>3, <1>4, UnseenShows

\* A signal that the user and an automatic answer have not raced with.
LEMMA EmitShows ==
    ASSUME IInv, ShownInv, NEW g \in Friends, NEW name \in {"avInvite", "avStart", "avEnd"},
           Emit(name, g), op'["gui"] = op["gui"], op'["av"] = op["av"],
           invocations' = invocations, callConfirm' = callConfirm, counting' = counting,
           \A f \in Friends : f # g => calls'[f] = calls[f],
           \/ name = "avInvite" /\ calls[g] = NoCall /\ calls'[g] = IncomingCall
           \/ name = "avStart" /\ calls[g] = OutgoingCall
              /\ calls'[g] = [active |-> TRUE, state |-> "sending"]
           \/ name = "avEnd" /\ calls'[g] = NoCall
    PROVE  ShownInv'
<1> DEFINE s == [name |-> name, friend |-> g]
<1>0. /\ signals \in Seq(Signal) /\ s \in Signal /\ signals' = Append(signals, s)
      /\ raced \subseteq raced'
      /\ g \notin raced' => ~Doing("gui", g)
  BY DEF IInv, TypeOK, Signal, Emit
<1>1. AutoInv'
  BY DEF ShownInv, AutoInv
<1>2. ASSUME NEW f \in Friends, f \notin raced', op'["gui"] # Aborted PROVE FriendInv(f)'
  <2>1. FriendInv(f)
    BY <1>0, <1>2 DEF ShownInv, Aborted
  <2>2. "avEnd" \notin CountedBy(f) /\ "avEnd" \notin ConfirmedBy(f)
    BY DEF CountedBy, ConfirmedBy
  <2>3. /\ Will(signals, counting, CountedBy(f), f)'
               <=> Will(Append(signals, s), counting, CountedBy(f), f)
        /\ Will(signals, callConfirm, ConfirmedBy(f), f)'
               <=> Will(Append(signals, s), callConfirm, ConfirmedBy(f), f)
    BY <1>0 DEF Will, CountedBy, ConfirmedBy, EndOf
  <2>4. AnswerDue(f) => AnswerDue(f)'
    <3>1. \A k \in DOMAIN signals : k \in DOMAIN signals' /\ signals'[k] = signals[k]
      BY <1>0, AppendProperties
    <3>2. QED BY <3>1 DEF AnswerDue, Invoked
  <2>5. CASE f # g
    <3>1. s.friend # f
      BY <2>5
    <3>2. /\ Will(Append(signals, s), counting, CountedBy(f), f)
                 <=> Will(signals, counting, CountedBy(f), f)
          /\ Will(Append(signals, s), callConfirm, ConfirmedBy(f), f)
                 <=> Will(signals, callConfirm, ConfirmedBy(f), f)
      BY <1>0, <2>2, <3>1, WillAppend
    <3>3. calls'[f] = calls[f] /\ Counts(f)' = Counts(f) /\ Rings(f)' = Rings(f)
      BY <2>5 DEF Counts, Rings, IncomingCall
    <3>4. WillShow(f)' <=> WillShow(f)
      BY <2>3, <3>2, <3>3 DEF WillShow
    <3>5. Doing("gui", f)' <=> Doing("gui", f)
      BY DEF Doing
    <3>6. Queued(f)' => Queued(f)
      <4>1. /\ DOMAIN signals' = DOMAIN signals \union {Len(signals) + 1}
            /\ \A k \in DOMAIN signals : signals'[k] = signals[k]
            /\ signals'[Len(signals) + 1] = s
        BY <1>0, AppendProperties
      <4>2. QED BY <3>1, <4>1 DEF Queued
    <3>7. Doing("gui", f) /\ ActedOn(f) => ActedOn(f)'
      BY <3>3, <3>6 DEF ActedOn, NoCall, IncomingCall
    <3>8. QED BY <2>1, <2>4, <3>3, <3>4, <3>5, <3>7 DEF FriendInv, IncomingCall
  <2>6. CASE f = g
    <3>1. ~Doing("gui", f) /\ ~Doing("gui", f)' /\ WillShow(f)
      BY <1>0, <1>2, <2>1, <2>6 DEF Doing, FriendInv
    <3>2. CASE name = "avInvite" /\ calls[g] = NoCall /\ calls'[g] = IncomingCall
      <4>1. ~Counts(f) /\ ~Rings(f) /\ (Counts(f)' <=> f \in AutoAccept) /\ (Rings(f)' <=> f \notin AutoAccept)
        BY <2>6, <3>2, CallsDiffer DEF Counts, Rings
      <4>2. /\ f \in AutoAccept => s.name \in CountedBy(f)
            /\ f \in AutoAccept => s.name \notin ConfirmedBy(f) \union {"avEnd"}
            /\ f \notin AutoAccept => s.name \notin CountedBy(f) \union {"avEnd"}
            /\ f \notin AutoAccept => s.name \in ConfirmedBy(f)
        BY <3>2 DEF CountedBy, ConfirmedBy
      <4>3. /\ Will(Append(signals, s), counting, CountedBy(f), f) <=> f \in AutoAccept
            /\ Will(Append(signals, s), callConfirm, ConfirmedBy(f), f) <=> f \notin AutoAccept
        <5>1. CASE f \in AutoAccept
          <6>1. Will(Append(signals, s), counting, CountedBy(f), f)
            BY <1>0, <2>2, <2>6, <4>2, <5>1, WillAppend
          <6>2. Will(Append(signals, s), callConfirm, ConfirmedBy(f), f)
                   <=> Will(signals, callConfirm, ConfirmedBy(f), f)
            BY <1>0, <2>2, <4>2, <5>1, WillAppend
          <6>3. QED BY <3>1, <4>1, <5>1, <6>1, <6>2 DEF WillShow
        <5>2. CASE f \notin AutoAccept
          <6>1. Will(Append(signals, s), callConfirm, ConfirmedBy(f), f)
            BY <1>0, <2>2, <2>6, <4>2, <5>2, WillAppend
          <6>2. Will(Append(signals, s), counting, CountedBy(f), f)
                   <=> Will(signals, counting, CountedBy(f), f)
            BY <1>0, <2>2, <4>2, <5>2, WillAppend
          <6>3. QED BY <3>1, <4>1, <5>2, <6>1, <6>2 DEF WillShow
        <5>3. QED BY <5>1, <5>2
      <4>4. AnswerDue(f)'
        <5>1. /\ Len(signals) + 1 \in DOMAIN signals'
              /\ signals'[Len(signals) + 1] = s
          BY <1>0, AppendProperties
        <5>2. QED BY <2>6, <3>2, <5>1 DEF AnswerDue
      <4>5. QED BY <2>3, <3>1, <4>1, <4>3, <4>4 DEF FriendInv, WillShow
    <3>3. CASE name = "avStart" /\ calls[g] = OutgoingCall
               /\ calls'[g] = [active |-> TRUE, state |-> "sending"]
      <4>1. ~Rings(f) /\ Counts(f)' /\ ~Rings(f)' /\ calls'[f] # IncomingCall
        BY <2>6, <3>3, CallsDiffer DEF Counts, Rings
      <4>2. s.name \in CountedBy(f) /\ s.name \notin ConfirmedBy(f) \union {"avEnd"}
        BY <3>3 DEF CountedBy, ConfirmedBy
      <4>3. Will(Append(signals, s), counting, CountedBy(f), f)
        BY <1>0, <2>2, <2>6, <4>2, WillAppend
      <4>4. Will(Append(signals, s), callConfirm, ConfirmedBy(f), f)
                <=> Will(signals, callConfirm, ConfirmedBy(f), f)
        BY <1>0, <2>2, <4>2, WillAppend
      <4>5. QED BY <2>3, <3>1, <4>1, <4>3, <4>4 DEF FriendInv, WillShow, IncomingCall
    <3>4. CASE name = "avEnd" /\ calls'[g] = NoCall
      <4>1. ~Counts(f)' /\ ~Rings(f)' /\ calls'[f] # IncomingCall
        BY <2>6, <3>4, CallsDiffer DEF Counts, Rings
      <4>2. EndOf(s, f)
        BY <2>6, <3>4 DEF EndOf
      <4>3. /\ ~Will(Append(signals, s), counting, CountedBy(f), f)
            /\ ~Will(Append(signals, s), callConfirm, ConfirmedBy(f), f)
        BY <1>0, <2>2, <4>2, WillAppend
      <4>4. QED BY <2>3, <3>1, <4>1, <4>3 DEF FriendInv, WillShow, IncomingCall
    <3>5. QED BY <3>2, <3>3, <3>4
  <2>7. QED BY <2>5, <2>6
<1>3. QED BY <1>1, <1>2 DEF ShownInv

\* The callbacks emit exactly what they do to the call.
LEMMA CallbacksShow ==
    ASSUME IInv, ShownInv, CallCallback \/ StateCallback
    PROVE  ShownInv'
<1> DEFINE g == op["core"].friend
<1>0. /\ TypeOK /\ "core" \in Threads /\ "gui" \in Threads /\ "av" \in Threads
      /\ Busy("core") /\ op["core"] \in Working /\ g \in Friends /\ End("core")
  <2>1. TypeOK /\ "core" \in Threads /\ "gui" \in Threads /\ "av" \in Threads
    BY DEF IInv, Threads
  <2>2. Busy("core") /\ op["core"] \in Working
    BY <2>1, WorkingThread DEF CallCallback, StateCallback
  <2>3. QED BY <2>1, <2>2 DEF Working, CallCallback, StateCallback
<1>1. op'["gui"] = op["gui"] /\ op'["av"] = op["av"]
  BY <1>0, DoingEnded
<1>2. /\ invocations' = invocations /\ callConfirm' = callConfirm /\ counting' = counting
      /\ calls \in [Friends -> Call]
  BY <1>0 DEF CallCallback, StateCallback, ui, TypeOK
<1>3. /\ op["core"].do = "call" => calls[g] = NoCall
      /\ op["core"].do = "sending" => calls[g] = OutgoingCall
  BY <1>0 DEF IInv, CallbackInv
<1>4. CASE calls' = calls /\ signals' = signals /\ raced' = raced
  <2>1. AutoInv' /\ \A f \in Friends : AnswerDue(f) => AnswerDue(f)'
    BY <1>1, <1>2, <1>4 DEF ShownInv, AutoInv, AnswerDue, Invoked
  <2>2. QED BY <1>1, <1>2, <1>4, <2>1, UnseenShows
<1>5. CASE calls' = [calls EXCEPT ![g] = IncomingCall] /\ Emit("avInvite", g) /\ calls[g] = NoCall
  <2>1. calls'[g] = IncomingCall /\ \A f \in Friends : f # g => calls'[f] = calls[f]
    BY <1>0, <1>2, <1>5
  <2>2. QED BY <1>0, <1>1, <1>2, <1>5, <2>1, EmitShows
<1>6. CASE calls' = [calls EXCEPT ![g] = NoCall] /\ Emit("avEnd", g)
  <2>1. calls'[g] = NoCall /\ \A f \in Friends : f # g => calls'[f] = calls[f]
    BY <1>0, <1>2, <1>6
  <2>2. QED BY <1>0, <1>1, <1>2, <1>6, <2>1, EmitShows
<1>7. CASE /\ calls' = [calls EXCEPT ![g] = [active |-> TRUE, state |-> "sending"]]
           /\ Emit("avStart", g) /\ calls[g] = OutgoingCall
  <2>1. /\ calls'[g] = [active |-> TRUE, state |-> "sending"]
        /\ \A f \in Friends : f # g => calls'[f] = calls[f]
    BY <1>0, <1>2, <1>7
  <2>2. QED BY <1>0, <1>1, <1>2, <1>7, <2>1, EmitShows
<1>8. CASE CallCallback
  BY <1>3, <1>4, <1>5, <1>8 DEF CallCallback
<1>9. CASE StateCallback
  BY <1>3, <1>4, <1>6, <1>7, <1>9 DEF StateCallback
<1>10. QED BY <1>8, <1>9

\* The CoreAV thread takes up an answer that was queued for it.
LEMMA InvokeShows ==
    ASSUME IInv, ShownInv, InvokeAnswerCall
    PROVE  ShownInv'
<1> DEFINE g == Head(invocations)
<1>0. /\ "gui" \in Threads /\ "av" \in Threads
      /\ invocations \in Seq(AutoAccept) /\ invocations # <<>> /\ op["av"].do = "nothing"
  BY DoingNothing DEF IInv, TypeOK, Threads, InvokeAnswerCall
<1>1. g \in AutoAccept /\ g \in Friends
  BY <1>0, HeadTailProperties, AVAssumption
<1>2. op'["av"].do = "answer" /\ op'["av"].friend = g /\ op'["gui"] = op["gui"]
  BY <1>0, <1>1, DoingBegun DEF InvokeAnswerCall
<1>3. /\ calls' = calls /\ signals' = signals /\ invocations' = Tail(invocations)
      /\ callConfirm' = callConfirm /\ counting' = counting /\ raced' = raced
  BY DEF InvokeAnswerCall, ui
<1>4. AutoInv'
  BY <1>1, <1>2, <1>3 DEF ShownInv, AutoInv
<1>5. ASSUME NEW f \in Friends, AnswerDue(f) PROVE AnswerDue(f)'
  <2>1. CASE Invoked(f)
    <3>1. PICK k \in DOMAIN invocations : invocations[k] = f
      BY <2>1 DEF Invoked
    <3>2. CASE k = 1
      BY <1>0, <1>2, <3>1, <3>2, HeadTailProperties DEF AnswerDue
    <3>3. CASE k # 1
      <4>1. k-1 \in DOMAIN Tail(invocations) /\ Tail(invocations)[k-1] = invocations[k]
        BY <1>0, <3>1, <3>3, HeadTailProperties
      <4>2. QED BY <1>3, <3>1, <4>1 DEF AnswerDue, Invoked
    <3>4. QED BY <3>2, <3>3
  <2>2. CASE ~Invoked(f)
    BY <1>0, <1>3, <1>5, <2>2 DEF AnswerDue
  <2>3. QED BY <2>1, <2>2
<1>6. QED BY <1>2, <1>3, <1>4, <1>5, UnseenShows

\* Frames and pictures.
LEMMA FramesShow ==
    ASSUME IInv, ShownInv,
           PlayFrame \/ SendCallVideo \/ \E f \in Friends : ReceiveFrame(f) \/ FrameAvailable(f)
    PROVE  ShownInv'
<1>0. "gui" \in Threads /\ "av" \in Threads
  BY DEF Threads
<1>1. /\ op'["gui"] = op["gui"]
      /\ op["av"].do # "answer" /\ op'["av"].do # "answer"
  <2>1. CASE PlayFrame \/ SendCallVideo
    BY <1>0, <2>1, DoingEnded DEF PlayFrame, SendCallVideo
  <2>2. CASE \E f \in Friends : ReceiveFrame(f) \/ FrameAvailable(f)
    BY <1>0, <2>2, DoingBegun, DoingNothing DEF ReceiveFrame, FrameAvailable
  <2>3. QED BY <2>1, <2>2
<1>2. /\ calls' = calls /\ signals' = signals /\ invocations' = invocations
      /\ callConfirm' = callConfirm /\ counting' = counting /\ raced' = raced
  BY DEF PlayFrame, SendCallVideo, ReceiveFrame, FrameAvailable, queues, ui
<1>3. AutoInv' /\ \A f \in Friends : AnswerDue(f) => AnswerDue(f)'
  BY <1>1, <1>2 DEF ShownInv, AutoInv, AnswerDue, Invoked
<1>4. QED BY <1>1, <1>2, <1>3, UnseenShows

LEMMA InitShows == Init => ShownInv
<1> SUFFICES ASSUME Init PROVE ShownInv
  OBVIOUS
<1>1. \A t \in Threads : op[t] = Idle /\ op[t].do = "nothing"
  BY DoingNothing DEF Init
<1>2. AutoInv
  BY <1>1 DEF Init, AutoInv, Threads
<1>3. ASSUME NEW f \in Friends PROVE FriendInv(f)
  <2>1. ~Doing("gui", f) /\ calls[f] = NoCall
    BY <1>1 DEF Doing, Threads, Init
  <2>2. ~Counts(f) /\ ~Rings(f) /\ calls[f] # IncomingCall
    BY <2>1, CallsDiffer DEF Counts, Rings
  <2>3. ~Queued(f) /\ f \notin counting /\ f \notin callConfirm
    BY DEF Init, Queued
  <2>4. WillShow(f)
    BY <2>2, <2>3, WillUnqueued DEF WillShow
  <2>5. QED BY <2>1, <2>2, <2>4 DEF FriendInv
<1>4. QED BY <1>2, <1>3 DEF ShownInv

LEMMA NextShows ==
    ASSUME IInv, ShownInv, [Next]_vars
    PROVE  ShownInv'
<1>1. CASE \E t \in {"gui", "av"} : LockCalls(t) \/ AnswerCall(t)
  BY <1>1, LockCallsShows, AnswerCallShows
<1>2. CASE StartCall \/ CancelCall \/ EmitAvEnd \/ HandleSignal
  BY <1>2, StartCallShows, CancelCallShows, EmitAvEndShows, HandleSignalShows
<1>3. CASE \E f \in Friends :
             \/ CallTriggered(f) \/ AnswerCallTriggered(f) \/ RejectCallTriggered(f)
             \/ Iterate(f) \/ ReceiveFrame(f) \/ FrameAvailable(f)
  BY <1>3, UserShows, IterateShows, FramesShow
<1>4. CASE CallCallback \/ StateCallback
  BY <1>4, CallbacksShow
<1>5. CASE InvokeAnswerCall \/ PlayFrame \/ SendCallVideo
  BY <1>5, InvokeShows, FramesShow
<1>6. CASE UNCHANGED vars
  <2>1. AutoInv' /\ \A f \in Friends : AnswerDue(f) => AnswerDue(f)'
    BY <1>6 DEF ShownInv, AutoInv, AnswerDue, Invoked, vars, queues, ui
  <2>2. QED BY <1>6, <2>1, UnseenShows DEF vars, queues, ui
<1>7. QED BY <1>1, <1>2, <1>3, <1>4, <1>5, <1>6 DEF Next

\* When everything is handled, the chat form shows the calls that there are, for any number of
\* friends and calls and however the three threads and the queued signals interleave: except
\* for a friend on whom the user or an automatic answer acted against a signal on its way.
THEOREM UiFollowsCallsHolds == Spec => []UiFollowsCalls
<1>1. IInv /\ ShownInv => UiFollowsCalls
  <2> SUFFICES ASSUME ShownInv, signals = <<>>, invocations = <<>>, \A t \in Threads : op[t] = Idle,
                      NEW f \in Friends \ raced
               PROVE  /\ f \in counting <=> calls[f].active
                      /\ f \in callConfirm <=> calls[f] = IncomingCall
    BY DEF UiFollowsCalls
  <2>1. \A t \in Threads : op[t].do = "nothing" /\ op[t] # Aborted
    BY DoingNothing
  <2>2. FriendInv(f) /\ ~Doing("gui", f)
    BY <2>1 DEF ShownInv, Doing, Threads
  <2>3. ~Queued(f) /\ ~AnswerDue(f)
    BY <2>1 DEF Queued, AnswerDue, Invoked, Threads
  <2>4. (f \in counting <=> Counts(f)) /\ (f \in callConfirm <=> Rings(f))
    BY <2>2, <2>3, WillUnqueued DEF FriendInv, WillShow
  <2>5. f \in AutoAccept => calls[f] # IncomingCall
    BY <2>2, <2>3 DEF FriendInv
  <2>6. QED BY <2>4, <2>5 DEF Counts, Rings
<1>2. Init => IInv /\ ShownInv
  BY InitIInv, InitShows
<1>3. IInv /\ ShownInv /\ [Next]_vars => IInv' /\ ShownInv'
  BY NextPreserves, NextShows
<1>4. QED BY <1>1, <1>2, <1>3, PTL DEF Spec
=============================================================================
