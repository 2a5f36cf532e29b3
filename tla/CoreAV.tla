-------------------------------- MODULE CoreAV --------------------------------
(***************************************************************************)
(* Friend calls: CoreAV between three threads.  The GUI thread starts,     *)
(* answers and cancels calls; the Core thread runs the callbacks of toxav  *)
(* while it holds coreLock; the CoreAV thread plays the frames and answers *)
(* calls that are accepted automatically.  The first locks callsLock and   *)
(* then coreLock, the callbacks lock callsLock under coreLock.             *)
(***************************************************************************)
EXTENDS Naturals, Sequences

CONSTANTS
    Friends,
    AutoAccept,      \* the friends whose calls Settings::getAutoAcceptCall accepts
    Nobody,          \* the holder of a free lock
    MaxInvites,      \* bound: calls that friends begin
    MaxStarts        \* bound: calls that the user begins

Threads == {"gui", "core", "av"}

ASSUME AVAssumption ==
    /\ AutoAccept \subseteq Friends
    /\ Nobody \notin Threads
    /\ MaxInvites \in Nat /\ MaxStarts \in Nat

VARIABLES
    calls,           \* CoreAV::calls
    callsLock,       \* the thread that holds callsLock for writing
    coreLock,        \* the thread that holds Core::coreLoopLock
    isCancelling,
    toxav,           \* external: the state of each call in toxav
    op,              \* what each thread is doing
    signals,         \* queued signals of CoreAV, for the GUI thread
    invocations,     \* queued calls of answerCall, for the CoreAV thread
    callConfirm,     \* ChatFormHeader::callConfirm: the friends whose call can be answered
    counting,        \* ChatForm::callDurationTimer: the friends shown as in a call
    raced,           \* history: see UiFollowsCalls
    invites, starts  \* bounds

locks == <<callsLock, coreLock>>
queues == <<signals, invocations>>
ui == <<callConfirm, counting>>
bounds == <<invites, starts>>
vars == <<calls, locks, isCancelling, toxav, op, queues, ui, raced, bounds>>

\* A ToxFriendCall: active, and the state of the peer, 0 until the first stateCallback.
NoCall == [active |-> FALSE, state |-> "no call"]
OutgoingCall == [active |-> FALSE, state |-> "0"]
IncomingCall == [active |-> FALSE, state |-> "sending"]
Call == [active : BOOLEAN, state : {"0", "sending"}] \union {NoCall}

Idle == [do |-> "nothing"]
Aborted == [do |-> "aborted"]
Busy(t) == op[t] \notin {Idle, Aborted}
Doing(t, f) == op[t].do \in {"start", "answer", "cancel"} /\ op[t].friend = f
Begin(t, what, f) == op' = [op EXCEPT ![t] = [do |-> what, friend |-> f, at |-> "callsLock"]]
End(t) == op' = [op EXCEPT ![t] = Idle]

\* Emitting a signal that the GUI thread gets later.
Queued(f) == \E k \in DOMAIN signals : signals[k].friend = f
Invoked(f) == \E k \in DOMAIN invocations : invocations[k] = f
Emit(signal, f) ==
    /\ signals' = Append(signals, [name |-> signal, friend |-> f])
    /\ raced' = IF Doing("gui", f) \/ Doing("av", f) \/ Invoked(f)
                THEN raced \union {f} ELSE raced
-----------------------------------------------------------------------------
(* startCall, answerCall and cancelCall, in the GUI or the CoreAV thread.      *)

\* QWriteLocker locker{&callsLock}
LockCalls(t) ==
    /\ op[t].do \in {"start", "answer", "cancel", "send"} /\ op[t].at = "callsLock"
    /\ callsLock = Nobody /\ callsLock' = t
    /\ op' = [op EXCEPT ![t].at = "coreLock"]
    /\ UNCHANGED <<calls, coreLock, isCancelling, toxav, queues, ui, raced, bounds>>

\* Both locks are held, and are released with the function's return.
Locked(t, what) ==
    /\ op[t].do = what /\ op[t].at = "coreLock"
    /\ coreLock = Nobody

\* toxav takes a call to a friend it has no call with, if the friend is connected.
StartCall ==
  LET f == op["gui"].friend
  IN /\ Locked("gui", "start")
     /\ \/ /\ calls[f] = NoCall /\ toxav[f] = "none"
           /\ toxav' = [toxav EXCEPT ![f] = "calling"]
           /\ calls' = [calls EXCEPT ![f] = OutgoingCall]
        \/ UNCHANGED <<toxav, calls>>
     /\ callsLock' = Nobody
     /\ End("gui")
     /\ UNCHANGED <<coreLock, isCancelling, queues, ui, raced, bounds>>

\* Mutant: a call that cannot be answered stays in calls.
AnswerCallKeepsFailed(t) ==
  LET f == op[t].friend
  IN /\ Locked(t, "answer") /\ calls[f] # NoCall
     /\ callsLock' = Nobody /\ End(t)
     /\ \/ /\ toxav[f] = "invited"
           /\ toxav' = [toxav EXCEPT ![f] = "active"]
           /\ calls' = [calls EXCEPT ![f] = [active |-> TRUE, state |-> calls[f].state]]
           /\ counting' = counting \union {f}
           /\ UNCHANGED raced
        \/ /\ toxav' = [toxav EXCEPT ![f] = "none"]
           /\ UNCHANGED <<calls, counting, raced>>
     /\ UNCHANGED <<coreLock, isCancelling, queues, callConfirm, bounds>>

\* assert(it != calls.end()) can fail, and then qTox stops.  toxav answers a call it was
\* invited to, if it can set up the codecs; if not the call is cancelled.  Only the GUI
\* thread looks at the result: it shows the call, or goes back.
AnswerCall(t) ==
  LET f == op[t].friend
  IN /\ Locked(t, "answer")
     /\ callsLock' = Nobody
     /\ op' = IF calls[f] = NoCall THEN [u \in Threads |-> Aborted] ELSE [op EXCEPT ![t] = Idle]
     /\ \/ /\ calls[f] = NoCall
           /\ UNCHANGED <<toxav, calls, counting, raced>>
        \/ /\ calls[f] # NoCall /\ toxav[f] = "invited"
           /\ toxav' = [toxav EXCEPT ![f] = "active"]
           /\ calls' = [calls EXCEPT ![f] = [active |-> TRUE, state |-> calls[f].state]]
           /\ counting' = IF t = "gui" THEN counting \union {f} ELSE counting
           /\ UNCHANGED raced
        \/ /\ calls[f] # NoCall
           /\ toxav' = [toxav EXCEPT ![f] = "none"]
           /\ calls' = [calls EXCEPT ![f] = NoCall]
           /\ counting' = IF t = "gui" THEN counting \ {f} ELSE counting
           /\ raced' = IF t = "gui" THEN raced ELSE raced \union {f}
     /\ UNCHANGED <<coreLock, isCancelling, queues, callConfirm, bounds>>

\* Mutant: callsLock is held while avEnd is handled.
CancelCallLocked ==
  LET f == op["gui"].friend
  IN /\ Locked("gui", "cancel") /\ toxav[f] # "none"
     /\ toxav' = [toxav EXCEPT ![f] = "none"]
     /\ calls' = [calls EXCEPT ![f] = NoCall]
     /\ coreLock' = "gui"
     /\ op' = [op EXCEPT !["gui"].at = "avEnd"]
     /\ UNCHANGED <<callsLock, isCancelling, queues, ui, raced, bounds>>

\* The control fails when toxav has no such call; isCancelling stays set.  Otherwise
\* callsLock is released, and coreLock is still held in the slots of avEnd.
CancelCall ==
  LET f == op["gui"].friend
  IN /\ Locked("gui", "cancel")
     /\ callsLock' = Nobody
     /\ IF toxav[f] = "none"
        THEN /\ End("gui")
             /\ UNCHANGED <<toxav, calls, coreLock>>
        ELSE /\ toxav' = [toxav EXCEPT ![f] = "none"]
             /\ calls' = [calls EXCEPT ![f] = NoCall]
             /\ coreLock' = "gui"
             /\ op' = [op EXCEPT !["gui"].at = "avEnd"]
     /\ UNCHANGED <<isCancelling, queues, ui, raced, bounds>>

\* ChatForm::onAvEnd runs in the GUI thread, at once, and reads the calls.
EmitAvEnd ==
  LET f == op["gui"].friend
  IN /\ op["gui"].do = "cancel" /\ op["gui"].at = "avEnd" /\ callsLock = Nobody
     /\ callConfirm' = callConfirm \ {f}
     /\ counting' = counting \ {f}
     /\ isCancelling' = FALSE
     /\ coreLock' = Nobody
     /\ End("gui")
     /\ UNCHANGED <<calls, callsLock, toxav, queues, raced, bounds>>
-----------------------------------------------------------------------------
(* ChatForm, in the GUI thread.  It looks at the calls in its slots.           *)

\* The user acts on a friend about whom signals are queued.
Act(f) == raced' = IF Queued(f) THEN raced \union {f} ELSE raced

\* onCallTriggered, onVideoCallTriggered, onFriendStatusChanged: a call that has started
\* is cancelled.
CallTriggered(f) ==
    /\ op["gui"] = Idle /\ callsLock = Nobody
    /\ \/ /\ calls[f] # NoCall
          /\ isCancelling' = TRUE
          /\ Begin("gui", "cancel", f)
          /\ UNCHANGED starts
       \/ /\ calls[f] = NoCall /\ starts < MaxStarts
          /\ starts' = starts + 1
          /\ Begin("gui", "start", f)
          /\ UNCHANGED isCancelling
    /\ Act(f)
    /\ UNCHANGED <<calls, locks, toxav, queues, ui, invites>>

\* onAnswerCallTriggered
AnswerCallTriggered(f) ==
    /\ op["gui"] = Idle /\ f \in callConfirm /\ callsLock = Nobody
    /\ callConfirm' = callConfirm \ {f}
    /\ Begin("gui", "answer", f)
    /\ Act(f)
    /\ UNCHANGED <<calls, locks, isCancelling, toxav, queues, counting, bounds>>

\* onRejectCallTriggered, Widget::onRejectCall
RejectCallTriggered(f) ==
    /\ op["gui"] = Idle /\ f \in callConfirm
    /\ callConfirm' = callConfirm \ {f}
    /\ isCancelling' = TRUE
    /\ Begin("gui", "cancel", f)
    /\ Act(f)
    /\ UNCHANGED <<calls, locks, toxav, queues, counting, bounds>>

\* A call that is accepted automatically is shown as started before it is answered.
OnAvInvite(f) ==
    IF f \in AutoAccept
    THEN /\ invocations' = Append(invocations, f)
         /\ counting' = counting \union {f}
         /\ UNCHANGED callConfirm
    ELSE /\ callConfirm' = callConfirm \union {f}
         /\ UNCHANGED <<invocations, counting>>

OnAvStart(f) ==
    /\ counting' = counting \union {f}
    /\ UNCHANGED <<invocations, callConfirm>>

OnAvEnd(f) ==
    /\ callConfirm' = callConfirm \ {f}
    /\ counting' = counting \ {f}
    /\ UNCHANGED invocations

HandleSignal ==
    /\ op["gui"] = Idle /\ signals # <<>> /\ callsLock = Nobody
    /\ signals' = Tail(signals)
    /\ LET s == Head(signals)
       IN \/ s.name = "avInvite" /\ OnAvInvite(s.friend)
          \/ s.name = "avStart" /\ OnAvStart(s.friend)
          \/ s.name = "avEnd" /\ OnAvEnd(s.friend)
    /\ UNCHANGED <<calls, locks, isCancelling, toxav, op, raced, bounds>>
-----------------------------------------------------------------------------
(* Core::process, in the Core thread, and the callbacks it runs.               *)

\* tox_events_iterate: something happens to a call, and toxav calls back.
Iterate(f) ==
    /\ op["core"] = Idle /\ coreLock = Nobody
    /\ coreLock' = "core"
    /\ \/ /\ toxav[f] = "none" /\ invites < MaxInvites
          /\ invites' = invites + 1
          /\ toxav' = [toxav EXCEPT ![f] = "invited"]
          /\ Begin("core", "call", f)
       \/ /\ toxav[f] = "calling"
          /\ toxav' = [toxav EXCEPT ![f] = "active"]
          /\ Begin("core", "sending", f)
          /\ UNCHANGED invites
       \/ /\ toxav[f] # "none"
          /\ toxav' = [toxav EXCEPT ![f] = "none"]
          /\ Begin("core", "finished", f)
          /\ UNCHANGED invites
    /\ UNCHANGED <<calls, callsLock, isCancelling, queues, ui, raced, starts>>

\* A call that is there already is kept, and toxav's is cancelled.
CallCallback ==
  LET f == op["core"].friend
  IN /\ op["core"].do = "call" /\ callsLock = Nobody
     /\ IF calls[f] = NoCall
        THEN /\ calls' = [calls EXCEPT ![f] = IncomingCall]
             /\ Emit("avInvite", f)
             /\ UNCHANGED toxav
        ELSE /\ toxav' = [toxav EXCEPT ![f] = "none"]
             /\ UNCHANGED <<calls, signals, raced>>
     /\ coreLock' = Nobody
     /\ End("core")
     /\ UNCHANGED <<callsLock, isCancelling, invocations, ui, bounds>>

\* Mutant: only a call that was active is reported as ended.
StateCallbackOfActive ==
  LET f == op["core"].friend
  IN /\ op["core"].do \in {"sending", "finished"} /\ callsLock = Nobody
     /\ IF op["core"].do = "finished"
        THEN /\ calls' = [calls EXCEPT ![f] = NoCall]
             /\ IF calls[f].active THEN Emit("avEnd", f) ELSE UNCHANGED <<signals, raced>>
        ELSE /\ calls' = [calls EXCEPT ![f] = [active |-> TRUE, state |-> "sending"]]
             /\ Emit("avStart", f)
     /\ coreLock' = Nobody
     /\ End("core")
     /\ UNCHANGED <<callsLock, isCancelling, toxav, invocations, ui, bounds>>

\* Finished is for TOXAV_FRIEND_CALL_STATE_ERROR too.  The first state of a call that we
\* began makes it active.
StateCallback ==
  LET f == op["core"].friend
  IN /\ op["core"].do \in {"sending", "finished"} /\ callsLock = Nobody
     /\ IF op["core"].do = "finished" /\ calls[f] # NoCall
        THEN /\ calls' = [calls EXCEPT ![f] = NoCall]
             /\ Emit("avEnd", f)
        ELSE IF op["core"].do = "sending" /\ calls[f].state = "0"
        THEN /\ calls' = [calls EXCEPT ![f] = [active |-> TRUE, state |-> "sending"]]
             /\ Emit("avStart", f)
        ELSE UNCHANGED <<calls, signals, raced>>
     /\ coreLock' = Nobody
     /\ End("core")
     /\ UNCHANGED <<callsLock, isCancelling, toxav, invocations, ui, bounds>>
-----------------------------------------------------------------------------
(* The CoreAV thread: process, and the calls queued for it.                    *)

InvokeAnswerCall ==
    /\ op["av"] = Idle /\ invocations # <<>>
    /\ invocations' = Tail(invocations)
    /\ Begin("av", "answer", Head(invocations))
    /\ UNCHANGED <<calls, locks, isCancelling, toxav, signals, ui, raced, bounds>>

\* audioFrameCallback, videoFrameCallback up to the lock: a frame is dropped when a call
\* is being cancelled.
ReceiveFrame(f) ==
    /\ op["av"] = Idle /\ toxav[f] = "active" /\ ~isCancelling
    /\ Begin("av", "play", f)
    /\ UNCHANGED <<calls, locks, isCancelling, toxav, queues, ui, raced, bounds>>

\* The frame is played if the call is still there.
PlayFrame ==
    /\ op["av"].do = "play" /\ callsLock = Nobody
    /\ End("av")
    /\ UNCHANGED <<calls, locks, isCancelling, toxav, queues, ui, raced, bounds>>

\* A picture of the camera comes, to be sent with the video stream of a call restarted.
FrameAvailable(f) ==
    /\ op["av"] = Idle /\ calls[f] # NoCall
    /\ Begin("av", "send", f)
    /\ UNCHANGED <<calls, locks, isCancelling, toxav, queues, ui, raced, bounds>>

\* sendCallVideo under callsLock: for an active call it locks coreLock as well.
SendCallVideo ==
  LET f == op["av"].friend
  IN /\ op["av"].do = "send" /\ op["av"].at = "coreLock"
     /\ calls[f].active => coreLock = Nobody
     /\ callsLock' = Nobody
     /\ End("av")
     /\ UNCHANGED <<calls, coreLock, isCancelling, toxav, queues, ui, raced, bounds>>
-----------------------------------------------------------------------------
Init ==
    /\ calls = [f \in Friends |-> NoCall]
    /\ callsLock = Nobody /\ coreLock = Nobody
    /\ isCancelling = FALSE
    /\ toxav = [f \in Friends |-> "none"]
    /\ op = [t \in Threads |-> Idle]
    /\ signals = <<>> /\ invocations = <<>>
    /\ callConfirm = {} /\ counting = {}
    /\ raced = {}
    /\ invites = 0 /\ starts = 0

Next ==
    \/ \E t \in {"gui", "av"} : LockCalls(t) \/ AnswerCall(t)
    \/ StartCall \/ CancelCall \/ EmitAvEnd
    \/ \E f \in Friends :
         \/ CallTriggered(f) \/ AnswerCallTriggered(f) \/ RejectCallTriggered(f)
         \/ Iterate(f) \/ ReceiveFrame(f) \/ FrameAvailable(f)
    \/ HandleSignal
    \/ CallCallback \/ StateCallback
    \/ InvokeAnswerCall \/ PlayFrame \/ SendCallVideo

\* A thread that is in an operation and not blocked goes on.  The others get callsLock from the
\* CoreAV thread, which has it for a moment only, frame after frame.
Fairness ==
    /\ SF_vars(LockCalls("gui") \/ AnswerCall("gui") \/ StartCall \/ CancelCall \/ EmitAvEnd)
    /\ SF_vars(CallCallback \/ StateCallback)
    /\ WF_vars(LockCalls("av") \/ AnswerCall("av") \/ PlayFrame \/ SendCallVideo)

Spec == Init /\ [][Next]_vars
FairSpec == Spec /\ Fairness
-----------------------------------------------------------------------------
(* Properties. *)

Operation ==
    {Idle, Aborted} \union
        [do : {"start", "answer", "cancel", "call", "sending", "finished", "play", "send"},
         friend : Friends, at : {"callsLock", "coreLock", "avEnd"}]

\* Types, and the locks: a thread that holds callsLock for writing is between its two locks,
\* and coreLock is held by the Core thread in a callback and by the GUI thread in avEnd.
TypeOK ==
    /\ calls \in [Friends -> Call]
    /\ toxav \in [Friends -> {"none", "invited", "calling", "active"}]
    /\ op \in [Threads -> Operation]
    /\ isCancelling \in BOOLEAN
    /\ signals \in Seq([name : {"avInvite", "avStart", "avEnd"}, friend : Friends])
    /\ invocations \in Seq(AutoAccept)
    /\ callConfirm \subseteq Friends /\ counting \subseteq Friends /\ raced \subseteq Friends
    /\ \A t \in Threads :
         /\ callsLock = t <=> Busy(t) /\ op[t].at = "coreLock"
         /\ coreLock = t <=> Busy(t) /\ (t = "core" \/ op[t].at = "avEnd")

\* CoreAV's calls are toxav's, in the same states, except for the call a callback is about:
\* no call is lost, revived or taken for active by operations of three threads.
CallsFollowToxav ==
    \A f \in Friends :
        \/ Busy("core") /\ op["core"].friend = f
        \/ /\ toxav[f] = "none" => calls[f] = NoCall
           /\ toxav[f] = "calling" => calls[f] = OutgoingCall
           /\ toxav[f] = "invited" => calls[f] = IncomingCall
           /\ toxav[f] = "active" => calls[f] = [active |-> TRUE, state |-> "sending"]

\* When everything is handled, the chat form shows the calls there are: a call in progress
\* has its counter, a call that rings can be answered.  Not so for a friend on whom the user
\* or an automatic answer acted while a signal about that friend was on its way, nor when
\* an automatic answer failed (raced).
UiFollowsCalls ==
    signals = <<>> /\ invocations = <<>> /\ (\A t \in Threads : op[t] = Idle) =>
        \A f \in Friends \ raced :
            /\ f \in counting <=> calls[f].active
            /\ f \in callConfirm <=> calls[f] = IncomingCall

\* callsLock is held by a thread that waits for coreLock, and coreLock by one that waits
\* for callsLock.
LockOrderDeadlock ==
    /\ callsLock # Nobody /\ coreLock # Nobody /\ callsLock # coreLock
    /\ op[coreLock].at \in {"callsLock", "avEnd"}

\* startCall, answerCall, cancelCall, the callbacks and the frames get out of their locks,
\* but for one deadlock: the two orders in which callsLock and coreLock are locked.
OperationsReturn ==
    \A t \in Threads : Busy(t) ~> ~Busy(t) \/ LockOrderDeadlock
-----------------------------------------------------------------------------
(* What comments in the code say, and the code does not do. *)

\* coreav.h:126-127: isCancelling shows "that we do not need to accept frames as the cancel
\* call request was sent".
FramesDroppedOnlyForCancelled == isCancelling => op["gui"].do = "cancel"

\* coreav.cpp:251: assert(it != calls.end()) in answerCall.
AnswerFindsCall == op["gui"] # Aborted

\* coreav.cpp:62-63: "Both switches block both threads, so this would deadlock".
NoDeadlock == ~LockOrderDeadlock
=============================================================================
