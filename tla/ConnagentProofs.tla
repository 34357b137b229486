-------------------------- MODULE ConnagentProofs ---------------------------
(***************************************************************************)
(* Theorems of the connection agent, for every number of threads, messages *)
(* and calls and every length of the event queue, in three parts.          *)
(*                                                                         *)
(* Types.  TypeOK alone is not inductive: the event task and the threads   *)
(* keep a message number in a local that is NoMsg outside the steps that   *)
(* use it, and TInv says where it is not.                                  *)
(*                                                                         *)
(* The report queue, on the ports whose socket task never raises           *)
(* SEND_TIMEOUT: it implements the FIFO outbox, every message has one      *)
(* owner and is released once.                                             *)
(*                                                                         *)
(* The start-up machine: it rests only in states that a later event can    *)
(* take up, and, on the same ports and while no answer has an odd header,  *)
(* the CoAP context and what the application was told agree with it.       *)
(***************************************************************************)
EXTENDS Connagent, SequenceTheorems, TLAPS

-----------------------------------------------------------------------------
(* Types                                                                   *)

CurIsMsg == pc \in {"sending", "release", "pop"} => cur \in Msgs
PushesMsg == \A t \in Threads : Pushing(t) => rmsg[t] \in Msgs
TInv == TypeOK /\ CurIsMsg /\ PushesMsg

-----------------------------------------------------------------------------
(* Facts about sequences and sets of messages. *)

\* The messages of the report queue are messages.
LEMMA QueuedMsgs == ASSUME queue \in Seq(Msgs) PROVE Queued \subseteq Msgs
BY DEF Queued

\* What Pop leaves behind, and what EvtSend takes, are messages.
LEMMA TailMsgs == ASSUME queue \in Seq(Msgs), queue # <<>>
                  PROVE Tail(queue) \in Seq(Msgs) /\ Head(queue) \in Msgs
BY HeadTailProperties

\* Posting an event respects the capacity of the event queue.
LEMMA PostedType ==
    ASSUME LoopType, NEW f \in Events
    PROVE  Posted(f) \in Seq(Events) /\ Len(Posted(f)) <= QUEUE_LENGTH
<1>1. CASE loop /\ Len(evq) < QUEUE_LENGTH
  <2>1. Append(evq, f) \in Seq(Events) /\ Len(Append(evq, f)) = Len(evq) + 1
    BY AppendProperties DEF LoopType
  <2>2. Len(evq) \in Nat
    BY LenProperties DEF LoopType
  <2>3. QED  BY <1>1, <2>1, <2>2, BoundAssumption DEF Posted
<1>2. CASE ~(loop /\ Len(evq) < QUEUE_LENGTH)
  BY <1>2 DEF Posted, LoopType
<1>3. QED  BY <1>1, <1>2

\* So does taking one.
LEMMA TakenType == ASSUME LoopType, NEW f, Take(f) PROVE LoopType'
<1>1. Tail(evq) \in Seq(Events) /\ Len(Tail(evq)) = Len(evq) - 1
  BY HeadTailProperties DEF LoopType, Take
<1>2. Len(evq) \in Nat
  BY LenProperties DEF LoopType
<1>3. QED  BY <1>1, <1>2, BoundAssumption DEF LoopType, Take

\* Building a message: the thread owns a message of its own.
LEMMA BuildType ==
    ASSUME TInv, NEW t \in Threads, NEW kind \in {"push_report", "push_response"},
           Build(t, kind), UNCHANGED calls
    PROVE  ThreadType' /\ PushesMsg'
<1>1. nextMsg \in Msgs /\ nextMsg' \in 1 .. MaxMsgs + 1
  BY BoundAssumption DEF TInv, TypeOK, ThreadType, Msgs, Build
<1>2. ThreadType'
  BY <1>1 DEF TInv, TypeOK, ThreadType, Build
<1>3. PushesMsg'
  BY <1>1 DEF TInv, TypeOK, ThreadType, PushesMsg, Pushing, Build
<1>4. QED  BY <1>2, <1>3

\* Leaving a call: the thread owns nothing.
LEMMA LeaveType ==
    ASSUME TInv, NEW t \in Threads, Leave(t), UNCHANGED calls
    PROVE  ThreadType' /\ PushesMsg'
<1>1. ThreadType'
  BY DEF TInv, TypeOK, ThreadType, Leave, NoMsg
<1>2. PushesMsg'
  BY DEF TInv, TypeOK, ThreadType, PushesMsg, Pushing, Leave
<1>3. QED  BY <1>1, <1>2

-----------------------------------------------------------------------------
(* One lemma per action or group of actions.  The groups of variables and  *)
(* the helpers the actions are built from are expanded throughout.         *)

USE DEF loopVars, taskVars, caVars, queueVars, sockVars, threadVars, histVars,
        LoopType, TaskType, CaType, QueueType, SockType, ThreadType, HistType,
        Events, Pcs, Statuses, CaStates, NoMsg,
        Control, Goto, Return, Armed, StopEngine, StopTimer, Created,
        MakeQueueAndTimer, Fault, BeginRun, ExitRun, RunUnchanged, NotifyUnchanged

\* What an application thread does without the report queue.
LEMMA ApplicationType == ASSUME TInv, Application PROVE TInv'
<1>1. CASE duer_initialize
  <2>1. LoopType'
    <3>1. CASE Len(evq) < QUEUE_LENGTH
      BY <1>1, <3>1, AppendProperties, LenProperties, BoundAssumption
         DEF TInv, TypeOK, duer_initialize
    <3>2. CASE ~(Len(evq) < QUEUE_LENGTH)
      BY <1>1, <3>2 DEF TInv, TypeOK, duer_initialize
    <3>3. QED  BY <3>1, <3>2
  <2>2. calls' \in 0 .. MaxCalls
    BY <1>1, BoundAssumption DEF TInv, TypeOK, duer_initialize
  <2>3. QED  BY <1>1, <2>1, <2>2
             DEF TInv, TypeOK, CurIsMsg, PushesMsg, Pushing, duer_initialize
<1>2. CASE duer_start
  BY <1>2, PostedType, BoundAssumption DEF TInv, TypeOK, CurIsMsg, PushesMsg, Pushing, duer_start
<1>3. CASE duer_stop
  BY <1>3, PostedType, BoundAssumption DEF TInv, TypeOK, CurIsMsg, PushesMsg, Pushing, duer_stop
<1>4. CASE duer_finalize
  BY <1>4, PostedType, BoundAssumption DEF TInv, TypeOK, CurIsMsg, PushesMsg, Pushing, duer_finalize
<1>5. CASE duer_add_resources
  BY <1>5, PostedType, BoundAssumption DEF TInv, TypeOK, CurIsMsg, PushesMsg, Pushing, duer_add_resources
<1>6. CASE \E t \in Reporters : duer_data_report(t) \/ duer_response(t)
  <2>1. PICK t \in Threads : duer_data_report(t) \/ duer_response(t)
    BY <1>6 DEF Threads
  <2>2. ThreadType' /\ PushesMsg'
    BY <2>1, BuildType DEF duer_data_report, duer_response
  <2>3. UNCHANGED <<loopVars, taskVars, caVars, queueVars, timer, app, sockVars, histVars>>
    BY <2>1 DEF duer_data_report, duer_response
  <2>4. QED  BY <2>2, <2>3 DEF TInv, TypeOK, CurIsMsg
<1> QED  BY <1>1, <1>2, <1>3, <1>4, <1>5, <1>6 DEF Application

\* The steps of duer_data_report and duer_response.
LEMMA CallType == ASSUME TInv, NEW t \in Threads, CallStep(t) PROVE TInv'
<1>1. CASE PushAccepted(t)
  <2>1. rmsg[t] \in Msgs
    BY <1>1 DEF TInv, PushesMsg, PushAccepted
  <2>2. QueueType' /\ HistType'
    BY <1>1, <2>1, AppendProperties DEF TInv, TypeOK, PushAccepted
  <2>3. ThreadType' /\ PushesMsg'
    BY <1>1 DEF TInv, TypeOK, PushesMsg, Pushing, PushAccepted
  <2>4. QED  BY <1>1, <2>2, <2>3 DEF TInv, TypeOK, CurIsMsg, PushAccepted
<1>2. CASE PushFailed(t)
  <2>1. rmsg[t] \in Msgs
    BY <1>2 DEF TInv, PushesMsg, PushFailed
  <2>2. HistType'
    BY <1>2, <2>1 DEF TInv, TypeOK, PushFailed
  <2>3. ThreadType' /\ PushesMsg'
    BY <1>2, LeaveType DEF PushFailed
  <2>4. QED  BY <1>2, <2>2, <2>3 DEF TInv, TypeOK, CurIsMsg, PushFailed
<1>3. CASE PushIntoFreed(t)
  <2>1. ThreadType' /\ PushesMsg'
    BY <1>3, LeaveType DEF PushIntoFreed
  <2>2. QED  BY <1>3, <2>1 DEF TInv, TypeOK, CurIsMsg, PushIntoFreed
<1>4. CASE CheckLength(t)
  BY <1>4 DEF TInv, TypeOK, CurIsMsg, PushesMsg, Pushing, CheckLength
<1>5. CASE PostSend(t)
  BY <1>5, PostedType DEF TInv, TypeOK, CurIsMsg, PushesMsg, Pushing, PostSend
<1>6. QED  BY <1>1, <1>2, <1>3, <1>4, <1>5 DEF CallStep

\* The timer task.
LEMMA TimerType == ASSUME TInv, TimerRestart \/ TimerAlive PROVE TInv'
<1>1. CASE TimerRestart
  BY <1>1, PostedType DEF TInv, TypeOK, CurIsMsg, PushesMsg, Pushing, TimerRestart
<1>2. CASE TimerAlive
  <2>1. ThreadType' /\ PushesMsg'
    BY <1>2, BuildType DEF TimerAlive, Threads
  <2>2. CaType'
    BY <1>2 DEF TInv, TypeOK, TimerAlive
  <2>3. QED  BY <1>2, <2>1, <2>2 DEF TInv, TypeOK, CurIsMsg, TimerAlive
<1> QED  BY <1>1, <1>2 DEF TimerRestart

\* The socket task.
LEMMA SocketType == ASSUME TInv, SockRecvReady \/ SockSendTimeout \/ SockStep PROVE TInv'
<1>1. CASE SockRecvReady
  BY <1>1, PostedType DEF TInv, TypeOK, CurIsMsg, PushesMsg, Pushing, SockRecvReady
<1>2. CASE SockSendTimeout
  <2>1. CaType' /\ SockType'
    BY <1>2 DEF TInv, TypeOK, SockSendTimeout
  <2>2. LoopType' /\ TaskType' /\ QueueType' /\ ThreadType' /\ HistType'
    BY <1>2 DEF TInv, TypeOK, SockSendTimeout
  <2>3. CurIsMsg' /\ PushesMsg'
    BY <1>2 DEF TInv, CurIsMsg, PushesMsg, Pushing, SockSendTimeout
  <2>4. QED  BY <2>1, <2>2, <2>3 DEF TInv, TypeOK
<1>3. CASE SockSendReady
  BY <1>3, PostedType DEF TInv, TypeOK, CurIsMsg, PushesMsg, Pushing, SockSendReady
<1>4. CASE SockClearBlocked
  <2>1. CaType' /\ SockType'
    BY <1>4 DEF TInv, TypeOK, SockClearBlocked
  <2>2. LoopType' /\ TaskType' /\ QueueType' /\ ThreadType' /\ HistType'
    BY <1>4 DEF TInv, TypeOK, SockClearBlocked
  <2>3. CurIsMsg' /\ PushesMsg'
    BY <1>4 DEF TInv, CurIsMsg, PushesMsg, Pushing, SockClearBlocked
  <2>4. QED  BY <2>1, <2>2, <2>3 DEF TInv, TypeOK
<1>5. CASE SockClearData
  <2>1. HistType'
    BY <1>5, QueuedMsgs DEF TInv, TypeOK, SockClearData
  <2>2. QED  BY <1>5, <2>1 DEF TInv, TypeOK, CurIsMsg, PushesMsg, Pushing, SockClearData
<1> QED  BY <1>1, <1>2, <1>3, <1>4, <1>5 DEF SockStep

\* The task takes an event.
LEMMA BeginType == ASSUME TInv, Begin PROVE TInv'
<1>1. CASE EvtCreate
  BY <1>1, TakenType DEF TInv, TypeOK, CurIsMsg, PushesMsg, Pushing, EvtCreate
<1>2. CASE EvtStartIgnored
  BY <1>2, TakenType DEF TInv, TypeOK, CurIsMsg, PushesMsg, Pushing, EvtStartIgnored
<1>3. CASE EvtStart
  BY <1>3, TakenType DEF TInv, TypeOK, CurIsMsg, PushesMsg, Pushing, EvtStart
<1>4. CASE EvtStartBadProfile
  BY <1>4, TakenType DEF TInv, TypeOK, CurIsMsg, PushesMsg, Pushing, EvtStartBadProfile
<1>5. CASE EvtRestart
  BY <1>5, TakenType DEF TInv, TypeOK, CurIsMsg, PushesMsg, Pushing, EvtRestart
<1>6. CASE EvtAvailStopped
  BY <1>6, TakenType DEF TInv, TypeOK, CurIsMsg, PushesMsg, Pushing, EvtAvailStopped
<1>7. CASE EvtAvailStarting
  BY <1>7, TakenType DEF TInv, TypeOK, CurIsMsg, PushesMsg, Pushing, EvtAvailStarting
<1>8. CASE EvtAvailStarted
  BY <1>8, TakenType DEF TInv, TypeOK, CurIsMsg, PushesMsg, Pushing, EvtAvailStarted
<1>9. CASE EvtAvailRequest
  <2>1. ThreadType' /\ PushesMsg'
    BY <1>9, BuildType DEF EvtAvailRequest, Threads
  <2>2. LoopType'
    BY <1>9, TakenType DEF TInv, TypeOK, EvtAvailRequest
  <2>3. QED  BY <1>9, <2>1, <2>2 DEF TInv, TypeOK, CurIsMsg, EvtAvailRequest
<1>10. CASE EvtSendStopped
  BY <1>10, TakenType DEF TInv, TypeOK, CurIsMsg, PushesMsg, Pushing, EvtSendStopped
<1>11. CASE EvtSendEmpty
  BY <1>11, TakenType DEF TInv, TypeOK, CurIsMsg, PushesMsg, Pushing, EvtSendEmpty
<1>12. CASE EvtSend
  BY <1>12, TakenType, TailMsgs DEF TInv, TypeOK, CurIsMsg, PushesMsg, Pushing, EvtSend
<1>13. CASE EvtAddResources
  BY <1>13, TakenType DEF TInv, TypeOK, CurIsMsg, PushesMsg, Pushing, EvtAddResources
<1>14. CASE EvtAddResourcesFailed
  <2>1. LoopType'
    BY <1>14, TakenType DEF TInv, TypeOK, EvtAddResourcesFailed
  <2>2. CaType' /\ SockType'
    BY <1>14 DEF TInv, TypeOK, EvtAddResourcesFailed
  <2>3. QED  BY <1>14, <2>1, <2>2
             DEF TInv, TypeOK, CurIsMsg, PushesMsg, Pushing, EvtAddResourcesFailed
<1>15. CASE EvtStop
  <2>1. LoopType'
    BY <1>15, TakenType DEF TInv, TypeOK, EvtStop
  <2>2. CaType' /\ SockType'
    BY <1>15 DEF TInv, TypeOK, EvtStop
  <2>3. QED  BY <1>15, <2>1, <2>2
             DEF TInv, TypeOK, CurIsMsg, PushesMsg, Pushing, EvtStop
<1>16. CASE EvtDestroy
  <2>1. LoopType'
    BY <1>16, TakenType DEF TInv, TypeOK, EvtDestroy
  <2>2. HistType'
    BY <1>16, QueuedMsgs DEF TInv, TypeOK, EvtDestroy
  <2>3. QueueType'
    BY <1>16 DEF TInv, TypeOK, EvtDestroy
  <2>4. QED  BY <1>16, <2>1, <2>2, <2>3
             DEF TInv, TypeOK, CurIsMsg, PushesMsg, Pushing, EvtDestroy
<1> QED  BY <1>1, <1>2, <1>3, <1>4, <1>5, <1>6, <1>7, <1>8, <1>9, <1>10, <1>11, <1>12, <1>13, <1>14, <1>15, <1>16 DEF Begin

\* The rounds of baidu_ca_run.
LEMMA RunType == ASSUME TInv, RunStep PROVE TInv'
<1>1. CASE RunRegistered
  BY <1>1 DEF TInv, TypeOK, CurIsMsg, PushesMsg, Pushing, RunRegistered
<1>2. CASE RunConnect
  <2>1. CaType' /\ SockType'
    BY <1>2 DEF TInv, TypeOK, RunConnect
  <2>2. LoopType' /\ TaskType' /\ QueueType' /\ ThreadType' /\ HistType'
    BY <1>2 DEF TInv, TypeOK, RunConnect
  <2>3. CurIsMsg' /\ PushesMsg'
    BY <1>2 DEF TInv, CurIsMsg, PushesMsg, Pushing, RunConnect
  <2>4. QED  BY <2>1, <2>2, <2>3 DEF TInv, TypeOK
<1>3. CASE RunSend
  <2>1. CaType' /\ SockType'
    BY <1>3 DEF TInv, TypeOK, RunSend
  <2>2. LoopType' /\ TaskType' /\ QueueType' /\ ThreadType' /\ HistType'
    BY <1>3 DEF TInv, TypeOK, RunSend
  <2>3. CurIsMsg' /\ PushesMsg'
    BY <1>3 DEF TInv, CurIsMsg, PushesMsg, Pushing, RunSend
  <2>4. QED  BY <2>1, <2>2, <2>3 DEF TInv, TypeOK
<1>4. CASE RunRecvContent
  BY <1>4 DEF TInv, TypeOK, CurIsMsg, PushesMsg, Pushing, RunRecvContent
<1>5. CASE RunRecvOther
  BY <1>5 DEF TInv, TypeOK, CurIsMsg, PushesMsg, Pushing, RunRecvOther
<1>6. CASE RunInitialized
  BY <1>6 DEF TInv, TypeOK, CurIsMsg, PushesMsg, Pushing, RunInitialized
<1>7. CASE RunEnd
  BY <1>7 DEF TInv, TypeOK, CurIsMsg, PushesMsg, Pushing, RunEnd
<1> QED  BY <1>1, <1>2, <1>3, <1>4, <1>5, <1>6, <1>7 DEF RunStep

\* The task goes on with its handler.
LEMMA ContinueType == ASSUME TInv, Continue PROVE TInv'
<1>1. CASE RunStep
  BY <1>1, RunType
<1>2. CASE FinishStart
  BY <1>2 DEF TInv, TypeOK, CurIsMsg, PushesMsg, Pushing, FinishStart
<1>3. CASE FinishAvail
  BY <1>3 DEF TInv, TypeOK, CurIsMsg, PushesMsg, Pushing, FinishAvail
<1>4. CASE CallbackReturn
  BY <1>4 DEF TInv, TypeOK, CurIsMsg, PushesMsg, Pushing, CallbackReturn
<1>5. CASE SendTaken
  BY <1>5, AppendProperties DEF TInv, TypeOK, CurIsMsg, PushesMsg, Pushing, SendTaken
<1>6. CASE SendBlocked
  BY <1>6 DEF TInv, TypeOK, CurIsMsg, PushesMsg, Pushing, SendBlocked
<1>7. CASE SendFailed
  BY <1>7 DEF TInv, TypeOK, CurIsMsg, PushesMsg, Pushing, SendFailed
<1>8. CASE Release
  BY <1>8 DEF TInv, TypeOK, CurIsMsg, PushesMsg, Pushing, Release
<1>9. CASE Pop
  <2>1. QueueType'
    BY <1>9, TailMsgs DEF TInv, TypeOK, Pop
  <2>2. QED  BY <1>9, <2>1 DEF TInv, TypeOK, CurIsMsg, PushesMsg, Pushing, Pop
<1>10. CASE Destroyed
  <2>1. CaType' /\ SockType'
    BY <1>10 DEF TInv, TypeOK, Destroyed
  <2>2. LoopType' /\ TaskType' /\ QueueType' /\ ThreadType' /\ HistType'
    BY <1>10 DEF TInv, TypeOK, Destroyed
  <2>3. CurIsMsg' /\ PushesMsg'
    BY <1>10 DEF TInv, CurIsMsg, PushesMsg, Pushing, Destroyed
  <2>4. QED  BY <2>1, <2>2, <2>3 DEF TInv, TypeOK
<1>11. CASE NotifyStarted
  BY <1>11 DEF TInv, TypeOK, CurIsMsg, PushesMsg, Pushing, NotifyStarted
<1>12. CASE NotifyNothing
  BY <1>12 DEF TInv, TypeOK, CurIsMsg, PushesMsg, Pushing, NotifyNothing
<1>13. CASE NotifySent
  BY <1>13, PostedType DEF TInv, TypeOK, CurIsMsg, PushesMsg, Pushing, NotifySent
<1>14. CASE NotifyFailed
  <2>1. CaType' /\ SockType'
    BY <1>14 DEF TInv, TypeOK, NotifyFailed
  <2>2. LoopType' /\ TaskType' /\ QueueType' /\ ThreadType' /\ HistType'
    BY <1>14 DEF TInv, TypeOK, NotifyFailed
  <2>3. CurIsMsg' /\ PushesMsg'
    BY <1>14 DEF TInv, CurIsMsg, PushesMsg, Pushing, NotifyFailed
  <2>4. QED  BY <2>1, <2>2, <2>3 DEF TInv, TypeOK
<1> QED  BY <1>1, <1>2, <1>3, <1>4, <1>5, <1>6, <1>7, <1>8, <1>9, <1>10, <1>11, <1>12, <1>13, <1>14 DEF Continue

-----------------------------------------------------------------------------

\* The start of the program.
LEMMA TInvInit == Init => TInv
<1>1. ASSUME Init PROVE TypeOK
  <2>1. LoopType
    <3>1. loop \in BOOLEAN
      BY <1>1 DEF Init
    <3>2. evq \in Seq(Events) /\ Len(evq) = 0
      BY <1>1, EmptySeq DEF Init
    <3>3. QED  BY <3>1, <3>2, BoundAssumption
  <2>2. TaskType /\ QueueType
    BY <1>1, EmptySeq DEF Init
  <2>3. CaType /\ SockType
    BY <1>1 DEF Init
  <2>4. ThreadType /\ HistType
    BY <1>1, EmptySeq, BoundAssumption DEF Init
  <2>5. QED  BY <2>1, <2>2, <2>3, <2>4 DEF TypeOK
<1>2. ASSUME Init PROVE CurIsMsg /\ PushesMsg
  BY <1>2 DEF Init, CurIsMsg, PushesMsg, Pushing
<1>3. QED  BY <1>1, <1>2 DEF TInv

\* Every step keeps TInv.
LEMMA TInvNext == TInv /\ [Next]_vars => TInv'
<1> SUFFICES ASSUME TInv, [Next]_vars PROVE TInv'
  OBVIOUS
<1>1. CASE Application
  BY <1>1, ApplicationType
<1>2. CASE TaskStep
  BY <1>2, BeginType, ContinueType DEF TaskStep
<1>3. CASE TimerRestart \/ TimerAlive
  BY <1>3, TimerType
<1>4. CASE SockRecvReady \/ SockSendTimeout \/ SockStep
  BY <1>4, SocketType
<1>5. CASE \E t \in Threads : CallStep(t)
  BY <1>5, CallType
<1>6. CASE UNCHANGED vars
  BY <1>6 DEF TInv, TypeOK, CurIsMsg, PushesMsg, Pushing, vars
<1>7. QED  BY <1>1, <1>2, <1>3, <1>4, <1>5, <1>6 DEF Next

\* TInv holds throughout; the other proofs rest on it.
THEOREM TInvAlways == Spec => []TInv
BY TInvInit, TInvNext, PTL DEF Spec

\* Type correctness: whatever the threads, timers and the peer do, every
\* variable of the connection agent stays in its type and no event queue ever
\* holds more than QUEUE_LENGTH events (duer_events_call_internal).
THEOREM TypeCorrect == Spec => []TypeOK
<1>1. TInv => TypeOK
  BY DEF TInv
<1>2. QED  BY <1>1, TInvAlways, PTL

-----------------------------------------------------------------------------
(* The report queue                                                        *)

\* The event task is inside duer_engine_send with a message of the queue.
Sending == {"sending", "release", "pop"}
Closing == {"destroy", "deleted"}

\* The ports the proofs are about.
NoTimeout == "send_timeout" \notin Faults

\* The head of the queue is already sent, and only waits to be popped.
InFlight == IF pc \in {"release", "pop"} THEN 1 ELSE 0

\* FIFO: what is queued is what was accepted and not sent, in the same order;
\* the queue is only used while it lives, and the event task's message heads it.
FifoInv ==
    /\ spc # "clear_data"
    /\ pc \in Sending => queue # <<>> /\ cur = Head(queue)
    /\ qcache = "freed" => pc = "destroy"
    /\ qcache # "live" => queue = <<>>
    /\ pc \in Closing => qcache # "live"
    /\ pc \notin Closing =>
           /\ Len(accepted) + InFlight = Len(sent) + Len(queue)
           /\ InFlight <= Len(sent)
           /\ \A i \in 1 .. Len(queue) : queue[i] = accepted[Len(sent) - InFlight + i]

-----------------------------------------------------------------------------
(* Steps that leave the queue alone. *)

USE DEF loopVars, taskVars, caVars, queueVars, sockVars, threadVars, histVars,
        Sending, Closing

\* Another thread or task moves, and neither pushes nor clears.
LEMMA FifoKept ==
    ASSUME FifoInv, UNCHANGED <<taskVars, queueVars, accepted, sent>>, spc' # "clear_data"
    PROVE  FifoInv'
BY DEF FifoInv, InFlight

\* The event task moves, outside duer_engine_send and duer_engine_destroy.
LEMMA FifoElsewhere ==
    ASSUME FifoInv, UNCHANGED <<queueVars, accepted, sent, spc>>,
           pc \notin Sending \cup Closing, pc' \notin Sending \cup Closing
    PROVE  FifoInv'
BY DEF FifoInv, InFlight

-----------------------------------------------------------------------------
(* The steps of the threads and of the other tasks. *)

\* A push appends to what is accepted and to what is queued.
LEMMA FifoPush ==
    ASSUME TInv, FifoInv, NEW t \in Threads, PushAccepted(t)
    PROVE  FifoInv'
<1>1. /\ queue' = Append(queue, rmsg[t]) /\ accepted' = Append(accepted, rmsg[t])
      /\ UNCHANGED <<taskVars, spc, sent, qcache>> /\ qcache = "live"
  BY DEF PushAccepted
<1>2. queue \in Seq(Msgs) /\ accepted \in Seq(Msgs) /\ sent \in Seq(Msgs) /\ rmsg[t] \in Msgs
  BY DEF TInv, TypeOK, QueueType, HistType, PushesMsg, PushAccepted
<1>3. pc \notin Closing
  BY <1>1 DEF FifoInv
<1>4. Len(queue') = Len(queue) + 1 /\ Len(accepted') = Len(accepted) + 1
  BY <1>1, <1>2, AppendProperties
<1>5. \A i \in 1 .. Len(queue) : queue'[i] = queue[i]
  BY <1>1, <1>2, AppendProperties
<1>6. \A i \in 1 .. Len(accepted) : accepted'[i] = accepted[i]
  BY <1>1, <1>2, AppendProperties
<1>7. queue'[Len(queue) + 1] = accepted'[Len(accepted) + 1]
  BY <1>1, <1>2, AppendProperties
<1>8. Len(queue) \in Nat /\ Len(accepted) \in Nat /\ Len(sent) \in Nat
  BY <1>2, LenProperties
<1>9. PICK d \in Nat : /\ d = Len(sent) - InFlight /\ Len(accepted) = d + Len(queue)
                      /\ \A i \in 1 .. Len(queue) : queue[i] = accepted[d + i]
  <2>1. Len(sent) - InFlight \in Nat
    BY <1>3, <1>8 DEF FifoInv, InFlight
  <2>2. Len(accepted) = (Len(sent) - InFlight) + Len(queue)
    BY <1>3, <1>8 DEF FifoInv, InFlight
  <2>3. \A i \in 1 .. Len(queue) : queue[i] = accepted[Len(sent) - InFlight + i]
    BY <1>3 DEF FifoInv
  <2>4. QED  BY <2>1, <2>2, <2>3
<1>10. \A i \in 1 .. Len(queue') : queue'[i] = accepted'[d + i]
  <2>1. SUFFICES ASSUME NEW i \in 1 .. Len(queue') PROVE queue'[i] = accepted'[d + i]
    OBVIOUS
  <2>2. CASE i \in 1 .. Len(queue)
    BY <2>2, <1>5, <1>6, <1>8, <1>9
  <2>3. CASE i = Len(queue) + 1
    BY <2>3, <1>7, <1>8, <1>9
  <2>4. QED  BY <2>2, <2>3, <1>4, <1>8
<1>11. pc \in Sending => queue' # <<>> /\ cur = Head(queue')
  BY <1>1, <1>2, AppendProperties, HeadTailProperties DEF FifoInv
<1>12. InFlight' = InFlight /\ InFlight \in Nat
  BY <1>1 DEF InFlight
<1>13. /\ Len(accepted') + InFlight = Len(sent) + Len(queue')
       /\ InFlight <= Len(sent)
  BY <1>4, <1>8, <1>9, <1>12
<1>14. spc # "clear_data" /\ pc \notin Closing
  BY <1>3 DEF FifoInv
<1>15. QED
  BY <1>1, <1>9, <1>10, <1>11, <1>12, <1>13, <1>14 DEF FifoInv

\* The other tasks, and the rest of the threads' calls.
LEMMA FifoOthers ==
    ASSUME TInv, FifoInv, NoTimeout,
           \/ Application \/ TimerRestart \/ TimerAlive
           \/ SockRecvReady \/ SockSendTimeout \/ SockStep
           \/ \E t \in Threads : CallStep(t)
    PROVE  FifoInv'
<1>1. CASE Application
  BY <1>1, FifoKept
     DEF Application, Control, duer_initialize, duer_start, duer_stop, duer_finalize,
         duer_add_resources, duer_data_report, duer_response, FifoInv
<1>2. CASE TimerRestart \/ TimerAlive \/ SockRecvReady \/ SockStep \/ SockSendTimeout
  BY <1>2, FifoKept
     DEF TimerRestart, TimerAlive, SockRecvReady, SockStep, SockSendReady,
         SockClearBlocked, SockClearData, SockSendTimeout, FifoInv, NoTimeout
<1>3. CASE \E t \in Threads : CallStep(t)
  <2>1. PICK t \in Threads : CallStep(t)
    BY <1>3
  <2>2. CASE PushAccepted(t)
    BY <2>2, FifoPush
  <2>3. CASE ~PushAccepted(t)
    BY <2>1, <2>3, FifoKept
       DEF CallStep, PushFailed, PushIntoFreed, CheckLength, PostSend, FifoInv
  <2>4. QED  BY <2>2, <2>3
<1>4. QED  BY <1>1, <1>2, <1>3

-----------------------------------------------------------------------------
(* The steps of the event task. *)

LEMMA FifoBegin == ASSUME TInv, FifoInv, Begin PROVE FifoInv'
<1> USE DEF Take
<1>1. CASE EvtCreate \/ EvtStart \/ EvtStartBadProfile
  BY <1>1 DEF EvtCreate, EvtStart, EvtStartBadProfile, MakeQueueAndTimer, BeginRun,
              FifoInv, InFlight
<1>2. CASE EvtStartIgnored \/ EvtRestart
  BY <1>2, FifoElsewhere DEF EvtStartIgnored, EvtRestart, BeginRun
<1>3. CASE EvtAvailStopped \/ EvtAvailStarting \/ EvtAvailStarted \/ EvtAvailRequest
  BY <1>3, FifoElsewhere
     DEF EvtAvailStopped, EvtAvailStarting, EvtAvailStarted, EvtAvailRequest, Goto
<1>4. CASE EvtSendStopped \/ EvtSendEmpty
  BY <1>4, FifoElsewhere DEF EvtSendStopped, EvtSendEmpty, Goto
<1>5. CASE EvtSend
  BY <1>5 DEF EvtSend, FifoInv, InFlight
<1>6. CASE EvtAddResources \/ EvtAddResourcesFailed \/ EvtStop
  BY <1>6, FifoElsewhere DEF EvtAddResources, EvtAddResourcesFailed, EvtStop, StopEngine
<1>7. CASE EvtDestroy
  BY <1>7 DEF EvtDestroy, FifoInv, InFlight
<1>8. QED  BY <1>1, <1>2, <1>3, <1>4, <1>5, <1>6, <1>7 DEF Begin

\* The transport takes the head of the queue.
LEMMA FifoSend == ASSUME TInv, FifoInv, SendTaken PROVE FifoInv'
<1>1. /\ sent' = Append(sent, cur) /\ pc = "sending" /\ pc' = "release"
      /\ UNCHANGED <<cur, queueVars, accepted, spc>>
  BY DEF SendTaken, Goto
<1>2. sent \in Seq(Msgs) /\ cur \in Msgs /\ queue \in Seq(Msgs) /\ accepted \in Seq(Msgs)
  BY <1>1 DEF TInv, TypeOK, HistType, QueueType, CurIsMsg
<1>3. Len(sent') = Len(sent) + 1
  BY <1>1, <1>2, AppendProperties
<1>4. Len(queue) \in Nat /\ Len(accepted) \in Nat /\ Len(sent) \in Nat
  BY <1>2, LenProperties
<1>5. InFlight = 0 /\ InFlight' = 1
  BY <1>1 DEF InFlight
<1>6. \A i \in 1 .. Len(queue) : queue[i] = accepted[Len(sent) - 0 + i]
  BY <1>1, <1>5 DEF FifoInv
<1>7. \A i \in 1 .. Len(queue) : queue[i] = accepted[Len(sent') - InFlight' + i]
  BY <1>3, <1>4, <1>5, <1>6
<1>8. /\ Len(accepted) + InFlight' = Len(sent') + Len(queue)
      /\ InFlight' <= Len(sent')
  <2>1. Len(accepted) + 0 = Len(sent) + Len(queue)
    BY <1>1, <1>5 DEF FifoInv
  <2>2. QED  BY <2>1, <1>3, <1>4, <1>5
<1>9. spc # "clear_data" /\ qcache = "live" /\ queue # <<>> /\ cur = Head(queue)
  BY <1>1 DEF FifoInv
<1>10. QED  BY <1>1, <1>7, <1>8, <1>9 DEF FifoInv

\* The head of the queue, sent and released, is popped.
LEMMA FifoPop == ASSUME TInv, FifoInv, Pop PROVE FifoInv'
<1>1. /\ queue # <<>> /\ queue' = Tail(queue) /\ pc = "pop" /\ pc' = "notify_send"
      /\ UNCHANGED <<qcache, accepted, sent, spc>>
  BY DEF Pop, Goto, FifoInv
<1>2. sent \in Seq(Msgs) /\ queue \in Seq(Msgs) /\ accepted \in Seq(Msgs)
  BY DEF TInv, TypeOK, HistType, QueueType
<1>3. /\ Len(queue') = Len(queue) - 1
      /\ \A i \in 1 .. Len(queue') : queue'[i] = queue[i + 1]
  BY <1>1, <1>2, HeadTailProperties
<1>4. Len(queue) \in Nat /\ Len(accepted) \in Nat /\ Len(sent) \in Nat /\ Len(queue) # 0
  BY <1>1, <1>2, LenProperties, EmptySeq
<1>5. InFlight = 1 /\ InFlight' = 0
  BY <1>1 DEF InFlight
<1>6. \A i \in 1 .. Len(queue) : queue[i] = accepted[Len(sent) - 1 + i]
  BY <1>1, <1>5 DEF FifoInv
<1>7. \A i \in 1 .. Len(queue') : queue'[i] = accepted[Len(sent) - InFlight' + i]
  <2>1. SUFFICES ASSUME NEW i \in 1 .. Len(queue')
                 PROVE  queue'[i] = accepted[Len(sent) + i]
    BY <1>4, <1>5
  <2>2. i + 1 \in 1 .. Len(queue) /\ Len(sent) - 1 + (i + 1) = Len(sent) + i
    BY <1>3, <1>4
  <2>3. QED  BY <1>3, <1>6, <2>2
<1>8. qcache = "live"
  BY <1>1 DEF FifoInv
<1>9. Len(accepted) = Len(sent) + Len(queue')
  BY <1>1, <1>3, <1>4, <1>5 DEF FifoInv
<1>10. QED  BY <1>1, <1>4, <1>5, <1>7, <1>8, <1>9 DEF FifoInv

LEMMA FifoContinue == ASSUME TInv, FifoInv, Continue PROVE FifoInv'
<1> USE DEF Goto, Return
<1>1. CASE RunStep
  BY <1>1, FifoElsewhere
     DEF RunStep, RunRegistered, RunConnect, RunSend, RunRecvContent, RunRecvOther,
         RunInitialized, RunEnd, ExitRun, RunUnchanged
<1>2. CASE FinishStart \/ FinishAvail \/ CallbackReturn
  BY <1>2, FifoElsewhere DEF FinishStart, FinishAvail, CallbackReturn
<1>3. CASE SendTaken
  BY <1>3, FifoSend
<1>4. CASE SendBlocked \/ SendFailed
  BY <1>4 DEF SendBlocked, SendFailed, FifoInv, InFlight
<1>5. CASE Release
  BY <1>5 DEF Release, FifoInv, InFlight
<1>6. CASE Pop
  BY <1>6, FifoPop
<1>7. CASE Destroyed
  BY <1>7 DEF Destroyed, FifoInv, InFlight
<1>8. CASE NotifyStarted \/ NotifyNothing \/ NotifySent \/ NotifyFailed
  BY <1>8, FifoElsewhere
     DEF NotifyStarted, NotifyNothing, NotifySent, NotifyFailed, NotifyUnchanged, StopEngine
<1>9. QED
  BY <1>1, <1>2, <1>3, <1>4, <1>5, <1>6, <1>7, <1>8 DEF Continue

\* Every step keeps FifoInv.
LEMMA FifoNext == TInv /\ FifoInv /\ NoTimeout /\ [Next]_vars => FifoInv'
<1>1. ASSUME FifoInv, UNCHANGED vars PROVE FifoInv'
  BY <1>1, FifoKept DEF vars, FifoInv
<1>2. QED
  BY <1>1, FifoBegin, FifoContinue, FifoOthers DEF Next, TaskStep

\* FifoInv holds throughout.
THEOREM FifoAlways == ASSUME NoTimeout PROVE Spec => []FifoInv
<1>1. Init => FifoInv
  BY EmptySeq DEF Init, FifoInv, InFlight
<1>2. TInv /\ FifoInv /\ [Next]_vars => FifoInv'
  BY FifoNext
<1>3. QED  BY <1>1, <1>2, TInvAlways, PTL DEF Spec

-----------------------------------------------------------------------------
(* The refinement: each step delivers, accepts, closes or stutters. *)

\* A step that neither pushes nor sends nor destroys does not show outside.
LEMMA OutboxStutters ==
    ASSUME UNCHANGED <<accepted, sent>>, pc \notin Closing, pc' \notin Closing
    PROVE  UNCHANGED Box!ovars
BY DEF Box!ovars

\* The steps of the event task.
LEMMA OutboxTask ==
    ASSUME TInv, FifoInv, TaskStep PROVE Box!ONext \/ UNCHANGED Box!ovars
<1> USE DEF Take, Goto, Return
<1>1. CASE EvtDestroy
  BY <1>1 DEF EvtDestroy, Box!ONext, Box!Close
<1>2. CASE Begin /\ ~EvtDestroy
  BY <1>2, OutboxStutters
     DEF Begin, EvtCreate, EvtStartIgnored, EvtStart, EvtStartBadProfile, EvtRestart,
         EvtAvailStopped, EvtAvailStarting, EvtAvailStarted, EvtAvailRequest,
         EvtSendStopped, EvtSendEmpty, EvtSend, EvtAddResources, EvtAddResourcesFailed,
         EvtStop, BeginRun
<1>3. CASE RunStep
  BY <1>3, OutboxStutters
     DEF RunStep, RunRegistered, RunConnect, RunSend, RunRecvContent, RunRecvOther,
         RunInitialized, RunEnd, ExitRun, RunUnchanged
<1>4. CASE FinishStart \/ FinishAvail \/ CallbackReturn
  BY <1>4, OutboxStutters DEF FinishStart, FinishAvail, CallbackReturn
<1>5. CASE SendTaken
  <2>1. /\ sent' = Append(sent, cur) /\ pc = "sending" /\ pc' = "release"
        /\ accepted' = accepted
    BY <1>5 DEF SendTaken
  <2>2. /\ queue \in Seq(Msgs) /\ queue # <<>> /\ cur = Head(queue)
        /\ Len(sent) \in Nat /\ Len(accepted) \in Nat
    BY <2>1, LenProperties DEF TInv, TypeOK, QueueType, HistType, FifoInv
  <2>3. 1 \in 1 .. Len(queue) /\ Head(queue) = queue[1]
    BY <2>2, HeadTailProperties, LenProperties, EmptySeq
  <2>4. /\ Len(accepted) + 0 = Len(sent) + Len(queue)
        /\ queue[1] = accepted[Len(sent) - 0 + 1]
    BY <2>1, <2>3 DEF FifoInv, InFlight
  <2>5. Len(sent) < Len(accepted) /\ cur = accepted[Len(sent) + 1]
    BY <2>2, <2>3, <2>4, LenProperties
  <2>6. QED  BY <2>1, <2>5 DEF Box!ONext, Box!Deliver
<1>6. CASE SendBlocked \/ SendFailed \/ Release \/ Pop
  BY <1>6, OutboxStutters DEF SendBlocked, SendFailed, Release, Pop
<1>7. CASE Destroyed
  BY <1>7 DEF Destroyed, Box!ovars
<1>8. CASE NotifyStarted \/ NotifyNothing \/ NotifySent \/ NotifyFailed
  BY <1>8, OutboxStutters
     DEF NotifyStarted, NotifyNothing, NotifySent, NotifyFailed, NotifyUnchanged
<1>9. QED
  BY <1>1, <1>2, <1>3, <1>4, <1>5, <1>6, <1>7, <1>8 DEF TaskStep, Continue

\* The steps of everybody else.
LEMMA OutboxOthers ==
    ASSUME TInv, FifoInv,
           \/ Application \/ TimerRestart \/ TimerAlive
           \/ SockRecvReady \/ SockSendTimeout \/ SockStep
           \/ \E t \in Threads : CallStep(t)
    PROVE  Box!ONext \/ UNCHANGED Box!ovars
<1>1. CASE Application
  BY <1>1 DEF Application, Control, duer_initialize, duer_start, duer_stop, duer_finalize,
              duer_add_resources, duer_data_report, duer_response, Box!ovars
<1>2. CASE TimerRestart \/ TimerAlive \/ SockRecvReady \/ SockStep \/ SockSendTimeout
  BY <1>2 DEF TimerRestart, TimerAlive, SockRecvReady, SockStep, SockSendReady,
              SockClearBlocked, SockClearData, SockSendTimeout, Box!ovars
<1>3. CASE \E t \in Threads : CallStep(t)
  <2>1. PICK t \in Threads : CallStep(t)
    BY <1>3
  <2>2. CASE PushAccepted(t)
    <3>1. /\ accepted' = Append(accepted, rmsg[t]) /\ rmsg[t] \in Msgs
          /\ pc \notin Closing /\ UNCHANGED <<pc, sent>>
      BY <2>2 DEF PushAccepted, TInv, PushesMsg, FifoInv
    <3>2. QED  BY <3>1 DEF Box!ONext, Box!Accept
  <2>3. CASE ~PushAccepted(t)
    BY <2>1, <2>3 DEF CallStep, PushFailed, PushIntoFreed, CheckLength, PostSend, Box!ovars
  <2>4. QED  BY <2>2, <2>3
<1>4. QED  BY <1>1, <1>2, <1>3

\* The report queue implements the FIFO outbox: whatever the threads, the
\* transport and the engine do, duer_engine_send hands every accepted message
\* to the transport at most once, in order and without gaps.
THEOREM OutboxRefined == ASSUME NoTimeout PROVE Spec => FifoOutbox
<1>1. Init => Box!OInit
  BY DEF Init, Box!OInit
<1>2. TInv /\ FifoInv /\ [Next]_vars => [Box!ONext]_(Box!ovars)
  <2>1. UNCHANGED vars => UNCHANGED Box!ovars
    BY DEF vars, Box!ovars
  <2>2. QED  BY <2>1, OutboxTask, OutboxOthers DEF Next
<1>3. QED
  BY <1>1, <1>2, TInvAlways, FifoAlways, PTL DEF Spec, FifoOutbox, Box!OSpec

-----------------------------------------------------------------------------
(* The owners of the messages *)

\* Between Release and Pop the head of the queue is released already.
Doomed == IF pc = "pop" THEN {cur} ELSE {}

MemoryFaults == {"double_free", "use_after_free", "lost_message"}
Made == 1 .. nextMsg - 1

\* A message is in one place, and no two places hold the same one.
OwnInv ==
    /\ Held \subseteq Made /\ Queued \subseteq Made /\ freed \subseteq Made
    /\ Held \cap Queued = {} /\ Held \cap freed = {} /\ Queued \cap freed = Doomed
    /\ pc \notin Closing => Made \subseteq Held \cup Queued \cup freed
    /\ \A i, j \in DOMAIN queue : queue[i] = queue[j] => i = j
    /\ \A t, u \in Threads : rmsg[t] # NoMsg /\ rmsg[t] = rmsg[u] => t = u
    /\ \A t \in Threads : Pushing(t) <=> rmsg[t] # NoMsg
    /\ pc # "deleted" /\ Held # {} => ca # "NULL"
    /\ faults \cap MemoryFaults = {}

-----------------------------------------------------------------------------
(* How the owners change. *)

\* A thread builds a message of its own.
LEMMA HeldBuild ==
    ASSUME TInv, OwnInv, NEW t \in Threads, NEW kind \in {"push_report", "push_response"},
           Build(t, kind)
    PROVE  /\ Held' = Held \cup {nextMsg}
           /\ \A s, u \in Threads : rmsg'[s] # NoMsg /\ rmsg'[s] = rmsg'[u] => s = u
           /\ \A s \in Threads : Pushing(s)' <=> rmsg'[s] # NoMsg
<1>1. /\ rmsg \in [Threads -> Msgs \cup {NoMsg}] /\ nextMsg \in Msgs /\ nextMsg # NoMsg
      /\ rpc \in [Threads -> {"idle", "push_report", "push_response", "check", "post"}]
  BY BoundAssumption DEF TInv, TypeOK, ThreadType, Msgs, NoMsg, Build
<1>2. rmsg[t] = NoMsg
  BY DEF OwnInv, Pushing, Build
<1>3. rmsg' = [rmsg EXCEPT ![t] = nextMsg] /\ rpc' = [rpc EXCEPT ![t] = kind]
  BY DEF Build
<1>4. \A s \in Threads : rmsg[s] # nextMsg
  BY <1>1 DEF OwnInv, Held, Made, Msgs
<1>5. Held' = Held \cup {nextMsg}
  BY <1>1, <1>2, <1>3 DEF Held
<1>6. \A s, u \in Threads : rmsg'[s] # NoMsg /\ rmsg'[s] = rmsg'[u] => s = u
  BY <1>1, <1>3, <1>4 DEF OwnInv
<1>7. \A s \in Threads : Pushing(s)' <=> rmsg'[s] # NoMsg
  BY <1>1, <1>3 DEF OwnInv, Pushing
<1>8. QED  BY <1>5, <1>6, <1>7

\* A thread gives its message away.
LEMMA HeldGiven ==
    ASSUME TInv, OwnInv, NEW t \in Threads, Pushing(t),
           rmsg' = [rmsg EXCEPT ![t] = NoMsg],
           NEW p \in {"idle", "check", "post"}, rpc' = [rpc EXCEPT ![t] = p]
    PROVE  /\ Held' = Held \ {rmsg[t]} /\ rmsg[t] \in Held
           /\ \A s, u \in Threads : rmsg'[s] # NoMsg /\ rmsg'[s] = rmsg'[u] => s = u
           /\ \A s \in Threads : Pushing(s)' <=> rmsg'[s] # NoMsg
<1>1. /\ rmsg \in [Threads -> Msgs \cup {NoMsg}] /\ rmsg[t] # NoMsg
      /\ rpc \in [Threads -> {"idle", "push_report", "push_response", "check", "post"}]
  BY DEF TInv, TypeOK, ThreadType, OwnInv
<1>2. rmsg[t] \in Held
  BY <1>1 DEF Held
<1>3. \A s \in Threads : s # t => rmsg[s] # rmsg[t]
  BY <1>1 DEF OwnInv
<1>4. Held' = Held \ {rmsg[t]}
  BY <1>1, <1>3 DEF Held
<1>5. \A s, u \in Threads : rmsg'[s] # NoMsg /\ rmsg'[s] = rmsg'[u] => s = u
  BY <1>1 DEF OwnInv
<1>6. \A s \in Threads : Pushing(s)' <=> rmsg'[s] # NoMsg
  BY <1>1 DEF OwnInv, Pushing
<1>7. QED  BY <1>2, <1>4, <1>5, <1>6

\* The queue takes a message that it does not hold.
LEMMA QueuedPush ==
    ASSUME queue \in Seq(Msgs), NEW m \in Msgs, m \notin Queued,
           queue' = Append(queue, m),
           \A i, j \in DOMAIN queue : queue[i] = queue[j] => i = j
    PROVE  /\ Queued' = Queued \cup {m}
           /\ \A i, j \in DOMAIN queue' : queue'[i] = queue'[j] => i = j
<1>1. /\ Len(queue) \in Nat /\ DOMAIN queue = 1 .. Len(queue)
      /\ DOMAIN queue' = 1 .. Len(queue) + 1
      /\ \A i \in DOMAIN queue : queue'[i] = queue[i]
      /\ queue'[Len(queue) + 1] = m
  BY AppendProperties, LenProperties
<1>2. Queued' = Queued \cup {m}
  BY <1>1 DEF Queued
<1>3. \A i \in DOMAIN queue : queue[i] # m
  BY DEF Queued
<1>4. \A i, j \in DOMAIN queue' : queue'[i] = queue'[j] => i = j
  BY <1>1, <1>3
<1>5. QED  BY <1>2, <1>4

\* The queue loses its head, and only its head.
LEMMA QueuedPop ==
    ASSUME queue \in Seq(Msgs), queue # <<>>, queue' = Tail(queue),
           \A i, j \in DOMAIN queue : queue[i] = queue[j] => i = j
    PROVE  /\ Queued' = Queued \ {Head(queue)}
           /\ \A i, j \in DOMAIN queue' : queue'[i] = queue'[j] => i = j
<1>1. /\ Len(queue) \in Nat \ {0} /\ DOMAIN queue = 1 .. Len(queue)
      /\ DOMAIN queue' = 1 .. Len(queue) - 1
      /\ \A i \in DOMAIN queue' : queue'[i] = queue[i + 1]
      /\ Head(queue) = queue[1]
  BY HeadTailProperties, LenProperties, EmptySeq
<1>2. \A i \in DOMAIN queue' : i + 1 \in DOMAIN queue /\ i + 1 # 1
  BY <1>1
<1>3. \A i \in DOMAIN queue : i # 1 => i - 1 \in DOMAIN queue' /\ queue'[i - 1] = queue[i]
  BY <1>1
<1>4. Queued' \subseteq Queued \ {Head(queue)}
  BY <1>1, <1>2 DEF Queued
<1>5. Queued \ {Head(queue)} \subseteq Queued'
  BY <1>1, <1>3 DEF Queued
<1>6. \A i, j \in DOMAIN queue' : queue'[i] = queue'[j] => i = j
  <2>1. SUFFICES ASSUME NEW i \in DOMAIN queue', NEW j \in DOMAIN queue',
                        queue'[i] = queue'[j]
                 PROVE  i = j
    OBVIOUS
  <2>2. queue'[i] = queue[i + 1] /\ queue'[j] = queue[j + 1]
    BY <1>1
  <2>3. i + 1 \in DOMAIN queue /\ j + 1 \in DOMAIN queue
    BY <1>2
  <2>4. i + 1 = j + 1
    BY <2>1, <2>2, <2>3
  <2>5. QED  BY <2>4, <1>1
<1>7. QED  BY <1>4, <1>5, <1>6

-----------------------------------------------------------------------------
(* The steps. *)

USE DEF loopVars, taskVars, caVars, queueVars, sockVars, threadVars, histVars,
        Sending, Closing

\* Steps that move no message and commit no memory fault.
LEMMA OwnKept ==
    ASSUME OwnInv, UNCHANGED <<queue, rmsg, nextMsg, freed>>,
           \A t \in Threads : Pushing(t)' <=> Pushing(t),
           faults' \cap MemoryFaults = faults \cap MemoryFaults,
           Doomed' = Doomed, pc \in Closing => pc' \in Closing,
           pc = "deleted" => pc' = "deleted",
           ca' = "NULL" => ca = "NULL" \/ pc' = "deleted"
    PROVE  OwnInv'
BY DEF OwnInv, Held, Queued, Made

\* A new message: its number was not in use.
LEMMA OwnBuild ==
    ASSUME TInv, OwnInv, NEW t \in Threads, NEW kind \in {"push_report", "push_response"},
           Build(t, kind), UNCHANGED <<queue, freed, faults, ca>>, Doomed' = Doomed,
           pc \in Closing => pc' \in Closing, pc' = "deleted" => pc = "deleted"
    PROVE  OwnInv'
<1>1. /\ Held' = Held \cup {nextMsg}
      /\ \A s, u \in Threads : rmsg'[s] # NoMsg /\ rmsg'[s] = rmsg'[u] => s = u
      /\ \A s \in Threads : Pushing(s)' <=> rmsg'[s] # NoMsg
  BY HeldBuild
<1>2. Made' = Made \cup {nextMsg} /\ nextMsg \notin Made /\ nextMsg' = nextMsg + 1 /\ ca # "NULL"
  BY BoundAssumption DEF Build, Made, TInv, TypeOK, ThreadType
<1>3. Queued' = Queued
  BY DEF Queued
<1>4. /\ Held' \subseteq Made' /\ Queued' \subseteq Made' /\ freed' \subseteq Made'
      /\ Held' \cap Queued' = {} /\ Held' \cap freed' = {} /\ Queued' \cap freed' = Doomed'
      /\ pc' \notin Closing => Made' \subseteq Held' \cup Queued' \cup freed'
  BY <1>1, <1>2, <1>3 DEF OwnInv
<1>5. QED  BY <1>1, <1>2, <1>4 DEF OwnInv

\* A push moves the message from the thread to the queue.
LEMMA OwnPush ==
    ASSUME TInv, OwnInv, NEW t \in Threads, PushAccepted(t) PROVE OwnInv'
<1>1. /\ Pushing(t) /\ queue' = Append(queue, rmsg[t])
      /\ rmsg' = [rmsg EXCEPT ![t] = NoMsg]
      /\ UNCHANGED <<pc, cur, ca, nextMsg, freed, faults>>
  BY DEF PushAccepted
<1>2. PICK p \in {"idle", "check", "post"} : rpc' = [rpc EXCEPT ![t] = p]
  BY DEF PushAccepted
<1>3. /\ Held' = Held \ {rmsg[t]} /\ rmsg[t] \in Held
      /\ \A s, u \in Threads : rmsg'[s] # NoMsg /\ rmsg'[s] = rmsg'[u] => s = u
      /\ \A s \in Threads : Pushing(s)' <=> rmsg'[s] # NoMsg
  BY <1>1, <1>2, HeldGiven
<1>4. queue \in Seq(Msgs) /\ rmsg[t] \in Msgs /\ rmsg[t] \notin Queued
  BY <1>1, <1>3 DEF TInv, TypeOK, QueueType, PushesMsg, OwnInv
<1>5. /\ Queued' = Queued \cup {rmsg[t]}
      /\ \A i, j \in DOMAIN queue' : queue'[i] = queue'[j] => i = j
  BY <1>1, <1>4, QueuedPush DEF OwnInv
<1>6. Made' = Made /\ Doomed' = Doomed
  BY <1>1 DEF Made, Doomed
<1>7. /\ Held' \subseteq Made' /\ Queued' \subseteq Made' /\ freed' \subseteq Made'
      /\ Held' \cap Queued' = {} /\ Held' \cap freed' = {} /\ Queued' \cap freed' = Doomed'
      /\ pc' \notin Closing => Made' \subseteq Held' \cup Queued' \cup freed'
      /\ Held' # {} => Held # {}
  BY <1>1, <1>3, <1>5, <1>6 DEF OwnInv
<1>8. QED  BY <1>1, <1>3, <1>5, <1>7 DEF OwnInv

\* A refused message is released by the thread that pushed it; it is lost only
\* when the agent is gone.
LEMMA OwnRefused ==
    ASSUME TInv, FifoInv, OwnInv, NEW t \in Threads, PushFailed(t) \/ PushIntoFreed(t)
    PROVE  OwnInv'
<1>1. /\ Pushing(t) /\ rmsg' = [rmsg EXCEPT ![t] = NoMsg]
      /\ rpc' = [rpc EXCEPT ![t] = "idle"]
      /\ UNCHANGED <<pc, cur, ca, queue, nextMsg>>
      /\ freed' = freed \cup {rmsg[t]} \/ (freed' = freed /\ (ca = "NULL" \/ qcache = "freed"))
      /\ faults' \in {faults, faults \cup {"push_into_freed_queue"}}
  BY DEF PushFailed, PushIntoFreed, Leave, Fault
<1>2. /\ Held' = Held \ {rmsg[t]} /\ rmsg[t] \in Held
      /\ \A s, u \in Threads : rmsg'[s] # NoMsg /\ rmsg'[s] = rmsg'[u] => s = u
      /\ \A s \in Threads : Pushing(s)' <=> rmsg'[s] # NoMsg
  BY <1>1, HeldGiven
<1>3. Made' = Made /\ Doomed' = Doomed /\ Queued' = Queued
  BY <1>1 DEF Made, Doomed, Queued
<1>4. freed' = freed => pc \in Closing \/ rmsg[t] \in freed
  BY <1>1, <1>2 DEF OwnInv, FifoInv
<1>5. /\ Held' \subseteq Made' /\ Queued' \subseteq Made' /\ freed' \subseteq Made'
      /\ Held' \cap Queued' = {} /\ Held' \cap freed' = {} /\ Queued' \cap freed' = Doomed'
      /\ pc' \notin Closing => Made' \subseteq Held' \cup Queued' \cup freed'
      /\ Held' # {} => Held # {}
  BY <1>1, <1>2, <1>3, <1>4 DEF OwnInv
<1>6. faults' \cap MemoryFaults = {}
  BY <1>1 DEF OwnInv, MemoryFaults
<1>7. QED  BY <1>1, <1>2, <1>5, <1>6 DEF OwnInv

\* The sent message is released before it is popped ...
LEMMA OwnRelease == ASSUME TInv, FifoInv, OwnInv, Release PROVE OwnInv'
<1>1. /\ pc = "release" /\ pc' = "pop" /\ freed' = freed \cup {cur}
      /\ UNCHANGED <<cur, ca, queue, rpc, rmsg, nextMsg>>
      /\ faults' = IF cur \in freed THEN faults \cup {"double_free"} ELSE faults
  BY DEF Release, Goto, Fault
<1>2. queue \in Seq(Msgs) /\ queue # <<>> /\ cur = Head(queue)
  BY <1>1 DEF TInv, TypeOK, QueueType, FifoInv
<1>3. cur \in Queued
  BY <1>2, HeadTailProperties, LenProperties, EmptySeq DEF Queued
<1>4. Doomed = {} /\ Doomed' = {cur}
  BY <1>1 DEF Doomed
<1>5. cur \notin freed /\ faults' = faults
  BY <1>1, <1>3, <1>4 DEF OwnInv
<1>6. Made' = Made /\ Held' = Held /\ Queued' = Queued /\ \A t \in Threads : Pushing(t)' <=> Pushing(t)
  BY <1>1 DEF Made, Held, Queued, Pushing
<1>7. /\ Held' \subseteq Made' /\ Queued' \subseteq Made' /\ freed' \subseteq Made'
      /\ Held' \cap Queued' = {} /\ Held' \cap freed' = {} /\ Queued' \cap freed' = Doomed'
      /\ pc' \notin Closing => Made' \subseteq Held' \cup Queued' \cup freed'
  BY <1>1, <1>3, <1>4, <1>5, <1>6 DEF OwnInv
<1>8. QED  BY <1>1, <1>5, <1>6, <1>7 DEF OwnInv

\* ... and the message popped is that one.
LEMMA OwnPop == ASSUME TInv, FifoInv, OwnInv, Pop PROVE OwnInv'
<1>1. /\ pc = "pop" /\ pc' = "notify_send" /\ UNCHANGED <<ca, rpc, rmsg, nextMsg, freed>>
  BY DEF Pop, Goto
<1>2. queue \in Seq(Msgs) /\ queue # <<>> /\ cur = Head(queue)
  BY <1>1 DEF TInv, TypeOK, QueueType, FifoInv
<1>3. queue' = Tail(queue) /\ faults' = faults
  BY <1>2 DEF Pop, Fault
<1>4. /\ Queued' = Queued \ {cur}
      /\ \A i, j \in DOMAIN queue' : queue'[i] = queue'[j] => i = j
  BY <1>2, <1>3, QueuedPop DEF OwnInv
<1>5. Doomed = {cur} /\ Doomed' = {}
  BY <1>1 DEF Doomed
<1>6. Made' = Made /\ Held' = Held /\ \A t \in Threads : Pushing(t)' <=> Pushing(t)
  BY <1>1 DEF Made, Held, Pushing
<1>7. /\ Held' \subseteq Made' /\ Queued' \subseteq Made' /\ freed' \subseteq Made'
      /\ Held' \cap Queued' = {} /\ Held' \cap freed' = {} /\ Queued' \cap freed' = Doomed'
      /\ pc' \notin Closing => Made' \subseteq Held' \cup Queued' \cup freed'
  BY <1>1, <1>4, <1>5, <1>6 DEF OwnInv
<1>8. QED  BY <1>1, <1>3, <1>4, <1>6, <1>7 DEF OwnInv

\* duer_engine_destroy releases what is queued.
LEMMA OwnDestroy == ASSUME TInv, OwnInv, EvtDestroy PROVE OwnInv'
<1>1. /\ pc = "idle" /\ pc' = "destroy" /\ queue' = <<>> /\ freed' = freed \cup Queued
      /\ UNCHANGED <<ca, rpc, rmsg, nextMsg>>
      /\ faults' = IF Queued \cap freed # {} THEN faults \cup {"double_free"} ELSE faults
  BY DEF EvtDestroy, Take, Fault
<1>2. Doomed = {} /\ Doomed' = {}
  BY <1>1 DEF Doomed
<1>3. faults' = faults
  BY <1>1, <1>2 DEF OwnInv
<1>4. Queued' = {} /\ \A i, j \in DOMAIN queue' : queue'[i] = queue'[j] => i = j
  BY <1>1 DEF Queued
<1>5. Made' = Made /\ Held' = Held /\ \A t \in Threads : Pushing(t)' <=> Pushing(t)
  BY <1>1 DEF Made, Held, Pushing
<1>6. /\ Held' \subseteq Made' /\ Queued' \subseteq Made' /\ freed' \subseteq Made'
      /\ Held' \cap Queued' = {} /\ Held' \cap freed' = {} /\ Queued' \cap freed' = Doomed'
  BY <1>1, <1>2, <1>4, <1>5 DEF OwnInv
<1>7. QED  BY <1>1, <1>3, <1>4, <1>5, <1>6 DEF OwnInv

-----------------------------------------------------------------------------
(* Everybody's steps. *)

\* The threads of the application.
LEMMA OwnApplication == ASSUME TInv, FifoInv, OwnInv, Application PROVE OwnInv'
<1>1. CASE duer_initialize \/ duer_start \/ duer_stop \/ duer_finalize \/ duer_add_resources
  BY <1>1, OwnKept
     DEF Control, duer_initialize, duer_start, duer_stop, duer_finalize,
         duer_add_resources, Pushing, Doomed
<1>2. CASE \E t \in Reporters : duer_data_report(t) \/ duer_response(t)
  <2>1. PICK t \in Threads : duer_data_report(t) \/ duer_response(t)
    BY <1>2 DEF Threads
  <2>2. PICK kind \in {"push_report", "push_response"} : Build(t, kind)
    BY <2>1 DEF duer_data_report, duer_response
  <2>3. UNCHANGED <<queue, freed, faults, ca, pc, cur>>
    BY <2>1 DEF duer_data_report, duer_response
  <2>4. QED  BY <2>2, <2>3, OwnBuild DEF Doomed
<1>3. QED  BY <1>1, <1>2 DEF Application

\* The steps of a report or response call.
LEMMA OwnCall ==
    ASSUME TInv, FifoInv, OwnInv, NEW t \in Threads, CallStep(t) PROVE OwnInv'
<1>1. CASE PushAccepted(t)
  BY <1>1, OwnPush
<1>2. CASE PushFailed(t) \/ PushIntoFreed(t)
  BY <1>2, OwnRefused
<1>3. CASE CheckLength(t) \/ PostSend(t)
  <2>1. /\ UNCHANGED <<queue, rmsg, nextMsg, freed, faults, ca, pc, cur>>
        /\ rpc[t] \in {"check", "post"}
        /\ rpc' = [rpc EXCEPT ![t] = "post"] \/ rpc' = [rpc EXCEPT ![t] = "idle"]
    BY <1>3 DEF CheckLength, PostSend
  <2>2. \A s \in Threads : Pushing(s)' <=> Pushing(s)
    BY <2>1 DEF Pushing, TInv, TypeOK, ThreadType
  <2>3. QED  BY <2>1, <2>2, OwnKept DEF Doomed
<1>4. QED  BY <1>1, <1>2, <1>3 DEF CallStep

\* The timer task and the socket task.
LEMMA OwnTimerSocket ==
    ASSUME TInv, FifoInv, OwnInv, NoTimeout,
           TimerRestart \/ TimerAlive \/ SockRecvReady \/ SockSendTimeout \/ SockStep
    PROVE  OwnInv'
<1>1. CASE TimerAlive
  BY <1>1, OwnBuild DEF TimerAlive, Threads, Doomed
<1>2. CASE TimerRestart
  <2>1. faults' \cap MemoryFaults = faults \cap MemoryFaults
    BY <1>2 DEF TimerRestart, Fault, MemoryFaults
  <2>2. QED  BY <1>2, <2>1, OwnKept DEF TimerRestart, Pushing, Doomed
<1>3. CASE SockRecvReady \/ SockSendTimeout \/ SockStep
  BY <1>3, OwnKept
     DEF SockRecvReady, SockStep, SockSendReady, SockClearBlocked,
         SockClearData, SockSendTimeout, FifoInv, NoTimeout, Pushing, Doomed
<1>4. QED  BY <1>1, <1>2, <1>3

\* The event task takes an event.
LEMMA OwnBegin == ASSUME TInv, FifoInv, OwnInv, Begin PROVE OwnInv'
<1> USE DEF Take, Goto, Pushing, Doomed
<1>1. CASE EvtCreate \/ EvtStart \/ EvtStartBadProfile
  BY <1>1, OwnKept
     DEF EvtCreate, EvtStart, EvtStartBadProfile, MakeQueueAndTimer, Created, BeginRun
<1>2. CASE EvtStartIgnored \/ EvtRestart
  BY <1>2, OwnKept DEF EvtStartIgnored, EvtRestart, BeginRun
<1>3. CASE EvtAvailStopped \/ EvtAvailStarting \/ EvtAvailStarted
  BY <1>3, OwnKept DEF EvtAvailStopped, EvtAvailStarting, EvtAvailStarted
<1>4. CASE EvtAvailRequest
  BY <1>4, OwnBuild DEF EvtAvailRequest, Threads
<1>5. CASE EvtSendStopped
  BY <1>5, OwnKept DEF EvtSendStopped
<1>6. CASE EvtSendEmpty \/ EvtSend
  <2>1. faults' \cap MemoryFaults = faults \cap MemoryFaults
    BY <1>6 DEF EvtSendEmpty, EvtSend, StopTimer, Fault, MemoryFaults
  <2>2. QED  BY <1>6, <2>1, OwnKept DEF EvtSendEmpty, EvtSend, StopTimer
<1>7. CASE EvtAddResources \/ EvtAddResourcesFailed \/ EvtStop
  BY <1>7, OwnKept DEF EvtAddResources, EvtAddResourcesFailed, EvtStop, StopEngine
<1>8. CASE EvtDestroy
  BY <1>8, OwnDestroy
<1>9. QED  BY <1>1, <1>2, <1>3, <1>4, <1>5, <1>6, <1>7, <1>8 DEF Begin

\* The transport takes a message that is not released yet.
LEMMA OwnSent == ASSUME TInv, FifoInv, OwnInv, SendTaken PROVE OwnInv'
<1>1. /\ pc = "sending" /\ pc' = "release"
      /\ UNCHANGED <<cur, ca, queue, rpc, rmsg, nextMsg, freed>>
      /\ faults' = IF cur \in freed THEN faults \cup {"use_after_free"} ELSE faults
  BY DEF SendTaken, Goto, Fault
<1>2. queue \in Seq(Msgs) /\ queue # <<>> /\ cur = Head(queue)
  BY <1>1 DEF TInv, TypeOK, QueueType, FifoInv
<1>3. cur \in Queued
  BY <1>2, HeadTailProperties, LenProperties, EmptySeq DEF Queued
<1>4. Doomed = {} /\ Doomed' = {}
  BY <1>1 DEF Doomed
<1>5. faults' = faults
  BY <1>1, <1>3, <1>4 DEF OwnInv
<1>6. QED  BY <1>1, <1>4, <1>5, OwnKept DEF Pushing

\* The event task goes on with its handler.
LEMMA OwnContinue == ASSUME TInv, FifoInv, OwnInv, Continue PROVE OwnInv'
<1> USE DEF Goto, Return, Pushing, Doomed
<1>1. CASE RunStep
  <2>1. /\ UNCHANGED <<queue, threadVars, freed>> 
        /\ {pc, pc'} \subseteq {"run", "spinning", "finish"}
        /\ ca' = "NULL" => ca = "NULL"
        /\ faults' \in {faults, faults \cup {"dangling_resource"}}
    BY <1>1 DEF RunStep, RunRegistered, RunConnect, RunSend, RunRecvContent, RunRecvOther,
                RunInitialized, RunEnd, ExitRun, RunUnchanged, Fault
  <2>2. faults' \cap MemoryFaults = faults \cap MemoryFaults
    BY <2>1 DEF MemoryFaults
  <2>3. QED  BY <2>1, <2>2, OwnKept
<1>2. CASE FinishStart \/ FinishAvail \/ CallbackReturn
  <2>1. faults' \cap MemoryFaults = faults \cap MemoryFaults
    BY <1>2 DEF FinishStart, FinishAvail, CallbackReturn, MemoryFaults
  <2>2. QED  BY <1>2, <2>1, OwnKept DEF FinishStart, FinishAvail, CallbackReturn
<1>3. CASE SendTaken
  BY <1>3, OwnSent
<1>4. CASE SendBlocked \/ SendFailed
  BY <1>4, OwnKept DEF SendBlocked, SendFailed
<1>5. CASE Release
  BY <1>5, OwnRelease
<1>6. CASE Pop
  BY <1>6, OwnPop
<1>7. CASE Destroyed
  BY <1>7, OwnKept DEF Destroyed
<1>8. CASE NotifyStarted \/ NotifyNothing \/ NotifySent \/ NotifyFailed
  BY <1>8, OwnKept
     DEF NotifyStarted, NotifyNothing, NotifySent, NotifyFailed, NotifyUnchanged, StopEngine
<1>9. QED
  BY <1>1, <1>2, <1>3, <1>4, <1>5, <1>6, <1>7, <1>8 DEF Continue

\* Every step keeps OwnInv.
LEMMA OwnNext == TInv /\ FifoInv /\ OwnInv /\ NoTimeout /\ [Next]_vars => OwnInv'
<1>1. ASSUME OwnInv, UNCHANGED vars PROVE OwnInv'
  BY <1>1, OwnKept DEF vars, Pushing, Doomed
<1>2. QED
  BY <1>1, OwnApplication, OwnCall, OwnTimerSocket, OwnBegin, OwnContinue DEF Next, TaskStep

\* OwnInv holds throughout.
THEOREM OwnAlways == ASSUME NoTimeout PROVE Spec => []OwnInv
<1>1. Init => OwnInv
  BY BoundAssumption DEF Init, OwnInv, Held, Queued, Made, Doomed, Pushing, NoMsg
<1>2. TInv /\ FifoInv /\ OwnInv /\ [Next]_vars => OwnInv'
  BY OwnNext
<1>3. QED  BY <1>1, <1>2, TInvAlways, FifoAlways, PTL DEF Spec

-----------------------------------------------------------------------------
(* The two properties. *)

\* No interleaving of the threads that report, the task that sends, releases
\* and pops without holding the queue's lock throughout (duer_engine_send), and
\* the destruction of the queue releases a message twice, sends a released one
\* or pops another than the one that was sent.
THEOREM ReleasedOnce == ASSUME NoTimeout PROVE Spec => []MessagesReleasedOnce
<1>1. OwnInv => MessagesReleasedOnce
  BY DEF OwnInv, MemoryFaults, MessagesReleasedOnce
<1>2. QED  BY <1>1, OwnAlways, PTL

\* And none is lost or shared: at rest every message ever built has one owner,
\* the pushing thread, the report queue, or nobody because it was released.
THEOREM AlwaysOwned == ASSUME NoTimeout PROVE Spec => []EveryMessageOwned
<1>1. OwnInv => EveryMessageOwned
  BY DEF OwnInv, EveryMessageOwned, AtRest, Doomed, Made
<1>2. QED  BY <1>1, OwnAlways, PTL

-----------------------------------------------------------------------------
(* The order of the messages, on every port                                *)

\* a was accepted before b; m was accepted.
Precedes(acc, a, b) ==
    \E i, j \in DOMAIN acc : i < j /\ acc[i] = a /\ acc[j] = b
Occurs(acc, m) == \E i \in DOMAIN acc : acc[i] = m

\* A message is accepted once, and what a thread still pushes is new.
FreshInv ==
    /\ \A i, j \in DOMAIN accepted : accepted[i] = accepted[j] => i = j
    /\ \A i \in DOMAIN accepted : accepted[i] < nextMsg
    /\ \A t \in Threads : rmsg[t] # NoMsg =>
           rmsg[t] < nextMsg /\ ~Occurs(accepted, rmsg[t])
    /\ \A t, u \in Threads : rmsg[t] # NoMsg /\ rmsg[t] = rmsg[u] => t = u

\* The event task holds the head of the queue, and the transport has it.
InHand(j) == pc \in {"release", "pop"} /\ j = 1 /\ queue[1] = cur

\* A SEND_TIMEOUT may clear the queue while the event task sends its head, so
\* that FifoInv does not hold: what is sent, then in hand, then queued still
\* follows the order of acceptance.
OrderInv ==
    /\ \A i \in DOMAIN sent : Occurs(accepted, sent[i])
    /\ \A i \in DOMAIN queue : Occurs(accepted, queue[i])
    /\ pc \in Sending => Occurs(accepted, cur)
    /\ \A i, j \in DOMAIN sent : i < j => Precedes(accepted, sent[i], sent[j])
    /\ \A i, j \in DOMAIN queue : i < j => Precedes(accepted, queue[i], queue[j])
    /\ \A i \in DOMAIN sent, j \in DOMAIN queue :
           Precedes(accepted, sent[i], queue[j]) \/ InHand(j)
    /\ pc = "sending" => \A i \in DOMAIN sent : Precedes(accepted, sent[i], cur)
    /\ pc \in Sending => \A j \in DOMAIN queue :
           (j = 1 /\ queue[1] = cur) \/ Precedes(accepted, cur, queue[j])

-----------------------------------------------------------------------------
(* Fresh messages. *)

\* Nothing is built or pushed.
LEMMA FreshKept ==
    ASSUME FreshInv, UNCHANGED <<accepted, nextMsg>>,
           rmsg' = rmsg \/ \E t \in Threads : rmsg' = [rmsg EXCEPT ![t] = NoMsg],
           ThreadType
    PROVE  FreshInv'
<1>1. CASE rmsg' = rmsg
  BY <1>1 DEF FreshInv
<1>2. CASE \E t \in Threads : rmsg' = [rmsg EXCEPT ![t] = NoMsg]
  <2>1. \A s \in Threads : rmsg'[s] # NoMsg => rmsg'[s] = rmsg[s]
    BY <1>2 DEF ThreadType
  <2>2. QED  BY <2>1 DEF FreshInv
<1>3. QED  BY <1>1, <1>2

\* A message is built with a new number.
LEMMA FreshBuild ==
    ASSUME TInv, FreshInv, NEW t \in Threads, NEW kind, Build(t, kind), accepted' = accepted
    PROVE  FreshInv'
<1>1. /\ nextMsg \in Nat /\ nextMsg' = nextMsg + 1 /\ rmsg' = [rmsg EXCEPT ![t] = nextMsg]
      /\ rmsg \in [Threads -> Msgs \cup {NoMsg}] /\ Msgs \cup {NoMsg} \subseteq Nat
  BY BoundAssumption DEF Build, TInv, TypeOK, ThreadType, Msgs, NoMsg
<1>2. ~Occurs(accepted, nextMsg)
  BY <1>1 DEF FreshInv, Occurs
<1>3. \A i \in DOMAIN accepted : accepted[i] \in Nat
  BY BoundAssumption DEF TInv, TypeOK, HistType, Msgs
<1>4. \A i \in DOMAIN accepted' : accepted'[i] < nextMsg'
  BY <1>1, <1>3 DEF FreshInv
<1>5. \A s \in Threads : rmsg'[s] # NoMsg =>
          rmsg'[s] < nextMsg' /\ ~Occurs(accepted', rmsg'[s])
  BY <1>1, <1>2 DEF FreshInv
<1>6. \A s, u \in Threads : rmsg'[s] # NoMsg /\ rmsg'[s] = rmsg'[u] => s = u
  BY <1>1 DEF FreshInv
<1>7. QED  BY <1>4, <1>5, <1>6 DEF FreshInv

\* A push makes the thread's message the last accepted one.
LEMMA FreshPush ==
    ASSUME TInv, FreshInv, NEW t \in Threads, PushAccepted(t) PROVE FreshInv'
<1>1. /\ accepted' = Append(accepted, rmsg[t]) /\ nextMsg' = nextMsg
      /\ rmsg' = [rmsg EXCEPT ![t] = NoMsg] /\ rmsg[t] \in Msgs
  BY DEF PushAccepted, TInv, PushesMsg
<1>2. /\ accepted \in Seq(Msgs) /\ rmsg \in [Threads -> Msgs \cup {NoMsg}]
      /\ rmsg[t] # NoMsg
  BY <1>1, BoundAssumption DEF TInv, TypeOK, HistType, ThreadType, Msgs, NoMsg
<1>3. /\ DOMAIN accepted = 1 .. Len(accepted) /\ DOMAIN accepted' = 1 .. Len(accepted) + 1
      /\ \A i \in 1 .. Len(accepted) : accepted'[i] = accepted[i]
      /\ accepted'[Len(accepted) + 1] = rmsg[t] /\ Len(accepted) \in Nat
  BY <1>1, <1>2, AppendProperties, LenProperties
<1>4. \A i \in DOMAIN accepted : accepted[i] # rmsg[t]
  BY <1>2 DEF FreshInv, Occurs
<1>5. \A i, j \in DOMAIN accepted' : accepted'[i] = accepted'[j] => i = j
  <2>1. SUFFICES ASSUME NEW i \in DOMAIN accepted', NEW j \in DOMAIN accepted',
                        accepted'[i] = accepted'[j]
                 PROVE  i = j
    OBVIOUS
  <2>2. CASE i \in DOMAIN accepted /\ j \in DOMAIN accepted
    BY <1>3, <2>1, <2>2 DEF FreshInv
  <2>3. CASE ~(i \in DOMAIN accepted /\ j \in DOMAIN accepted)
    BY <1>3, <1>4, <2>1, <2>3
  <2>4. QED  BY <2>2, <2>3
<1>6. \A i \in DOMAIN accepted' : accepted'[i] < nextMsg'
  BY <1>1, <1>2, <1>3 DEF FreshInv
<1>7. \A s \in Threads : rmsg'[s] # NoMsg => s # t /\ rmsg'[s] = rmsg[s]
  BY <1>1, <1>2
<1>8. \A s \in Threads : rmsg'[s] # NoMsg =>
          rmsg'[s] < nextMsg' /\ ~Occurs(accepted', rmsg'[s])
  <2>1. SUFFICES ASSUME NEW s \in Threads, rmsg'[s] # NoMsg
                 PROVE  rmsg'[s] < nextMsg' /\ ~Occurs(accepted', rmsg'[s])
    OBVIOUS
  <2>2. s # t /\ rmsg'[s] = rmsg[s] /\ rmsg[s] # rmsg[t] /\ rmsg[s] # NoMsg
    BY <1>2, <1>7, <2>1 DEF FreshInv
  <2>3. rmsg[s] < nextMsg /\ \A i \in DOMAIN accepted : accepted[i] # rmsg[s]
    BY <2>2 DEF FreshInv, Occurs
  <2>4. \A i \in DOMAIN accepted' : accepted'[i] # rmsg[s]
    BY <1>3, <2>2, <2>3
  <2>5. QED  BY <1>1, <2>2, <2>3, <2>4 DEF Occurs
<1>9. \A s, u \in Threads : rmsg'[s] # NoMsg /\ rmsg'[s] = rmsg'[u] => s = u
  BY <1>7 DEF FreshInv
<1>10. QED  BY <1>5, <1>6, <1>8, <1>9 DEF FreshInv

\* Every step keeps FreshInv.
LEMMA FreshNext == TInv /\ FreshInv /\ [Next]_vars => FreshInv'
<1> SUFFICES ASSUME TInv, FreshInv, [Next]_vars PROVE FreshInv'
  OBVIOUS
<1>1. ThreadType
  BY DEF TInv, TypeOK
<1>2. CASE UNCHANGED vars
  BY <1>1, <1>2, FreshKept DEF vars
<1>3. CASE Application
  <2>1. CASE \E t \in Reporters : duer_data_report(t) \/ duer_response(t)
    BY <2>1, FreshBuild DEF duer_data_report, duer_response, Threads
  <2>2. CASE ~\E t \in Reporters : duer_data_report(t) \/ duer_response(t)
    BY <1>1, <1>3, <2>2, FreshKept
       DEF Application, Control, duer_initialize, duer_start, duer_stop, duer_finalize,
           duer_add_resources
  <2>3. QED  BY <2>1, <2>2
<1>4. CASE Begin
  <2>1. CASE EvtAvailRequest
    BY <2>1, FreshBuild DEF EvtAvailRequest, Threads
  <2>2. CASE ~EvtAvailRequest
    BY <1>1, <1>4, <2>2, FreshKept
       DEF Begin, EvtCreate, EvtStartIgnored, EvtStart, EvtStartBadProfile, EvtRestart,
           EvtAvailStopped, EvtAvailStarting, EvtAvailStarted, EvtSendStopped,
           EvtSendEmpty, EvtSend, StopTimer, EvtAddResources, EvtAddResourcesFailed,
           EvtStop, EvtDestroy
  <2>3. QED  BY <2>1, <2>2
<1>5. CASE Continue
  BY <1>1, <1>5, FreshKept
     DEF Continue, RunStep, RunRegistered, RunConnect, RunSend, RunRecvContent,
         RunRecvOther, RunInitialized, RunEnd, RunUnchanged, FinishStart, FinishAvail,
         CallbackReturn, SendTaken, SendBlocked, SendFailed, Release, Pop, Destroyed,
         NotifyStarted, NotifyNothing, NotifySent, NotifyFailed, NotifyUnchanged
<1>6. CASE TimerAlive
  BY <1>6, FreshBuild DEF TimerAlive, Threads
<1>7. CASE TimerRestart \/ SockRecvReady \/ SockSendTimeout \/ SockStep
  BY <1>1, <1>7, FreshKept
     DEF TimerRestart, SockRecvReady, SockSendTimeout, SockStep, SockSendReady,
         SockClearBlocked, SockClearData
<1>8. CASE \E t \in Threads : CallStep(t)
  <2>1. PICK t \in Threads : CallStep(t)
    BY <1>8
  <2>2. CASE PushAccepted(t)
    BY <2>2, FreshPush
  <2>3. CASE ~PushAccepted(t)
    BY <1>1, <2>1, <2>3, FreshKept
       DEF CallStep, PushFailed, PushIntoFreed, CheckLength, PostSend, Leave
  <2>4. QED  BY <2>2, <2>3
<1>9. QED  BY <1>2, <1>3, <1>4, <1>5, <1>6, <1>7, <1>8 DEF Next, TaskStep

-----------------------------------------------------------------------------
(* The order. *)

\* No message moves.
LEMMA OrderKept ==
    ASSUME OrderInv, UNCHANGED <<accepted, sent, queue>>,
           UNCHANGED <<pc, cur>> \/ (pc' \notin Sending /\ pc \notin {"release", "pop"})
    PROVE  OrderInv'
BY DEF OrderInv, InHand

\* The queue is cleared.
LEMMA OrderCleared ==
    ASSUME OrderInv, UNCHANGED <<accepted, sent>>, queue' = <<>>,
           UNCHANGED <<pc, cur>> \/ pc' \notin Sending
    PROVE  OrderInv'
BY EmptySeq DEF OrderInv, InHand

\* The last message accepted comes after all that were accepted before it.
LEMMA AcceptedLast ==
    ASSUME NEW acc \in Seq(Msgs), NEW m \in Msgs
    PROVE  /\ \A a, b : Precedes(acc, a, b) => Precedes(Append(acc, m), a, b)
           /\ \A a : Occurs(acc, a) =>
                  Occurs(Append(acc, m), a) /\ Precedes(Append(acc, m), a, m)
           /\ Occurs(Append(acc, m), m)
<1>1. /\ DOMAIN acc = 1 .. Len(acc) /\ DOMAIN Append(acc, m) = 1 .. Len(acc) + 1
      /\ \A i \in 1 .. Len(acc) : Append(acc, m)[i] = acc[i]
      /\ Append(acc, m)[Len(acc) + 1] = m /\ Len(acc) \in Nat
  BY AppendProperties, LenProperties
<1>2. \A i \in DOMAIN acc : i \in DOMAIN Append(acc, m) /\ i < Len(acc) + 1
  BY <1>1
<1>3. Len(acc) + 1 \in DOMAIN Append(acc, m)
  BY <1>1
<1>4. QED  BY <1>1, <1>2, <1>3 DEF Precedes, Occurs

\* A push puts it at the end of the queue.
LEMMA OrderPush ==
    ASSUME TInv, OrderInv, NEW t \in Threads, PushAccepted(t) PROVE OrderInv'
<1> DEFINE m == rmsg[t]
<1>1. /\ accepted' = Append(accepted, m) /\ queue' = Append(queue, m)
      /\ UNCHANGED <<pc, cur, sent>> /\ m \in Msgs
      /\ accepted \in Seq(Msgs) /\ queue \in Seq(Msgs)
  BY DEF PushAccepted, TInv, TypeOK, HistType, QueueType, PushesMsg
<1> HIDE DEF m
<1>2. /\ \A a, b : Precedes(accepted, a, b) => Precedes(accepted', a, b)
      /\ \A a : Occurs(accepted, a) => Occurs(accepted', a) /\ Precedes(accepted', a, m)
      /\ Occurs(accepted', m)
  BY <1>1, AcceptedLast
<1>3. /\ DOMAIN queue = 1 .. Len(queue) /\ DOMAIN queue' = 1 .. Len(queue) + 1
      /\ \A i \in 1 .. Len(queue) : queue'[i] = queue[i]
      /\ queue'[Len(queue) + 1] = m /\ Len(queue) \in Nat
  BY <1>1, AppendProperties, LenProperties
<1>4. \A j \in DOMAIN queue' : j \in DOMAIN queue \/ queue'[j] = m
  BY <1>3
<1>5. \A j \in DOMAIN queue : queue'[j] = queue[j] /\ (InHand(j) => InHand(j)')
  BY <1>1, <1>3 DEF InHand
<1>6. /\ \A i \in DOMAIN sent' : Occurs(accepted', sent'[i])
      /\ \A i \in DOMAIN queue' : Occurs(accepted', queue'[i])
      /\ pc' \in Sending => Occurs(accepted', cur')
  BY <1>1, <1>2, <1>4, <1>5 DEF OrderInv
<1>7. \A i, j \in DOMAIN sent' : i < j => Precedes(accepted', sent'[i], sent'[j])
  BY <1>1, <1>2 DEF OrderInv
<1>8. \A i, j \in DOMAIN queue' : i < j => Precedes(accepted', queue'[i], queue'[j])
  <2>1. SUFFICES ASSUME NEW i \in DOMAIN queue', NEW j \in DOMAIN queue', i < j
                 PROVE  Precedes(accepted', queue'[i], queue'[j])
    OBVIOUS
  <2>2. i \in DOMAIN queue /\ queue'[i] = queue[i]
    BY <1>3, <2>1
  <2>3. CASE j \in DOMAIN queue
    BY <1>2, <1>5, <2>1, <2>2, <2>3 DEF OrderInv
  <2>4. CASE queue'[j] = m
    BY <1>2, <2>2, <2>4 DEF OrderInv
  <2>5. QED  BY <1>4, <2>3, <2>4
<1>9. \A i \in DOMAIN sent', j \in DOMAIN queue' :
          Precedes(accepted', sent'[i], queue'[j]) \/ InHand(j)'
  BY <1>1, <1>2, <1>4, <1>5 DEF OrderInv
<1>10. pc' = "sending" => \A i \in DOMAIN sent' : Precedes(accepted', sent'[i], cur')
  BY <1>1, <1>2 DEF OrderInv
<1>11. pc' \in Sending => \A j \in DOMAIN queue' :
           (j = 1 /\ queue'[1] = cur') \/ Precedes(accepted', cur', queue'[j])
  BY <1>1, <1>2, <1>4, <1>5 DEF OrderInv
<1>12. QED  BY <1>6, <1>7, <1>8, <1>9, <1>10, <1>11 DEF OrderInv

\* duer_engine_send takes the head of the queue in hand.
LEMMA OrderTake == ASSUME TInv, OrderInv, EvtSend PROVE OrderInv'
<1>1. /\ UNCHANGED <<accepted, sent, queue>> /\ pc = "idle" /\ pc' = "sending"
      /\ cur' = Head(queue) /\ queue # <<>> /\ queue \in Seq(Msgs)
  BY DEF EvtSend, StopTimer, Take, TInv, TypeOK, QueueType
<1>2. cur' = queue[1] /\ 1 \in DOMAIN queue /\ \A j \in DOMAIN queue : j = 1 \/ 1 < j
  BY <1>1, HeadTailProperties, LenProperties, EmptySeq
<1>3. Occurs(accepted, cur') /\ \A i \in DOMAIN sent : Precedes(accepted, sent[i], cur')
  BY <1>1, <1>2 DEF OrderInv, InHand
<1>4. \A j \in DOMAIN queue : (j = 1 /\ queue[1] = cur') \/ Precedes(accepted, cur', queue[j])
  BY <1>2 DEF OrderInv
<1>5. \A i \in DOMAIN sent, j \in DOMAIN queue : Precedes(accepted, sent[i], queue[j])
  BY <1>1 DEF OrderInv, InHand
<1>6. QED  BY <1>1, <1>3, <1>4, <1>5 DEF OrderInv

\* The transport takes it.
LEMMA OrderSent == ASSUME TInv, OrderInv, SendTaken PROVE OrderInv'
<1>1. /\ UNCHANGED <<accepted, cur, queue>> /\ pc = "sending" /\ pc' = "release"
      /\ sent' = Append(sent, cur) /\ sent \in Seq(Msgs) /\ cur \in Msgs
  BY DEF SendTaken, Goto, TInv, TypeOK, HistType, CurIsMsg
<1>2. /\ DOMAIN sent = 1 .. Len(sent) /\ DOMAIN sent' = 1 .. Len(sent) + 1
      /\ \A i \in 1 .. Len(sent) : sent'[i] = sent[i]
      /\ sent'[Len(sent) + 1] = cur /\ Len(sent) \in Nat
  BY <1>1, AppendProperties, LenProperties
<1>3. \A i \in DOMAIN sent' : (i \in DOMAIN sent /\ sent'[i] = sent[i]) \/ sent'[i] = cur
  BY <1>2
<1>4. /\ \A i \in DOMAIN sent' : Occurs(accepted, sent'[i])
      /\ Occurs(accepted, cur)
  BY <1>1, <1>3 DEF OrderInv
<1>5. \A i, j \in DOMAIN sent' : i < j => Precedes(accepted, sent'[i], sent'[j])
  <2>1. SUFFICES ASSUME NEW i \in DOMAIN sent', NEW j \in DOMAIN sent', i < j
                 PROVE  Precedes(accepted, sent'[i], sent'[j])
    OBVIOUS
  <2>2. i \in DOMAIN sent /\ sent'[i] = sent[i]
    BY <1>2, <2>1
  <2>3. CASE j \in DOMAIN sent
    BY <1>2, <2>1, <2>2, <2>3 DEF OrderInv
  <2>4. CASE sent'[j] = cur
    BY <1>1, <2>2, <2>4 DEF OrderInv
  <2>5. QED  BY <1>3, <2>3, <2>4
<1>6. \A j \in DOMAIN queue : InHand(j)' \/ Precedes(accepted, cur, queue[j])
  BY <1>1 DEF OrderInv, InHand
<1>7. \A i \in DOMAIN sent', j \in DOMAIN queue :
          Precedes(accepted, sent'[i], queue[j]) \/ InHand(j)'
  BY <1>1, <1>3, <1>6 DEF OrderInv, InHand
<1>8. QED  BY <1>1, <1>4, <1>5, <1>7 DEF OrderInv

\* It is released,
LEMMA OrderRelease == ASSUME OrderInv, Release PROVE OrderInv'
BY DEF OrderInv, InHand, Release, Goto

\* and whatever heads the queue is popped.
LEMMA OrderPop == ASSUME TInv, OrderInv, Pop PROVE OrderInv'
<1>1. /\ UNCHANGED <<accepted, sent>> /\ pc = "pop" /\ pc' = "notify_send"
      /\ queue \in Seq(Msgs)
  BY DEF Pop, Goto, TInv, TypeOK, QueueType
<1>2. CASE queue = <<>>
  BY <1>1, <1>2, OrderCleared DEF Pop
<1>3. CASE queue # <<>>
  <2>1. queue' = Tail(queue)
    BY <1>3 DEF Pop
  <2>2. /\ DOMAIN queue' = 1 .. Len(queue) - 1 /\ DOMAIN queue = 1 .. Len(queue)
        /\ \A i \in DOMAIN queue' : queue'[i] = queue[i + 1]
        /\ Len(queue) \in Nat
    BY <1>1, <1>3, <2>1, HeadTailProperties, LenProperties, EmptySeq
  <2>3. \A i \in DOMAIN queue' : i + 1 \in DOMAIN queue /\ i + 1 # 1
    BY <2>2
  <2>4. \A i, j \in DOMAIN queue' : i < j => i + 1 < j + 1
    BY <2>2
  <2>5. \A i \in DOMAIN queue' : Occurs(accepted, queue'[i])
    BY <2>2, <2>3 DEF OrderInv
  <2>6. \A i, j \in DOMAIN queue' : i < j => Precedes(accepted, queue'[i], queue'[j])
    BY <2>2, <2>3, <2>4 DEF OrderInv
  <2>7. \A i \in DOMAIN sent, j \in DOMAIN queue' : Precedes(accepted, sent[i], queue'[j])
    BY <2>2, <2>3 DEF OrderInv, InHand
  <2>8. QED  BY <1>1, <2>5, <2>6, <2>7 DEF OrderInv
<1>4. QED  BY <1>2, <1>3

\* Every step keeps OrderInv.
LEMMA OrderNext == TInv /\ OrderInv /\ [Next]_vars => OrderInv'
<1> SUFFICES ASSUME TInv, OrderInv, [Next]_vars PROVE OrderInv'
  OBVIOUS
<1> USE DEF Take, Goto, Return
<1>1. CASE UNCHANGED vars
  BY <1>1, OrderKept DEF vars
<1>2. CASE Application \/ TimerRestart \/ TimerAlive
  BY <1>2, OrderKept
     DEF Application, Control, duer_initialize, duer_start, duer_stop, duer_finalize,
         duer_add_resources, duer_data_report, duer_response, TimerRestart, TimerAlive
<1>3. CASE SockRecvReady \/ SockSendTimeout \/ SockStep
  BY <1>3, OrderKept, OrderCleared
     DEF SockRecvReady, SockSendTimeout, SockStep, SockSendReady, SockClearBlocked,
         SockClearData
<1>4. CASE \E t \in Threads : CallStep(t)
  <2>1. PICK t \in Threads : CallStep(t)
    BY <1>4
  <2>2. CASE PushAccepted(t)
    BY <2>2, OrderPush
  <2>3. CASE ~PushAccepted(t)
    BY <2>1, <2>3, OrderKept DEF CallStep, PushFailed, PushIntoFreed, CheckLength, PostSend
  <2>4. QED  BY <2>2, <2>3
<1>5. CASE Begin
  <2>1. CASE EvtSend
    BY <2>1, OrderTake
  <2>2. CASE EvtDestroy
    BY <2>2, OrderCleared DEF EvtDestroy
  <2>3. CASE ~EvtSend /\ ~EvtDestroy
    <3>1. UNCHANGED <<accepted, sent, queue>>
      BY <1>5, <2>3
         DEF Begin, EvtCreate, EvtStartIgnored, EvtStart, EvtStartBadProfile, EvtRestart,
             EvtAvailStopped, EvtAvailStarting, EvtAvailStarted, EvtAvailRequest,
             EvtSendStopped, EvtSendEmpty, StopTimer, EvtAddResources,
             EvtAddResourcesFailed, EvtStop, MakeQueueAndTimer
    <3>2. pc = "idle" /\ pc' \notin Sending
      BY <1>5, <2>3
         DEF Begin, EvtCreate, EvtStartIgnored, EvtStart, EvtStartBadProfile, EvtRestart,
             EvtAvailStopped, EvtAvailStarting, EvtAvailStarted, EvtAvailRequest,
             EvtSendStopped, EvtSendEmpty, EvtAddResources, EvtAddResourcesFailed,
             EvtStop, BeginRun
    <3>3. QED  BY <3>1, <3>2, OrderKept
  <2>4. QED  BY <2>1, <2>2, <2>3
<1>6. CASE Continue
  <2>1. CASE SendTaken
    BY <2>1, OrderSent
  <2>2. CASE Release
    BY <2>2, OrderRelease
  <2>3. CASE Pop
    BY <2>3, OrderPop
  <2>4. CASE RunStep
    BY <2>4, OrderKept
       DEF RunStep, RunRegistered, RunConnect, RunSend, RunRecvContent, RunRecvOther,
           RunInitialized, RunEnd, ExitRun, RunUnchanged
  <2>5. CASE \/ FinishStart \/ FinishAvail \/ CallbackReturn \/ SendBlocked \/ SendFailed
             \/ Destroyed \/ NotifyStarted \/ NotifyNothing \/ NotifySent \/ NotifyFailed
    BY <2>5, OrderKept
       DEF FinishStart, FinishAvail, CallbackReturn, SendBlocked, SendFailed, Destroyed,
           NotifyStarted, NotifyNothing, NotifySent, NotifyFailed, NotifyUnchanged
  <2>6. QED  BY <1>6, <2>1, <2>2, <2>3, <2>4, <2>5 DEF Continue
<1>7. QED  BY <1>1, <1>2, <1>3, <1>4, <1>5, <1>6 DEF Next, TaskStep

\* As a message is accepted once, its position tells the order.
LEMMA OrderPositions == FreshInv /\ OrderInv => SentInOrder
<1> SUFFICES ASSUME FreshInv, OrderInv, NEW i \in DOMAIN sent, NEW j \in DOMAIN sent, i < j
             PROVE  Position(sent[i]) < Position(sent[j])
  BY DEF SentInOrder
<1>1. PICK k, l \in DOMAIN accepted :
          k < l /\ accepted[k] = sent[i] /\ accepted[l] = sent[j]
  BY DEF OrderInv, Precedes
<1>2. \A n \in DOMAIN accepted : Position(accepted[n]) = n
  BY DEF FreshInv, Position
<1>3. QED  BY <1>1, <1>2

\* On every port, the mbed port and its SEND_TIMEOUT too, the transport gets the
\* messages of all threads in the order in which duer_qcache_push took them.
THEOREM AlwaysInOrder == Spec => []SentInOrder
<1>1. Init => FreshInv /\ OrderInv
  BY EmptySeq DEF Init, FreshInv, OrderInv
<1>2. QED
  BY <1>1, FreshNext, OrderNext, OrderPositions, TInvAlways, PTL DEF Spec

-----------------------------------------------------------------------------
(* The start-up machine                                                    *)

Starting == {"run", "finish", "notify_start"}

RestStates == {"NULL", "STOPED", "SR_CONNECTING", "SR_DATA_SENDING",
               "SR_DATA_RECEIVING", "STARTED"}

\* RestsResumable speaks of the moments between two events.  A step needs to
\* know what the handler under way has made of the state: while baidu_ca_run
\* runs it is not gone, and after it REGISTER_FAIL comes with a failure, which
\* NotifyFailed turns into STOPED.
RestInv ==
    /\ pc = "run" => ca \notin {"NULL", "REGISTER_FAIL"}
    /\ pc \in {"finish", "notify_start"} =>
           ca \in RestStates \/ (ca = "REGISTER_FAIL" /\ status = "FAILED")
    /\ pc \notin Starting => ca \in RestStates

\* The same for AppViewCorrect and RouterMatchesState: inside a start the
\* application is not told anything yet, and the result carries the news.
ViewInv ==
    /\ pc = "run" =>
           /\ ca # "STOPED" /\ app # "started"
           /\ ca \in {"SR_DATA_SENDING", "SR_DATA_RECEIVING", "SR_INITIALIZED",
                     "STARTED"} => sr = TRUE
    /\ pc \in {"finish", "notify_start"} =>
           /\ app # "started" /\ status # "POSITIVE"
           /\ status = "OK" <=> ca = "STARTED"
    /\ pc \notin Starting \cup {"deleted"} => (app = "started" <=> ca = "STARTED")
    /\ pc # "run" => sr = (ca \notin {"NULL", "STOPED"})
    /\ pc = "spinning" => ca = "SR_DATA_RECEIVING"

\* The ports and peers the second half is about.
Regular == "send_timeout" \notin Faults /\ "odd_header" \notin Faults

-----------------------------------------------------------------------------
(* The helpers the actions are built from are expanded throughout. *)

USE DEF loopVars, taskVars, caVars, queueVars, sockVars, threadVars, histVars,
        is_started, is_stopped, Take, Goto, Return, StopEngine, Created,
        BeginRun, ExitRun, RunUnchanged, NotifyUnchanged,
        Starting, RestStates

-----------------------------------------------------------------------------
(* Resting in resumable states. *)

\* The task takes an event.
LEMMA RestInvBegin == ASSUME RestInv, Begin PROVE RestInv'
<1>1. CASE EvtCreate
  BY <1>1 DEF RestInv, EvtCreate
<1>2. CASE EvtStartIgnored
  BY <1>2 DEF RestInv, EvtStartIgnored
<1>3. CASE EvtStart
  BY <1>3 DEF RestInv, EvtStart
<1>4. CASE EvtStartBadProfile
  BY <1>4 DEF RestInv, EvtStartBadProfile
<1>5. CASE EvtRestart
  BY <1>5 DEF RestInv, EvtRestart
<1>6. CASE EvtAvailStopped
  BY <1>6 DEF RestInv, EvtAvailStopped
<1>7. CASE EvtAvailStarting
  BY <1>7 DEF RestInv, EvtAvailStarting
<1>8. CASE EvtAvailStarted
  BY <1>8 DEF RestInv, EvtAvailStarted
<1>9. CASE EvtAvailRequest
  BY <1>9 DEF RestInv, EvtAvailRequest
<1>10. CASE EvtSendStopped
  BY <1>10 DEF RestInv, EvtSendStopped
<1>11. CASE EvtSendEmpty
  BY <1>11 DEF RestInv, EvtSendEmpty
<1>12. CASE EvtSend
  BY <1>12 DEF RestInv, EvtSend
<1>13. CASE EvtAddResources
  BY <1>13 DEF RestInv, EvtAddResources
<1>14. CASE EvtAddResourcesFailed
  BY <1>14 DEF RestInv, EvtAddResourcesFailed
<1>15. CASE EvtStop
  BY <1>15 DEF RestInv, EvtStop
<1>16. CASE EvtDestroy
  BY <1>16 DEF RestInv, EvtDestroy
<1> QED  BY <1>1, <1>2, <1>3, <1>4, <1>5, <1>6, <1>7, <1>8, <1>9, <1>10, <1>11, <1>12, <1>13, <1>14, <1>15, <1>16 DEF Begin

\* The rounds of baidu_ca_run.
LEMMA RestInvRun == ASSUME RestInv, RunStep PROVE RestInv'
<1>1. CASE RunRegistered
  BY <1>1 DEF RestInv, RunRegistered
<1>2. CASE RunConnect
  BY <1>2 DEF RestInv, RunConnect
<1>3. CASE RunSend
  BY <1>3 DEF RestInv, RunSend
<1>4. CASE RunRecvContent
  BY <1>4 DEF RestInv, RunRecvContent
<1>5. CASE RunRecvOther
  BY <1>5 DEF RestInv, RunRecvOther
<1>6. CASE RunInitialized
  BY <1>6 DEF RestInv, RunInitialized
<1>7. CASE RunEnd
  BY <1>7 DEF RestInv, RunEnd
<1> QED  BY <1>1, <1>2, <1>3, <1>4, <1>5, <1>6, <1>7 DEF RunStep

\* The task goes on with its handler.
LEMMA RestInvContinue == ASSUME RestInv, Continue PROVE RestInv'
<1>1. CASE RunStep
  BY <1>1, RestInvRun
<1>2. CASE FinishStart
  BY <1>2 DEF RestInv, FinishStart
<1>3. CASE FinishAvail
  BY <1>3 DEF RestInv, FinishAvail
<1>4. CASE CallbackReturn
  BY <1>4 DEF RestInv, CallbackReturn
<1>5. CASE SendTaken
  BY <1>5 DEF RestInv, SendTaken
<1>6. CASE SendBlocked
  BY <1>6 DEF RestInv, SendBlocked
<1>7. CASE SendFailed
  BY <1>7 DEF RestInv, SendFailed
<1>8. CASE Release
  BY <1>8 DEF RestInv, Release
<1>9. CASE Pop
  BY <1>9 DEF RestInv, Pop
<1>10. CASE Destroyed
  BY <1>10 DEF RestInv, Destroyed
<1>11. CASE NotifyStarted
  BY <1>11 DEF RestInv, NotifyStarted
<1>12. CASE NotifyNothing
  BY <1>12 DEF RestInv, NotifyNothing
<1>13. CASE NotifySent
  BY <1>13 DEF RestInv, NotifySent
<1>14. CASE NotifyFailed
  BY <1>14 DEF RestInv, NotifyFailed
<1> QED  BY <1>1, <1>2, <1>3, <1>4, <1>5, <1>6, <1>7, <1>8, <1>9, <1>10, <1>11, <1>12, <1>13, <1>14 DEF Continue

\* The other tasks and threads do not touch what RestInv speaks of, but for the
\* SEND_TIMEOUT of the mbed port.
LEMMA RestInvOthers ==
    ASSUME RestInv,
           \/ Application \/ TimerRestart \/ TimerAlive
           \/ SockRecvReady \/ SockSendTimeout \/ SockStep
           \/ \E t \in Threads : CallStep(t)
    PROVE  RestInv'
<1>1. CASE Application
  <2>1. UNCHANGED <<taskVars, caVars, app>>
    BY <1>1 DEF Application, Control, duer_initialize, duer_start, duer_stop,
                duer_finalize, duer_add_resources, duer_data_report, duer_response
  <2>2. QED  BY <2>1 DEF RestInv
<1>2. CASE TimerRestart \/ TimerAlive \/ SockRecvReady \/ SockStep
  <2>1. UNCHANGED <<taskVars, caVars, app>>
    BY <1>2 DEF TimerRestart, TimerAlive, SockRecvReady, SockStep, SockSendReady,
                SockClearBlocked, SockClearData
  <2>2. QED  BY <2>1 DEF RestInv
<1>3. CASE SockSendTimeout
  BY <1>3 DEF SockSendTimeout, RestInv
<1>4. CASE \E t \in Threads : CallStep(t)
  <2>1. UNCHANGED <<taskVars, caVars, app>>
    BY <1>4 DEF CallStep, PushAccepted, PushFailed, PushIntoFreed, CheckLength, PostSend
  <2>2. QED  BY <2>1 DEF RestInv
<1>5. QED  BY <1>1, <1>2, <1>3, <1>4

\* Every step keeps RestInv.
LEMMA RestInvNext == RestInv /\ [Next]_vars => RestInv'
<1>1. ASSUME RestInv, UNCHANGED vars PROVE RestInv'
  BY <1>1 DEF RestInv, vars
<1>2. QED  BY <1>1, RestInvBegin, RestInvContinue, RestInvOthers DEF Next, TaskStep

\* RestInv holds throughout.
THEOREM RestAlways == Spec => []RestInv
<1>1. Init => RestInv
  BY DEF Init, RestInv
<1>2. QED  BY <1>1, RestInvNext, PTL DEF Spec

\* Whatever failed, blocked or was refused on the way, and whoever posted what,
\* the start-up machine rests only in states that a later event takes up: the
\* transient states and REGISTER_FAIL never outlive the handler (baidu_ca_run
\* and the failed notification of lightduer_connagent.c).
THEOREM AlwaysResumable == Spec => []RestsResumable
<1>1. RestInv => RestsResumable
  BY DEF RestInv, RestsResumable, AtRest
<1>2. QED  BY <1>1, RestAlways, PTL

-----------------------------------------------------------------------------
(* What the application and the router know of the state. *)

\* The task takes an event.
LEMMA ViewInvBegin == ASSUME ViewInv, RestInv, Regular, Begin PROVE ViewInv'
<1>1. CASE EvtCreate
  BY <1>1 DEF ViewInv, RestInv, Regular, EvtCreate
<1>2. CASE EvtStartIgnored
  BY <1>2 DEF ViewInv, RestInv, Regular, EvtStartIgnored
<1>3. CASE EvtStart
  BY <1>3 DEF ViewInv, RestInv, Regular, EvtStart
<1>4. CASE EvtStartBadProfile
  BY <1>4 DEF ViewInv, RestInv, Regular, EvtStartBadProfile
<1>5. CASE EvtRestart
  BY <1>5 DEF ViewInv, RestInv, Regular, EvtRestart
<1>6. CASE EvtAvailStopped
  BY <1>6 DEF ViewInv, RestInv, Regular, EvtAvailStopped
<1>7. CASE EvtAvailStarting
  BY <1>7 DEF ViewInv, RestInv, Regular, EvtAvailStarting
<1>8. CASE EvtAvailStarted
  BY <1>8 DEF ViewInv, RestInv, Regular, EvtAvailStarted
<1>9. CASE EvtAvailRequest
  BY <1>9 DEF ViewInv, RestInv, Regular, EvtAvailRequest
<1>10. CASE EvtSendStopped
  BY <1>10 DEF ViewInv, RestInv, Regular, EvtSendStopped
<1>11. CASE EvtSendEmpty
  BY <1>11 DEF ViewInv, RestInv, Regular, EvtSendEmpty
<1>12. CASE EvtSend
  BY <1>12 DEF ViewInv, RestInv, Regular, EvtSend
<1>13. CASE EvtAddResources
  BY <1>13 DEF ViewInv, RestInv, Regular, EvtAddResources
<1>14. CASE EvtAddResourcesFailed
  BY <1>14 DEF ViewInv, RestInv, Regular, EvtAddResourcesFailed
<1>15. CASE EvtStop
  BY <1>15 DEF ViewInv, RestInv, Regular, EvtStop
<1>16. CASE EvtDestroy
  BY <1>16 DEF ViewInv, RestInv, Regular, EvtDestroy
<1> QED  BY <1>1, <1>2, <1>3, <1>4, <1>5, <1>6, <1>7, <1>8, <1>9, <1>10, <1>11, <1>12, <1>13, <1>14, <1>15, <1>16 DEF Begin

\* The rounds of baidu_ca_run.
LEMMA ViewInvRun == ASSUME ViewInv, RestInv, Regular, RunStep PROVE ViewInv'
<1>1. CASE RunRegistered
  BY <1>1 DEF ViewInv, RestInv, Regular, RunRegistered
<1>2. CASE RunConnect
  BY <1>2 DEF ViewInv, RestInv, Regular, RunConnect
<1>3. CASE RunSend
  BY <1>3 DEF ViewInv, RestInv, Regular, RunSend
<1>4. CASE RunRecvContent
  BY <1>4 DEF ViewInv, RestInv, Regular, RunRecvContent
<1>5. CASE RunRecvOther
  BY <1>5 DEF ViewInv, RestInv, Regular, RunRecvOther
<1>6. CASE RunInitialized
  BY <1>6 DEF ViewInv, RestInv, Regular, RunInitialized
<1>7. CASE RunEnd
  BY <1>7 DEF ViewInv, RestInv, Regular, RunEnd
<1> QED  BY <1>1, <1>2, <1>3, <1>4, <1>5, <1>6, <1>7 DEF RunStep

\* The task goes on with its handler.
LEMMA ViewInvContinue == ASSUME ViewInv, RestInv, Regular, Continue PROVE ViewInv'
<1>1. CASE RunStep
  BY <1>1, ViewInvRun
<1>2. CASE FinishStart
  BY <1>2 DEF ViewInv, RestInv, Regular, FinishStart
<1>3. CASE FinishAvail
  BY <1>3 DEF ViewInv, RestInv, Regular, FinishAvail
<1>4. CASE CallbackReturn
  BY <1>4 DEF ViewInv, RestInv, Regular, CallbackReturn
<1>5. CASE SendTaken
  BY <1>5 DEF ViewInv, RestInv, Regular, SendTaken
<1>6. CASE SendBlocked
  BY <1>6 DEF ViewInv, RestInv, Regular, SendBlocked
<1>7. CASE SendFailed
  BY <1>7 DEF ViewInv, RestInv, Regular, SendFailed
<1>8. CASE Release
  BY <1>8 DEF ViewInv, RestInv, Regular, Release
<1>9. CASE Pop
  BY <1>9 DEF ViewInv, RestInv, Regular, Pop
<1>10. CASE Destroyed
  BY <1>10 DEF ViewInv, RestInv, Regular, Destroyed
<1>11. CASE NotifyStarted
  BY <1>11 DEF ViewInv, RestInv, Regular, NotifyStarted
<1>12. CASE NotifyNothing
  BY <1>12 DEF ViewInv, RestInv, Regular, NotifyNothing
<1>13. CASE NotifySent
  BY <1>13 DEF ViewInv, RestInv, Regular, NotifySent
<1>14. CASE NotifyFailed
  BY <1>14 DEF ViewInv, RestInv, Regular, NotifyFailed
<1> QED  BY <1>1, <1>2, <1>3, <1>4, <1>5, <1>6, <1>7, <1>8, <1>9, <1>10, <1>11, <1>12, <1>13, <1>14 DEF Continue

\* The other tasks and threads do not touch what ViewInv speaks of, but for the
\* SEND_TIMEOUT of the mbed port.
LEMMA ViewInvOthers ==
    ASSUME ViewInv, RestInv, Regular,
           \/ Application \/ TimerRestart \/ TimerAlive
           \/ SockRecvReady \/ SockSendTimeout \/ SockStep
           \/ \E t \in Threads : CallStep(t)
    PROVE  ViewInv'
<1>1. CASE Application
  <2>1. UNCHANGED <<taskVars, caVars, app>>
    BY <1>1 DEF Application, Control, duer_initialize, duer_start, duer_stop,
                duer_finalize, duer_add_resources, duer_data_report, duer_response
  <2>2. QED  BY <2>1 DEF ViewInv
<1>2. CASE TimerRestart \/ TimerAlive \/ SockRecvReady \/ SockStep
  <2>1. UNCHANGED <<taskVars, caVars, app>>
    BY <1>2 DEF TimerRestart, TimerAlive, SockRecvReady, SockStep, SockSendReady,
                SockClearBlocked, SockClearData
  <2>2. QED  BY <2>1 DEF ViewInv
<1>3. CASE SockSendTimeout
  BY <1>3 DEF SockSendTimeout, ViewInv, Regular
<1>4. CASE \E t \in Threads : CallStep(t)
  <2>1. UNCHANGED <<taskVars, caVars, app>>
    BY <1>4 DEF CallStep, PushAccepted, PushFailed, PushIntoFreed, CheckLength, PostSend
  <2>2. QED  BY <2>1 DEF ViewInv
<1>5. QED  BY <1>1, <1>2, <1>3, <1>4

\* Every step keeps ViewInv on a regular port.
LEMMA ViewInvNext == ViewInv /\ RestInv /\ Regular /\ [Next]_vars => ViewInv'
<1>1. ASSUME ViewInv /\ RestInv /\ Regular, UNCHANGED vars PROVE ViewInv'
  BY <1>1 DEF ViewInv, vars
<1>2. QED  BY <1>1, ViewInvBegin, ViewInvContinue, ViewInvOthers DEF Next, TaskStep

\* ViewInv holds throughout.
THEOREM ViewAlways == ASSUME Regular PROVE Spec => []ViewInv
<1>1. Init => ViewInv
  BY DEF Init, ViewInv
<1>2. ViewInv /\ RestInv /\ [Next]_vars => ViewInv'
  BY ViewInvNext
<1>3. QED  BY <1>1, <1>2, RestAlways, PTL DEF Spec

\* Unless an answer has an odd header, the application was told STARTED exactly
\* when the connection is started, between any two events.
THEOREM AppAlwaysRight == ASSUME Regular PROVE Spec => []AppViewCorrect
<1>1. ViewInv => AppViewCorrect
  BY DEF ViewInv, AppViewCorrect, AtRest
<1>2. QED  BY <1>1, ViewAlways, PTL

\* And the CoAP context exists exactly while a connection is attempted or up:
\* no stop leaks it, no send finds it missing.
THEOREM RouterAlwaysMatches == ASSUME Regular PROVE Spec => []RouterMatchesState
<1>1. ViewInv => RouterMatchesState
  BY DEF ViewInv, RouterMatchesState, AtRest
<1>2. QED  BY <1>1, ViewAlways, PTL
-----------------------------------------------------------------------------
(* The retry of a half-way attempt                                         *)

\* Something will start the machine again.
Coming == timer = "armed" \/ RestartQueued

Lost == "retry_lost" \in faults

\* The handler under way arms the timer, or stops or destroys the engine.
Settling == \/ pc \in {"run", "spinning", "finish"} /\ caller = "start"
            \/ pc = "notify_start" /\ status = "FAILED"
            \/ pc \in Closing

\* AttemptRetried speaks of the moments between two events: inside a start the
\* expired timer or the restart is used up already.  Only a start makes a new
\* attempt, so an answer that arrives half-way finds the retry in place.
RetryInv ==
    /\ pc \notin Closing /\ ca # "NULL" => timer # "none"
    /\ pc = "run" /\ caller # "start" =>
           ca \notin {"UNREGISTERED", "REGISTER_CONNECTED", "REGISTERED"}
    /\ Attempting /\ ~Lost => Coming \/ Settling

\* Posting an event loses none that is queued already.
LEMMA ComingPosted ==
    ASSUME LoopType, NEW f, evq' = Posted(f), timer' = timer, Coming
    PROVE  Coming'
<1>1. CASE timer = "armed"
  BY <1>1 DEF Coming
<1>2. CASE timer # "armed"
  <2>1. PICK i \in DOMAIN evq : evq[i] = "restart"
    BY <1>2 DEF Coming, RestartQueued
  <2>2. evq \in Seq(Events)
    BY DEF LoopType
  <2>3. evq' = evq \/ evq' = Append(evq, f)
    BY DEF Posted
  <2>4. i \in DOMAIN evq' /\ evq'[i] = evq[i]
    BY <2>1, <2>2, <2>3, AppendProperties
  <2>5. QED  BY <2>1, <2>4 DEF Coming, RestartQueued
<1>3. QED  BY <1>1, <1>2

\* The task takes another event, and the timer stays armed if it was.
LEMMA ComingTaken ==
    ASSUME LoopType, NEW f, f # "restart", Take(f), Coming,
           timer = "armed" => timer' = "armed"
    PROVE  Coming'
<1>1. CASE timer = "armed"
  BY <1>1 DEF Coming
<1>2. CASE timer # "armed"
  <2>1. PICK i \in DOMAIN evq : evq[i] = "restart"
    BY <1>2 DEF Coming, RestartQueued
  <2>2. evq \in Seq(Events) /\ evq # <<>> /\ evq' = Tail(evq) /\ Head(evq) = f
    BY DEF LoopType
  <2>3. i # 1 /\ i \in 1 .. Len(evq)
    BY <2>1, <2>2
  <2>4. i - 1 \in DOMAIN evq' /\ evq'[i - 1] = evq[i]
    BY <2>2, <2>3
  <2>5. QED  BY <2>1, <2>4 DEF Coming, RestartQueued
<1>3. QED  BY <1>1, <1>2

\* A step that starts nothing, and takes no retry away.
LEMMA RetryKept ==
    ASSUME RetryInv, faults \subseteq faults',
           ca' = ca, timer = "none" <=> timer' = "none",
           pc' \in Closing <=> pc \in Closing,
           pc' = "run" => pc = "run" /\ caller' = caller,
           Settling => Settling',
           Coming => Coming' \/ Lost'
    PROVE  RetryInv'
BY DEF RetryInv, Lost, Attempting

\* A step after which no attempt rests half-way.
LEMMA RetryMoot ==
    ASSUME RetryInv, ~Attempting' \/ Settling',
           ca' # "NULL" => pc' \in Closing \/ timer' # "none",
           pc' # "run"
    PROVE  RetryInv'
BY DEF RetryInv

\* The task takes an event.
LEMMA RetryBegin ==
    ASSUME TInv, RestInv, RetryInv, Begin PROVE RetryInv'
<1> USE DEF Settling
<1>1. LoopType
  BY DEF TInv, TypeOK
<1>2. CASE EvtCreate
  <2>1. Coming => Coming'
    BY <1>1, <1>2, ComingTaken DEF EvtCreate, MakeQueueAndTimer
  <2>2. UNCHANGED <<pc, caller, status, faults>> /\ (Attempting' => Attempting)
    BY <1>2 DEF EvtCreate, Attempting
  <2>3. timer' # "none" /\ pc # "run"
    BY <1>2 DEF EvtCreate, MakeQueueAndTimer
  <2>4. QED  BY <2>1, <2>2, <2>3 DEF RetryInv, Lost
<1>3. CASE EvtStartIgnored
  BY <1>3, RetryMoot DEF EvtStartIgnored, Attempting, RetryInv
<1>4. CASE EvtStart \/ EvtStartBadProfile
  BY <1>4 DEF EvtStart, EvtStartBadProfile, MakeQueueAndTimer, RetryInv
<1>5. CASE EvtRestart
  BY <1>5 DEF EvtRestart, RetryInv
<1>6. CASE EvtAvailStarting
  <2>1. Attempting
    BY <1>6 DEF EvtAvailStarting, RestInv, Attempting
  <2>2. Coming => Coming'
    BY <1>1, <1>6, ComingTaken DEF EvtAvailStarting
  <2>3. /\ UNCHANGED <<ca, timer, status, faults>> /\ pc = "idle"
        /\ pc' = "run" /\ caller' = "avail"
    BY <1>6 DEF EvtAvailStarting
  <2>4. QED  BY <2>1, <2>2, <2>3 DEF RetryInv, Lost, Attempting
<1>7. CASE EvtAvailStopped \/ EvtAvailStarted \/ EvtAvailRequest \/ EvtSendStopped
  BY <1>7, RetryMoot
     DEF EvtAvailStopped, EvtAvailStarted, EvtAvailRequest, EvtSendStopped, Attempting,
         RetryInv
<1>8. CASE EvtSendEmpty \/ EvtSend
  <2>1. Coming => Coming' \/ Lost' \/ ~Attempting
    <3>1. CASE timer = "armed"
      BY <1>8, <3>1 DEF EvtSendEmpty, EvtSend, StopTimer, Fault, Lost, Coming
    <3>2. CASE timer # "armed"
      BY <1>1, <1>8, <3>2, ComingTaken DEF EvtSendEmpty, EvtSend
    <3>3. QED  BY <3>1, <3>2
  <2>2. UNCHANGED <<ca, caller>> /\ pc = "idle" /\ pc' \in {"notify_send", "sending"}
    BY <1>8 DEF EvtSendEmpty, EvtSend
  <2>3. faults \subseteq faults' /\ (timer = "none" <=> timer' = "none")
    BY <1>8 DEF EvtSendEmpty, EvtSend, StopTimer, Fault
  <2>4. QED  BY <2>1, <2>2, <2>3 DEF RetryInv, Lost, Attempting
<1>9. CASE EvtAddResources
  <2>1. Coming => Coming'
    BY <1>1, <1>9, ComingTaken DEF EvtAddResources
  <2>2. QED  BY <1>9, <2>1, RetryKept DEF EvtAddResources
<1>10. CASE EvtAddResourcesFailed \/ EvtStop
  BY <1>10, RetryMoot DEF EvtAddResourcesFailed, EvtStop, Attempting, RetryInv
<1>11. CASE EvtDestroy
  BY <1>11, RetryMoot DEF EvtDestroy
<1>12. QED
  BY <1>2, <1>3, <1>4, <1>5, <1>6, <1>7, <1>8, <1>9, <1>10, <1>11 DEF Begin

\* The rounds of baidu_ca_run: only RunRegistered makes an attempt, and it is a
\* start that made its state.
LEMMA RetryRun == ASSUME RetryInv, RunStep PROVE RetryInv'
<1> USE DEF Settling
<1>1. UNCHANGED <<evq, timer, caller>> /\ pc \in {"run", "spinning"}
  BY DEF RunStep, RunRegistered, RunConnect, RunSend, RunRecvContent, RunRecvOther,
         RunInitialized, RunEnd
<1>2. Coming' = Coming
  BY <1>1 DEF Coming, RestartQueued
<1>3. faults \subseteq faults'
  BY DEF RunStep, RunRegistered, RunConnect, RunSend, RunRecvContent, RunRecvOther,
         RunInitialized, RunEnd, Fault
<1>4. pc' \in {"run", "spinning", "finish"}
  BY <1>1 DEF RunStep, RunRegistered, RunConnect, RunSend, RunRecvContent, RunRecvOther,
              RunInitialized, RunEnd
<1>5. ca # "NULL" /\ (pc' = "run" => pc = "run")
  BY <1>1 DEF RunStep, RunRegistered, RunConnect, RunSend, RunRecvContent, RunRecvOther,
              RunInitialized, RunEnd
<1>6. Attempting' => Attempting \/ caller = "start"
  BY DEF RunStep, RunRegistered, RunConnect, RunSend, RunRecvContent, RunRecvOther,
         RunInitialized, RunEnd, Attempting, RetryInv
<1>7. ca' \in {"UNREGISTERED", "REGISTER_CONNECTED", "REGISTERED"} => FALSE
  BY DEF RunStep, RunRegistered, RunConnect, RunSend, RunRecvContent, RunRecvOther,
         RunInitialized, RunEnd
<1>8. QED
  BY <1>1, <1>2, <1>3, <1>4, <1>5, <1>6, <1>7 DEF RetryInv, Lost

\* The task goes on with its handler.
LEMMA RetryContinue == ASSUME TInv, RestInv, RetryInv, Continue PROVE RetryInv'
<1> USE DEF Settling
<1>1. CASE RunStep
  BY <1>1, RetryRun
<1>2. CASE FinishStart
  <2>1. CASE status \in {"OK", "WOULD_BLOCK"} /\ ca # "NULL"
    BY <1>2, <2>1 DEF FinishStart, RetryInv, Armed, Coming
  <2>2. CASE ~(status \in {"OK", "WOULD_BLOCK"})
    BY <1>2, <2>2 DEF FinishStart, RetryInv
  <2>3. CASE ca = "NULL"
    BY <1>2, <2>3 DEF FinishStart, RetryInv, Attempting
  <2>4. QED  BY <2>1, <2>2, <2>3
<1>3. CASE FinishAvail
  <2>1. Coming => Coming'
    BY <1>3 DEF FinishAvail, Coming, RestartQueued, Armed
  <2>2. /\ UNCHANGED <<ca, caller, faults>> /\ pc = "finish" /\ pc' = "notify_start"
        /\ caller = "avail" /\ (timer' = "none" <=> timer = "none")
    BY <1>3 DEF FinishAvail, Armed
  <2>3. QED  BY <2>1, <2>2, RetryKept
<1>4. CASE CallbackReturn \/ SendBlocked \/ SendFailed \/ Release \/ Pop
  <2>1. UNCHANGED <<evq, timer, ca, caller>> /\ faults \subseteq faults'
    BY <1>4 DEF CallbackReturn, SendBlocked, SendFailed, Release, Pop, Fault
  <2>2. /\ pc \in {"callback", "sending", "release", "pop"}
        /\ pc' \in {"notify_avail", "notify_send", "pop"}
    BY <1>4 DEF CallbackReturn, SendBlocked, SendFailed, Release, Pop
  <2>3. QED  BY <2>1, <2>2, RetryKept DEF Coming, RestartQueued
<1>5. CASE SendTaken
  <2>1. UNCHANGED <<evq, ca, caller>> /\ faults \subseteq faults' /\ timer' = Armed(timer)
    BY <1>5 DEF SendTaken, Fault
  <2>2. pc = "sending" /\ pc' = "release"
    BY <1>5 DEF SendTaken
  <2>3. QED  BY <2>1, <2>2, RetryKept DEF Coming, RestartQueued, Armed
<1>6. CASE Destroyed
  BY <1>6, RetryMoot DEF Destroyed
<1>7. CASE NotifyStarted \/ NotifyNothing
  <2>1. UNCHANGED <<evq, timer, ca, faults>> /\ pc' = "idle" /\ status # "FAILED"
    BY <1>7 DEF NotifyStarted, NotifyNothing
  <2>2. pc \in {"notify_start", "notify_avail", "notify_send"}
    BY <1>7 DEF NotifyStarted, NotifyNothing
  <2>3. QED  BY <2>1, <2>2 DEF RetryInv, Coming, RestartQueued, Lost, Attempting
<1>8. CASE NotifySent
  <2>1. Coming => Coming'
    BY <1>8, ComingPosted DEF NotifySent, Coming, RestartQueued, TInv, TypeOK
  <2>2. /\ UNCHANGED <<timer, ca, faults>> /\ pc' = "idle" /\ pc = "notify_send"
    BY <1>8 DEF NotifySent
  <2>3. QED  BY <2>1, <2>2 DEF RetryInv, Lost, Attempting
<1>9. CASE NotifyFailed
  BY <1>9, RetryMoot DEF NotifyFailed, Attempting, RetryInv
<1>10. QED
  BY <1>1, <1>2, <1>3, <1>4, <1>5, <1>6, <1>7, <1>8, <1>9 DEF Continue

\* The threads post events; the timer that expires leaves the restart behind or
\* finds the queue full.
LEMMA RetryOthers ==
    ASSUME TInv, RetryInv,
           \/ Application \/ TimerRestart \/ TimerAlive
           \/ SockRecvReady \/ SockSendTimeout \/ SockStep
           \/ \E t \in Threads : CallStep(t)
    PROVE  RetryInv'
<1> USE DEF Settling
<1>1. LoopType
  BY DEF TInv, TypeOK
<1>2. CASE Application
  <2>1. UNCHANGED <<pc, caller, status, ca, timer, faults>>
    BY <1>2 DEF Application, Control, duer_initialize, duer_start, duer_stop,
                duer_finalize, duer_add_resources, duer_data_report, duer_response
  <2>2. Coming => Coming'
    <3>1. CASE duer_initialize
      <4>1. evq' = evq \/ evq' = Append(evq, "create")
        BY <3>1 DEF duer_initialize
      <4>2. \A i \in DOMAIN evq : i \in DOMAIN evq' /\ evq'[i] = evq[i]
        BY <1>1, <4>1, AppendProperties DEF LoopType
      <4>3. QED  BY <2>1, <4>2 DEF Coming, RestartQueued
    <3>2. CASE ~duer_initialize
      <4>1. evq' = evq \/ \E f \in Events : evq' = Posted(f)
        BY <1>2, <3>2
           DEF Application, Control, duer_start, duer_stop, duer_finalize,
               duer_add_resources, duer_data_report, duer_response, Events
      <4>2. QED  BY <1>1, <2>1, <4>1, ComingPosted DEF Coming, RestartQueued
    <3>3. QED  BY <3>1, <3>2
  <2>3. QED  BY <2>1, <2>2, RetryKept
<1>3. CASE TimerRestart
  <2>1. UNCHANGED <<pc, caller, status, ca>> /\ timer = "armed" /\ timer' = "off"
    BY <1>3 DEF TimerRestart
  <2>2. faults \subseteq faults'
    BY <1>3 DEF TimerRestart, Fault
  <2>3. Attempting => RestartQueued' \/ Lost'
    BY <1>3 DEF TimerRestart, Fault, Lost
  <2>4. QED  BY <2>1, <2>2, <2>3 DEF RetryInv, Coming, Lost, Attempting
<1>4. CASE TimerAlive
  <2>1. UNCHANGED <<pc, caller, status, ca, faults>> /\ timer = "armed" /\ timer' = "off"
    BY <1>4 DEF TimerAlive
  <2>2. ~Attempting
    BY <1>4 DEF TimerAlive, Attempting
  <2>3. QED  BY <2>1, <2>2 DEF RetryInv, Attempting
<1>5. CASE SockRecvReady \/ SockStep
  <2>1. UNCHANGED <<pc, caller, status, ca, timer>> /\ faults \subseteq faults'
    BY <1>5 DEF SockRecvReady, SockStep, SockSendReady, SockClearBlocked, SockClearData, Fault
  <2>2. evq' = evq \/ \E f \in Events : evq' = Posted(f)
    BY <1>5 DEF SockRecvReady, SockStep, SockSendReady, SockClearBlocked, SockClearData,
                Events
  <2>3. Coming => Coming'
    BY <1>1, <2>1, <2>2, ComingPosted DEF Coming, RestartQueued
  <2>4. QED  BY <2>1, <2>3, RetryKept
<1>6. CASE SockSendTimeout
  BY <1>6 DEF SockSendTimeout, Attempting, RetryInv
<1>7. CASE \E t \in Threads : CallStep(t)
  <2>1. UNCHANGED <<pc, caller, status, ca, timer>> /\ faults \subseteq faults'
    BY <1>7 DEF CallStep, PushAccepted, PushFailed, PushIntoFreed, CheckLength, PostSend, Fault
  <2>2. evq' = evq \/ evq' = Posted("send")
    BY <1>7 DEF CallStep, PushAccepted, PushFailed, PushIntoFreed, CheckLength, PostSend
  <2>3. Coming => Coming'
    BY <1>1, <2>1, <2>2, ComingPosted DEF Coming, RestartQueued
  <2>4. QED  BY <2>1, <2>3, RetryKept
<1>8. QED  BY <1>2, <1>3, <1>4, <1>5, <1>6, <1>7

\* Every step keeps RetryInv.
LEMMA RetryNext == TInv /\ RestInv /\ RetryInv /\ [Next]_vars => RetryInv'
<1>1. ASSUME RetryInv, UNCHANGED vars PROVE RetryInv'
  BY <1>1 DEF RetryInv, vars, Coming, RestartQueued, Lost, Settling, Attempting
<1>2. QED  BY <1>1, RetryBegin, RetryContinue, RetryOthers DEF Next, TaskStep

\* On every port, whatever failed, blocked or was answered: an attempt that rests
\* half-way has its retry timer armed or the restart queued, unless the event
\* queue was full at an expiry or a send event stopped the timer of an attempt
\* (the end of duer_engine_start, duer_timer_expired and duer_engine_send).
THEOREM AlwaysRetried == Spec => []AttemptRetried
<1>1. Init => RetryInv
  BY DEF Init, RetryInv, Attempting
<1>2. RetryInv => AttemptRetried
  BY DEF RetryInv, AttemptRetried, AtRest, Settling, Lost, Coming
<1>3. QED  BY <1>1, <1>2, RetryNext, TInvAlways, RestAlways, PTL DEF Spec
=============================================================================
