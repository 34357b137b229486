------------------------------ MODULE Connagent ------------------------------
(***************************************************************************)
(* The connection agent of libduer-device on a port whose event queue is   *)
(* bounded (FreeRTOS and mbed):                                            *)
(*   lightduer_connagent.c  the public API; every call posts an event,     *)
(*   lightduer_engine.c     the handlers the "lightduer_ca" task runs, the *)
(*                          report queue and the keep-alive timer,         *)
(*   lightduer_ca.c         the start-up state machine of the connection.  *)
(*                                                                         *)
(* Actors.  The event task runs one handler at a time; application         *)
(* threads, the timer task and the socket task post events to it and push  *)
(* to the report queue.  A handler is split into steps wherever another    *)
(* actor can see, or change, what it uses.                                 *)
(*                                                                         *)
(* The mutex of the report queue is taken to exclude, as rtos::Mutex of    *)
(* the mbed port does.  The FreeRTOS adapter only tries it, and its callers*)
(* go on when the try fails: QueueCache shows what the queue is then.      *)
(***************************************************************************)
EXTENDS Naturals, Sequences, FiniteSets

CONSTANTS
    Reporters,      \* application threads that call duer_data_report/duer_response
    QUEUE_LENGTH,   \* capacity of the lightduer_ca event queue (10 in the code, mbed: 20)
    Calls,          \* the API calls and expiries that happen in a scenario
    Faults,         \* the bad outcomes that happen in a scenario
    MaxCalls,       \* bound: control calls the application makes
    MaxMsgs,        \* bound: messages ever built
    MaxAvail        \* bound: RECV_RDY notifications queued at one time

AllCalls  == {"initialize", "start", "stop", "add_resources", "finalize",
              "report", "response", "request", "keepalive"}
AllFaults == {"would_block", "failed", "reg_fail", "odd_header",
              "bad_profile", "no_memory", "send_timeout", "peer_close"}

ASSUME ScenarioAssumption == Calls \subseteq AllCalls /\ Faults \subseteq AllFaults
ASSUME BoundAssumption ==
    /\ QUEUE_LENGTH \in Nat \ {0}
    /\ MaxCalls \in Nat /\ MaxMsgs \in Nat /\ MaxAvail \in Nat

EventTask == "lightduer_ca"
TimerTask == "timer"
Threads   == Reporters \cup {EventTask, TimerTask}

ASSUME ThreadAssumption == EventTask \notin Reporters /\ TimerTask \notin Reporters

-----------------------------------------------------------------------------
(* Types.  The RPT_*, REPORTING and REPORTED states are never assigned in  *)
(* this build (no DUER_UDP_REPORTER); "NULL" is g_handler == NULL.         *)

CaStates == {"NULL", "STOPED", "UNREGISTERED", "REGISTER_CONNECTED", "REGISTERED",
             "SR_CONNECTING", "SR_DATA_SENDING", "SR_DATA_RECEIVING",
             "SR_INITIALIZED", "STARTED", "REGISTER_FAIL"}

\* "start" carries a profile; "restart" is duer_engine_start(0, NULL).
Events == {"create", "start", "restart", "add_resources", "send", "avail",
           "stop", "destroy"}

Pcs == {"idle", "run", "spinning", "finish", "notify_start", "notify_avail", "notify_send",
        "callback", "sending", "release", "pop", "destroy", "deleted"}

\* POSITIVE is a byte count returned where DUER_OK was meant.
Statuses == {"OK", "WOULD_BLOCK", "FAILED", "POSITIVE"}

Msgs   == 1 .. MaxMsgs
NoMsg  == 0

VARIABLES
    loop,           \* g_events_handler was created
    evq,            \* the queue of the lightduer_ca task
    pc, caller, status, cur,    \* the running handler and its locals
    ca,             \* g_handler and its state
    sr,             \* ctx->sr points to a CoAP context
    resCache,       \* ctx->res_list
    qcache,         \* g_qcache_handler: "none", "live", "freed" (still pointed to), "gone"
    queue,          \* the messages in the report queue, oldest first
    timer,          \* g_timer: "none", "off", "armed" (one shot)
    app,            \* the last event the application was told
    spc,            \* where the socket task is in a notification
    sendBlocked,    \* soc->is_send_block
    rpc, rmsg,      \* where each thread is in a report/response call; its message
    nextMsg,        \* the next message to be built
    calls,          \* control calls made so far (bounded by MaxCalls)
    accepted,       \* history: the messages pushed, in order
    sent,           \* history: the messages the transport took, in order
    freed,          \* history: the messages released
    faults          \* history: the memory errors; the loss of the present attempt's retry

loopVars   == <<loop, evq>>
taskVars   == <<pc, caller, status, cur>>
caVars     == <<ca, sr, resCache>>
queueVars  == <<qcache, queue>>
sockVars   == <<spc, sendBlocked>>
threadVars == <<rpc, rmsg, nextMsg>>
histVars   == <<accepted, sent, freed, faults>>
vars == <<loopVars, taskVars, caVars, queueVars, timer, app, sockVars,
          threadVars, calls, histVars>>

-----------------------------------------------------------------------------
is_started == ca \in {"STARTED", "REGISTER_FAIL"}
is_stopped == ca \in {"NULL", "STOPED"}
sr_ready   == ca \in {"SR_INITIALIZED", "STARTED", "REGISTER_FAIL"}
Attempting == ca \in {"SR_CONNECTING", "SR_DATA_SENDING", "SR_DATA_RECEIVING"}

qcache_length == IF qcache = "live" THEN Len(queue) ELSE 0

\* Mutation: no bound on the queue.
Posted_Unbounded(f) == IF loop THEN Append(evq, f) ELSE evq

\* duer_events_call_internal: nothing waits for room, the event is lost.
Posted(f) == IF loop /\ Len(evq) < QUEUE_LENGTH THEN Append(evq, f) ELSE evq

\* The head of the queue is the next event and the task takes it.
Take(f) == /\ pc = "idle"
           /\ evq # <<>>
           /\ Head(evq) = f
           /\ evq' = Tail(evq)
           /\ UNCHANGED loop

\* The event task moves on to p with the status s.
Goto(p, s) == pc' = p /\ status' = s /\ UNCHANGED <<caller, cur>>
Return     == pc' = "idle" /\ status' = "OK" /\ caller' = "none" /\ cur' = NoMsg

Armed(t) == IF t = "none" THEN "none" ELSE "armed"

\* Mutation: the CoAP context outlives the stop.
StopEngine_KeepsRouter ==
    /\ ca' = IF ca = "NULL" THEN "NULL" ELSE "STOPED"
    /\ sendBlocked' = FALSE /\ app' = "stopped"
    /\ UNCHANGED <<sr, resCache>>

\* baidu_ca_stop and the STOPPED notification, as duer_engine_stop makes them.
\* The socket goes with the CoAP context, and so does its blocked flag.
StopEngine ==
    /\ ca' = IF ca = "NULL" THEN "NULL" ELSE "STOPED"
    /\ sr' = FALSE
    /\ sendBlocked' = FALSE
    /\ app' = "stopped"
    /\ UNCHANGED resCache

\* duer_engine_create makes whatever does not exist yet.
Created == IF ca = "NULL" THEN "STOPED" ELSE ca
MakeQueueAndTimer ==
    /\ qcache' = "live"
    /\ timer' = IF timer = "none" THEN "off" ELSE timer
    /\ UNCHANGED queue

RestartQueued == \E i \in DOMAIN evq : evq[i] = "restart"
Queued == {queue[i] : i \in DOMAIN queue}
Fault(kind, happens) == faults' = IF happens THEN faults \cup {kind} ELSE faults

Init ==
    /\ loop = FALSE /\ evq = <<>>
    /\ pc = "idle" /\ status = "OK" /\ caller = "none" /\ cur = NoMsg
    /\ ca = "NULL" /\ sr = FALSE /\ resCache = "empty"
    /\ qcache = "none" /\ queue = <<>>
    /\ timer = "none" /\ app = "none"
    /\ spc = "idle" /\ sendBlocked = FALSE
    /\ rpc = [t \in Threads |-> "idle"] /\ rmsg = [t \in Threads |-> NoMsg]
    /\ nextMsg = 1 /\ calls = 0
    /\ accepted = <<>> /\ sent = <<>> /\ freed = {} /\ faults = {}

-----------------------------------------------------------------------------
(* The application's control calls: each one only posts an event. *)

Control(call) ==
    /\ call \in Calls /\ calls < MaxCalls /\ calls' = calls + 1
    /\ UNCHANGED <<taskVars, caVars, queueVars, timer, app, sockVars, threadVars,
                   histVars>>

duer_initialize ==
    /\ Control("initialize")
    /\ loop' = TRUE
    /\ evq' = IF Len(evq) < QUEUE_LENGTH THEN Append(evq, "create") ELSE evq

duer_start == Control("start") /\ evq' = Posted("start") /\ UNCHANGED loop

duer_stop == Control("stop") /\ evq' = Posted("stop") /\ UNCHANGED loop

duer_finalize == Control("finalize") /\ evq' = Posted("destroy") /\ UNCHANGED loop

\* The state is checked here, in the caller's thread, and not again by the handler.
duer_add_resources ==
    /\ Control("add_resources")
    /\ is_started
    /\ evq' = Posted("add_resources") /\ UNCHANGED loop

-----------------------------------------------------------------------------
(* duer_data_report and duer_response, step by step in the thread t. *)

Build(t, kind) ==
    /\ rpc[t] = "idle" /\ nextMsg <= MaxMsgs /\ ca # "NULL"
    /\ rpc' = [rpc EXCEPT ![t] = kind]
    /\ rmsg' = [rmsg EXCEPT ![t] = nextMsg]
    /\ nextMsg' = nextMsg + 1

duer_data_report(t) ==
    /\ "report" \in Calls /\ qcache # "none" /\ Build(t, "push_report")
    /\ UNCHANGED <<loopVars, taskVars, caVars, queueVars, timer, app, sockVars,
                   calls, histVars>>

duer_response(t) ==
    /\ "response" \in Calls /\ Build(t, "push_response")
    /\ UNCHANGED <<loopVars, taskVars, caVars, queueVars, timer, app, sockVars,
                   calls, histVars>>

Leave(t) == /\ rpc' = [rpc EXCEPT ![t] = "idle"]
            /\ rmsg' = [rmsg EXCEPT ![t] = NoMsg]
            /\ UNCHANGED nextMsg

Pushing(t) == rpc[t] \in {"push_report", "push_response"}

\* Mutation: the new message goes to the head.
PushAccepted_AtHead(t) ==
    /\ Pushing(t) /\ qcache = "live"
    /\ queue' = <<rmsg[t]>> \o queue
    /\ accepted' = Append(accepted, rmsg[t])
    /\ rpc' = [rpc EXCEPT ![t] = IF rpc[t] = "push_report" THEN "check" ELSE "post"]
    /\ rmsg' = [rmsg EXCEPT ![t] = NoMsg]
    /\ UNCHANGED <<loopVars, taskVars, caVars, qcache, timer, app, sockVars,
                   nextMsg, calls, sent, freed, faults>>

\* Under g_qcache_mutex: the message is in the queue.
PushAccepted(t) ==
    /\ Pushing(t) /\ qcache = "live"
    /\ queue' = Append(queue, rmsg[t])
    /\ accepted' = Append(accepted, rmsg[t])
    /\ rpc' = [rpc EXCEPT ![t] = IF rpc[t] = "push_report" THEN "check" ELSE "post"]
    /\ rmsg' = [rmsg EXCEPT ![t] = NoMsg]
    /\ UNCHANGED <<loopVars, taskVars, caVars, qcache, timer, app, sockVars,
                   nextMsg, calls, sent, freed, faults>>

\* Mutation: the refused message is not released.
PushFailed_Leaks(t) ==
    /\ Pushing(t) /\ ("no_memory" \in Faults \/ qcache = "none")
    /\ Leave(t)
    /\ UNCHANGED <<loopVars, taskVars, caVars, queueVars, timer, app, sockVars,
                   calls, accepted, sent, freed, faults>>

\* No node could be allocated, or the queue is gone: the message is released
\* (kept for ever when g_handler is gone too).
PushFailed(t) ==
    /\ Pushing(t) /\ ("no_memory" \in Faults \/ qcache = "none")
    /\ freed' = IF ca = "NULL" THEN freed ELSE freed \cup {rmsg[t]}
    /\ Leave(t)
    /\ UNCHANGED <<loopVars, taskVars, caVars, queueVars, timer, app, sockVars,
                   calls, accepted, sent, faults>>

\* duer_engine_destroy has freed the queue and not yet cleared the pointer.
PushIntoFreed(t) ==
    /\ Pushing(t) /\ qcache = "freed"
    /\ Fault("push_into_freed_queue", TRUE)
    /\ Leave(t)
    /\ UNCHANGED <<loopVars, taskVars, caVars, queueVars, timer, app, sockVars,
                   calls, accepted, sent, freed>>

\* The length is read under a lock of its own, after the push released its lock.
CheckLength(t) ==
    /\ rpc[t] = "check"
    /\ rpc' = [rpc EXCEPT ![t] = IF qcache_length = 1 THEN "post" ELSE "idle"]
    /\ UNCHANGED <<loopVars, taskVars, caVars, queueVars, timer, app, sockVars,
                   rmsg, nextMsg, calls, histVars>>

\* duer_data_send; its result is not looked at.
PostSend(t) ==
    /\ rpc[t] = "post"
    /\ evq' = Posted("send")
    /\ rpc' = [rpc EXCEPT ![t] = "idle"]
    /\ UNCHANGED <<loop, taskVars, caVars, queueVars, timer, app, sockVars,
                   rmsg, nextMsg, calls, histVars>>

CallStep(t) == \/ PushAccepted(t) \/ PushFailed(t) \/ PushIntoFreed(t)
               \/ CheckLength(t) \/ PostSend(t)

-----------------------------------------------------------------------------
(* duer_timer_expired, in the timer task. *)

\* Nobody looks at what the post of the restart returns.
TimerRestart ==
    /\ timer = "armed" /\ rpc[TimerTask] = "idle" /\ ~is_started
    /\ timer' = "off"
    /\ evq' = Posted("restart")
    /\ Fault("retry_lost", Attempting /\ ~RestartQueued')
    /\ UNCHANGED <<loop, taskVars, caVars, queueVars, app, sockVars, threadVars,
                   calls, accepted, sent, freed>>

TimerAlive ==
    /\ "keepalive" \in Calls
    /\ timer = "armed" /\ is_started
    /\ timer' = "off"
    /\ qcache # "none" /\ Build(TimerTask, "push_report")
    /\ UNCHANGED <<loopVars, taskVars, caVars, queueVars, app, sockVars, calls,
                   histVars>>

-----------------------------------------------------------------------------
(* duer_transport_notify, in the socket task. *)

SockRecvReady ==
    /\ sr /\ spc = "idle"
    /\ Cardinality({i \in DOMAIN evq : evq[i] = "avail"}) < MaxAvail
    /\ evq' = Posted("avail")
    /\ UNCHANGED <<loop, taskVars, caVars, queueVars, timer, app, sockVars,
                   threadVars, calls, histVars>>

\* The notification goes out first, the flag is cleared after it.
SockSendReady ==
    /\ sr /\ spc = "idle" /\ sendBlocked
    /\ evq' = Posted(IF is_started THEN "send" ELSE "restart")
    /\ spc' = "send_ready"
    /\ UNCHANGED <<loop, taskVars, caVars, queueVars, timer, app, sendBlocked,
                   threadVars, calls, histVars>>

SockClearBlocked ==
    /\ spc = "send_ready"
    /\ spc' = "idle" /\ sendBlocked' = FALSE
    /\ UNCHANGED <<loopVars, taskVars, caVars, queueVars, timer, app, threadVars,
                   calls, histVars>>

\* SEND_TIMEOUT (mbed port only): the socket task itself stops the engine ...
SockSendTimeout ==
    /\ "send_timeout" \in Faults
    /\ sr /\ spc = "idle" /\ sendBlocked
    /\ StopEngine
    /\ spc' = "clear_data"
    /\ UNCHANGED <<loopVars, taskVars, queueVars, timer, threadVars, calls, histVars>>

\* ... and then releases every message of the queue (duer_engine_clear_data).
SockClearData ==
    /\ spc = "clear_data"
    /\ spc' = "idle"
    /\ queue' = <<>>
    /\ freed' = freed \cup Queued
    /\ Fault("double_free", Queued \cap freed # {})
    /\ UNCHANGED <<loopVars, taskVars, caVars, qcache, timer, app, sendBlocked,
                   threadVars, calls, accepted, sent>>

SockStep == SockSendReady \/ SockClearBlocked \/ SockClearData

-----------------------------------------------------------------------------
(* The handlers of the lightduer_ca task: creation and start-up. *)

EvtCreate ==
    /\ Take("create")
    /\ ca' = Created /\ MakeQueueAndTimer
    /\ UNCHANGED <<taskVars, sr, resCache, app, sockVars, threadVars, calls, histVars>>

\* duer_engine_start: nothing happens when already started.
EvtStartIgnored ==
    /\ Take("start") \/ Take("restart")
    /\ is_started
    /\ UNCHANGED <<taskVars, caVars, queueVars, timer, app, sockVars, threadVars,
                   calls, histVars>>

\* baidu_ca_start leaves STOPED and enters the loop of baidu_ca_do_start.
BeginRun(from) == /\ ca' = IF from = "STOPED" THEN "UNREGISTERED" ELSE from
                  /\ pc' = "run" /\ caller' = "start" /\ UNCHANGED <<status, cur>>

EvtStart ==
    /\ Take("start") /\ ~is_started
    /\ MakeQueueAndTimer
    /\ BeginRun(Created)
    /\ UNCHANGED <<sr, resCache, app, sockVars, threadVars, calls, histVars>>

\* baidu_ca_load_configuration refuses the profile.
EvtStartBadProfile ==
    /\ "bad_profile" \in Faults
    /\ Take("start") /\ ~is_started
    /\ MakeQueueAndTimer
    /\ ca' = Created
    /\ pc' = "finish" /\ caller' = "start" /\ status' = "FAILED" /\ UNCHANGED cur
    /\ UNCHANGED <<sr, resCache, app, sockVars, threadVars, calls, histVars>>

EvtRestart ==
    /\ Take("restart") /\ ~is_started
    /\ IF ca = "NULL"
       THEN /\ pc' = "finish" /\ caller' = "start" /\ status' = "FAILED"
            /\ UNCHANGED <<ca, cur>>
       ELSE BeginRun(ca)
    /\ UNCHANGED <<sr, resCache, queueVars, timer, app, sockVars, threadVars,
                   calls, histVars>>

-----------------------------------------------------------------------------
(* baidu_ca_do_start: baidu_ca_run is called while the state is not STARTED
   and the last result is DUER_OK.  Each round reads the state again. *)

ExitRun(s) == pc' = "finish" /\ status' = s /\ UNCHANGED <<caller, cur>>

RunUnchanged == UNCHANGED <<loopVars, queueVars, timer, app, spc, threadVars,
                            calls, accepted, sent, freed>>

\* The three rounds that only assign the next state.
RunRegistered ==
    /\ pc = "run" /\ ca \in {"UNREGISTERED", "REGISTER_CONNECTED", "REGISTERED"}
    /\ ca' = "SR_CONNECTING"
    /\ UNCHANGED <<taskVars, sr, resCache, sendBlocked, faults>> /\ RunUnchanged

\* duer_coap_connect, on a CoAP context made here when there is none.
RunConnect ==
    /\ pc = "run" /\ ca = "SR_CONNECTING"
    /\ sr' = TRUE
    /\ \/ ca' = "SR_DATA_SENDING" /\ UNCHANGED <<taskVars, sendBlocked>>
       \/ /\ "would_block" \in Faults /\ ExitRun("WOULD_BLOCK")
          /\ sendBlocked' \in {sendBlocked, TRUE} /\ UNCHANGED ca
       \/ /\ "failed" \in Faults /\ ExitRun("FAILED") /\ UNCHANGED <<ca, sendBlocked>>
    /\ UNCHANGED <<resCache, faults>> /\ RunUnchanged

\* The registration request is sent.
RunSend ==
    /\ pc = "run" /\ ca = "SR_DATA_SENDING"
    /\ \/ ca' = "SR_DATA_RECEIVING" /\ UNCHANGED <<taskVars, sendBlocked>>
       \/ /\ "would_block" \in Faults /\ ExitRun("WOULD_BLOCK")
          /\ sendBlocked' = TRUE /\ UNCHANGED ca
       \/ /\ "failed" \in Faults /\ ExitRun("FAILED") /\ UNCHANGED <<ca, sendBlocked>>
    /\ UNCHANGED <<sr, resCache, faults>> /\ RunUnchanged

\* The answer is CONTENT: the cached resources are registered and dropped.
RunRecvContent ==
    /\ pc = "run" /\ ca = "SR_DATA_RECEIVING"
    /\ ca' = "SR_INITIALIZED"
    /\ Fault("dangling_resource", resCache = "dangling")
    /\ resCache' = "empty"
    /\ UNCHANGED <<taskVars, sr, sendBlocked>> /\ RunUnchanged

\* No usable answer: nothing to read yet, an error, a refusal, a header that
\* is short or out of step, for which duer_coap_recv returns the bytes it read,
\* or the end of the stream: 0 bytes is DUER_OK, so the loop runs again, and
\* reads 0 bytes again for ever.
RunRecvOther ==
    /\ pc = "run" /\ ca = "SR_DATA_RECEIVING"
    /\ \/ ExitRun("WOULD_BLOCK") /\ UNCHANGED ca
       \/ "failed" \in Faults /\ ExitRun("FAILED") /\ UNCHANGED ca
       \/ "odd_header" \in Faults /\ ExitRun("POSITIVE") /\ UNCHANGED ca
       \/ "reg_fail" \in Faults /\ ExitRun("FAILED") /\ ca' = "REGISTER_FAIL"
       \/ /\ "peer_close" \in Faults /\ pc' = "spinning"
          /\ UNCHANGED <<status, caller, cur, ca>>
    /\ UNCHANGED <<sr, resCache, sendBlocked, faults>> /\ RunUnchanged

\* Mutation: the round does not assign the state.
RunInitialized_Stays ==
    /\ pc = "run" /\ ca = "SR_INITIALIZED"
    /\ UNCHANGED <<ca, taskVars, sr, resCache, sendBlocked, faults>> /\ RunUnchanged

RunInitialized ==
    /\ pc = "run" /\ ca = "SR_INITIALIZED"
    /\ ca' = "STARTED"
    /\ UNCHANGED <<taskVars, sr, resCache, sendBlocked, faults>> /\ RunUnchanged

\* The loop ends: started, or (SEND_TIMEOUT) stopped by the socket task meanwhile.
RunEnd ==
    /\ pc \in {"run", "spinning"} /\ ca \in {"STARTED", "STOPED"}
    /\ ExitRun(IF ca = "STARTED" THEN "OK" ELSE "FAILED")
    /\ UNCHANGED <<caVars, sendBlocked, faults>> /\ RunUnchanged

RunStep == \/ RunRegistered \/ RunConnect \/ RunSend \/ RunRecvContent
           \/ RunRecvOther \/ RunInitialized \/ RunEnd

\* Mutation: only a completed start arms the timer.
FinishStart_NoRetry ==
    /\ pc = "finish" /\ caller = "start"
    /\ LET s == IF status \in {"OK", "WOULD_BLOCK"} THEN status ELSE "FAILED"
       IN  /\ timer' = IF s = "OK" THEN Armed(timer) ELSE timer
           /\ Goto("notify_start", s)
    /\ faults' = faults \ {"retry_lost"}
    /\ UNCHANGED <<loopVars, caVars, queueVars, app, sockVars, threadVars, calls,
                   accepted, sent, freed>>

\* The end of duer_engine_start: keep-alive or retry timer.
FinishStart ==
    /\ pc = "finish" /\ caller = "start"
    /\ LET s == IF status \in {"OK", "WOULD_BLOCK"} THEN status ELSE "FAILED"
       IN  /\ timer' = IF s = "FAILED" THEN timer ELSE Armed(timer)
           /\ Goto("notify_start", s)
    /\ faults' = faults \ {"retry_lost"}
    /\ UNCHANGED <<loopVars, caVars, queueVars, app, sockVars, threadVars, calls,
                   accepted, sent, freed>>

\* Mutation: a connection still waiting for the answer counts as started.
FinishAvail_BlockedIsOk ==
    /\ pc = "finish" /\ caller = "avail"
    /\ LET s == IF status = "FAILED" THEN status ELSE "OK"
       IN  /\ timer' = IF s = "OK" THEN Armed(timer) ELSE timer
           /\ Goto("notify_start", s)
    /\ UNCHANGED <<loopVars, caVars, queueVars, app, sockVars, threadVars, calls,
                   histVars>>

\* The end of duer_engine_data_available when it was not started: only a
\* negative result is a failure.
FinishAvail ==
    /\ pc = "finish" /\ caller = "avail"
    /\ LET s == IF status = "POSITIVE" THEN "OK" ELSE status
       IN  /\ timer' = IF s = "OK" THEN Armed(timer) ELSE timer
           /\ Goto("notify_start", s)
    /\ UNCHANGED <<loopVars, caVars, queueVars, app, sockVars, threadVars, calls,
                   histVars>>

-----------------------------------------------------------------------------
(* duer_engine_data_available *)

EvtAvailStopped ==
    /\ Take("avail") /\ is_stopped
    /\ UNCHANGED <<taskVars, caVars, queueVars, timer, app, sockVars, threadVars,
                   calls, histVars>>

EvtAvailStarting ==
    /\ Take("avail") /\ ~is_stopped /\ ~is_started
    /\ pc' = "run" /\ caller' = "avail" /\ UNCHANGED <<status, cur>>
    /\ UNCHANGED <<caVars, queueVars, timer, app, sockVars, threadVars, calls,
                   histVars>>

EvtAvailStarted ==
    /\ Take("avail") /\ is_started
    /\ \/ Goto("notify_avail", "OK")
       \/ "would_block" \in Faults /\ Goto("notify_avail", "WOULD_BLOCK")
       \/ "failed" \in Faults /\ Goto("notify_avail", "FAILED")
    /\ UNCHANGED <<caVars, queueVars, timer, app, sockVars, threadVars, calls,
                   histVars>>

\* The message is a request of the server; its resource's callback answers it
\* with duer_response, in the event task.
EvtAvailRequest ==
    /\ "request" \in Calls
    /\ Take("avail") /\ is_started
    /\ pc' = "callback" /\ UNCHANGED <<status, caller, cur>>
    /\ Build(EventTask, "push_response")
    /\ UNCHANGED <<caVars, queueVars, timer, app, sockVars, calls, histVars>>

CallbackReturn ==
    /\ pc = "callback" /\ rpc[EventTask] = "idle"
    /\ Goto("notify_avail", "OK")
    /\ UNCHANGED <<loopVars, caVars, queueVars, timer, app, sockVars, threadVars,
                   calls, histVars>>

-----------------------------------------------------------------------------
(* duer_engine_send *)

EvtSendStopped ==
    /\ Take("send") /\ is_stopped
    /\ Goto("notify_send", "OK")
    /\ UNCHANGED <<caVars, queueVars, timer, app, sockVars, threadVars, calls,
                   histVars>>

\* The timer is stopped first, the one that retries a start too; with nothing to
\* send it is not started again.
StopTimer == /\ timer' = IF timer = "none" THEN "none" ELSE "off"
             /\ Fault("retry_lost", Attempting /\ timer = "armed" /\ ~RestartQueued')
             /\ UNCHANGED <<accepted, sent, freed>>

EvtSendEmpty ==
    /\ Take("send") /\ ~is_stopped /\ queue = <<>>
    /\ StopTimer
    /\ Goto("notify_send", "OK")
    /\ UNCHANGED <<caVars, queueVars, app, sockVars, threadVars, calls>>

EvtSend ==
    /\ Take("send") /\ ~is_stopped /\ queue # <<>>
    /\ StopTimer
    /\ cur' = Head(queue) /\ pc' = "sending" /\ UNCHANGED <<caller, status>>
    /\ UNCHANGED <<caVars, queueVars, app, sockVars, threadVars, calls>>

\* baidu_ca_send_data: the transport takes the message,
SendTaken ==
    /\ pc = "sending" /\ sr
    /\ sent' = Append(sent, cur)
    /\ Fault("use_after_free", cur \in freed)
    /\ timer' = Armed(timer)
    /\ Goto("release", "OK")
    /\ UNCHANGED <<loopVars, caVars, queueVars, app, sockVars, threadVars, calls,
                   accepted, freed>>

\* cannot take it now (it stays in the queue and the timer stays off),
SendBlocked ==
    /\ "would_block" \in Faults
    /\ pc = "sending" /\ sr
    /\ sendBlocked' = TRUE
    /\ Goto("notify_send", "WOULD_BLOCK")
    /\ UNCHANGED <<loopVars, caVars, queueVars, timer, app, spc, threadVars, calls,
                   histVars>>

\* or fails; so does the call when the socket task has released the context.
SendFailed ==
    /\ pc = "sending" /\ ("failed" \in Faults \/ ~sr)
    /\ Goto("notify_send", "FAILED")
    /\ UNCHANGED <<loopVars, caVars, queueVars, timer, app, sockVars, threadVars,
                   calls, histVars>>

\* duer_engine_release_data(msg), outside the lock ...
Release ==
    /\ pc = "release"
    /\ freed' = freed \cup {cur}
    /\ Fault("double_free", cur \in freed)
    /\ Goto("pop", "OK")
    /\ UNCHANGED <<loopVars, caVars, queueVars, timer, app, sockVars, threadVars,
                   calls, accepted, sent>>

\* Mutation: the sent message stays at the head.
Pop_Nothing ==
    /\ pc = "pop"
    /\ Goto("notify_send", "OK")
    /\ UNCHANGED <<loopVars, caVars, queueVars, timer, app, sockVars, threadVars,
                   calls, histVars>>

\* ... and then whatever heads the queue is popped, under it.
Pop ==
    /\ pc = "pop"
    /\ queue' = IF queue = <<>> THEN <<>> ELSE Tail(queue)
    /\ Fault("lost_message", queue # <<>> /\ Head(queue) # cur)
    /\ Goto("notify_send", "OK")
    /\ UNCHANGED <<loopVars, caVars, qcache, timer, app, sockVars, threadVars,
                   calls, accepted, sent, freed>>

-----------------------------------------------------------------------------
(* Resources, stop and destruction. *)

\* baidu_ca_add_resources registers the list with the CoAP context.  Before
\* SR_INITIALIZED it copies the list and keeps its path pointers, which the
\* ADD_RESOURCES notification then frees.
EvtAddResources ==
    /\ Take("add_resources")
    /\ resCache' = IF sr_ready THEN resCache ELSE "dangling"
    /\ UNCHANGED <<taskVars, ca, sr, queueVars, timer, app, sockVars, threadVars,
                   calls, histVars>>

\* No room for the copy of the list: the failed notification stops the engine.
EvtAddResourcesFailed ==
    /\ "no_memory" \in Faults
    /\ Take("add_resources") /\ ~sr_ready /\ resCache = "empty"
    /\ StopEngine
    /\ UNCHANGED <<taskVars, queueVars, timer, spc, threadVars, calls, histVars>>

EvtStop ==
    /\ Take("stop")
    /\ StopEngine
    /\ UNCHANGED <<taskVars, queueVars, timer, spc, threadVars, calls, histVars>>

\* duer_engine_destroy up to duer_qcache_destroy ...
EvtDestroy ==
    /\ Take("destroy")
    /\ timer' = "none"
    /\ queue' = <<>>
    /\ freed' = freed \cup Queued
    /\ Fault("double_free", Queued \cap freed # {})
    /\ qcache' = IF qcache = "live" THEN "freed" ELSE qcache
    /\ pc' = "destroy" /\ UNCHANGED <<status, caller, cur>>
    /\ UNCHANGED <<caVars, app, sockVars, threadVars, calls, accepted, sent>>

\* ... and to its end.  The DESTROY notification calls duer_events_destroy in
\* the task it deletes: vTaskDelete does not return, so that neither the queue
\* is deleted nor g_events_handler cleared.
Destroyed ==
    /\ pc = "destroy"
    /\ qcache' = "none"
    /\ ca' = "NULL" /\ sr' = FALSE /\ sendBlocked' = FALSE /\ resCache' = "empty"
    /\ pc' = "deleted" /\ UNCHANGED <<status, caller, cur>>
    /\ UNCHANGED <<loopVars, queue, timer, app, spc, threadVars, calls, histVars>>

-----------------------------------------------------------------------------
(* duer_engine_notify_callback, which ends every handler. *)

NotifyUnchanged == UNCHANGED <<queueVars, timer, spc, threadVars, calls, histVars>>

NotifyStarted ==
    /\ pc = "notify_start" /\ status = "OK"
    /\ app' = "started" /\ Return
    /\ UNCHANGED <<loopVars, caVars, sendBlocked>> /\ NotifyUnchanged

NotifyNothing ==
    /\ \/ pc = "notify_start" /\ status = "WOULD_BLOCK"
       \/ pc = "notify_avail" /\ status # "FAILED"
       \/ pc = "notify_send" /\ status = "WOULD_BLOCK"
    /\ Return
    /\ UNCHANGED <<loopVars, caVars, app, sendBlocked>> /\ NotifyUnchanged

\* Mutation: the rest of the queue waits for the next report.
NotifySent_NoRepost ==
    /\ pc = "notify_send" /\ status = "OK" /\ Return
    /\ UNCHANGED <<loopVars, caVars, app, sendBlocked>> /\ NotifyUnchanged

\* More to send: the next send event is posted, also when the engine is stopped.
NotifySent ==
    /\ pc = "notify_send" /\ status = "OK"
    /\ evq' = IF qcache_length > 0 THEN Posted("send") ELSE evq
    /\ Return
    /\ UNCHANGED <<loop, caVars, app, sendBlocked>> /\ NotifyUnchanged

\* Mutation: the failure is only logged.
NotifyFailed_LogsOnly ==
    /\ pc \in {"notify_start", "notify_avail", "notify_send"} /\ status = "FAILED"
    /\ Return
    /\ UNCHANGED <<loopVars, caVars, app, sendBlocked>> /\ NotifyUnchanged

\* A failed action stops the engine at once, in the same task.
NotifyFailed ==
    /\ pc \in {"notify_start", "notify_avail", "notify_send"} /\ status = "FAILED"
    /\ StopEngine /\ Return
    /\ UNCHANGED loopVars /\ NotifyUnchanged

-----------------------------------------------------------------------------
Begin == \/ EvtCreate \/ EvtStartIgnored \/ EvtStart \/ EvtStartBadProfile \/ EvtRestart
         \/ EvtAvailStopped \/ EvtAvailStarting \/ EvtAvailStarted \/ EvtAvailRequest
         \/ EvtSendStopped \/ EvtSendEmpty \/ EvtSend
         \/ EvtAddResources \/ EvtAddResourcesFailed \/ EvtStop \/ EvtDestroy

Continue == \/ RunStep \/ FinishStart \/ FinishAvail \/ CallbackReturn
            \/ SendTaken \/ SendBlocked \/ SendFailed \/ Release \/ Pop \/ Destroyed
            \/ NotifyStarted \/ NotifyNothing \/ NotifySent \/ NotifyFailed

TaskStep == Begin \/ Continue

Application == \/ duer_initialize \/ duer_start \/ duer_stop \/ duer_finalize
               \/ duer_add_resources
               \/ \E t \in Reporters : duer_data_report(t) \/ duer_response(t)

Next == \/ Application
        \/ TaskStep
        \/ TimerRestart \/ TimerAlive
        \/ SockRecvReady \/ SockSendTimeout \/ SockStep
        \/ \E t \in Threads : CallStep(t)

\* The scheduler runs every task that can run; the application calls when it likes.
Fairness == /\ WF_vars(TaskStep)
            /\ WF_vars(SockStep)
            /\ WF_vars(TimerRestart \/ TimerAlive)
            /\ \A t \in Threads : WF_vars(CallStep(t))

Spec == Init /\ [][Next]_vars /\ Fairness

-----------------------------------------------------------------------------
(* Properties.  "At rest" is between two events of the lightduer_ca task. *)

AtRest == pc = "idle"

LoopType == loop \in BOOLEAN /\ evq \in Seq(Events) /\ Len(evq) <= QUEUE_LENGTH
TaskType == /\ pc \in Pcs /\ status \in Statuses
            /\ caller \in {"none", "start", "avail"} /\ cur \in Msgs \cup {NoMsg}
CaType == /\ ca \in CaStates /\ sr \in BOOLEAN /\ resCache \in {"empty", "dangling"}
          /\ app \in {"none", "started", "stopped"}
QueueType == /\ qcache \in {"none", "live", "freed"} /\ queue \in Seq(Msgs)
             /\ timer \in {"none", "off", "armed"}
SockType == spc \in {"idle", "send_ready", "clear_data"} /\ sendBlocked \in BOOLEAN
ThreadType ==
    /\ rpc \in [Threads -> {"idle", "push_report", "push_response", "check", "post"}]
    /\ rmsg \in [Threads -> Msgs \cup {NoMsg}]
    /\ nextMsg \in 1 .. MaxMsgs + 1 /\ calls \in 0 .. MaxCalls
HistType ==
    /\ accepted \in Seq(Msgs) /\ sent \in Seq(Msgs) /\ freed \subseteq Msgs
    /\ faults \subseteq {"push_into_freed_queue", "double_free", "use_after_free",
                         "lost_message", "dangling_resource", "retry_lost"}

\* Every variable stays in its type; the event queue within its capacity.
TypeOK == /\ LoopType /\ TaskType /\ CaType /\ QueueType /\ SockType
          /\ ThreadType /\ HistType

\* Whatever failed, blocked or was refused, the start-up machine rests only in
\* a state a later event can take up.  In particular REGISTER_FAIL, which
\* baidu_ca_is_started takes for started, is always undone by the handler
\* that reached it (engine_stop through the failed notification).
RestsResumable ==
    AtRest => ca \in {"NULL", "STOPED", "SR_CONNECTING", "SR_DATA_SENDING",
                      "SR_DATA_RECEIVING", "STARTED"}

\* A connection attempt that rests half-way is taken up again: its retry timer
\* is armed, or the restart is on its way to the event task.  Since the start that
\* made it two things only give it up: the event queue is full when the timer expires,
\* or a send event, of an earlier connection or of a report, stops the timer.
AttemptRetried ==
    AtRest /\ Attempting /\ "retry_lost" \notin faults =>
        timer = "armed" \/ RestartQueued

\* As long as the server keeps the connection open, the loop of
\* baidu_ca_do_start ends: the event task does not stay in one handler, with
\* the connection's mutex held and every other event waiting.
StartLoopEnds == pc = "run" ~> pc # "run"

\* The CoAP context exists exactly while a connection is attempted or up.
RouterMatchesState ==
    AtRest => (sr <=> ca \notin {"NULL", "STOPED"})

\* The application was told STARTED exactly when the connection is STARTED.
AppViewCorrect ==
    AtRest => (app = "started" <=> ca = "STARTED")

\* A message is released once: never twice, never before it is sent, and the
\* message popped is the one that was sent.
MessagesReleasedOnce ==
    faults \cap {"double_free", "use_after_free", "lost_message"} = {}

\* Between two events a built message has exactly one owner: the thread still
\* pushing it, the queue, or nobody because it was released.
Held == {rmsg[t] : t \in Threads} \ {NoMsg}
EveryMessageOwned ==
    AtRest /\ qcache = "live" =>
        /\ 1 .. nextMsg - 1 = Held \cup Queued \cup freed
        /\ Held \cap Queued = {} /\ Held \cap freed = {} /\ Queued \cap freed = {}

\* The report queue implements the FIFO outbox (on the ports that never raise
\* SEND_TIMEOUT): nothing is sent twice, out of order or skipped.
Box == INSTANCE Outbox WITH Message <- Msgs, closed <- pc \in {"destroy", "deleted"}
FifoOutbox == Box!OSpec

\* The transport never gets the messages in another order than that of their
\* acceptance, on any port: sent is a subsequence of accepted.
Position(m) == CHOOSE i \in DOMAIN accepted : accepted[i] = m
SentInOrder ==
    \A i, j \in DOMAIN sent : i < j => Position(sent[i]) < Position(sent[j])

\* An accepted message reaches the transport, unless the connection goes down.
ReportsDelivered ==
    \A n \in Msgs : (Len(accepted) >= n /\ ca = "STARTED")
                        ~> (Len(sent) >= n \/ ca # "STARTED")
=============================================================================
