---------------------------- MODULE SocketAdapter ----------------------------
(***************************************************************************)
(* The socket adapter of the three ports                                   *)
(* (platform/source-{freertos,mbed,linux}/baidu_ca_socket_adp.c).          *)
(*                                                                         *)
(* No thread waits in recv.  A task of its own runs bcasoc_check_data as an *)
(* event: it looks at the socket and tells the engine what it saw.  What   *)
(* makes it look again is an event it finds in its queue, posted by        *)
(* bcasoc_connect, by bcasoc_recv or by a timer of 100 ms it starts when    *)
(* there was nothing to read.  The engine's task opens, sends, receives and *)
(* closes; g_mutex keeps a check and a close apart, and nothing else.       *)
(* On Linux the task waits in select, with the mutex, and never polls.      *)
(*                                                                         *)
(* The engine is modelled by its calls (external): what it does when it is  *)
(* told RECV_RDY, SEND_RDY or SEND_TIMEOUT is in lightduer_engine.c and     *)
(* lightduer_coap.c.  An address in the queue of the task may outlive the   *)
(* bcasoc_t it named: `soc` is the address of the live one.                 *)
(* Left out: select interrupted by a signal, allocations that fail, UDP, the *)
(* receive with which the start-up asks for its answer before it is told of *)
(* one, and recv_timeout, which no adapter registers.                       *)
(***************************************************************************)
EXTENDS Naturals, Sequences

CONSTANTS
    Ports,          \* which of "freertos", "mbed" and "linux"
    Addresses,      \* addresses malloc may return for a bcasoc_t
    NoSoc,          \* none of them
    QUEUE_LENGTH,   \* events the task's queue holds (a list without end on Linux)
    MaxNotices,     \* events of the adapter the engine's queue holds
    MaxBytes,       \* bound: pieces of data the peer sends
    MaxOpens        \* bound: connections

ASSUME SocketAdapterAssumption ==
    /\ Ports \subseteq {"freertos", "mbed", "linux"}
    /\ NoSoc \notin Addresses
    /\ QUEUE_LENGTH \in Nat \ {0} /\ MaxNotices \in Nat \ {0}
    /\ MaxBytes \in Nat /\ MaxOpens \in Nat

VARIABLES
    port,       \* the port that was built
    soc, fd, is_send_block, timer,  \* the live bcasoc_t: address, fields
    old,        \* mbed: its block began more than DUER_SENDTIMEOUT ago
    queue,      \* the task's events: addresses to look at
    firing,     \* the address the timer task is about to post
    lock,       \* g_mutex: "free", "task", or "leaked" by a return without unlock
    spc, sarg, saw,     \* the task: its step, its address, what select said
    user,       \* what the engine is doing with its socket
    waiting,    \* the engine's last send was told to wait for SEND_RDY
    notices,    \* what the engine was told and has not looked at
    avail, peer, writable,  \* the network: data to read, the peer, room to write
    bytes, opens,
    lost,       \* history: whether this connection lost what keeps it polled ("poll")
                \* or what wakes its blocked sender ("wake")
    broken      \* freed memory was taken for a socket: anything may happen

socVars == <<soc, fd, is_send_block, timer, old>>
taskVars == <<spc, sarg, saw, lock>>
netVars == <<avail, peer, writable, bytes>>
userVars == <<user, waiting, opens>>
vars == <<port, socVars, queue, firing, taskVars, userVars, notices, netVars,
          lost, broken>>

Notices == {"RECV_RDY", "SEND_RDY", "SEND_TIMEOUT"}
Connected == user \in {"open", "body"}
Readable == avail > 0 \/ peer # "up"
In(x, s) == \E i \in DOMAIN s : s[i] = x

Init ==
    /\ port \in Ports
    /\ soc = NoSoc /\ fd = "closed" /\ is_send_block = FALSE /\ timer = "none"
    /\ old = FALSE
    /\ queue = <<>> /\ firing = NoSoc
    /\ spc = "idle" /\ sarg = NoSoc /\ saw = {} /\ lock = "free"
    /\ user = "none" /\ waiting = FALSE /\ opens = 0
    /\ notices = <<>>
    /\ avail = 0 /\ peer = "up" /\ writable = TRUE /\ bytes = 0
    /\ lost = {} /\ broken = FALSE

-----------------------------------------------------------------------------
(* duer_events_call on the task's loop; nobody looks at its result. *)

Fits == port = "linux" \/ Len(queue) < QUEUE_LENGTH

\* Mutant: the queue has no end.
PostCheck_Unbounded(a) == queue' = Append(queue, a) /\ UNCHANGED lost

\* A check of the address a is posted.  One that does not fit is lost; it
\* matters if the queue holds no other check of the live socket.
PostCheck(a) ==
    /\ queue' = IF Fits THEN Append(queue, a) ELSE queue
    /\ lost' = IF Fits \/ a # soc \/ In(soc, queue) THEN lost ELSE lost \cup {"poll"}

\* The engine is told n: an event of its own loop, lost if that loop is full.
Tell(n) ==
    IF Len(notices) < MaxNotices
    THEN notices' = Append(notices, n) /\ UNCHANGED lost
    ELSE /\ lost' = lost \cup CASE n = "RECV_RDY" -> {"poll"}
                                [] n = "SEND_RDY" -> {"wake"}
                                [] OTHER -> {}
         /\ UNCHANGED notices

TellNothing == UNCHANGED <<notices, lost>>

-----------------------------------------------------------------------------
(* bcasoc_create and bcasoc_connect *)

\* The connection stands: the timer is made and the first check posted.  The
\* queue may be full of checks of the socket before.
Connect(a) ==
    /\ user = "none" /\ opens < MaxOpens
    /\ soc' = a /\ fd' = "open"
    /\ timer' = "stopped"
    /\ queue' = IF Fits THEN Append(queue, a) ELSE queue
    /\ lost' = IF Fits \/ In(a, queue) THEN {} ELSE {"poll"}
    /\ user' = "open" /\ opens' = opens + 1
    /\ UNCHANGED <<port, is_send_block, old, firing, taskVars, waiting, notices, netVars, broken>>

\* socket, the name service or connect fails: the descriptor, if there is one,
\* stays open until the engine releases the transport.
ConnectFails(a) ==
    /\ user = "none" /\ opens < MaxOpens
    /\ soc' = a /\ fd' \in {"open", "closed"}
    /\ user' = "closing" /\ opens' = opens + 1
    /\ UNCHANGED <<port, is_send_block, timer, old, queue, firing, taskVars, waiting, notices,
                   netVars, lost, broken>>

-----------------------------------------------------------------------------
(* bcasoc_send *)

\* Mutant: a blocked send is not noted.
SendBlocks_Unnoted ==
    /\ port # "linux" /\ ~writable
    /\ waiting' = TRUE
    /\ lost' = IF spc = "clear" /\ sarg = soc THEN lost \cup {"wake"} ELSE lost
    /\ UNCHANGED <<user, is_send_block, old>>

\* No room: the block is noted without the mutex.  A check that has just told
\* the engine of room is about to clear the note.
SendBlocks ==
    /\ port # "linux" /\ ~writable
    /\ is_send_block' = TRUE /\ old' = FALSE /\ waiting' = TRUE
    /\ lost' = IF spc = "clear" /\ sarg = soc THEN lost \cup {"wake"} ELSE lost
    /\ UNCHANGED user

\* There is room, and however much is taken the caller is told that all is.
SendGoes ==
    /\ writable
    /\ waiting' = FALSE
    /\ UNCHANGED <<user, is_send_block, old, lost>>

\* A broken connection, or on Linux ten seconds without room.
SendFails ==
    /\ peer = "reset" \/ (port = "linux" /\ ~writable)
    /\ user' = "closing"
    /\ UNCHANGED <<waiting, is_send_block, old, lost>>

Send == SendBlocks \/ SendGoes \/ SendFails

\* A report, or the start-up, sends; or SEND_RDY makes the engine send.
EngineSends ==
    /\ user = "open" /\ UNCHANGED notices
    /\ Send
    /\ UNCHANGED <<port, soc, fd, timer, queue, firing, taskVars, opens, netVars, broken>>

HandleSendReady ==
    /\ user = "open"
    /\ notices # <<>> /\ Head(notices) = "SEND_RDY" /\ notices' = Tail(notices)
    /\ Send
    /\ UNCHANGED <<port, soc, fd, timer, queue, firing, taskVars, opens, netVars, broken>>

-----------------------------------------------------------------------------
(* bcasoc_recv: header first, then the body. *)

\* Data: whoever asks for the header may ask for the body next.
RecvSome ==
    /\ avail > 0
    /\ avail' \in 0 .. avail - 1
    /\ user' \in IF user = "body" THEN {"open"} ELSE {"open", "body"}
    /\ PostCheck(soc)

\* Nothing there: FreeRTOS posts a check all the same.
RecvNothing ==
    /\ ~Readable
    /\ user' = "open" /\ UNCHANGED avail
    /\ IF port = "freertos" THEN PostCheck(soc) ELSE UNCHANGED <<queue, lost>>

\* The peer has closed.  0 bytes is an error on mbed and to the TLS library; to
\* the others it is nothing, and on Linux nothing looks at the socket again.
RecvEnd ==
    /\ avail = 0 /\ peer = "closed" /\ UNCHANGED avail
    /\ user' \in IF port = "mbed" THEN {"closing"} ELSE {"open", "closing"}
    /\ IF port = "freertos" THEN PostCheck(soc)
       ELSE UNCHANGED queue /\ lost' = lost \cup {"poll"}

\* The connection is broken: the engine stops.
RecvFails ==
    /\ peer = "reset" /\ UNCHANGED avail
    /\ user' = "closing"
    /\ IF port = "freertos" THEN PostCheck(soc) ELSE UNCHANGED <<queue, lost>>

Recv == RecvSome \/ RecvNothing \/ RecvEnd \/ RecvFails

\* Whoever has a header asks for its body.
ReceiveBody ==
    /\ user = "body" /\ UNCHANGED notices
    /\ Recv
    /\ UNCHANGED <<port, socVars, firing, taskVars, waiting, opens,
                   peer, writable, bytes, broken>>

HandleRecvReady ==
    /\ user = "open"
    /\ notices # <<>> /\ Head(notices) = "RECV_RDY" /\ notices' = Tail(notices)
    /\ Recv
    /\ UNCHANGED <<port, socVars, firing, taskVars, waiting, opens,
                   peer, writable, bytes, broken>>

-----------------------------------------------------------------------------
(* The engine stops; bcasoc_close and bcasoc_destroy. *)

EngineStops ==
    /\ user = "open"
    /\ user' = "closing"
    /\ \/ /\ notices # <<>> /\ Head(notices) = "SEND_TIMEOUT"
          /\ notices' = Tail(notices)
       \/ UNCHANGED notices
    /\ UNCHANGED <<port, socVars, queue, firing, taskVars, waiting, opens, netVars,
                   lost, broken>>

\* Told of a socket when there is none.
HandleStopped ==
    /\ user = "none" /\ notices # <<>>
    /\ notices' = Tail(notices)
    /\ UNCHANGED <<port, socVars, queue, firing, taskVars, userVars, netVars, lost, broken>>

\* Under the mutex.  Checks of this socket that wait in the queue stay there.
Close ==
    /\ user = "closing" /\ lock = "free"
    /\ fd' = "closed" /\ timer' = "none"
    /\ user' = "closed"
    /\ UNCHANGED <<port, soc, is_send_block, old, queue, firing, taskVars, waiting,
                   opens, notices, netVars, lost, broken>>

Destroy ==
    /\ user = "closed"
    /\ soc' = NoSoc /\ is_send_block' = FALSE /\ old' = FALSE
    /\ user' = "none" /\ waiting' = FALSE
    /\ avail' = 0 /\ peer' = "up" /\ writable' = TRUE /\ lost' = {}
    /\ UNCHANGED <<port, fd, timer, queue, firing, taskVars, opens, notices, bytes, broken>>

-----------------------------------------------------------------------------
(* bcasoc_check_data, in the task *)

\* The descriptor is tested before the lock is taken.
Take ==
    /\ spc = "idle" /\ queue # <<>>
    /\ queue' = Tail(queue)
    /\ \/ /\ Head(queue) = soc /\ fd = "open"
          /\ spc' = "lock" /\ sarg' = soc /\ UNCHANGED broken
       \/ /\ Head(queue) = soc /\ fd = "closed"
          /\ UNCHANGED <<spc, sarg, broken>>
       \/ /\ Head(queue) # soc
          /\ broken' \in BOOLEAN /\ UNCHANGED <<spc, sarg>>
    /\ UNCHANGED <<port, socVars, firing, saw, lock, userVars, notices, netVars, lost>>

\* The socket may have been closed in the meantime: FreeRTOS and mbed do not
\* look again.
Lock ==
    /\ spc = "lock" /\ lock = "free"
    /\ sarg = soc /\ (port = "linux" => fd = "open")
    /\ lock' = "task" /\ spc' = "look"
    /\ UNCHANGED <<port, socVars, queue, firing, sarg, saw, userVars, notices, netVars,
                   lost, broken>>

\* Linux looks again, and returns without giving the mutex back.
LockLeaks ==
    /\ spc = "lock" /\ lock = "free"
    /\ port = "linux" /\ (sarg = soc => fd = "closed")
    /\ lock' = "leaked" /\ spc' = "idle" /\ sarg' = NoSoc
    /\ broken' \in IF sarg = soc THEN {FALSE} ELSE BOOLEAN
    /\ UNCHANGED <<port, socVars, queue, firing, saw, userVars, notices, netVars, lost>>

\* The socket has been freed: select fails on the descriptor it was left with,
\* or the memory holds something else by now.
LockStray ==
    /\ spc = "lock" /\ lock = "free"
    /\ port # "linux" /\ sarg # soc
    /\ spc' = "idle" /\ sarg' = NoSoc /\ broken' \in BOOLEAN
    /\ UNCHANGED <<port, socVars, queue, firing, saw, lock, userVars, notices,
                   netVars, lost>>

\* The next thing to do once select has said s, and once the engine was told of
\* a time-out, or of data.
AfterRecv(s) == IF "write" \in s THEN "send" ELSE "arm"
AfterTimeout(s) == IF "read" \in s THEN "recv" ELSE AfterRecv(s)
AfterLook(s) == IF port = "mbed" /\ ((is_send_block /\ old) \/ sarg # soc)
                THEN "timeout" ELSE AfterTimeout(s)

\* select: at once, or on Linux when there is something to read.
Look ==
    /\ spc = "look"
    /\ port = "linux" => Readable
    /\ saw' = IF sarg # soc \/ fd = "closed" THEN {"error"}
              ELSE (IF Readable THEN {"read"} ELSE {})
                   \cup (IF writable /\ port # "linux" THEN {"write"} ELSE {})
    /\ spc' = AfterLook(saw')
    /\ UNCHANGED <<port, socVars, queue, firing, sarg, lock, userVars, notices, netVars,
                   lost, broken>>

\* mbed: a send that waits for more than eight seconds.  The flag may be read
\* from a socket that has just been freed.
TellTimeout ==
    /\ spc = "timeout" /\ spc' = AfterTimeout(saw)
    /\ IF sarg = soc
       THEN old' = FALSE /\ Tell("SEND_TIMEOUT")
       ELSE UNCHANGED old /\ (TellNothing \/ (sarg # soc /\ Tell("SEND_TIMEOUT")))
    /\ UNCHANGED <<port, soc, fd, is_send_block, timer, queue, firing, sarg, saw, lock,
                   userVars, netVars, broken>>

TellRecv ==
    /\ spc = "recv" /\ spc' = AfterRecv(saw)
    /\ Tell("RECV_RDY")
    /\ UNCHANGED <<port, socVars, queue, firing, sarg, saw, lock, userVars, netVars, broken>>

TellSend ==
    /\ spc = "send"
    /\ IF is_send_block
       THEN spc' = "clear" /\ Tell("SEND_RDY")
       ELSE spc' = "arm" /\ TellNothing
    /\ UNCHANGED <<port, socVars, queue, firing, sarg, saw, lock, userVars, netVars, broken>>

\* The note of the block is cleared after the engine was told.
ClearBlock ==
    /\ spc = "clear" /\ spc' = "arm"
    /\ is_send_block' = FALSE /\ old' = FALSE
    /\ UNCHANGED <<port, soc, fd, timer, queue, firing, sarg, saw, lock, userVars, notices,
                   netVars, lost, broken>>

\* Mutant: the timer is not started when select finds nothing ready.
Arm_ReadyOnly ==
    /\ spc = "arm" /\ spc' = "idle" /\ lock' = "free" /\ sarg' = NoSoc /\ saw' = {}
    /\ timer' = IF saw = {"write"} /\ timer # "none" THEN "armed" ELSE timer
    /\ UNCHANGED <<port, soc, fd, is_send_block, old, queue, firing, userVars,
                   notices, netVars, lost, broken>>

\* Mutant: a failed select returns without giving the mutex back.
Arm_ErrorKeepsLock ==
    /\ spc = "arm" /\ spc' = "idle" /\ sarg' = NoSoc /\ saw' = {}
    /\ lock' = IF "error" \in saw THEN lock ELSE "free"
    /\ timer' = IF saw \subseteq {"write"} /\ timer # "none" THEN "armed" ELSE timer
    /\ UNCHANGED <<port, soc, fd, is_send_block, old, queue, firing, userVars,
                   notices, netVars, lost, broken>>

\* Nothing to read: look again in 100 ms.  The mutex is given back.
Arm ==
    /\ spc = "arm" /\ spc' = "idle" /\ lock' = "free" /\ sarg' = NoSoc /\ saw' = {}
    /\ timer' = IF saw \subseteq {"write"} /\ timer # "none" THEN "armed" ELSE timer
    /\ UNCHANGED <<port, soc, fd, is_send_block, old, queue, firing, userVars,
                   notices, netVars, lost, broken>>

-----------------------------------------------------------------------------
(* The timer's task, time and the network *)

TimerExpires ==
    /\ timer = "armed" /\ firing = NoSoc
    /\ timer' = "stopped" /\ firing' = soc
    /\ UNCHANGED <<port, soc, fd, is_send_block, old, queue, taskVars, userVars, notices,
                   netVars, lost, broken>>

\* bcasoc_timer_expired, for a socket that may be gone.
TimerPosts ==
    /\ firing # NoSoc /\ firing' = NoSoc
    /\ PostCheck(firing)
    /\ UNCHANGED <<port, socVars, taskVars, userVars, notices, netVars, broken>>

BlockLasts ==
    /\ port = "mbed" /\ is_send_block /\ ~old
    /\ old' = TRUE
    /\ UNCHANGED <<port, soc, fd, is_send_block, timer, queue, firing, taskVars, userVars,
                   notices, netVars, lost, broken>>

Network ==
    /\ Connected /\ peer = "up"
    /\ \/ /\ bytes < MaxBytes
          /\ avail' = avail + 1 /\ bytes' = bytes + 1 /\ UNCHANGED <<peer, writable>>
       \/ /\ writable' = ~writable /\ UNCHANGED <<avail, peer, bytes>>
       \/ /\ peer' \in {"closed", "reset"} /\ writable' = TRUE /\ UNCHANGED <<avail, bytes>>
    /\ UNCHANGED <<port, socVars, queue, firing, taskVars, userVars, notices, lost, broken>>

-----------------------------------------------------------------------------
UserStep ==
    \/ \E a \in Addresses : Connect(a) \/ ConnectFails(a)
    \/ EngineSends \/ HandleSendReady \/ ReceiveBody \/ HandleRecvReady
    \/ EngineStops \/ HandleStopped \/ Close \/ Destroy

TaskStep ==
    \/ Take \/ Lock \/ LockLeaks \/ LockStray
    \/ Look \/ TellTimeout \/ TellRecv \/ TellSend \/ ClearBlock \/ Arm

TimerStep == TimerExpires \/ TimerPosts

Next == ~broken /\ (UserStep \/ TaskStep \/ TimerStep \/ BlockLasts \/ Network)

\* The task and the timer run on.  A close that waits for the mutex gets it in
\* the end if it is free again and again: between two checks the task sleeps.
Fairness == /\ WF_vars(~broken /\ TaskStep) /\ WF_vars(~broken /\ TimerStep)
            /\ SF_vars(~broken /\ Close)

Spec == Init /\ [][Next]_vars /\ Fairness

-----------------------------------------------------------------------------
TypeOK ==
    /\ port \in Ports
    /\ soc \in Addresses \cup {NoSoc} /\ firing \in Addresses \cup {NoSoc}
    /\ fd \in {"open", "closed"} /\ timer \in {"none", "stopped", "armed"}
    /\ is_send_block \in BOOLEAN /\ old \in BOOLEAN
    /\ queue \in Seq(Addresses) /\ (port # "linux" => Len(queue) <= QUEUE_LENGTH)
    /\ spc \in {"idle", "lock", "look", "timeout", "recv", "send", "clear", "arm"}
    /\ sarg \in Addresses \cup {NoSoc} /\ saw \subseteq {"read", "write", "error"}
    /\ lock \in {"free", "task", "leaked"}
    /\ user \in {"none", "open", "body", "closing", "closed"}
    /\ waiting \in BOOLEAN /\ opens \in 0 .. MaxOpens
    /\ notices \in Seq(Notices) /\ Len(notices) <= MaxNotices
    /\ avail \in 0 .. MaxBytes /\ peer \in {"up", "closed", "reset"}
    /\ writable \in BOOLEAN /\ bytes \in 0 .. MaxBytes
    /\ lost \subseteq {"poll", "wake"}
    /\ broken \in BOOLEAN

\* While the connection stands somebody is going to look at it again: a check is
\* queued, running or about to be posted, the timer runs, or the engine has yet
\* to look at RECV_RDY.  Polling ends in three ways only: a RECV_RDY or a
\* check that found its queue full, and an end of stream that nobody took for one.
PollAlive ==
    Connected /\ "poll" \notin lost =>
        \/ In(soc, queue) \/ firing = soc \/ timer = "armed"
        \/ (spc # "idle" /\ sarg = soc)
        \/ In("RECV_RDY", notices)

\* An engine that was told to wait for room will be told of it: the note of the
\* block stands, or SEND_RDY is under way.  It is lost in two ways only: in the
\* engine's full queue, or when a send blocks between the call of the callback
\* and the line that clears the note (SEND_RDY, is_send_block = 0).
BlockedSendWoken ==
    Connected /\ waiting /\ "wake" \notin lost =>
        is_send_block \/ In("SEND_RDY", notices)

\* A close gets the mutex: bcasoc_close returns, unless on Linux the task waits
\* in select with the mutex or has returned without giving it back.
CloseReturns ==
    user = "closing" ~> \/ user = "closed" \/ broken
                        \/ (port = "linux" /\ (lock = "leaked" \/ spc = "look"))
=============================================================================
