------------------------ MODULE SocketAdapterProofs ------------------------
(***************************************************************************)
(* The socket adapter, for every set of ports and addresses and all sizes  *)
(* of the queues: polling does not die, and a blocked send is woken.       *)
(***************************************************************************)
EXTENDS SocketAdapter, TLAPS

-----------------------------------------------------------------------------
(* Sequences *)

LEMMA InAppend ==
    ASSUME NEW S, NEW s \in Seq(S), NEW e \in S
    PROVE  /\ Append(s, e) \in Seq(S) /\ Len(Append(s, e)) = Len(s) + 1
           /\ In(e, Append(s, e))
           /\ \A x : In(x, s) => In(x, Append(s, e))
<1>1. /\ Append(s, e) \in Seq(S) /\ Len(Append(s, e)) = Len(s) + 1
      /\ Append(s, e)[Len(s) + 1] = e
      /\ \A i \in 1 .. Len(s) : Append(s, e)[i] = s[i]
  OBVIOUS
<1>2. /\ DOMAIN s = 1 .. Len(s) /\ DOMAIN Append(s, e) = 1 .. Len(s) + 1
      /\ Len(s) \in Nat
  BY <1>1
<1>3. In(e, Append(s, e))
  BY <1>1, <1>2 DEF In
<1>4. ASSUME NEW x, In(x, s) PROVE In(x, Append(s, e))
  BY <1>1, <1>2, <1>4 DEF In
<1>5. QED
  BY <1>1, <1>3, <1>4

LEMMA InTail ==
    ASSUME NEW S, NEW s \in Seq(S), s # <<>>
    PROVE  /\ Tail(s) \in Seq(S) /\ Len(Tail(s)) = Len(s) - 1 /\ Head(s) \in S
           /\ \A x : In(x, s) => x = Head(s) \/ In(x, Tail(s))
<1>1. /\ Tail(s) \in Seq(S) /\ Len(Tail(s)) = Len(s) - 1 /\ Head(s) = s[1]
      /\ Head(s) \in S /\ \A i \in 1 .. Len(s) - 1 : Tail(s)[i] = s[i + 1]
  OBVIOUS
<1>2. /\ DOMAIN s = 1 .. Len(s) /\ DOMAIN Tail(s) = 1 .. Len(s) - 1 /\ Len(s) \in Nat
  BY <1>1
<1>3. ASSUME NEW x, In(x, s), x # Head(s) PROVE In(x, Tail(s))
  <2>1. PICK i \in 1 .. Len(s) : s[i] = x
    BY <1>2, <1>3 DEF In
  <2>2. i - 1 \in 1 .. Len(s) - 1 /\ Tail(s)[i - 1] = x
    BY <1>1, <1>2, <1>3, <2>1
  <2>3. QED
    BY <1>2, <2>2 DEF In
<1>4. QED
  BY <1>1, <1>3

USE DEF vars, socVars, taskVars, netVars, userVars, Notices, Connected, Readable

-----------------------------------------------------------------------------
(* Type correctness *)

\* What is there to read was counted, and whoever has a socket has its address.
TInv == TypeOK /\ avail <= bytes /\ (user # "none" => soc \in Addresses)

LEMMA PostTyped ==
    ASSUME TInv, NEW a \in Addresses, PostCheck(a)
    PROVE  /\ queue' \in Seq(Addresses) /\ (port # "linux" => Len(queue') <= QUEUE_LENGTH)
           /\ lost' \subseteq {"poll", "wake"}
  BY InAppend, SocketAdapterAssumption DEF TInv, TypeOK, PostCheck, Fits

LEMMA TellTyped ==
    ASSUME TInv, NEW n \in Notices, Tell(n)
    PROVE  /\ notices' \in Seq(Notices) /\ Len(notices') <= MaxNotices
           /\ lost' \subseteq {"poll", "wake"}
<1>1. /\ notices \in Seq(Notices) /\ Len(notices) \in Nat /\ Len(notices) <= MaxNotices
      /\ lost \subseteq {"poll", "wake"} /\ MaxNotices \in Nat
  BY SocketAdapterAssumption DEF TInv, TypeOK
<1>2. CASE Len(notices) < MaxNotices
  <2>1. notices' = Append(notices, n) /\ lost' = lost
    BY <1>2 DEF Tell
  <2>2. Append(notices, n) \in Seq(Notices) /\ Len(Append(notices, n)) = Len(notices) + 1
    BY <1>1, InAppend
  <2>3. QED
    BY <1>1, <1>2, <2>1, <2>2
<1>3. CASE ~(Len(notices) < MaxNotices)
  BY <1>1, <1>3 DEF Tell
<1>4. QED
  BY <1>2, <1>3

LEMMA NoticeTaken ==
    ASSUME TInv, notices # <<>>, notices' = Tail(notices)
    PROVE  notices' \in Seq(Notices) /\ Len(notices') <= MaxNotices
  BY InTail, SocketAdapterAssumption DEF TInv, TypeOK

LEMMA TInvOpen ==
    ASSUME TInv, NEW a \in Addresses, Connect(a) \/ ConnectFails(a)
    PROVE  TInv'
<1>1. opens' \in 0 .. MaxOpens
  BY SocketAdapterAssumption DEF TInv, TypeOK, Connect, ConnectFails
<1>2. CASE Connect(a)
  <2>1. queue' \in Seq(Addresses) /\ (port # "linux" => Len(queue') <= QUEUE_LENGTH)
    BY <1>2, InAppend, SocketAdapterAssumption DEF TInv, TypeOK, Connect, Fits
  <2>2. QED
    BY <1>1, <1>2, <2>1 DEF TInv, TypeOK, Connect
<1>3. CASE ConnectFails(a)
  BY <1>1, <1>3 DEF TInv, TypeOK, ConnectFails
<1>4. QED
  BY <1>2, <1>3

LEMMA TInvSends == ASSUME TInv, EngineSends \/ HandleSendReady PROVE TInv'
<1>1. /\ user' \in {"open", "closing"} /\ waiting' \in BOOLEAN
      /\ is_send_block' \in BOOLEAN /\ old' \in BOOLEAN
      /\ lost' \subseteq {"poll", "wake"}
  BY DEF TInv, TypeOK, EngineSends, HandleSendReady, Send, SendBlocks, SendGoes, SendFails
<1>2. notices' \in Seq(Notices) /\ Len(notices') <= MaxNotices
  BY NoticeTaken DEF TInv, TypeOK, EngineSends, HandleSendReady
<1>3. /\ UNCHANGED <<port, soc, fd, timer, queue, firing, taskVars, opens, netVars, broken>>
      /\ user # "none"
  BY DEF EngineSends, HandleSendReady
<1>4. QED
  BY <1>1, <1>2, <1>3 DEF TInv, TypeOK

LEMMA TInvReceives == ASSUME TInv, ReceiveBody \/ HandleRecvReady PROVE TInv'
<1>1. soc \in Addresses /\ Recv
  BY DEF TInv, ReceiveBody, HandleRecvReady
<1>2. /\ queue' \in Seq(Addresses) /\ (port # "linux" => Len(queue') <= QUEUE_LENGTH)
      /\ lost' \subseteq {"poll", "wake"}
  BY <1>1, PostTyped
  DEF TInv, TypeOK, Recv, RecvSome, RecvNothing, RecvEnd, RecvFails
<1>3. avail' \in 0 .. avail /\ user' \in {"open", "body", "closing"}
  BY <1>1 DEF TInv, TypeOK, Recv, RecvSome, RecvNothing, RecvEnd, RecvFails
<1>4. avail' \in 0 .. MaxBytes /\ avail' <= bytes
  BY <1>3, SocketAdapterAssumption DEF TInv, TypeOK
<1>5. notices' \in Seq(Notices) /\ Len(notices') <= MaxNotices
  BY NoticeTaken DEF TInv, TypeOK, ReceiveBody, HandleRecvReady
<1>6. UNCHANGED <<port, socVars, firing, taskVars, waiting, opens, peer, writable, bytes,
                  broken>>
  BY DEF ReceiveBody, HandleRecvReady
<1>7. QED
  BY <1>1, <1>2, <1>3, <1>4, <1>5, <1>6 DEF TInv, TypeOK

LEMMA TInvStops ==
    ASSUME TInv, EngineStops \/ HandleStopped \/ Close \/ Destroy
    PROVE  TInv'
<1>1. notices' \in Seq(Notices) /\ Len(notices') <= MaxNotices
  BY NoticeTaken DEF TInv, TypeOK, EngineStops, HandleStopped, Close, Destroy
<1>2. CASE EngineStops \/ HandleStopped
  <2>1. /\ UNCHANGED <<port, socVars, queue, firing, taskVars, waiting, opens, netVars, lost,
                       broken>>
        /\ user' \in {"none", "closing"} /\ (user' # "none" => user # "none")
    BY <1>2 DEF EngineStops, HandleStopped
  <2>2. QED
    BY <1>1, <2>1 DEF TInv, TypeOK
<1>3. CASE Close
  BY <1>1, <1>3 DEF TInv, TypeOK, Close
<1>4. CASE Destroy
  <2>1. 0 \in 0 .. MaxBytes /\ (bytes \in 0 .. MaxBytes => 0 <= bytes)
    BY SocketAdapterAssumption
  <2>2. /\ soc' = NoSoc /\ is_send_block' = FALSE /\ old' = FALSE /\ user' = "none"
        /\ waiting' = FALSE /\ avail' = 0 /\ peer' = "up" /\ writable' = TRUE /\ lost' = {}
        /\ UNCHANGED <<port, fd, timer, queue, firing, taskVars, opens, bytes, broken>>
    BY <1>4 DEF Destroy
  <2>3. is_send_block' \in BOOLEAN /\ old' \in BOOLEAN /\ waiting' \in BOOLEAN /\ writable' \in BOOLEAN
    BY <2>2
  <2>4. QED
    BY <1>1, <2>1, <2>2, <2>3 DEF TInv, TypeOK
<1>5. QED
  BY <1>2, <1>3, <1>4

LEMMA TInvTask == ASSUME TInv, TaskStep PROVE TInv'
<1>1. CASE Take
  <2>1. queue' \in Seq(Addresses) /\ (port # "linux" => Len(queue') <= QUEUE_LENGTH)
    BY <1>1, InTail, SocketAdapterAssumption DEF TInv, TypeOK, Take
  <2>2. QED
    BY <1>1, <2>1 DEF TInv, TypeOK, Take
<1>2. CASE Lock
  BY <1>2 DEF TInv, TypeOK, Lock
<1>3. CASE LockLeaks \/ LockStray
  <2>1. /\ spc' = "idle" /\ sarg' = NoSoc /\ lock' \in {lock, "leaked"}
        /\ broken' \in BOOLEAN
        /\ UNCHANGED <<port, socVars, queue, firing, saw, userVars, notices, netVars, lost>>
    BY <1>3 DEF LockLeaks, LockStray
  <2>2. QED
    BY <2>1 DEF TInv, TypeOK
<1>4. CASE Look
  BY <1>4 DEF TInv, TypeOK, Look, AfterLook, AfterTimeout, AfterRecv
<1>5. CASE TellTimeout
  <2>1. /\ notices' \in Seq(Notices) /\ Len(notices') <= MaxNotices
        /\ lost' \subseteq {"poll", "wake"}
    BY <1>5, TellTyped DEF TInv, TypeOK, TellTimeout, TellNothing
  <2>2. spc' \in {"recv", "send", "arm"} /\ old' \in BOOLEAN
    BY <1>5 DEF TInv, TypeOK, TellTimeout, AfterTimeout, AfterRecv
  <2>3. UNCHANGED <<port, soc, fd, is_send_block, timer, queue, firing, sarg, saw, lock,
                    userVars, netVars, broken>>
    BY <1>5 DEF TellTimeout
  <2>4. QED
    BY <2>1, <2>2, <2>3 DEF TInv, TypeOK
<1>6. CASE TellRecv
  <2>1. /\ notices' \in Seq(Notices) /\ Len(notices') <= MaxNotices
        /\ lost' \subseteq {"poll", "wake"}
    BY <1>6, TellTyped DEF TellRecv
  <2>2. QED
    BY <1>6, <2>1 DEF TInv, TypeOK, TellRecv, AfterRecv
<1>7. CASE TellSend
  <2>1. /\ notices' \in Seq(Notices) /\ Len(notices') <= MaxNotices
        /\ lost' \subseteq {"poll", "wake"}
    BY <1>7, TellTyped DEF TInv, TypeOK, TellSend, TellNothing
  <2>2. QED
    BY <1>7, <2>1 DEF TInv, TypeOK, TellSend
<1>8. CASE ClearBlock
  <2>1. /\ spc' = "arm" /\ is_send_block' = FALSE /\ old' = FALSE
        /\ UNCHANGED <<port, soc, fd, timer, queue, firing, sarg, saw, lock, userVars,
                       notices, netVars, lost, broken>>
    BY <1>8 DEF ClearBlock
  <2>2. is_send_block' \in BOOLEAN /\ old' \in BOOLEAN
    BY <2>1
  <2>3. QED
    BY <2>1, <2>2 DEF TInv, TypeOK
<1>9. CASE Arm
  <2>1. timer' \in {timer, "armed"} /\ UNCHANGED <<port, soc, fd, is_send_block, old, queue,
                                 firing, userVars, notices, netVars, lost, broken>>
    BY <1>9 DEF Arm
  <2>2. spc' = "idle" /\ lock' = "free" /\ sarg' = NoSoc /\ saw' = {}
    BY <1>9 DEF Arm
  <2>3. QED
    BY <2>1, <2>2 DEF TInv, TypeOK
<1>10. QED
  BY <1>1, <1>2, <1>3, <1>4, <1>5, <1>6, <1>7, <1>8, <1>9 DEF TaskStep

LEMMA TInvOthers == ASSUME TInv, TimerStep \/ BlockLasts \/ Network PROVE TInv'
<1>1. CASE TimerExpires
  BY <1>1 DEF TInv, TypeOK, TimerExpires
<1>2. CASE TimerPosts
  <2>1. firing \in Addresses
    BY <1>2 DEF TInv, TypeOK, TimerPosts
  <2>2. QED
    BY <1>2, <2>1, PostTyped DEF TInv, TypeOK, TimerPosts
<1>3. CASE BlockLasts
  BY <1>3 DEF TInv, TypeOK, BlockLasts
<1>4. CASE Network
  <2>1. peer' \in {"up", "closed", "reset"} /\ writable' \in BOOLEAN
    BY <1>4 DEF TInv, TypeOK, Network
  <2>2. \/ UNCHANGED <<avail, bytes>>
        \/ bytes < MaxBytes /\ avail' = avail + 1 /\ bytes' = bytes + 1
    BY <1>4 DEF Network
  <2>3. avail' \in 0 .. MaxBytes /\ bytes' \in 0 .. MaxBytes /\ avail' <= bytes'
    BY <2>2, SocketAdapterAssumption DEF TInv, TypeOK
  <2>4. UNCHANGED <<port, socVars, queue, firing, taskVars, userVars, notices, lost, broken>>
    BY <1>4 DEF Network
  <2>5. QED
    BY <2>1, <2>3, <2>4 DEF TInv, TypeOK
<1>5. QED
  BY <1>1, <1>2, <1>3, <1>4 DEF TimerStep

LEMMA TInvInit == Init => TInv
<1>1. /\ 0 \in 0 .. MaxBytes /\ 0 \in 0 .. MaxOpens /\ 0 <= MaxNotices
      /\ 0 <= QUEUE_LENGTH /\ 0 <= 0
      /\ <<>> \in Seq(Addresses) /\ <<>> \in Seq(Notices) /\ Len(<<>>) = 0
  BY SocketAdapterAssumption
<1>2. QED
  BY <1>1 DEF Init, TInv, TypeOK

LEMMA TInvNext == TInv /\ [Next]_vars => TInv'
<1>1. ASSUME TInv, UNCHANGED vars PROVE TInv'
  BY <1>1 DEF TInv, TypeOK
<1>2. QED
  BY <1>1, TInvOpen, TInvSends, TInvReceives, TInvStops, TInvTask, TInvOthers
  DEF Next, UserStep

\* Every variable of the adapter stays in its type: the queue of the task within
\* its bound, what is noted of the socket in its range (all of the adapter's calls).
THEOREM SocketTypeCorrect == Spec => []TypeOK
<1>1. TInv => TypeOK
  BY DEF TInv
<1>2. QED
  BY <1>1, TInvInit, TInvNext, PTL DEF Spec

-----------------------------------------------------------------------------
(* Who holds the socket *)

\* Steps of the task that have looked at the socket.
Looked == spc \in {"timeout", "recv", "send", "clear", "arm"}

\* A socket that is not open has no descriptor, and between select and the unlock
\* nobody closes the one that was looked at.
HoldInv ==
    /\ user \in {"none", "closed"} => fd = "closed"
    /\ Connected => fd = "open" /\ timer # "none"
    /\ spc = "look" => lock = "task"
    /\ Looked /\ "error" \notin saw => fd = "open" /\ sarg = soc /\ lock = "task"
    /\ spc \in {"send", "clear"} => "error" \notin saw
    /\ "error" \in saw => saw = {"error"}

LEMMA HoldUser == ASSUME TInv, HoldInv, UserStep PROVE HoldInv'
<1>1. ASSUME NEW a \in Addresses, Connect(a) PROVE HoldInv'
  BY <1>1 DEF HoldInv, Looked, Connect
<1>2. ASSUME NEW a \in Addresses, ConnectFails(a) PROVE HoldInv'
  BY <1>2 DEF HoldInv, Looked, ConnectFails
<1>3. ASSUME UNCHANGED <<soc, fd, timer, taskVars>>, user' \in {"open", "body", "closing"},
             Connected
      PROVE  HoldInv'
  BY <1>3 DEF HoldInv, Looked
<1>4. CASE EngineSends \/ HandleSendReady
  BY <1>3, <1>4
  DEF EngineSends, HandleSendReady, Send, SendBlocks, SendGoes, SendFails
<1>5. CASE ReceiveBody \/ HandleRecvReady
  BY <1>3, <1>5
  DEF ReceiveBody, HandleRecvReady, Recv, RecvSome, RecvNothing, RecvEnd, RecvFails
<1>6. CASE EngineStops
  BY <1>3, <1>6 DEF EngineStops
<1>7. CASE HandleStopped
  BY <1>7 DEF HoldInv, Looked, HandleStopped
<1>8. CASE Close
  BY <1>8 DEF HoldInv, Looked, Close
<1>9. CASE Destroy
  BY <1>9 DEF HoldInv, Looked, Destroy
<1>10. QED
  BY <1>1, <1>2, <1>4, <1>5, <1>6, <1>7, <1>8, <1>9 DEF UserStep

LEMMA HoldTask == ASSUME TInv, HoldInv, TaskStep PROVE HoldInv'
<1>1. CASE Take \/ Lock \/ LockLeaks \/ LockStray
  BY <1>1 DEF HoldInv, Looked, Take, Lock, LockLeaks, LockStray
<1>2. CASE Look
  <2>1. lock = "task" /\ UNCHANGED <<soc, fd, timer, user, sarg, lock>>
    BY <1>2 DEF HoldInv, Look
  <2>2. spc' \in {"timeout", "recv", "send", "arm"} /\ (spc' = "send" => "write" \in saw')
    BY <1>2 DEF Look, AfterLook, AfterTimeout, AfterRecv
  <2>3. CASE sarg # soc \/ fd = "closed"
    <3>1. saw' = {"error"}
      BY <1>2, <2>3 DEF Look
    <3>2. QED
      BY <2>1, <2>2, <3>1 DEF HoldInv, Looked
  <2>4. CASE sarg = soc /\ fd = "open"
    <3>1. saw' \subseteq {"read", "write"}
      BY <1>2, <2>4 DEF Look
    <3>2. QED
      BY <2>1, <2>2, <2>4, <3>1 DEF HoldInv, Looked
  <2>5. QED
    BY <2>3, <2>4 DEF TInv, TypeOK
<1>3. ASSUME UNCHANGED <<soc, fd, timer, user, sarg, saw, lock>>, Looked, Looked',
             spc' \in {"send", "clear"} => "error" \notin saw
      PROVE  HoldInv'
  BY <1>3 DEF HoldInv, Looked
<1>4. CASE TellTimeout \/ TellRecv
  <2>1. /\ UNCHANGED <<soc, fd, timer, user, sarg, saw, lock>> /\ Looked
        /\ spc' \in {"recv", "send", "arm"} /\ (spc' = "send" => "write" \in saw)
    BY <1>4 DEF Looked, TellTimeout, TellRecv, AfterTimeout, AfterRecv
  <2>2. "write" \in saw => "error" \notin saw
    BY DEF HoldInv
  <2>3. QED
    BY <1>3, <2>1, <2>2 DEF Looked
<1>5. CASE TellSend \/ ClearBlock
  BY <1>3, <1>5 DEF HoldInv, Looked, TellSend, ClearBlock
<1>6. CASE Arm
  BY <1>6 DEF HoldInv, Looked, Arm
<1>7. QED
  BY <1>1, <1>2, <1>4, <1>5, <1>6 DEF TaskStep

LEMMA HoldOthers == ASSUME TInv, HoldInv, TimerStep \/ BlockLasts \/ Network PROVE HoldInv'
  BY DEF HoldInv, Looked, TimerStep, TimerExpires, TimerPosts, BlockLasts, Network

LEMMA HoldNext == TInv /\ HoldInv /\ [Next]_vars => HoldInv'
<1>1. ASSUME HoldInv, UNCHANGED vars PROVE HoldInv'
  BY <1>1 DEF HoldInv, Looked
<1>2. QED
  BY <1>1, HoldUser, HoldTask, HoldOthers DEF Next

-----------------------------------------------------------------------------
(* Blocked senders *)

LEMMA TellKeeps ==
    ASSUME TInv, NEW n \in Notices, Tell(n)
    PROVE  /\ lost \subseteq lost' /\ \A x : In(x, notices) => In(x, notices')
           /\ \/ In(n, notices') \/ n = "SEND_TIMEOUT"
              \/ n = "RECV_RDY" /\ "poll" \in lost'
              \/ n = "SEND_RDY" /\ "wake" \in lost'
<1>1. notices \in Seq(Notices)
  BY DEF TInv, TypeOK
<1>2. CASE Len(notices) < MaxNotices
  BY <1>1, <1>2, InAppend DEF Tell
<1>3. CASE ~(Len(notices) < MaxNotices)
  <2>1. /\ notices' = notices /\ lost \subseteq lost'
        /\ n = "RECV_RDY" => "poll" \in lost' /\ (n = "SEND_RDY" => "wake" \in lost')
    BY <1>3 DEF Tell
  <2>2. n = "SEND_RDY" => "wake" \in lost'
    BY <1>3 DEF Tell
  <2>3. QED
    BY <2>1, <2>2
<1>4. QED
  BY <1>2, <1>3

LEMMA PostKeeps ==
    ASSUME TInv, NEW a \in Addresses, PostCheck(a)
    PROVE  /\ lost \subseteq lost' /\ \A x : In(x, queue) => In(x, queue')
           /\ a = soc => In(a, queue') \/ "poll" \in lost'
<1>1. queue \in Seq(Addresses)
  BY DEF TInv, TypeOK
<1>2. QED
  BY <1>1, InAppend DEF PostCheck

\* The engine takes a notice other than x.
LEMMA TakeKeeps ==
    ASSUME TInv, notices # <<>>, notices' = Tail(notices)
    PROVE  \A x : In(x, notices) /\ x # Head(notices) => In(x, notices')
  BY InTail DEF TInv, TypeOK

\* Once the engine was told of room and the note of the block is about to go, a
\* send that waits has SEND_RDY before it.
WakeInv ==
    /\ user = "none" => ~waiting
    /\ BlockedSendWoken
    /\ spc = "clear" /\ Connected /\ waiting /\ "wake" \notin lost =>
           In("SEND_RDY", notices)

LEMMA WakeSends ==
    ASSUME TInv, HoldInv, WakeInv, EngineSends \/ HandleSendReady
    PROVE  WakeInv'
<1>1. Send /\ spc' = spc /\ user = "open"
  BY DEF EngineSends, HandleSendReady
<1>2. CASE SendBlocks
  <2>1. spc = "clear" => "wake" \in lost'
    BY <1>2 DEF SendBlocks, HoldInv, Looked
  <2>2. is_send_block' /\ user' = "open"
    BY <1>1, <1>2 DEF SendBlocks
  <2>3. QED
    BY <1>1, <2>1, <2>2 DEF WakeInv, BlockedSendWoken
<1>3. CASE SendGoes \/ SendFails
  BY <1>1, <1>3 DEF WakeInv, BlockedSendWoken, SendGoes, SendFails
<1>4. QED
  BY <1>1, <1>2, <1>3 DEF Send

LEMMA WakeReceives ==
    ASSUME TInv, WakeInv, ReceiveBody \/ HandleRecvReady
    PROVE  WakeInv'
<1>1. soc \in Addresses /\ Recv /\ Connected
  BY DEF TInv, ReceiveBody, HandleRecvReady
<1>2. lost \subseteq lost' /\ user' # "none"
  BY <1>1, PostKeeps DEF Recv, RecvSome, RecvNothing, RecvEnd, RecvFails
<1>3. In("SEND_RDY", notices) => In("SEND_RDY", notices')
  BY TakeKeeps DEF ReceiveBody, HandleRecvReady
<1>4. UNCHANGED <<is_send_block, spc, waiting>>
  BY DEF ReceiveBody, HandleRecvReady
<1>5. QED
  BY <1>1, <1>2, <1>3, <1>4 DEF WakeInv, BlockedSendWoken

LEMMA WakeUser == ASSUME TInv, HoldInv, WakeInv, UserStep PROVE WakeInv'
<1>1. ASSUME NEW a \in Addresses, Connect(a) \/ ConnectFails(a) PROVE WakeInv'
  BY <1>1 DEF WakeInv, BlockedSendWoken, Connect, ConnectFails
<1>2. CASE EngineStops \/ HandleStopped
  BY <1>2 DEF WakeInv, BlockedSendWoken, EngineStops, HandleStopped
<1>3. CASE Close \/ Destroy
  BY <1>3 DEF WakeInv, BlockedSendWoken, Close, Destroy
<1>4. QED
  BY <1>1, <1>2, <1>3, WakeSends, WakeReceives DEF UserStep

LEMMA WakeTask == ASSUME TInv, WakeInv, TaskStep PROVE WakeInv'
<1>1. ASSUME UNCHANGED <<user, waiting, is_send_block>>, spc' # "clear", lost \subseteq lost',
             In("SEND_RDY", notices) => In("SEND_RDY", notices')
      PROVE  WakeInv'
  BY <1>1 DEF WakeInv, BlockedSendWoken
<1>2. CASE Take \/ Lock \/ LockLeaks \/ LockStray
  BY <1>1, <1>2 DEF Take, Lock, LockLeaks, LockStray
<1>3. CASE Look
  BY <1>1, <1>3 DEF Look, AfterLook, AfterTimeout, AfterRecv
<1>4. CASE TellTimeout \/ TellRecv
  <2>1. /\ lost \subseteq lost'
        /\ In("SEND_RDY", notices) => In("SEND_RDY", notices')
    BY <1>4, TellKeeps DEF TellTimeout, TellRecv, TellNothing
  <2>2. UNCHANGED <<user, waiting, is_send_block>> /\ spc' # "clear"
    BY <1>4 DEF TellTimeout, TellRecv, AfterTimeout, AfterRecv
  <2>3. QED
    BY <1>1, <2>1, <2>2
<1>5. CASE TellSend
  BY <1>5, TellKeeps DEF TellSend, TellNothing, WakeInv, BlockedSendWoken
<1>6. CASE ClearBlock
  BY <1>6 DEF ClearBlock, WakeInv, BlockedSendWoken
<1>7. CASE Arm
  BY <1>1, <1>7 DEF Arm
<1>8. QED
  BY <1>2, <1>3, <1>4, <1>5, <1>6, <1>7 DEF TaskStep

LEMMA WakeOthers ==
    ASSUME TInv, WakeInv, TimerStep \/ BlockLasts \/ Network
    PROVE  WakeInv'
<1>1. TimerPosts => lost \subseteq lost'
  BY PostKeeps DEF TimerPosts, TInv, TypeOK
<1>2. UNCHANGED <<user, waiting, is_send_block, spc, notices>> /\ lost \subseteq lost'
  BY <1>1 DEF TimerStep, TimerExpires, TimerPosts, BlockLasts, Network
<1>3. QED
  BY <1>2 DEF WakeInv, BlockedSendWoken

LEMMA WakeNext == TInv /\ HoldInv /\ WakeInv /\ [Next]_vars => WakeInv'
<1>1. ASSUME WakeInv, UNCHANGED vars PROVE WakeInv'
  BY <1>1 DEF WakeInv, BlockedSendWoken
<1>2. QED
  BY <1>1, WakeUser, WakeTask, WakeOthers DEF Next

\* An engine that was told to wait for room in the socket will be told of it,
\* unless its queue was full or its send came between the call of the callback and
\* the line that clears the note (bcasoc_check_data, bcasoc_send).
THEOREM BlockedAlwaysWoken == Spec => []BlockedSendWoken
<1>1. Init => HoldInv /\ WakeInv
  BY DEF Init, HoldInv, Looked, WakeInv, BlockedSendWoken
<1>2. WakeInv => BlockedSendWoken
  BY DEF WakeInv
<1>3. QED
  BY <1>1, <1>2, TInvInit, TInvNext, HoldNext, WakeNext, PTL DEF Spec

-----------------------------------------------------------------------------
(* Polling *)

\* The task is going to find the socket not readable and to start the timer, or
\* has found it readable and is going to say so.
Looking ==
    /\ sarg = soc
    /\ \/ spc \in {"lock", "look"}
       \/ Looked /\ saw \subseteq {"write"}
       \/ spc \in {"timeout", "recv"} /\ "read" \in saw /\ Readable

\* The socket is looked at again; RECV_RDY counts when there is something to read.
Alive ==
    \/ In(soc, queue) \/ firing = soc \/ timer = "armed" \/ Looking
    \/ In("RECV_RDY", notices) /\ Readable

PollInv == Connected /\ "poll" \notin lost => Alive

\* A step that takes nothing away.
LEMMA PollKept ==
    ASSUME PollInv, Connected' => Connected, lost \subseteq lost',
           UNCHANGED <<soc, firing, sarg, saw, spc>>, timer = "armed" => timer' = "armed",
           Readable => Readable',
           In(soc, queue) => In(soc, queue'),
           In("RECV_RDY", notices) => In("RECV_RDY", notices')
    PROVE  PollInv'
  BY DEF PollInv, Alive, Looking, Looked

LEMMA PollSends == ASSUME TInv, PollInv, EngineSends \/ HandleSendReady PROVE PollInv'
<1>1. In("RECV_RDY", notices) => In("RECV_RDY", notices')
  BY TakeKeeps DEF EngineSends, HandleSendReady
<1>2. Connected /\ lost \subseteq lost'
  BY DEF EngineSends, HandleSendReady, Send, SendBlocks, SendGoes, SendFails
<1>3. QED
  BY <1>1, <1>2, PollKept DEF EngineSends, HandleSendReady

\* A receive posts a check, or there was nothing to read and so nobody was about to
\* say that there is.
LEMMA PollReceives == ASSUME TInv, PollInv, ReceiveBody \/ HandleRecvReady PROVE PollInv'
<1>1. /\ soc \in Addresses /\ Recv /\ Connected
      /\ UNCHANGED <<soc, timer, firing, sarg, saw, spc, peer>>
  BY DEF TInv, ReceiveBody, HandleRecvReady
<1>2. CASE PostCheck(soc)
  <2>1. In(soc, queue') \/ "poll" \in lost'
    BY <1>1, <1>2, PostKeeps
  <2>2. QED
    BY <1>1, <2>1 DEF PollInv, Alive
<1>3. CASE "poll" \in lost' \/ user' = "closing"
  BY <1>3 DEF PollInv
<1>4. CASE ~Readable /\ UNCHANGED <<queue, lost, avail>>
  BY <1>1, <1>4 DEF PollInv, Alive, Looking, Looked
<1>5. QED
  BY <1>1, <1>2, <1>3, <1>4 DEF Recv, RecvSome, RecvNothing, RecvEnd, RecvFails

LEMMA PollUser == ASSUME TInv, PollInv, UserStep PROVE PollInv'
<1>1. ASSUME NEW a \in Addresses, Connect(a) PROVE PollInv'
  <2>1. queue \in Seq(Addresses)
    BY DEF TInv, TypeOK
  <2>2. In(a, queue') \/ "poll" \in lost'
    BY <1>1, <2>1, InAppend DEF Connect
  <2>3. QED
    BY <1>1, <2>2 DEF PollInv, Alive, Connect
<1>2. ASSUME NEW a \in Addresses, ConnectFails(a) PROVE PollInv'
  BY <1>2 DEF PollInv, ConnectFails
<1>3. CASE EngineStops \/ HandleStopped \/ Close \/ Destroy
  BY <1>3 DEF PollInv, EngineStops, HandleStopped, Close, Destroy
<1>4. QED
  BY <1>1, <1>2, <1>3, PollSends, PollReceives DEF UserStep

LEMMA PollTake == ASSUME TInv, HoldInv, PollInv, Take PROVE PollInv'
<1>1. CASE Head(queue) = soc /\ fd = "open"
  BY <1>1 DEF Take, PollInv, Alive, Looking
<1>2. CASE Head(queue) = soc /\ fd = "closed"
  BY <1>2 DEF Take, PollInv, HoldInv
<1>3. CASE Head(queue) # soc
  <2>1. In(soc, queue) => In(soc, queue')
    BY <1>3, InTail DEF Take, TInv, TypeOK
  <2>2. UNCHANGED <<user, lost, soc, firing, timer, sarg, saw, spc, notices, avail, peer>>
    BY <1>3 DEF Take
  <2>3. QED
    BY <2>1, <2>2, PollKept
<1>4. QED
  BY <1>1, <1>2, <1>3 DEF TInv, TypeOK

LEMMA PollLook == ASSUME TInv, HoldInv, PollInv, Look PROVE PollInv'
<1>1. UNCHANGED <<user, lost, soc, firing, timer, sarg, queue, notices, avail, peer, fd>>
  BY DEF Look
<1>2. CASE Connected /\ sarg = soc /\ Readable
  <2>1. "read" \in saw'
    BY <1>2 DEF Look, HoldInv
  <2>2. spc' \in {"timeout", "recv"}
    BY <2>1 DEF Look, AfterLook, AfterTimeout
  <2>3. QED
    BY <1>1, <1>2, <2>1, <2>2 DEF PollInv, Alive, Looking
<1>3. CASE Connected /\ sarg = soc /\ ~Readable
  <2>1. saw' \subseteq {"write"}
    BY <1>3 DEF Look, HoldInv
  <2>2. spc' \in {"timeout", "recv", "send", "arm"}
    BY DEF Look, AfterLook, AfterTimeout, AfterRecv
  <2>3. QED
    BY <1>1, <1>3, <2>1, <2>2 DEF PollInv, Alive, Looking, Looked
<1>4. CASE sarg # soc
  BY <1>1, <1>4 DEF PollInv, Alive, Looking
<1>5. CASE ~Connected
  BY <1>1, <1>5 DEF PollInv
<1>6. QED
  BY <1>2, <1>3, <1>4, <1>5

LEMMA PollTells ==
    ASSUME TInv, PollInv, TellTimeout \/ TellRecv \/ TellSend \/ ClearBlock
    PROVE  PollInv'
<1>1. UNCHANGED <<user, soc, firing, timer, sarg, saw, queue, avail, peer>>
  BY DEF TellTimeout, TellRecv, TellSend, ClearBlock
<1>2. /\ lost \subseteq lost'
      /\ In("RECV_RDY", notices) => In("RECV_RDY", notices')
  BY TellKeeps DEF TellTimeout, TellRecv, TellSend, ClearBlock, TellNothing
<1>3. Looked /\ Looked'
  BY DEF Looked, TellTimeout, TellRecv, TellSend, ClearBlock, AfterTimeout, AfterRecv
<1>4. CASE spc \in {"timeout", "recv"} /\ "read" \in saw /\ Readable /\ sarg = soc
  <2>1. CASE TellTimeout
    <3>1. spc' = "recv"
      BY <1>4, <2>1 DEF TellTimeout, AfterTimeout
    <3>2. QED
      BY <1>1, <1>4, <3>1 DEF PollInv, Alive, Looking
  <2>2. CASE TellRecv
    <3>1. In("RECV_RDY", notices') \/ "poll" \in lost'
      BY <2>2, TellKeeps DEF TellRecv
    <3>2. QED
      BY <1>1, <1>4, <3>1 DEF PollInv, Alive
  <2>3. QED
    BY <1>4, <2>1, <2>2 DEF TellSend, ClearBlock
<1>5. CASE ~(spc \in {"timeout", "recv"} /\ "read" \in saw /\ Readable /\ sarg = soc)
  BY <1>1, <1>2, <1>3, <1>5 DEF PollInv, Alive, Looking, Looked
<1>6. QED
  BY <1>4, <1>5

LEMMA PollArm == ASSUME TInv, HoldInv, PollInv, Arm PROVE PollInv'
<1>1. /\ UNCHANGED <<user, soc, firing, queue, notices, lost, avail, peer>>
      /\ spc = "arm" /\ (timer = "armed" => timer' = "armed")
  BY DEF Arm
<1>2. CASE Connected /\ Looking
  <2>1. timer' = "armed"
    BY <1>1, <1>2 DEF Arm, Looking, HoldInv
  <2>2. QED
    BY <2>1 DEF PollInv, Alive
<1>3. CASE ~(Connected /\ Looking)
  BY <1>1, <1>3 DEF PollInv, Alive
<1>4. QED
  BY <1>2, <1>3

LEMMA PollTask == ASSUME TInv, HoldInv, PollInv, TaskStep PROVE PollInv'
<1>1. CASE Lock
  BY <1>1 DEF Lock, PollInv, Alive, Looking
<1>2. CASE LockLeaks \/ LockStray
  <2>1. Connected => ~Looking
    BY <1>2 DEF LockLeaks, LockStray, Looking, HoldInv
  <2>2. UNCHANGED <<user, soc, firing, timer, queue, notices, lost, avail, peer>>
    BY <1>2 DEF LockLeaks, LockStray
  <2>3. QED
    BY <2>1, <2>2 DEF PollInv, Alive
<1>3. QED
  BY <1>1, <1>2, PollTake, PollLook, PollTells, PollArm DEF TaskStep

LEMMA PollOthers ==
    ASSUME TInv, PollInv, TimerStep \/ BlockLasts \/ Network
    PROVE  PollInv'
<1>1. CASE TimerExpires
  BY <1>1 DEF TimerExpires, PollInv, Alive
<1>2. CASE TimerPosts
  <2>1. firing \in Addresses
    BY <1>2 DEF TimerPosts, TInv, TypeOK
  <2>2. /\ lost \subseteq lost' /\ (In(soc, queue) => In(soc, queue'))
        /\ firing = soc => In(soc, queue') \/ "poll" \in lost'
    BY <1>2, <2>1, PostKeeps DEF TimerPosts
  <2>3. UNCHANGED <<user, soc, timer, sarg, saw, spc, notices, avail, peer>>
    BY <1>2 DEF TimerPosts
  <2>4. QED
    BY <2>2, <2>3 DEF PollInv, Alive, Looking, Looked
<1>3. CASE BlockLasts
  BY <1>3, PollKept DEF BlockLasts
<1>4. CASE Network
  <2>1. Readable => Readable'
    BY <1>4 DEF Network, TInv, TypeOK
  <2>2. QED
    BY <1>4, <2>1, PollKept DEF Network
<1>5. QED
  BY <1>1, <1>2, <1>3, <1>4 DEF TimerStep

LEMMA PollNext == TInv /\ HoldInv /\ PollInv /\ [Next]_vars => PollInv'
<1>1. ASSUME PollInv, UNCHANGED vars PROVE PollInv'
  BY <1>1, PollKept
<1>2. QED
  BY <1>1, PollUser, PollTask, PollOthers DEF Next

\* While the connection stands somebody is going to look at its socket again,
\* unless RECV_RDY or a check found its queue full, or an end of the stream was
\* taken for nothing (bcasoc_check_data, bcasoc_recv, bcasoc_timer_expired).
THEOREM PollingNeverDies == Spec => []PollAlive
<1>1. Init => HoldInv /\ PollInv
  BY DEF Init, HoldInv, Looked, PollInv
<1>2. PollInv => PollAlive
  BY DEF PollInv, PollAlive, Alive, Looking, Looked
<1>3. QED
  BY <1>1, <1>2, TInvInit, TInvNext, HoldNext, PollNext, PTL DEF Spec
=============================================================================
