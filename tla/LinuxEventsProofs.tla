-------------------------- MODULE LinuxEventsProofs --------------------------
(***************************************************************************)
(* The Linux event loop, for every set of posting threads and any number   *)
(* of messages, whoever destroys it: no wake-up is lost, and the callbacks *)
(* run in the order of the calls.                                          *)
(***************************************************************************)
EXTENDS LinuxEvents, TLAPS

\* A poster in the middle of duer_events_call has a message.
TInv == TypeOK /\ \A c \in Posters : cpc[c] # "idle" => cmsg[c] \in Msgs

\* The steps of the thread and of duer_events_destroy do not touch the posters.
USE DEF loopVars, posterVars, histVars, vars, NoMsg

-----------------------------------------------------------------------------
LEMMA TInvCall == ASSUME TInv, NEW c \in Posters, Call(c) PROVE TInv'
<1>1. calls + 1 \in Msgs /\ calls' \in 0 .. MaxMsgs
  BY LinuxEventsAssumption DEF TInv, TypeOK, Call, Msgs
<1>2. QED
  BY <1>1 DEF TInv, TypeOK, Call

LEMMA TInvCallStep == ASSUME TInv, NEW c \in Posters, CallStep(c) PROVE TInv'
<1>1. cpc[c] # "idle" => cmsg[c] \in Msgs
  BY DEF TInv
<1>2. CASE Link(c)
  BY <1>1, <1>2 DEF TInv, TypeOK, Link
<1>3. CASE LinkDrained(c)
  BY <1>3 DEF TInv, TypeOK, LinkDrained
<1>4. CASE Check(c)
  BY <1>4 DEF TInv, TypeOK, Check
<1>5. CASE CheckDrained(c)
  BY <1>1, <1>5 DEF TInv, TypeOK, CheckDrained
<1>6. CASE Signal(c)
  BY <1>6 DEF TInv, TypeOK, Signal
<1>7. CASE CallDangling(c)
  BY <1>7 DEF TInv, TypeOK, CallDangling
<1>8. QED
  BY <1>2, <1>3, <1>4, <1>5, <1>6, <1>7 DEF CallStep

LEMMA TInvOthers ==
    ASSUME TInv, Create \/ TaskStep \/ TaskSpurious \/ DestroyMark \/ DestroyStep
    PROVE  TInv'
<1>1. CASE Create
  BY <1>1 DEF TInv, TypeOK, Create
<1>2. CASE TaskLook
  <2>1. CASE queue # <<>> /\ queue' = Tail(queue) /\ ran' = Append(ran, Head(queue))
    <3>1. queue' \in Seq(Msgs) /\ ran' \in Seq(Msgs)
      BY <2>1 DEF TInv, TypeOK
    <3>2. QED
      BY <1>2, <3>1 DEF TInv, TypeOK, TaskLook
  <2>2. CASE UNCHANGED <<queue, ran>>
    BY <1>2, <2>2 DEF TInv, TypeOK, TaskLook
  <2>3. QED
    BY <1>2, <2>1, <2>2 DEF TaskLook
<1>3. CASE TaskSleep \/ TaskSpurious \/ TaskReturn \/ TaskDangling
  BY <1>3 DEF TInv, TypeOK, TaskSleep, TaskSpurious, TaskReturn, TaskDangling
<1>4. CASE DestroyMark \/ DestroyBroadcast \/ DestroyFree
  BY <1>4 DEF TInv, TypeOK, DestroyMark, DestroyBroadcast, DestroyFree
<1>5. CASE DestroyDrain
  BY <1>5 DEF TInv, TypeOK, DestroyDrain
<1>6. QED
  BY <1>1, <1>2, <1>3, <1>4, <1>5 DEF TaskStep, DestroyStep

LEMMA TInvNext == TInv /\ [Next]_vars => TInv'
<1>1. ASSUME TInv, UNCHANGED vars PROVE TInv'
  BY <1>1 DEF TInv, TypeOK
<1>2. QED
  BY <1>1, TInvCall, TInvCallStep, TInvOthers DEF Next

LEMMA TInvAlways == Spec => []TInv
<1>1. Init => TInv
  <2>1. <<>> \in Seq(Msgs) /\ 0 \in 0 .. MaxMsgs
    BY LinuxEventsAssumption
  <2>2. QED
    BY <2>1 DEF Init, TInv, TypeOK
<1>2. QED
  BY <1>1, TInvNext, PTL DEF Spec

\* Every variable of the loop stays in its type, whatever the threads do
\* (duer_events_call, duer_events_task, duer_events_destroy).
THEOREM LoopTypeCorrect == Spec => []TypeOK
<1>1. TInv => TypeOK
  BY DEF TInv
<1>2. QED
  BY <1>1, TInvAlways, PTL

-----------------------------------------------------------------------------
(* No lost wake-up. *)

\* The thread that is about to wait holds the mutex, so the queue it found
\* empty still is; one that sleeps has somebody about to wake it, if need be.
WakeInv == /\ tpc = "wait" => queue = <<>>
           /\ obj # "live" => queue = <<>>
           /\ NoLostWakeup

\* A step of one poster that does not hide a pending wake-up from the queue.
LEMMA WakeKept ==
    ASSUME TInv, WakeInv, NEW c \in Posters, tpc' = tpc,
           queue # <<>> => Head(queue') = Head(queue),
           queue = <<>> => queue' = <<>>,
           \A d \in Posters \ {c} : cpc'[d] = cpc[d] /\ cmsg'[d] = cmsg[d],
           queue # <<>> /\ cmsg[c] = Head(queue) /\ cpc[c] \in {"check", "signal"}
               => cmsg'[c] = cmsg[c] /\ cpc'[c] \in {"check", "signal"}
    PROVE  NoLostWakeup'
<1>1. SUFFICES ASSUME tpc' = "asleep", queue' # <<>>
               PROVE \E d \in Posters : /\ cpc'[d] \in {"check", "signal"}
                                        /\ cmsg'[d] = Head(queue')
  BY DEF NoLostWakeup
<1>2. PICK d \in Posters : cpc[d] \in {"check", "signal"} /\ cmsg[d] = Head(queue)
  BY <1>1 DEF WakeInv, NoLostWakeup
<1>3. cpc'[d] \in {"check", "signal"} /\ cmsg'[d] = Head(queue')
  BY <1>1, <1>2
<1>4. QED
  BY <1>3

LEMMA WakeCall == ASSUME TInv, WakeInv, NEW c \in Posters, Call(c) PROVE WakeInv'
<1>1. /\ \A d \in Posters \ {c} : cpc'[d] = cpc[d] /\ cmsg'[d] = cmsg[d]
      /\ cpc[c] = "idle" /\ UNCHANGED <<tpc, queue, obj>>
  BY DEF Call, TInv, TypeOK
<1>2. NoLostWakeup'
  BY <1>1, WakeKept
<1>3. QED
  BY <1>1, <1>2 DEF WakeInv

LEMMA WakeLink == ASSUME TInv, WakeInv, NEW c \in Posters, Link(c) PROVE WakeInv'
<1>1. /\ queue' = Append(queue, cmsg[c]) /\ tpc # "wait" /\ obj = "live"
      /\ UNCHANGED <<tpc, obj, cmsg>>
      /\ \A d \in Posters \ {c} : cpc'[d] = cpc[d]
      /\ cpc[c] = "link" /\ cpc'[c] = "check" /\ queue \in Seq(Msgs) /\ cmsg[c] \in Msgs
  BY DEF Link, MutexFree, TInv, TypeOK
<1>2. CASE queue = <<>>
  <2>1. Head(queue') = cmsg'[c]
    BY <1>1, <1>2
  <2>2. QED
    BY <1>1, <2>1 DEF WakeInv, NoLostWakeup
<1>3. CASE queue # <<>>
  <2>1. Head(queue') = Head(queue)
    BY <1>1, <1>3
  <2>2. NoLostWakeup'
    BY <1>1, <1>3, <2>1, WakeKept
  <2>3. QED
    BY <1>1, <2>2 DEF WakeInv
<1>4. QED
  BY <1>2, <1>3

LEMMA WakeSignal == ASSUME WakeInv, NEW c \in Posters, Signal(c) PROVE WakeInv'
<1>1. tpc' # "asleep" /\ (tpc' = "wait" => tpc = "wait") /\ UNCHANGED <<queue, obj>>
  BY DEF Signal
<1>2. QED
  BY <1>1 DEF WakeInv, NoLostWakeup

LEMMA WakeCallStep == ASSUME TInv, WakeInv, NEW c \in Posters, CallStep(c) PROVE WakeInv'
<1>1. CASE LinkDrained(c) \/ Check(c) \/ CheckDrained(c)
  <2>1. /\ UNCHANGED <<tpc, queue, obj, cmsg>>
        /\ \A d \in Posters \ {c} : cpc'[d] = cpc[d]
        /\ queue # <<>> /\ cmsg[c] = Head(queue) /\ cpc[c] \in {"check", "signal"}
               => cpc'[c] \in {"check", "signal"}
    BY <1>1 DEF LinkDrained, Check, CheckDrained, TInv, TypeOK, WakeInv
  <2>2. NoLostWakeup'
    BY <2>1, WakeKept
  <2>3. QED
    BY <2>1, <2>2 DEF WakeInv
<1>2. CASE CallDangling(c)
  BY <1>2 DEF CallDangling, WakeInv, NoLostWakeup
<1>3. QED
  BY <1>1, <1>2, WakeLink, WakeSignal DEF CallStep

LEMMA WakeOthers ==
    ASSUME TInv, WakeInv, Create \/ TaskStep \/ TaskSpurious \/ DestroyMark \/ DestroyStep
    PROVE  WakeInv'
<1>1. CASE Create
  BY <1>1 DEF Create, WakeInv, NoLostWakeup
<1>2. CASE TaskLook
  <2>1. tpc' # "asleep" /\ obj' = obj /\ (queue = <<>> => queue' = <<>>)
        /\ (tpc' = "wait" => queue' = <<>>)
    BY <1>2 DEF TaskLook
  <2>2. QED
    BY <2>1 DEF WakeInv, NoLostWakeup
<1>3. CASE TaskSleep
  BY <1>3 DEF TaskSleep, WakeInv, NoLostWakeup
<1>4. CASE TaskSpurious \/ TaskReturn \/ TaskDangling
  BY <1>4 DEF TaskSpurious, TaskReturn, TaskDangling, WakeInv, NoLostWakeup
<1>5. CASE DestroyMark \/ DestroyFree
  BY <1>5 DEF DestroyMark, DestroyFree, WakeInv, NoLostWakeup
<1>6. CASE DestroyBroadcast
  <2>1. tpc' # "asleep" /\ (tpc' = "wait" => tpc = "wait") /\ UNCHANGED <<queue, obj>>
    BY <1>6 DEF DestroyBroadcast
  <2>2. QED
    BY <2>1 DEF WakeInv, NoLostWakeup
<1>7. CASE DestroyDrain
  BY <1>7 DEF DestroyDrain, WakeInv, NoLostWakeup
<1>8. QED
  BY <1>1, <1>2, <1>3, <1>4, <1>5, <1>6, <1>7 DEF TaskStep, DestroyStep

LEMMA WakeNext == TInv /\ WakeInv /\ [Next]_vars => WakeInv'
<1>1. ASSUME WakeInv, UNCHANGED vars PROVE WakeInv'
  BY <1>1 DEF WakeInv, NoLostWakeup
<1>2. QED
  BY <1>1, WakeCall, WakeCallStep, WakeOthers DEF Next

\* However many threads post, and wherever the others are between their unlock
\* and their look at _tail, the thread never sleeps over a waiting message that
\* nobody will wake it for.
THEOREM WakeupsNeverLost == Spec => []NoLostWakeup
<1>1. Init => WakeInv
  BY DEF Init, WakeInv, NoLostWakeup
<1>2. WakeInv => NoLostWakeup
  BY DEF WakeInv
<1>3. QED
  BY <1>1, <1>2, WakeNext, TInvAlways, PTL DEF Spec

-----------------------------------------------------------------------------
(* The FIFO. *)

\* While the loop lives, what was accepted is what ran and then what is queued.
FifoInv ==
    obj \in {"none", "live"} =>
        /\ Len(accepted) = Len(ran) + Len(queue)
        /\ \A i \in 1 .. Len(queue) : queue[i] = accepted[Len(ran) + i]

\* The queue and the histories change only in Link, TaskLook and DestroyDrain.
LEMMA FifoKept ==
    ASSUME FifoInv, UNCHANGED <<queue, accepted, ran>>,
           obj' \in {"none", "live"} => obj \in {"none", "live"}
    PROVE  FifoInv'
BY DEF FifoInv

LEMMA FifoLink == ASSUME TInv, FifoInv, NEW c \in Posters, Link(c) PROVE FifoInv'
<1>1. /\ obj = "live" /\ obj' = obj /\ ran' = ran
      /\ queue' = Append(queue, cmsg[c]) /\ accepted' = Append(accepted, cmsg[c])
      /\ queue \in Seq(Msgs) /\ accepted \in Seq(Msgs) /\ cmsg[c] \in Msgs
  BY DEF Link, TInv, TypeOK
<1>2. Len(ran) \in Nat /\ Len(queue) \in Nat
  BY <1>1 DEF TInv, TypeOK
<1>3. /\ Len(queue') = Len(queue) + 1 /\ Len(accepted') = Len(accepted) + 1
      /\ queue'[Len(queue) + 1] = cmsg[c] /\ accepted'[Len(accepted) + 1] = cmsg[c]
      /\ \A i \in 1 .. Len(queue) : queue'[i] = queue[i]
      /\ \A i \in 1 .. Len(accepted) : accepted'[i] = accepted[i]
  BY <1>1
<1>4. /\ Len(accepted) = Len(ran) + Len(queue)
      /\ \A i \in 1 .. Len(queue) : queue[i] = accepted[Len(ran) + i]
  BY <1>1 DEF FifoInv
<1>5. ASSUME NEW i \in 1 .. Len(queue') PROVE queue'[i] = accepted'[Len(ran) + i]
  <2>1. CASE i \in 1 .. Len(queue)
    <3>1. Len(ran) + i \in 1 .. Len(accepted)
      BY <1>2, <1>4, <2>1
    <3>2. QED
      BY <1>3, <1>4, <2>1, <3>1
  <2>2. CASE i = Len(queue) + 1
    BY <1>2, <1>3, <1>4, <2>2
  <2>3. QED
    BY <1>2, <1>3, <1>5, <2>1, <2>2
<1>6. Len(accepted') = Len(ran) + Len(queue')
  BY <1>2, <1>3, <1>4
<1>7. QED
  BY <1>1, <1>5, <1>6 DEF FifoInv

LEMMA FifoLook == ASSUME TInv, FifoInv, TaskLook PROVE FifoInv'
<1>1. CASE UNCHANGED <<queue, ran>>
  BY <1>1, FifoKept DEF TaskLook
<1>2. CASE queue # <<>> /\ queue' = Tail(queue) /\ ran' = Append(ran, Head(queue))
  <2>1. /\ Len(queue') = Len(queue) - 1 /\ Len(ran') = Len(ran) + 1
        /\ \A i \in 1 .. Len(queue') : queue'[i] = queue[i + 1]
        /\ Len(queue) \in Nat /\ Len(ran) \in Nat
        /\ UNCHANGED <<obj, accepted>>
    BY <1>2 DEF TaskLook, TInv, TypeOK
  <2>2. CASE obj \in {"none", "live"}
    <3>1. /\ Len(accepted) = Len(ran) + Len(queue)
          /\ \A i \in 1 .. Len(queue) : queue[i] = accepted[Len(ran) + i]
      BY <2>2 DEF FifoInv
    <3>2. ASSUME NEW i \in 1 .. Len(queue') PROVE queue'[i] = accepted[Len(ran') + i]
      <4>1. i + 1 \in 1 .. Len(queue) /\ Len(ran') + i = Len(ran) + (i + 1)
        BY <2>1
      <4>2. QED
        BY <2>1, <3>1, <4>1
    <3>3. Len(accepted) = Len(ran') + Len(queue')
      BY <2>1, <3>1
    <3>4. QED
      BY <2>1, <3>2, <3>3 DEF FifoInv
  <2>3. QED
    BY <2>1, <2>2 DEF FifoInv
<1>3. QED
  BY <1>1, <1>2 DEF TaskLook

LEMMA FifoNext == TInv /\ FifoInv /\ [Next]_vars => FifoInv'
<1> SUFFICES ASSUME TInv, FifoInv, [Next]_vars PROVE FifoInv'
  OBVIOUS
<1>1. CASE UNCHANGED vars
  BY <1>1, FifoKept
<1>2. CASE Create
  BY <1>2 DEF Create, FifoInv
<1>3. ASSUME NEW c \in Posters, Call(c) \/ CallStep(c) PROVE FifoInv'
  <2>1. CASE Link(c)
    BY <2>1, FifoLink
  <2>2. CASE Call(c) \/ LinkDrained(c) \/ Check(c) \/ CheckDrained(c) \/ Signal(c) \/ CallDangling(c)
    BY <2>2, FifoKept DEF Call, LinkDrained, Check, CheckDrained, Signal, CallDangling
  <2>3. QED
    BY <1>3, <2>1, <2>2 DEF CallStep
<1>4. CASE TaskLook
  BY <1>4, FifoLook
<1>5. CASE TaskSleep \/ TaskSpurious \/ TaskReturn \/ TaskDangling
  BY <1>5, FifoKept DEF TaskSleep, TaskSpurious, TaskReturn, TaskDangling
<1>6. CASE DestroyMark \/ DestroyBroadcast
  BY <1>6, FifoKept DEF DestroyMark, DestroyBroadcast
<1>7. CASE DestroyDrain \/ DestroyFree
  BY <1>7 DEF DestroyDrain, DestroyFree, FifoInv
<1>8. QED
  BY <1>1, <1>2, <1>3, <1>4, <1>5, <1>6, <1>7 DEF Next, TaskStep, DestroyStep

LEMMA FifoAlways == Spec => []FifoInv
<1>1. Init => FifoInv
  BY DEF Init, FifoInv
<1>2. QED
  BY <1>1, FifoNext, TInvAlways, PTL DEF Spec

-----------------------------------------------------------------------------
(* The loop implements the outbox: Link accepts, TaskLook delivers, and the *)
(* steps that end the list close it.                                        *)

LEMMA OutboxLink == ASSUME TInv, NEW c \in Posters, Link(c) PROVE \E m \in Msgs : Loop!Accept(m)
<1>1. cmsg[c] \in Msgs
  BY DEF TInv, Link
<1>2. Loop!Accept(cmsg[c])
  BY DEF Link, Loop!Accept
<1>3. QED
  BY <1>1, <1>2

LEMMA OutboxLook ==
    ASSUME TInv, FifoInv, WakeInv, TaskLook
    PROVE  Loop!Deliver \/ UNCHANGED Loop!ovars
<1>1. CASE UNCHANGED <<queue, ran>>
  BY <1>1 DEF TaskLook, Loop!ovars
<1>2. CASE queue # <<>> /\ queue' = Tail(queue) /\ ran' = Append(ran, Head(queue))
  <2>1. obj = "live" /\ UNCHANGED <<obj, accepted>>
    BY <1>2 DEF TaskLook, WakeInv
  <2>2. Len(queue) > 0 /\ Len(queue) \in Nat /\ Head(queue) = queue[1] /\ Len(ran) \in Nat
    BY <1>2 DEF TInv, TypeOK
  <2>3. Len(ran) < Len(accepted) /\ Head(queue) = accepted[Len(ran) + 1]
    BY <2>1, <2>2 DEF FifoInv
  <2>4. Loop!Deliver
    BY <1>2, <2>1, <2>3 DEF Loop!Deliver
  <2>5. QED
    BY <2>4
<1>3. QED
  BY <1>1, <1>2 DEF TaskLook

LEMMA OutboxStep ==
    ASSUME TInv, FifoInv, WakeInv, [Next]_vars
    PROVE  [Loop!ONext]_(Loop!ovars)
<1>1. CASE UNCHANGED vars
  BY <1>1 DEF Loop!ovars
<1>2. CASE Create \/ TaskSleep \/ TaskSpurious \/ TaskReturn \/ TaskDangling
           \/ DestroyMark \/ DestroyBroadcast
  BY <1>2 DEF Create, TaskSleep, TaskSpurious, TaskReturn, TaskDangling, DestroyMark,
              DestroyBroadcast, Loop!ovars
<1>3. ASSUME NEW c \in Posters, Call(c) \/ CallStep(c) PROVE [Loop!ONext]_(Loop!ovars)
  <2>1. CASE Link(c)
    BY <2>1, OutboxLink DEF Loop!ONext
  <2>2. CASE Call(c) \/ LinkDrained(c) \/ Check(c) \/ CheckDrained(c) \/ Signal(c)
    BY <2>2 DEF Call, LinkDrained, Check, CheckDrained, Signal, Loop!ovars
  <2>3. CASE CallDangling(c)
    BY <2>3 DEF CallDangling, Loop!ovars
  <2>4. QED
    BY <1>3, <2>1, <2>2, <2>3 DEF CallStep
<1>4. CASE TaskLook
  BY <1>4, OutboxLook DEF Loop!ONext
<1>5. CASE DestroyDrain
  BY <1>5 DEF DestroyDrain, Loop!ONext, Loop!Close
<1>6. CASE DestroyFree
  BY <1>6 DEF DestroyFree, Loop!ovars
<1>7. QED
  BY <1>1, <1>2, <1>3, <1>4, <1>5, <1>6 DEF Next, TaskStep, DestroyStep

\* The event loop runs the callbacks posted to it at most once each, in the
\* order of the calls and without skipping one, until it is destroyed.
THEOREM LoopIsOutbox == Spec => EventFifo
<1>1. Init => Loop!OInit
  BY DEF Init, Loop!OInit
<1>2. Init => WakeInv
  BY DEF Init, WakeInv, NoLostWakeup
<1>3. QED
  BY <1>1, <1>2, WakeNext, OutboxStep, FifoAlways, TInvAlways, PTL
  DEF Spec, EventFifo, Loop!OSpec
=============================================================================
