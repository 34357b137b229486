----------------------------- MODULE LinuxEvents -----------------------------
(***************************************************************************)
(* The event loop of the Linux port (platform/source-linux/                *)
(* lightduer_events.c): a list of callbacks, a thread that runs them, a     *)
(* mutex and a condition variable, and a shutdown that sleeps for a second. *)
(*                                                                         *)
(* What one thread does while it holds the mutex is one action, except the *)
(* test of the thread's loop and the wait that follows: between the two the *)
(* thread still holds the mutex, and duer_events_destroy, which does not    *)
(* take it, can get there.  Threads outside read `_tail` after the unlock.  *)
(* Left out: the callbacks' work, the loop's name, an allocation that fails *)
(* and a thread that cannot be created (both leave nothing behind).         *)
(***************************************************************************)
EXTENDS Naturals, Sequences, FiniteSets

CONSTANTS
    Callers,        \* threads that call duer_events_call
    Task,           \* the loop's own thread: callbacks post to their own loop
    SelfDestroy,    \* the loop is destroyed by one of its callbacks
    LongCallbacks,  \* a callback may last longer than the second of the shutdown
    MaxMsgs         \* bound: calls of duer_events_call

ASSUME LinuxEventsAssumption ==
    /\ Task \notin Callers
    /\ SelfDestroy \in BOOLEAN
    /\ LongCallbacks \in BOOLEAN
    /\ MaxMsgs \in Nat

Posters == Callers \cup {Task}
Msgs == 1 .. MaxMsgs
NoMsg == 0

VARIABLES
    obj,        \* the duer_events_t: "none", "live", "drained", "freed", or the heap "corrupt"
    shutdown,   \* _shutdown
    queue,      \* the list from _tail, the oldest message, to _head
    behind,     \* the messages whose _next points to one linked before them
    tpc,        \* where the thread is
    dpc,        \* where duer_events_destroy is
    cpc, cmsg,  \* per poster: where it is in duer_events_call, with which message
    calls,      \* messages made so far
    accepted,   \* history: messages linked into the live list, in order
    ran         \* history: messages taken to be run, in order

loopVars == <<obj, shutdown, queue, behind>>
posterVars == <<cpc, cmsg, calls>>
histVars == <<accepted, ran>>
vars == <<loopVars, tpc, dpc, posterVars, histVars>>

Init ==
    /\ obj = "none" /\ shutdown = FALSE /\ queue = <<>> /\ behind = {}
    /\ tpc = "none" /\ dpc = "idle"
    /\ cpc = [c \in Posters |-> "idle"]
    /\ cmsg = [c \in Posters |-> NoMsg]
    /\ calls = 0
    /\ accepted = <<>> /\ ran = <<>>

\* Mutant: the thread tests the queue before it takes the mutex.
MutexFree_TestOutside == TRUE

\* The thread holds the mutex from its test of the queue until it waits.
MutexFree == tpc # "wait"

\* The thread is in the callback's own code, free to post or to return.
InCallback == tpc = "run" /\ (SelfDestroy => dpc = "idle")

-----------------------------------------------------------------------------
(* duer_events_create *)

Create ==
    /\ obj = "none"
    /\ obj' = "live" /\ tpc' = "top"
    /\ UNCHANGED <<shutdown, queue, behind, dpc, posterVars, histVars>>

-----------------------------------------------------------------------------
(* duer_events_call *)

\* Mutant: the bound on calls is forgotten.
Call_Unbounded(c) ==
    /\ obj \in {"live", "drained"}
    /\ cpc[c] = "idle" /\ (c = Task => InCallback)
    /\ calls' = calls + 1
    /\ cpc' = [cpc EXCEPT ![c] = "link"]
    /\ cmsg' = [cmsg EXCEPT ![c] = calls + 1]
    /\ UNCHANGED <<loopVars, tpc, dpc, histVars>>

\* The poster has found the loop's handle set; it allocates the message.
Call(c) ==
    /\ obj \in {"live", "drained"}
    /\ cpc[c] = "idle" /\ (c = Task => InCallback)
    /\ calls < MaxMsgs
    /\ calls' = calls + 1
    /\ cpc' = [cpc EXCEPT ![c] = "link"]
    /\ cmsg' = [cmsg EXCEPT ![c] = calls + 1]
    /\ UNCHANGED <<loopVars, tpc, dpc, histVars>>

\* Mutant: the newest message is put at the end that is taken first.
Link_AtTail(c) ==
    /\ cpc[c] = "link" /\ MutexFree /\ obj = "live"
    /\ queue' = <<cmsg[c]>> \o queue
    /\ behind' = IF queue = <<>> THEN behind ELSE behind \cup {cmsg[c]}
    /\ accepted' = Append(accepted, cmsg[c])
    /\ cpc' = [cpc EXCEPT ![c] = "check"]
    /\ UNCHANGED <<obj, shutdown, tpc, dpc, cmsg, calls, ran>>

\* Under the mutex: the message becomes _head.
Link(c) ==
    /\ cpc[c] = "link" /\ MutexFree /\ obj = "live"
    /\ queue' = Append(queue, cmsg[c])
    /\ behind' = IF queue = <<>> THEN behind ELSE behind \cup {cmsg[c]}
    /\ accepted' = Append(accepted, cmsg[c])
    /\ cpc' = [cpc EXCEPT ![c] = "check"]
    /\ UNCHANGED <<obj, shutdown, tpc, dpc, cmsg, calls, ran>>

\* The list has been emptied for good: the message becomes _head, and _tail too
\* if it was NULL; nobody will take it.
LinkDrained(c) ==
    /\ cpc[c] = "link" /\ MutexFree /\ obj = "drained"
    /\ cpc' = [cpc EXCEPT ![c] = "check"]
    /\ UNCHANGED <<loopVars, tpc, dpc, cmsg, calls, histVars>>

\* Mutant: the poster signals when its message is the only one.
Check_OnlyOne(c) ==
    /\ cpc[c] = "check" /\ obj = "live"
    /\ cpc' = [cpc EXCEPT ![c] = IF Len(queue) = 1 THEN "signal" ELSE "idle"]
    /\ UNCHANGED <<loopVars, tpc, dpc, cmsg, calls, histVars>>

\* Without the mutex: is the message the oldest, that is, _tail?
Check(c) ==
    /\ cpc[c] = "check" /\ obj = "live"
    /\ cpc' = [cpc EXCEPT ![c] =
                  IF queue # <<>> /\ Head(queue) = cmsg[c] THEN "signal" ELSE "idle"]
    /\ UNCHANGED <<loopVars, tpc, dpc, cmsg, calls, histVars>>

Signal(c) ==
    /\ cpc[c] = "signal" /\ obj \in {"live", "drained"}
    /\ tpc' = IF tpc = "asleep" THEN "top" ELSE tpc
    /\ cpc' = [cpc EXCEPT ![c] = "idle"]
    /\ UNCHANGED <<loopVars, dpc, cmsg, calls, histVars>>

\* After the drain _tail is what it was before, whatever that is now.
CheckDrained(c) ==
    /\ cpc[c] = "check" /\ obj = "drained"
    /\ \E to \in {"signal", "idle"} : cpc' = [cpc EXCEPT ![c] = to]
    /\ UNCHANGED <<loopVars, tpc, dpc, cmsg, calls, histVars>>

\* The loop itself is gone: whatever the memory holds is locked, written, read
\* or signalled, and the call returns, if it does not break the heap.
CallDangling(c) ==
    /\ cpc[c] # "idle" /\ obj = "freed"
    /\ cpc' = [cpc EXCEPT ![c] = "idle"]
    /\ obj' \in {"freed", "corrupt"}
    /\ UNCHANGED <<shutdown, queue, behind, tpc, dpc, cmsg, calls, histVars>>

-----------------------------------------------------------------------------
(* duer_events_task *)

\* Under the mutex: leave, wait, or take the oldest message.
TaskLook ==
    /\ tpc = "top" /\ obj \in {"live", "drained"}
    /\ \/ /\ shutdown
          /\ tpc' = "exited"
          /\ UNCHANGED <<queue, ran>>
       \/ /\ ~shutdown /\ queue = <<>>
          /\ tpc' = "wait"
          /\ UNCHANGED <<queue, ran>>
       \/ /\ ~shutdown /\ queue # <<>>
          /\ tpc' = "run"
          /\ queue' = Tail(queue)
          /\ ran' = Append(ran, Head(queue))
    /\ UNCHANGED <<obj, shutdown, behind, dpc, posterVars, accepted>>

\* pthread_cond_wait releases the mutex and sleeps in one step.
TaskSleep ==
    /\ tpc = "wait"
    /\ tpc' = "asleep"
    /\ UNCHANGED <<loopVars, dpc, posterVars, histVars>>

\* pthread_cond_wait may return although nobody signalled.
TaskSpurious ==
    /\ tpc = "asleep"
    /\ tpc' = "top"
    /\ UNCHANGED <<loopVars, dpc, posterVars, histVars>>

\* The callback returns and its message is freed.
TaskReturn ==
    /\ tpc = "run" /\ cpc[Task] = "idle" /\ (SelfDestroy => dpc \in {"idle", "done"})
    /\ tpc' = "top"
    /\ UNCHANGED <<loopVars, dpc, posterVars, histVars>>

\* The loop's memory is gone: the thread exits if the flag still reads true,
\* or never comes back from the mutex.
TaskDangling ==
    /\ tpc = "top" /\ obj = "freed"
    /\ tpc' \in {"exited", "lost"}
    /\ UNCHANGED <<loopVars, dpc, posterVars, histVars>>

-----------------------------------------------------------------------------
(* duer_events_destroy *)

\* The flag is set without the mutex.
DestroyMark ==
    /\ obj = "live" /\ ~shutdown
    /\ SelfDestroy => InCallback /\ cpc[Task] = "idle"
    /\ shutdown' = TRUE /\ dpc' = "broadcast"
    /\ UNCHANGED <<obj, queue, behind, tpc, posterVars, histVars>>

\* So is the broadcast sent.
DestroyBroadcast ==
    /\ dpc = "broadcast"
    /\ tpc' = IF tpc = "asleep" THEN "top" ELSE tpc
    /\ dpc' = "sleep"
    /\ UNCHANGED <<loopVars, posterVars, histVars>>

\* After the second: the list is freed from _head along _next.  The second is
\* taken to be long enough for every step of the thread but a callback.  The
\* _next of the oldest message points to one that has been run and freed.
DestroyDrain ==
    /\ dpc = "sleep"
    /\ \/ tpc \in {"asleep", "exited"}
       \/ tpc = "run" /\ (SelfDestroy \/ LongCallbacks)
    /\ obj' \in IF queue # <<>> /\ Head(queue) \in behind
                THEN {"drained", "corrupt"} ELSE {"drained"}
    /\ queue' = <<>> /\ dpc' = "free"
    /\ UNCHANGED <<shutdown, behind, tpc, posterVars, histVars>>

\* The mutex, the condition variable and the loop are released; the caller of
\* duer_events_destroy clears its handle.
DestroyFree ==
    /\ dpc = "free" /\ obj = "drained"
    /\ obj' = "freed" /\ dpc' = "done"
    /\ UNCHANGED <<shutdown, queue, behind, tpc, posterVars, histVars>>

-----------------------------------------------------------------------------
CallStep(c) == \/ Link(c) \/ LinkDrained(c) \/ Check(c) \/ CheckDrained(c)
               \/ Signal(c) \/ CallDangling(c)
TaskStep == TaskLook \/ TaskSleep \/ TaskReturn \/ TaskDangling
DestroyStep == DestroyBroadcast \/ DestroyDrain \/ DestroyFree

Next ==
    \/ Create
    \/ \E c \in Posters : Call(c) \/ CallStep(c)
    \/ TaskStep \/ TaskSpurious
    \/ DestroyMark \/ DestroyStep

\* Each thread runs on while it can.  A callback is assumed to return.
Fairness == /\ WF_vars(TaskStep)
            /\ WF_vars(DestroyStep)
            /\ \A c \in Posters : WF_vars(CallStep(c))

Spec == Init /\ [][Next]_vars /\ Fairness

-----------------------------------------------------------------------------
TypeOK ==
    /\ obj \in {"none", "live", "drained", "freed", "corrupt"}
    /\ shutdown \in BOOLEAN
    /\ queue \in Seq(Msgs)
    /\ behind \subseteq Msgs
    /\ tpc \in {"none", "top", "wait", "asleep", "run", "exited", "lost"}
    /\ dpc \in {"idle", "broadcast", "sleep", "free", "done"}
    /\ cpc \in [Posters -> {"idle", "link", "check", "signal"}]
    /\ cmsg \in [Posters -> Msgs \cup {NoMsg}]
    /\ calls \in 0 .. MaxMsgs
    /\ accepted \in Seq(Msgs) /\ ran \in Seq(Msgs)

\* The wake-up that decides after the unlock is never lost: while the thread
\* sleeps over a queue that is not empty, the poster of its oldest message is
\* about to signal (duer_events_call reads _tail without the mutex, line 189).
NoLostWakeup ==
    tpc = "asleep" /\ queue # <<>> =>
        \E c \in Posters : cpc[c] \in {"check", "signal"} /\ cmsg[c] = Head(queue)

\* The loop is a FIFO outbox of callbacks: each runs at most once, in the order
\* of the calls, none is skipped, until the loop is destroyed.
Loop == INSTANCE Outbox WITH Message <- Msgs, sent <- ran, closed <- obj \in {"drained", "freed", "corrupt"}
EventFifo == Loop!OSpec

\* A callback that was posted runs, unless the loop is being destroyed.
EventsServed ==
    \A m \in Msgs :
        (\E i \in DOMAIN queue : queue[i] = m) ~> (shutdown \/ \E i \in DOMAIN ran : ran[i] = m)
=============================================================================
