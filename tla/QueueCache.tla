------------------------------ MODULE QueueCache ------------------------------
(***************************************************************************)
(* The linked list behind the report queue and the DCS play queue          *)
(* (framework/utils/lightduer_queue_cache.c), pointer by pointer, and the  *)
(* duer_mutex its users put around each push and pop.                      *)
(*                                                                         *)
(* duer_mutex_lock waits on Linux (pthread_mutex_lock) and on mbed         *)
(* (rtos::Mutex::lock).  On FreeRTOS it is xSemaphoreTake with a time-out  *)
(* of 0: when another task holds the mutex it fails at once, and the       *)
(* callers, who do not look at the result, go on without it.               *)
(*                                                                         *)
(* A node is named by the data it carries; the data are pushed once each.  *)
(***************************************************************************)
EXTENDS Naturals, Sequences

CONSTANTS
    Threads,    \* threads that push and pop
    NoThread,   \* none of them
    LockWaits,  \* whether duer_mutex_lock waits for the mutex
    SIZE_MAX,   \* the largest size_t
    MaxNodes    \* bound: data pushed

ASSUME QueueCacheAssumption ==
    /\ NoThread \notin Threads /\ LockWaits \in BOOLEAN
    /\ MaxNodes \in Nat /\ SIZE_MAX \in Nat /\ MaxNodes < SIZE_MAX

Nodes == 1 .. MaxNodes
NULL == 0

VARIABLES
    head, tail, length,     \* the duer_qcache_t
    next,                   \* the _next of each node
    holder,                 \* the thread that holds the mutex
    pc, q, len,             \* per thread: its step, its node, the length it read
    made,                   \* nodes made so far
    accepted,               \* history: what was pushed, in order
    popped                  \* history: what was popped, in order

listVars == <<head, tail, length, next>>
threadVars == <<pc, q, len>>
histVars == <<accepted, popped>>
vars == <<listVars, holder, threadVars, made, histVars>>

Pushing == {"push_link", "push_tail", "push_read", "push_store"}
Popping == {"pop_take", "pop_head", "pop_read", "pop_store", "pop_clear", "pop_free"}
Pcs == {"idle", "lock_push", "lock_pop", "unlock"} \cup Pushing \cup Popping

Init ==
    /\ head = NULL /\ tail = NULL /\ length = 0
    /\ next = [n \in Nodes |-> NULL]
    /\ holder = NoThread
    /\ pc = [t \in Threads |-> "idle"]
    /\ q = [t \in Threads |-> NULL]
    /\ len = [t \in Threads |-> 0]
    /\ made = 0
    /\ accepted = <<>> /\ popped = <<>>

\* The thread t moves from the step a to the step b.
Move(t, a, b) == pc[t] = a /\ pc' = [pc EXCEPT ![t] = b]

-----------------------------------------------------------------------------
(* The callers: lock, push or pop, unlock. *)

\* Mutant: data are pushed without end.
BeginPush_Unbounded(t) ==
    /\ Move(t, "idle", "lock_push")
    /\ made' = made + 1
    /\ q' = [q EXCEPT ![t] = made + 1]
    /\ UNCHANGED <<listVars, holder, len, histVars>>

BeginPush(t) ==
    /\ Move(t, "idle", "lock_push")
    /\ made < MaxNodes /\ made' = made + 1
    /\ q' = [q EXCEPT ![t] = made + 1]
    /\ UNCHANGED <<listVars, holder, len, histVars>>

BeginPop(t) ==
    /\ Move(t, "idle", "lock_pop")
    /\ UNCHANGED <<listVars, holder, q, len, made, histVars>>

\* duer_mutex_lock, whose result nobody reads.
Lock(t) ==
    /\ Move(t, "lock_push", "push_link") \/ Move(t, "lock_pop", "pop_take")
    /\ LockWaits => holder = NoThread
    /\ holder' = IF holder = NoThread THEN t ELSE holder
    /\ UNCHANGED <<listVars, q, len, made, histVars>>

\* duer_mutex_unlock: the semaphore is given back, whoever took it (FreeRTOS does
\* not look at the holder unless its assertions are compiled in).
Unlock(t) ==
    /\ Move(t, "unlock", "idle")
    /\ holder' = NoThread
    /\ UNCHANGED <<listVars, q, len, made, histVars>>

-----------------------------------------------------------------------------
(* duer_qcache_push *)

\* Mutant: a new node is put before the others.
PushLink_InFront(t) ==
    /\ Move(t, "push_link", "push_tail")
    /\ next' = [next EXCEPT ![q[t]] = head] /\ head' = q[t]
    /\ UNCHANGED <<tail, length, holder, q, len, made, histVars>>

\* The node is linked behind the last one, or is the only one.
PushLink(t) ==
    /\ Move(t, "push_link", "push_tail")
    /\ \/ tail # NULL /\ next' = [next EXCEPT ![tail] = q[t]] /\ UNCHANGED head
       \/ tail = NULL /\ head' = q[t] /\ UNCHANGED next
    /\ UNCHANGED <<tail, length, holder, q, len, made, histVars>>

PushTail(t) ==
    /\ Move(t, "push_tail", "push_read")
    /\ tail' = q[t]
    /\ UNCHANGED <<head, length, next, holder, q, len, made, histVars>>

\* _length++ is a read and a write.
PushRead(t) ==
    /\ Move(t, "push_read", "push_store")
    /\ len' = [len EXCEPT ![t] = length]
    /\ UNCHANGED <<listVars, holder, q, made, histVars>>

PushStore(t) ==
    /\ Move(t, "push_store", "unlock")
    /\ length' = IF len[t] = SIZE_MAX THEN 0 ELSE len[t] + 1
    /\ accepted' = Append(accepted, q[t])
    /\ UNCHANGED <<head, tail, next, holder, q, len, made, popped>>

-----------------------------------------------------------------------------
(* duer_qcache_pop *)

PopEmpty(t) ==
    /\ head = NULL
    /\ Move(t, "pop_take", "unlock")
    /\ UNCHANGED <<listVars, holder, q, len, made, histVars>>

PopTake(t) ==
    /\ head # NULL
    /\ Move(t, "pop_take", "pop_head")
    /\ q' = [q EXCEPT ![t] = head]
    /\ UNCHANGED <<listVars, holder, len, made, histVars>>

PopHead(t) ==
    /\ Move(t, "pop_head", "pop_read")
    /\ head' = next[q[t]]
    /\ UNCHANGED <<tail, length, next, holder, q, len, made, histVars>>

\* --_length is a read and a write, and its value decides.
PopRead(t) ==
    /\ Move(t, "pop_read", "pop_store")
    /\ len' = [len EXCEPT ![t] = IF length = 0 THEN SIZE_MAX ELSE length - 1]
    /\ UNCHANGED <<listVars, holder, q, made, histVars>>

PopStore(t) ==
    /\ Move(t, "pop_store", IF len[t] = 0 THEN "pop_clear" ELSE "pop_free")
    /\ length' = len[t]
    /\ UNCHANGED <<head, tail, next, holder, q, len, made, histVars>>

\* Mutant: the last node stays the tail after it was popped.
PopClear_KeepsTail(t) ==
    /\ Move(t, "pop_clear", "pop_free")
    /\ UNCHANGED <<listVars, holder, q, len, made, histVars>>

PopClear(t) ==
    /\ Move(t, "pop_clear", "pop_free")
    /\ tail' = NULL
    /\ UNCHANGED <<head, length, next, holder, q, len, made, histVars>>

\* The node is freed and its data returned.
PopFree(t) ==
    /\ Move(t, "pop_free", "unlock")
    /\ popped' = Append(popped, q[t])
    /\ UNCHANGED <<listVars, holder, q, len, made, accepted>>

-----------------------------------------------------------------------------
Push(t) == PushLink(t) \/ PushTail(t) \/ PushRead(t) \/ PushStore(t)
Pop(t) == \/ PopEmpty(t) \/ PopTake(t) \/ PopHead(t) \/ PopRead(t)
          \/ PopStore(t) \/ PopClear(t) \/ PopFree(t)

Next == \E t \in Threads :
            BeginPush(t) \/ BeginPop(t) \/ Lock(t) \/ Push(t) \/ Pop(t) \/ Unlock(t)

Spec == Init /\ [][Next]_vars

-----------------------------------------------------------------------------
TypeOK ==
    /\ head \in Nodes \cup {NULL} /\ tail \in Nodes \cup {NULL}
    /\ length \in 0 .. SIZE_MAX
    /\ next \in [Nodes -> Nodes \cup {NULL}]
    /\ holder \in Threads \cup {NoThread}
    /\ pc \in [Threads -> Pcs]
    /\ q \in [Threads -> Nodes \cup {NULL}]
    /\ len \in [Threads -> 0 .. SIZE_MAX]
    /\ made \in 0 .. MaxNodes
    /\ accepted \in Seq(Nodes) /\ popped \in Seq(Nodes)

\* Between the calls the list is what was pushed and not popped: _head is the
\* oldest node, the _next of each is the one pushed after it and that of the last
\* is NULL, _tail is the last and _length their number.
ListComplete ==
    (\A t \in Threads : pc[t] \in {"idle", "lock_push", "lock_pop"}) =>
        LET first == Len(popped) + 1
            last == Len(accepted)
        IN  /\ head = IF first > last THEN NULL ELSE accepted[first]
            /\ \A i \in first .. last :
                   next[accepted[i]] = IF i = last THEN NULL ELSE accepted[i + 1]
            /\ tail = IF first > last THEN NULL ELSE accepted[last]
            /\ length = last + 1 - first

\* What pops return is what was pushed, in order, each once: the list
\* implements the FIFO the report queue is taken for.
Box == INSTANCE Outbox WITH Message <- Nodes, sent <- popped, closed <- FALSE
ListIsFifo == Box!OSpec
=============================================================================
