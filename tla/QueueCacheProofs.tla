-------------------------- MODULE QueueCacheProofs --------------------------
(***************************************************************************)
(* The linked list of the report queue, for every number of threads and of *)
(* nodes: its types on every port and, under a mutex that waits, that it   *)
(* is whole between the calls and implements the FIFO outbox.              *)
(***************************************************************************)
EXTENDS QueueCache, FiniteSetTheorems, SequenceTheorems, TLAPS

USE DEF vars, listVars, threadVars, histVars

-----------------------------------------------------------------------------
(* Type correctness, whether the lock waits or not *)

\* A thread that pushes, or has taken something to pop, has a node.
HasNode == {"lock_push"} \cup Pushing \cup (Popping \ {"pop_take"})
TInv == TypeOK /\ \A t \in Threads : pc[t] \in HasNode => q[t] \in Nodes

USE DEF Pushing, Popping, Pcs, HasNode

LEMMA TInvBegin ==
    ASSUME TInv, NEW t \in Threads, BeginPush(t) \/ BeginPop(t) \/ Lock(t) \/ Unlock(t)
    PROVE  TInv'
<1>1. CASE BeginPush(t)
  <2>1. made + 1 \in Nodes /\ made' \in 0 .. MaxNodes
    BY <1>1, QueueCacheAssumption DEF TInv, TypeOK, BeginPush, Nodes
  <2>2. QED
    BY <1>1, <2>1 DEF TInv, TypeOK, BeginPush, Move
<1>2. CASE BeginPop(t) \/ Unlock(t)
  BY <1>2 DEF TInv, TypeOK, BeginPop, Unlock, Move
<1>3. CASE Lock(t)
  BY <1>3 DEF TInv, TypeOK, Lock, Move
<1>4. QED
  BY <1>1, <1>2, <1>3

LEMMA TInvPush == ASSUME TInv, NEW t \in Threads, Push(t) PROVE TInv'
<1>1. CASE PushLink(t)
  BY <1>1 DEF TInv, TypeOK, PushLink, Move
<1>2. CASE PushTail(t)
  BY <1>2 DEF TInv, TypeOK, PushTail, Move
<1>3. CASE PushRead(t)
  BY <1>3 DEF TInv, TypeOK, PushRead, Move
<1>4. CASE PushStore(t)
  <2>1. length' \in 0 .. SIZE_MAX /\ accepted' \in Seq(Nodes)
    BY <1>4, QueueCacheAssumption DEF TInv, TypeOK, PushStore, Move
  <2>2. QED
    BY <1>4, <2>1 DEF TInv, TypeOK, PushStore, Move
<1>5. QED
  BY <1>1, <1>2, <1>3, <1>4 DEF Push

LEMMA TInvPop == ASSUME TInv, NEW t \in Threads, Pop(t) PROVE TInv'
<1>1. CASE PopEmpty(t)
  BY <1>1 DEF TInv, TypeOK, PopEmpty, Move
<1>2. CASE PopTake(t)
  BY <1>2 DEF TInv, TypeOK, PopTake, Move
<1>3. CASE PopHead(t)
  BY <1>3 DEF TInv, TypeOK, PopHead, Move
<1>4. CASE PopRead(t)
  <2>1. (IF length = 0 THEN SIZE_MAX ELSE length - 1) \in 0 .. SIZE_MAX
    BY QueueCacheAssumption DEF TInv, TypeOK
  <2>2. QED
    BY <1>4, <2>1 DEF TInv, TypeOK, PopRead, Move
<1>5. CASE PopStore(t)
  BY <1>5 DEF TInv, TypeOK, PopStore, Move
<1>6. CASE PopClear(t)
  BY <1>6 DEF TInv, TypeOK, PopClear, Move
<1>7. CASE PopFree(t)
  BY <1>7 DEF TInv, TypeOK, PopFree, Move
<1>8. QED
  BY <1>1, <1>2, <1>3, <1>4, <1>5, <1>6, <1>7 DEF Pop

LEMMA TInvNext == TInv /\ [Next]_vars => TInv'
<1>1. ASSUME TInv, UNCHANGED vars PROVE TInv'
  BY <1>1 DEF TInv, TypeOK
<1>2. QED
  BY <1>1, TInvBegin, TInvPush, TInvPop DEF Next

LEMMA TInvAlways == Spec => []TInv
<1>1. Init => TInv
  <2>1. 0 \in 0 .. SIZE_MAX /\ 0 \in 0 .. MaxNodes /\ <<>> \in Seq(Nodes)
    BY QueueCacheAssumption
  <2>2. QED
    BY <2>1 DEF Init, TInv, TypeOK
<1>2. QED
  BY <1>1, TInvNext, PTL DEF Spec

\* Head, tail, links, length and what the threads hold stay in their types, on
\* every port (duer_qcache_push, duer_qcache_pop).
THEOREM ListTypeCorrect == Spec => []TypeOK
<1>1. TInv => TypeOK
  BY DEF TInv
<1>2. QED
  BY <1>1, TInvAlways, PTL

-----------------------------------------------------------------------------
(* The list, when the lock waits *)

m == Len(accepted)
p == Len(popped)

\* Who works on the list holds the mutex.
Working == Pushing \cup Popping \cup {"unlock"}
MutexInv == \A t \in Threads : pc[t] \in Working => holder = t

\* The node of a push under way is new: not accepted, and no other push has it.
PushPcs == {"lock_push"} \cup Pushing
NewNode(t) ==
    /\ q[t] \in 1 .. made
    /\ \A i \in 1 .. m : accepted[i] # q[t]
    /\ \A u \in Threads : u # t /\ pc[u] \in PushPcs => q[u] # q[t]

\* No node is accepted twice, and what was popped are the first accepted.
HistInv ==
    /\ p <= m /\ \A i \in 1 .. p : popped[i] = accepted[i]
    /\ \A i \in 1 .. m : accepted[i] <= made
    /\ \A i, j \in 1 .. m : accepted[i] = accepted[j] => i = j
    /\ \A t \in Threads : pc[t] \in PushPcs => NewNode(t)

\* The nodes of the list are linked in order, those to come to nothing.
LinkInv ==
    /\ \A i \in p + 1 .. m - 1 : next[accepted[i]] = accepted[i + 1]
    /\ \A n \in Nodes : (\A i \in 1 .. m : accepted[i] # n) => next[n] = NULL

\* The oldest node, the one after it, and the last.
First == IF p < m THEN accepted[p + 1] ELSE NULL
Second == IF p + 1 < m THEN accepted[p + 2] ELSE NULL
Last == IF p < m THEN accepted[m] ELSE NULL

\* The list between the calls.
Whole ==
    /\ head = First /\ tail = Last /\ length = m - p
    /\ p < m => next[Last] = NULL

\* The list while t has linked its node and not yet counted it.
Linked(t) ==
    /\ head = IF p < m THEN First ELSE q[t]
    /\ p < m => next[Last] = q[t]
    /\ tail = IF pc[t] = "push_tail" THEN Last ELSE q[t]
    /\ length = m - p
    /\ pc[t] = "push_store" => len[t] = m - p

\* The list while t takes its first node out.
Taken(t) ==
    /\ p < m /\ q[t] = First /\ next[Last] = NULL
    /\ head = IF pc[t] = "pop_head" THEN First ELSE Second
    /\ tail = IF pc[t] = "pop_free" /\ p + 1 = m THEN NULL ELSE Last
    /\ length = IF pc[t] \in {"pop_clear", "pop_free"} THEN m - p - 1 ELSE m - p
    /\ pc[t] = "pop_store" => len[t] = m - p - 1
    /\ pc[t] = "pop_clear" => p + 1 = m

Linking == {"push_tail", "push_read", "push_store"}
Taking == {"pop_head", "pop_read", "pop_store", "pop_clear", "pop_free"}

ShapeInv ==
    /\ (\A t \in Threads : pc[t] \notin Linking \cup Taking) => Whole
    /\ \A t \in Threads : pc[t] \in Linking => Linked(t)
    /\ \A t \in Threads : pc[t] \in Taking => Taken(t)

ListInv == MutexInv /\ HistInv /\ LinkInv /\ ShapeInv

USE DEF Working, PushPcs, Linking, Taking, Nodes, NULL

\* Lengths are numbers, and the histories hold nodes.
LEMMA ListTypes ==
    ASSUME TInv
    PROVE  /\ m \in Nat /\ p \in Nat
           /\ \A i \in 1 .. m : accepted[i] \in Nodes
           /\ \A i \in 1 .. p : popped[i] \in Nodes
BY LenProperties, ElementOfSeq DEF TInv, TypeOK, m, p

\* One thread works at a time.
LEMMA Alone ==
    ASSUME MutexInv, NEW t \in Threads, NEW u \in Threads,
           pc[t] \in Working, pc[u] \in Working
    PROVE  u = t
BY DEF MutexInv

-----------------------------------------------------------------------------
(* The mutex *)

LEMMA MutexNext ==
    ASSUME LockWaits, TInv, MutexInv, NEW t \in Threads,
           BeginPush(t) \/ BeginPop(t) \/ Lock(t) \/ Push(t) \/ Pop(t) \/ Unlock(t)
    PROVE  MutexInv'
<1>1. CASE BeginPush(t) \/ BeginPop(t)
  BY <1>1 DEF TInv, TypeOK, MutexInv, BeginPush, BeginPop, Move
<1>2. CASE Lock(t)
  BY <1>2, QueueCacheAssumption DEF TInv, TypeOK, MutexInv, Lock, Move
<1>3. CASE Unlock(t)
  BY <1>3 DEF TInv, TypeOK, MutexInv, Unlock, Move
<1>4. CASE Push(t)
  BY <1>4 DEF TInv, TypeOK, MutexInv, Push, PushLink, PushTail, PushRead, PushStore, Move
<1>5. CASE Pop(t)
  BY <1>5 DEF TInv, TypeOK, MutexInv, Pop, PopEmpty, PopTake, PopHead, PopRead, PopStore,
              PopClear, PopFree, Move
<1>6. QED
  BY <1>1, <1>2, <1>3, <1>4, <1>5

-----------------------------------------------------------------------------
(* The histories *)

\* A step that neither accepts, nor returns, nor makes a node.
LEMMA HistKept ==
    ASSUME HistInv, UNCHANGED <<accepted, popped, made>>,
           \A t \in Threads : pc'[t] \in PushPcs => pc[t] \in PushPcs /\ q'[t] = q[t]
    PROVE  HistInv'
BY DEF HistInv, NewNode, m, p

LEMMA HistBegin ==
    ASSUME TInv, HistInv, NEW t \in Threads, BeginPush(t) PROVE HistInv'
<1>1. /\ q'[t] = made + 1 /\ made' = made + 1 /\ made \in Nat
      /\ UNCHANGED <<accepted, popped>> /\ m \in Nat /\ m' = m /\ p' = p
      /\ \A u \in Threads : u # t => pc'[u] = pc[u] /\ q'[u] = q[u]
  BY ListTypes DEF TInv, TypeOK, BeginPush, Move, m, p
<1>2. \A i \in 1 .. m : accepted[i] \in 1 .. made
  BY <1>1, ListTypes DEF HistInv
<1>3. \A u \in Threads : u # t /\ pc[u] \in PushPcs => q[u] \in 1 .. made
  BY DEF HistInv, NewNode
<1>4. NewNode(t)'
  BY <1>1, <1>2, <1>3 DEF NewNode
<1>5. ASSUME NEW u \in Threads, u # t, pc'[u] \in PushPcs PROVE NewNode(u)'
  BY <1>1, <1>3, <1>5 DEF NewNode, HistInv
<1>6. QED
  BY <1>1, <1>2, <1>4, <1>5 DEF HistInv

LEMMA HistStore ==
    ASSUME TInv, HistInv, NEW t \in Threads, PushStore(t) PROVE HistInv'
<1>1. /\ NewNode(t) /\ accepted' = Append(accepted, q[t]) /\ q[t] \in Nodes
      /\ UNCHANGED <<popped, q, made>> /\ pc'[t] = "unlock"
      /\ \A u \in Threads : u # t => pc'[u] = pc[u]
  BY DEF TInv, TypeOK, PushStore, Move, HistInv
<1>2. /\ m \in Nat /\ p \in Nat /\ m' = m + 1 /\ p' = p /\ accepted'[m + 1] = q[t]
      /\ \A i \in 1 .. m : accepted'[i] = accepted[i]
  BY <1>1, ListTypes, AppendProperties DEF TInv, TypeOK, m, p
<1>3. \A i \in 1 .. m' : i \in 1 .. m \/ i = m + 1
  BY <1>2
<1>4. p' <= m' /\ \A i \in 1 .. p' : popped'[i] = accepted'[i]
  <2>1. p <= m /\ \A i \in 1 .. p : i \in 1 .. m /\ popped[i] = accepted[i]
    BY <1>2 DEF HistInv
  <2>2. p' <= m'
    BY <1>2, <2>1
  <2>3. \A i \in 1 .. p : popped'[i] = accepted'[i]
    BY <1>1, <1>2, <2>1
  <2>4. QED
    BY <1>2, <2>2, <2>3
<1>5. \A i \in 1 .. m' : accepted'[i] <= made'
  BY <1>1, <1>2, <1>3 DEF HistInv, NewNode
<1>6. \A i, j \in 1 .. m' : accepted'[i] = accepted'[j] => i = j
  BY <1>1, <1>2, <1>3 DEF HistInv, NewNode
<1>7. ASSUME NEW u \in Threads, pc'[u] \in PushPcs PROVE NewNode(u)'
  <2>1. u # t /\ pc[u] \in PushPcs /\ NewNode(u) /\ pc[t] \in PushPcs
    BY <1>1, <1>7 DEF HistInv, PushStore, Move
  <2>2. q[u] # q[t]
    BY <2>1 DEF NewNode
  <2>3. \A i \in 1 .. m' : accepted'[i] # q'[u]
    BY <1>1, <1>2, <1>3, <2>1, <2>2 DEF NewNode
  <2>4. \A v \in Threads : v # u /\ pc'[v] \in PushPcs => q'[v] # q'[u]
    BY <1>1, <2>1 DEF NewNode
  <2>5. QED
    BY <1>1, <2>1, <2>3, <2>4 DEF NewNode
<1>8. QED
  BY <1>4, <1>5, <1>6, <1>7 DEF HistInv

LEMMA HistFree ==
    ASSUME TInv, HistInv, ShapeInv, NEW t \in Threads, PopFree(t)
    PROVE  HistInv' /\ p < m /\ q[t] = accepted[p + 1] /\ m' = m /\ p' = p + 1
<1>1. Taken(t) /\ popped' = Append(popped, q[t]) /\ q[t] \in Nodes
  BY DEF TInv, TypeOK, PopFree, Move, ShapeInv
<1>2. p < m /\ q[t] = accepted[p + 1]
  BY <1>1 DEF Taken, First
<1>3. /\ m \in Nat /\ p \in Nat /\ m' = m /\ p' = p + 1 /\ popped'[p + 1] = q[t]
      /\ \A i \in 1 .. p : popped'[i] = popped[i]
  BY <1>1, ListTypes, AppendProperties DEF TInv, TypeOK, PopFree, m, p
<1>4. UNCHANGED <<accepted, made, q>>
      /\ \A u \in Threads : pc'[u] \in PushPcs => pc[u] \in PushPcs
  BY DEF TInv, TypeOK, PopFree, Move
<1>5. \A i \in 1 .. p' : popped'[i] = accepted'[i]
  <2>1. \A i \in 1 .. p' : i \in 1 .. p \/ i = p + 1
    BY <1>3
  <2>2. QED
    BY <1>2, <1>3, <1>4, <2>1 DEF HistInv
<1>6. \A u \in Threads : pc'[u] \in PushPcs => NewNode(u)'
  BY <1>3, <1>4 DEF HistInv, NewNode
<1>7. QED
  BY <1>2, <1>3, <1>4, <1>5, <1>6 DEF HistInv

LEMMA HistNext ==
    ASSUME TInv, HistInv, ShapeInv, NEW t \in Threads,
           BeginPush(t) \/ BeginPop(t) \/ Lock(t) \/ Push(t) \/ Pop(t) \/ Unlock(t)
    PROVE  HistInv'
<1>1. CASE BeginPop(t) \/ Lock(t) \/ Unlock(t)
  BY <1>1, HistKept DEF TInv, TypeOK, BeginPop, Lock, Unlock, Move
<1>2. CASE PushLink(t) \/ PushTail(t) \/ PushRead(t)
  BY <1>2, HistKept DEF TInv, TypeOK, PushLink, PushTail, PushRead, Move
<1>3. CASE PopEmpty(t) \/ PopTake(t) \/ PopHead(t)
  BY <1>3, HistKept DEF TInv, TypeOK, PopEmpty, PopTake, PopHead, Move
<1>4. CASE PopRead(t) \/ PopStore(t) \/ PopClear(t)
  BY <1>4, HistKept DEF TInv, TypeOK, PopRead, PopStore, PopClear, Move
<1>5. QED
  BY <1>1, <1>2, <1>3, <1>4, HistBegin, HistStore, HistFree DEF Push, Pop

-----------------------------------------------------------------------------
(* The links *)

\* Nobody else is at work: the moves of t alone decide the shape.
LEMMA OthersIdle ==
    ASSUME MutexInv, NEW t \in Threads, pc[t] \in Working
    PROVE  \A u \in Threads : u # t => pc[u] \notin Working
BY Alone

LEMMA WholeBefore ==
    ASSUME MutexInv, ShapeInv, NEW t \in Threads, pc[t] \in Working,
           pc[t] \notin Linking \cup Taking
    PROVE  Whole
BY OthersIdle DEF ShapeInv

LEMMA LinkNext ==
    ASSUME TInv, ListInv, NEW t \in Threads,
           BeginPush(t) \/ BeginPop(t) \/ Lock(t) \/ Push(t) \/ Pop(t) \/ Unlock(t)
    PROVE  LinkInv'
<1>0. m \in Nat /\ p \in Nat /\ \A i \in 1 .. m : accepted[i] \in Nodes
  BY ListTypes
<1>1. CASE UNCHANGED <<next, accepted, popped>>
  BY <1>1 DEF ListInv, LinkInv, m, p
<1>2. CASE PushLink(t)
  <2>1. /\ Whole /\ NewNode(t) /\ q[t] \in Nodes /\ m' = m /\ p' = p /\ p <= m
        /\ UNCHANGED <<accepted, popped>>
    BY <1>2, WholeBefore DEF TInv, PushLink, Move, ListInv, HistInv, m, p
  <2>2. CASE p < m
    <3>1. tail = accepted[m] /\ tail \in Nodes /\ m \in 1 .. m
      BY <1>0, <2>1, <2>2 DEF Whole, Last
    <3>2. next' = [next EXCEPT ![tail] = q[t]] /\ next \in [Nodes -> Nodes \cup {NULL}]
      BY <1>2, <3>1 DEF PushLink, TInv, TypeOK
    <3>3. ASSUME NEW i \in p + 1 .. m - 1 PROVE next'[accepted[i]] = accepted[i + 1]
      <4>1. i \in 1 .. m /\ i # m
        BY <1>0
      <4>2. accepted[i] # accepted[m] /\ next[accepted[i]] = accepted[i + 1]
        BY <3>1, <4>1 DEF ListInv, HistInv, LinkInv
      <4>3. QED
        BY <1>0, <3>1, <3>2, <4>1, <4>2
    <3>4. ASSUME NEW n \in Nodes, \A i \in 1 .. m : accepted[i] # n PROVE next'[n] = NULL
      BY <3>1, <3>2, <3>4 DEF ListInv, LinkInv
    <3>5. QED
      BY <2>1, <3>3, <3>4 DEF LinkInv
  <2>3. CASE ~(p < m)
    BY <1>1, <1>2, <2>1, <2>3 DEF PushLink, Whole, Last
  <2>4. QED
    BY <2>2, <2>3
<1>3. CASE PushStore(t)
  <2>1. /\ Linked(t) /\ q[t] \in Nodes /\ accepted' = Append(accepted, q[t])
        /\ UNCHANGED <<next, popped>>
    BY <1>3 DEF TInv, PushStore, Move, ListInv, ShapeInv
  <2>2. /\ m' = m + 1 /\ p' = p /\ accepted'[m + 1] = q[t]
        /\ \A i \in 1 .. m : accepted'[i] = accepted[i]
    BY <2>1, AppendProperties DEF TInv, TypeOK, m, p
  <2>3. ASSUME NEW i \in p' + 1 .. m' - 1 PROVE next'[accepted'[i]] = accepted'[i + 1]
    <3>1. CASE i < m
      <4>1. i \in p + 1 .. m - 1 /\ i \in 1 .. m /\ i + 1 \in 1 .. m
        BY <1>0, <2>2, <3>1
      <4>2. QED
        BY <2>1, <2>2, <4>1 DEF ListInv, LinkInv
    <3>2. CASE i = m
      <4>1. p < m /\ m \in 1 .. m
        BY <1>0, <2>2, <3>2
      <4>2. next[accepted[m]] = q[t]
        BY <2>1, <4>1 DEF Linked, Last
      <4>3. accepted'[m] = accepted[m]
        BY <2>2, <4>1
      <4>4. QED
        BY <2>1, <2>2, <3>2, <4>2, <4>3
    <3>3. QED
      BY <1>0, <2>2, <3>1, <3>2
  <2>4. ASSUME NEW n \in Nodes, \A i \in 1 .. m' : accepted'[i] # n PROVE next'[n] = NULL
    <3>1. \A i \in 1 .. m : i \in 1 .. m' /\ accepted[i] # n
      BY <1>0, <2>2, <2>4
    <3>2. QED
      BY <2>1, <3>1 DEF ListInv, LinkInv
  <2>5. QED
    BY <2>3, <2>4 DEF LinkInv
<1>4. CASE PopFree(t)
  <2>1. m' = m /\ p' = p + 1 /\ UNCHANGED <<next, accepted>>
    BY <1>4, HistFree DEF ListInv, PopFree
  <2>2. \A i \in p' + 1 .. m' - 1 : i \in p + 1 .. m - 1
    BY <1>0, <2>1
  <2>3. QED
    BY <2>1, <2>2 DEF ListInv, LinkInv
<1>5. QED
  BY <1>1, <1>2, <1>3, <1>4
     DEF BeginPush, BeginPop, Lock, Unlock, Push, PushTail, PushRead, Pop, PopEmpty, PopTake,
         PopHead, PopRead, PopStore, PopClear

-----------------------------------------------------------------------------
(* The shape *)

\* A step outside the list leaves its shape.
LEMMA ShapeKept ==
    ASSUME ShapeInv, UNCHANGED <<listVars, accepted, popped>>,
           \A u \in Threads :
               pc[u] \in Linking \cup Taking \/ pc'[u] \in Linking \cup Taking =>
                   pc'[u] = pc[u] /\ q'[u] = q[u] /\ len'[u] = len[u]
    PROVE  ShapeInv'
BY DEF ShapeInv, Whole, Linked, Taken, First, Second, Last, m, p

\* A step inside it: the thread that works gives it its next shape.
LEMMA ShapeMoved ==
    ASSUME MutexInv, NEW t \in Threads, pc[t] \in Working,
           \A u \in Threads : u # t => pc'[u] = pc[u],
           pc'[t] \in Linking => Linked(t)',
           pc'[t] \in Taking => Taken(t)',
           pc'[t] \notin Linking \cup Taking => Whole'
    PROVE  ShapeInv'
BY OthersIdle DEF ShapeInv

LEMMA ShapeOutside ==
    ASSUME TInv, ShapeInv, NEW t \in Threads,
           BeginPush(t) \/ BeginPop(t) \/ Lock(t) \/ Unlock(t) \/ PopEmpty(t)
    PROVE  ShapeInv'
BY ShapeKept DEF TInv, TypeOK, BeginPush, BeginPop, Lock, Unlock, PopEmpty, Move

\* No more nodes are accepted than there are: none is accepted twice.
LEMMA ShortList == ASSUME TInv, HistInv PROVE m <= MaxNodes
<1>1. m \in Nat /\ MaxNodes \in Nat /\ \A i \in 1 .. m : accepted[i] \in Nodes
  BY ListTypes, QueueCacheAssumption
<1>2. DEFINE f == [i \in 1 .. m |-> accepted[i]]
<1>3. f \in Injection(1 .. m, 1 .. MaxNodes)
  BY <1>1 DEF HistInv, Injection, IsInjective
<1>4. /\ IsFiniteSet(1 .. m) /\ Cardinality(1 .. m) = m
      /\ IsFiniteSet(1 .. MaxNodes) /\ Cardinality(1 .. MaxNodes) = MaxNodes
  BY <1>1, FS_Interval
<1>5. Cardinality(1 .. m) <= Cardinality(1 .. MaxNodes)
  BY <1>3, <1>4, FS_Injection
<1>6. QED
  BY <1>4, <1>5

LEMMA ShapePush ==
    ASSUME TInv, ListInv, NEW t \in Threads, Push(t) PROVE ShapeInv'
<1>0. /\ m \in Nat /\ p \in Nat /\ p <= m /\ \A i \in 1 .. m : accepted[i] \in Nodes
      /\ pc[t] \in Working /\ q[t] \in Nodes
      /\ \A u \in Threads : u # t => pc'[u] = pc[u]
  BY ListTypes DEF TInv, TypeOK, ListInv, HistInv, Push, PushLink, PushTail, PushRead,
                   PushStore, Move
<1>1. CASE PushLink(t)
  <2>1. Whole /\ pc'[t] = "push_tail" /\ q'[t] = q[t] /\ tail' = tail /\ length' = length
        /\ m' = m /\ p' = p /\ First' = First /\ Last' = Last
    BY <1>0, <1>1, WholeBefore DEF TInv, TypeOK, PushLink, Move, ListInv, First, Last, m, p
  <2>2. CASE p < m
    <3>1. tail = Last /\ Last \in Nodes /\ tail # NULL
      BY <1>0, <2>1, <2>2 DEF Whole, Last
    <3>2. head' = head /\ next'[Last] = q[t]
      BY <1>1, <3>1 DEF PushLink, TInv, TypeOK
    <3>3. Linked(t)'
      BY <2>1, <2>2, <3>1, <3>2 DEF Linked, Whole
    <3>4. QED
      BY <1>0, <2>1, <3>3, ShapeMoved DEF ListInv
  <2>3. CASE ~(p < m)
    <3>1. tail = NULL /\ head' = q[t]
      BY <1>1, <2>1, <2>3 DEF Whole, Last, PushLink
    <3>2. Linked(t)'
      BY <2>1, <2>3, <3>1 DEF Linked, Whole
    <3>3. QED
      BY <1>0, <2>1, <3>2, ShapeMoved DEF ListInv
  <2>4. QED
    BY <2>2, <2>3
<1>2. CASE PushTail(t) \/ PushRead(t)
  <2>1. /\ Linked(t) /\ q'[t] = q[t] /\ UNCHANGED <<head, next, length, accepted, popped>>
        /\ tail' = q[t] /\ pc'[t] \in {"push_read", "push_store"}
        /\ pc'[t] = "push_store" => len'[t] = length
    BY <1>2 DEF TInv, TypeOK, PushTail, PushRead, Move, ListInv, ShapeInv, Linked
  <2>2. Linked(t)'
    BY <2>1 DEF Linked, First, Last, m, p
  <2>3. QED
    BY <1>0, <2>1, <2>2, ShapeMoved DEF ListInv
<1>3. CASE PushStore(t)
  <2>1. /\ Linked(t) /\ NewNode(t) /\ accepted' = Append(accepted, q[t])
        /\ len[t] = m - p /\ tail = q[t] /\ pc'[t] = "unlock"
        /\ UNCHANGED <<head, tail, next, popped>>
    BY <1>3 DEF TInv, TypeOK, PushStore, Move, ListInv, ShapeInv, HistInv, Linked
  <2>2. /\ m' = m + 1 /\ p' = p /\ accepted'[m + 1] = q[t]
        /\ \A i \in 1 .. m : accepted'[i] = accepted[i]
    BY <1>0, <2>1, AppendProperties DEF TInv, TypeOK, m, p
  <2>3. next[q[t]] = NULL
    BY <1>0, <2>1 DEF NewNode, ListInv, LinkInv
  <2>4. length' = m' - p'
    <3>1. m <= MaxNodes
      BY ShortList DEF ListInv
    <3>2. len[t] # SIZE_MAX
      BY <1>0, <2>1, <3>1, QueueCacheAssumption
    <3>3. QED
      BY <1>0, <1>3, <2>1, <2>2, <3>2 DEF PushStore
  <2>5. p' < m' /\ Last' = q[t] /\ First' = IF p < m THEN First ELSE q[t]
    BY <1>0, <2>2 DEF First, Last
  <2>6. Whole'
    BY <2>1, <2>3, <2>4, <2>5 DEF Linked, Whole
  <2>7. QED
    BY <1>0, <2>1, <2>6, ShapeMoved DEF ListInv
<1>4. QED
  BY <1>1, <1>2, <1>3 DEF Push

LEMMA ShapePop ==
    ASSUME TInv, ListInv, NEW t \in Threads, Pop(t) PROVE ShapeInv'
<1>0. /\ m \in Nat /\ p \in Nat /\ p <= m /\ \A i \in 1 .. m : accepted[i] \in Nodes
      /\ pc[t] \in Working
      /\ \A u \in Threads : u # t => pc'[u] = pc[u]
  BY ListTypes DEF TInv, TypeOK, ListInv, HistInv, Pop, PopEmpty, PopTake, PopHead, PopRead,
                   PopStore, PopClear, PopFree, Move
<1>1. CASE PopEmpty(t)
  BY <1>1, ShapeOutside DEF ListInv
<1>2. CASE PopTake(t)
  <2>1. /\ Whole /\ head # NULL /\ q'[t] = head /\ pc'[t] = "pop_head"
        /\ UNCHANGED <<listVars, accepted, popped>>
    BY <1>0, <1>2, WholeBefore DEF TInv, TypeOK, PopTake, Move, ListInv
  <2>2. Taken(t)'
    BY <2>1 DEF Whole, Taken, First, Second, Last, m, p
  <2>3. QED
    BY <1>0, <2>1, <2>2, ShapeMoved DEF ListInv
<1>3. CASE PopHead(t)
  <2>1. /\ Taken(t) /\ q'[t] = q[t] /\ pc[t] = "pop_head" /\ pc'[t] = "pop_read"
        /\ head' = next[q[t]]
        /\ tail = Last /\ UNCHANGED <<tail, length, next, accepted, popped>>
    BY <1>3 DEF TInv, TypeOK, PopHead, Move, ListInv, ShapeInv, Taken
  <2>2. next[q[t]] = Second
    <3>1. CASE p + 1 < m
      <4>1. p + 1 \in p + 1 .. m - 1 /\ p < m /\ (p + 1) + 1 = p + 2
        BY <1>0, <3>1
      <4>2. next[accepted[p + 1]] = accepted[p + 2]
        BY <4>1 DEF ListInv, LinkInv
      <4>3. QED
        BY <2>1, <3>1, <4>1, <4>2 DEF Taken, First, Second
    <3>2. CASE ~(p + 1 < m)
      <4>1. p < m /\ p + 1 = m
        BY <1>0, <2>1, <3>2 DEF Taken
      <4>2. QED
        BY <2>1, <3>2, <4>1 DEF Taken, First, Second, Last
    <3>3. QED
      BY <3>1, <3>2
  <2>3. Taken(t)'
    BY <2>1, <2>2 DEF Taken, First, Second, Last, m, p
  <2>4. QED
    BY <1>0, <2>1, <2>3, ShapeMoved DEF ListInv
<1>4. CASE PopRead(t)
  <2>1. /\ Taken(t) /\ q'[t] = q[t] /\ pc[t] = "pop_read" /\ pc'[t] = "pop_store"
        /\ UNCHANGED <<listVars, accepted, popped>>
        /\ len'[t] = IF length = 0 THEN SIZE_MAX ELSE length - 1
    BY <1>4 DEF TInv, TypeOK, PopRead, Move, ListInv, ShapeInv
  <2>2. p < m /\ length = m - p
    BY <2>1 DEF Taken
  <2>3. len'[t] = m - p - 1
    BY <1>0, <2>1, <2>2
  <2>4. Taken(t)'
    BY <2>1, <2>3 DEF Taken, First, Second, Last, m, p
  <2>5. QED
    BY <1>0, <2>1, <2>4, ShapeMoved DEF ListInv
<1>5. CASE PopStore(t)
  <2>1. /\ Taken(t) /\ q'[t] = q[t] /\ pc[t] = "pop_store"
        /\ pc'[t] = IF len[t] = 0 THEN "pop_clear" ELSE "pop_free"
        /\ length' = len[t] /\ UNCHANGED <<head, tail, next, accepted, popped>>
    BY <1>5 DEF TInv, TypeOK, PopStore, Move, ListInv, ShapeInv
  <2>2. len[t] = m - p - 1 /\ p < m /\ (len[t] = 0 <=> p + 1 = m)
    BY <1>0, <2>1 DEF Taken
  <2>3. Taken(t)'
    BY <2>1, <2>2 DEF Taken, First, Second, Last, m, p
  <2>4. QED
    BY <1>0, <2>1, <2>3, ShapeMoved DEF ListInv
<1>6. CASE PopClear(t)
  <2>1. /\ Taken(t) /\ q'[t] = q[t] /\ pc[t] = "pop_clear" /\ pc'[t] = "pop_free"
        /\ tail' = NULL /\ UNCHANGED <<head, length, next, accepted, popped>>
    BY <1>6 DEF TInv, TypeOK, PopClear, Move, ListInv, ShapeInv
  <2>2. Taken(t)'
    BY <2>1 DEF Taken, First, Second, Last, m, p
  <2>3. QED
    BY <1>0, <2>1, <2>2, ShapeMoved DEF ListInv
<1>7. CASE PopFree(t)
  <2>1. /\ Taken(t) /\ pc[t] = "pop_free" /\ pc'[t] = "unlock"
        /\ m' = m /\ p' = p + 1 /\ UNCHANGED <<listVars, accepted>>
    BY <1>7, HistFree DEF TInv, TypeOK, PopFree, Move, ListInv, ShapeInv
  <2>2. p < m /\ head = Second /\ length = m - p - 1 /\ next[Last] = NULL
        /\ tail = IF p + 1 = m THEN NULL ELSE Last
    BY <2>1 DEF Taken
  <2>3. First' = Second /\ Last' = IF p + 1 = m THEN NULL ELSE Last
    BY <1>0, <2>1, <2>2 DEF First, Second, Last
  <2>4. Whole'
    BY <1>0, <2>1, <2>2, <2>3 DEF Whole
  <2>5. QED
    BY <1>0, <2>1, <2>4, ShapeMoved DEF ListInv
<1>8. QED
  BY <1>1, <1>2, <1>3, <1>4, <1>5, <1>6, <1>7 DEF Pop

-----------------------------------------------------------------------------
(* The theorems *)

LEMMA ListNext == LockWaits /\ TInv /\ ListInv /\ [Next]_vars => ListInv'
<1>1. ASSUME ListInv, UNCHANGED vars PROVE ListInv'
  <2>1. m' = m /\ p' = p /\ First' = First /\ Second' = Second /\ Last' = Last
    BY <1>1 DEF m, p, First, Second, Last
  <2>2. MutexInv' /\ HistInv' /\ LinkInv'
    BY <1>1, <2>1 DEF ListInv, MutexInv, HistInv, NewNode, LinkInv
  <2>3. ShapeInv'
    BY <1>1, ShapeKept DEF ListInv
  <2>4. QED
    BY <2>2, <2>3 DEF ListInv
<1>2. ASSUME LockWaits, TInv, ListInv, Next PROVE ListInv'
  <2>1. PICK t \in Threads :
            BeginPush(t) \/ BeginPop(t) \/ Lock(t) \/ Push(t) \/ Pop(t) \/ Unlock(t)
    BY <1>2 DEF Next
  <2>2. MutexInv' /\ HistInv'
    BY <1>2, <2>1, MutexNext, HistNext DEF ListInv
  <2>3. LinkInv'
    BY <1>2, <2>1, LinkNext
  <2>4. ShapeInv'
    BY <1>2, <2>1, ShapeOutside, ShapePush, ShapePop DEF ListInv
  <2>5. QED
    BY <2>2, <2>3, <2>4 DEF ListInv
<1>3. QED
  BY <1>1, <1>2

LEMMA ListAlways == ASSUME LockWaits PROVE Spec => []ListInv
<1>1. Init => ListInv
  BY DEF Init, ListInv, MutexInv, HistInv, LinkInv, ShapeInv, Whole, First, Last, m, p
<1>2. LockWaits
  OBVIOUS
<1>3. TInv /\ ListInv /\ [Next]_vars => ListInv'
  BY <1>2, ListNext
<1>4. QED
  BY <1>1, <1>3, TInvAlways, PTL DEF Spec

\* Between the calls of duer_qcache_push and duer_qcache_pop the list is whole,
\* head to tail, on the ports whose mutex waits.
THEOREM ListStaysComplete == ASSUME LockWaits PROVE Spec => []ListComplete
<1>1. TInv /\ ListInv => ListComplete
  <2>1. SUFFICES ASSUME TInv, ListInv,
                        \A t \in Threads : pc[t] \in {"idle", "lock_push", "lock_pop"}
                 PROVE  ListComplete
    BY DEF ListComplete
  <2>2. Whole /\ m \in Nat /\ p \in Nat /\ p <= m
    BY <2>1, ListTypes DEF ListInv, ShapeInv, HistInv
  <2>3. /\ head = IF p + 1 > m THEN NULL ELSE accepted[p + 1]
        /\ tail = IF p + 1 > m THEN NULL ELSE accepted[m]
        /\ length = m + 1 - (p + 1)
    BY <2>2 DEF Whole, First, Last
  <2>4. ASSUME NEW i \in p + 1 .. m
        PROVE  next[accepted[i]] = IF i = m THEN NULL ELSE accepted[i + 1]
    <3>1. CASE i = m
      BY <2>2, <3>1 DEF Whole, Last
    <3>2. CASE i # m
      <4>1. i \in p + 1 .. m - 1
        BY <2>2, <3>2
      <4>2. QED
        BY <2>1, <3>2, <4>1 DEF ListInv, LinkInv
    <3>3. QED
      BY <3>1, <3>2
  <2>5. QED
    BY <2>3, <2>4 DEF ListComplete, m, p
<1>2. QED
  BY <1>1, TInvAlways, ListAlways, PTL

\* What duer_qcache_pop returns is what was pushed, each once and in order: on
\* the ports whose mutex waits the list implements the FIFO outbox.
THEOREM ListRefinesFifo == ASSUME LockWaits PROVE Spec => ListIsFifo
<1>1. Init => Box!OInit
  BY DEF Init, Box!OInit
<1>2. ASSUME TInv, ListInv, [Next]_vars PROVE [Box!ONext]_(Box!ovars)
  <2>1. CASE \E t \in Threads : PushStore(t)
    <3>1. PICK t \in Threads : PushStore(t)
      BY <2>1
    <3>2. q[t] \in Nodes /\ accepted' = Append(accepted, q[t]) /\ popped' = popped
      BY <1>2, <3>1 DEF TInv, TypeOK, PushStore, Move
    <3>3. QED
      BY <3>2 DEF Box!ONext, Box!Accept
  <2>2. CASE \E t \in Threads : PopFree(t)
    <3>1. PICK t \in Threads : PopFree(t)
      BY <2>2
    <3>2. p < m /\ q[t] = accepted[p + 1]
      BY <1>2, <3>1, HistFree DEF ListInv
    <3>3. popped' = Append(popped, accepted[p + 1]) /\ accepted' = accepted
      BY <3>1, <3>2 DEF PopFree
    <3>4. QED
      BY <3>2, <3>3 DEF Box!ONext, Box!Deliver, m, p
  <2>3. CASE UNCHANGED <<accepted, popped>>
    BY <2>3 DEF Box!ovars
  <2>4. QED
    BY <1>2, <2>1, <2>2, <2>3
       DEF Next, BeginPush, BeginPop, Lock, Unlock, Push, PushLink, PushTail, PushRead, Pop,
           PopEmpty, PopTake, PopHead, PopRead, PopStore, PopClear
<1>3. TInv /\ ListInv /\ [Next]_vars => [Box!ONext]_(Box!ovars)
  BY <1>2
<1>4. QED
  BY <1>1, <1>3, TInvAlways, ListAlways, PTL DEF Spec, ListIsFifo, Box!OSpec
=============================================================================
