---------------------------- MODULE DcsAudioProofs ----------------------------
(***************************************************************************)
(* The audio player, for any number of items and calls.  Whatever the      *)
(* other threads do, the item whose URL it is handed is alive and at the   *)
(* head of the queue.  As long as calls do not overlap, its state, the     *)
(* queue and the token agree, and speech goes before audio.                *)
(***************************************************************************)
EXTENDS DcsAudio, FiniteSetTheorems, TLAPS

\* A thread in these steps has taken s_queue_lock and not given it back.
Inside == {"check", "pend", "rewind", "play", "hand", "unlock"}

\* In these it uses the item it read from the head.
Using == {"check", "play", "hand"}

LockInv ==
    /\ \A t \in Threads : pc[t] \in Inside => lock = t
    /\ \A t \in Threads : pc[t] \in Using => queue # <<>> /\ item[t] = Head(queue)

Inv == TypeOK /\ LockInv

USE DEF playVars, dialogVars, appVars, callVars, vars

-----------------------------------------------------------------------------
LEMMA EmptiedType ==
    ASSUME NEW q \in Seq(Items \cup {NULL})
    PROVE  /\ Emptied(q) \in Seq(Items \cup {NULL})
           /\ Popped(q) \in Seq(Items \cup {NULL})
           /\ HeadOf(q) \in Items \cup {NULL}
<1>1. ASSUME NEW S \in SUBSET DOMAIN q PROVE Cardinality(S) \in Nat
  <2>1. IsFiniteSet(DOMAIN q)
    BY FS_Interval
  <2>2. QED
    BY <1>1, <2>1, FS_Subset, FS_CardinalityType
<1>2. Emptied(q) \in Seq(Items \cup {NULL})
  <2>1. \A n \in Nat : SubSeq(q, n + 1, Len(q)) \in Seq(Items \cup {NULL})
    OBVIOUS
  <2>2. QED
    BY <1>1, <2>1 DEF Emptied
<1>3. QED
  BY <1>2 DEF Popped, HeadOf

-----------------------------------------------------------------------------
(* Type correctness. *)

\* A step of a thread's control keeps the control well typed.
LEMMA GoType ==
    ASSUME TypeOK, NEW t \in Threads, NEW a, NEW b \in Steps, Go(t, a, b)
    PROVE  pc' \in [Threads -> Steps]
BY DEF TypeOK, Go

LEMMA TypeStartStep == ASSUME TypeOK, NEW t \in Threads, StartStep(t) PROVE TypeOK'
<1>1. CASE StartNothing(t)
  BY <1>1 DEF StartNothing, Go, Steps, Locking, TypeOK, States
<1>2. CASE StartTop(t)
  BY <1>2 DEF StartTop, HeadOf, Go, Steps, Locking, TypeOK, States
<1>3. CASE StartCheck(t)
  BY <1>3 DEF StartCheck, Go, Steps, Locking, TypeOK, States
<1>4. CASE StartPend(t)
  BY <1>4 DEF StartPend, Go, Steps, Locking, TypeOK, States
<1>5. CASE StartRewind(t)
  BY <1>5 DEF StartRewind, Go, Steps, Locking, TypeOK, States
<1>6. CASE StartPlay(t)
  BY <1>6 DEF StartPlay, Go, Steps, Locking, TypeOK, States
<1>7. CASE Hand(t)
  BY <1>7 DEF Hand, Go, Steps, Locking, TypeOK, States
<1>8. QED
  BY <1>1, <1>2, <1>3, <1>4, <1>5, <1>6, <1>7 DEF StartStep

LEMMA TypeQueueStep == ASSUME TypeOK, NEW t \in Threads, QueueStep(t) PROVE TypeOK'
<1>0. /\ Emptied(queue) \in Seq(Items \cup {NULL}) /\ Emptied(Popped(queue)) \in Seq(Items \cup {NULL})
      /\ Popped(queue) \in Seq(Items \cup {NULL}) /\ HeadOf(queue) \in Items \cup {NULL}
      /\ item[t] \in Items \cup {NULL}
  BY EmptiedType DEF TypeOK
<1>1. CASE ReplaceTest(t)
  BY <1>1 DEF ReplaceTest, Go, Steps, Locking, TypeOK, States
<1>2. CASE ReplaceStop(t)
  BY <1>2 DEF ReplaceStop, Go, Steps, Locking, TypeOK, States
<1>3. CASE Fill(t)
  BY <1>0, <1>3 DEF Fill, Go, Steps, Locking, TypeOK, States
<1>4. CASE AppendItem(t)
  BY <1>0, <1>4 DEF AppendItem, Go, Steps, Locking, TypeOK, States
<1>5. CASE Keep(t)
  BY <1>0, <1>5 DEF Keep, Go, Steps, Locking, TypeOK, States
<1>6. CASE Trim(t)
  BY <1>0, <1>6 DEF Trim, Go, Steps, Locking, TypeOK, States
<1>7. CASE Stop(t)
  BY <1>7 DEF Stop, Go, Steps, Locking, TypeOK, States
<1>8. CASE Empty(t)
  BY <1>0, <1>8 DEF Empty, Go, Steps, Locking, TypeOK, States
<1>9. QED
  BY <1>1, <1>2, <1>3, <1>4, <1>5, <1>6, <1>7, <1>8 DEF QueueStep

LEMMA TypePlayerStep == ASSUME TypeOK, NEW t \in Threads, PlayerStep(t) PROVE TypeOK'
<1>0. /\ Emptied(queue) \in Seq(Items \cup {NULL}) /\ Emptied(Popped(queue)) \in Seq(Items \cup {NULL})
      /\ Popped(queue) \in Seq(Items \cup {NULL}) /\ HeadOf(queue) \in Items \cup {NULL}
      /\ item[t] \in Items \cup {NULL}
  BY EmptiedType DEF TypeOK
<1>1. CASE EndedTest(t)
  BY <1>1 DEF EndedTest, Go, Steps, Locking, TypeOK, States
<1>2. CASE Pop(t)
  BY <1>0, <1>2 DEF Pop, Go, Steps, Locking, TypeOK, States
<1>3. CASE PauseTest(t)
  BY <1>3 DEF PauseTest, AfterPause, Go, Steps, Locking, TypeOK, States
<1>4. CASE Pause(t)
  BY <1>4 DEF Pause, Go, Steps, Locking, TypeOK, States
<1>5. CASE Position(t)
  BY <1>5 DEF Position, AfterPause, Go, Steps, Locking, TypeOK, States
<1>6. CASE ResumeTest(t)
  BY <1>6 DEF ResumeTest, Go, Steps, Locking, TypeOK, States
<1>7. CASE Resume(t)
  BY <1>7 DEF Resume, Go, Steps, Locking, TypeOK, States
<1>8. CASE ResumeWhere(t)
  BY <1>8 DEF ResumeWhere, Go, Steps, Locking, TypeOK, States
<1>9. CASE SeekNothing(t)
  BY <1>9 DEF SeekNothing, Go, Steps, Locking, TypeOK, States
<1>10. CASE SeekTop(t)
  BY <1>0, <1>10 DEF SeekTop, HeadOf, Go, Steps, Locking, TypeOK, States
<1>11. QED
  BY <1>1, <1>2, <1>3, <1>4, <1>5, <1>6, <1>7, <1>8, <1>9, <1>10 DEF PlayerStep

LEMMA TypeSpeechStep == ASSUME TypeOK, NEW t \in Threads, SpeechStep(t) PROVE TypeOK'
<1>1. CASE Speak(t)
  BY <1>1 DEF Speak, Go, Steps, Locking, TypeOK, States
<1>2. CASE SpokenTest(t)
  BY <1>2 DEF SpokenTest, Go, Steps, Locking, TypeOK, States
<1>3. CASE Silent(t)
  <2>1. pc' \in [Threads -> Steps]
    BY <1>3, GoType DEF Silent, Steps
  <2>2. speech' \in BOOLEAN
    BY <1>3 DEF Silent
  <2>3. QED
    BY <1>3, <2>1, <2>2 DEF Silent, TypeOK
<1>4. CASE RoundTest(t)
  BY <1>4 DEF RoundTest, Go, Steps, Locking, TypeOK, States
<1>5. QED
  BY <1>1, <1>2, <1>3, <1>4 DEF SpeechStep

LEMMA TypeListenStep == ASSUME TypeOK, NEW t \in Threads, ListenStep(t) PROVE TypeOK'
<1>1. CASE Interrupt(t)
  <2>1. pc' \in [Threads -> Steps]
    BY <1>1, GoType DEF Interrupt, Steps
  <2>2. speech' \in BOOLEAN
    BY <1>1 DEF Interrupt
  <2>3. QED
    BY <1>1, <2>1, <2>2 DEF Interrupt, TypeOK
<1>2. CASE Listen(t)
  BY <1>2 DEF Listen, Go, Steps, Locking, TypeOK, States
<1>3. QED
  BY <1>1, <1>2 DEF ListenStep

LEMMA TypeBegin ==
    ASSUME TypeOK, \/ Directive \/ AudioEnds \/ BeginSpeak \/ SpeechEnds \/ BeginListen
                   \/ ListenDirective \/ StopListen \/ TimerExpires \/ ListenTimeout
    PROVE  TypeOK'
<1>0. MaxItems \in Nat /\ MaxCalls \in Nat /\ {"directive", "player", "speaker", "user"} \subseteq Threads
  BY DcsAudioAssumption DEF Threads
<1>1. ASSUME NEW b, NEW s \in Steps, BeginPlay(b, s) PROVE TypeOK'
  <2>1. items + 1 \in Items \cup {NULL} /\ items + 1 \in 0 .. MaxItems
    BY <1>0, <1>1 DEF BeginPlay, TypeOK, Items
  <2>2. QED
    BY <1>0, <1>1, <2>1 DEF BeginPlay, Begin, Go, TypeOK
<1>2. ASSUME NEW b, NEW s \in Steps, BeginClear(b, s) PROVE TypeOK'
  <2>1. calls + 1 \in 0 .. MaxCalls
    BY <1>0, <1>2 DEF BeginClear, TypeOK
  <2>2. QED
    BY <1>0, <1>2, <2>1 DEF BeginClear, Begin, Go, TypeOK
<1>3. CASE Directive
  BY <1>1, <1>2, <1>3 DEF Directive, Steps, Locking
<1>4. CASE AudioEnds
  BY <1>0, <1>4 DEF AudioEnds, Begin, Go, TypeOK, Steps
<1>5. CASE BeginSpeak
  <2>1. pc' \in [Threads -> Steps]
    BY <1>0, <1>5, GoType DEF BeginSpeak, Begin, Steps
  <2>2. calls' \in 0 .. MaxCalls
    BY <1>0, <1>5 DEF BeginSpeak, TypeOK
  <2>3. speech' \in BOOLEAN /\ overlapped' \in BOOLEAN
    BY <1>5 DEF BeginSpeak, Begin
  <2>4. UNCHANGED <<state, offset, token, queue, lock, multi, listening, timer, expired,
                    audio, speaking, item, items>>
    BY <1>5 DEF BeginSpeak
  <2>5. QED
    BY <2>1, <2>2, <2>3, <2>4 DEF TypeOK
<1>6. CASE SpeechEnds
  BY <1>0, <1>6 DEF SpeechEnds, Begin, Go, TypeOK, Steps
<1>7. CASE BeginListen
  <2>1. pc' \in [Threads -> Steps]
    BY <1>0, <1>7, GoType DEF BeginListen, Begin, Steps
  <2>2. calls' \in 0 .. MaxCalls
    BY <1>0, <1>7 DEF BeginListen, TypeOK
  <2>3. multi' \in BOOLEAN /\ overlapped' \in BOOLEAN
    BY <1>7 DEF BeginListen, Begin
  <2>4. UNCHANGED <<state, offset, token, queue, lock, speech, listening, timer, expired,
                    audio, speaking, item, items>>
    BY <1>7 DEF BeginListen
  <2>5. QED
    BY <2>1, <2>2, <2>3, <2>4 DEF TypeOK
<1>8. CASE ListenDirective \/ StopListen \/ TimerExpires \/ ListenTimeout
  BY <1>8 DEF ListenDirective, StopListen, TimerExpires, ListenTimeout, TypeOK
<1>9. QED
  BY <1>3, <1>4, <1>5, <1>6, <1>7, <1>8

LEMMA TypeNext == TypeOK /\ [Next]_vars => TypeOK'
<1>1. ASSUME TypeOK, UNCHANGED vars PROVE TypeOK'
  BY <1>1 DEF TypeOK
<1>2. ASSUME TypeOK, NEW t \in Threads, Acquire(t) \/ Release(t) PROVE TypeOK'
  BY <1>2 DEF Acquire, Release, Go, TypeOK, Steps
<1>3. QED
  BY <1>1, <1>2, TypeStartStep, TypeQueueStep, TypePlayerStep, TypeSpeechStep,
     TypeListenStep, TypeBegin DEF Next, ThreadStep

LEMMA TypeInit == Init => TypeOK
<1>1. <<>> \in Seq(Items \cup {NULL}) /\ 0 \in 0 .. MaxItems /\ 0 \in 0 .. MaxCalls
  BY DcsAudioAssumption
<1>2. QED
  BY <1>1 DEF Init, TypeOK, States, Steps

-----------------------------------------------------------------------------
(* The lock and the head of the queue. *)

\* A thread t moves; the queue changes only if t holds the lock.
LEMMA LockKept ==
    ASSUME Inv, NEW t \in Threads, NEW b \in Steps, pc' = [pc EXCEPT ![t] = b],
           b \in Inside => lock' = t,
           \A u \in Threads \ {t} : lock = u => lock' = u,
           \A u \in Threads \ {t} : item'[u] = item[u],
           queue' # queue => lock = t,
           b \in Using => queue' # <<>> /\ item'[t] = Head(queue')
    PROVE  LockInv'
<1>1. pc'[t] = b /\ \A u \in Threads \ {t} : pc'[u] = pc[u]
  BY DEF Inv, TypeOK
<1>2. ASSUME NEW u \in Threads, pc'[u] \in Inside PROVE lock' = u
  BY <1>1, <1>2 DEF Inv, LockInv
<1>3. ASSUME NEW u \in Threads, pc'[u] \in Using PROVE queue' # <<>> /\ item'[u] = Head(queue')
  <2>1. CASE u = t
    BY <1>1, <1>3, <2>1
  <2>2. CASE u # t
    <3>1. pc[u] \in Using /\ pc[u] \in Inside /\ lock = u
      BY <1>1, <1>3, <2>2 DEF Inv, LockInv, Using, Inside
    <3>2. queue' = queue /\ item'[u] = item[u]
      BY <2>2, <3>1
    <3>3. QED
      BY <3>1, <3>2 DEF Inv, LockInv
  <2>3. QED
    BY <2>1, <2>2
<1>4. QED
  BY <1>2, <1>3 DEF LockInv

LEMMA LockStartStep == ASSUME Inv, NEW t \in Threads, StartStep(t) PROVE LockInv'
<1>0. /\ pc[t] \in Inside => lock = t
      /\ pc[t] \in Using => queue # <<>> /\ item[t] = Head(queue)
  BY DEF Inv, LockInv
<1>1. CASE StartNothing(t)
  BY <1>0, <1>1, LockKept DEF StartNothing, Go, Steps, Locking, Inside, Using
<1>2. CASE StartTop(t)
  BY <1>0, <1>2, LockKept DEF StartTop, HeadOf, Go, Steps, Locking, Inside, Using, Inv, TypeOK
<1>3. CASE StartCheck(t)
  BY <1>0, <1>3, LockKept DEF StartCheck, Go, Steps, Locking, Inside, Using
<1>4. CASE StartPend(t)
  BY <1>0, <1>4, LockKept DEF StartPend, Go, Steps, Locking, Inside, Using
<1>5. CASE StartRewind(t)
  BY <1>0, <1>5, LockKept DEF StartRewind, Go, Steps, Locking, Inside, Using
<1>6. CASE StartPlay(t)
  BY <1>0, <1>6, LockKept DEF StartPlay, Go, Steps, Locking, Inside, Using
<1>7. CASE Hand(t)
  BY <1>0, <1>7, LockKept DEF Hand, Go, Steps, Locking, Inside, Using
<1>8. QED
  BY <1>1, <1>2, <1>3, <1>4, <1>5, <1>6, <1>7 DEF StartStep

LEMMA LockQueueStep == ASSUME Inv, NEW t \in Threads, QueueStep(t) PROVE LockInv'
<1>0. /\ pc[t] \in Inside => lock = t
      /\ pc[t] \in Using => queue # <<>> /\ item[t] = Head(queue)
  BY DEF Inv, LockInv
<1>1. CASE ReplaceTest(t)
  BY <1>0, <1>1, LockKept DEF ReplaceTest, Go, Steps, Locking, Inside, Using
<1>2. CASE ReplaceStop(t)
  BY <1>0, <1>2, LockKept DEF ReplaceStop, Go, Steps, Locking, Inside, Using
<1>3. CASE Fill(t)
  BY <1>0, <1>3, LockKept DEF Fill, Go, Steps, Locking, Inside, Using
<1>4. CASE AppendItem(t)
  BY <1>0, <1>4, LockKept DEF AppendItem, Go, Steps, Locking, Inside, Using
<1>5. CASE Keep(t)
  BY <1>0, <1>5, LockKept DEF Keep, Go, Steps, Locking, Inside, Using
<1>6. CASE Trim(t)
  BY <1>0, <1>6, LockKept DEF Trim, Go, Steps, Locking, Inside, Using
<1>7. CASE Stop(t)
  BY <1>0, <1>7, LockKept DEF Stop, Go, Steps, Locking, Inside, Using
<1>8. CASE Empty(t)
  BY <1>0, <1>8, LockKept DEF Empty, Go, Steps, Locking, Inside, Using
<1>9. QED
  BY <1>1, <1>2, <1>3, <1>4, <1>5, <1>6, <1>7, <1>8 DEF QueueStep

LEMMA LockPlayerStep == ASSUME Inv, NEW t \in Threads, PlayerStep(t) PROVE LockInv'
<1>0. /\ pc[t] \in Inside => lock = t
      /\ pc[t] \in Using => queue # <<>> /\ item[t] = Head(queue)
  BY DEF Inv, LockInv
<1>1. CASE EndedTest(t)
  BY <1>0, <1>1, LockKept DEF EndedTest, Go, Steps, Locking, Inside, Using
<1>2. CASE Pop(t)
  BY <1>0, <1>2, LockKept DEF Pop, Go, Steps, Locking, Inside, Using
<1>3. CASE PauseTest(t)
  BY <1>0, <1>3, LockKept DEF PauseTest, AfterPause, Go, Steps, Locking, Inside, Using
<1>4. CASE Pause(t)
  BY <1>0, <1>4, LockKept DEF Pause, Go, Steps, Locking, Inside, Using
<1>5. CASE Position(t)
  BY <1>0, <1>5, LockKept DEF Position, AfterPause, Go, Steps, Locking, Inside, Using
<1>6. CASE ResumeTest(t)
  BY <1>0, <1>6, LockKept DEF ResumeTest, Go, Steps, Locking, Inside, Using
<1>7. CASE Resume(t)
  BY <1>0, <1>7, LockKept DEF Resume, Go, Steps, Locking, Inside, Using
<1>8. CASE ResumeWhere(t)
  BY <1>0, <1>8, LockKept DEF ResumeWhere, Go, Steps, Locking, Inside, Using
<1>9. CASE SeekNothing(t)
  BY <1>0, <1>9, LockKept DEF SeekNothing, Go, Steps, Locking, Inside, Using
<1>10. CASE SeekTop(t)
  BY <1>0, <1>10, LockKept DEF SeekTop, HeadOf, Go, Steps, Locking, Inside, Using, Inv, TypeOK
<1>11. QED
  BY <1>1, <1>2, <1>3, <1>4, <1>5, <1>6, <1>7, <1>8, <1>9, <1>10 DEF PlayerStep

LEMMA LockSpeechStep == ASSUME Inv, NEW t \in Threads, SpeechStep(t) PROVE LockInv'
<1>0. /\ pc[t] \in Inside => lock = t
      /\ pc[t] \in Using => queue # <<>> /\ item[t] = Head(queue)
  BY DEF Inv, LockInv
<1>1. CASE Speak(t)
  BY <1>0, <1>1, LockKept DEF Speak, Go, Steps, Locking, Inside, Using
<1>2. CASE SpokenTest(t)
  BY <1>0, <1>2, LockKept DEF SpokenTest, Go, Steps, Locking, Inside, Using
<1>3. CASE Silent(t)
  BY <1>0, <1>3, LockKept DEF Silent, Go, Steps, Locking, Inside, Using
<1>4. CASE RoundTest(t)
  BY <1>0, <1>4, LockKept DEF RoundTest, Go, Steps, Locking, Inside, Using
<1>5. QED
  BY <1>1, <1>2, <1>3, <1>4 DEF SpeechStep

LEMMA LockListenStep == ASSUME Inv, NEW t \in Threads, ListenStep(t) PROVE LockInv'
<1>0. /\ pc[t] \in Inside => lock = t
      /\ pc[t] \in Using => queue # <<>> /\ item[t] = Head(queue)
  BY DEF Inv, LockInv
<1>1. CASE Interrupt(t)
  BY <1>0, <1>1, LockKept DEF Interrupt, Go, Steps, Locking, Inside, Using
<1>2. CASE Listen(t)
  BY <1>0, <1>2, LockKept DEF Listen, Go, Steps, Locking, Inside, Using
<1>3. QED
  BY <1>1, <1>2 DEF ListenStep

LEMMA LockBegin ==
    ASSUME Inv, \/ Directive \/ AudioEnds \/ BeginSpeak \/ SpeechEnds \/ BeginListen
                \/ ListenDirective \/ StopListen \/ TimerExpires \/ ListenTimeout
    PROVE  LockInv'
<1>0. {"directive", "player", "speaker", "user"} \subseteq Threads
  BY DEF Threads
<1>1. ASSUME NEW b, NEW s \in Steps \ Inside, BeginPlay(b, s) PROVE LockInv'
  <2>1. \A u \in Threads \ {"directive"} : item'[u] = item[u]
    BY <1>1 DEF BeginPlay, Inv, TypeOK
  <2>2. QED
    BY <1>0, <1>1, <2>1, LockKept DEF BeginPlay, Begin, Go, Using, Inside
<1>2. ASSUME NEW b, NEW s \in Steps \ Inside, BeginClear(b, s) PROVE LockInv'
  BY <1>0, <1>2, LockKept DEF BeginClear, Begin, Go, Using, Inside
<1>3. CASE Directive
  BY <1>1, <1>2, <1>3 DEF Directive, Steps, Locking, Inside
<1>4. CASE AudioEnds
  BY <1>0, <1>4, LockKept DEF AudioEnds, Begin, Go, Steps, Using, Inside
<1>5. CASE BeginSpeak
  BY <1>0, <1>5, LockKept DEF BeginSpeak, Begin, Go, Steps, Using, Inside
<1>6. CASE SpeechEnds
  BY <1>0, <1>6, LockKept DEF SpeechEnds, Begin, Go, Steps, Using, Inside
<1>7. CASE BeginListen
  BY <1>0, <1>7, LockKept DEF BeginListen, Begin, Go, Steps, Using, Inside
<1>8. CASE ListenDirective \/ StopListen \/ TimerExpires \/ ListenTimeout
  BY <1>8 DEF ListenDirective, StopListen, TimerExpires, ListenTimeout, Inv, LockInv
<1>9. QED
  BY <1>3, <1>4, <1>5, <1>6, <1>7, <1>8

LEMMA LockNext == Inv /\ [Next]_vars => Inv'
<1>1. ASSUME Inv, UNCHANGED vars PROVE LockInv'
  BY <1>1 DEF Inv, LockInv
<1>2. ASSUME Inv, NEW t \in Threads, Acquire(t) PROVE LockInv'
  <2>1. \A u \in Threads : pc[u] \notin Inside
    BY <1>2 DEF Inv, LockInv, Acquire, Threads, Nobody
  <2>2. QED
    BY <1>2, <2>1 DEF Acquire, LockInv, Inside, Using
<1>3. ASSUME Inv, NEW t \in Threads, Release(t) PROVE LockInv'
  <2>1. lock = t
    BY <1>3 DEF Inv, LockInv, Release, Go, Inside
  <2>2. QED
    BY <1>3, <2>1, LockKept DEF Release, Go, Steps, Inside, Using
<1>4. ASSUME Inv, Next PROVE LockInv'
  BY <1>2, <1>3, <1>4, LockStartStep, LockQueueStep, LockPlayerStep, LockSpeechStep,
     LockListenStep, LockBegin DEF Next, ThreadStep
<1>5. QED
  BY <1>1, <1>4, TypeNext DEF Inv

LEMMA LockInit == Init => Inv
BY TypeInit DEF Init, Inv, LockInv, Inside, Using

LEMMA InvAlways == Spec => []Inv
BY LockInit, LockNext, PTL DEF Spec

\* Every variable of the audio and speech channels stays in its type.
THEOREM AudioTypeCorrect == Spec => []TypeOK
<1>1. Inv => TypeOK
  BY DEF Inv
<1>2. QED
  BY <1>1, InvAlways, PTL

\* Whatever the directives, the players' callbacks and the user do meanwhile,
\* the player is handed an item that is alive and heads the play queue
\* (duer_start_audio_play, duer_resume_audio_internal).
THEOREM LiveHeadHanded == Spec => []HandsLiveHead
<1>1. Inv => HandsLiveHead
  BY DEF Inv, LockInv, HandsLiveHead, Using
<1>2. QED
  BY <1>1, InvAlways, PTL

-----------------------------------------------------------------------------
(* The NULL nodes of the play queue. *)

\* Only the first node holds a NULL, and no directive brings one.
Bringing == {"replace", "replace_stop", "fill", "append", "keep"}
NullInv ==
    /\ \A i \in 2 .. Len(queue) : queue[i] # NULL
    /\ \A t \in Threads : pc[t] \in Bringing => item[t] # NULL

\* So duer_empty_play_queue stops early only at a NULL in front.
LEMMA EmptiedValue ==
    ASSUME NEW q \in Seq(Items \cup {NULL}), \A i \in 2 .. Len(q) : q[i] # NULL
    PROVE  /\ Emptied(Popped(q)) = <<>>
           /\ Emptied(q) = IF HeadOf(q) = NULL /\ q # <<>> THEN Tail(q) ELSE <<>>
<1>1. ASSUME NEW r \in Seq(Items \cup {NULL}), \A i \in 1 .. Len(r) : r[i] # NULL
      PROVE  Emptied(r) = <<>>
  <2>1. {i \in DOMAIN r : \A j \in 1 .. i - 1 : r[j] # NULL} = 1 .. Len(r)
    BY <1>1
  <2>2. Cardinality(1 .. Len(r)) = Len(r)
    BY FS_Interval
  <2>3. SubSeq(r, Len(r) + 1, Len(r)) = <<>>
    OBVIOUS
  <2>4. QED
    BY <2>1, <2>2, <2>3 DEF Emptied
<1>2. CASE q = <<>>
  <2>1. <<>> \in Seq(Items \cup {NULL}) /\ \A i \in 1 .. Len(<<>>) : <<>>[i] # NULL
    OBVIOUS
  <2>2. Emptied(<<>>) = <<>>
    BY <1>1, <2>1
  <2>3. QED
    BY <1>2, <2>2 DEF Popped, HeadOf
<1>3. CASE q # <<>> /\ Head(q) # NULL
  <2>1. \A i \in 1 .. Len(q) : q[i] # NULL
    BY <1>3
  <2>2. Tail(q) \in Seq(Items \cup {NULL}) /\ \A i \in 1 .. Len(Tail(q)) : Tail(q)[i] # NULL
    BY <1>3, <2>1
  <2>3. QED
    BY <1>1, <1>3, <2>1, <2>2 DEF Popped, HeadOf
<1>4. CASE q # <<>> /\ Head(q) = NULL
  <2>1. Tail(q) \in Seq(Items \cup {NULL}) /\ \A i \in 1 .. Len(Tail(q)) : Tail(q)[i] # NULL
    BY <1>4
  <2>2. {i \in DOMAIN q : \A j \in 1 .. i - 1 : q[j] # NULL} = {1}
    <3>1. q[1] = NULL /\ 1 \in DOMAIN q /\ DOMAIN q = 1 .. Len(q)
      BY <1>4
    <3>2. \A i \in DOMAIN q : (\A j \in 1 .. i - 1 : q[j] # NULL) => i = 1
      BY <3>1
    <3>3. \A j \in 1 .. 1 - 1 : q[j] # NULL
      OBVIOUS
    <3>4. QED
      BY <3>1, <3>2, <3>3
  <2>3. Cardinality({1}) = 1
    BY FS_Singleton
  <2>4. SubSeq(q, 2, Len(q)) = Tail(q)
    BY <1>4
  <2>5. Emptied(q) = Tail(q)
    <3>1. Emptied(q) = SubSeq(q, Cardinality({1}) + 1, Len(q))
      BY <2>2 DEF Emptied
    <3>2. QED
      BY <2>3, <2>4, <3>1
  <2>6. Emptied(Tail(q)) = <<>>
    BY <1>1, <2>1
  <2>7. QED
    BY <1>4, <2>5, <2>6 DEF Popped, HeadOf
<1>5. QED
  BY <1>2, <1>3, <1>4

\* A thread moves without touching the queue, or the item it brings.
LEMMA NullKept ==
    ASSUME Inv, NullInv, NEW t \in Threads, NEW b \in Steps, pc' = [pc EXCEPT ![t] = b],
           b \in Bringing => item'[t] # NULL,
           \A u \in Threads \ {t} : item'[u] = item[u],
           \A i \in 2 .. Len(queue') : queue'[i] # NULL
    PROVE  NullInv'
BY DEF Inv, TypeOK, NullInv

LEMMA NullStep == ASSUME Inv, NullInv, NEW t \in Threads, ThreadStep(t) PROVE NullInv'
<1>0. /\ pc[t] \in Bringing => item[t] # NULL
      /\ \A i \in 2 .. Len(queue) : queue[i] # NULL
      /\ queue \in Seq(Items \cup {NULL}) /\ HeadOf(queue) \in Items \cup {NULL}
      /\ item \in [Threads -> Items \cup {NULL}]
  BY EmptiedType DEF Inv, NullInv, TypeOK
<1>1. /\ Emptied(Popped(queue)) = <<>>
      /\ Emptied(queue) = IF HeadOf(queue) = NULL /\ queue # <<>> THEN Tail(queue) ELSE <<>>
  BY <1>0, EmptiedValue
<1>2. \A i \in 2 .. Len(Popped(queue)) : Popped(queue)[i] # NULL
  BY <1>0 DEF Popped
<1>3. Emptied(queue) \in Seq(Items \cup {NULL}) /\ \A i \in 1 .. Len(Emptied(queue)) : Emptied(queue)[i] # NULL
  BY <1>0, <1>1
<1>4. CASE Fill(t)
  <2>1. pc[t] = "fill" /\ pc' = [pc EXCEPT ![t] = "start"] /\ item' = item /\ item[t] # NULL
    BY <1>0, <1>4 DEF Fill, Go, Bringing
  <2>2. \A i \in 2 .. Len(queue') : queue'[i] # NULL
    BY <1>0, <1>3, <1>4, <2>1 DEF Fill
  <2>3. QED
    BY <2>1, <2>2, NullKept DEF Bringing, Steps, Locking
<1>5. CASE AppendItem(t)
  <2>1. item[t] # NULL /\ item' = item
    BY <1>0, <1>5 DEF AppendItem, Go, Bringing
  <2>2. \A i \in 2 .. Len(queue') : queue'[i] # NULL
    BY <1>0, <1>5, <2>1 DEF AppendItem
  <2>3. QED
    BY <1>5, <2>1, <2>2, NullKept DEF AppendItem, Go, Bringing, Steps, Locking
<1>6. CASE Keep(t)
  <2>1. item[t] # NULL /\ item' = item
    BY <1>0, <1>6 DEF Keep, Go, Bringing
  <2>2. queue' = <<HeadOf(queue), item[t]>>
    BY <1>0, <1>1, <1>6 DEF Keep
  <2>3. \A i \in 2 .. Len(queue') : queue'[i] # NULL
    BY <2>1, <2>2
  <2>4. QED
    BY <1>6, <2>1, <2>3, NullKept DEF Keep, Go, Bringing, Steps, Locking
<1>7. CASE Trim(t)
  <2>1. queue' = <<HeadOf(queue)>>
    BY <1>0, <1>1, <1>7 DEF Trim
  <2>2. \A i \in 2 .. Len(queue') : queue'[i] # NULL
    BY <2>1
  <2>3. QED
    BY <1>7, <2>2, NullKept DEF Trim, Go, Bringing, Steps, Locking
<1>8. CASE Empty(t)
  <2>1. \A i \in 2 .. Len(queue') : queue'[i] # NULL
    BY <1>3, <1>8 DEF Empty
  <2>2. QED
    BY <1>8, <2>1, NullKept DEF Empty, Go, Bringing, Steps
<1>9. CASE Pop(t)
  BY <1>2, <1>9, NullKept DEF Pop, Go, Bringing, Steps, Locking
<1>10. CASE StartTop(t) \/ SeekTop(t)
  BY <1>0, <1>10, NullKept DEF StartTop, SeekTop, HeadOf, Go, Bringing, Steps
<1>11. CASE StartNothing(t) \/ StartCheck(t) \/ StartPend(t) \/ StartRewind(t) \/ StartPlay(t) \/ Hand(t)
  BY <1>0, <1>11, NullKept DEF StartNothing, StartCheck, StartPend, StartRewind, StartPlay, Hand,
     Go, Bringing, Steps, Locking
<1>12. CASE ReplaceTest(t) \/ ReplaceStop(t) \/ Stop(t)
  BY <1>0, <1>12, NullKept DEF ReplaceTest, ReplaceStop, Stop, Go, Bringing, Steps, Locking
<1>13. CASE EndedTest(t) \/ PauseTest(t) \/ Pause(t) \/ Position(t)
  BY <1>0, <1>13, NullKept DEF EndedTest, PauseTest, Pause, Position, AfterPause, Go,
     Bringing, Steps, Locking
<1>14. CASE ResumeTest(t) \/ Resume(t) \/ ResumeWhere(t) \/ SeekNothing(t)
  BY <1>0, <1>14, NullKept DEF ResumeTest, Resume, ResumeWhere, SeekNothing, Go,
     Bringing, Steps, Locking
<1>15. CASE SpeechStep(t) \/ ListenStep(t)
  BY <1>0, <1>15, NullKept DEF SpeechStep, Speak, SpokenTest, Silent, RoundTest,
     ListenStep, Interrupt, Listen, Go, Bringing, Steps, Locking
<1>16. CASE Acquire(t)
  BY <1>16 DEF Acquire, NullInv
<1>17. CASE Release(t)
  BY <1>0, <1>17, NullKept DEF Release, Go, Bringing, Steps
<1>18. QED
  BY <1>4, <1>5, <1>6, <1>7, <1>8, <1>9, <1>10, <1>11, <1>12, <1>13, <1>14, <1>15, <1>16, <1>17
  DEF ThreadStep, StartStep, QueueStep, PlayerStep

LEMMA NullBegin ==
    ASSUME Inv, NullInv, \/ Directive \/ AudioEnds \/ BeginSpeak \/ SpeechEnds \/ BeginListen
                         \/ ListenDirective \/ StopListen \/ TimerExpires \/ ListenTimeout
    PROVE  NullInv'
<1>0. {"directive", "player", "speaker", "user"} \subseteq Threads
  BY DEF Threads
<1>1. ASSUME NEW b, NEW s \in Steps, BeginPlay(b, s) PROVE NullInv'
  <2>1. item'["directive"] = items + 1 /\ \A u \in Threads \ {"directive"} : item'[u] = item[u]
    BY <1>0, <1>1 DEF BeginPlay, Inv, TypeOK
  <2>2. items + 1 # NULL
    BY DEF Inv, TypeOK, NULL
  <2>3. QED
    BY <1>0, <1>1, <2>1, <2>2, NullKept DEF BeginPlay, Begin, Go, NullInv
<1>2. ASSUME NEW b, NEW s \in Steps \ Bringing, BeginClear(b, s) PROVE NullInv'
  BY <1>0, <1>2, NullKept DEF BeginClear, Begin, Go, NullInv
<1>3. CASE Directive
  BY <1>1, <1>2, <1>3 DEF Directive, Steps, Locking, Bringing
<1>4. ASSUME NEW t \in Threads, NEW s \in Steps \ Bringing, Begin(t, s), UNCHANGED <<queue, item>>
      PROVE  NullInv'
  BY <1>4, NullKept DEF Begin, Go, NullInv
<1>5. CASE AudioEnds \/ SpeechEnds \/ BeginSpeak \/ BeginListen
  BY <1>0, <1>4, <1>5 DEF AudioEnds, SpeechEnds, BeginSpeak, BeginListen, Steps, Bringing
<1>6. CASE ListenDirective \/ StopListen \/ TimerExpires \/ ListenTimeout
  BY <1>6 DEF ListenDirective, StopListen, TimerExpires, ListenTimeout, NullInv
<1>7. QED
  BY <1>3, <1>5, <1>6

LEMMA NullNext == Inv /\ NullInv /\ [Next]_vars => NullInv'
<1>1. ASSUME NullInv, UNCHANGED vars PROVE NullInv'
  BY <1>1 DEF NullInv
<1>2. QED
  BY <1>1, NullStep, NullBegin DEF Next

-----------------------------------------------------------------------------
(* Calls that do not overlap. *)

\* What state, player, queue, token and offset tell of each other.
Agree ==
    /\ state = "PLAYING" <=> audio # NULL
    /\ audio # NULL => audio = HeadOf(queue) /\ audio = token
    /\ state = "PAUSED" /\ offset # 0 => HeadOf(queue) = token /\ token # NULL

\* The same, and no speech over audio.
Rest == Agree /\ ~(speech /\ state = "PLAYING")

\* Steps at which nothing is half-way, and steps at which the player is stopped.
Resting == {"idle", "unlock", "replace", "append", "keep", "trim", "speak", "listen",
            "spoken", "silent", "round", "resume", "resuming", "interrupt"}
Stopped == {"fill", "start", "check", "pend", "rewind", "play", "hand", "stop", "stop_clear",
            "empty", "ended", "pop", "where", "seek"}

\* What holds at each step of the one thread that is in a call.
At(t) ==
    /\ pc[t] \in Resting => Rest
    /\ pc[t] \in Stopped => audio = NULL
    /\ pc[t] \in {"round", "resume", "resuming", "play", "hand", "where", "seek"} => ~speech
    /\ pc[t] = "replace_stop" => ~speech
    /\ pc[t] \in {"hand", "where", "seek", "ended", "replace_stop", "pausing"} => state = "PLAYING"
    /\ pc[t] \in {"check", "play", "hand"} => item[t] # NULL
    /\ pc[t] = "hand" => token = item[t]
    /\ pc[t] \in {"rewind", "resuming", "position"} => state = "PAUSED"
    /\ pc[t] = "empty" => state = "STOPPED"
    /\ pc[t] \in {"pause", "pausing"} => Agree
    /\ pc[t] = "position" => audio = HeadOf(queue) /\ audio = token /\ audio # NULL
    /\ pc[t] = "where" /\ offset # 0 => HeadOf(queue) = token /\ token # NULL
    /\ pc[t] = "seek" => HeadOf(queue) = token /\ token # NULL

SerialInv ==
    ~overlapped => \E t \in Threads : At(t) /\ \A u \in Threads \ {t} : pc[u] = "idle"

\* Pushing behind the head leaves it what it was, unless there was none.
LEMMA HeadKept ==
    ASSUME NEW q \in Seq(Items \cup {NULL}), NEW x \in Items \cup {NULL}
    PROVE  /\ HeadOf(q) # NULL => HeadOf(Append(q, x)) = HeadOf(q)
           /\ HeadOf(<<HeadOf(q), x>>) = HeadOf(q)
           /\ HeadOf(<<HeadOf(q)>>) = HeadOf(q)
<1>1. CASE q = <<>>
  BY <1>1 DEF HeadOf
<1>2. CASE q # <<>>
  <2>1. Append(q, x) # <<>> /\ Head(Append(q, x)) = Head(q)
    BY <1>2
  <2>2. QED
    BY <1>2, <2>1 DEF HeadOf
<1>3. QED
  BY <1>1, <1>2

LEMMA AtStart == ASSUME Inv, NEW t \in Threads, At(t), StartStep(t) PROVE At(t)'
<1>0. pc \in [Threads -> Steps] /\ item \in [Threads -> Items \cup {NULL}]
  BY DEF Inv, TypeOK
<1>1. CASE StartNothing(t)
  BY <1>0, <1>1 DEF StartNothing, Go, At, Resting, Stopped, Rest, Agree
<1>2. CASE StartTop(t)
  BY <1>0, <1>2 DEF StartTop, Go, At, Resting, Stopped, HeadOf
<1>3. CASE StartCheck(t)
  BY <1>0, <1>3 DEF StartCheck, Go, At, Resting, Stopped
<1>4. CASE StartPend(t)
  BY <1>0, <1>4 DEF StartPend, Go, At, Resting, Stopped
<1>5. CASE StartRewind(t)
  BY <1>0, <1>5 DEF StartRewind, Go, At, Resting, Stopped, Rest, Agree
<1>6. CASE StartPlay(t)
  BY <1>0, <1>6 DEF StartPlay, Go, At, Resting, Stopped
<1>7. CASE Hand(t)
  <2>1. item[t] = HeadOf(queue)
    BY <1>7 DEF Hand, Go, Inv, LockInv, Using, HeadOf
  <2>2. QED
    BY <1>0, <1>7, <2>1 DEF Hand, Go, At, Resting, Stopped, Rest, Agree
<1>8. QED
  BY <1>1, <1>2, <1>3, <1>4, <1>5, <1>6, <1>7 DEF StartStep

LEMMA AtQueue == ASSUME Inv, NullInv, NEW t \in Threads, At(t), QueueStep(t) PROVE At(t)'
<1>0. /\ pc \in [Threads -> Steps] /\ item \in [Threads -> Items \cup {NULL}]
      /\ queue \in Seq(Items \cup {NULL}) /\ Emptied(Popped(queue)) = <<>>
      /\ HeadOf(queue) \in Items \cup {NULL} /\ item[t] \in Items \cup {NULL}
  BY EmptiedValue, EmptiedType DEF Inv, TypeOK, NullInv
<1>1. CASE ReplaceTest(t)
  BY <1>0, <1>1 DEF ReplaceTest, Go, At, Resting, Stopped, Rest, Agree
<1>2. CASE ReplaceStop(t)
  BY <1>0, <1>2 DEF ReplaceStop, Go, At, Resting, Stopped
<1>3. CASE Fill(t)
  BY <1>0, <1>3 DEF Fill, Go, At, Resting, Stopped
<1>4. CASE AppendItem(t)
  <2>1. HeadOf(queue) # NULL => HeadOf(queue') = HeadOf(queue)
    BY <1>0, <1>4, HeadKept DEF AppendItem
  <2>2. QED
    BY <1>0, <1>4, <2>1 DEF AppendItem, Go, At, Resting, Stopped, Rest, Agree
<1>5. CASE Keep(t) \/ Trim(t)
  <2>1. HeadOf(queue') = HeadOf(queue)
    <3>1. queue' = <<HeadOf(queue), item[t]>> \/ queue' = <<HeadOf(queue)>>
      BY <1>0, <1>5 DEF Keep, Trim
    <3>2. QED
      BY <1>0, <3>1, HeadKept
  <2>2. QED
    BY <1>0, <1>5, <2>1 DEF Keep, Trim, Go, At, Resting, Stopped, Rest, Agree
<1>6. CASE Stop(t)
  BY <1>0, <1>6 DEF Stop, Go, At, Resting, Stopped, Rest, Agree
<1>7. CASE Empty(t)
  BY <1>0, <1>7 DEF Empty, Go, At, Resting, Stopped, Rest, Agree
<1>8. QED
  BY <1>1, <1>2, <1>3, <1>4, <1>5, <1>6, <1>7 DEF QueueStep

LEMMA AtPlayer == ASSUME Inv, NEW t \in Threads, At(t), PlayerStep(t) PROVE At(t)'
<1>0. pc \in [Threads -> Steps] /\ item \in [Threads -> Items \cup {NULL}]
  BY DEF Inv, TypeOK
<1>1. CASE EndedTest(t) \/ Pop(t)
  BY <1>0, <1>1 DEF EndedTest, Pop, Go, At, Resting, Stopped
<1>2. CASE PauseTest(t)
  BY <1>0, <1>2 DEF PauseTest, AfterPause, Go, At, Resting, Stopped, Rest, Agree
<1>3. CASE Pause(t)
  BY <1>0, <1>3 DEF Pause, Go, At, Resting, Stopped, Agree
<1>4. CASE Position(t)
  BY <1>0, <1>4 DEF Position, AfterPause, Go, At, Resting, Stopped, Rest, Agree
<1>5. CASE ResumeTest(t)
  BY <1>0, <1>5 DEF ResumeTest, Go, At, Resting, Stopped, Rest, Agree
<1>6. CASE Resume(t)
  BY <1>0, <1>6 DEF Resume, Go, At, Resting, Stopped, Rest, Agree
<1>7. CASE ResumeWhere(t)
  BY <1>0, <1>7 DEF ResumeWhere, Go, At, Resting, Stopped
<1>8. CASE SeekNothing(t)
  BY <1>0, <1>8 DEF SeekNothing, Go, At
<1>9. CASE SeekTop(t)
  BY <1>0, <1>9 DEF SeekTop, Go, At, Resting, Stopped, HeadOf
<1>10. QED
  BY <1>1, <1>2, <1>3, <1>4, <1>5, <1>6, <1>7, <1>8, <1>9 DEF PlayerStep

LEMMA AtSpeech == ASSUME Inv, NEW t \in Threads, At(t), SpeechStep(t) \/ ListenStep(t) PROVE At(t)'
<1>0. pc \in [Threads -> Steps] /\ item \in [Threads -> Items \cup {NULL}]
  BY DEF Inv, TypeOK
<1>1. CASE Speak(t) \/ SpokenTest(t) \/ Silent(t) \/ RoundTest(t)
  BY <1>0, <1>1 DEF Speak, SpokenTest, Silent, RoundTest, Go, At, Resting, Stopped, Rest, Agree
<1>2. CASE Interrupt(t) \/ Listen(t)
  BY <1>0, <1>2 DEF Interrupt, Listen, Go, At, Resting, Stopped, Rest, Agree
<1>3. QED
  BY <1>1, <1>2 DEF SpeechStep, ListenStep

LEMMA AtStep == ASSUME Inv, NullInv, NEW t \in Threads, At(t), ThreadStep(t) PROVE At(t)'
<1>1. CASE Acquire(t)
  BY <1>1 DEF Acquire, At, Rest, Agree
<1>2. CASE Release(t)
  BY <1>2 DEF Release, Go, Inv, TypeOK, At, Resting, Stopped, Rest, Agree
<1>3. QED
  BY <1>1, <1>2, AtStart, AtQueue, AtPlayer, AtSpeech DEF ThreadStep

\* A thread steps only inside a call, and only itself.
LEMMA OwnStep ==
    ASSUME Inv, NEW t \in Threads, ThreadStep(t)
    PROVE  /\ pc[t] # "idle" /\ overlapped' = overlapped
           /\ \A u \in Threads \ {t} : pc'[u] = pc[u]
<1>0. pc \in [Threads -> Steps]
  BY DEF Inv, TypeOK
<1>1. CASE Acquire(t) \/ Release(t)
  BY <1>0, <1>1 DEF Acquire, Locking, Release, Go
<1>2. CASE StartStep(t)
  BY <1>0, <1>2 DEF StartStep, StartNothing, StartTop, StartCheck, StartPend, StartRewind,
     StartPlay, Hand, Go
<1>3. CASE QueueStep(t)
  BY <1>0, <1>3 DEF QueueStep, ReplaceTest, ReplaceStop, Fill, AppendItem, Keep, Trim, Stop,
     Empty, Go
<1>4. CASE PlayerStep(t)
  BY <1>0, <1>4 DEF PlayerStep, EndedTest, Pop, PauseTest, Pause, Position, ResumeTest, Resume,
     ResumeWhere, SeekNothing, SeekTop, Go
<1>5. CASE SpeechStep(t) \/ ListenStep(t)
  BY <1>0, <1>5 DEF SpeechStep, Speak, SpokenTest, Silent, RoundTest, ListenStep, Interrupt,
     Listen, Go
<1>6. QED
  BY <1>1, <1>2, <1>3, <1>4, <1>5 DEF ThreadStep

LEMMA SerialStep == ASSUME Inv, NullInv, SerialInv, NEW t \in Threads, ThreadStep(t) PROVE SerialInv'
<1>1. SUFFICES ASSUME ~overlapped'
               PROVE  \E u \in Threads : At(u)' /\ \A v \in Threads \ {u} : pc'[v] = "idle"
  BY DEF SerialInv
<1>2. PICK u \in Threads : At(u) /\ \A v \in Threads \ {u} : pc[v] = "idle"
  BY <1>1, OwnStep DEF SerialInv
<1>3. u = t
  BY <1>2, OwnStep
<1>4. At(t)'
  BY <1>2, <1>3, AtStep
<1>5. QED
  BY <1>2, <1>3, <1>4, OwnStep

\* A call that begins alone begins from rest.
LEMMA SerialBegin ==
    ASSUME Inv, SerialInv, NEW t \in Threads, NEW s \in Steps, Begin(t, s), Rest => At(t)'
    PROVE  SerialInv'
<1>1. SUFFICES ASSUME ~overlapped'
               PROVE  \E u \in Threads : At(u)' /\ \A v \in Threads \ {u} : pc'[v] = "idle"
  BY DEF SerialInv
<1>2. ~overlapped /\ \A u \in Threads : pc[u] = "idle"
  BY <1>1 DEF Begin
<1>3. Rest
  BY <1>2 DEF SerialInv, At, Resting
<1>4. \A v \in Threads \ {t} : pc'[v] = "idle"
  BY <1>2 DEF Begin, Go, Inv, TypeOK
<1>5. QED
  BY <1>3, <1>4

LEMMA SerialCalls ==
    ASSUME Inv, SerialInv, \/ Directive \/ AudioEnds \/ BeginSpeak \/ SpeechEnds \/ BeginListen
                           \/ ListenDirective \/ StopListen \/ TimerExpires \/ ListenTimeout
    PROVE  SerialInv'
<1>0. /\ {"directive", "player", "speaker", "user"} \subseteq Threads
      /\ pc \in [Threads -> Steps]
  BY DEF Threads, Inv, TypeOK
<1>1. ASSUME NEW b, NEW s \in {"replace", "append", "keep"}, BeginPlay(b, s) PROVE SerialInv'
  <2>1. Rest => At("directive")'
    BY <1>0, <1>1 DEF BeginPlay, Begin, Go, At, Resting, Stopped, Rest, Agree
  <2>2. QED
    BY <1>0, <1>1, <2>1, SerialBegin DEF BeginPlay, Steps, Locking
<1>2. CASE BeginClear("CLEAR_ENQUEUED", "trim")
  <2>1. Rest => At("directive")'
    BY <1>0, <1>2 DEF BeginClear, Begin, Go, At, Resting, Stopped, Rest, Agree
  <2>2. QED
    BY <1>0, <1>2, <2>1, SerialBegin DEF BeginClear, Steps, Locking
<1>3. CASE BeginClear("CLEAR_ALL", "stop_clear") \/ BeginClear("STOP", "stop")
  <2>1. Rest => At("directive")'
    BY <1>0, <1>3 DEF BeginClear, Begin, Go, At, Resting, Stopped
  <2>2. QED
    BY <1>0, <1>3, <2>1, SerialBegin DEF BeginClear, Steps
<1>4. CASE AudioEnds
  <2>1. Rest => At("player")'
    BY <1>0, <1>4 DEF AudioEnds, Begin, Go, At, Resting, Stopped, Rest, Agree
  <2>2. QED
    BY <1>0, <1>4, <2>1, SerialBegin DEF AudioEnds, Steps
<1>5. CASE BeginSpeak
  <2>1. Rest => At("directive")'
    BY <1>0, <1>5 DEF BeginSpeak, Begin, Go, At, Resting, Stopped, Rest, Agree
  <2>2. QED
    BY <1>0, <1>5, <2>1, SerialBegin DEF BeginSpeak, Steps
<1>6. CASE SpeechEnds
  <2>1. Rest => At("speaker")'
    BY <1>0, <1>6 DEF SpeechEnds, Begin, Go, At, Resting, Stopped, Rest, Agree
  <2>2. QED
    BY <1>0, <1>6, <2>1, SerialBegin DEF SpeechEnds, Steps
<1>7. CASE BeginListen
  <2>1. Rest => At("user")'
    BY <1>0, <1>7 DEF BeginListen, Begin, Go, At, Resting, Stopped, Rest, Agree
  <2>2. QED
    BY <1>0, <1>7, <2>1, SerialBegin DEF BeginListen, Steps
<1>8. CASE ListenDirective \/ StopListen \/ TimerExpires \/ ListenTimeout
  BY <1>8 DEF ListenDirective, StopListen, TimerExpires, ListenTimeout, SerialInv, At, Rest, Agree
<1>9. QED
  BY <1>1, <1>2, <1>3, <1>4, <1>5, <1>6, <1>7, <1>8 DEF Directive

LEMMA SerialAlways == Spec => [](Inv /\ NullInv /\ SerialInv)
<1>1. Init => Inv /\ NullInv /\ SerialInv
  <2>1. Init => NullInv
    BY DEF Init, NullInv, Bringing
  <2>2. Init => SerialInv
    <3>1. Init => \A t \in Threads : At(t) /\ pc[t] = "idle"
      BY DEF Init, At, Resting, Stopped, Rest, Agree
    <3>2. QED
      BY <3>1 DEF SerialInv, Threads
  <2>3. QED
    BY <2>1, <2>2, LockInit
<1>2. Inv /\ NullInv /\ SerialInv /\ [Next]_vars => (Inv /\ NullInv /\ SerialInv)'
  <2>1. ASSUME SerialInv, UNCHANGED vars PROVE SerialInv'
    BY <2>1 DEF SerialInv, At, Rest, Agree
  <2>2. Inv /\ NullInv /\ SerialInv /\ Next => SerialInv'
    BY SerialStep, SerialCalls DEF Next
  <2>3. QED
    BY <2>1, <2>2, NullNext, LockNext
<1>3. QED
  BY <1>1, <1>2, PTL DEF Spec

LEMMA SerialRest == Inv /\ SerialInv /\ Quiet /\ ~overlapped => Rest
BY DEF SerialInv, Quiet, At, Resting

\* As long as calls do not overlap, state, player, play queue and token agree
\* whenever the system is at rest, after any sequence of directives, ends,
\* pauses and resumes (duer_audio_play_cb, duer_queue_clear_cb,
\* duer_audio_stop_cb, duer_pause_audio_internal, duer_resume_audio_internal).
THEOREM StatesAgree == Spec => []StateMatchesPlayer
<1>1. Inv /\ SerialInv => StateMatchesPlayer
  BY SerialRest DEF StateMatchesPlayer, Rest, Agree
<1>2. QED
  BY <1>1, SerialAlways, PTL

\* As long as calls do not overlap, speech and audio never play together
\* (duer_start_audio_play, duer_speak_cb).
THEOREM SpeechBeforeAudio == Spec => []SpeechFirstAlone
<1>1. Inv /\ SerialInv => SpeechFirstAlone
  BY SerialRest DEF SpeechFirstAlone, SpeechFirst, Rest, Agree
<1>2. QED
  BY <1>1, SerialAlways, PTL

-----------------------------------------------------------------------------
(* Listening. *)

LEMMA ListenStepKeeps == ASSUME ListenEnds, NEW t \in Threads, ThreadStep(t) PROVE ListenEnds'
<1>1. CASE Acquire(t) \/ Release(t)
  BY <1>1 DEF Acquire, Release, ListenEnds
<1>2. CASE StartStep(t)
  BY <1>2 DEF StartStep, StartNothing, StartTop, StartCheck, StartPend, StartRewind,
     StartPlay, Hand, ListenEnds
<1>3. CASE QueueStep(t)
  BY <1>3 DEF QueueStep, ReplaceTest, ReplaceStop, Fill, AppendItem, Keep, Trim, Stop,
     Empty, ListenEnds
<1>4. CASE PlayerStep(t)
  BY <1>4 DEF PlayerStep, EndedTest, Pop, PauseTest, Pause, Position, ResumeTest, Resume,
     ResumeWhere, SeekNothing, SeekTop, ListenEnds
<1>5. CASE SpeechStep(t) \/ Interrupt(t)
  BY <1>5 DEF SpeechStep, Speak, SpokenTest, Silent, RoundTest, Interrupt, ListenEnds
<1>6. CASE Listen(t)
  BY <1>6 DEF Listen, ListenEnds
<1>7. QED
  BY <1>1, <1>2, <1>3, <1>4, <1>5, <1>6 DEF ThreadStep, ListenStep

\* A listen always has its timer armed or expired, whatever StopListen, the late
\* expiry of an earlier listen and the user do (duer_dcs_on_listen_started,
\* duer_listen_stop_cb, duer_listen_timeout).
THEOREM ListenAlwaysEnds == Spec => []ListenEnds
<1>1. Init => ListenEnds
  BY DEF Init, ListenEnds
<1>2. ASSUME ListenEnds, \/ Directive \/ AudioEnds \/ BeginSpeak \/ SpeechEnds \/ BeginListen
      PROVE  ListenEnds'
  BY <1>2 DEF Directive, BeginPlay, BeginClear, AudioEnds, BeginSpeak, SpeechEnds, BeginListen,
     ListenEnds
<1>3. ASSUME ListenEnds, \/ ListenDirective \/ StopListen \/ TimerExpires \/ ListenTimeout
      PROVE  ListenEnds'
  BY <1>3 DEF ListenDirective, StopListen, TimerExpires, ListenTimeout, ListenEnds
<1>4. ListenEnds /\ [Next]_vars => ListenEnds'
  <2>1. ASSUME ListenEnds, UNCHANGED vars PROVE ListenEnds'
    BY <2>1 DEF ListenEnds
  <2>2. QED
    BY <1>2, <1>3, <2>1, ListenStepKeeps DEF Next
<1>5. QED
  BY <1>1, <1>4, PTL DEF Spec
=============================================================================
