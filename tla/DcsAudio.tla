------------------------------- MODULE DcsAudio -------------------------------
(***************************************************************************)
(* The audio and speech channels of the DCS client:                        *)
(*   lightduer_dcs_audio_player.c  the play queue and the player's state,  *)
(*   lightduer_dcs_voice_output.c  speech, which goes before audio,        *)
(*   lightduer_dcs_voice_input.c   listening, which silences both.         *)
(*                                                                         *)
(* Actors.  The event task runs the cloud's directives; the application's  *)
(* audio and speech players call back from threads of their own when they  *)
(* come to an end; the user's thread starts to listen; a timer ends it.    *)
(* The states of the two channels are volatile integers without a lock, so *)
(* each access is a step; the play queue is only touched under             *)
(* s_queue_lock, and what a thread does to it there is one step.           *)
(*                                                                         *)
(* duer_mutex_lock is taken to wait, as on Linux and mbed.  The players    *)
(* are the application's: each handler starts or stops one and returns.    *)
(* Left out: reports to the cloud, malformed directives, failing           *)
(* allocations and what the application does to its players by itself.     *)
(***************************************************************************)
EXTENDS Integers, Sequences, FiniteSets

CONSTANTS
    Behaviors,  \* the directives on the queue that the cloud sends
    MaxItems,   \* bound: items the cloud sends
    MaxCalls    \* bound: other directives and listens

AllBehaviors == {"REPLACE_ALL", "ENQUEUE", "REPLACE_ENQUEUED",
                 "CLEAR_ENQUEUED", "CLEAR_ALL", "STOP"}

ASSUME DcsAudioAssumption ==
    /\ Behaviors \subseteq AllBehaviors
    /\ MaxItems \in Nat /\ MaxCalls \in Nat

Threads == {"directive", "player", "speaker", "user"}
Nobody == "nobody"
Items == 1 .. MaxItems
NULL == 0
States == {"PLAYING", "STOPPED", "PAUSED", "FINISHED"}

VARIABLES
    state, offset,  \* s_play_state and s_play_offset of the audio player
    token,          \* s_latest_token: the item it was copied from
    queue,          \* s_play_queue, the first item at the head
    lock,           \* the thread that holds s_queue_lock
    speech,         \* voice output is PLAYING
    multi,          \* s_is_multiple_dialog
    listening,      \* s_is_listening
    timer, expired, \* the listen timer: armed; expired and its callback to run
    audio,          \* the application: the item its audio player plays
    speaking,       \* the application: its speech player speaks
    pc,             \* per thread: its next step
    item,           \* per thread: the item it was given, or has read from the queue
    items, calls,   \* items sent, other directives and listens begun
    overlapped      \* history: a call began while another was running

playVars   == <<state, offset, token, queue>>
dialogVars == <<speech, multi, listening, timer, expired>>
appVars    == <<audio, speaking>>
callVars   == <<items, calls, overlapped>>
vars == <<playVars, lock, dialogVars, appVars, pc, item, callVars>>

Init ==
    /\ state = "FINISHED" /\ offset = 0 /\ token = NULL
    /\ queue = <<>> /\ lock = Nobody
    /\ speech = FALSE /\ multi = FALSE
    /\ listening = FALSE /\ timer = FALSE /\ expired = FALSE
    /\ audio = NULL /\ speaking = FALSE
    /\ pc = [t \in Threads |-> "idle"]
    /\ item = [t \in Threads |-> NULL]
    /\ items = 0 /\ calls = 0 /\ overlapped = FALSE

-----------------------------------------------------------------------------
(* Control. *)

Go(t, a, b) == pc[t] = a /\ pc' = [pc EXCEPT ![t] = b]

\* The call of a thread begins.
Begin(t, first) ==
    /\ Go(t, "idle", first)
    /\ overlapped' = (overlapped \/ \E u \in Threads : pc[u] # "idle")

\* Steps that need s_queue_lock first.
Locking == {"fill", "append", "keep", "trim", "empty", "pop", "start", "seek"}

\* Mutant: the lock only tries, as on FreeRTOS.
Acquire_Tries(t) ==
    /\ pc[t] \in Locking /\ lock # t
    /\ lock' = t
    /\ UNCHANGED <<playVars, dialogVars, appVars, pc, item, callVars>>

Acquire(t) ==
    /\ pc[t] \in Locking /\ lock = Nobody
    /\ lock' = t
    /\ UNCHANGED <<playVars, dialogVars, appVars, pc, item, callVars>>

Release(t) ==
    /\ Go(t, "unlock", "idle")
    /\ lock' = Nobody
    /\ UNCHANGED <<playVars, dialogVars, appVars, item, callVars>>

-----------------------------------------------------------------------------
(* The play queue. *)

HeadOf(q) == IF q = <<>> THEN NULL ELSE Head(q)
Popped(q) == IF q = <<>> THEN q ELSE Tail(q)

\* duer_empty_play_queue pops until it gets a NULL, which is what an empty queue
\* returns and what some of its nodes hold.
Emptied(q) ==
    LET popped == {i \in DOMAIN q : \A j \in 1 .. i - 1 : q[j] # NULL}
    IN  SubSeq(q, Cardinality(popped) + 1, Len(q))

-----------------------------------------------------------------------------
(* duer_start_audio_play, with s_queue_lock held. *)

StartNothing(t) ==
    /\ lock = t /\ HeadOf(queue) = NULL
    /\ Go(t, "start", "unlock")
    /\ state' = "FINISHED"
    /\ UNCHANGED <<offset, token, queue, lock, dialogVars, appVars, item, callVars>>

StartTop(t) ==
    /\ lock = t /\ HeadOf(queue) # NULL
    /\ Go(t, "start", "check")
    /\ item' = [item EXCEPT ![t] = Head(queue)]
    /\ UNCHANGED <<playVars, lock, dialogVars, appVars, callVars>>

\* Mutant: audio starts without a look at speech.
StartCheck_Always(t) ==
    /\ Go(t, "check", "play")
    /\ UNCHANGED <<playVars, lock, dialogVars, appVars, item, callVars>>

\* duer_speech_need_play_internal
StartCheck(t) ==
    /\ Go(t, "check", IF speech THEN "pend" ELSE "play")
    /\ UNCHANGED <<playVars, lock, dialogVars, appVars, item, callVars>>

StartPend(t) ==
    /\ Go(t, "pend", "rewind")
    /\ state' = "PAUSED"
    /\ UNCHANGED <<offset, token, queue, lock, dialogVars, appVars, item, callVars>>

StartRewind(t) ==
    /\ Go(t, "rewind", "unlock")
    /\ offset' = 0
    /\ UNCHANGED <<state, token, queue, lock, dialogVars, appVars, item, callVars>>

StartPlay(t) ==
    /\ Go(t, "play", "hand")
    /\ state' = "PLAYING" /\ token' = item[t]
    /\ UNCHANGED <<offset, queue, lock, dialogVars, appVars, item, callVars>>

\* duer_dcs_audio_play_handler or duer_dcs_audio_seek_handler: the player takes
\* the item's URL, whatever it played before.
Hand(t) ==
    /\ Go(t, "hand", "unlock")
    /\ audio' = item[t]
    /\ UNCHANGED <<playVars, lock, dialogVars, speaking, item, callVars>>

StartStep(t) == \/ StartNothing(t) \/ StartTop(t) \/ StartCheck(t) \/ StartPend(t)
                \/ StartRewind(t) \/ StartPlay(t) \/ Hand(t)

-----------------------------------------------------------------------------
(* Directives: Play, ClearQueue and Stop. *)

\* Mutant: items without end.
BeginPlay_Unbounded(behavior, first) ==
    /\ behavior \in Behaviors
    /\ Begin("directive", first)
    /\ items' = items + 1
    /\ item' = [item EXCEPT !["directive"] = items + 1]
    /\ UNCHANGED <<playVars, lock, dialogVars, appVars, calls>>

\* A Play directive brings a new item.
BeginPlay(behavior, first) ==
    /\ behavior \in Behaviors /\ items < MaxItems
    /\ Begin("directive", first)
    /\ items' = items + 1
    /\ item' = [item EXCEPT !["directive"] = items + 1]
    /\ UNCHANGED <<playVars, lock, dialogVars, appVars, calls>>

\* A queue or stop directive without one; the last two stop the player first.
BeginClear(behavior, first) ==
    /\ behavior \in Behaviors /\ calls < MaxCalls
    /\ Begin("directive", first)
    /\ calls' = calls + 1
    /\ audio' = IF behavior = "CLEAR_ENQUEUED" THEN audio ELSE NULL
    /\ UNCHANGED <<playVars, lock, dialogVars, speaking, item, items>>

Directive ==
    \/ BeginPlay("REPLACE_ALL", "replace")
    \/ BeginPlay("ENQUEUE", "append")
    \/ BeginPlay("REPLACE_ENQUEUED", "keep")
    \/ BeginClear("CLEAR_ENQUEUED", "trim")
    \/ BeginClear("CLEAR_ALL", "stop_clear")
    \/ BeginClear("STOP", "stop")

\* Outside the lock: is something playing?
ReplaceTest(t) ==
    /\ Go(t, "replace", IF state = "PLAYING" THEN "replace_stop" ELSE "fill")
    /\ UNCHANGED <<playVars, lock, dialogVars, appVars, item, callVars>>

ReplaceStop(t) ==
    /\ Go(t, "replace_stop", "fill")
    /\ audio' = NULL
    /\ UNCHANGED <<playVars, lock, dialogVars, speaking, item, callVars>>

Fill(t) ==
    /\ lock = t /\ Go(t, "fill", "start")
    /\ queue' = Append(Emptied(queue), item[t])
    /\ UNCHANGED <<state, offset, token, lock, dialogVars, appVars, item, callVars>>

\* A queue that had come to its end starts again.
AppendItem(t) ==
    /\ lock = t /\ Go(t, "append", IF state = "FINISHED" THEN "start" ELSE "unlock")
    /\ queue' = Append(queue, item[t])
    /\ UNCHANGED <<state, offset, token, lock, dialogVars, appVars, item, callVars>>

\* Mutant: the new item is pushed before the one that plays.
Keep_NewFirst(t) ==
    /\ lock = t /\ Go(t, "keep", IF state = "FINISHED" THEN "start" ELSE "unlock")
    /\ queue' = Emptied(Popped(queue)) \o <<item[t], HeadOf(queue)>>
    /\ UNCHANGED <<state, offset, token, lock, dialogVars, appVars, item, callVars>>

\* The head is popped and pushed again after the others were dropped.
Keep(t) ==
    /\ lock = t /\ Go(t, "keep", IF state = "FINISHED" THEN "start" ELSE "unlock")
    /\ queue' = Emptied(Popped(queue)) \o <<HeadOf(queue), item[t]>>
    /\ UNCHANGED <<state, offset, token, lock, dialogVars, appVars, item, callVars>>

Trim(t) ==
    /\ lock = t /\ Go(t, "trim", "unlock")
    /\ queue' = Append(Emptied(Popped(queue)), HeadOf(queue))
    /\ UNCHANGED <<state, offset, token, lock, dialogVars, appVars, item, callVars>>

Stop(t) ==
    /\ Go(t, "stop", "idle") \/ Go(t, "stop_clear", "empty")
    /\ state' = "STOPPED"
    /\ UNCHANGED <<offset, token, queue, lock, dialogVars, appVars, item, callVars>>

Empty(t) ==
    /\ lock = t /\ Go(t, "empty", "unlock")
    /\ queue' = Emptied(queue)
    /\ UNCHANGED <<state, offset, token, lock, dialogVars, appVars, item, callVars>>

QueueStep(t) == \/ ReplaceTest(t) \/ ReplaceStop(t) \/ Fill(t) \/ AppendItem(t)
                \/ Keep(t) \/ Trim(t) \/ Stop(t) \/ Empty(t)

-----------------------------------------------------------------------------
(* duer_dcs_audio_on_finished *)

\* The player comes to the end of its item and calls back.
AudioEnds ==
    /\ audio # NULL
    /\ Begin("player", "ended")
    /\ audio' = NULL
    /\ UNCHANGED <<playVars, lock, dialogVars, speaking, item, items, calls>>

EndedTest(t) ==
    /\ Go(t, "ended", IF state = "PLAYING" THEN "pop" ELSE "idle")
    /\ UNCHANGED <<playVars, lock, dialogVars, appVars, item, callVars>>

Pop(t) ==
    /\ lock = t /\ Go(t, "pop", "start")
    /\ queue' = Popped(queue)
    /\ UNCHANGED <<state, offset, token, lock, dialogVars, appVars, item, callVars>>

-----------------------------------------------------------------------------
(* duer_pause_audio_internal and duer_resume_audio_internal *)

\* After the pause the directive speaks and the user's thread listens.
AfterPause(t) == IF t = "directive" THEN "speak" ELSE "listen"

PauseTest(t) ==
    /\ Go(t, "pause", IF state = "PLAYING" THEN "pausing" ELSE AfterPause(t))
    /\ UNCHANGED <<playVars, lock, dialogVars, appVars, item, callVars>>

Pause(t) ==
    /\ Go(t, "pausing", "position")
    /\ state' = "PAUSED"
    /\ UNCHANGED <<offset, token, queue, lock, dialogVars, appVars, item, callVars>>

\* The player says where it was: at the start, or further on.
Position(t) ==
    /\ Go(t, "position", AfterPause(t))
    /\ offset' \in IF audio = NULL THEN {0} ELSE {0, 1}
    /\ audio' = NULL
    /\ UNCHANGED <<state, token, queue, lock, dialogVars, speaking, item, callVars>>

ResumeTest(t) ==
    /\ Go(t, "resume", IF state = "PAUSED" THEN "resuming" ELSE "idle")
    /\ UNCHANGED <<playVars, lock, dialogVars, appVars, item, callVars>>

Resume(t) ==
    /\ Go(t, "resuming", "where")
    /\ state' = "PLAYING"
    /\ UNCHANGED <<offset, token, queue, lock, dialogVars, appVars, item, callVars>>

ResumeWhere(t) ==
    /\ Go(t, "where", IF offset = 0 THEN "start" ELSE "seek")
    /\ UNCHANGED <<playVars, lock, dialogVars, appVars, item, callVars>>

\* Mutant: the early return keeps the lock.
SeekNothing_KeepsLock(t) ==
    /\ lock = t /\ HeadOf(queue) = NULL
    /\ Go(t, "seek", "idle")
    /\ state' = "FINISHED"
    /\ UNCHANGED <<offset, token, queue, lock, dialogVars, appVars, item, callVars>>

SeekNothing(t) ==
    /\ lock = t /\ HeadOf(queue) = NULL
    /\ Go(t, "seek", "unlock")
    /\ state' = "FINISHED"
    /\ UNCHANGED <<offset, token, queue, lock, dialogVars, appVars, item, callVars>>

SeekTop(t) ==
    /\ lock = t /\ HeadOf(queue) # NULL
    /\ Go(t, "seek", "hand")
    /\ item' = [item EXCEPT ![t] = Head(queue)]
    /\ UNCHANGED <<playVars, lock, dialogVars, appVars, callVars>>

PlayerStep(t) == \/ EndedTest(t) \/ Pop(t) \/ PauseTest(t) \/ Pause(t) \/ Position(t)
                 \/ ResumeTest(t) \/ Resume(t) \/ ResumeWhere(t)
                 \/ SeekNothing(t) \/ SeekTop(t)

-----------------------------------------------------------------------------
(* Voice output: the Speak directive and duer_dcs_speech_on_finished. *)

BeginSpeak ==
    /\ calls < MaxCalls
    /\ Begin("directive", "pause")
    /\ speech' = TRUE /\ calls' = calls + 1
    /\ UNCHANGED <<playVars, lock, multi, listening, timer, expired, appVars, item, items>>

\* duer_dcs_speak_handler
Speak(t) ==
    /\ Go(t, "speak", "idle")
    /\ speaking' = TRUE
    /\ UNCHANGED <<playVars, lock, dialogVars, audio, item, callVars>>

SpeechEnds ==
    /\ speaking
    /\ Begin("speaker", "spoken")
    /\ speaking' = FALSE
    /\ UNCHANGED <<playVars, lock, dialogVars, audio, item, items, calls>>

SpokenTest(t) ==
    /\ Go(t, "spoken", IF speech THEN "silent" ELSE "idle")
    /\ UNCHANGED <<playVars, lock, dialogVars, appVars, item, callVars>>

Silent(t) ==
    /\ Go(t, "silent", "round")
    /\ speech' = FALSE
    /\ UNCHANGED <<playVars, lock, multi, listening, timer, expired, appVars, item, callVars>>

\* duer_is_multiple_round_dialogue: the user is expected to go on talking.
RoundTest(t) ==
    /\ Go(t, "round", IF multi THEN "idle" ELSE "resume")
    /\ UNCHANGED <<playVars, lock, dialogVars, appVars, item, callVars>>

SpeechStep(t) == Speak(t) \/ SpokenTest(t) \/ Silent(t) \/ RoundTest(t)

-----------------------------------------------------------------------------
(* Voice input: duer_dcs_on_listen_started, Listen, StopListen, the timer.   *)
(* What s_mutex protects is one step.                                        *)

BeginListen ==
    /\ calls < MaxCalls
    /\ Begin("user", "interrupt")
    /\ multi' = FALSE /\ calls' = calls + 1
    /\ UNCHANGED <<playVars, lock, speech, listening, timer, expired, appVars, item, items>>

\* duer_speech_on_stop_internal
Interrupt(t) ==
    /\ Go(t, "interrupt", "pause")
    /\ speech' = FALSE
    /\ UNCHANGED <<playVars, lock, multi, listening, timer, expired, appVars, item, callVars>>

Listen(t) ==
    /\ Go(t, "listen", "idle")
    /\ listening' = TRUE
    /\ timer' = (timer \/ ~listening)
    /\ UNCHANGED <<playVars, lock, speech, multi, expired, appVars, item, callVars>>

ListenDirective ==
    /\ pc["directive"] = "idle" /\ ~multi
    /\ multi' = TRUE
    /\ UNCHANGED <<playVars, lock, speech, listening, timer, expired, appVars, pc, item, callVars>>

\* Mutant: the timer is stopped and the flag stays.
StopListen_KeepsFlag ==
    /\ pc["directive"] = "idle" /\ listening
    /\ timer' = FALSE
    /\ UNCHANGED <<playVars, lock, speech, multi, listening, expired, appVars, pc, item, callVars>>

StopListen ==
    /\ pc["directive"] = "idle" /\ listening
    /\ listening' = FALSE /\ timer' = FALSE
    /\ UNCHANGED <<playVars, lock, speech, multi, expired, appVars, pc, item, callVars>>

\* The timer's queue takes the expiry; the callback runs later.
TimerExpires ==
    /\ timer /\ ~expired
    /\ timer' = FALSE /\ expired' = TRUE
    /\ UNCHANGED <<playVars, lock, speech, multi, listening, appVars, pc, item, callVars>>

\* duer_listen_timeout
ListenTimeout ==
    /\ expired
    /\ expired' = FALSE /\ listening' = FALSE
    /\ UNCHANGED <<playVars, lock, speech, multi, timer, appVars, pc, item, callVars>>

ListenStep(t) == Interrupt(t) \/ Listen(t)

-----------------------------------------------------------------------------
ThreadStep(t) == \/ Acquire(t) \/ Release(t) \/ StartStep(t) \/ QueueStep(t)
                 \/ PlayerStep(t) \/ SpeechStep(t) \/ ListenStep(t)

Next ==
    \/ Directive \/ AudioEnds \/ BeginSpeak \/ SpeechEnds \/ BeginListen
    \/ ListenDirective \/ StopListen \/ TimerExpires \/ ListenTimeout
    \/ \E t \in Threads : ThreadStep(t)

\* A thread inside a call runs on; so does the listen timer.
Fairness == /\ \A t \in Threads : WF_vars(ThreadStep(t))
            /\ WF_vars(TimerExpires) /\ WF_vars(ListenTimeout)

Spec == Init /\ [][Next]_vars /\ Fairness

-----------------------------------------------------------------------------
Steps == Locking \cup
    {"idle", "unlock", "check", "pend", "rewind", "play", "hand", "replace", "replace_stop",
     "stop", "stop_clear", "ended", "pause", "pausing", "position", "resume", "resuming",
     "where", "speak", "spoken", "silent", "round", "interrupt", "listen"}

TypeOK ==
    /\ state \in States /\ offset \in {0, 1}
    /\ token \in Items \cup {NULL} /\ queue \in Seq(Items \cup {NULL})
    /\ lock \in Threads \cup {Nobody}
    /\ speech \in BOOLEAN /\ multi \in BOOLEAN
    /\ listening \in BOOLEAN /\ timer \in BOOLEAN /\ expired \in BOOLEAN
    /\ audio \in Items \cup {NULL} /\ speaking \in BOOLEAN
    /\ pc \in [Threads -> Steps] /\ item \in [Threads -> Items \cup {NULL}]
    /\ items \in 0 .. MaxItems /\ calls \in 0 .. MaxCalls /\ overlapped \in BOOLEAN

Quiet == \A t \in Threads : pc[t] = "idle"

\* The URL a handler gives to the player is that of the item at the head of the
\* queue, which is not freed: whatever the other threads do meanwhile
\* (duer_start_audio_play and the seek of duer_resume_audio_internal).
HandsLiveHead ==
    \A t \in Threads : pc[t] = "hand" => queue # <<>> /\ item[t] = Head(queue)

\* Calls that do not overlap leave the two in step: the player's state is PLAYING
\* exactly when the application plays, what it plays is the head of the queue,
\* and s_latest_token is its token.
StateMatchesPlayer ==
    Quiet /\ ~overlapped =>
        /\ state = "PLAYING" <=> audio # NULL
        /\ audio # NULL => audio = HeadOf(queue) /\ audio = token

\* Speech goes before audio: when no call is under way the two do not play
\* together.  (Comment of duer_start_audio_play, line 192.)
SpeechFirst == Quiet => ~(speech /\ audio # NULL)

\* The same as long as calls do not overlap.
SpeechFirstAlone == ~overlapped => SpeechFirst

\* A listen always ends by itself: its timer is armed or has expired.
ListenEnds == listening => timer \/ expired

\* Whoever takes s_queue_lock gives it back, on every path: no call, and no
\* directive after it, waits for ever (duer_resume_audio_internal returns early
\* with the lock held).
LockReleased == lock # Nobody ~> lock = Nobody
=============================================================================
